------------------------- MODULE MCProviderAttempts -------------------------
(* The attempts of one phase entry on two instances; a behaviour is of one *)
(* of them.  The constants of the .cfg are those of the first, in which     *)
(* daemons crash, hosts reboot and drains fail; in the second no daemon is  *)
(* killed, so a phase entry has to end.                                     *)
EXTENDS ProviderAttempts

VARIABLE which

Served == INSTANCE ProviderAttempts WITH
    MaxVersion <- 4, MaxLeader <- 1, MaxBoot <- 1,
    Faults <- {"invoke", "late", "stop"}

InitEither == Init /\ which \in {"disturbed", "served"}

NextEither ==
    \/ which = "disturbed" /\ Next /\ UNCHANGED which
    \/ which = "served" /\ Served!Next /\ UNCHANGED which

\* Fairness of the behaviours that are Served's: the scheduler keeps calling
\* the worker of an admitted ticket, every call of the coordinator is bounded
\* by timeouts, and a stop request runs to its end.
SpecEither ==
    /\ InitEither
    /\ [][NextEither]_<<vars, which>>
    /\ WF_vars(which = "served" /\ Served!JobStep /\ UNCHANGED which)
    /\ WF_vars(which = "served" /\ Served!CancelWork /\ UNCHANGED which)
    /\ WF_vars(which = "served" /\ Served!CompleteStop /\ UNCHANGED which)

\* An admitted ticket does not run for ever: through repairs, rejections, failed
\* invocations, deadlines, the retry epoch and stops the phase is finished, or
\* the ticket is stopped, exhausted or blocked (Coordinator.Run's terminal codes
\* and the Store evidence each of them needs).
EntrySettles == which = "served" /\ tk.st = "run" ~> tk.st # "run"
=============================================================================
