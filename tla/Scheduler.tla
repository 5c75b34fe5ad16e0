------------------------------ MODULE Scheduler -------------------------------
(***************************************************************************)
(* Which ticket a loop of the workflow runtime picks:                      *)
(*   workflowruntime/scheduler.go   Tick and its volatile fairness hint    *)
(*   workflowruntime/runtime.go     the pool of loops                      *)
(*   workflowruntime/admission.go   one activity per ticket, stop latches  *)
(*                                                                         *)
(* Tickets are numbered in the order of (project, ticket).  A tick works   *)
(* on a snapshot that other loops, operators and workers outdate; which    *)
(* tickets changed since is fresh, the versions themselves are left out.   *)
(* Where a ticket is dispatched (worker, worktree, authenticated checkout) *)
(* is a kind; what workers do is in the modules of their phases.           *)
(***************************************************************************)
EXTENDS Naturals, Sequences, FiniteSets

CONSTANTS
    Loops,       \* RuntimeConfig.Workers
    N,           \* bound: tickets
    MaxMoves     \* bound: controls, resumes and moves of tickets

VARIABLES
    kind,     \* how each ticket is dispatched: rest, wait, local, source
    sealed,   \* stop latches of the admission
    active,   \* admission.active: the loop whose activity a ticket has, or none
    after,    \* schedulerSelection.after
    loop,     \* where each loop is: st, its ticket t, and the rest of its order
    moves,    \* how often a ticket was controlled or moved
    fresh     \* the tickets that have not changed since the loop's snapshot

vars == <<kind, sealed, active, after, loop, moves, fresh>>

Tickets == 1 .. N
Idle    == [st |-> "idle", t |-> 0, rest |-> <<>>]

Init ==
    /\ kind \in {k \in [Tickets -> {"wait", "local", "rest"}] : \A t \in Tickets : k[t] = "rest" => t = N}
    /\ sealed = {N} /\ active = [t \in Tickets |-> "none"] /\ after = 0
    /\ loop = [l \in Loops |-> Idle]
    /\ fresh = [l \in Loops |-> {}] /\ moves = 0

\* activeState
Active(t) == kind[t] # "rest"

\* The active tickets of a snapshot, sorted, beginning after the hint.
Sorted(S)  == SelectSeq([i \in 1 .. N |-> i], LAMBDA t : t \in S)
RotatedMutant(hint) ==  \* A plausible bug: the hint is ignored.
    Sorted({t \in Tickets : Active(t)})

Rotated(hint) ==
    Sorted({t \in Tickets : Active(t) /\ t > hint}) \o Sorted({t \in Tickets : Active(t) /\ t <= hint})

TickBegins(l) ==
    /\ loop[l].st = "idle"
    /\ loop' = [loop EXCEPT ![l] = [st |-> "scan", t |-> 0, rest |-> Rotated(after)]]
    /\ fresh' = [fresh EXCEPT ![l] = Tickets]
    /\ UNCHANGED <<kind, sealed, active, after, moves>>

TickEnds(l) ==
    /\ loop[l].st = "scan" /\ loop[l].rest = <<>>
    /\ loop' = [loop EXCEPT ![l] = Idle]
    /\ UNCHANGED <<kind, sealed, active, after, fresh, moves>>

\* admission.Begin: refused while stopped or while another loop has the ticket;
\* once admitted the hint moves, before anything else is looked at.
Admit(l) ==
    /\ loop[l].st = "scan" /\ loop[l].rest # <<>>
    /\ LET t == Head(loop[l].rest)
       IN  IF t \in sealed \/ active[t] # "none"
           THEN /\ loop' = [loop EXCEPT ![l].rest = Tail(@)]
                /\ UNCHANGED <<active, after, moves>>
           ELSE /\ active' = [active EXCEPT ![t] = l]
                /\ after' = t
                /\ loop' = [loop EXCEPT ![l] = [st |-> "admitted", t |-> t, rest |-> Tail(@.rest)]]
    /\ UNCHANGED <<kind, sealed, fresh, moves>>

\* The end of an activity, and then either the rest of the tick or its end.
Ends(l, st) ==
    /\ active' = [active EXCEPT ![loop[l].t] = "none"]
    /\ loop' = [loop EXCEPT ![l] = IF st = "scan" THEN [@ EXCEPT !.st = "scan", !.t = 0] ELSE Idle]

\* The durable row and RuntimeAdmissionReady; a row that changed lets the tick
\* go on, an error ends it.
Check(l) ==
    /\ loop[l].st = "admitted"
    /\ LET t == loop[l].t
       IN  \/ t \notin fresh[l] /\ Ends(l, "scan")
           \/ Ends(l, "idle")
           \/ /\ t \in fresh[l] /\ Active(t)
              /\ loop' = [loop EXCEPT ![l].st = IF kind[t] = "wait" THEN "run" ELSE "ensure"]
              /\ UNCHANGED active
    /\ UNCHANGED <<kind, sealed, after, fresh, moves>>

\* Ensure, or the authentication of a checkout with work in it; only an
\* ordinary worktree that is busy lets the tick go on.
Ensure(l) ==
    /\ loop[l].st = "ensure"
    /\ \/ kind[loop[l].t] = "local" /\ Ends(l, "scan")
       \/ Ends(l, "idle")
       \/ loop' = [loop EXCEPT ![l].st = "run"] /\ UNCHANGED active
    /\ UNCHANGED <<kind, sealed, after, fresh, moves>>

\* One worker invocation ends the tick; it may have moved the ticket.
Run(l) ==
    /\ loop[l].st = "run"
    /\ Ends(l, "idle")
    /\ \E k \in {"rest", "wait", "local"} :
          /\ IF k = kind[loop[l].t] THEN moves' = moves ELSE moves < MaxMoves /\ moves' = moves + 1
          /\ kind' = [kind EXCEPT ![loop[l].t] = k]
          /\ fresh' = [m \in Loops |->
                IF k = kind[loop[l].t] THEN fresh[m] ELSE fresh[m] \ {loop[l].t}]
    /\ UNCHANGED <<sealed, after>>

\* Control seals a ticket, joins its activity and rests it; a resume arms it.
Seal(t) ==
    /\ moves < MaxMoves /\ moves' = moves + 1
    /\ t \notin sealed
    /\ sealed' = sealed \cup {t}
    /\ UNCHANGED <<kind, active, after, loop, fresh>>

Rest(t) ==
    /\ moves < MaxMoves /\ moves' = moves + 1
    /\ t \in sealed /\ active[t] = "none" /\ Active(t)
    /\ kind' = [kind EXCEPT ![t] = "rest"]
    /\ fresh' = [l \in Loops |-> fresh[l] \ {t}]
    /\ UNCHANGED <<sealed, active, after, loop>>

Resume(t) ==
    /\ moves < MaxMoves /\ moves' = moves + 1
    /\ kind[t] = "rest" /\ active[t] = "none"
    /\ \E k \in {"wait", "local", "source"} : kind' = [kind EXCEPT ![t] = k]
    /\ sealed' = sealed \ {t}
    /\ fresh' = [l \in Loops |-> fresh[l] \ {t}]
    /\ UNCHANGED <<active, after, loop>>

LoopStep(l) == TickBegins(l) \/ TickEnds(l) \/ Admit(l) \/ Check(l) \/ Ensure(l) \/ Run(l)

Next ==
    \/ \E l \in Loops : LoopStep(l)
    \/ \E t \in Tickets : Seal(t) \/ Rest(t) \/ Resume(t)

\* Every loop goes on: a tick returns because each call in it is bounded.
Fairness == \A l \in Loops : WF_vars(LoopStep(l))

Spec == Init /\ [][Next]_vars /\ Fairness

\* scheduler.go Tick: "an unchanged external wait or a repeated readiness
\* error cannot starve another ticket": a ticket that can run is picked.
ReadyIsPicked ==
    \A t \in Tickets : []<>(active[t] # "none" \/ ~Active(t) \/ t \in sealed)
===============================================================================
