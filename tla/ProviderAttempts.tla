-------------------------- MODULE ProviderAttempts --------------------------
(***************************************************************************)
(* Paid provider attempts of one phase entry of one ticket:                *)
(*   store/provider.go, provider_retry.go, provider_rejection.go           *)
(*   providercoord/coordinator.go (Coordinator.Run)                        *)
(*   workflowworker/worker.go (what the worker makes of the result)        *)
(*   processsupervisor/supervisor.go (Run, Drain, DrainPersisted)          *)
(*   daemon/daemon.go (Recover, provider part)                             *)
(*                                                                         *)
(* The coordinator claims an attempt durably, starts a gated process,      *)
(* records its identity, releases it, waits, proves the process group is   *)
(* gone and only then finishes the attempt, each in a transaction of its   *)
(* own.  An operator stop revokes the ticket's fence between any two of    *)
(* them, the daemon may crash and the host may reboot.  A phase entry has  *)
(* two attempts (an ordinary one and one repair or retry) and two more if  *)
(* the operator grants the one retry epoch.                                *)
(*                                                                         *)
(* A production route has one provider and no fallback; the binding that   *)
(* the provider reports may change from call to call.  The lease of the    *)
(* provider slot is held exactly while an attempt is open, so it has no    *)
(* variable of its own.                                                    *)
(***************************************************************************)
EXTENDS Naturals, FiniteSets, SequencesExt

CONSTANTS Bindings,    \* runtime bindings the provider may report
          NoBinding,   \* no binding: the probe failed, or nothing is pending
          Costs,       \* trusted usage a run may report
          MaxCost,     \* tickets.max_cost_micro_usd
          MaxVersion,  \* bound: no operator stop at or above this version
          MaxLeader,   \* bound: daemon starts
          MaxBoot,     \* bound: host boots
          Faults       \* which disturbances of the environment happen

ASSUME AttemptAssumption ==
    /\ NoBinding \notin Bindings
    /\ Costs \subseteq Nat
    /\ {MaxCost, MaxVersion, MaxLeader, MaxBoot} \subseteq Nat \ {0}
    /\ Faults \subseteq {"stop", "crash", "undrained", "unbound", "invoke",
                         "busy", "late"}

VARIABLES
    tk,      \* durable: ticket state, version, runner, blocker, retry epoch
    leader,  \* durable: daemon_instances.leader_epoch
    att,     \* durable: provider_attempts of the entry with their phase runs
    cool,    \* clock: the retry deadline of the last rejection has passed
    late,    \* clock: the ticket's deadline has passed
    busy,    \* durable: what other tickets hold (repository writer, slot)
    up,      \* the daemon process
    job,     \* memory: the Coordinator.Run in progress
    fatal,   \* memory: Coordinator's sticky persistence failure
    proc,    \* world: the process group of each attempt, "gone" if it has none
    boot     \* world: the host's boot identity

durable == <<tk, leader, att>>
clocks  == <<cool, late, busy>>
world   == <<proc, boot>>
vars    == <<durable, clocks, up, job, fatal, world>>

Ids == 1 .. 4

Stops   == {"stopping", "cancelling"}
States  == {"run", "paused", "cancelled", "exhausted", "blocked", "done"} \cup Stops
OpenOut == {"running", "undrained", "undrained_recovery"}
Closed  == {"completed", "invalid_artifact", "server_rejected",
            "result_indeterminate", "cancelled", "invocation_failed",
            "budget_exhausted", "drained_recovery"}
Codes   == {"none", "completed", "canceled", "operator", "failed", "exhausted",
            "budget", "indeterminate", "unavailable"}

FenceSet == [v : Nat, l : Nat, r : Nat]
NoFence  == [v |-> 0, l |-> 0, r |-> 0]

NoJob == [pc |-> "idle", f |-> NoFence, ctx |-> FALSE, b |-> NoBinding,
          rep |-> FALSE, pend |-> NoBinding, rej |-> NoBinding,
          out |-> "running", cost |-> 0, spent |-> 0, res |-> "none"]

TypeOK ==
    /\ tk \in [st : States, v : Nat, r : Nat, code : Codes, epoch : BOOLEAN]
    /\ leader \in Nat
    /\ att \in Seq([f : FenceSet, b : Bindings, rep : BOOLEAN,
                    out : OpenOut \cup Closed, cost : Nat, boot : Nat,
                    launch : {"launching", "released", "quarantined", "drained"}])
    /\ Len(att) <= 4
    /\ cool \in BOOLEAN /\ late \in BOOLEAN
    /\ busy \in {"no", "writer", "slot"}
    /\ up \in {"down", "recovering", "serving", "closing"}
    /\ job \in [pc : {"idle", "preflight", "route", "claimed", "gated", "running",
                      "returned", "drained", "undrained", "retire", "budget",
                      "verdict"},
                f : FenceSet, ctx : BOOLEAN, b : Bindings \cup {NoBinding},
                rep : BOOLEAN, pend : Bindings \cup {NoBinding},
                rej : Bindings \cup {NoBinding}, out : OpenOut \cup Closed,
                cost : Nat, spent : Nat, res : Codes]
    /\ fatal \in BOOLEAN
    /\ proc \in [Ids -> {"gone", "gated", "live", "stray"}]
    /\ boot \in 1 .. MaxBoot
    /\ \A i \in 1 .. Len(att) : att[i].launch = "drained" <=> att[i].out \in Closed

Init ==
    /\ tk = [st |-> "run", v |-> 1, r |-> 1, code |-> "none", epoch |-> FALSE]
    /\ leader = 1
    /\ att = <<>>
    /\ cool = TRUE /\ late = FALSE /\ busy = "no"
    /\ up = "serving"
    /\ job = NoJob
    /\ fatal = FALSE
    /\ proc = [i \in Ids |-> "gone"]
    /\ boot = 1

-----------------------------------------------------------------------------
(* What the Store reads of the phase entry *)

Runs     == Len(att)
Latest   == att[Runs]
LatestIn(outs) == Runs > 0 /\ Latest.out \in outs
Open     == \E i \in 1 .. Runs : att[i].out \in OpenOut
Has(o)   == \E i \in 1 .. Runs : att[i].out = o
Limit    == IF tk.epoch THEN 4 ELSE 2
Charge(i) == IF i <= Runs THEN att[i].cost ELSE 0
Spent    == Charge(1) + Charge(2) + Charge(3) + Charge(4)
Fence    == [v |-> tk.v, l |-> leader, r |-> tk.r]
Fresh    == job.f = Fence

\* reuseCurrentCompletedProviderAttempt: a result under this very fence.
Reusable == \E i \in 1 .. Runs : att[i].out = "completed" /\ att[i].f = job.f

\* pendingProviderTerminalClaim(invalid_artifact) in the repair window.
LoneInvalid == Runs \in {1, 3} /\ LatestIn({"invalid_artifact"})

\* pendingProviderRepairUnavailable: the one repair ended without a result.
InterruptedRepair ==
    /\ Runs \in {2, 4}
    /\ Latest.rep
    /\ Latest.out \in {"invocation_failed", "drained_recovery", "cancelled"}

\* The two last attempts disagree with their phase runs (ErrEvidenceConflict).
Conflict == Runs \in {2, 4} /\ Latest.out \in {"undrained", "undrained_recovery"}

\* authenticateProviderRetryAttemptPair on the last window.
ExhaustedPair ==
    LET a == att[Runs - 1]
        b == att[Runs]
    IN  /\ Runs = Limit
        /\ \A x \in {a, b} :
              /\ x.out \in {"invalid_artifact", "server_rejected", "cancelled",
                            "invocation_failed", "drained_recovery"}
              /\ x.out = "drained_recovery" => ~x.rep
        /\ IF a.out = "invalid_artifact" /\ b.out \in {"invalid_artifact", "server_rejected"}
           THEN a.b = b.b /\ ~a.rep /\ b.rep
           ELSE "invalid_artifact" \in {a.out, b.out} =>
                   b.out = "invalid_artifact" /\ ~a.rep /\ ~b.rep

\* The code of the first check that holds, in the order the code makes them.
First(checks, otherwise) ==
    LET code[cs \in {checks}] ==
          LET held == {i \in DOMAIN cs : cs[i][1]}
          IN  IF held = {} THEN otherwise ELSE cs[Min(held)][2]
    IN  code[checks]

-----------------------------------------------------------------------------
(* Coordinator.Run before the first claim *)

\* The worker of an admitted ticket.  It takes an earlier completed result
\* before it calls a provider again (LatestReusableProviderAttempt).
StartPhase ==
    /\ up = "serving" /\ job.pc = "idle" /\ tk.st = "run"
    /\ job' = [NoJob EXCEPT !.pc = IF Has("completed") THEN "verdict" ELSE "preflight",
                            !.res = IF Has("completed") THEN "completed" ELSE "none",
                            !.f = Fence]
    /\ UNCHANGED <<durable, clocks, up, fatal, world>>

PreflightCode ==
    First(<< <<fatal \/ ~Fresh \/ job.ctx,             "operator">>,
             <<LatestIn({"result_indeterminate"}),      "indeterminate">>,
             <<Reusable,                                "completed">>,
             <<Conflict,                                "operator">>,
             <<InterruptedRepair,                       "unavailable">> >>, "none")

Preflight ==
    /\ job.pc = "preflight"
    /\ job' = [job EXCEPT
          !.pc = IF PreflightCode = "none" THEN "route" ELSE "verdict",
          !.res = PreflightCode,
          !.pend = IF LoneInvalid THEN Latest.b ELSE NoBinding,
          !.rej = IF LatestIn({"server_rejected"}) THEN Latest.b ELSE NoBinding]
    /\ UNCHANGED <<durable, clocks, up, fatal, world>>

-----------------------------------------------------------------------------
(* One turn of the route loop up to the durable claim *)

\* The checks of BeginProviderAttempt, in their order.
BeginError(b) ==
    First(<< <<~Fresh \/ tk.st # "run",            "stale">>,
             <<Reusable,                           "reusable">>,
             <<LatestIn({"result_indeterminate"}), "indeterminate">>,
             <<Conflict,                           "attempt">>,
             <<InterruptedRepair,                  "unavailable">>,
             <<Has("budget_exhausted"),            "budget">>,
             <<busy = "writer",                    "attempt">>,
             <<late,                               "budget">>,
             <<Spent >= MaxCost,                   "budget">>,
             <<Open,                               "attempt">>,
             <<Runs >= Limit,                      "limit">>,
             <<LoneInvalid /\ Latest.b # b,        "unavailable">>,
             <<\E i \in 1 .. Runs : att[i].out = "server_rejected" /\ att[i].b # b,
                                                   "rejection">>,
             <<Has("server_rejected") /\ ~cool,    "backoff">>,
             <<busy = "slot",                      "capacity">> >>, "ok")

\* The route list is used up.
Fallthrough == IF job.pend # NoBinding THEN "unavailable" ELSE "failed"

RepairRequired == job.rep \/ job.pend # NoBinding

\* What Coordinator.Run makes of the answer of BeginProviderAttempt.
BeginCode(e) ==
    First(<< <<e \in {"rejection", "indeterminate"}, "indeterminate">>,
             <<e = "budget",                         "budget">>,
             <<e = "reusable",                       "completed">>,
             <<e = "unavailable",                    "unavailable">>,
             <<e = "limit",                          "exhausted">>,
             <<RepairRequired,                       "unavailable">>,
             <<e = "capacity",                       "operator">> >>, Fallthrough)

\* The coordinator's own checks before it asks the Store; b is the binding the
\* provider reports now.
RouteCode(b) ==
    First(<< <<job.ctx,                                          "canceled">>,
             <<b = NoBinding /\ job.rej # NoBinding,              "operator">>,
             <<b = NoBinding /\ job.rep,                          "unavailable">>,
             <<b = NoBinding,                                     Fallthrough>>,
             <<job.rej # NoBinding /\ b # job.rej,                "operator">>,
             <<job.pend # NoBinding /\ b # job.pend,              Fallthrough>>,
             <<late,                                              "budget">>,
             <<BeginError(b) \in {"ok", "backoff"},               "none">> >>,
          BeginCode(BeginError(b)))

Refuse(b) ==
    /\ job.pc = "route"
    /\ RouteCode(b) # "none"
    /\ job' = [job EXCEPT !.pc = "verdict", !.res = RouteCode(b)]
    /\ UNCHANGED <<durable, clocks, up, fatal, world>>

\* waitServerRejectionBackoff returns when the stored deadline has passed.
AwaitBackoff(b) ==
    /\ job.pc = "route"
    /\ RouteCode(b) = "none" /\ BeginError(b) = "backoff"
    /\ cool' = TRUE
    /\ UNCHANGED <<durable, late, busy, up, job, fatal, world>>

\* BeginProviderAttempt commits: the attempt is open and has no process yet.
Claim(b) ==
    /\ job.pc = "route"
    /\ RouteCode(b) = "none" /\ BeginError(b) = "ok"
    /\ att' = Append(att, [f |-> job.f, b |-> b, rep |-> LoneInvalid,
                           out |-> "running", cost |-> 0, boot |-> 0,
                           launch |-> "launching"])
    /\ job' = [job EXCEPT !.pc = "claimed", !.b = b, !.rep = RepairRequired]
    /\ UNCHANGED <<tk, leader, clocks, up, fatal, world>>

-----------------------------------------------------------------------------
(* Launch, run and drain *)

\* The attempt, its phase run and its lease end in one transaction.
Finished(o, c) ==
    att' = [att EXCEPT ![Runs] = [@ EXCEPT !.out = o, !.cost = c, !.launch = "drained"]]

\* Invocation or the checkpoint before a retried launch fails: the only failure
\* that proves there was no process.  After a stop the claim is retired instead.
InvocationFails ==
    /\ "invoke" \in Faults
    /\ job.pc = "claimed"
    /\ Finished(IF Fresh THEN "invocation_failed" ELSE "cancelled", 0)
    /\ \E refused \in {FALSE, job.rej # NoBinding} :
          job' = [job EXCEPT !.pc = "verdict",
                     !.res = First(<< <<~Fresh \/ job.ctx, "canceled">>,
                                      <<refused,           "operator">>,
                                      <<job.rep,           "unavailable">> >>,
                                   Fallthrough)]
    /\ UNCHANGED <<tk, leader, clocks, up, fatal, world>>

\* The supervisor starts the wrapper, which waits for its gate to open.
Spawn ==
    /\ job.pc = "claimed"
    /\ proc' = [proc EXCEPT ![Runs] = "gated"]
    /\ job' = [job EXCEPT !.pc = "gated"]
    /\ UNCHANGED <<durable, clocks, up, fatal, boot>>

\* The identity is durable before the gate opens.  No ticket fence is compared:
\* a stop that has not cancelled the context yet does not prevent the launch.
RecordProviderLaunch ==
    /\ job.pc = "gated" /\ ~job.ctx
    /\ att' = [att EXCEPT ![Runs] = [@ EXCEPT !.launch = "released", !.boot = boot]]
    /\ proc' = [proc EXCEPT ![Runs] = "live"]
    /\ job' = [job EXCEPT !.pc = "running"]
    /\ UNCHANGED <<tk, leader, clocks, up, fatal, boot>>

\* The context is cancelled or times out first: the wrapper is killed and the
\* run forgotten, so Drain finds nothing to prove (ErrUnclear).
LaunchFails ==
    /\ job.pc = "gated"
    /\ job.ctx \/ "undrained" \in Faults
    /\ proc' = [proc EXCEPT ![Runs] = "gone"]
    /\ job' = [job EXCEPT !.pc = "undrained"]
    /\ UNCHANGED <<durable, clocks, up, fatal, boot>>

\* Supervisor.Run and Parse: the leader has exited, or the context has ended.
\* The result is cancelled exactly if the context or the attempt's own timeout
\* has ended; what is left of the group is not known yet.
Return ==
    /\ job.pc = "running"
    /\ \E o \in (IF job.ctx THEN {"cancelled"}
                 ELSE {"completed", "invalid_artifact", "server_rejected",
                       "result_indeterminate", "cancelled"}), c \in Costs :
          /\ job' = [job EXCEPT !.pc = "returned", !.out = o, !.cost = c]
          /\ o = "server_rejected" => c = 0
    /\ proc' \in {[proc EXCEPT ![Runs] = p] : p \in {"stray", "gone"}}
    /\ UNCHANGED <<durable, clocks, up, fatal, boot>>

\* Drain terminates the group and proves that it is gone.
Drain ==
    /\ job.pc = "returned"
    /\ proc' = [proc EXCEPT ![Runs] = "gone"]
    /\ job' = [job EXCEPT !.pc = "drained"]
    /\ UNCHANGED <<durable, clocks, up, fatal, boot>>

DrainFails ==
    /\ "undrained" \in Faults
    /\ job.pc = "returned"
    /\ job' = [job EXCEPT !.pc = "undrained"]
    /\ UNCHANGED <<durable, clocks, up, fatal, world>>

\* QuarantineProviderAttempt keeps the claim and its lease.  A stop in between
\* makes it stale, which poisons the coordinator (markPersistenceFailure).
Quarantine ==
    /\ job.pc = "undrained"
    /\ att' = IF Fresh THEN [att EXCEPT ![Runs].out = "undrained"] ELSE att
    /\ fatal' = (fatal \/ ~Fresh)
    /\ job' = [job EXCEPT !.pc = "verdict", !.res = "operator"]
    /\ UNCHANGED <<tk, leader, clocks, up, world>>

-----------------------------------------------------------------------------
(* Finish, in up to two transactions *)

\* finishProviderAttempt and the coordinator's next move.  A stale fence leads
\* to retirement, a breached budget to FailProviderAttemptBudget: both are
\* transactions of their own.
Finish ==
    /\ job.pc = "drained"
    /\ LET over == late \/ Spent + job.cost > MaxCost
           spent == job.spent + job.cost
           code == First(<< <<job.out = "cancelled" /\ job.rep /\ ~job.ctx, "unavailable">>,
                            <<job.out = "cancelled",               "canceled">>,
                            <<job.out = "result_indeterminate",    "indeterminate">>,
                            <<job.out = "server_rejected",         "none">>,
                            <<job.out = "completed",               "completed">>,
                            <<spent >= MaxCost,                    "budget">>,
                            <<job.rep,                             "exhausted">> >>, "none")
       IN  IF ~Fresh \/ over
           THEN /\ job' = [job EXCEPT !.pc = IF Fresh THEN "budget" ELSE "retire"]
                /\ UNCHANGED <<att, cool>>
           ELSE /\ Finished(job.out, job.cost)
                /\ cool' = (cool /\ job.out # "server_rejected")
                /\ job' = [job EXCEPT
                      !.pc = IF code = "none" THEN "route" ELSE "verdict",
                      !.res = code, !.spent = spent, !.out = "running", !.cost = 0,
                      !.rep = job.rep \/ job.out = "invalid_artifact",
                      !.rej = IF job.out = "server_rejected" THEN job.b ELSE @]
    /\ UNCHANGED <<tk, leader, late, busy, up, fatal, world>>

\* Fault: the result that arrived after the stop is recorded as it is.
RetireAfterControlMutant ==
    /\ job.pc = "retire"
    /\ Finished(job.out, job.cost)
    /\ job' = [job EXCEPT !.pc = "verdict", !.res = "canceled"]
    /\ UNCHANGED <<tk, leader, clocks, up, fatal, world>>

\* RetireProviderAttemptAfterControlInvalidation: one stop since the claim, and
\* nothing else, lets the drained attempt end as cancelled and unpaid.
RetireAfterControl ==
    /\ job.pc = "retire"
    /\ LET exact == /\ leader = job.f.l /\ tk.v = job.f.v + 1 /\ tk.r = job.f.r + 1
                    /\ tk.st \in Stops /\ Latest.out = "running"
       IN  /\ IF exact THEN Finished("cancelled", 0) ELSE UNCHANGED att
           /\ fatal' = (fatal \/ ~exact)
           /\ job' = [job EXCEPT !.pc = "verdict",
                                 !.res = IF exact THEN "canceled" ELSE "operator"]
    /\ UNCHANGED <<tk, leader, clocks, up, world>>

\* Fault: the rejected usage is charged in full.
FailProviderAttemptBudgetMutant ==
    /\ job.pc = "budget"
    /\ IF Fresh THEN Finished("budget_exhausted", job.cost) ELSE UNCHANGED att
    /\ fatal' = (fatal \/ ~Fresh)
    /\ job' = [job EXCEPT !.pc = "verdict", !.res = IF Fresh THEN "budget" ELSE "operator"]
    /\ UNCHANGED <<tk, leader, clocks, up, world>>

\* FailProviderAttemptBudget charges what is left.  A stop since the refused
\* finish makes it stale; the coordinator has no retirement for that case.
FailProviderAttemptBudget ==
    /\ job.pc = "budget"
    /\ IF Fresh
       THEN Finished("budget_exhausted",
                     IF job.cost > MaxCost - Spent THEN MaxCost - Spent ELSE job.cost)
       ELSE UNCHANGED att
    /\ fatal' = (fatal \/ ~Fresh)
    /\ job' = [job EXCEPT !.pc = "verdict", !.res = IF Fresh THEN "budget" ELSE "operator"]
    /\ UNCHANGED <<tk, leader, clocks, up, world>>

-----------------------------------------------------------------------------
(* What the worker makes of the coordinator's code *)

\* Fault: exhaustion is never accepted when the last attempt was not a repair.
AcceptsMutant(code) ==
    CASE code = "completed"     -> Has("completed")
      [] code = "exhausted"     -> ~Open /\ Runs >= 2 /\ ExhaustedPair /\ Latest.rep
      [] OTHER                  -> FALSE

\* The evidence each of the Store's transitions asks for.
Accepts(code) ==
    CASE code = "completed"     -> Has("completed")
      [] code = "exhausted"     -> ~Open /\ Runs >= 2 /\ ExhaustedPair
      [] code = "indeterminate" -> LatestIn({"result_indeterminate"})
      [] code = "unavailable"   -> LoneInvalid \/ InterruptedRepair
      [] code = "budget"        -> /\ ~Open /\ ~Has("completed")
                                   /\ late \/ Spent >= MaxCost \/ Has("budget_exhausted")
      [] OTHER                  -> FALSE

Target(code) ==
    CASE code = "completed" -> "done"
      [] code = "exhausted" -> "exhausted"
      [] OTHER              -> "blocked"

\* A refused transition, like every other code, is an error of this tick: the
\* scheduler calls the worker again.
Verdict ==
    /\ job.pc = "verdict"
    /\ tk' = IF Fresh /\ ~job.ctx /\ tk.st = "run" /\ Accepts(job.res)
             THEN [tk EXCEPT !.st = Target(job.res), !.v = @ + 1, !.code = job.res]
             ELSE tk
    /\ job' = NoJob
    /\ UNCHANGED <<leader, att, clocks, up, fatal, world>>

-----------------------------------------------------------------------------
(* Operator, clocks and other tickets *)

\* TransitionAndInvalidateRunner: pause, take or cancel.
Stop(s) ==
    /\ "stop" \in Faults
    /\ up = "serving" /\ tk.st = "run" /\ tk.v < MaxVersion
    /\ tk' = [tk EXCEPT !.st = s, !.v = @ + 1, !.r = @ + 1]
    /\ UNCHANGED <<leader, att, clocks, up, job, fatal, world>>

\* Runtime.Drain cancels the worker after the stop is durable.
CancelWork ==
    /\ up = "serving" /\ tk.st \in Stops
    /\ job.pc # "idle" /\ ~job.ctx
    /\ job' = [job EXCEPT !.ctx = TRUE]
    /\ UNCHANGED <<durable, clocks, up, fatal, world>>

\* CompleteControlTransition: the worker has joined and no attempt is open.
CompleteStop ==
    /\ up = "serving" /\ tk.st \in Stops /\ job.pc = "idle"
    /\ ~Open
    /\ tk' = [tk EXCEPT !.st = IF @ = "stopping" THEN "paused" ELSE "cancelled", !.v = @ + 1]
    /\ UNCHANGED <<leader, att, clocks, up, job, fatal, world>>

Resume ==
    /\ up = "serving" /\ tk.st = "paused"
    /\ tk' = [tk EXCEPT !.st = "run", !.v = @ + 1]
    /\ UNCHANGED <<leader, att, clocks, up, job, fatal, world>>

\* TransitionProviderRetry: the one extension of this entry.
TransitionProviderRetry ==
    /\ up = "serving" /\ tk.st = "exhausted" /\ ~tk.epoch /\ ~Open
    /\ tk' = [tk EXCEPT !.st = "run", !.v = @ + 1, !.code = "none", !.epoch = TRUE]
    /\ UNCHANGED <<leader, att, clocks, up, job, fatal, world>>

DeadlinePasses ==
    /\ "late" \in Faults /\ ~late
    /\ late' = TRUE
    /\ UNCHANGED <<durable, cool, busy, up, job, fatal, world>>

CoolDown ==
    /\ ~cool
    /\ cool' = TRUE
    /\ UNCHANGED <<durable, late, busy, up, job, fatal, world>>

\* Another ticket takes or frees the repository or the provider slot; neither
\* is granted to it while this ticket's attempt is open.
Contend ==
    /\ "busy" \in Faults
    /\ busy' \in {"no", "writer", "slot"} \ {busy}
    /\ Open => busy' = "no"
    /\ UNCHANGED <<durable, cool, late, up, job, fatal, world>>

-----------------------------------------------------------------------------
(* Crash, reboot and daemon.Recover *)

\* The gate of a waiting wrapper closes with the daemon; a released provider
\* goes on without a supervisor.
Crash ==
    /\ "crash" \in Faults /\ up # "down" /\ leader < MaxLeader
    /\ up' = "down"
    /\ job' = NoJob
    /\ fatal' = FALSE
    /\ proc' = [i \in Ids |-> IF proc[i] = "gated" THEN "gone" ELSE proc[i]]
    /\ UNCHANGED <<durable, clocks, boot>>

\* Close cancels the worker under a fence that is still current and joins it.
Close ==
    /\ "crash" \in Faults /\ up = "serving" /\ leader < MaxLeader
    /\ up' = "closing"
    /\ job' = [job EXCEPT !.ctx = job.pc # "idle"]
    /\ UNCHANGED <<durable, clocks, fatal, world>>

Exit ==
    /\ up = "closing" /\ job.pc = "idle"
    /\ up' = "down"
    /\ fatal' = FALSE
    /\ UNCHANGED <<durable, clocks, job, world>>

\* An unsupervised group loses its leader, or ends.
ProcessEnds(i) ==
    /\ up = "down" /\ proc[i] \in {"live", "stray"}
    /\ proc' \in {[proc EXCEPT ![i] = p] : p \in {"stray", "gone"} \ {proc[i]}}
    /\ UNCHANGED <<durable, clocks, up, job, fatal, boot>>

Reboot ==
    /\ up = "down" /\ boot < MaxBoot
    /\ boot' = boot + 1
    /\ proc' = [i \in Ids |-> "gone"]
    /\ UNCHANGED <<durable, clocks, up, job, fatal>>

\* daemon.Start and the first half of Recover: a new leader epoch, and a new
\* runner for a ticket that is not at rest (FenceRecoveredRunners).
Start ==
    /\ up = "down" /\ leader < MaxLeader
    /\ up' = "recovering"
    /\ leader' = leader + 1
    /\ tk' = IF tk.st \in {"run"} \cup Stops
             THEN [tk EXCEPT !.v = @ + 1, !.r = @ + 1] ELSE tk
    /\ UNCHANGED <<att, clocks, job, fatal, world>>

Serve ==
    /\ up = "recovering" /\ ~Open
    /\ up' = "serving"
    /\ UNCHANGED <<durable, clocks, job, fatal, world>>

\* ProviderLaunchIdentity and DrainPersisted: the launch must be recorded as
\* released, and either the host has rebooted since or the leader still runs
\* and can be killed.  A missing leader proves nothing of its descendants.
Provable ==
    /\ Latest.launch = "released"
    /\ \/ Latest.boot # boot
       \/ proc[Runs] = "live"

\* Fault: a missing leader is taken for a proof that its descendants are gone.
RecoverAttemptMutant ==
    /\ up = "recovering" /\ Open /\ Latest.launch = "released"
    /\ Finished("drained_recovery", Latest.cost)
    /\ up' = "serving"
    /\ UNCHANGED <<tk, leader, clocks, job, fatal, world>>

\* RecoverProviderAttemptClaimWithProof.
RecoverAttempt ==
    /\ up = "recovering" /\ Open /\ Provable
    /\ Finished("drained_recovery", Latest.cost)
    /\ proc' = [proc EXCEPT ![Runs] = "gone"]
    /\ up' = "serving"
    /\ UNCHANGED <<tk, leader, clocks, job, fatal, boot>>

\* QuarantineRecoveredProviderAttemptClaim; the start fails.
QuarantineRecovered ==
    /\ up = "recovering" /\ Open
    /\ ~Provable \/ ("undrained" \in Faults /\ Latest.boot = boot)
    /\ att' = [att EXCEPT ![Runs] = [@ EXCEPT !.out = "undrained_recovery",
                                              !.launch = "quarantined"]]
    /\ up' = "down"
    /\ UNCHANGED <<tk, leader, clocks, job, fatal, world>>

-----------------------------------------------------------------------------
(* Specification *)

Reported == Bindings \cup (IF "unbound" \in Faults THEN {NoBinding} ELSE {})

JobStep ==
    \/ StartPhase \/ Preflight
    \/ \E b \in Reported : Refuse(b)
    \/ \E b \in Bindings : AwaitBackoff(b) \/ Claim(b)
    \/ InvocationFails \/ Spawn \/ RecordProviderLaunch \/ LaunchFails
    \/ Return \/ Drain \/ DrainFails \/ Quarantine
    \/ Finish \/ RetireAfterControl \/ FailProviderAttemptBudget \/ Verdict

Next ==
    \/ JobStep
    \/ \E s \in Stops : Stop(s)
    \/ CancelWork \/ CompleteStop \/ Resume \/ TransitionProviderRetry
    \/ DeadlinePasses \/ CoolDown \/ Contend
    \/ Crash \/ Close \/ Exit \/ Reboot \/ Start
    \/ Serve \/ RecoverAttempt \/ QuarantineRecovered
    \/ \E i \in Ids : ProcessEnds(i)

Spec == Init /\ [][Next]_vars

-----------------------------------------------------------------------------
(* Properties *)

Alive(i) == proc[i] \in {"gated", "live", "stray"}

\* At most one process group works for the ticket, and the attempt it belongs
\* to is open: no claim, slot or worktree is given away under a live writer,
\* through cancellations, failed drains, crashes and restarts
\* (Coordinator.Run: "Returning from Run ... is not proof that its process
\* group drained").
OneWriter ==
    /\ \A i, j \in Ids : Alive(i) /\ Alive(j) => i = j
    /\ \A i \in Ids : Alive(i) => i = Runs /\ Latest.out \in OpenOut

\* The recorded cost never passes the ticket's ceiling, whatever the last run
\* reports (finishProviderAttempt and the clamp of FailProviderAttemptBudget).
SpentWithinBudget == Spent <= MaxCost

\* Once a stop is durable, the attempt it revoked ends without a result: it
\* may be cancelled, recovered or quarantined, never completed, repaired or
\* charged (RetireProviderAttemptAfterControlInvalidation).
RevokedHasNoResult ==
    [][tk.st \in Stops =>
         \A i \in 1 .. Len(att') :
            /\ i <= Runs
            /\ att'[i].out # att[i].out =>
                  /\ att'[i].out \in {"cancelled", "drained_recovery"} \cup OpenOut
                  /\ att'[i].cost = att[i].cost]_vars
=============================================================================
