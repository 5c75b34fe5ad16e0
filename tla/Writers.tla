------------------------------ MODULE Writers ------------------------------
(***************************************************************************)
(* The two kinds of writer that the daemon itself runs in a repository:    *)
(*   store/git_mutation.go, prepared_commit_recovery.go     (commits)      *)
(*   store/repository_command.go, repository_command_result.go             *)
(*   repositoryexec/executor.go, processsupervisor/repository.go           *)
(*   git/git.go (acquireMutation, Commit, runBoundedInput)                 *)
(*   workflowruntime/repository_materializer.go (runCommand, commit)       *)
(*   daemon/daemon.go (Recover, from the git leases to the runner fences)  *)
(*                                                                         *)
(* The tickets share one repository.  Each ticket has one writer: a        *)
(* verification command, or the commit of its candidate.  A semantic key   *)
(* contains the fence of its ticket, so the rows of a ticket are indexed   *)
(* by fence: tk[t].f counts the fences a stop or a restart has revoked.    *)
(* The third kind of writer, the provider attempt, is the module           *)
(* ProviderAttempts; here it is one bit that excludes the other two.       *)
(***************************************************************************)
EXTENDS Naturals, FiniteSets

CONSTANTS Tickets,    \* tickets of the repository
          Kind,       \* what each of them runs: "command" or "commit"
          MaxLeader,  \* bound: daemon starts
          MaxFence,   \* bound: fences, with one kept for every start to come
          Faults      \* which disturbances of the environment happen

Kinds == {"command", "commit"}

ASSUME WriterAssumption ==
    /\ IsFiniteSet(Tickets)
    /\ Kind \in [Tickets -> Kinds]
    /\ {MaxFence, MaxLeader} \subseteq Nat \ {0}
    /\ MaxLeader <= MaxFence
    /\ Faults \subseteq {"stop", "crash", "deadline", "provider", "unclear", "error"}

VARIABLES
    tk,      \* durable: ticket state and fence
    leader,  \* durable: daemon_instances.leader_epoch
    row,     \* durable: per fence the effect, its intent and its result
    lease,   \* durable: git_mutation_leases and repository_command_leases
    prov,    \* durable: a provider attempt is active in the repository
    up,      \* the daemon: down, a step of Recover, or serving
    job,     \* memory: the materializer's call in progress for a ticket
    proc,    \* world: the process group a ticket last started
    head     \* world: the fence whose commit is the branch head, 0 the parent

durable == <<tk, leader, row, lease, prov>>
world   == <<proc, head>>
vars    == <<durable, up, job, world>>

Fences    == 1 .. MaxFence
Unsettled == {"executing", "uncertain"}
Acquiring == {"issued", "waiting"}

NoRow  == [st |-> "none", ld |-> 0, intent |-> FALSE, prep |-> FALSE, res |-> FALSE]
NoJob  == [pc |-> "idle", n |-> 1, ctx |-> FALSE, step |-> "stage", out |-> "ok"]
NoProc == [st |-> "gone", n |-> 1, step |-> "stage"]

RowSet == [st : {"none", "planned", "executing", "uncertain", "confirmed", "failed"},
           ld : 0 .. MaxLeader, intent : BOOLEAN, prep : BOOLEAN, res : BOOLEAN]
LeaseSet == [t : Tickets, n : Fences, st : {"active", "quarantined"},
             launch : {"unrecorded", "released", "quarantined", "drained"},
             id : BOOLEAN]

TypeOK ==
    /\ tk \in [Tickets -> [st : {"run", "stopping", "paused"}, f : Fences]]
    /\ leader \in 1 .. MaxLeader
    /\ row \in [Tickets -> [Fences -> RowSet]]
    /\ lease \in [Kinds -> SUBSET LeaseSet]
    /\ \A k \in Kinds : Cardinality(lease[k]) <= 1
    /\ prov \in BOOLEAN
    /\ up \in {"down", "git", "unleased", "commands", "effects", "commits", "serving"}
    /\ job \in [Tickets -> [pc : {"idle", "planned", "issued", "waiting", "leased",
                                  "gated", "recorded", "checked", "running", "reaped",
                                  "observed", "unobserved", "marked", "staged",
                                  "prepared", "release", "observe", "settle"},
                            n : Fences, ctx : BOOLEAN, step : {"stage", "ref"},
                            out : {"ok", "red", "limit", "error"}]]
    /\ proc \in [Tickets -> [st : {"gone", "gated", "live", "stray"}, n : Fences,
                             step : {"stage", "ref"}]]
    /\ head \in [Tickets -> 0 .. MaxFence]

Init ==
    /\ tk = [t \in Tickets |-> [st |-> "run", f |-> 1]]
    /\ leader = 1
    /\ row = [t \in Tickets |-> [n \in Fences |-> NoRow]]
    /\ lease = [k \in Kinds |-> {}]
    /\ prov = FALSE
    /\ up = "serving"
    /\ job = [t \in Tickets |-> NoJob]
    /\ proc = [t \in Tickets |-> NoProc]
    /\ head = [t \in Tickets |-> 0]

-----------------------------------------------------------------------------
(* What a call of a job reads and writes *)

R(t)     == row[t][job[t].n]
Mine(t)  == {l \in lease[Kind[t]] : l.t = t /\ l.n = job[t].n}
Launch(t) == {l.launch : l \in Mine(t)}

\* assertTicketFence: the ticket still has the fence of the job.
Fresh(t) == job[t].n = tk[t].f

\* assertRepositoryCommandCurrent, assertGitIntentCurrent.
Current(t) == Fresh(t) /\ R(t).st = "executing" /\ R(t).intent

\* repositoryHasProviderWriter, ...CommandWriter, ...GitWriter.
HasWriter == prov \/ \E k \in Kinds : lease[k] # {}

\* A quarantined lease of either table refuses an acquisition outright.
Barred == \E k \in Kinds : \E l \in lease[k] : l.st = "quarantined"

SetRow(t, r)    == row' = [row EXCEPT ![t][job[t].n] = r]
SetLease(t, ls) == lease' = [lease EXCEPT ![Kind[t]] = ls]
Goto(t, pc)     == job' = [job EXCEPT ![t].pc = pc]
Fail(t, pc)     == job' = [job EXCEPT ![t].pc = pc, ![t].out = "error"]
Done(t)         == job' = [job EXCEPT ![t] = NoJob]

\* UPDATE effects SET state=...; the settled forms of the three tables.
Settled(r, st) == [st |-> st, ld |-> r.ld, intent |-> r.intent, prep |-> r.prep, res |-> r.res]
Retired(r)     == [st |-> "failed", ld |-> r.ld, intent |-> FALSE, prep |-> FALSE, res |-> r.res]

Launched(l, launch) == [t |-> l.t, n |-> l.n, st |-> l.st, launch |-> launch,
                        id |-> l.id \/ launch = "released"]

\* repositoryCommandLease.Quarantine keeps the two witnesses that nothing runs.
Quarantined(l) ==
    [t |-> l.t, n |-> l.n, st |-> "quarantined", id |-> l.id,
     launch |-> IF l.launch \in {"unrecorded", "drained"} THEN l.launch ELSE "quarantined"]
Quarantine(t) == SetLease(t, {Quarantined(l) : l \in Mine(t)})

Group(t, st) == proc' = [proc EXCEPT ![t] = IF st = "gone" THEN NoProc ELSE [@ EXCEPT !.st = st]]
Kill(t)      == Group(t, "gone")

-----------------------------------------------------------------------------
(* Both kinds: plan, issue, acquire, launch *)

\* runCommand, commit: an unresolved or completed key is not planned again.
PlanEffect(t) ==
    LET r == row[t][tk[t].f]
    IN  /\ up = "serving" /\ tk[t].st = "run" /\ job[t].pc = "idle"
        /\ r.st \in {"none", "planned", "failed"} /\ ~r.res
        /\ Kind[t] = "commit" => ~r.intent
        /\ row' = [row EXCEPT ![t][tk[t].f] = IF r.st = "none" THEN Settled(r, "planned") ELSE r]
        /\ job' = [job EXCEPT ![t] = [NoJob EXCEPT !.pc = "planned", !.n = tk[t].f]]
        /\ UNCHANGED <<tk, leader, lease, prov, up, world>>

\* IssueRepositoryCommandClaim inserts its intent without an upsert, so a row
\* that kept its intent is refused.
Issue(t) ==
    /\ job[t].pc = "planned"
    /\ IF Fresh(t) /\ (Kind[t] = "command" => ~R(t).intent)
       THEN /\ SetRow(t, [st |-> "executing", ld |-> leader, intent |-> TRUE,
                          prep |-> R(t).prep, res |-> R(t).res])
            /\ Goto(t, "issued")
       ELSE Done(t) /\ UNCHANGED row
    /\ UNCHANGED <<tk, leader, lease, prov, up, world>>

\* INSERT of a lease whose launch is not recorded yet.
Lease(t) ==
    /\ SetLease(t, {[t |-> t, n |-> job[t].n, st |-> "active",
                     launch |-> "unrecorded", id |-> FALSE]})
    /\ Goto(t, "leased")
    /\ UNCHANGED <<tk, leader, row, prov, up, world>>

\* The intent is current; no provider, no lease of either table. At once or
\* after a pause.
AcquireRepositoryCommand(t) ==
    /\ Kind[t] = "command" /\ job[t].pc \in Acquiring /\ ~job[t].ctx
    /\ Current(t) /\ ~HasWriter
    /\ Lease(t)

\* Fault: the leases of commands are not consulted.
AcquireGitMutationMutant(t) ==
    /\ Kind[t] = "commit" /\ job[t].pc \in Acquiring /\ ~job[t].ctx
    /\ Current(t) /\ ~prov /\ lease["commit"] = {}
    /\ Lease(t)

AcquireGitMutation(t) ==
    /\ Kind[t] = "commit" /\ job[t].pc \in Acquiring /\ ~job[t].ctx
    /\ Current(t) /\ ~HasWriter
    /\ Lease(t)

\* Contention is the one refusal after which the call waits and tries again.
Contend(t) ==
    /\ job[t].pc = "issued" /\ ~job[t].ctx
    /\ Current(t) /\ HasWriter /\ ~Barred
    /\ Goto(t, "waiting")
    /\ UNCHANGED <<durable, up, world>>

\* The wait of a command ended, or its request was refused before the lease:
\* either proves that no lease exists.
Leaseless(t) ==
    /\ Kind[t] = "command"
    /\ \/ job[t].pc = "waiting" /\ job[t].ctx
       \/ job[t].pc = "issued" /\ "error" \in Faults

\* RetireUnleasedRepositoryCommand, which needs no fence.
RetireUnleased(t) ==
    /\ Leaseless(t)
    /\ SetRow(t, Retired(R(t)))
    /\ Done(t)
    /\ UNCHANGED <<tk, leader, lease, prov, up, world>>

\* Every other refusal is ambiguous: a command is left for recovery, a commit
\* goes to settleCommitFailure.
AcquireRefused(t) ==
    /\ job[t].pc \in Acquiring
    /\ \/ job[t].ctx \/ ~Current(t) \/ Barred
       \/ Kind[t] = "commit" /\ "error" \in Faults
    /\ IF Kind[t] = "command" THEN Done(t) ELSE Fail(t, "settle")
    /\ UNCHANGED <<durable, up, world>>

\* cmd.Start behind the gate.  A commit first checks its lease and the parent
\* of the branch; any error before a launch ends the call.
StartGated(t) ==
    /\ job[t].pc \in {"leased", "prepared"} /\ ~job[t].ctx
    /\ Kind[t] = "commit" => Current(t) /\ head[t] = 0
    /\ proc' = [proc EXCEPT ![t] = [st |-> "gated", n |-> job[t].n, step |-> job[t].step]]
    /\ Goto(t, "gated")
    /\ UNCHANGED <<durable, up, head>>

PreflightFails(t) ==
    /\ job[t].pc \in {"leased", "staged", "prepared"}
    /\ \/ job[t].ctx \/ "error" \in Faults
       \/ Kind[t] = "commit" /\ (~Current(t) \/ head[t] # 0)
    /\ Fail(t, IF Kind[t] = "command" THEN "unobserved" ELSE "release")
    /\ UNCHANGED <<durable, up, world>>

\* Fault: the process is let go before its identity is durable.
RecordLaunchMutant(t) ==
    /\ job[t].pc = "gated" /\ ~job[t].ctx
    /\ proc' = [proc EXCEPT ![t].st = "live"]
    /\ Goto(t, "running")
    /\ UNCHANGED <<durable, up, head>>

\* RecordRepositoryCommandLaunch, RecordGitMutationLaunch.
RecordLaunch(t) ==
    /\ job[t].pc = "gated" /\ ~job[t].ctx
    /\ Current(t)
    /\ SetLease(t, {Launched(l, "released") : l \in Mine(t)})
    /\ Goto(t, "recorded")
    /\ UNCHANGED <<tk, leader, row, prov, up, world>>

RecordRefused(t) ==
    /\ job[t].pc = "gated" /\ (job[t].ctx \/ ~Current(t))
    /\ Kill(t)
    /\ IF Kind[t] = "command" THEN Quarantine(t) ELSE UNCHANGED lease
    /\ Fail(t, IF Kind[t] = "command" THEN "unobserved" ELSE "release")
    /\ UNCHANGED <<tk, leader, row, prov, up, head>>

\* Only a command checks its fence again before the gate (lease.Check).
CheckFence(t) ==
    /\ job[t].pc = "recorded" /\ Kind[t] = "command"
    /\ IF Current(t) /\ ~job[t].ctx
       THEN Goto(t, "checked") /\ UNCHANGED <<lease, proc>>
       ELSE Kill(t) /\ Quarantine(t) /\ Fail(t, "unobserved")
    /\ UNCHANGED <<tk, leader, row, prov, up, head>>

OpenGate(t) ==
    /\ job[t].pc = IF Kind[t] = "command" THEN "checked" ELSE "recorded"
    /\ proc' = [proc EXCEPT ![t].st = "live"]
    /\ Goto(t, "running")
    /\ UNCHANGED <<durable, up, head>>

\* Wait returns and the group is proved gone; a cancelled context kills it.
Reap(t) ==
    /\ job[t].pc = "running"
    /\ proc[t].st = "gone" \/ (job[t].ctx /\ proc[t].st = "live")
    /\ Kill(t)
    /\ Goto(t, "reaped")
    /\ UNCHANGED <<durable, up, head>>

\* The group of a command cannot be proved gone (ErrUnclear).
Unclear(t) ==
    /\ job[t].pc = "running" /\ Kind[t] = "command"
    /\ \/ proc[t].st = "stray" /\ UNCHANGED lease
       \/ "unclear" \in Faults /\ job[t].ctx /\ proc[t].st = "live" /\ Quarantine(t)
    /\ Fail(t, "unobserved")
    /\ UNCHANGED <<tk, leader, row, prov, up, world>>

-----------------------------------------------------------------------------
(* Commands: Executor.Run after the supervisor has returned *)

\* FinishRepositoryCommandLaunch needs no fence.  Too much output is not an
\* observation.
FinishCommand(t) ==
    /\ job[t].pc = "reaped" /\ Kind[t] = "command"
    /\ SetLease(t, {Launched(l, "drained") : l \in Mine(t)})
    /\ \/ \E o \in {"ok", "red"} \cup (IF "error" \in Faults THEN {"limit"} ELSE {}) :
             job' = [job EXCEPT ![t].pc = "observed", ![t].out = o]
       \/ "error" \in Faults /\ Fail(t, "unobserved")
    /\ UNCHANGED <<tk, leader, row, prov, up, world>>

\* CompleteRepositoryCommand; a stale one only settles the effect
\* (ReconcileStaleRepositoryCommandObservation).
Complete(t) ==
    /\ job[t].pc = "observed" /\ ~job[t].ctx /\ job[t].out # "limit"
    /\ IF Current(t) /\ Launch(t) = {"drained"}
       THEN LET st == IF job[t].out = "ok" THEN "confirmed" ELSE "failed"
            IN  SetRow(t, [st |-> st, ld |-> R(t).ld, intent |-> TRUE, prep |-> FALSE, res |-> TRUE])
       ELSE SetRow(t, Settled(R(t), "failed"))
    /\ Goto(t, "release")
    /\ UNCHANGED <<tk, leader, lease, prov, up, world>>

\* retireObservedRepositoryCommand: a cancelled or limited command has no
\* result; refused, its lease is quarantined.
RetireObserved(t) ==
    /\ job[t].pc = "observed" /\ (job[t].ctx \/ job[t].out = "limit")
    /\ IF Current(t) /\ Launch(t) = {"drained"}
       THEN SetRow(t, Retired(R(t))) /\ SetLease(t, {})
       ELSE Quarantine(t) /\ UNCHANGED row
    /\ Done(t)
    /\ UNCHANGED <<tk, leader, prov, up, world>>

\* MarkRepositoryCommandUncertain, then Quarantine in a transaction of its own.
MarkUncertain(t) ==
    /\ job[t].pc = "unobserved"
    /\ IF Current(t) THEN SetRow(t, Settled(R(t), "uncertain")) ELSE UNCHANGED row
    /\ Goto(t, "marked")
    /\ UNCHANGED <<tk, leader, lease, prov, up, world>>

QuarantineUnobserved(t) ==
    /\ job[t].pc = "marked"
    /\ Quarantine(t)
    /\ Done(t)
    /\ UNCHANGED <<tk, leader, row, prov, up, world>>

\* repositoryCommandLease.Release needs no fence.
ReleaseCommand(t) ==
    /\ job[t].pc = "release" /\ Kind[t] = "command"
    /\ SetLease(t, {})
    /\ Done(t)
    /\ UNCHANGED <<tk, leader, row, prov, up, world>>

-----------------------------------------------------------------------------
(* Commits: Runner.Commit and the materializer around it *)

\* FinishGitMutationLaunch after Wait.  A child that failed, or was killed,
\* ends the call; update-ref that ran out of luck may still have moved the ref.
FinishGit(t) ==
    /\ job[t].pc = "reaped" /\ Kind[t] = "commit"
    /\ SetLease(t, {Launched(l, "drained") : l \in Mine(t)})
    /\ \/ /\ job[t].ctx \/ "error" \in Faults \/ (job[t].step = "ref" /\ head[t] # job[t].n)
          /\ Fail(t, "release")
       \/ /\ ~job[t].ctx
          /\ job[t].step = "ref" => head[t] = job[t].n
          /\ Goto(t, IF job[t].step = "stage" THEN "staged" ELSE "release")
    /\ UNCHANGED <<tk, leader, row, prov, up, world>>

\* RecordPreparedCommit: the commit object exists, no ref names it yet.
RecordPrepared(t) ==
    /\ job[t].pc = "staged" /\ ~job[t].ctx /\ Current(t)
    /\ SetRow(t, [st |-> R(t).st, ld |-> R(t).ld, intent |-> TRUE, prep |-> TRUE, res |-> FALSE])
    /\ job' = [job EXCEPT ![t].pc = "prepared", ![t].step = "ref"]
    /\ UNCHANGED <<tk, leader, lease, prov, up, world>>

\* gitMutationLease.Release needs the fence; refused, the lease stays.
ReleaseGit(t) ==
    /\ job[t].pc = "release" /\ Kind[t] = "commit"
    /\ IF Current(t) THEN SetLease(t, {}) ELSE UNCHANGED lease
    /\ IF Current(t) /\ job[t].out = "ok" THEN Goto(t, "observe") ELSE Fail(t, "settle")
    /\ UNCHANGED <<tk, leader, row, prov, up, world>>

\* ConfirmPreparedCommit's guard on what ObserveCommit saw.
Confirmable(t, n) ==
    /\ row[t][n].intent /\ row[t][n].prep /\ head[t] = n
    /\ row[t][n].st \in Unsettled
    /\ n = tk[t].f
    /\ ~HasWriter

ObserveCommit(t) ==
    /\ job[t].pc = "observe"
    /\ IF Confirmable(t, job[t].n) /\ ~job[t].ctx
       THEN SetRow(t, Settled(R(t), "confirmed")) /\ Done(t)
       ELSE Fail(t, "settle") /\ UNCHANGED row
    /\ UNCHANGED <<tk, leader, lease, prov, up, world>>

\* Fault: a commit that may be visible is retired.
SettleCommitFailureMutant(t) ==
    /\ job[t].pc = "settle"
    /\ IF Fresh(t) /\ ~HasWriter
       THEN SetRow(t, Retired(R(t)))
       ELSE UNCHANGED row
    /\ Done(t)
    /\ UNCHANGED <<tk, leader, lease, prov, up, world>>

\* settleCommitFailure: MarkEffectUncertain or RetireUnpreparedGitCommit, both
\* under the fence, the latter only while the repository has no writer.
SettleCommitFailure(t) ==
    /\ job[t].pc = "settle"
    /\ IF Fresh(t) /\ (R(t).prep \/ ~HasWriter)
       THEN SetRow(t, IF R(t).prep THEN Settled(R(t), "uncertain") ELSE Retired(R(t)))
       ELSE UNCHANGED row
    /\ Done(t)
    /\ UNCHANGED <<tk, leader, lease, prov, up, world>>

\* RepositoryMaterializer.commit called again: it only observes.
ObserveAgain(t) ==
    /\ up = "serving" /\ tk[t].st = "run" /\ job[t].pc = "idle" /\ Kind[t] = "commit"
    /\ Confirmable(t, tk[t].f)
    /\ row' = [row EXCEPT ![t][tk[t].f] = Settled(@, "confirmed")]
    /\ UNCHANGED <<tk, leader, lease, prov, up, job, world>>

Work(t) ==
    \/ Issue(t) \/ AcquireRepositoryCommand(t) \/ AcquireGitMutation(t) \/ Contend(t) \/ RetireUnleased(t)
    \/ AcquireRefused(t) \/ StartGated(t) \/ PreflightFails(t) \/ RecordLaunch(t)
    \/ RecordRefused(t) \/ CheckFence(t) \/ OpenGate(t) \/ Reap(t) \/ Unclear(t)
    \/ FinishCommand(t) \/ Complete(t) \/ RetireObserved(t) \/ MarkUncertain(t)
    \/ QuarantineUnobserved(t) \/ ReleaseCommand(t) \/ FinishGit(t)
    \/ RecordPrepared(t) \/ ReleaseGit(t) \/ ObserveCommit(t) \/ SettleCommitFailure(t)

-----------------------------------------------------------------------------
(* Control, the provider and the processes *)

\* An operator stop revokes the fence first and cancels the call afterwards.
Stop(t) ==
    /\ "stop" \in Faults /\ up = "serving" /\ tk[t].st = "run"
    /\ \A u \in Tickets : tk[u].f + (MaxLeader - leader) < MaxFence
    /\ tk' = [tk EXCEPT ![t] = [st |-> "stopping", f |-> tk[t].f + 1]]
    /\ UNCHANGED <<leader, row, lease, prov, up, job, world>>

Cancel(t) ==
    /\ job[t].pc # "idle" /\ ~job[t].ctx
    /\ tk[t].st = "stopping" \/ "deadline" \in Faults
    /\ job' = [job EXCEPT ![t].ctx = TRUE]
    /\ UNCHANGED <<durable, up, world>>

\* controlProof counts the leases and the unsettled effects of the ticket.
CompleteStop(t) ==
    /\ up = "serving" /\ tk[t].st = "stopping" /\ job[t].pc = "idle"
    /\ \A k \in Kinds : \A l \in lease[k] : l.t # t
    /\ \A n \in Fences : row[t][n].st \notin Unsettled
    /\ tk' = [tk EXCEPT ![t].st = "paused"]
    /\ UNCHANGED <<leader, row, lease, prov, up, job, world>>

Resume(t) ==
    /\ up = "serving" /\ tk[t].st = "paused"
    /\ tk' = [tk EXCEPT ![t].st = "run"]
    /\ UNCHANGED <<leader, row, lease, prov, up, job, world>>

\* BeginProviderAttempt refuses a repository with a lease of either table.
BeginProvider ==
    /\ "provider" \in Faults /\ up = "serving" /\ ~HasWriter
    /\ prov' = TRUE
    /\ UNCHANGED <<tk, leader, row, lease, up, job, world>>

EndProvider ==
    /\ up = "serving" /\ prov
    /\ prov' = FALSE
    /\ UNCHANGED <<tk, leader, row, lease, up, job, world>>

\* update-ref with the expected parent as its old value.
MoveRef(t) ==
    /\ Kind[t] = "commit" /\ proc[t].st = "live" /\ proc[t].step = "ref" /\ head[t] = 0
    /\ head' = [head EXCEPT ![t] = proc[t].n]
    /\ UNCHANGED <<durable, up, job, proc>>

\* A test may leave descendants behind when its leader exits.
ProcessEnds(t) ==
    /\ proc[t].st \in {"live", "stray"}
    /\ \E st \in {"gone"} \cup (IF Kind[t] = "command" /\ "unclear" \in Faults /\ proc[t].st = "live"
                                THEN {"stray"} ELSE {}) :
          Group(t, st)
    /\ UNCHANGED <<durable, up, job, head>>

-----------------------------------------------------------------------------
(* Crash and Recover *)

\* A gated child reads end of file and exits; a released one runs on.
Crash ==
    /\ "crash" \in Faults /\ up # "down"
    /\ up' = "down"
    /\ job' = [t \in Tickets |-> NoJob]
    /\ proc' = [t \in Tickets |-> IF proc[t].st = "gated" THEN NoProc ELSE proc[t]]
    /\ UNCHANGED <<durable, head>>

Start ==
    /\ up = "down" /\ leader < MaxLeader
    /\ up' = "git"
    /\ leader' = leader + 1
    /\ UNCHANGED <<tk, row, lease, prov, job, world>>

\* DrainGitMutation, DrainRepositoryCommandTree: what they prove, and the
\* group afterwards.  A stray group is never signalled.
Drains(t) ==
    {d \in [ok : BOOLEAN, st : {"gone", proc[t].st}] :
        IF d.ok THEN d.st = "gone" /\ proc[t].st # "stray"
        ELSE d.st = proc[t].st /\ d.st # "gone"}

\* RecoverGitMutationLeases: an unrecorded, undrained or already quarantined
\* lease is quarantined and the start fails.
RecoverGit ==
    /\ up = "git"
    /\ IF lease["commit"] = {}
       THEN up' = "unleased" /\ UNCHANGED <<lease, proc>>
       ELSE \E l \in lease["commit"] : \E d \in Drains(l.t) :
              LET ok == l.id /\ d.ok /\ l.st = "active" /\ row[l.t][l.n].st \in Unsettled
              IN  /\ lease' = [lease EXCEPT !["commit"] =
                                 IF ok THEN {} ELSE {[t |-> l.t, n |-> l.n, st |-> "quarantined",
                                                      launch |-> "quarantined", id |-> l.id]}]
                  /\ up' = IF ok THEN up ELSE "down"
                  /\ IF l.id THEN Group(l.t, d.st) ELSE UNCHANGED proc
    /\ UNCHANGED <<tk, leader, row, prov, job, head>>

\* RecoverUnleasedRepositoryCommands: a key without a lease.
Unleased(t, n) ==
    /\ Kind[t] = "command"
    /\ row[t][n].st = "executing" /\ row[t][n].intent
    /\ ~\E l \in lease["command"] : l.t = t /\ l.n = n

RecoverUnleased ==
    /\ up = "unleased"
    /\ row' = [t \in Tickets |-> [n \in Fences |->
                 IF Unleased(t, n) THEN Retired(row[t][n]) ELSE row[t][n]]]
    /\ up' = "commands"
    /\ UNCHANGED <<tk, leader, lease, prov, job, world>>

\* setRecoveredRepositoryCommandEffect: what was settled before the crash stays.
RecoveredEffect(r, st) == IF r.st \in Unsettled THEN Settled(r, st) ELSE r

\* retireRecoveredRepositoryCommand: the lease goes; the intent with it, if this
\* recovery is what settled the row.
RetireRecovered(l) ==
    /\ lease' = [lease EXCEPT !["command"] = @ \ {l}]
    /\ row' = [row EXCEPT ![l.t][l.n] =
                  IF @.st \in Unsettled THEN Retired(@) ELSE @]

\* quarantineRecoveredRepositoryCommand
QuarantineRecovered(l) ==
    /\ lease' = [lease EXCEPT !["command"] = {Quarantined(l)}]
    /\ row' = [row EXCEPT ![l.t][l.n] = RecoveredEffect(@, "uncertain")]

\* RecoverRepositoryCommandLeases: retire what is proved gone, quarantine the
\* rest and go on.
RecoverCommand ==
    /\ up = "commands" /\ up' = "effects"
    /\ IF lease["command"] = {}
       THEN UNCHANGED <<lease, row, proc>>
       ELSE \E l \in lease["command"] :
              IF l.launch \in {"unrecorded", "drained"}
              THEN RetireRecovered(l) /\ UNCHANGED proc
              ELSE \E d \in Drains(l.t) :
                     /\ IF d.ok THEN RetireRecovered(l) ELSE QuarantineRecovered(l)
                     /\ Group(l.t, d.st)
    /\ UNCHANGED <<tk, leader, prov, job, head>>

\* Every stranded effect becomes uncertain under the new leader.
ReconcileEffects ==
    /\ up = "effects" /\ up' = "commits"
    /\ row' = [t \in Tickets |-> [n \in Fences |->
                 IF row[t][n].st = "executing" THEN Settled(row[t][n], "uncertain") ELSE row[t][n]]]
    /\ UNCHANGED <<tk, leader, lease, prov, job, world>>

Stranded(t, n) == Kind[t] = "commit" /\ row[t][n].st = "uncertain"

\* ConfirmRecoveredPreparedCommit accepts the exact tuple under the fence the
\* ticket had; anything else fails the start.
ReconcilePreparedCommits ==
    /\ up = "commits"
    /\ \E t \in Tickets, n \in Fences :
         /\ Stranded(t, n)
         /\ IF row[t][n].prep /\ head[t] = n /\ tk[t].f = n
            THEN row' = [row EXCEPT ![t][n] = Settled(@, "confirmed")] /\ UNCHANGED up
            ELSE up' = "down" /\ UNCHANGED row
    /\ UNCHANGED <<tk, leader, lease, prov, job, world>>

\* FenceRecoveredRunners gives every ticket that is not at rest a new fence;
\* the provider attempts are recovered before the socket opens.
Serve ==
    /\ up = "commits" /\ up' = "serving"
    /\ ~\E t \in Tickets, n \in Fences : Stranded(t, n)
    /\ tk' = [t \in Tickets |-> IF tk[t].st = "paused" THEN tk[t] ELSE [tk[t] EXCEPT !.f = @ + 1]]
    /\ prov' = FALSE
    /\ UNCHANGED <<leader, row, lease, job, world>>

Recovery ==
    \/ Crash \/ Start \/ RecoverGit \/ RecoverUnleased \/ RecoverCommand
    \/ ReconcileEffects \/ ReconcilePreparedCommits \/ Serve

Next ==
    \/ \E t \in Tickets :
         \/ PlanEffect(t) \/ Work(t) \/ ObserveAgain(t)
         \/ Stop(t) \/ Cancel(t) \/ CompleteStop(t) \/ Resume(t)
         \/ MoveRef(t) \/ ProcessEnds(t)
    \/ BeginProvider \/ EndProvider
    \/ Recovery

Spec == Init /\ [][Next]_vars

-----------------------------------------------------------------------------
(* Properties *)

Running(t) == proc[t].st \in {"live", "stray"}

\* At most one of the verification commands, the git children and the provider
\* attempts of a repository writes at any time: over contention, revoked
\* fences, quarantines, crashes and recoveries that could prove nothing.
OneWriter ==
    Cardinality({t \in Tickets : Running(t)}) + (IF prov THEN 1 ELSE 0) <= 1

\* A settled effect is silent: once a result is recorded, or the key is given
\* back for a retry, no process group of that claim is left in the worktree.
SettledIsSilent ==
    \A t \in Tickets :
        Running(t) => row[t][proc[t].n].st \in Unsettled

\* A commit the branch shows is never forgotten: its prepared tuple is durable
\* and its effect was neither failed nor given back for a second commit.
VisibleIsPrepared ==
    \A t \in Tickets :
        head[t] # 0 =>
            LET r == row[t][head[t]]
            IN  r.prep /\ r.intent /\ r.st \in Unsettled \cup {"confirmed"}
=============================================================================
