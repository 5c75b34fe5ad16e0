------------------------------ MODULE GhRunner ------------------------------
(***************************************************************************)
(* The supervised runner of the gh command (ghrunner/runner.go): one child *)
(* in a process group of its own at a time, Run and its bounded waits, the *)
(* goroutines it leaves behind (Wait, the two stream copiers, the leader   *)
(* monitor, the identity sampler), the one Cleanup proof of every Run, and *)
(* Close, which removes the private snapshot of the executable.            *)
(*                                                                         *)
(* A bounded wait ends with its event or without it: no clock is kept, only *)
(* whether the context of Run is live, cancelled or past its deadline.     *)
(* Left out: the bytes of the output, what a command or an environment     *)
(* must look like, and which of the errors a refusal returns.              *)
(***************************************************************************)
EXTENDS Naturals

CONSTANTS
    MaxRuns                 \* bound: commands started

VARIABLES
    runner,                 \* the fields of Runner under its mutex
    rec,                    \* the last run: what Run and Cleanup know of it
    life, group, pipes,     \* its processes: the leader and one descendant
    monitor,                \* monitorLeader: "on", "saw" a change, "told" it, "off"
    ctx,                    \* the bounded context of Run
    job, terminated,        \* where Run is; what terminate returned
    clean,                  \* where Cleanup is
    closer,                 \* where Close is
    source,                 \* the requested executable, as New bound it or changed
    runs, proofs            \* commands started; proofs handed out for the last

own == <<rec, life, group, pipes, monitor, ctx, job, terminated>>
vars == <<runner, own, clean, closer, source, runs, proofs>>

Procs == {"leader", "child"}

\* The processes a signal to the launch group reaches.
Members == {p \in Procs : life[p] \in {"alive", "zombie"} /\ group[p] = "run"}

Init ==
    /\ runner = [active |-> FALSE, needsCleanup |-> FALSE, pending |-> FALSE, used |-> FALSE,
                 closing |-> FALSE, closed |-> FALSE, snapshot |-> TRUE]
    /\ rec = [ownerDone |-> FALSE, streamsUncertain |-> FALSE, identityUncertain |-> FALSE,
              start |-> FALSE, readers |-> FALSE, finished |-> FALSE, cleaned |-> FALSE,
              claimed |-> FALSE]
    /\ life = [p \in Procs |-> "none"]
    /\ group = [p \in Procs |-> "run"]
    /\ pipes = {}
    /\ monitor = "off" /\ ctx = "live"
    /\ job = "idle" /\ terminated = FALSE
    /\ clean = "idle" /\ closer = "idle"
    /\ source = "bound" /\ runs = 0 /\ proofs = 0

-----------------------------------------------------------------------------
(* The processes and the world. *)

OwnerGone == life["leader"] = "gone"

\* The two copiers see the end of both pipes, or a closed read end.
StreamsDone == ~rec.readers \/ pipes = {}

world == <<runner, rec, job, terminated, clean, closer, runs, proofs>>

\* The leader forks; the descendant may hold the pipes and may call setsid.
Forks ==
    /\ life["leader"] = "alive" /\ life["child"] = "none"
    /\ life' = [life EXCEPT !["child"] = "alive"]
    /\ \E g \in {"run", "other"} : group' = [group EXCEPT !["child"] = g]
    /\ \E held \in BOOLEAN :
           pipes' = IF held /\ "leader" \in pipes THEN pipes \cup {"child"} ELSE pipes
    /\ UNCHANGED <<world, monitor, ctx, source>>

\* A process moves to another group. The leader can only join one that exists.
Moves(p) ==
    /\ life[p] = "alive" /\ group[p] = "run"
    /\ p = "leader" => life["child"] = "alive" /\ group["child"] = "other"
    /\ group' = [group EXCEPT ![p] = "other"]
    /\ UNCHANGED <<world, life, pipes, monitor, ctx, source>>

\* A process closes its pipes, or exits. The leader then waits to be reaped.
Lets(p) ==
    /\ life[p] = "alive"
    /\ pipes' = pipes \ {p}
    /\ life' \in {life, [life EXCEPT ![p] = IF p = "leader" THEN "zombie" ELSE "gone"]}
    /\ UNCHANGED <<world, group, monitor, ctx, source>>

\* The Wait goroutine, installed right after Start.
Reap ==
    /\ life["leader"] = "zombie"
    /\ life' = [life EXCEPT !["leader"] = "gone"]
    /\ UNCHANGED <<world, group, pipes, monitor, ctx, source>>

\* The context of the caller is cancelled, the deadline passes.
Expires ==
    /\ job # "idle"
    /\ \/ ctx = "live" /\ ctx' = "cancelled"
       \/ ctx # "past" /\ ctx' = "past"
    /\ UNCHANGED <<world, life, group, pipes, monitor, source>>

\* Another process replaces the executable New was given.
Replaced ==
    /\ source = "bound" /\ source' = "changed"
    /\ UNCHANGED <<world, life, group, pipes, monitor, ctx>>

\* SIGKILL to the group: its members are gone but for the reaping of the leader.
Kill ==
    /\ life' = [p \in Procs |-> IF p \notin Members THEN life[p]
                                ELSE IF p = "leader" THEN "zombie" ELSE "gone"]
    /\ pipes' = pipes \ Members

\* monitorLeader reads the leader's group, then records that it changed.
MonitorReads ==
    /\ monitor = "on"
    /\ \/ OwnerGone /\ monitor' = "off"
       \/ ~OwnerGone /\ group["leader"] = "other" /\ monitor' = "saw"
    /\ UNCHANGED <<world, life, group, pipes, ctx, source>>
MonitorStores ==
    /\ monitor = "saw" /\ monitor' = "told"
    /\ rec' = [rec EXCEPT !.identityUncertain = TRUE]
    /\ UNCHANGED <<runner, life, group, pipes, ctx, job, terminated, clean, closer, source,
                   runs, proofs>>

-----------------------------------------------------------------------------
(* Run. *)

Admits == ~runner.closed /\ ~runner.active /\ ~runner.needsCleanup /\ ~runner.closing

\* The requested executable still resolves to the bound bytes.
SourceAuthentic == source = "bound"
\* So does the private copy.
SnapshotAuthentic == runner.snapshot

\* A failure before a child exists: the command, the environment, the context, an executable
\* that changed, the pipes or Start itself. The next Cleanup has a definite proof.
Prelaunch ==
    /\ job = "idle" /\ Admits
    /\ \E used \in {FALSE, runner.used} :
           runner' = [runner EXCEPT !.needsCleanup = TRUE, !.pending = TRUE, !.used = used]
    /\ UNCHANGED <<own, clean, closer, source, runs, proofs>>

\* The child starts in its own group; its goroutines with it.
Launch ==
    /\ job = "idle" /\ Admits /\ SourceAuthentic /\ SnapshotAuthentic /\ runs < MaxRuns
    /\ runner' = [runner EXCEPT !.active = TRUE, !.needsCleanup = TRUE, !.used = FALSE]
    /\ rec' = [ownerDone |-> FALSE, streamsUncertain |-> FALSE, identityUncertain |-> FALSE,
               start |-> FALSE, readers |-> TRUE, finished |-> FALSE, cleaned |-> FALSE,
               claimed |-> FALSE]
    /\ life' = [p \in Procs |-> IF p = "leader" THEN "alive" ELSE "none"]
    /\ group' = [p \in Procs |-> "run"]
    /\ pipes' = {"leader"}
    /\ monitor' = "on" /\ ctx' = "live" /\ terminated' = FALSE
    /\ job' = "identity" /\ runs' = runs + 1 /\ proofs' = 0
    /\ UNCHANGED <<clean, closer, source>>

others == <<runner, monitor, ctx, clean, closer, source, runs, proofs>>
still == <<others, life, group, pipes>>

\* The sampler answers. An error is forgiven when the owner has exited.
IdentitySampled ==
    /\ job = "identity"
    /\ \E known \in BOOLEAN :
           /\ rec' = [rec EXCEPT !.start = known]
           /\ job' = IF known \/ OwnerGone THEN "wait" ELSE "grace"
    /\ UNCHANGED <<still, terminated>>
GraceForgives ==
    /\ job = "grace" /\ OwnerGone
    /\ job' = "wait"
    /\ UNCHANGED <<still, rec, terminated>>

\* No identity in time: the group is killed and the run stays uncertain. Past the deadline
\* nothing more is waited for.
IdentityFailed ==
    /\ \/ job = "identity" /\ ctx # "live"
       \/ job = "grace"
    /\ Kill
    /\ rec' = [rec EXCEPT !.identityUncertain = TRUE]
    /\ job' = IF ctx = "past" THEN "streams" ELSE "handoff"
    /\ UNCHANGED <<others, group, terminated>>
Handoff ==
    /\ job = "handoff"
    /\ \E seen \in {FALSE, OwnerGone} : rec' = [rec EXCEPT !.ownerDone = seen]
    /\ job' = "streams"
    /\ UNCHANGED <<still, terminated>>

\* The owner exits, or the context is done.
Waited ==
    /\ job = "wait" /\ OwnerGone
    /\ rec' = [rec EXCEPT !.ownerDone = TRUE]
    /\ job' = "streams"
    /\ UNCHANGED <<still, terminated>>
WaitEnds ==
    /\ job = "wait" /\ ctx # "live"
    /\ job' = "terminate"
    /\ UNCHANGED <<still, rec, terminated>>

\* observeLeader accepts a leader that is gone, or one in its group with the sampled start;
\* it may also fail to observe.
Observed == OwnerGone \/ (group["leader"] = "run" /\ rec.start)

\* terminate. Past the deadline: kill at once. Otherwise observe the leader (kill when that
\* fails), then TERM, a wait, KILL, a wait.
TerminateNow ==
    /\ job = "terminate" /\ ctx = "past" /\ ~rec.identityUncertain
    /\ Kill
    /\ terminated' = TRUE /\ job' = "store"
    /\ UNCHANGED <<others, group, rec>>
TerminateObserves ==
    /\ job = "terminate"
    /\ ctx = "past" => rec.identityUncertain
    /\ \/ Observed /\ job' = "term" /\ UNCHANGED <<life, pipes>>
       \/ Kill /\ job' = "store"
    /\ terminated' = FALSE
    /\ UNCHANGED <<others, group, rec>>
TerminateWaits ==
    /\ \/ /\ job \in {"term", "kill"} /\ OwnerGone
          /\ terminated' = TRUE /\ job' = "store"
          /\ UNCHANGED <<life, pipes>>
       \/ /\ job = "term" /\ Kill
          /\ job' = "kill"
          /\ UNCHANGED terminated
       \/ /\ job = "kill"
          /\ terminated' = FALSE /\ job' = "store"
          /\ UNCHANGED <<life, pipes>>
    /\ UNCHANGED <<others, group, rec>>

\* What terminate returned is stored, then the owner is waited for while time remains.
StoreTerminated ==
    /\ job = "store"
    /\ rec' = [rec EXCEPT !.identityUncertain = ~terminated]
    /\ job' = IF ctx = "past" THEN "streams" ELSE "reap"
    /\ UNCHANGED <<still, terminated>>
ReapWaits ==
    /\ job = "reap"
    /\ \/ OwnerGone /\ rec' = [rec EXCEPT !.ownerDone = TRUE]
       \/ rec' = [rec EXCEPT !.identityUncertain = TRUE]
    /\ job' = "streams"
    /\ UNCHANGED <<still, terminated>>

\* The streams end, or the read ends are closed under a holder. Both are closed either way,
\* the proof is owed, and only then is the run finished.
StreamWaits ==
    /\ job = "streams"
    /\ \/ StreamsDone /\ rec' = [rec EXCEPT !.readers = FALSE]
       \/ ~StreamsDone /\ rec' = [rec EXCEPT !.streamsUncertain = TRUE, !.readers = FALSE]
    /\ job' = "owe"
    /\ UNCHANGED <<still, terminated>>
Owes ==
    /\ job = "owe"
    /\ runner' = [runner EXCEPT !.needsCleanup = TRUE]
    /\ job' = "finish"
    /\ UNCHANGED <<rec, life, group, pipes, monitor, ctx, terminated, clean, closer, source, runs,
                   proofs>>
Finishes ==
    /\ job = "finish"
    /\ rec' = [rec EXCEPT !.finished = TRUE]
    /\ job' = "idle"
    /\ UNCHANGED <<still, terminated>>

-----------------------------------------------------------------------------
(* Cleanup, on a goroutine of its own: it may come before Run has ended. *)

outside == <<life, group, pipes, monitor, ctx, job, terminated, closer, source, runs>>

\* An attempt without a child is drained by definition.
CleanPrelaunch ==
    /\ clean = "idle" /\ ~runner.active /\ runner.pending
    /\ runner' = [runner EXCEPT !.pending = FALSE, !.needsCleanup = FALSE, !.used = TRUE]
    /\ UNCHANGED <<outside, rec, clean, proofs>>

\* The one proof of the run is claimed.
CleanClaims ==
    /\ clean = "idle" /\ runner.active /\ runner.needsCleanup
    /\ ~rec.cleaned /\ ~rec.claimed
    /\ rec' = [rec EXCEPT !.claimed = TRUE]
    /\ clean' = "finished"
    /\ UNCHANGED <<outside, runner, proofs>>

\* Until Run has finished nothing is read. A timeout gives the claim back.
CleanWaits ==
    /\ clean = "finished" /\ rec.finished
    /\ clean' = "owner"
    /\ UNCHANGED <<outside, runner, rec, proofs>>
CleanReleases ==
    /\ clean = "finished"
    /\ rec' = [rec EXCEPT !.claimed = FALSE]
    /\ clean' = "idle"
    /\ UNCHANGED <<outside, runner, proofs>>

\* The owner, then the flags of Run, the leader, the group, the streams.
CleanOwner ==
    /\ clean = "owner" /\ (rec.ownerDone \/ OwnerGone)
    /\ rec' = [rec EXCEPT !.ownerDone = TRUE]
    /\ clean' = "flags"
    /\ UNCHANGED <<outside, runner, proofs>>
CleanFlags ==
    /\ clean = "flags" /\ ~rec.streamsUncertain /\ ~rec.identityUncertain
    /\ clean' = "leader"
    /\ UNCHANGED <<outside, runner, rec, proofs>>
CleanLeader ==
    /\ clean = "leader" /\ Observed
    /\ clean' = "group"
    /\ UNCHANGED <<outside, runner, rec, proofs>>
\* A plausible bug: the launch group is taken for gone with its leader.
CleanGroupMutant ==
    /\ clean = "group"
    /\ clean' = "streams"
    /\ UNCHANGED <<outside, runner, rec, proofs>>
CleanGroup ==
    /\ clean = "group" /\ Members = {}
    /\ clean' = "streams"
    /\ UNCHANGED <<outside, runner, rec, proofs>>
CleanDrained ==
    /\ clean = "streams" /\ StreamsDone
    /\ runner' = [runner EXCEPT !.active = FALSE, !.needsCleanup = FALSE, !.used = TRUE]
    /\ rec' = [rec EXCEPT !.cleaned = TRUE, !.claimed = FALSE]
    /\ proofs' = proofs + 1
    /\ clean' = "idle"
    /\ UNCHANGED outside

\* Whatever cannot be shown is uncertain: the proof is spent, the run stays, and the runner
\* never takes another.
CleanQuarantines ==
    /\ \/ clean = "owner" /\ ~rec.ownerDone
       \/ clean = "flags" /\ (rec.streamsUncertain \/ rec.identityUncertain)
       \/ clean \in {"leader", "group"}
       \/ clean = "streams" /\ ~StreamsDone
    /\ rec' = [rec EXCEPT !.cleaned = TRUE, !.claimed = FALSE]
    /\ runner' = [runner EXCEPT !.used = TRUE]
    /\ proofs' = proofs + 1
    /\ clean' = "idle"
    /\ UNCHANGED outside

-----------------------------------------------------------------------------
(* Close. *)

beside == <<own, clean, source, runs, proofs>>

\* Never over a run or a proof that is owed. The removal is outside the mutex.
CloseBegins ==
    /\ closer = "idle" /\ Admits
    /\ runner' = [runner EXCEPT !.closing = TRUE]
    /\ closer' = "remove"
    /\ UNCHANGED beside
\* A failed removal (it may have removed the file) leaves the paths for another Close.
CloseFails ==
    /\ closer = "remove"
    /\ \E left \in {FALSE, runner.snapshot} :
           runner' = [runner EXCEPT !.closing = FALSE, !.snapshot = left]
    /\ closer' = "idle"
    /\ UNCHANGED beside
CloseEnds ==
    /\ closer = "remove"
    /\ runner' = [runner EXCEPT !.closing = FALSE, !.closed = TRUE, !.snapshot = FALSE]
    /\ closer' = "idle"
    /\ UNCHANGED beside

-----------------------------------------------------------------------------
RunStep ==
    \/ Prelaunch \/ Launch
    \/ IdentitySampled \/ GraceForgives \/ IdentityFailed \/ Handoff
    \/ Waited \/ WaitEnds
    \/ TerminateNow \/ TerminateObserves \/ TerminateWaits \/ StoreTerminated \/ ReapWaits
    \/ StreamWaits \/ Owes \/ Finishes
CleanStep ==
    \/ CleanPrelaunch \/ CleanClaims \/ CleanWaits \/ CleanReleases
    \/ CleanOwner \/ CleanFlags \/ CleanLeader \/ CleanGroup \/ CleanDrained
    \/ CleanQuarantines
Outside ==
    \/ Forks \/ Reap \/ Expires \/ Replaced
    \/ \E p \in Procs : Moves(p) \/ Lets(p)
    \/ MonitorReads \/ MonitorStores

Next == RunStep \/ CleanStep \/ Outside \/ CloseBegins \/ CloseFails \/ CloseEnds

Spec == Init /\ [][Next]_vars

-----------------------------------------------------------------------------
(***************************************************************************)
(* A runner that would take another command, or be closed, has shown the   *)
(* last one drained as far as its launch group and its pipes can show it:  *)
(* its leader is reaped, nobody is left in the launch group, nobody holds  *)
(* a pipe; a process that left the group is not seen. A run gives one      *)
(* proof, a proof that is owed can still be given unless it was            *)
(* quarantined, and the snapshot outlives every command (Run, Cleanup,     *)
(* Close: only a consumed Cleanup proof lets the next Run in).             *)
(***************************************************************************)
DrainIsProved ==
    /\ ~runner.needsCleanup =>
           life["leader"] \in {"none", "gone"} /\ Members = {} /\ pipes = {}
    /\ proofs <= 1
    /\ runner.needsCleanup => runner.active # runner.pending
    /\ runner.closing \/ runner.closed => ~runner.needsCleanup /\ ~runner.active

\* "A later ESRCH for the original group is never treated as proof after such a
\* change" (above monitorLeader): Cleanup does not go on to look for the group
\* of a run whose change of group the monitor has recorded.
GroupChangeIsNeverProof == [][monitor = "told" /\ clean = "flags" => clean' # "leader"]_vars
=============================================================================
