------------------------- MODULE AmendmentCheckpoint -------------------------
(***************************************************************************)
(* The checkpoint of an accepted post-build verification amendment:        *)
(*   workflowruntime/protected_amendment_checkpoint.go  the materializer   *)
(*   workflowruntime/postbuild_prepared.go, workflowworker/worker.go       *)
(*   worktreecoord/postbuild_amendment.go, postbuild_prepared.go           *)
(*   git/protected_checkpoint.go, git/retained_*.go                        *)
(*   store/postbuild_amendment_checkpoint*.go, postbuild_checkpoint_startup*)
(*                                                                         *)
(* The Builder's work is in the worktree, uncommitted, while a Reviewer    *)
(* changes the protected tests.  Only the tests may be committed, as one   *)
(* child of the original checkpoint, and only the bytes the receipt names. *)
(* Files may be edited from outside at any time, any child of git may      *)
(* fail, and the daemon may die between any two steps.  The ticket stays   *)
(* in verifying: each recovery adds one to version and runner, so a fence  *)
(* is an index of owner, the leaders of the versions since the request.    *)
(***************************************************************************)
EXTENDS Naturals, Sequences, FiniteSets

CONSTANTS
    MaxStarts,              \* bound: daemon starts
    MaxEdits,               \* bound: edits from outside
    MaxFaults,              \* bound: steps of the materializer that fail by themselves
    MaxCheckpointReclaims  \* maxPostbuildAmendmentCheckpointReclaims

VARIABLES
    up,        \* the daemon: down, recovering, serving
    leader,
    owner,     \* runner_recovery_ledger: the leader of each version
    tree,      \* the worktree: head, impl(ementation), prot(ected) and idx (staged tests)
    rev,       \* the amendment's Reviewer: none, running, accepted, rejected
    cmd,       \* its prebuild command result, by fence
    receipt,   \* postbuild_amendment_checkpoint_snapshots
    eff,       \* the commit effect: st, at, ce
    intent,    \* its Git claim: at, ce, and the prepared tests
    retired,   \* claims with a checkpoint_retired event
    reclaims,  \* checkpoint_reclaimed events
    outcome,   \* of the amendment: open, recorded, accepted, stopped
    job,       \* the activity: pc, the tree it built, whether it replays, and
               \* whether it found a prepared checkpoint
    touched    \* edits and faults so far; dirty: bytes nobody authorised; undone:
               \* an edit that a commit had picked up was undone before its next check

vars == <<up, leader, owner, tree, rev, cmd, receipt, eff, intent, retired, reclaims, outcome, job, touched>>
durable == <<owner, rev, cmd, receipt, eff, intent, retired, reclaims, outcome>>

NoFence  == [i |-> 0, l |-> 0]
Live     == [i |-> Len(owner), l |-> leader]
NoClaim  == [at |-> NoFence, ce |-> 0]
NoIntent == [at |-> NoFence, ce |-> 0, prep |-> 0]
None     == [at |-> NoFence, full |-> <<>>]
Rest     == [pc |-> "idle", built |-> 0, replay |-> FALSE, found |-> FALSE]

\* The Builder's bytes are 1, the original tests 0; the commit holds the tests
\* in head, 0 in the original checkpoint.
Init ==
    /\ up = "serving" /\ leader = 1 /\ owner = <<1>>
    /\ tree = [head |-> 0, impl |-> 1, prot |-> 0, idx |-> 0]
    /\ rev = "none" /\ cmd = NoFence /\ receipt = None
    /\ eff = [st |-> "none", at |-> NoFence, ce |-> 0] /\ intent = NoIntent
    /\ retired = {} /\ reclaims = 0 /\ outcome = "open" /\ job = Rest
    /\ touched = [edits |-> 0, faults |-> 0, dirty |-> FALSE, undone |-> FALSE]

-----------------------------------------------------------------------------
(* What is read *)

\* The bytes the request was made with.
Snapshot == [impl |-> 1, full |-> <<0, 1, 0, 0>>]

InspectRetainedWorktree       == <<tree.head, tree.impl, tree.prot, tree.idx>>
InspectRetainedImplementation == tree.impl

\* validateRunnerRecoveryLedgerPrefix: two fences of this history, in order.
Signed(s, e) ==
    /\ s.i \in DOMAIN owner /\ e.i \in DOMAIN owner /\ s.i <= e.i
    /\ owner[s.i] = s.l /\ owner[e.i] = e.l

\* linkedGitRecoveryEffect.
Linked ==
    IF eff.st = "executing" THEN eff.at = intent.at /\ eff.ce = intent.ce
    ELSE eff.at.i = intent.at.i /\ eff.at.l >= intent.at.l /\ eff.ce >= intent.ce

Unresolved == eff.st \in {"planned", "executing", "uncertain"}

\* postbuildAmendmentCheckpointSnapshotFrom: the receipt and all it rests on.
SnapshotAuthentic ==
    /\ receipt # None /\ rev = "accepted"
    /\ Signed(cmd, Live) /\ Signed(receipt.at, Live)
    /\ receipt.full[2] = Snapshot.impl

\* PostbuildAmendmentPreparedCheckpoint: the one prepared child.
PreparedCheckpoint ==
    /\ intent.prep # 0 /\ SnapshotAuthentic /\ Linked
    /\ Signed(receipt.at, intent.at) /\ Signed(intent.at, Live)

-----------------------------------------------------------------------------
(* Admission by the scheduler *)

\* authenticatePreparedPostbuildAmendment: the child, or the parent as reviewed.
AuthenticatePrepared ==
    /\ PreparedCheckpoint
    /\ tree.head \in {0, intent.prep}
    /\ tree.head = 0 => InspectRetainedWorktree = receipt.full
    /\ InspectRetainedImplementation = Snapshot.impl

\* authenticatePostbuildVerificationAmendment: before a Reviewer completed, the
\* bytes of the request; after it, its tests over the same implementation.
Authenticate ==
    /\ tree.head = 0 /\ InspectRetainedImplementation = Snapshot.impl
    /\ rev \notin {"accepted", "rejected"} => InspectRetainedWorktree = Snapshot.full

At(pc) == up = "serving" /\ job.pc = pc
To(pc) == job' = [job EXCEPT !.pc = pc]

\* A prepared checkpoint is only ever resumed: no Reviewer may follow it.
Tick ==
    /\ At("idle") /\ outcome \in {"open", "recorded"}
    /\ IF intent.prep # 0
       THEN AuthenticatePrepared /\ To("materialize")
       ELSE Authenticate /\ To(IF rev \in {"accepted", "rejected"} THEN "resolve" ELSE "review")
    /\ UNCHANGED <<up, leader, tree, touched>> /\ UNCHANGED durable

\* verifyingAmendment: one fresh Reviewer, which may change the tests.
LaunchReviewer ==
    /\ At("review") /\ rev' = "running" /\ To("reviewing")
    /\ UNCHANGED <<up, leader, owner, tree, cmd, receipt, eff, intent, retired, reclaims, outcome, touched>>

ReviewerEnds ==
    /\ At("reviewing")
    /\ \/ tree' = [tree EXCEPT !.prot = 1] /\ rev' = "accepted" /\ To("resolve")
       \/ rev' = "rejected" /\ To("resolve") /\ UNCHANGED tree
       \/ rev' = "none" /\ job' = Rest /\ UNCHANGED tree
    /\ UNCHANGED <<up, leader, owner, cmd, receipt, eff, intent, retired, reclaims, outcome, touched>>

\* resolveVerificationAmendment; a rejection stops the ticket for the operator.
Resolve ==
    /\ At("resolve")
    /\ IF rev = "rejected" THEN outcome' = "stopped" /\ job' = Rest ELSE To("materialize") /\ UNCHANGED outcome
    /\ UNCHANGED <<up, leader, owner, tree, rev, cmd, receipt, eff, intent, retired, reclaims, touched>>

-----------------------------------------------------------------------------
(* materializePostbuildAmendmentCheckpoint *)

\* proveProtectedCheckpointSynced.
SyncedMutant(c) ==  \* A plausible bug: the child at HEAD is taken for a finished checkpoint.
    tree.head = c /\ InspectRetainedImplementation = Snapshot.impl

Synced(c) ==
    /\ tree.head = c /\ tree.prot = c /\ tree.idx = c
    /\ InspectRetainedImplementation = Snapshot.impl

Materialize ==
    /\ At("materialize")
    /\ IF InspectRetainedImplementation # Snapshot.impl THEN job' = Rest
       ELSE IF intent.prep = 0 THEN To(IF receipt = None THEN "command" ELSE "inspect")
       ELSE IF ~PreparedCheckpoint
               \/ (~Synced(intent.prep) /\ tree.head = 0 /\ InspectRetainedWorktree # receipt.full)
            THEN job' = Rest
       ELSE IF eff.st = "confirmed" THEN job' = IF Synced(intent.prep) THEN [job EXCEPT !.pc = "record"] ELSE Rest
       ELSE job' = [job EXCEPT !.pc = "reclaim", !.found = TRUE]
    /\ UNCHANGED <<up, leader, tree, touched>> /\ UNCHANGED durable

\* runCommand: a recorded result is not run again.
RunCommand ==
    /\ At("command")
    /\ cmd' = IF cmd = NoFence THEN Live ELSE cmd
    /\ To("inspect")
    /\ UNCHANGED <<up, leader, owner, tree, rev, receipt, eff, intent, retired, reclaims, outcome, touched>>

\* RecordPostbuildAmendmentCheckpointSnapshot: immutable once written.
RecordSnapshot ==
    /\ At("inspect")
    /\ IF tree.head # 0 \/ InspectRetainedImplementation # Snapshot.impl
          \/ (receipt = None /\ Unresolved)
       THEN job' = Rest /\ UNCHANGED receipt
       ELSE \E r \in {IF receipt = None THEN [at |-> Live, full |-> InspectRetainedWorktree] ELSE receipt} :
               /\ receipt' = r
               /\ job' = IF r.full # InspectRetainedWorktree THEN Rest
                         ELSE [job EXCEPT !.pc = IF eff.st = "none" THEN "plan" ELSE "reclaim"]
    /\ UNCHANGED <<up, leader, owner, tree, rev, cmd, eff, intent, retired, reclaims, outcome, touched>>

PlanEffect ==
    /\ At("plan") /\ eff' = [st |-> "planned", at |-> Live, ce |-> 0] /\ To("issue")
    /\ UNCHANGED <<up, leader, owner, tree, rev, cmd, receipt, intent, retired, reclaims, outcome, touched>>

IssueGitMutationClaim ==
    /\ At("issue") /\ eff.st = "planned"
    /\ eff' = [eff EXCEPT !.st = "executing", !.ce = 1]
    /\ intent' = [at |-> Live, ce |-> 1, prep |-> 0] /\ To("lease")
    /\ UNCHANGED <<up, leader, owner, tree, rev, cmd, receipt, retired, reclaims, outcome, touched>>

\* What each state of the effect has to come with before it is taken over.
Reclaimable ==
    /\ SnapshotAuthentic
    /\ CASE eff.st = "failed" ->
              /\ intent = NoIntent /\ [at |-> eff.at, ce |-> eff.ce] \in retired
              /\ Signed(receipt.at, eff.at) /\ Signed(eff.at, Live)
         [] eff.st = "planned" ->
              intent = NoIntent /\ eff.ce = 0 /\ Signed(receipt.at, eff.at) /\ Signed(eff.at, Live)
         [] eff.st \in {"executing", "uncertain"} ->
              intent # NoIntent /\ Linked /\ Signed(receipt.at, intent.at) /\ Signed(intent.at, Live)
         [] OTHER -> FALSE

SameFence == eff.st = "executing" /\ intent.at = Live

\* ReclaimPostbuildAmendmentCheckpoint: a new claim at this fence, over the same
\* target and with whatever was prepared for it.
Reclaim ==
    /\ At("reclaim")
    /\ IF ~Reclaimable \/ (~SameFence /\ reclaims >= MaxCheckpointReclaims) THEN job' = Rest /\ UNCHANGED <<eff, intent, reclaims>>
       ELSE /\ IF SameFence THEN UNCHANGED <<eff, intent, reclaims>>
               ELSE /\ eff' = [st |-> "executing", at |-> Live, ce |-> eff.ce + 1]
                    /\ intent' = [intent EXCEPT !.at = Live, !.ce = eff.ce + 1]
                    /\ reclaims' = reclaims + 1
            /\ To(IF intent.prep # 0 /\ Synced(intent.prep) THEN "confirm" ELSE "lease")
    /\ UNCHANGED <<up, leader, owner, tree, rev, cmd, receipt, retired, outcome, touched>>

-----------------------------------------------------------------------------
(* CommitProtectedCheckpoint, under the Git lease *)

Commits == {"lease", "add", "again", "update", "readd", "reset", "final", "confirm"}

Implementation == InspectRetainedImplementation = Snapshot.impl
Full           == job.replay \/ InspectRetainedWorktree = receipt.full

\* RetirePostbuildAmendmentCheckpoint: the claim and its audit event.
Retire ==
    /\ intent.prep = 0
    /\ eff' = [eff EXCEPT !.st = "failed"] /\ intent' = NoIntent
    /\ retired' = retired \union {[at |-> intent.at, ce |-> intent.ce]}

\* settleProtectedCheckpointFailure: nothing prepared is retired, anything else
\* may be visible.  The settlement may fail as well.
Settle ==
    /\ job' = Rest
    /\ \/ UNCHANGED <<eff, intent, retired>>
       \/ Retire
       \/ /\ intent.prep # 0
          /\ eff' = [eff EXCEPT !.st = "uncertain"] /\ UNCHANGED <<intent, retired>>

\* A step whose checks do not hold ends the operation.
Check(ok, step) ==
    /\ \/ ok /\ step /\ UNCHANGED <<eff, retired>>
       \/ ~ok /\ Settle /\ UNCHANGED tree
    /\ UNCHANGED <<up, leader, owner, rev, cmd, receipt, reclaims, outcome, touched>>

\* reconcileCommit: the child already at HEAD is replayed.
ReconcileCommit ==
    /\ At("lease")
    /\ Check(Implementation /\ (tree.head = 0 => InspectRetainedWorktree = receipt.full),
             /\ job' = [job EXCEPT !.pc = "add", !.replay = tree.head # 0]
             /\ UNCHANGED <<tree, intent>>)

\* The tests as they are now, in a private index.
AddProtected ==
    /\ At("add")
    /\ Check(TRUE, job' = [job EXCEPT !.pc = "again", !.built = tree.prot] /\ UNCHANGED <<tree, intent>>)

\* Both checks again, the deterministic commit, and its durable record.
RecordPrepared ==
    /\ At("again")
    /\ Check(Implementation /\ Full /\ (job.replay => job.built = tree.head) /\ intent.prep \in {0, job.built},
             intent' = [intent EXCEPT !.prep = job.built] /\ To("update") /\ UNCHANGED tree)

UpdateRef ==
    /\ At("update")
    /\ Check(Implementation /\ Full,
             tree' = [tree EXCEPT !.head = job.built] /\ To("readd") /\ UNCHANGED intent)

CheckTree ==
    /\ At("readd")
    /\ Check(tree.prot = job.built /\ Implementation, To("reset") /\ UNCHANGED <<tree, intent>>)

ResetIndex ==
    /\ At("reset")
    /\ Check(TRUE, tree' = [tree EXCEPT !.idx = job.built] /\ To("final") /\ UNCHANGED intent)

CheckSynced ==
    /\ At("final")
    /\ Check(Synced(job.built), To("confirm") /\ UNCHANGED <<tree, intent>>)

\* ConfirmPreparedCommit: the observed child under the fence of the claim.
ConfirmPreparedCommit ==
    /\ At("confirm")
    /\ IF tree.head = intent.prep /\ intent.at = Live /\ eff.at = intent.at /\ eff.ce = intent.ce
       THEN eff' = [eff EXCEPT !.st = "confirmed"] /\ To("record") /\ UNCHANGED <<intent, retired>>
       ELSE Settle
    /\ UNCHANGED <<up, leader, owner, tree, rev, cmd, receipt, reclaims, outcome, touched>>

\* A child of git, a deadline or the store fails.
Fault ==
    /\ up = "serving" /\ touched.faults < MaxFaults
    /\ \/ job.pc \in Commits /\ Settle
       \/ job.pc \in {"resolve", "materialize", "command", "inspect", "plan", "issue", "reclaim", "record", "signal"}
          /\ job' = Rest /\ UNCHANGED <<eff, intent, retired>>
    /\ touched' = [touched EXCEPT !.faults = @ + 1]
    /\ UNCHANGED <<up, leader, owner, tree, rev, cmd, receipt, reclaims, outcome>>

\* A resumed checkpoint is looked at once more; RecordVerification, bound to the
\* receipt, and then the decision.
RecordVerification ==
    /\ At("record")
    /\ IF SnapshotAuthentic /\ (job.found => Synced(intent.prep)) THEN outcome' = "recorded" /\ To("signal") ELSE job' = Rest /\ UNCHANGED outcome
    /\ UNCHANGED <<up, leader, owner, tree, rev, cmd, receipt, eff, intent, retired, reclaims, touched>>

SignalAccepted ==
    /\ At("signal") /\ outcome' = "accepted" /\ job' = Rest
    /\ UNCHANGED <<up, leader, owner, tree, rev, cmd, receipt, eff, intent, retired, reclaims, touched>>

-----------------------------------------------------------------------------
(* The environment, and a start of the daemon *)

\* An edit writes bytes that were not there before.
Edit ==
    /\ touched.edits < MaxEdits /\ outcome # "accepted"
    /\ \E new \in {touched.edits + 3} :
          tree' \in {[tree EXCEPT !.impl = new], [tree EXCEPT !.prot = new]}
    /\ touched' = [touched EXCEPT !.edits = @ + 1, !.dirty = TRUE]
    /\ UNCHANGED <<up, leader, job>> /\ UNCHANGED durable

\* Somebody puts back the bytes of the receipt.
Restore ==
    /\ receipt # None /\ outcome # "accepted"
    /\ tree' = [tree EXCEPT !.impl = Snapshot.impl, !.prot = receipt.full[3]] /\ tree' # tree
    /\ touched' = [touched EXCEPT !.undone = @ \/ (job.pc = "again" /\ job.built # receipt.full[3])]
    /\ UNCHANGED <<up, leader, job>> /\ UNCHANGED durable

\* A Reviewer that dies with the daemon may have written some of its tests.
Crash ==
    /\ up # "down" /\ outcome \in {"open", "recorded"} /\ up' = "down" /\ job' = Rest
    /\ rev' = IF rev = "running" THEN "none" ELSE rev
    /\ \/ UNCHANGED <<tree, touched>>
       \/ /\ rev = "running" /\ tree' = [tree EXCEPT !.prot = 2]
          /\ touched' = [touched EXCEPT !.dirty = TRUE]
    /\ UNCHANGED <<leader, owner, cmd, receipt, eff, intent, retired, reclaims, outcome>>

\* The leader lease and ReconcileEffects.
Start ==
    /\ up = "down" /\ leader < MaxStarts /\ leader' = leader + 1 /\ up' = "recovering"
    /\ eff' = IF eff.st \in {"executing", "uncertain"}
              THEN [st |-> "uncertain", at |-> [eff.at EXCEPT !.l = leader + 1], ce |-> eff.ce + 1]
              ELSE eff
    /\ UNCHANGED <<owner, tree, rev, cmd, receipt, intent, retired, reclaims, outcome, job, touched>>

\* DeferPostbuildAmendmentCheckpointRecovery: everything that names the
\* checkpoint authenticates at the claim, or the start is refused.
DeferRecovery ==
    /\ intent # NoIntent /\ Linked /\ receipt # None /\ rev = "accepted"
    /\ receipt.full[2] = Snapshot.impl /\ Signed(cmd, receipt.at) /\ Signed(receipt.at, intent.at)

\* reconcilePreparedCommits, then FenceRecoveredRunners.
Recover ==
    /\ up = "recovering" /\ (eff.st = "uncertain" => DeferRecovery)
    /\ owner' = Append(owner, leader) /\ up' = "serving"
    /\ UNCHANGED <<leader, tree, rev, cmd, receipt, eff, intent, retired, reclaims, outcome, job, touched>>

Next ==
    \/ Tick \/ LaunchReviewer \/ ReviewerEnds \/ Resolve \/ Materialize \/ RunCommand
    \/ RecordSnapshot \/ PlanEffect \/ IssueGitMutationClaim \/ Reclaim \/ ReconcileCommit
    \/ AddProtected \/ RecordPrepared \/ UpdateRef \/ CheckTree \/ ResetIndex \/ CheckSynced
    \/ ConfirmPreparedCommit \/ Fault \/ RecordVerification \/ SignalAccepted
    \/ Edit \/ Restore \/ Crash \/ Start \/ Recover

Spec == Init /\ [][Next]_vars

-----------------------------------------------------------------------------
(* What must hold *)

\* The branch leaves the original checkpoint only for the tests the receipt
\* names, over the implementation the request was made with, whatever is edited
\* while the commit is made (unless an edit is undone between `git add` and the
\* check behind it: CommitProtectedCheckpoint compares the files again, and not
\* the tree it has built); and a confirmed checkpoint is also the index, so
\* that no crash between update-ref and reset is taken for a finished one.
CheckpointIsReviewed ==
    /\ tree.head # 0 => /\ receipt # None /\ receipt.full[2] = Snapshot.impl
                        /\ tree.head = receipt.full[3] \/ touched.undone
    /\ eff.st = "confirmed" => tree.head # 0 /\ tree.idx = tree.head
    /\ outcome \in {"recorded", "accepted"} => eff.st = "confirmed"

\* Unless somebody else changed a file or the reclaims are spent, a crash or a
\* failed step never leaves an amendment that no later start or tick may
\* finish: the start recovers it, its lane admits it, and its effect can be
\* taken over.
CheckpointIsResumable ==
    (~touched.dirty /\ reclaims < MaxCheckpointReclaims) =>
        /\ (up = "recovering" /\ eff.st = "uncertain") => DeferRecovery
        /\ (up = "serving" /\ job.pc = "idle" /\ outcome \in {"open", "recorded"}) =>
              /\ IF intent.prep # 0 THEN AuthenticatePrepared ELSE Authenticate
              /\ eff.st \notin {"none", "confirmed"} => Reclaimable
              /\ eff.st = "confirmed" => Synced(intent.prep)
=============================================================================
