--------------------------- MODULE PostbuildRepair ---------------------------
(***************************************************************************)
(* A build whose verification command fails after the Builder:             *)
(*   store/postbuild_repair*.go, postbuild_failure.go                      *)
(*   store/postbuild_amendment{,_read,_recovery,_candidate}.go             *)
(*   store/postbuild_amendment_prepared_candidate.go                       *)
(*   workflowruntime/scheduler.go, postbuild_*.go                          *)
(*   workflowworker/worker.go building, postbuild_repair.go                *)
(*   worktreecoord/postbuild_repair.go                                     *)
(*                                                                         *)
(* The failed command starts a repair: a new building entry in the same    *)
(* dirty worktree, for one fresh Builder, which may ask for the tests to   *)
(* be amended instead.  Nothing marks the ticket as being under repair:    *)
(* every tick and every start finds its lane again from the history.       *)
(* hist is that history since the first build, one record per version; a   *)
(* fence is an index of it and a leader.  Operator control, publication    *)
(* and the amendment's own checkpoint (AmendmentCheckpoint) are left out.  *)
(***************************************************************************)
EXTENDS Naturals, Sequences, FiniteSets

CONSTANTS
    MaxStarts,       \* bound: daemon starts
    MaxCorrections,  \* the ticket's correction budget
    MaxAttempts      \* Builder attempts of one entry (module ProviderAttempts)

VARIABLES
    up,       \* the daemon: down, serving, refused (the start failed)
    leader,
    state,    \* building, verifying, publishing, blocked
    hist,     \* events and runner_recovery_ledger: t, leader l, a row's prior leader pl
    att,      \* Builder attempts: fence at, entry e, proof rev, st
    cmd,      \* post-build command results: Builder b, fence at, ok
    repairs,  \* postbuild_repair_entries
    reqs,     \* verification_amendment_requests; bound: with a post-build snapshot
    rev,      \* the current verification revision
    eff,      \* the candidate's commit: st, fence at, Builder b
    cand,     \* candidate_snapshots: Builder b, fence at
    tree,     \* the worktree: head (a revision, or 0 for the candidate), last
              \* writer b and whether it finished
    job       \* the activity: pc and its Builder

vars == <<up, leader, state, hist, att, cmd, repairs, reqs, rev, eff, cand, tree, job>>

NoFence == [i |-> 0, l |-> 0]
NoEff   == [st |-> "none", at |-> NoFence, b |-> 0]
NoCand  == [b |-> 0, at |-> NoFence]
Idle    == [pc |-> "idle", b |-> 0]
Live    == [i |-> Len(hist), l |-> leader]
At(i)   == [i |-> i, l |-> hist[i].l]
Latest(S) == CHOOSE x \in S : \A y \in S : y <= x

\* The first Builder has finished in a clean run of the cycle.
Init ==
    /\ up = "serving" /\ leader = 1 /\ state = "building"
    /\ hist = <<[t |-> "built", l |-> 1, pl |-> 0]>>
    /\ att = <<[at |-> [i |-> 1, l |-> 1], e |-> 1, rev |-> 1, st |-> "done"]>>
    /\ cmd = {} /\ repairs = <<>> /\ reqs = <<>> /\ rev = 1 /\ eff = NoEff /\ cand = NoCand
    /\ tree = [head |-> 1, b |-> 1, whole |-> TRUE] /\ job = Idle

-----------------------------------------------------------------------------
(* Reading the history *)

Rows        == {i \in DOMAIN hist : hist[i].t = "row"}
Decisions   == {i \in DOMAIN hist : hist[i].t \in {"accepted", "rejected"}}
Entries     == {i \in DOMAIN hist : hist[i].t \in {"built", "repair"}} \cup Decisions
Entry       == Latest(Entries)
Repaired    == Len(repairs) > 0
LastRepair  == repairs[Len(repairs)]
LastRequest == reqs[Len(reqs)]
Bound       == {k \in DOMAIN reqs : reqs[k].bound}

\* Each version is owned by its predecessor's leader, or a row takes it over.
Chained(s, e) ==
    /\ s.i \in DOMAIN hist /\ e.i \in DOMAIN hist /\ s.i <= e.i /\ s = At(s.i) /\ e = At(e.i)
    /\ \A i \in s.i + 1 .. e.i :
          hist[i - 1].l = (IF hist[i].t = "row" THEN hist[i].pl ELSE hist[i].l)

\* postbuildRepairSignedSourcePrefix: only recovery rows lie between.
Signed(s, e) == Chained(s, e) /\ \A i \in s.i + 1 .. e.i : i \in Rows

\* validPostbuildRepairGap: a repair occurs, and requests and decisions belong
\* to the newest repair of the interval.
RepairGap(s, e) ==
    LET within == s.i + 1 .. e.i
        fixed(i) == {j \in s.i + 1 .. i : hist[j].t = "repair"} IN
    /\ Chained(s, e) /\ fixed(e.i) # {}
    /\ \A k \in DOMAIN reqs :
          LET q == reqs[k]
              d == {i \in Decisions : i > q.v /\ (k < Len(reqs) => i < reqs[k + 1].v)} IN
          \A i \in ({q.v} \cup d) \cap within :
             q.bound /\ fixed(i) # {} /\ q.r = Latest(fixed(i))

\* The gaps between two rows: nothing, an amendment's request and decision, or
\* a repair.
Gap(s, e) ==
    \/ RepairGap(s, e)
    \/ Chained(s, e) /\ [k \in 1 .. e.i - s.i |-> hist[s.i + k].t] \in
          {<<>>} \cup {<<q>> \o <<d>> : q \in {"request"}, d \in {"accepted", "rejected"}}
          \cup {<<q>> : q \in {"request", "accepted", "rejected"}}

\* validateRunnerRecoveryLedgerPrefix from s to e.
Ledger(s, e) ==
    LET rows == {i \in Rows : s.i < i /\ i <= e.i}
        from(i) == LET past == {j \in rows : j < i} IN IF past = {} THEN s ELSE At(Latest(past)) IN
    /\ \A i \in rows : Gap(from(i), [i |-> i - 1, l |-> hist[i].pl])
    /\ Gap(from(e.i + 1), e)

\* validInitialPostbuildRepairTarget
InitialTarget(e) ==
    \E k \in {1} \cap DOMAIN repairs :
        repairs[k].e <= e.i /\ repairs[k].at.i = 1 /\ RepairGap(repairs[k].at, e)

FirstRow   == CHOOSE i \in Rows : \A j \in Rows : i <= j
FirstPrior == [i |-> FirstRow - 1, l |-> hist[FirstRow].pl]

\* authenticatePostbuildRecoveryPrefix; validateInitialLifecycleAdvance knows
\* the first build only.
RecoveryPrefix(e) ==
    IF Rows = {} THEN InitialTarget(e)
    ELSE (FirstPrior.i > 1 => InitialTarget(FirstPrior)) /\ Ledger(FirstPrior, e)

-----------------------------------------------------------------------------
(* What a Builder's result still speaks for *)

Finished == {b \in DOMAIN att : att[b].st \in {"done", "amend"}}

\* Claimed under the newest repair entry, and not the repaired attempt itself.
AfterRepair(b) == Repaired => att[b].at.i >= LastRepair.e /\ b > LastRepair.b

\* providerResultReachesFence
Reaches(b) ==
    /\ AfterRepair(b)
    /\ Rows # {} => (FirstPrior.i > 1 => InitialTarget(FirstPrior)) /\ Ledger(FirstPrior, At(Latest(Rows)))
    /\ att[b].at = Live \/ Ledger(att[b].at, Live)

\* LatestReusableProviderAttempt: the set of one Builder, or empty.
Reusable ==
    {b \in Finished : /\ \A c \in Finished : c <= b
                      /\ AfterRepair(b)
                      /\ Repaired /\ hist[Entry].t = "accepted" => att[b].at.i >= Entry}

\* postbuildCandidateHandoffFrom the entry e
CandidateHandoff(e) ==
    cand # NoCand =>
        /\ cand.at.i >= e /\ att[cand.b].e = e /\ att[cand.b].st = "done"
        /\ \A b \in DOMAIN att : b > cand.b => att[b].st = "running"
        /\ Reaches(cand.b) /\ Signed(att[cand.b].at, cand.at) /\ Signed(cand.at, Live)

\* postbuildPreparedCandidateWitnessFrom: the one commit since the entry e, by
\* b, with its command, and either confirmed or still this fence's own.
Committed(e) == eff # NoEff /\ eff.at.i >= e
PreparedCandidate(e, b) ==
    /\ Committed(e) /\ eff.st \in {"visible", "confirmed"}
    /\ att[b].st = "done" /\ att[b].e = e /\ b = Len(att) /\ Reaches(b)
    /\ eff.st = "confirmed" \/ eff.at = Live
    /\ Signed(att[b].at, eff.at) /\ Signed(eff.at, Live)
    /\ [b |-> b, at |-> eff.at, ok |-> TRUE] \in cmd

-----------------------------------------------------------------------------
(* The lane of a tick *)

\* refreshBuilderChangesMatch at the head h
ChangesMatch(h, b) == tree = [head |-> h, b |-> b, whole |-> TRUE]

\* PostbuildVerificationAmendmentContext: "absent" only when no post-build
\* snapshot exists.
AmendmentContext ==
    IF Bound = {} THEN "absent"
    ELSE IF ~LastRequest.bound THEN "conflict"
    ELSE IF state = "verifying"
         THEN IF Signed([i |-> LastRequest.v, l |-> LastRequest.at.l], Live) THEN "pending" ELSE "conflict"
    ELSE LET d == Latest(Decisions) IN
         IF hist[d].t = "rejected" THEN "rejected"
         ELSE IF Entry = d /\ CandidateHandoff(d) THEN "accepted" ELSE "conflict"

\* authenticatePostbuildVerificationAmendment, of an accepted one.
Admitted ==
    IF Reusable = {} THEN tree.head = rev /\ cand = NoCand
                          /\ tree.b = LastRequest.tree.b /\ tree.whole = LastRequest.tree.whole
    ELSE \E b \in Reusable :
            /\ Reaches(b) /\ att[b].st = "done"
            /\ IF cand # NoCand THEN cand.b = b /\ tree.head = 0
               ELSE IF tree.head = 0 THEN PreparedCandidate(Entry, b) ELSE ChangesMatch(rev, b)

\* readPostbuildRepairContext and authenticatePostbuildRepair
RepairLane ==
    LET r == LastRepair
        n == Len(att) IN
    IF ~(Signed(At(r.e), Live) /\ rev = r.rev /\ CandidateHandoff(r.e)) THEN "none"
    ELSE IF n = r.b THEN IF tree = r.tree /\ cand = NoCand /\ eff.st \notin {"claimed", "visible"} THEN "run" ELSE "none"
    ELSE IF ~(n \in Finished /\ Reaches(n) /\ att[n].e = r.e) THEN "none"
    ELSE IF att[n].st = "amend" THEN "dispatch"
    ELSE IF /\ eff.st \in {"claimed", "visible"} => PreparedCandidate(r.e, n)
            /\ IF cand # NoCand THEN tree.head = 0
               ELSE IF tree.head = 0 THEN PreparedCandidate(r.e, n) ELSE ChangesMatch(r.rev, n)
         THEN "run" ELSE "none"

Lane ==
    CASE AmendmentContext = "conflict" -> "none"
      [] AmendmentContext = "rejected" -> "stop"
      [] AmendmentContext = "pending"  -> "review"
      [] AmendmentContext = "accepted" -> IF Admitted THEN "run" ELSE "none"
      [] OTHER -> IF Repaired THEN RepairLane ELSE "run"

\* Worker.building in the lane "run": what it does first.
Work ==
    IF Lane # "run" THEN Lane
    ELSE IF cand # NoCand
    THEN IF cand.at = Live THEN "signal"
         ELSE IF Reusable = {cand.b} THEN "rebind" ELSE "none"
    ELSE IF Reusable # {} THEN IF \A b \in Reusable : Reaches(b) THEN "materialize" ELSE "none"
    ELSE IF Cardinality({b \in DOMAIN att : att[b].e = Entry}) < MaxAttempts THEN "launch" ELSE "exhausted"

Resting   == up = "serving" /\ job = Idle /\ state \in {"building", "verifying"}
In(pc)    == up = "serving" /\ job.pc = pc
To(pc, b) == job' = [pc |-> pc, b |-> b]

-----------------------------------------------------------------------------
(* The Builder, its command and its candidate *)

Append1(t) == hist' = Append(hist, [t |-> t, l |-> leader, pl |-> 0])

StopRejected ==
    /\ Resting /\ Work = "stop" /\ state' = "blocked"
    /\ UNCHANGED <<up, leader, hist, att, cmd, repairs, reqs, rev, eff, cand, tree, job>>

LaunchBuilder ==
    /\ Resting /\ Work = "launch"
    /\ att' = Append(att, [at |-> Live, e |-> Entry, rev |-> rev, st |-> "running"])
    /\ To("builder", Len(att) + 1)
    /\ UNCHANGED <<up, leader, state, hist, cmd, repairs, reqs, rev, eff, cand, tree>>

\* The entry's attempts are used up: the ticket pauses for the operator.
Exhausted ==
    /\ Resting /\ Work = "exhausted" /\ state' = "blocked"
    /\ UNCHANGED <<up, leader, hist, att, cmd, repairs, reqs, rev, eff, cand, tree, job>>

BuilderWrites ==
    /\ In("builder") /\ tree.b # job.b
    /\ tree' = [tree EXCEPT !.b = job.b, !.whole = FALSE]
    /\ UNCHANGED <<up, leader, state, hist, att, cmd, repairs, reqs, rev, eff, cand, job>>

BuilderEnds ==
    /\ In("builder")
    /\ \E st \in {"done", "amend", "failed"} :
          /\ att' = [att EXCEPT ![job.b].st = st]
          /\ tree' = IF st = "failed" THEN tree ELSE [tree EXCEPT !.b = job.b, !.whole = TRUE]
          /\ CASE st = "done"  -> To("materialize", job.b)
               [] st = "amend" -> To("request", job.b)
               [] OTHER        -> job' = Idle
    /\ UNCHANGED <<up, leader, state, hist, cmd, repairs, reqs, rev, eff, cand>>

ReuseBuilder ==
    /\ Resting /\ Work = "materialize"
    /\ \E b \in Reusable : To(IF att[b].st = "done" THEN "materialize" ELSE "request", b)
    /\ UNCHANGED <<up, leader, state, hist, att, cmd, repairs, reqs, rev, eff, cand, tree>>

\* replayPostbuildPreparedCandidate: the commit is observed and confirmed, and
\* neither it nor its command is issued again.
ReplayCandidate ==
    /\ In("materialize") /\ Repaired /\ Committed(Entry)
    /\ IF PreparedCandidate(Entry, job.b) /\ tree.head = 0
       THEN eff' = [eff EXCEPT !.st = "confirmed"] /\ To("record", job.b)
       ELSE job' = Idle /\ UNCHANGED eff
    /\ UNCHANGED <<up, leader, state, hist, att, cmd, repairs, reqs, rev, cand, tree>>

\* runCommand: a result of this fence is reused, and only of this fence.
ResultsMutant(b) == {c \in cmd : c.b = b}  \* A plausible bug: of any fence.

Results(b) == {c \in cmd : c.b = b /\ c.at = Live}

RunCommand ==
    /\ In("materialize") /\ ~(Repaired /\ Committed(Entry))
    /\ \E ok \in BOOLEAN :
          /\ Results(job.b) # {} => \E c \in Results(job.b) : c.ok = ok
          /\ cmd' = IF Results(job.b) = {} THEN cmd \cup {[b |-> job.b, at |-> Live, ok |-> ok]} ELSE cmd
          /\ To(IF ok THEN "commit" ELSE "repair", job.b)
    /\ UNCHANGED <<up, leader, state, hist, att, repairs, reqs, rev, eff, cand, tree>>

\* commit: an intent of this fence is observed and confirmed; a commit of an
\* older fence has moved the parent, and every later attempt is refused.
Commit ==
    /\ In("commit")
    /\ IF eff = NoEff /\ ChangesMatch(rev, job.b)
       THEN eff' = [st |-> "claimed", at |-> Live, b |-> job.b] /\ To("update", job.b)
       ELSE IF eff.at = Live /\ eff.st \in {"visible", "confirmed"}
       THEN eff' = [eff EXCEPT !.st = "confirmed"] /\ To("record", job.b)
       ELSE job' = Idle /\ UNCHANGED eff
    /\ UNCHANGED <<up, leader, state, hist, att, cmd, repairs, reqs, rev, cand, tree>>

UpdateRef ==
    /\ In("update") /\ eff' = [eff EXCEPT !.st = "visible"] /\ tree' = [tree EXCEPT !.head = 0]
    /\ To("confirm", job.b)
    /\ UNCHANGED <<up, leader, state, hist, att, cmd, repairs, reqs, rev, cand>>

\* The observation or its answer may be lost: the next tick replays it.
Confirm ==
    /\ In("confirm")
    /\ \/ eff' = [eff EXCEPT !.st = "confirmed"] /\ To("record", job.b)
       \/ job' = Idle /\ UNCHANGED eff
    /\ UNCHANGED <<up, leader, state, hist, att, cmd, repairs, reqs, rev, cand, tree>>

RecordCandidate ==
    /\ In("record") /\ cand' = [b |-> job.b, at |-> Live] /\ To("signal", job.b)
    /\ UNCHANGED <<up, leader, state, hist, att, cmd, repairs, reqs, rev, eff, tree>>

RebindCandidate ==
    /\ Resting /\ Work = "rebind" /\ cand' = [cand EXCEPT !.at = Live] /\ To("signal", cand.b)
    /\ UNCHANGED <<up, leader, state, hist, att, cmd, repairs, reqs, rev, eff, tree>>

SignalCandidate ==
    /\ In("signal") \/ (Resting /\ Work = "signal")
    /\ state' = "publishing" /\ job' = Idle
    /\ UNCHANGED <<up, leader, hist, att, cmd, repairs, reqs, rev, eff, cand, tree>>

-----------------------------------------------------------------------------
(* Repair and amendment *)

Spent == Len(repairs) + Len(reqs)

\* authenticatePostbuildFailureFrom at the live fence.
AuthenticFailure(b) ==
    /\ cand = NoCand /\ eff.st \notin {"claimed", "visible"}
    /\ att[b].st = "done" /\ \A c \in DOMAIN att : c > b => att[c].st = "running"
    /\ Reaches(b) /\ [b |-> b, at |-> Live, ok |-> FALSE] \in cmd

\* tryPostbuildRepair; whatever refuses the repair, the command's own error
\* blocks the ticket.
TransitionPostbuildRepair ==
    /\ In("repair")
    /\ IF /\ AuthenticFailure(job.b) /\ tree.head = rev
          /\ Signed(att[job.b].at, Live) /\ Spent < MaxCorrections
       THEN /\ Append1("repair") /\ UNCHANGED state
            /\ repairs' = Append(repairs, [e |-> Len(hist) + 1, at |-> Live, b |-> job.b, rev |-> rev, tree |-> tree])
       ELSE state' = "blocked" /\ UNCHANGED <<hist, repairs>>
    /\ job' = Idle
    /\ UNCHANGED <<up, leader, att, cmd, reqs, rev, eff, cand, tree>>

\* signalVerificationAmendmentRequest: under a repair with the retained bytes
\* and a binding, otherwise without.
Request(b) ==
    LET bound == Repaired /\ Entry = LastRepair.e IN
    /\ IF /\ Spent < MaxCorrections /\ Reaches(b)
          /\ bound => /\ tree.head = LastRepair.rev /\ rev = LastRepair.rev
                      /\ Signed(At(LastRepair.e), Live) /\ att[b].e = LastRepair.e
                      /\ b = Len(att) /\ eff.st \notin {"claimed", "visible"}
       THEN /\ Append1("request") /\ state' = "verifying"
            /\ reqs' = Append(reqs, [v |-> Len(hist) + 1, at |-> Live, b |-> b, bound |-> bound,
                                     r |-> IF bound THEN LastRepair.e ELSE 0, tree |-> tree])
       ELSE state' = "blocked" /\ UNCHANGED <<hist, reqs>>
    /\ job' = Idle
    /\ UNCHANGED <<up, leader, att, cmd, repairs, rev, eff, cand, tree>>

RequestAmendment  == In("request") /\ Request(job.b)
DispatchAmendment == Resting /\ Work = "dispatch" /\ Request(Len(att))

\* The Reviewer, its checkpoint and the decision (module AmendmentCheckpoint).
Decide ==
    /\ Resting /\ Work = "review"
    /\ \E t \in {"accepted", "rejected"} :
          /\ Append1(t)
          /\ rev' = IF t = "accepted" THEN rev + 1 ELSE rev
          /\ tree' = [tree EXCEPT !.head = rev']
    /\ state' = "building"
    /\ UNCHANGED <<up, leader, att, cmd, repairs, reqs, eff, cand, job>>

-----------------------------------------------------------------------------
(* The daemon dies, and starts *)

Crash ==
    /\ up = "serving" /\ up' = "down" /\ job' = Idle
    /\ att' = [b \in DOMAIN att |-> IF att[b].st = "running" THEN [att[b] EXCEPT !.st = "failed"] ELSE att[b]]
    /\ UNCHANGED <<leader, state, hist, cmd, repairs, reqs, rev, eff, cand, tree>>

\* A witness: the leader it names, or 0 when it refuses.
Names(l, ok) == IF ok THEN l ELSE 0

\* postbuildAmendmentRecoveryPredecessor
AmendmentPredecessor ==
    LET q == reqs[Latest(Bound)]
        l == IF Len(hist) = q.v THEN q.at.l ELSE hist[Len(hist)].l
        e == [i |-> Len(hist), l |-> l] IN
    Names(l, /\ Len(hist) # q.v => Len(hist) \in Rows
             /\ q = LastRequest /\ Signed([i |-> q.v, l |-> q.at.l], e) /\ RecoveryPrefix(e))

\* postbuildRepairRecoveryPredecessor
RepairPredecessor ==
    LET e == At(Len(hist)) IN
    Names(e.l, Signed([i |-> LastRepair.e, l |-> LastRepair.at.l], e) /\ RecoveryPrefix(e))

\* The generic baseline: the newest finished Builder's claim (RunnerRecovery).
BaselinePredecessor ==
    Names(hist[Len(hist)].l, Ledger(att[Latest(Finished)].at, At(Len(hist))))

\* FenceRecoveredRunners, for a ticket that builds or verifies.
Predecessor ==
    IF state = "verifying" THEN IF Bound # {} THEN AmendmentPredecessor ELSE BaselinePredecessor
    ELSE IF Len(hist) \in Decisions THEN hist[Len(hist)].l
    ELSE IF Repaired /\ Entry = LastRepair.e THEN RepairPredecessor
    ELSE BaselinePredecessor

\* A commit that was claimed and is not visible fails the start (module Writers).
Start ==
    /\ up = "down" /\ leader < MaxStarts /\ state \in {"building", "verifying"}
    /\ leader' = leader + 1
    /\ IF Predecessor # 0 /\ eff.st # "claimed"
       THEN /\ up' = "serving"
            /\ hist' = Append(hist, [t |-> "row", l |-> leader + 1, pl |-> Predecessor])
            /\ eff' = IF eff.st = "visible" THEN [eff EXCEPT !.st = "confirmed"] ELSE eff
       ELSE up' = "refused" /\ UNCHANGED <<hist, eff>>
    /\ UNCHANGED <<state, att, cmd, repairs, reqs, rev, cand, tree, job>>

Tick ==
    \/ StopRejected \/ LaunchBuilder \/ Exhausted \/ ReuseBuilder \/ RebindCandidate
    \/ SignalCandidate \/ DispatchAmendment \/ Decide

Next ==
    \/ Tick \/ BuilderWrites \/ BuilderEnds \/ ReplayCandidate \/ RunCommand \/ Commit
    \/ UpdateRef \/ Confirm \/ RecordCandidate \/ TransitionPostbuildRepair \/ RequestAmendment
    \/ Crash \/ Start

Spec == Init /\ [][Next]_vars

-----------------------------------------------------------------------------
(* Properties *)

\* worker.go building, postbuild_amendment_prepared_candidate.go: whatever was
\* repaired, amended and replayed, a candidate is the work of a Builder of the
\* newest building entry, under the current proof, and its commit was made at
\* a fence where the command passed on that work; no repair or amendment
\* follows a commit, and no failed command is answered twice.
CandidateIsCurrent ==
    /\ cand # NoCand =>
          /\ att[cand.b].st = "done" /\ att[cand.b].e = Entry /\ att[cand.b].rev = rev
          /\ eff.st = "confirmed" /\ eff.b = cand.b
          /\ [b |-> cand.b, at |-> eff.at, ok |-> TRUE] \in cmd
    /\ \A j, k \in DOMAIN repairs : repairs[j].b = repairs[k].b => j = k
    /\ eff # NoEff => \A i \in DOMAIN hist : i > eff.at.i => i \in Rows

\* What the code has no way back from: an unfinished Builder of a repair, or of
\* an accepted amendment once it wrote; a repair or a request of an entry that
\* an amendment opened; a commit lost between its claim and the branch.
NoWayBack ==
    \/ Repaired /\ Len(att) # LastRepair.b /\ att[Len(att)].st = "failed"
    \/ \E i \in Decisions : \E j \in DOMAIN hist : j > i /\ hist[j].t \in {"repair", "request"}
    \/ Decisions # {} /\ att[Len(att)].st = "amend" /\ att[Len(att)].e = Entry
    \/ eff.st = "claimed"

\* lease.go FenceRecoveredRunners, scheduler.go: after any crash the start
\* accepts the history of a repair or an amendment, and the next tick finds a
\* lane that can work, except where nothing of the kind is left.
RepairIsResumable ==
    NoWayBack \/ /\ up # "refused"
                 /\ Resting => Work # "none"
=============================================================================
