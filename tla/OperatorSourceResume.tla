------------------------ MODULE OperatorSourceResume ------------------------
(***************************************************************************)
(* An operator takes a ticket that builds, commits to its branch and       *)
(* resumes it:                                                             *)
(*   store/operator_source_resume.go; runner_recovery.go, lease.go and     *)
(*   runtime_control.go where they authenticate it                         *)
(*   daemon/daemon.go resumeTicket, worktreecoord/coordinator.go           *)
(*   workflowruntime/scheduler.go, repository_materializer.go              *)
(*   workflowworker/worker.go verifying, building                          *)
(*                                                                         *)
(* The operator's commit S on the retained checkpoint C is not trusted: a  *)
(* fresh Reviewer must check it and commit a checkpoint F on it, and only  *)
(* then may a Builder make the candidate G.  hist holds one record per     *)
(* version of the ticket, a fence is an index of it and a leader; every    *)
(* reader finds the source resume again from the sealed control's stop.    *)
(* Left out: an ordinary resume of an unchanged worktree, a second stop,   *)
(* the repair or the amendment that a Builder's result may start, the      *)
(* publication of the candidate and what follows it; so the baselines and  *)
(* ledger gaps that belong to provider retries, blockers, amendments, base *)
(* refreshes and repairs never apply here.                                 *)
(***************************************************************************)
EXTENDS Naturals, Sequences, FiniteSets

CONSTANTS
    MaxStarts,    \* bound: daemon starts
    MaxAttempts   \* attempts of one provider since the resume (module ProviderAttempts)

VARIABLES
    up,      \* the daemon: down, serving, refused (the start failed)
    leader,
    state,   \* stopping, paused, verifying, building, publishing, blocked
    hist,    \* events and runner_recovery_ledger: t, leader l, a row's prior leader pl
    ctl,     \* runtime_ticket_controls: st, stop, auth
    remote,  \* whether the remote still is what the drain recorded
    att,     \* provider attempts: role, fence at, st; the first is the retained Reviewer
    cmd,     \* results of the verification command: attempt a, fence at, ok
    eff,     \* the commits F and G: st, attempt a, fence at, its command's fence run
    rev,     \* the fresh verification revision: Reviewer a, fence at
    cand,    \* candidate_snapshots: Builder a, first fence snap, fence at
    tree,    \* the worktree: its commits log, and dirty
    job      \* the activity: pc, its attempt, its command's fence run

vars == <<up, leader, state, hist, ctl, remote, att, cmd, eff, rev, cand, tree, job>>

NoFence  == [i |-> 0, l |-> 0]
NoEff    == [st |-> "none", a |-> 0, at |-> NoFence, run |-> NoFence]
NoRev    == [a |-> 0, at |-> NoFence]
NoCand   == [a |-> 0, snap |-> NoFence, at |-> NoFence]
Idle     == [pc |-> "idle", a |-> 0, run |-> NoFence]
Retained == 1  \* the Reviewer of the revision that the operator's commit is made on
Branch   == <<"C", "S", "F", "G">>
Live     == [i |-> Len(hist), l |-> leader]
At(i)    == [i |-> i, l |-> hist[i].l]
Tip      == tree.log[Len(tree.log)]
Latest(S) == CHOOSE x \in S : \A y \in S : y <= x

\* The operator has taken the ticket, maybe after a restart of the build and
\* maybe after a Builder finished; whatever ran is stopped.
Init ==
    \E early \in BOOLEAN, old \in {"none", "failed", "done"} :
        LET l == IF early THEN 2 ELSE 1
            row == IF early THEN <<[t |-> "row", l |-> 2, pl |-> 1]>> ELSE <<>> IN
        /\ up = "serving" /\ leader = l /\ state = "stopping"
        /\ hist = <<[t |-> "verify", l |-> 1, pl |-> 0], [t |-> "pass", l |-> 1, pl |-> 0]>>
                  \o row \o <<[t |-> "take", l |-> l, pl |-> 0]>>
        /\ ctl = [st |-> "sealed", stop |-> At(Len(hist)), auth |-> At(Len(hist))]
        /\ remote = "same" /\ cmd = {} /\ rev = NoRev /\ cand = NoCand
        /\ att = <<[role |-> "reviewer", at |-> At(1), st |-> "done"]>>
                 \o IF old = "none" THEN <<>> ELSE <<[role |-> "builder", at |-> At(Len(hist) - 1), st |-> old]>>
        /\ eff = [c \in {"F", "G"} |-> NoEff]
        /\ tree = [log |-> <<"C">>, dirty |-> FALSE] /\ job = Idle

-----------------------------------------------------------------------------
(* Reading the history *)

Rows == {i \in DOMAIN hist : hist[i].t = "row"}
Passes(i, j) == {k \in i + 1 .. j : hist[k].t = "pass"}

\* Each version is owned by its predecessor's leader, or a row takes it over.
Chained(s, e) ==
    /\ s.i \in DOMAIN hist /\ e.i \in DOMAIN hist /\ s.i <= e.i /\ s = At(s.i) /\ e = At(e.i)
    /\ \A i \in s.i + 1 .. e.i :
          hist[i - 1].l = (IF hist[i].t = "row" THEN hist[i].pl ELSE hist[i].l)

Events(s, e) == [k \in 1 .. e.i - s.i |-> hist[s.i + k].t]

\* validateRunnerControlAdvance, validateRunnerPhaseChain: a stop and its
\* resume, or at most n passes, and never both.
Gap(s, e, n) ==
    /\ Chained(s, e)
    /\ \/ Events(s, e) = <<"take", "drain", "resume">>
       \/ Len(Events(s, e)) <= n /\ \A k \in DOMAIN Events(s, e) : Events(s, e)[k] = "pass"

Prior(i) == [i |-> i - 1, l |-> hist[i].pl]

\* validateRunnerRecoveryLedgerPrefix, with at most last passes after the
\* newest row.
LedgerTo(s, e, last) ==
    LET rows == {i \in Rows : s.i < i /\ i <= e.i}
        from(i) == LET past == {j \in rows : j < i} IN IF past = {} THEN s ELSE At(Latest(past)) IN
    /\ \A i \in rows : Gap(from(i), Prior(i), 3)
    /\ Gap(from(e.i + 1), e, last)

Ledger(s, e) == LedgerTo(s, e, 1)

\* operatorSourceResumeEndpointAtMode: the stop, its drain and the resume.
Endpoint == [i |-> ctl.stop.i + 2, l |-> ctl.stop.l]
Resumed  == Endpoint.i <= Len(hist) /\ hist[ctl.stop.i + 1].t = "drain" /\ hist[Endpoint.i].t = "resume"

\* validateOperatorSourceResumeFenceSuffix: the state that only passes and rows
\* reach since the resume, or "none".
SuffixState(e) ==
    IF /\ Resumed /\ Chained(Endpoint, e) /\ Cardinality(Passes(Endpoint.i, e.i)) < 3
       /\ \A i \in Endpoint.i + 1 .. e.i : hist[i].t \in {"row", "pass"}
    THEN <<"verifying", "building", "publishing">>[Cardinality(Passes(Endpoint.i, e.i)) + 1]
    ELSE "none"

Found == Resumed /\ (ctl.auth = ctl.stop \/ SuffixState(ctl.auth) # "none")

\* operatorSourceResumeStateLineageAtMode
Lineage(s, e) ==
    /\ Ledger(Endpoint, e)
    /\ Cardinality(Passes(Endpoint.i, Len(hist))) = (IF s = "building" THEN 1 ELSE 0)

\* OperatorSourceResumeRequiresFreshVerification: what was reviewed before the
\* resume does not count.
RequiresFreshVerification == state = "verifying" /\ Found /\ Lineage(state, Live)

\* operatorSourceResumeProofFrom; until the rearm there is none.
Proof ==
    /\ Found /\ ctl.auth # ctl.stop /\ Lineage(state, Live)
    /\ state = "building" => rev # NoRev /\ Ledger(Endpoint, rev.at) /\ Ledger(rev.at, Live)

-----------------------------------------------------------------------------
(* What a provider's result still speaks for *)

\* Worker.verifying: the retained Reviewer authenticates the checkout only.
Fresh(a) == RequiresFreshVerification => a # Retained

Newest(role) ==
    LET done == {a \in DOMAIN att : att[a].role = role /\ att[a].st = "done"} IN
    IF done = {} THEN 0 ELSE Latest(done)

\* validateOperatorSourceResumeRecoveryTarget
SourceTarget(e) == SuffixState(e) # "none"

\* validateRunnerRecoveryAuthority: the first row follows the ordinary start of
\* the ticket or the source resume.
Audited ==
    Rows # {} =>
        LET first == CHOOSE i \in Rows : \A j \in Rows : i <= j IN
        /\ (\A i \in 1 .. first - 1 : hist[i].t \in {"verify", "pass"}) \/ SourceTarget(Prior(first))
        /\ LedgerTo(At(first), Live, 3)

\* providerResultReachesFence: a Reviewer's result may be followed by its pass.
Reaches(a) ==
    LET s == att[a].at
        n == [i |-> s.i + 1, l |-> s.l] IN
    /\ Audited
    /\ \/ s = Live
       \/ Ledger(s, Live)
       \/ /\ att[a].role = "reviewer" /\ n.i <= Len(hist) /\ hist[n.i].t = "pass" /\ Ledger(n, Live)

\* operatorSourceResumeProviderResultReachesFence
SourceReaches(a) ==
    /\ Found /\ SuffixState(Live) = state
    /\ SuffixState(att[a].at) = (IF att[a].role = "builder" THEN "building" ELSE "verifying")

\* authenticatePreparedSourceCheckpoint: a confirmed commit whose author ran
\* its command at the fence it was claimed at, since the resume.
PreparedCheckpoint ==
    LET e == eff["F"] IN
    Proof /\ e.st = "confirmed" /\ e.a # Retained /\ SourceReaches(e.a) /\ e.run = att[e.a].at

\* operatorSourceResumePreparedCandidateWitnessFrom: and committed at it.
PreparedCandidateMutant == eff["G"].st = "confirmed" /\ rev # NoRev  \* A plausible bug: whoever made it.

PreparedCandidate ==
    LET e == eff["G"] IN
    /\ Proof /\ e.st = "confirmed" /\ rev # NoRev /\ SourceReaches(e.a)
    /\ e.run = att[e.a].at /\ e.at = att[e.a].at

\* authenticateOperatorSourceResumeVerificationBinding
ReviewBinds(a) == PreparedCheckpoint /\ eff["F"].a = a

\* RecordCandidate
CandidateBinds(a) == PreparedCandidate /\ eff["G"].a = a

-----------------------------------------------------------------------------
(* Scheduler.Tick, AuthenticateOperatorSourceResume and the Worker *)

\* A build is admitted only while its review is bound at an earlier version.
Admitted ==
    /\ Proof /\ ~tree.dirty /\ remote = "same"
    /\ state = "building" => rev.at.i < Len(hist)
    /\ \/ Tip = (IF state = "verifying" THEN "S" ELSE "F")
       \/ state = "verifying" /\ Tip = "F" /\ PreparedCheckpoint
       \/ state = "building" /\ Tip = "G" /\ PreparedCandidate

Launch(role) ==
    IF Cardinality({a \in DOMAIN att : att[a].role = role /\ att[a].at.i >= Endpoint.i}) < MaxAttempts
    THEN "launch" ELSE "exhausted"

VerifyingWork ==
    LET a == Newest("reviewer") IN
    IF rev # NoRev
    THEN IF rev.at = Live THEN "signal"
         ELSE IF a = rev.a /\ Reaches(a) /\ ReviewBinds(a) THEN "rebind" ELSE "none"
    ELSE IF ~Reaches(a) THEN "none"
    ELSE IF Fresh(a) THEN "persist" ELSE Launch("reviewer")

\* CurrentVerification: bound here, or right before the pass to this version.
CurrentVerification ==
    rev.at = Live \/ (hist[Len(hist)].t = "pass" /\ rev.at = [i |-> Len(hist) - 1, l |-> leader])

\* Worker.building under a current review, with no candidate
BuilderWork ==
    LET b == Newest("builder") IN
    IF b = 0 THEN Launch("builder") ELSE IF Reaches(b) THEN "persist" ELSE "none"

\* A candidate is bound again before its review is.
BuildingWork ==
    LET a == Newest("reviewer")
        b == Newest("builder") IN
    IF ~Audited THEN "none"
    ELSE IF cand # NoCand
    THEN IF CurrentVerification /\ cand.at = Live THEN "signal"
         ELSE IF b = cand.a /\ Reaches(b) /\ CandidateBinds(b) THEN "rebind" ELSE "none"
    ELSE IF CurrentVerification THEN BuilderWork
    ELSE IF a = rev.a /\ Reaches(a) /\ ReviewBinds(a) THEN "review" ELSE "none"

\* RuntimeAdmissionReady comes first (module RuntimeControl).
Resting == up = "serving" /\ job = Idle /\ ctl.st = "open" /\ state \in {"verifying", "building"}
Work    == IF ~Admitted THEN "none" ELSE IF state = "verifying" THEN VerifyingWork ELSE BuildingWork

In(pc)    == up = "serving" /\ job.pc = pc
\* A tick begins with this work, or goes on with it after it bound the review.
Does(w)   == (Resting /\ Work = w) \/ (In("build") /\ BuilderWork = w)
To(pc, a) == job' = [pc |-> pc, a |-> a, run |-> NoFence]
Commits   == IF state = "verifying" THEN "F" ELSE "G"
Parent    == IF state = "verifying" THEN "S" ELSE "F"
Append1(t) == hist' = Append(hist, [t |-> t, l |-> leader, pl |-> 0])

-----------------------------------------------------------------------------
(* The operator *)

\* The drain records the remote.
Drain ==
    /\ up = "serving" /\ state = "stopping" /\ Append1("drain") /\ state' = "paused"
    /\ UNCHANGED <<up, leader, ctl, remote, att, cmd, eff, rev, cand, tree, job>>

OperatorEdits ==
    /\ state = "paused" /\ tree = [log |-> <<"C">>, dirty |-> FALSE]
    /\ \/ tree' = [tree EXCEPT !.log = <<"C", "S">>]
       \/ tree' = [tree EXCEPT !.dirty = TRUE]
    /\ UNCHANGED <<up, leader, state, hist, ctl, remote, att, cmd, eff, rev, cand, job>>

RemoteMoves ==
    /\ remote = "same" /\ remote' = "moved"
    /\ UNCHANGED <<up, leader, state, hist, ctl, att, cmd, eff, rev, cand, tree, job>>

\* operatorSourceResumePredecessor: drained by the daemon that serves.
TakenOver ==
    /\ state = "paused" /\ ctl.st = "sealed" /\ ctl.stop = At(Len(hist) - 1)
    /\ ctl.stop.l = leader /\ ctl.auth = ctl.stop /\ hist[Len(hist) - 1].t = "take"

\* resumeTicket, inspectTakeover
MayResume == TakenOver /\ Tip = "S" /\ ~tree.dirty /\ remote = "same"

TransitionOperatorSourceResume ==
    /\ up = "serving" /\ MayResume /\ Append1("resume") /\ state' = "verifying"
    /\ UNCHANGED <<up, leader, ctl, remote, att, cmd, eff, rev, cand, tree, job>>

\* operatorSourceResumeCandidateOnlyPublishingRecovery
PassedOn(e) ==
    /\ Found /\ cand.at = [i |-> e.i - 1, l |-> e.l]
    /\ SuffixState(att[cand.a].at) = "building" /\ SuffixState(cand.at) = "building"
    /\ SuffixState(e) = "publishing"

\* operatorSourceResumeCandidateOnlyPublishingRearm: the authority is the one
\* that the candidate's pass set.
CandidateOnlyRearm == Live.i = ctl.auth.i + 1 /\ PassedOn(ctl.auth)

\* PostPublicationRearmProof: the newest row follows the authority.
MayRearm ==
    state = "publishing" =>
        /\ Ledger(Endpoint, Live) /\ Len(hist) \in Rows /\ Prior(Len(hist)) = ctl.auth
        /\ CandidateOnlyRearm

\* Controller.Rearm with RearmProof
Rearm ==
    /\ up = "serving" /\ ctl.st = "sealed" /\ state \in {"verifying", "building", "publishing"}
    /\ MayRearm /\ ctl' = [ctl EXCEPT !.st = "open", !.auth = Live]
    /\ UNCHANGED <<up, leader, state, hist, remote, att, cmd, eff, rev, cand, tree, job>>

-----------------------------------------------------------------------------
(* Reviewer and Builder, each with its command and its commit *)

LaunchProvider ==
    /\ Does("launch")
    /\ att' = Append(att, [role |-> IF state = "verifying" THEN "reviewer" ELSE "builder", at |-> Live, st |-> "running"])
    /\ To("provider", Len(att) + 1)
    /\ UNCHANGED <<up, leader, state, hist, ctl, remote, cmd, eff, rev, cand, tree>>

Exhausted ==
    /\ Does("exhausted") /\ state' = "blocked" /\ job' = Idle
    /\ UNCHANGED <<up, leader, hist, ctl, remote, att, cmd, eff, rev, cand, tree>>

ProviderWrites ==
    /\ In("provider") /\ ~tree.dirty /\ tree' = [tree EXCEPT !.dirty = TRUE]
    /\ UNCHANGED <<up, leader, state, hist, ctl, remote, att, cmd, eff, rev, cand, job>>

ProviderEnds ==
    /\ In("provider")
    /\ \E st \in {"done", "failed"} :
          /\ att' = [att EXCEPT ![job.a].st = st]
          /\ IF st = "done" THEN To("command", job.a) ELSE job' = Idle
    /\ UNCHANGED <<up, leader, state, hist, ctl, remote, cmd, eff, rev, cand, tree>>

\* A completed result is taken up again: Newest of this phase.
ReuseProvider ==
    /\ Does("persist")
    /\ To("command", Newest(IF state = "verifying" THEN "reviewer" ELSE "builder"))
    /\ UNCHANGED <<up, leader, state, hist, ctl, remote, att, cmd, eff, rev, cand, tree>>

\* recoverSourceResumeVerificationCommand: a Reviewer's command is that of the
\* fence it was claimed at, if there is one.
StableFence(a) ==
    IF att[a].role = "reviewer" /\ \E c \in cmd : c.a = a /\ c.at = att[a].at THEN att[a].at ELSE Live

\* MaterializeCandidate reads a prepared candidate before anything runs.
RecoverCandidate ==
    /\ In("command") /\ state = "building" /\ eff["G"] # NoEff
    /\ IF PreparedCandidate /\ eff["G"].a = job.a THEN To("record", job.a) ELSE job' = Idle
    /\ UNCHANGED <<up, leader, state, hist, ctl, remote, att, cmd, eff, rev, cand, tree>>

\* runCommand: a recorded result is not run again.  A build whose command
\* fails leaves the build, blocked or under repair.
RunCommand ==
    /\ In("command") /\ (state = "building" => eff["G"] = NoEff)
    /\ LET at  == StableFence(job.a)
           old == {c \in cmd : c.a = job.a /\ c.at = at} IN
       \E c \in IF old # {} THEN old ELSE [a : {job.a}, at : {at}, ok : BOOLEAN] :
          /\ cmd' = cmd \cup {c}
          /\ job' = IF c.ok THEN [pc |-> "commit", a |-> job.a, run |-> at] ELSE Idle
          /\ state' = IF state = "building" /\ ~c.ok THEN "blocked" ELSE state
    /\ UNCHANGED <<up, leader, hist, ctl, remote, att, eff, rev, cand, tree>>

\* commit: an intent of the same author and command is observed again;
\* otherwise Git must find the parent.  A commit that fails before it is
\* prepared is retired and may be issued again.
Commit ==
    /\ In("commit")
    /\ LET c == Commits IN
       IF eff[c].a = job.a /\ eff[c].run = job.run /\ eff[c].st = "confirmed" /\ Tip = c
       THEN To("record", job.a) /\ UNCHANGED eff
       ELSE IF eff[c] = NoEff /\ Tip = Parent
       THEN \/ /\ eff' = [eff EXCEPT ![c] = [st |-> "claimed", a |-> job.a, at |-> Live, run |-> job.run]]
               /\ To("update", job.a)
            \/ job' = Idle /\ UNCHANGED eff
       ELSE job' = Idle /\ UNCHANGED eff
    /\ UNCHANGED <<up, leader, state, hist, ctl, remote, att, cmd, rev, cand, tree>>

\* Once prepared, a commit that fails is uncertain and is never made again.
UpdateRef ==
    /\ In("update")
    /\ \/ /\ eff' = [eff EXCEPT ![Commits].st = "visible"]
          /\ tree' = [log |-> Append(tree.log, Commits), dirty |-> FALSE] /\ To("confirm", job.a)
       \/ job' = Idle /\ UNCHANGED <<eff, tree>>
    /\ UNCHANGED <<up, leader, state, hist, ctl, remote, att, cmd, rev, cand>>

\* A lost observation leaves the commit uncertain: nothing uses it until a
\* start has confirmed it.
Confirm ==
    /\ In("confirm")
    /\ \/ eff' = [eff EXCEPT ![Commits].st = "confirmed"] /\ To("record", job.a)
       \/ job' = Idle /\ UNCHANGED eff
    /\ UNCHANGED <<up, leader, state, hist, ctl, remote, att, cmd, rev, cand, tree>>

\* RecordVerification, RecordCandidate
Record ==
    /\ In("record")
    /\ IF ~(IF state = "verifying" THEN ReviewBinds(job.a) ELSE CandidateBinds(job.a))
       THEN job' = Idle /\ UNCHANGED <<rev, cand>>
       ELSE /\ To("signal", job.a)
            /\ IF state = "verifying" THEN rev' = [a |-> job.a, at |-> Live] /\ UNCHANGED cand
               ELSE cand' = [a |-> job.a, snap |-> Live, at |-> Live] /\ UNCHANGED rev
    /\ UNCHANGED <<up, leader, state, hist, ctl, remote, att, cmd, eff, tree>>

\* rebindStoredVerification, rebindStoredCandidate
Rebind ==
    /\ Resting /\ Work = "rebind"
    /\ IF state = "verifying" THEN rev' = [rev EXCEPT !.at = Live] /\ UNCHANGED cand
       ELSE cand' = [cand EXCEPT !.at = Live] /\ UNCHANGED rev
    /\ To("signal", 0)
    /\ UNCHANGED <<up, leader, state, hist, ctl, remote, att, cmd, eff, tree>>

\* Worker.building: the review is bound again, and the same tick goes on.
RebindReview ==
    /\ Resting /\ Work = "review" /\ rev' = [rev EXCEPT !.at = Live] /\ To("build", 0)
    /\ UNCHANGED <<up, leader, state, hist, ctl, remote, att, cmd, eff, cand, tree>>

\* The tick ends: no Builder result serves, or the pass fails.
GiveUp ==
    /\ In("signal") \/ (In("build") /\ BuilderWork = "none")
    /\ job' = Idle
    /\ UNCHANGED <<up, leader, state, hist, ctl, remote, att, cmd, eff, rev, cand, tree>>

\* The phase's pass carries the open control along.
Signal ==
    /\ In("signal") \/ (Resting /\ Work = "signal")
    /\ Append1("pass") /\ ctl' = [ctl EXCEPT !.auth = [i |-> Len(hist) + 1, l |-> leader]]
    /\ state' = (IF state = "verifying" THEN "building" ELSE "publishing") /\ job' = Idle
    /\ UNCHANGED <<up, leader, remote, att, cmd, eff, rev, cand, tree>>

-----------------------------------------------------------------------------
(* The daemon dies, and starts *)

Crash ==
    /\ up = "serving" /\ up' = "down" /\ job' = Idle
    /\ att' = [a \in DOMAIN att |-> IF att[a].st = "running" THEN [att[a] EXCEPT !.st = "failed"] ELSE att[a]]
    /\ UNCHANGED <<leader, state, hist, ctl, remote, cmd, eff, rev, cand, tree>>

\* A witness: the leader it names, or 0 when it refuses.
Names(l, ok) == IF ok THEN l ELSE 0

\* operatorSourceResumeRecoveryPredecessor
VerifyingPredecessor ==
    LET l == hist[Len(hist)].l IN
    Names(l, /\ Found
             /\ ctl.auth = ctl.stop => Len(hist) = Endpoint.i
             /\ ctl.auth.i # Len(hist) /\ Len(hist) > Endpoint.i => Len(hist) \in Rows
             /\ Lineage("verifying", At(Len(hist))))

\* The generic baseline of a build: the newest Builder, an exact row, or the
\* Reviewer, whose pass or the control's authority is the newest version.
BuildingPredecessor ==
    LET b == Newest("builder")
        a == Newest("reviewer")
        e == At(Len(hist)) IN
    IF b # 0 THEN Names(e.l, Ledger(att[b].at, e) /\ (e.i \in Rows \/ e = ctl.auth \/ e.i <= att[b].at.i + 1))
    ELSE IF e.i \in Rows THEN e.l
    ELSE Names(e.l, hist[e.i].t = "pass" /\ (e = ctl.auth \/ att[a].at.i + 1 = e.i) /\ Ledger(att[a].at, e))

\* authenticateCandidateOnlyPublishingRecoveryAt: from the snapshot to the pass
\* that published it, and from there.
CandidateOnly(e) ==
    \E p \in Passes(cand.snap.i, e.i) :
        /\ Ledger(cand.snap, cand.at) /\ Ledger(cand.snap, At(p - 1)) /\ Ledger(At(p), e)

PublishingPredecessor ==
    LET e == At(Len(hist)) IN Names(e.l, e.i \in Rows \/ (Found /\ CandidateOnly(e)))

\* FenceRecoveredRunners: a stop's own version needs its control row.
Predecessor ==
    CASE state = "stopping"   -> hist[Len(hist)].l
      [] state = "verifying"  -> VerifyingPredecessor
      [] state = "building"   -> BuildingPredecessor
      [] state = "publishing" -> PublishingPredecessor

\* restoreRuntimeControls seals; a paused ticket is not fenced; a commit that
\* was claimed and is not visible fails the start (module Writers).
Start ==
    /\ up = "down" /\ leader < MaxStarts /\ state # "blocked"
    /\ leader' = leader + 1 /\ ctl' = [ctl EXCEPT !.st = "sealed"]
    /\ IF \E c \in DOMAIN eff : eff[c].st = "claimed"
       THEN up' = "refused" /\ UNCHANGED <<hist, eff>>
       ELSE IF state = "paused" THEN up' = "serving" /\ UNCHANGED <<hist, eff>>
       ELSE IF Predecessor = 0 THEN up' = "refused" /\ UNCHANGED <<hist, eff>>
       ELSE /\ up' = "serving"
            /\ hist' = Append(hist, [t |-> "row", l |-> leader + 1, pl |-> Predecessor])
            /\ eff' = [c \in DOMAIN eff |-> IF eff[c].st = "visible" THEN [eff[c] EXCEPT !.st = "confirmed"] ELSE eff[c]]
    /\ UNCHANGED <<state, remote, att, cmd, rev, cand, tree, job>>

Operator == Drain \/ OperatorEdits \/ RemoteMoves \/ TransitionOperatorSourceResume \/ Rearm
Tick     == LaunchProvider \/ Exhausted \/ ReuseProvider \/ Rebind \/ RebindReview \/ Signal \/ GiveUp

Next ==
    \/ Operator \/ Tick \/ ProviderWrites \/ ProviderEnds \/ RecoverCandidate \/ RunCommand \/ Commit \/ UpdateRef
    \/ Confirm \/ Record \/ Crash \/ Start

Spec == Init /\ [][Next]_vars

-----------------------------------------------------------------------------
(* Properties *)

\* operator_source_resume.go, worker.go: no work of the operator or of anyone
\* before the take is carried on unseen.  Whatever the crashes, the fresh
\* revision is of a Reviewer claimed after the resume, with its command and the
\* checkpoint it committed on the operator's commit; a Builder is claimed after
\* the resume only under that revision, a candidate is the commit of such a
\* Builder, and the branch never holds anything but the retained checkpoint,
\* the operator's commit, the fresh checkpoint and one candidate, in that order.
Authored(c, a) ==
    /\ att[a].st = "done" /\ att[a].at.i >= Endpoint.i
    /\ eff[c].st = "confirmed" /\ eff[c].a = a /\ c \in {tree.log[i] : i \in DOMAIN tree.log}
    /\ [a |-> a, at |-> eff[c].run, ok |-> TRUE] \in cmd

SourceIsReviewed ==
    /\ \E n \in 1 .. 4 : tree.log = SubSeq(Branch, 1, n)
    /\ rev # NoRev => Authored("F", rev.a)
    /\ cand # NoCand => Authored("G", cand.a)
    /\ \A a \in DOMAIN att :
          att[a].role = "builder" /\ att[a].at.i >= Endpoint.i =>
              rev # NoRev /\ att[rev.a].at.i < att[a].at.i

\* What the code has no way back from: a daemon that restarts during the stop,
\* or twice before the control is armed again; a provider that dies after it
\* wrote, and a remote that moved; a Builder that finished before the take; a
\* restart before the take and none between the resume and the fresh review; a
\* review bound again for a Builder that then fails, until the next restart; a
\* commit lost between its claim and the branch, one not yet observed, and one
\* of a result that an earlier daemon left; a second restart once there is a
\* candidate only.
NoWayBack ==
    \/ ~Resumed /\ ctl.stop.l # leader
    \/ up = "refused" /\ ctl.auth = ctl.stop /\ Len(hist) > Endpoint.i
    \/ tree.dirty \/ remote = "moved"
    \/ \E a \in DOMAIN att : att[a].role = "builder" /\ att[a].st = "done" /\ att[a].at.i < ctl.stop.i
    \/ \E p \in DOMAIN hist : /\ p > ctl.stop.i /\ hist[p].t = "pass" /\ \E i \in Rows : i < ctl.stop.i
                              /\ \A i \in Rows : i < ctl.stop.i \/ i > p
    \/ state = "building" /\ rev.at = Live
    \/ \E c \in DOMAIN eff : eff[c].st \in {"claimed", "visible"}
    \/ \E c \in DOMAIN eff : eff[c] # NoEff /\ eff[c].run # att[eff[c].a].at
    \/ state = "publishing" /\ Cardinality({i \in Rows : i > cand.at.i}) > 1

\* lease.go FenceRecoveredRunners, runtime_control.go, scheduler.go: otherwise
\* the operator's clean commit is accepted, every start accepts the history,
\* the control can be armed again and the next tick finds work.
SourceIsResumable ==
    NoWayBack \/ /\ up # "refused"
                 /\ state = "paused" /\ Tip = "S" /\ up = "serving" => MayResume
                 /\ up = "serving" /\ ctl.st = "sealed" => MayRearm
                 /\ Resting => Work # "none"
=============================================================================
