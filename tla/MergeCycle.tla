------------------------------ MODULE MergeCycle ------------------------------
(***************************************************************************)
(* One reviewed candidate from green CI to the protected branch:           *)
(*   store/store.go, workflowworker        (final review and its verdict)  *)
(*   store/evidence.go                     (the operator's decision)       *)
(*   localruntime/worker.go, github.go     (ready, merge, observation)     *)
(*   store/merge_intents.go, recovery.go, guarded_merge_observation.go     *)
(*   mergeproof/coordinator.go             (the protected branch proof)    *)
(*   store/manual_merge_observation.go     (a merge made by a person)      *)
(*   store/lease.go, runner_recovery.go    (the startup fence)             *)
(*                                                                         *)
(* Every Store operation is one transaction, every call to GitHub or Git   *)
(* one step of its own, and a start of the daemon three (epoch, effects,   *)
(* fence); it may die between any two.  The ghosts owner and sent remember *)
(* who made each version and how often a merge was really requested.       *)
(*                                                                         *)
(* No operator pauses the ticket here (modules BuildCycle, DeliveryCycle), *)
(* so there is no control row and a confirmed merge is never promoted.     *)
(* A candidate that is sent back is built and published again in one step. *)
(* Left out: autonomous mode and spikes, the required check policy.        *)
(***************************************************************************)
EXTENDS Naturals, Sequences, FiniteSets

CONSTANTS
    MaxLeader,   \* bound: daemon starts
    MaxGen,      \* bound: candidates
    MaxBase,     \* bound: commits on the protected branch
    MaxClaims,   \* bound: claims of one effect
    Limit        \* the correction budget

ASSUME MergeAssumption ==
    /\ {MaxLeader, MaxGen, MaxBase, MaxClaims, Limit} \subseteq Nat
    /\ MaxLeader >= 2 /\ MaxGen >= 1 /\ MaxBase >= 1

VARIABLES
    leader,   \* durable: daemon_instances.leader_epoch
    ticket,   \* durable: the tickets row
    hist,     \* durable: what made each version (module TicketHistory)
    mode,     \* durable: tickets.merge_mode
    gen,      \* durable: the generation of the newest candidate
    result,   \* durable: the newest completed final review
    used,     \* durable: consumed correction budget
    eff,      \* durable: the effects ready, merge and fetch, with claim epochs
    git,      \* durable: git_mutation_intents, the claim of the fetch
    intent,   \* durable: merge_intents, the immutable launch
    seen,     \* durable: guarded_merge_observations, the base it observed
    manual,   \* durable: manual_merge_observations
    remote,   \* external: the pull request and the protected branch
    worker,   \* volatile: what the running worker is about to do
    pc,       \* the daemon: down, acquired, settled, serving, refused
    sent,     \* ghost: merge commands that reached GitHub
    owner     \* ghost: the runner and the leader that made each version

INSTANCE TicketHistory WITH
    notes   <- {},
    control <- [st |-> "none", stop |-> [v |-> 0, r |-> 0, l |-> 0],
                auth |-> [v |-> 0, r |-> 0, l |-> 0]]

machine == <<ticket, hist, owner>>
merge   == <<eff, git, intent, seen>>
vars    == <<leader, machine, mode, gen, result, used, merge, manual, remote, worker, pc, sent>>

Kinds    == {"ready", "merge", "fetch"}
NoRow    == [st |-> "none", f |-> NoFence, c |-> 0]
NoClaim  == [f |-> NoFence, c |-> 0]
NoResult == [f |-> NoFence, verdict |-> "none", gen |-> 0]
Unseen   == 0
Idle     == [st |-> "idle", why |-> "none", c |-> 0]
Waits    == {"waiting_approval", "waiting_manual_merge"}

\* The Builder, publication and CI have passed, with or without a pending verdict.
Passed(pending) ==
    <<Event("submit_valid", "none", "queued"), Event("operator_start", "queued", "planning"),
      Event("phase_pass", "planning", "verifying"), Event("phase_pass", "verifying", "building"),
      Event("phase_pass", "building", "publishing"),
      Event("effects_confirmed", "publishing", "waiting_ci")>>
    \o (IF pending THEN <<Event("checks_pending", "waiting_ci", "waiting_ci")>> ELSE <<>>)
    \o <<[Event("checks_green", "waiting_ci", "reviewing") EXCEPT !.r = 1, !.l = 1]>>

Init ==
    /\ leader = 1
    /\ \E pending \in BOOLEAN : hist = Passed(pending)
    /\ ticket = [state |-> "reviewing", resume |-> "none", version |-> Len(hist), runner |-> 1,
                 code |-> "none"]
    /\ owner = [v \in DOMAIN hist |-> [r |-> 1, l |-> 1]]
    /\ mode \in {"guarded", "manual"}
    /\ gen = 1 /\ result = NoResult /\ used = 0
    /\ eff = [k \in Kinds |-> NoRow] /\ git = NoClaim /\ intent = NoClaim
    /\ seen = Unseen /\ manual = [f |-> NoFence, base |-> Unseen]
    /\ remote = [ready |-> FALSE, head |-> "reviewed", merged |-> "no", base |-> 1,
                 at |-> 1, cmd |-> FALSE]
    /\ worker = Idle /\ pc = "serving" /\ sent = 0

-----------------------------------------------------------------------------
(* What the operations share *)

Serves(st) == pc = "serving" /\ ticket.state = st
Free(st)   == Serves(st) /\ worker = Idle

\* UPDATE tickets and INSERT INTO events, one transaction.
Step(event, state, runner) ==
    /\ hist' = Append(hist, event)
    /\ ticket' = [ticket EXCEPT !.state = state, !.version = @ + 1, !.runner = runner]
    /\ owner' = Append(owner, [r |-> runner, l |-> leader])

Move(trig, state) == Step(Event(trig, ticket.state, state), state, ticket.runner)

\* normalRecoveryLeaderAt: recovery rows alone lead from s to version v and
\* runner r; the leader of the last one, or 0.
normalRecoveryLeaderAt(s, v, r) ==
    IF /\ s.v > 0 /\ s.l > 0 /\ v >= s.v /\ r >= s.r /\ v - s.v = r - s.r
       /\ \A w \in s.v + 1 .. v :
             Recovered(w) /\ Prior(w) = IF w = s.v + 1 THEN s ELSE At(w - 1)
    THEN IF v = s.v THEN s.l ELSE hist[v].l
    ELSE 0

Reaches(s, e) == e.l # 0 /\ normalRecoveryLeaderAt(s, e.v, e.r) = e.l

Last(trig) == Newest({0} \union {v \in DOMAIN hist : hist[v].trig = trig})

-----------------------------------------------------------------------------
(* The authorities that later steps rest on; NoFence when one does not hold *)

\* finalReviewCIPendingChainThrough: from the publication to the green verdict
\* there are only pending verdicts and recovery rows.
finalReviewCIPendingChain(w, g) ==
    /\ w > 0 /\ g > w
    /\ \A v \in w + 1 .. g - 1 : Is(v, "checks_pending", "waiting_ci", "waiting_ci") \/ Recovered(v)

\* finalReviewCIAuthorityFrom: the green verdict of the published candidate and
\* the fence it was observed with.
Green ==
    LET g == Last("checks_green") IN
    IF finalReviewCIPendingChain(Last("effects_confirmed"), g) THEN At(g) ELSE NoFence

\* reviewCompletionRecoveryEndpoint: who owned the version that the transition
\* to w consumed, reached by the review and by the green verdict.
reviewCompletionRecoveryEndpoint(w) ==
    LET e == IF result.f.v = w - 1 THEN result.f
             ELSE IF Recovered(w - 1) THEN At(w - 1) ELSE NoFence IN
    IF Reaches(result.f, e) /\ Reaches(Green, e) THEN Fence(w, e.r, e.l) ELSE NoFence

\* finalReviewRecoveryEndpoint: the newest pass, of the newest candidate.
finalReviewRecoveryEndpoint(st) ==
    LET w == Last("review_pass") IN
    IF w > 0 /\ hist[w].to = st /\ result.verdict = "pass" /\ result.gen = gen
    THEN reviewCompletionRecoveryEndpoint(w) ELSE NoFence

\* approvalRecoveryEndpoint: the witnesses of the approved version must be one.
approvalRecoveryEndpoint ==
    LET w  == finalReviewRecoveryEndpoint("waiting_approval")
        a  == Last("operator_approved") - 1
        ws == {e \in {w, Fence(a, intent.f.r, intent.f.l)} :
                  e.v = a /\ (e # w => intent.f.v = a + 1)}
              \union (IF Recovered(a) THEN {At(a)} ELSE {}) IN
    IF /\ w # NoFence /\ Last("operator_approved") > w.v
       /\ intent # NoClaim => intent.f.v > a
       /\ Cardinality(ws) = 1 /\ \A e \in ws : Reaches(w, e)
    THEN CHOOSE e \in {Fence(a + 1, x.r, x.l) : x \in ws} : TRUE
    ELSE NoFence

\* validRecoveredMergeClaimAdvance.
validRecoveredMergeClaimAdvance(e, c) ==
    /\ AtLeast(e, intent.f)
    /\ c >= intent.c + (e.v - intent.f.v)
    /\ c - intent.c <= e.l - intent.f.l

\* authenticateMergingRecoveryEffect: what the effect may look like when the
\* ticket stands at e under the leader l.
authenticateMergingRecoveryEffect(e, l) ==
    LET m == eff["merge"] IN
    /\ Reaches(approvalRecoveryEndpoint, intent.f)
    /\ CASE m.st = "uncertain" ->
              /\ m.f = [intent.f EXCEPT !.l = l] /\ l > intent.f.l
              /\ e.v >= intent.f.v /\ e.v - intent.f.v = e.r - intent.f.r
              /\ m.c >= intent.c + (e.v - intent.f.v)
              /\ m.c - intent.c <= l - intent.f.l
         [] m.st \in {"confirmed", "failed"} ->
              /\ Reaches(intent.f, m.f) /\ validRecoveredMergeClaimAdvance(m.f, m.c)
              /\ Reaches(m.f, e)
         [] OTHER -> FALSE

\* confirmedMergeRecoveryEndpoint.
confirmedMergeRecoveryEndpoint ==
    LET m == eff["merge"] IN
    IF /\ intent # NoClaim /\ m.st = "confirmed"
       /\ Reaches(approvalRecoveryEndpoint, intent.f)
       /\ Reaches(intent.f, m.f) /\ validRecoveredMergeClaimAdvance(m.f, m.c)
    THEN m.f ELSE NoFence

-----------------------------------------------------------------------------
(* Final review *)

\* LatestReusableProviderAttempt: the newest review is consumed again after a
\* restart, if only recovery rows lie between.
Reusable == result.gen = gen /\ Reaches(result.f, Live)

\* finalReviewAuthorityFrom: recovery rows alone since the green verdict.
finalReviewAuthorityFrom == Reaches(Green, Live)

\* The reviewer runs and its result is recorded at the fence that claimed it.
StartReview ==
    /\ Free("reviewing") /\ ~Reusable /\ finalReviewAuthorityFrom
    /\ worker' = [Idle EXCEPT !.st = "reviewing"]
    /\ UNCHANGED <<leader, machine, mode, gen, result, used, merge, manual, remote, pc, sent>>

ReviewEnds(verdict) ==
    /\ Serves("reviewing") /\ worker.st = "reviewing"
    /\ result' = [f |-> Live, verdict |-> verdict, gen |-> gen]
    /\ worker' = Idle
    /\ UNCHANGED <<leader, machine, mode, gen, used, merge, manual, remote, pc, sent>>

\* finalReviewerResult: the newest review, of this candidate, that reaches the
\* live fence as the green verdict does.
finalReviewerResult(verdict) ==
    /\ Free("reviewing") /\ Reusable /\ result.verdict = verdict
    /\ finalReviewAuthorityFrom

TransitionFinalReview ==
    /\ finalReviewerResult("pass")
    /\ Move("review_pass", IF mode = "guarded" THEN "waiting_approval" ELSE "waiting_manual_merge")
    /\ UNCHANGED <<leader, mode, gen, result, used, merge, manual, remote, worker, pc, sent>>

\* The repair boundary is the event, with the fence that was consumed.
TransitionReviewRepair(to) ==
    /\ finalReviewerResult("repair") /\ used < Limit
    /\ Step([Event("review_repair", "reviewing", to) EXCEPT !.r = ticket.runner, !.l = leader],
            to, ticket.runner)
    /\ used' = used + 1
    /\ UNCHANGED <<leader, mode, gen, result, merge, manual, remote, worker, pc, sent>>

TransitionReviewNeedsOperator ==
    /\ finalReviewerResult("operator")
    /\ Step(Event("typed_blocker", "reviewing", "blocked"), "blocked", ticket.runner)
    /\ UNCHANGED <<leader, mode, gen, result, used, merge, manual, remote, worker, pc, sent>>

\* The candidate that was sent back is built, published and checked again.
Redelivered ==
    /\ pc = "serving" /\ ticket.state \in {"building", "verifying"} /\ gen < MaxGen
    /\ remote.merged = "no"
    /\ \E again \in {IF ticket.state = "verifying"
                      THEN <<Event("phase_pass", "verifying", "building")>> ELSE <<>>} :
       LET made == again \o <<Event("phase_pass", "building", "publishing"),
                              Event("effects_confirmed", "publishing", "waiting_ci"),
                              [Event("checks_green", "waiting_ci", "reviewing") EXCEPT
                                  !.r = ticket.runner, !.l = leader]>> IN
       /\ hist' = hist \o made
       /\ owner' = owner \o [i \in DOMAIN made |-> [r |-> ticket.runner, l |-> leader]]
       /\ ticket' = [ticket EXCEPT !.state = "reviewing", !.version = @ + Len(made)]
    /\ gen' = gen + 1
    /\ remote' = [remote EXCEPT !.head = "reviewed", !.at = remote.base, !.ready = FALSE]
    /\ UNCHANGED <<leader, mode, result, used, merge, manual, worker, pc, sent>>

-----------------------------------------------------------------------------
(* The operator, and everybody else on GitHub *)

ApplyOperatorDecision(decision) ==
    /\ pc = "serving"
    /\ IF decision = "operator_approved"
       THEN ticket.state = "waiting_approval" /\ mode = "guarded" /\ Move(decision, "merging")
       ELSE ticket.state \in Waits /\ Move(decision, "building")
    /\ UNCHANGED <<leader, mode, gen, result, used, merge, manual, remote, worker, pc, sent>>

\* Somebody pushes to the branch, marks the pull request ready, merges it, or
\* commits to the protected branch.
HumanPush ==
    /\ remote.merged = "no" /\ remote.head = "reviewed"
    /\ remote' = [remote EXCEPT !.head = "other"]
    /\ UNCHANGED <<leader, machine, mode, gen, result, used, merge, manual, worker, pc, sent>>

HumanMerge ==
    /\ remote.merged = "no" /\ remote.base < MaxBase
    /\ remote' = [remote EXCEPT !.ready = TRUE, !.merged = remote.head, !.base = @ + 1]
    /\ UNCHANGED <<leader, machine, mode, gen, result, used, merge, manual, worker, pc, sent>>

BaseAdvances ==
    /\ remote.base < MaxBase
    /\ remote' = [remote EXCEPT !.base = @ + 1]
    /\ UNCHANGED <<leader, machine, mode, gen, result, used, merge, manual, worker, pc, sent>>

\* The merge command that was sent takes effect, if the head still matches, or
\* is lost.
CommandEnds(applied) ==
    /\ remote.cmd
    /\ applied => remote.merged = "no" /\ remote.head = "reviewed" /\ remote.base < MaxBase
    /\ remote' = IF applied
                 THEN [remote EXCEPT !.cmd = FALSE, !.merged = "reviewed", !.base = @ + 1]
                 ELSE [remote EXCEPT !.cmd = FALSE]
    /\ UNCHANGED <<leader, machine, mode, gen, result, used, merge, manual, worker, pc, sent>>

\* observeManualMerge: exactly the reviewed head was merged, in manual mode.
observeManualMerge == ticket.state = "waiting_manual_merge" /\ remote.merged = "reviewed"

\* authenticateManualMergePublication, authenticateExternalMerge.
MayObserve ==
    /\ pc = "serving" /\ ticket.state \in Waits /\ worker = Idle /\ remote.merged # "no"
    /\ Reaches(finalReviewRecoveryEndpoint(ticket.state), Live)

\* The observation and the transition are one transaction.
RecordManualMergeObservation ==
    /\ MayObserve /\ observeManualMerge
    /\ manual' = [f |-> Live, base |-> remote.base]
    /\ Move("external_merge_observed", "reconciling")
    /\ UNCHANGED <<leader, mode, gen, result, used, merge, remote, worker, pc, sent>>

\* Every other merge ends the ticket.
RecordExternalMergeObservation ==
    /\ MayObserve /\ ~observeManualMerge
    /\ Move("external_merge_observed", "external_merged")
    /\ UNCHANGED <<leader, mode, gen, result, used, merge, manual, remote, worker, pc, sent>>

\* reconcile, manual mode: the stored observation must be what GitHub still says,
\* its base included.  The worker that stored it goes on without asking again.
ReconcileManualMerge ==
    /\ Free("reconciling") /\ mode = "manual"
    /\ LET e == Fence(manual.f.v + 1, manual.f.r, manual.f.l) IN
       /\ Reaches(e, Live)
       /\ Live # e => remote.merged = "reviewed" /\ remote.base = manual.base
    /\ Move("reconcile_pass", "done")
    /\ UNCHANGED <<leader, mode, gen, result, used, merge, manual, remote, worker, pc, sent>>

-----------------------------------------------------------------------------
(* Marking the pull request ready *)

SetEffect(k, st, f, c) == eff' = [eff EXCEPT ![k] = [st |-> st, f |-> f, c |-> c]]
Claimable(k) == eff[k].st \in {"none", "failed"} /\ eff[k].c < MaxClaims
MayPromote(k) == eff[k].c < MaxClaims

\* samePublishedIdentity: the pull request still has the reviewed head.
SameHead == IF remote.merged = "no" THEN remote.head = "reviewed" ELSE remote.merged = "reviewed"

\* PlanEffect and ClaimEffect.
ClaimReady ==
    /\ Free("merging") /\ Claimable("ready")
    /\ SetEffect("ready", "executing", Live, eff["ready"].c + 1)
    /\ worker' = [Idle EXCEPT !.st = "ready"]
    /\ UNCHANGED <<leader, machine, mode, gen, result, used, git, intent, seen, manual, remote, pc, sent>>

\* MarkReady: applied or not, and confirmed only when it can be seen.
MarkReady ==
    /\ worker.st = "ready"
    /\ \E applied \in BOOLEAN :
          /\ applied => remote.merged = "no" /\ SameHead
          /\ remote' = [remote EXCEPT !.ready = @ \/ applied]
          /\ IF remote'.ready /\ remote.merged = "no" /\ SameHead
             THEN SetEffect("ready", "confirmed", Live, eff["ready"].c)
             ELSE SetEffect("ready", "uncertain", Live, eff["ready"].c)
    /\ worker' = Idle
    /\ UNCHANGED <<leader, machine, mode, gen, result, used, git, intent, seen, manual, pc, sent>>

\* reconcileReady: confirmed evidence moves to the live fence; a revoked claim is
\* settled by what GitHub shows.
ReconcileReady ==
    LET e == eff["ready"] IN
    /\ Free("merging") /\ MayPromote("ready")
    /\ \/ /\ e.st = "confirmed" /\ e.f # Live
          /\ SetEffect("ready", "confirmed", Live, e.c + 1)
       \/ /\ e.st = "uncertain" /\ SameHead
          /\ IF remote.ready THEN SetEffect("ready", "confirmed", Live, e.c + 1)
             ELSE SetEffect("ready", "failed", e.f, e.c)
    /\ UNCHANGED <<leader, machine, mode, gen, result, used, git, intent, seen, manual, remote, worker, pc, sent>>

-----------------------------------------------------------------------------
(* The one merge *)

IsReady == eff["ready"].st = "confirmed" /\ eff["ready"].f = Live

ClaimMerge ==
    /\ Free("merging") /\ IsReady /\ Claimable("merge")
    /\ SetEffect("merge", "executing", Live, eff["merge"].c + 1)
    /\ worker' = [st |-> "claimed", why |-> "launch", c |-> eff["merge"].c + 1]
    /\ UNCHANGED <<leader, machine, mode, gen, result, used, git, intent, seen, manual, remote, pc, sent>>

Mergeable == /\ remote.merged = "no" /\ remote.ready /\ SameHead /\ remote.base = remote.at

\* MergeExactHead up to RecordMergeIntent: written once, under the live claim,
\* before the command can start.
RecordMergeIntent ==
    /\ worker.st = "claimed" /\ Mergeable
    /\ intent = NoClaim
    /\ intent' = [f |-> Live, c |-> worker.c]
    /\ worker' = [worker EXCEPT !.st = "launching"]
    /\ UNCHANGED <<leader, machine, mode, gen, result, used, eff, git, seen, manual, remote, pc, sent>>

\* The mutation guard looks again and starts gh; the answer may be lost.
LaunchMerge ==
    /\ worker.st = "launching"
    /\ remote.merged = "no" /\ remote.ready /\ SameHead
    /\ remote' = [remote EXCEPT !.cmd = TRUE]
    /\ sent' = sent + 1
    /\ worker' = [worker EXCEPT !.st = "observing"]
    /\ UNCHANGED <<leader, machine, mode, gen, result, used, merge, manual, pc>>

\* A plausible bug: an uncertain claim is retired together with its intent.
ReconcileMergeMutant ==
    LET e == eff["merge"] IN
    /\ Free("merging") /\ IsReady
    /\ e.st = "uncertain"
    /\ SetEffect("merge", "failed", e.f, e.c)
    /\ intent' = NoClaim
    /\ UNCHANGED <<leader, machine, mode, gen, result, used, git, seen, manual, remote, worker, pc, sent>>

\* reconcileMerge without an intent: the claim never crossed the handoff, and is
\* retired.
ReconcileMerge ==
    LET e == eff["merge"] IN
    /\ Free("merging") /\ IsReady
    /\ e.st = "uncertain" /\ intent = NoClaim
    /\ SetEffect("merge", "failed", e.f, e.c)
    /\ UNCHANGED <<leader, machine, mode, gen, result, used, git, intent, seen, manual, remote, worker, pc, sent>>

\* reconcileMerge with an intent, and reconcile: GitHub is observed again.
Observe(why) ==
    LET e == eff["merge"] IN
    /\ pc = "serving" /\ worker = Idle /\ intent # NoClaim
    /\ CASE why = "recover" ->
              /\ ticket.state = "merging" /\ IsReady /\ e.st = "uncertain" /\ e.c > intent.c
              /\ e.f = [intent.f EXCEPT !.l = leader]
              /\ ticket.version > e.f.v /\ ticket.version - e.f.v = ticket.runner - e.f.r
         [] why = "promote" ->
              ticket.state = "merging" /\ IsReady /\ e.st = "confirmed" /\ e.f # Live
         [] why = "reconcile" -> ticket.state = "reconciling" /\ e.st = "confirmed"
    /\ worker' = [st |-> "observing", why |-> why, c |-> e.c]
    /\ UNCHANGED <<leader, machine, mode, gen, result, used, merge, manual, remote, pc, sent>>

\* guardableMergeObservationFirstWrite: the launch itself, or its recovery.
FirstWrite ==
    LET m == eff["merge"] IN
    \/ m.f = intent.f /\ m.c = intent.c /\ m.st \in {"executing", "uncertain"}
    \/ /\ m.st = "uncertain" /\ ticket.state = "merging"
       /\ authenticateMergingRecoveryEffect(Live, leader)

\* reconcileStrictMerge up to RecordGuardedMergeObservation: the merged pull
\* request; a second observation must equal the first, its base included.
RecordGuardedMergeObservation ==
    /\ worker.st = "observing" /\ remote.merged = "reviewed"
    /\ IF seen # Unseen THEN seen = remote.base ELSE FirstWrite
    /\ seen' = remote.base
    /\ worker' = [worker EXCEPT !.st = "proving"]
    /\ UNCHANGED <<leader, machine, mode, gen, result, used, eff, git, intent, manual, remote, pc, sent>>

\* MergeIntentForProof: the launch, its recovery, or its confirmation at the live
\* fence; in reconciling, the confirmed merge and its handoff.
MergeIntentForProof ==
    LET m == eff["merge"] c == confirmedMergeRecoveryEndpoint IN
    IF ticket.state = "merging"
    THEN IF m.st = "confirmed" THEN c = m.f /\ c = Live
         ELSE \/ m.f = intent.f /\ m.c = intent.c
              \/ m.st = "uncertain" /\ authenticateMergingRecoveryEffect(Live, leader)
    ELSE LET e == Fence(c.v + 1, c.r, c.l) IN
         /\ c # NoFence /\ Is(e.v, "merge_observed", "merging", "reconciling")
         /\ Reaches(e, Live)

\* ReclaimProtectedRefFetch: the revoked claim of an earlier daemon.
ReclaimProtectedRefFetch ==
    /\ eff["fetch"].st = "uncertain" /\ eff["fetch"].f = [git.f EXCEPT !.l = leader]
    /\ Reaches(git.f, Live)

\* VerifyProtectedBranch: a confirmed fetch is reused, an uncertain one claimed
\* again; reconciling claims nothing.
VerifyProtectedBranch ==
    LET e == eff["fetch"] IN
    /\ worker.st = "proving" /\ MergeIntentForProof
    /\ IF e.st = "confirmed"
       THEN worker' = [worker EXCEPT !.st = "proved"] /\ UNCHANGED <<eff, git>>
       ELSE /\ ticket.state = "merging" /\ MayPromote("fetch")
            /\ Claimable("fetch") \/ ReclaimProtectedRefFetch
            /\ SetEffect("fetch", "executing", Live, e.c + 1)
            /\ git' = [f |-> Live, c |-> e.c + 1]
            /\ worker' = [worker EXCEPT !.st = "fetching"]
    /\ UNCHANGED <<leader, machine, mode, gen, result, used, intent, seen, manual, remote, pc, sent>>

\* executeProtectedProof: the fetch contains the merge, or nobody knows.
FetchEnds(st) ==
    /\ worker.st = "fetching"
    /\ SetEffect("fetch", st, Live, eff["fetch"].c)
    /\ worker' = IF st = "confirmed" THEN [worker EXCEPT !.st = "proved"] ELSE [worker EXCEPT !.st = "failing"]
    /\ UNCHANGED <<leader, machine, mode, gen, result, used, git, intent, seen, manual, remote, pc, sent>>

\* ConfirmEffect for the launch, confirmRecoveredMerge for its recovery: the
\* claim stays, the fence is the live one.
ConfirmMerge ==
    /\ worker.st = "proved" /\ worker.why \in {"launch", "recover"}
    /\ SetEffect("merge", "confirmed", Live, worker.c)
    /\ worker' = Idle
    /\ UNCHANGED <<leader, machine, mode, gen, result, used, git, intent, seen, manual, remote, pc, sent>>

\* The worker fails: a launch is marked uncertain, or is left as it is.
WorkerReturns ==
    /\ worker # Idle
    /\ worker' = Idle
    /\ \/ UNCHANGED eff
       \/ /\ worker.why = "launch" /\ eff["merge"].st = "executing"
          /\ SetEffect("merge", "uncertain", eff["merge"].f, eff["merge"].c)
    /\ UNCHANGED <<leader, machine, mode, gen, result, used, git, intent, seen, manual, remote, pc, sent>>

\* A plausible bug: the confirmed effect alone is taken for the proof.
TransitionGuardedMergeObservedMutant ==
    /\ Free("merging") /\ IsReady /\ eff["merge"].st \in {"executing", "uncertain", "confirmed"}
    /\ Move("merge_observed", "reconciling")
    /\ UNCHANGED <<leader, mode, gen, result, used, merge, manual, remote, worker, pc, sent>>

\* guardedMergeProtectedRefFetchMatches: recovery rows lead from the fetch's claim
\* to its confirmation and on to the confirmed merge c.
guardedMergeProtectedRefFetchMatches(c) ==
    /\ eff["fetch"].st = "confirmed" /\ eff["fetch"].c >= git.c
    /\ Reaches(git.f, eff["fetch"].f) /\ Reaches(eff["fetch"].f, c)

\* TransitionGuardedMergeObserved: intent, observation, confirmation at the live
\* fence and the confirmed fetch, all linked.
TransitionGuardedMergeObserved ==
    LET c == confirmedMergeRecoveryEndpoint IN
    /\ Free("merging") /\ IsReady /\ mode = "guarded"
    /\ intent # NoClaim /\ seen # Unseen /\ c = Live /\ eff["merge"].c >= intent.c
    /\ guardedMergeProtectedRefFetchMatches(c)
    /\ Move("merge_observed", "reconciling")
    /\ UNCHANGED <<leader, mode, gen, result, used, merge, manual, remote, worker, pc, sent>>

\* reconcile_pass: by the worker that observed the merge, or after the proof was
\* read again.
ReconcileGuardedMerge ==
    /\ Serves("reconciling") /\ mode = "guarded"
    /\ IF worker = Idle THEN Live = Fence(eff["merge"].f.v + 1, eff["merge"].f.r, eff["merge"].f.l)
       ELSE worker.st = "proved" /\ worker.why = "reconcile"
    /\ Move("reconcile_pass", "done")
    /\ worker' = Idle
    /\ UNCHANGED <<leader, mode, gen, result, used, merge, manual, remote, pc, sent>>

-----------------------------------------------------------------------------
(* The startup fence: the leader that held the ticket (module TicketHistory) *)

\* normalPostPublicationRecoveryPredecessor: recovery rows alone lead from the
\* endpoint e to the live version.
LeaderAt(e) ==
    LET l == normalRecoveryLeaderAt(e, ticket.version, ticket.runner) IN
    IF Older(l) THEN {l} ELSE Refuse

Exact == IF ExactRow THEN Witness(hist[LatestRow].l) ELSE {}

\* loadPhaseRecoveryBaseline: once a final review has completed, it is the only
\* baseline of reviewing, whichever candidate it read.
ReviewBaseline ==
    LET l == IF ExactRow THEN hist[LatestRow].l ELSE result.f.l IN
    IF result = NoResult THEN {}
    ELSE IF /\ ExactRow \/ (result.f.r = ticket.runner /\ ticket.version - result.f.v <= 1)
            /\ Older(l)
            /\ Rows = {} /\ result.f.r = 1 =>
                  \A v \in 3 .. result.f.v : validInitialLifecycleTransition(v)
            /\ Reaches(result.f, Preceding(l))
         THEN {l} ELSE Refuse

\* reviewRepairRecoveryPredecessor: the repair event at the live version, with
\* the review it consumed.
RepairBoundary ==
    LET v == ticket.version IN
    IF /\ hist[v].trig = "review_repair" /\ hist[v].r = ticket.runner /\ hist[v].l < leader
       /\ result.f = Fence(v - 1, hist[v].r, hist[v].l)
    THEN {hist[v].l} ELSE Refuse

\* A plausible bug: a ticket without an intent must have no claim either.
authenticateUnissuedMergeEffectMutant == eff["merge"].st = "none"

\* authenticateUnissuedMergeEffect: a claim that no intent followed.
authenticateUnissuedMergeEffect ==
    LET m == eff["merge"] IN
    m.st # "none" => m.st = "uncertain" /\ m.f = Live

MergingPrior ==
    LET ls == LeaderAt(approvalRecoveryEndpoint) IN
    IF /\ ls # Refuse
       /\ IF intent = NoClaim THEN authenticateUnissuedMergeEffect
          ELSE \A l \in ls : authenticateMergingRecoveryEffect(Preceding(l), leader)
    THEN ls ELSE Refuse

\* canonicalGuardedMergeObservation: the handoff event is at the version after
\* the confirmation.
ReconcilingPrior ==
    LET c == confirmedMergeRecoveryEndpoint IN
    IF manual.base # Unseen
    THEN LeaderAt(Fence(manual.f.v + 1, manual.f.r, manual.f.l))
    ELSE IF c # NoFence /\ Is(c.v + 1, "merge_observed", "merging", "reconciling")
         THEN LeaderAt(Fence(c.v + 1, c.r, c.l)) ELSE Refuse

\* fenceRecoveredRunners: the leader that held the ticket, or 0 for a refusal.
PriorLeader ==
    CASE ticket.state = "reviewing" -> First(<<ReviewBaseline, Exact, LeaderAt(Green)>>)
      [] ticket.state \in {"building", "verifying"} -> First(<<RepairBoundary>>)
      [] ticket.state \in Waits ->
            First(<<Exact, LeaderAt(finalReviewRecoveryEndpoint(ticket.state))>>)
      [] ticket.state = "merging" -> First(<<Exact, MergingPrior>>)
      [] ticket.state = "reconciling" -> First(<<Exact, ReconcilingPrior>>)

Fenced == ticket.state \notin {"blocked", "external_merged", "done"}

-----------------------------------------------------------------------------
(* The daemon *)

Crash ==
    /\ pc \in {"serving", "acquired", "settled"} /\ leader < MaxLeader
    /\ Fenced
    /\ pc' = "down" /\ worker' = Idle
    /\ UNCHANGED <<leader, machine, mode, gen, result, used, merge, manual, remote, sent>>

AcquireLeader ==
    /\ pc = "down"
    /\ leader' = leader + 1 /\ pc' = "acquired"
    /\ UNCHANGED <<machine, mode, gen, result, used, merge, manual, remote, worker, sent>>

\* A claim of an earlier leader is revoked and given to this one; the identity
\* that crossed the boundary stays.
ReconcileEffects ==
    /\ pc = "acquired"
    /\ eff' = [k \in Kinds |->
                  IF eff[k].st \in {"executing", "uncertain"} /\ eff[k].f.l # leader
                  THEN [st |-> "uncertain", f |-> [eff[k].f EXCEPT !.l = leader], c |-> eff[k].c + 1]
                  ELSE eff[k]]
    /\ pc' = "settled"
    /\ UNCHANGED <<leader, machine, mode, gen, result, used, git, intent, seen, manual, remote, worker, sent>>

FenceRecoveredRunners ==
    /\ pc = "settled"
    /\ \E p \in {PriorLeader} :
          IF p = 0 THEN pc' = "refused" /\ UNCHANGED machine
          ELSE /\ pc' = "serving"
               /\ Step([Event("recovered", ticket.state, ticket.state) EXCEPT
                            !.r = ticket.runner + 1, !.pl = p, !.l = leader],
                       ticket.state, ticket.runner + 1)
    /\ UNCHANGED <<leader, mode, gen, result, used, merge, manual, remote, worker, sent>>

Next ==
    \/ StartReview
    \/ \E verdict \in {"pass", "repair", "operator"} : ReviewEnds(verdict)
    \/ TransitionFinalReview \/ TransitionReviewNeedsOperator \/ Redelivered
    \/ \E to \in {"building", "verifying"} : TransitionReviewRepair(to)
    \/ \E d \in {"operator_approved", "operator_rejected"} : ApplyOperatorDecision(d)
    \/ HumanPush \/ HumanMerge \/ BaseAdvances
    \/ \E applied \in BOOLEAN : CommandEnds(applied)
    \/ RecordManualMergeObservation \/ RecordExternalMergeObservation \/ ReconcileManualMerge
    \/ ClaimReady \/ MarkReady \/ ReconcileReady
    \/ ClaimMerge \/ RecordMergeIntent \/ LaunchMerge \/ ReconcileMerge
    \/ \E why \in {"recover", "promote", "reconcile"} : Observe(why)
    \/ RecordGuardedMergeObservation \/ VerifyProtectedBranch
    \/ \E st \in {"confirmed", "uncertain"} : FetchEnds(st)
    \/ ConfirmMerge \/ WorkerReturns \/ TransitionGuardedMergeObserved \/ ReconcileGuardedMerge
    \/ Crash \/ AcquireLeader \/ ReconcileEffects \/ FenceRecoveredRunners

Spec == Init /\ [][Next]_vars

-----------------------------------------------------------------------------
(* Properties *)

\* The daemon whose leader and runner a recovery row names as predecessor really
\* held the ticket, with that runner, from the green verdict to the reconciled
\* merge (FenceRecoveredRunners, normalPostPublicationRecoveryPredecessor).
PriorHeldTicket ==
    \A v \in Rows : \E w \in 1 .. v - 1 :
        owner[w] = [r |-> hist[v].r - 1, l |-> hist[v].pl]

\* The merge command is started at most once in the life of a ticket, although
\* daemons die before, during and after it, claims are revoked and retired, and
\* the answer is lost (RecordMergeIntent, reconcileMerge).
MergeIsSentOnce == sent <= 1

\* A ticket is reconciled or done only when exactly the head that the final
\* review passed is on the protected branch, whoever merged it, whatever else
\* was pushed (TransitionGuardedMergeObserved, RecordManualMergeObservation).
DoneIsReviewed ==
    ticket.state \in {"reconciling", "done"} =>
        remote.merged = "reviewed" /\ result.verdict = "pass" /\ result.gen = gen

\* The first crash of a ticket that was reviewed once and never sent back is
\* recovered, at every point between the green verdict and done, unless CI had
\* reported pending before or a merge claim had just been retired
\* (FenceRecoveredRunners).
FirstCrashResumes ==
    pc = "refused" =>
        \/ leader > 2 \/ gen > 1 \/ ticket.state \in {"building", "verifying"}
        \/ Last("checks_pending") # 0
        \/ eff["merge"].st = "failed"
=============================================================================
