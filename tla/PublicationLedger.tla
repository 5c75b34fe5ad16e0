-------------------------- MODULE PublicationLedger --------------------------
(***************************************************************************)
(* The validators that read a ticket's history once it has a candidate:    *)
(*   store/publication_evidence.go (candidate, witness, rebinds)           *)
(*   store/pr_endpoint.go          (the one-shot stop after the first PR)  *)
(*   store/ci_authority.go, ci_schedule.go (waiting for CI)                *)
(*   store/runner_recovery.go, runtime_control.go (what they share)        *)
(*                                                                         *)
(* A published candidate is a witness made under one fence.  Later fences  *)
(* reach it through rebinds while the ticket is publishing, and through    *)
(* the CI ledger once it waits for CI.  The module has state and no        *)
(* actions: DeliveryCycle moves it.                                        *)
(*                                                                         *)
(* Left out: pauses with retry_or_correction_exhausted in publishing and   *)
(* waiting_ci (nothing produces them there), the gap of a second candidate *)
(* (one generation is modelled), and the 64-row bounds.                    *)
(***************************************************************************)
EXTENDS TicketHistory

VARIABLES
    cand,      \* durable: the candidate's checkpoint fence and newest binding
    wit,       \* durable: publication_evidence and its rebinds
    eff,       \* durable: the push and the draft effect
    endpoint   \* durable: the PR endpoint request and its consumption

publication == <<cand, wit, eff, endpoint>>

Shift(f, n)   == Fence(f.v + n, f.r, f.l)
Quiet(a, b)   == notes \intersect (a .. b) = {}
Versions(t)   == {v \in DOMAIN hist : hist[v].trig = t}
NoRowAfter(v) == \A w \in Rows : w <= v

-----------------------------------------------------------------------------
(* Pairs and triples of events that leave or return to a published state *)

\* authenticateBlockedPublicationResume: blocked at v, recovered at v + 1.
BlockedPair(v, st) ==
    /\ Is(v, "typed_blocker", st, "blocked")
    /\ Is(v + 1, "operator_recover", "blocked", st)
    /\ Quiet(v, v + 1)

\* authenticatePostPublicationResume: stopped, drained and resumed after v.
Triplet(v, st) ==
    /\ Is(v + 1, "operator_pause_or_take", st, "stopping")
    /\ Is(v + 2, "process_and_effects_drained", "stopping", "paused")
    /\ Is(v + 3, "operator_resume", "paused", st)
    /\ Quiet(v + 1, v + 3)

\* Same-runner pairs only, from s to e.
validPublishingResumeGap(s, e) ==
    /\ e.v > s.v /\ (e.v - s.v) % 2 = 0 /\ e.r = s.r /\ e.l = s.l
    /\ \A k \in 0 .. (e.v - s.v) \div 2 - 1 : BlockedPair(s.v + 2 * k + 1, "publishing")

\* Pairs and triples in any order; only a signed row may change the leader.
validPublishingControlGap(s, e) ==
    LET Reaches[v \in s.v .. e.v, r \in s.r .. e.r] ==
            \/ v = e.v /\ r = e.r
            \/ \E n \in IF BlockedPair(v + 1, "publishing") THEN {2}
                       ELSE {k \in {3} : Triplet(v, "publishing")} :
                  v + n <= e.v /\ r + n - 2 <= e.r /\ Reaches[v + n, r + n - 2] IN
    s.v <= e.v /\ s.r <= e.r /\ s.l = e.l /\ Reaches[s.v, s.r]

\* One gap of the ledger, as TicketLedger has it for the provider phases.
GapHolds(s, e, chain) ==
    /\ AtLeast(e, s)
    /\ \/ validateRunnerControlAdvance(s, e)
       \/ IF IF chain THEN validateRunnerPhaseChain(s, e) ELSE validateRunnerPhaseAdvance(s, e)
          THEN e.l = s.l
          ELSE validPublishingControlGap(s, e)

validateRunnerRecoveryLedgerPrefix(b, e) ==
    LET rows    == {v \in Rows : b.v < v /\ v <= e.v}
        From(v) == LET older == {w \in rows : w < v} IN
                   IF older = {} THEN b ELSE At(Newest(older)) IN
    \A v \in rows \union {e.v + 1} :
        /\ v \in rows => hist[v].l > hist[v].pl
        /\ GapHolds(From(v), IF v \in rows THEN Prior(v) ELSE e, v \in rows)

validateRunnerRecoveryLedger(b, e) ==
    NoRowAfter(e.v) /\ validateRunnerRecoveryLedgerPrefix(b, e)

-----------------------------------------------------------------------------
(* Before the witness: the candidate alone *)

\* candidatePublishingTransitionVersionAt: the one pass after the checkpoint.
BuildPasses(e) ==
    {v \in cand.check.v + 1 .. e.v : Is(v, "phase_pass", "building", "publishing")}

\* candidatePublishingTransitionFenceAt: the pass carries no fence; the nearest
\* binding or row names it.
BuildFence(b, e) ==
    LET later == {v \in Rows : v > b /\ v <= e.v}
        f == IF b = cand.check.v + 1 THEN cand.check
             ELSE IF cand.bind.v = b - 1 THEN cand.bind
             ELSE IF Recovered(b - 1) THEN At(b - 1)
             ELSE IF later # {} THEN Prior(CHOOSE v \in later : \A w \in later : v <= w)
             ELSE e IN
    Fence(b, f.r, f.l)

\* authenticateCandidateOnlyPublishingRecoveryAt: checkpoint, newest binding,
\* pass and endpoint e are one signed chain.
CandidateReaches(e) ==
    /\ cand.check.v < e.v /\ cand.bind.v <= e.v
    /\ Cardinality(BuildPasses(e)) = 1
    /\ \A f \in {BuildFence(b, e) : b \in BuildPasses(e)} :
          \A seg \in {<<cand.check, cand.bind>>, <<cand.check, Fence(f.v - 1, f.r, f.l)>>, <<f, e>>} :
             validateRunnerRecoveryLedgerPrefix(seg[1], seg[2])

CandidateReachesLast(e) == NoRowAfter(e.v) /\ CandidateReaches(e)

-----------------------------------------------------------------------------
(* The witness and its rebinds *)

Published == wit.f # NoFence
Current   == IF wit.rebinds = <<>> THEN wit.f ELSE wit.rebinds[Len(wit.rebinds)].f
Waiting   == Shift(Current, 1)

RecoveryStep(p, f) == Recovered(f.v) /\ Prior(f.v) = p /\ At(f.v) = f

\* loadLatestPublicationRebind: every rebind names the digest of the one before
\* and is a signed row, directly after its predecessor or after one pair.
loadLatestPublicationRebind ==
    /\ Published
    /\ \A k \in DOMAIN wit.rebinds :
          LET b == wit.rebinds[k]
              p == IF k = 1 THEN wit.f ELSE wit.rebinds[k - 1].f IN
          /\ b.anchor = k - 1 /\ RecoveryStep(b.prior, b.f)
          /\ b.prior # p => b.prior = Shift(p, 2) /\ BlockedPair(p.v + 1, "publishing")

\* validatePublicationAdvance: one runner further, by a signed row or by a
\* complete pause and resume.
validatePublicationAdvance(p, f) ==
    /\ f.r = p.r + 1
    /\ IF f.v = p.v + 1 THEN RecoveryStep(p, f) ELSE validateRunnerControlAdvance(p, f)

\* authenticatePublishedWaitingEvent
WaitingEvent == Is(Waiting.v, "effects_confirmed", "publishing", "waiting_ci")
                /\ Waiting.v \notin notes

\* checkPublicationEffect, for both effects at the fence f.
EffectsConfirmed(f) == \A k \in DOMAIN eff : eff[k].st = "confirmed" /\ eff[k].f = f

-----------------------------------------------------------------------------
(* The PR endpoint *)

\* authenticatePREndpoint and authenticatePREndpointResume.
authenticatePREndpointResume(v) ==
    /\ endpoint.pr /\ endpoint.f.v = v
    /\ Versions("endpoint_reached") = {v - 1}
    /\ Is(v - 1, "endpoint_reached", "waiting_ci", "paused")
    /\ loadLatestPublicationRebind
    /\ Is(v, "operator_resume", "paused", "waiting_ci")

\* prEndpointCIBaseline: where the CI ledger of the witness starts.
prEndpointCIBaseline ==
    IF ticket.version >= Waiting.v + 2 /\ authenticatePREndpointResume(Waiting.v + 2)
    THEN endpoint.f ELSE Waiting

-----------------------------------------------------------------------------
(* Waiting for CI *)

\* The exhaustions of the poll after b, up to v.
PollPauses(b, v) == {x \in Versions("ci_poll_exhausted") : b < x /\ x <= v}

\* findCIPollResumePair: the one initial exhaustion after b that was resumed by
\* v; {} when there is none, {0} for a contradiction.
findCIPollResumePair(b, v) ==
    LET xs == {x \in PollPauses(b, v) : hist[x].code = "initial"} IN
    IF \E x \in xs : ~(x < v /\ Is(x + 1, "operator_resume", "paused", "waiting_ci") /\ Quiet(x, x + 1))
    THEN {}
    ELSE IF Cardinality(xs) > 1 THEN {0} ELSE xs

\* The runner and leader of the last row in (b.v, v), or those of b.
OwnerBefore(b, v) ==
    LET rows == {w \in Rows : b.v < w /\ w < v} IN
    IF rows = {} THEN b ELSE At(Newest(rows))

\* From b to e every version is a signed row, a pending observation, or one of
\* the two versions of the poll pair.
validateCIRecoveryLedger(b, e) ==
    /\ ~Recovered(b.v) /\ NoRowAfter(e.v)
    /\ \E pair \in {findCIPollResumePair(b.v, e.v)} :
          /\ pair # {0}
          /\ \A v \in b.v + 1 .. e.v : \E o \in {OwnerBefore(b, v)} :
                IF Recovered(v) THEN Prior(v) = Fence(v - 1, o.r, o.l) /\ hist[v].l > o.l
                ELSE /\ v \notin notes
                     /\ hist[v].trig = "checks_pending" \/ (v \in pair) \/ (v - 1) \in pair
    /\ \E o \in {OwnerBefore(b, e.v + 1)} : e = Fence(e.v, o.r, o.l)

\* Each pending observation was made at the version before it, by its owner;
\* what lies between it and the one before is rows, the pair skipped once.
PendingChain(b) ==
    \E pair \in {findCIPollResumePair(b.v, ticket.version)} :
    \A v \in {w \in Versions("checks_pending") : w > b.v} :
        LET before == {w \in Versions("checks_pending") : b.v < w /\ w < v}
            q      == IF before = {} THEN b.v + 1 ELSE Newest(before) + 1
            start  == IF q \in pair THEN q + 2 ELSE q
            o      == OwnerBefore(b, v) IN
        /\ hist[v].r = o.r /\ hist[v].l = o.l
        /\ start <= v
        /\ \A w \in start .. v - 1 : Recovered(w) /\ w \notin notes

\* loadCICurrentPublicationAt: the witness still speaks for the ticket that
\* waits for CI under the leader l.
loadCICurrentPublicationAt(l) ==
    /\ loadLatestPublicationRebind /\ ticket.state = "waiting_ci"
    /\ Is(Waiting.v, "effects_confirmed", "publishing", "waiting_ci")
    /\ \E b \in {prEndpointCIBaseline} :
          /\ ticket.runner >= b.r /\ (ticket.runner = b.r => l = b.l)
          /\ validateCIRecoveryLedger(b, Fence(ticket.version, ticket.runner, l))
          /\ PendingChain(b)

\* The poll pair of a history that ends at the consumed version c; {0} when an
\* exhaustion in it was not the initial one, or was not resumed in it.
findCandidateRepairCIPollResumePair(c) ==
    LET xs == PollPauses(Waiting.v, c) IN
    IF /\ Cardinality(xs) <= 1
       /\ \A x \in xs :
             /\ x < c /\ hist[x].code = "initial" /\ x \notin notes
             /\ Is(x + 1, "operator_resume", "paused", "waiting_ci")
             /\ x + 1 \in notes => x + 1 = c
    THEN xs ELSE {0}

\* authenticateCandidateRepairCIHistory: what the Builder of a repair checks of
\* the history that led to the red verdict at the fence c.  The use of the
\* budget is the one evidence event in it.
RepairHistory(c) ==
    /\ loadLatestPublicationRebind /\ c.v >= Waiting.v
    /\ Is(Waiting.v, "effects_confirmed", "publishing", "waiting_ci")
    /\ c.v \in notes
    /\ \E pair \in {findCandidateRepairCIPollResumePair(c.v)} :
          /\ pair # {0}
          /\ \A v \in Waiting.v + 1 .. c.v : \E o \in {OwnerBefore(Waiting, v)} :
                \/ v \in pair \/ v - 1 \in pair
                \/ /\ v \in notes => v = c.v
                   /\ IF Recovered(v) THEN Prior(v) = Fence(v - 1, o.r, o.l)
                      ELSE hist[v].trig = "checks_pending" /\ hist[v].r = o.r /\ hist[v].l = o.l
    /\ \E o \in {OwnerBefore(Waiting, c.v + 1)} : c = Fence(c.v, o.r, o.l)

-----------------------------------------------------------------------------
(* The state before a stop, and the live state of the runtime *)

\* authenticatePostPublicationState at the endpoint e.
authenticatePostPublicationState(st, e) ==
    IF st = "publishing"
    THEN IF ~Published THEN CandidateReaches(e)
         ELSE /\ loadLatestPublicationRebind
              /\ \/ Current = e
                 \/ Shift(Current, 2) = e /\ BlockedPair(Current.v + 1, "publishing")
    ELSE /\ st = "waiting_ci" /\ loadLatestPublicationRebind
         /\ Current = e \/ (Waiting = e /\ WaitingEvent)

\* authenticatePostPublicationResume, for a ticket that has moved on since.
PostPublicationResume(st, v, e) ==
    /\ e.v >= v + 3 /\ Triplet(v, st)
    /\ e.v > v + 3 =>
          /\ Recovered(v + 4)
          /\ validateRunnerRecoveryLedger(Prior(v + 4), e)

\* The generic reader of a ticket that waits for CI: rows after the waiting
\* event, or after one block or endpoint that follows it directly.
WaitingReaches ==
    LET v      == Waiting.v + 2
        paired == ticket.version >= v
                  /\ (authenticatePREndpointResume(v) \/ BlockedPair(Waiting.v + 1, "waiting_ci"))
        base   == IF ~paired THEN Waiting
                  ELSE IF endpoint.f.v = v THEN endpoint.f ELSE Shift(Waiting, 2) IN
    /\ WaitingEvent /\ ticket.version >= Waiting.v /\ ticket.runner >= Current.r
    /\ validateRunnerRecoveryLedger(base, Live)

\* LoadPublishedCandidate at the live fence.
LoadPublishedCandidate ==
    /\ loadLatestPublicationRebind /\ NoRowAfter(ticket.version)
    /\ IF ticket.state = "publishing"
       THEN \/ Current = Live
            \/ Shift(Current, 2) = Live /\ BlockedPair(Current.v + 1, "publishing")
       ELSE /\ ticket.state = "waiting_ci"
            /\ \/ loadCICurrentPublicationAt(leader)
               \/ WaitingReaches
    /\ CandidateReaches(wit.f) /\ EffectsConfirmed(wit.f)
=============================================================================
