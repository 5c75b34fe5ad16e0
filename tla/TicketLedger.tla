---------------------------- MODULE TicketLedger ----------------------------
(***************************************************************************)
(* The validators that read a ticket's history before publication:         *)
(*   store/runner_recovery.go        (ledger, gaps, audit)                 *)
(*   store/provider_retry.go         (phase entries, retry, block, pause)  *)
(*   store/verification_amendment.go (requests, decisions, boundary)       *)
(*                                                                         *)
(* They decide from the history alone whether a result, a proof or a phase *)
(* entry made under an older fence still speaks for the live one.  The     *)
(* module has state and no actions: BuildCycle moves it.                   *)
(***************************************************************************)
EXTENDS TicketHistory

VARIABLES
    entries,   \* durable: provider_phase_entries
    epochs,    \* durable: provider_retry_epochs
    claims,    \* durable: provider_attempts with their results, by id
    requests,  \* durable: verification_amendment_requests
    revs,      \* durable: verification_revisions, by revision
    bound,     \* durable: plan, verification and candidate result bindings
    worktree   \* durable: the fence of the worktree registration

ledger == <<leader, ticket, hist, notes, entries, epochs, claims, requests, revs,
            bound, control, worktree>>

-----------------------------------------------------------------------------
(* Phase entries and retry epochs *)

\* loadProviderPhaseEntryAt: the newest entry of the phase at or before v.
EntriesAt(ph, v) == {i \in DOMAIN entries : entries[i].ph = ph /\ entries[i].v <= v}
HasEntry(ph, v)  == EntriesAt(ph, v) # {}
EntryAt(ph, v)   == entries[Newest(EntriesAt(ph, v))]
EntryFence(n)    == Fence(n.v, n.r, n.l)

\* loadProviderRetryEpoch: at most one retry epoch per phase entry.
EpochOf(n) == {x \in epochs : x.ph = n.ph /\ x.entry = n.v}

\* authenticateProviderRetryAttemptPair: the two failed attempts of the epoch
\* follow each other in the entry and have no result.
authenticateProviderRetryAttemptPair(x) ==
    /\ x.first < x.last
    /\ \A i \in {x.first, x.last} :
          claims[i].ph = x.ph /\ claims[i].entry = x.entry /\ claims[i].st = "failed"
    /\ \A i \in x.first + 1 .. x.last - 1 : claims[i].ph # x.ph

\* Exhausted and retried under the leader l: two events, one epoch row.
RetryPair(ph, s, e, l) ==
    /\ HasEntry(ph, s.v)
    /\ \E x \in EpochOf(EntryAt(ph, s.v)) :
          /\ x.exV = s.v + 1 /\ x.exV + 1 = e.v /\ x.r = s.r /\ x.l = l
          /\ Is(s.v + 1, "retry_or_correction_exhausted", ph, "paused")
          /\ Is(e.v, "operator_retry", "paused", ph)
          /\ authenticateProviderRetryAttemptPair(x)

\* validateProviderRetryPausedTakeover: the daemon was replaced while the
\* exhausted ticket waited; the last attempt witnesses the old leader.
PausedTakeover(ph, s, e) ==
    /\ e.l > s.l
    /\ RetryPair(ph, s, e, e.l)
    /\ \E x \in EpochOf(EntryAt(ph, s.v)) :
          LET c == claims[x.last] IN c.v = s.v /\ c.r = s.r /\ c.l = s.l
    /\ \A v \in s.v + 1 .. e.v : ~Recovered(v)

validateProviderRetryAdvance(ph, s, e) ==
    /\ e.v = s.v + 2 /\ e.r = s.r
    /\ IF e.l = s.l THEN RetryPair(ph, s, e, s.l) ELSE PausedTakeover(ph, s, e)

validProviderRetryGap(s, e) == \E ph \in Phases : validateProviderRetryAdvance(ph, s, e)

-----------------------------------------------------------------------------
(* The recovery ledger: rows, and the gaps allowed between them *)

\* The ledger relates two fences by relations on fences inside it.  It is one
\* recursive function, Ledger below; what it is built from takes it as L.
Points == [v : Nat, r : Nat, l : Nat]

\* A typed blocker and its recovery.  A recovery by another leader left a
\* bridge that names both.
validProviderBlockedRecoveryGap(L, s, e) ==
    /\ e.v = s.v + 2 /\ e.r = s.r /\ e.l >= s.l
    /\ \E ph \in Phases :
          /\ Is(s.v + 1, "typed_blocker", ph, "blocked") /\ hist[s.v + 1].code = "recoverable"
          /\ Is(e.v, "operator_recover", "blocked", ph)
          /\ s.l # e.l => hist[e.v].pl = s.l /\ hist[e.v].l = e.l /\ hist[e.v].r = e.r
          /\ HasEntry(ph, s.v)
          /\ LET n == EntryAt(ph, s.v) IN
             IF n.v = s.v THEN n.r = s.r /\ n.l = s.l
             ELSE L[EntryFence(n), s]

\* rejectFutureRunnerRecoveryRows and the prefix.
validateRunnerRecoveryLedger(L, b, e) ==
    /\ \A v \in Rows : v <= e.v
    /\ L[b, e]

\* A result was made by claim i; does it still speak at the fence e?  The
\* canonical phase_pass that consumed it may lie between.
Reaches(L, i, e) ==
    LET c == claims[i]
        to == CASE c.ph = "planning"  -> "verifying"
                [] c.ph = "verifying" -> "building"
                [] c.ph = "building"  -> "publishing" IN
    \/ c.v = e.v /\ c.r = e.r /\ c.l = e.l
    \/ \E v \in {c.v} \union {w \in {c.v + 1} : Is(w, "phase_pass", c.ph, to)} :
          validateRunnerRecoveryLedger(L, Fence(v, c.r, c.l), e)

\* loadVerificationAmendment: the Builder's result is authenticated again at
\* the endpoint the request consumed.
Readable(L, q) == Reaches(L, q.builder, Fence(q.v - 1, q.r, q.l))

ReqFence(q) == Fence(q.v, q.r, q.l)
Decided     == {"amendment_accepted", "amendment_rejected"}
Decisions   == {v \in DOMAIN hist : hist[v].trig \in Decided}

\* countUnresolvedVerificationAmendmentRequests before the version d.
UnresolvedBefore(d) ==
    {q \in requests : q.v < d /\ ~\E v \in Decisions : q.v < v /\ v < d}

\* validInitialVerificationAmendmentRequestAtFence; s is NoFence for "any".
validAmendmentRequest(L, s, v) ==
    /\ Is(v, "verification_amendment_requested", "building", "verifying")
    /\ \E q \in requests : /\ q.v = v /\ Readable(L, q)
                           /\ s # NoFence => s = Fence(v - 1, q.r, q.l)

\* amendmentDecisionFence: the set of the one fence, empty when refused.
amendmentDecisionFence(L, q, d) ==
    IF d - 1 = q.v THEN {Fence(q.v, q.r, q.l)}
    ELSE IF Recovered(d - 1) /\ L[ReqFence(q), At(d - 1)]
         THEN {At(d - 1)} ELSE {}

\* assertNewestBoundResult: no finished attempt of the phase is newer.
newestBound(i) ==
    /\ claims[i].st = "completed"
    /\ \A j \in DOMAIN claims :
          j > i /\ claims[j].ph = claims[i].ph => claims[j].st = "active"

\* verificationAmendmentDecisionFromAt without the live audit.
decisionHolds(L, q, i, e) ==
    LET c == Fence(claims[i].v, claims[i].r, claims[i].l) IN
    /\ claims[i].v >= q.v /\ claims[i].says \in {"accept", "reject"}
    /\ L[ReqFence(q), c]
    /\ L[c, e]
    /\ newestBound(i)

NoBoundary == [d |-> 0, reviewer |-> 0, l |-> 0, r |-> 0]

\* The newest review between the request q and the decision d: at most one.
ReviewOf(q, d) ==
    LET rs == {i \in DOMAIN claims : /\ claims[i].ph = "verifying"
                                     /\ claims[i].st = "completed"
                                     /\ claims[i].v >= q.v /\ claims[i].v <= d - 1} IN
    IF rs = {} THEN {} ELSE {Newest(rs)}

\* The decision d on q by the review i, made at the fence f, speaks at e.
boundaryHolds(L, e, d, q, f, i) ==
    LET cur == Len(revs) IN
    /\ decisionHolds(L, q, i, Fence(d - 1, f.r, f.l))
    /\ (hist[d].trig = "amendment_accepted") <=> (claims[i].says = "accept")
    /\ IF e.v = d THEN e.r = f.r /\ e.l = f.l
       ELSE validateRunnerRecoveryLedger(L, Fence(d, f.r, f.l), e)
    /\ IF claims[i].says = "accept"
       THEN /\ cur = q.prior + 1 /\ revs[cur].amends = q.prior
            /\ [ph |-> "verifying", claim |-> i, v |-> d - 1, r |-> f.r, l |-> f.l] \in bound
       ELSE cur = q.prior /\ revs[cur].amends = 0

\* The newest decision at or before e, authenticated from its request up to e.
\* The set of that one boundary; NoBoundary stands for no decision, and the set
\* is empty when the decision is refused.
loadVerificationAmendmentBoundaryAt(L, e) ==
    LET ds == {v \in Decisions : v <= e.v}
        d  == Newest(ds) IN
    IF ds = {} THEN {NoBoundary}
    ELSE UNION {UNION {{[d |-> d, reviewer |-> i, l |-> f.l, r |-> f.r] :
                           i \in {i \in ReviewOf(q, d) : boundaryHolds(L, e, d, q, f, i)}}
                       : f \in amendmentDecisionFence(L, q, d)}
                : q \in {q \in UnresolvedBefore(d) : Cardinality(UnresolvedBefore(d)) = 1
                                                      /\ Readable(L, q)}}

DecidedAt(L, e) == \E b \in loadVerificationAmendmentBoundaryAt(L, e) : b.d = e.v

\* Between two recovery rows an amendment may be requested, or decided, or both.
OneOrBoth(n, asked, decided) == IF n = 1 THEN asked \/ decided ELSE n = 2 /\ asked /\ decided
validateRunnerVerificationAmendmentAdvance(L, s, e) ==
    /\ e.r = s.r /\ e.l = s.l /\ e.v > s.v
    /\ OneOrBoth(e.v - s.v, validAmendmentRequest(L, s, s.v + 1), DecidedAt(L, e))

\* One gap of the ledger.  Ordinary phase passes are accepted only under the
\* same leader: a chain of them before a row, a single one at the end.
GapHolds(L, s, e, chain) ==
    /\ AtLeast(e, s)
    /\ \/ validateRunnerControlAdvance(s, e)
       \/ IF (IF chain THEN validateRunnerPhaseChain(s, e) ELSE validateRunnerPhaseAdvance(s, e))
          THEN e.l = s.l
          ELSE \/ validateRunnerVerificationAmendmentAdvance(L, s, e)
               \/ validProviderRetryGap(s, e)
               \/ validProviderBlockedRecoveryGap(L, s, e)

\* validateRunnerRecoveryLedgerPrefix: every row's predecessor, and at last e
\* itself, follows the row before it.
Ledger[b \in Points, e \in Points] ==
    LET rows    == {v \in Rows : b.v < v /\ v <= e.v}
        From(v) == LET older == {w \in rows : w < v} IN
                   IF older = {} THEN b ELSE At(Newest(older)) IN
    \A v \in rows \union {e.v + 1} :
        /\ v \in rows => hist[v].l > hist[v].pl
        /\ GapHolds(Ledger, From(v), IF v \in rows THEN Prior(v) ELSE e, v \in rows)

-----------------------------------------------------------------------------
(* The current phase entry *)

\* The leader that owned (v, r): a set of one, empty when nothing witnesses it.
\* The first witness in the code's order wins.
providerBlockedEndpointLeader(ph, v, r) ==
    LET row   == {hist[w].l : w \in {w \in Rows : w = v /\ hist[w].r = r}}
        entry == {n.l : n \in {entries[i] : i \in DOMAIN entries} \cap
                              {x \in {entries[i] : i \in DOMAIN entries} :
                                  x.ph = ph /\ x.v = v /\ x.r = r}}
        ctl   == IF control.st # "none" /\ control.auth.v = v /\ control.auth.r = r
                 THEN {control.auth.l} ELSE {}
        retry == {x.l : x \in {y \in epochs : y.ph = ph /\ y.exV + 1 = v /\ y.r = r}}
        brdg  == IF Is(v, "operator_recover", "blocked", ph) /\ hist[v].l # 0
                 THEN {hist[v].l} ELSE {} IN
    IF row # {} THEN row ELSE IF entry # {} THEN entry ELSE IF ctl # {} THEN ctl
    ELSE IF retry # {} THEN retry ELSE brdg

\* The owner of the endpoint before the block is found first: Owned is the
\* recursive function of both.
validateProviderBlockedRecoveryAdvance(O, n, e) ==
    /\ e.v >= 3
    /\ Is(e.v - 1, "typed_blocker", n.ph, "blocked") /\ hist[e.v - 1].code = "recoverable"
    /\ Is(e.v, "operator_recover", "blocked", n.ph)
    /\ \E p \in providerBlockedEndpointLeader(n.ph, e.v - 2, e.r) :
          /\ p <= e.l
          /\ p # e.l => hist[e.v].pl = p /\ hist[e.v].l = e.l /\ hist[e.v].r = e.r
          /\ HasEntry(n.ph, e.v - 2) /\ EntryAt(n.ph, e.v - 2).v = n.v
          /\ O[n.ph, Fence(e.v - 2, e.r, p)]

\* The newest entry of the phase speaks at the fence e: it was made there, or
\* a retry, a blocker or the recovery ledger carried it there.
Owned[ph \in Phases, e \in Points] ==
    /\ HasEntry(ph, e.v)
    /\ LET n == EntryAt(ph, e.v) IN
       \/ EntryFence(n) = e
       \/ \E x \in EpochOf(n) :
             validateProviderRetryAdvance(ph, Fence(x.exV - 1, x.r, x.l), e)
       \/ validateProviderBlockedRecoveryAdvance(Owned, n, e)
       \/ validateRunnerRecoveryLedger(Ledger, EntryFence(n), e)

\* The version of the phase entry that owns the fence e, 0 when none does.
loadCurrentProviderPhaseEntry(ph, e) ==
    IF HasEntry(ph, e.v) /\ Owned[ph, e] THEN EntryAt(ph, e.v).v ELSE 0

\* validateProviderPausedResumePrefix: what Resume checks on the paused ticket.
validateProviderPausedResumePrefix ==
    LET ph == ticket.resume
        s  == control.stop IN
    /\ control.st = "sealed" /\ control.auth = s
    /\ s.v + 1 = ticket.version /\ s.r = ticket.runner /\ s.l <= leader
    /\ Is(s.v, "operator_pause_or_take", ph, "stopping")
    /\ Is(s.v + 1, "process_and_effects_drained", "stopping", "paused")
    /\ loadCurrentProviderPhaseEntry(ph, Fence(s.v - 1, s.r - 1, s.l)) # 0

\* validateProviderBlockedRecoveryPrefix: what RecoverBlocked checks; the set
\* of the one prior leader.
validateProviderBlockedRecoveryPrefix ==
    LET v == ticket.version IN
    {p \in providerBlockedEndpointLeader(ticket.resume, v - 1, ticket.runner) :
        /\ p <= leader
        /\ Is(v, "typed_blocker", ticket.resume, "blocked") /\ hist[v].code = "recoverable"
        /\ loadCurrentProviderPhaseEntry(ticket.resume, Fence(v - 1, ticket.runner, p)) # 0}

-----------------------------------------------------------------------------
(* The audit of the whole ledger, and what it admits *)

\* validInitialVerificationAmendmentDecision.
validAmendmentDecision(v) ==
    /\ hist[v].trig \in Decided
    /\ Cardinality(UnresolvedBefore(v)) = 1
    /\ \A q \in UnresolvedBefore(v) : \E f \in amendmentDecisionFence(Ledger, q, v) :
          DecidedAt(Ledger, Fence(v, f.r, f.l))

validateInitialLifecycleAdvance(v) ==
    /\ Is(1, "submit_valid", "none", "queued")
    /\ v >= 2 => Is(2, "operator_start", "queued", "planning")
    /\ \A w \in 3 .. v : \/ validInitialLifecycleTransition(w)
                         \/ validAmendmentRequest(Ledger, NoFence, w)
                         \/ validAmendmentDecision(w)

\* Gaps of the audit: like the ledger's, but a chain of phase passes may cross
\* any leader.
AuditGap(s, e) ==
    \/ validateRunnerControlAdvance(s, e)
    \/ validateRunnerPhaseChain(s, e)
    \/ validateRunnerVerificationAmendmentAdvance(Ledger, s, e)
    \/ validProviderRetryGap(s, e)
    \/ validProviderBlockedRecoveryGap(Ledger, s, e)

\* The predecessor p of the first row reaches back to submission, or to the
\* entry of the current phase.
FirstRowHolds(p) ==
    IF p.r = 1
    THEN \E b \in {p} \union
                  {EntryFence(EntryAt(ph, p.v)) : ph \in {x \in Phases : /\ x = ticket.state
                                                                        /\ HasEntry(x, p.v)}} :
            /\ b # p => Ledger[b, p]
            /\ validateInitialLifecycleAdvance(b.v)
    ELSE validateRunnerControlAdvance(Fence(1, 1, p.l), p)

\* Every row's predecessor, and at last the live fence, follows the row before.
validateRunnerRecoveryAuthority ==
    Rows # {} =>
    \A v \in Rows \union {ticket.version + 1} :
        LET older == {w \in Rows : w < v}
            e     == IF v \in Rows THEN Prior(v) ELSE Live IN
        /\ v \in Rows => v <= ticket.version /\ hist[v].r <= ticket.runner /\ hist[v].l <= leader
        /\ IF older = {} THEN FirstRowHolds(e)
           ELSE /\ e.v >= Newest(older) /\ e.l >= hist[Newest(older)].l
                /\ AuditGap(At(Newest(older)), e)

\* providerResultReachesFenceAt with live authority.
providerResultReachesFence(i) ==
    LET c == claims[i] IN
    /\ validateRunnerRecoveryAuthority
    /\ \/ Fence(c.v, c.r, c.l) = Live
       \/ /\ c.ph = "verifying" /\ c.v < ticket.version /\ Decisions # {}
          /\ \E b \in loadVerificationAmendmentBoundaryAt(Ledger, Live) : b.reviewer = i
       \/ /\ ~(c.ph = "verifying" /\ c.v < ticket.version /\ Decisions # {})
          /\ Reaches(Ledger, i, Live)

\* PendingVerificationAmendment: "none", "bad" or "ok" with its request.
PendingVerificationAmendment ==
    LET us == {q \in requests : ~\E v \in Decisions : v > q.v}
        q  == CHOOSE x \in us : TRUE IN
    IF us = {} THEN "none"
    ELSE IF /\ Cardinality(us) = 1 /\ ticket.state = "verifying" /\ Readable(Ledger, q)
            /\ ReqFence(q) = Live \/ validateRunnerRecoveryLedger(Ledger, ReqFence(q), Live)
         THEN "ok" ELSE "bad"

PendingRequest == CHOOSE q \in requests : ~\E v \in Decisions : v > q.v
=============================================================================
