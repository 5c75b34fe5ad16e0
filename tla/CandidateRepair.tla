--------------------------- MODULE CandidateRepair ---------------------------
(***************************************************************************)
(* The one repair of a candidate whose checks failed:                      *)
(*   store/ci_authority.go      (the binding, the build context, the       *)
(*                               successor's completion)                   *)
(*   store/runner_recovery.go   (the repair as an anchor of the ledger)    *)
(*   store/lease.go             (the startup fence of a repairing ticket)  *)
(*   store/candidate_repair_prepared.go (a successor not yet recorded)     *)
(*                                                                         *)
(* The red verdict seals what it was drawn from: the fence it consumed and *)
(* the recovery rows of that time.  Everything later is authenticated from *)
(* that binding, because no ordinary phase leads from waiting for CI back  *)
(* to building.  A reader at the live fence also audits the whole ledger;  *)
(* a reader of history does not, so that the audit itself can use it.      *)
(*                                                                         *)
(* Left out: stops and blocks of the repair's Builder, the limit on its    *)
(* attempts, and failures of its command and commit (modules BuildCycle,   *)
(* Writers).                                                               *)
(***************************************************************************)
EXTENDS PublicationLedger

VARIABLES
    policy,    \* durable: ci_required_check_policies, what the branch required
    obs,       \* durable: the newest ci_observations row
    used,      \* durable: consumed correction budget
    repair,    \* durable: candidate_repair_bindings, consumed fence and sealed rows
    built      \* durable, each by its fence: the claim of the repair's Builder
               \* result, its command, its prepared child, the newest binding

NoPolicy == <<>>
NoRepair == [f |-> NoFence, rows |-> {}]
NotBuilt == [k \in {"result", "command", "child", "candidate"} |-> NoFence]

\* The provider phase entry that the verdict recorded.
RepairEntry == Shift(repair.f, 1)

\* The rows that a verdict at the version v seals.
candidateRepairRecoveryPrefixDigest(v) == {At(w) : w \in {x \in Rows : x <= v}}

\* authenticateCandidateRepairCIHistory names a fence for every version from
\* the publication to the consumed one.
ciEndpoint(v) ==
    IF v <= Waiting.v THEN Fence(v, Current.r, Current.l)
    ELSE LET o == OwnerBefore(Waiting, v + 1) IN Fence(v, o.r, o.l)

-----------------------------------------------------------------------------
(* The binding as an anchor of the ledger *)

\* What candidateRepairBuildAuthorityAtMode reads whoever asks.
RepairBinding ==
    /\ repair # NoRepair
    /\ Is(RepairEntry.v, "checks_red", "waiting_ci", "building")
    /\ repair.rows = candidateRepairRecoveryPrefixDigest(repair.f.v)
    /\ obs.class = "red" /\ obs.f = repair.f /\ policy # NoPolicy /\ used > 0
    /\ RepairHistory(repair.f)

candidateRepairBuildAuthorityHistoricalAt(e) ==
    /\ RepairBinding /\ e.v >= RepairEntry.v
    /\ e # RepairEntry => validateRunnerRecoveryLedgerPrefix(RepairEntry, e)

\* candidateRepairRecoveryAnchor: at the very entry.
candidateRepairRecoveryAnchor == candidateRepairBuildAuthorityHistoricalAt(RepairEntry)

validateCandidateRepairAuthorityEndpoint(e) ==
    IF e.v <= repair.f.v THEN e.v >= Current.v /\ e = ciEndpoint(e.v)
    ELSE e = RepairEntry \/ (e.v > RepairEntry.v /\ validateRunnerRecoveryLedgerPrefix(RepairEntry, e))

validateCandidateRepairRecoveryTarget(e) ==
    /\ candidateRepairRecoveryAnchor
    /\ e.v >= Current.v /\ validateCandidateRepairAuthorityEndpoint(e)

\* The bridge over the wait for CI; what comes before the publication is left to
\* the ordinary ledger.
validateCandidateRepairRecoveryGap(s, e) ==
    /\ candidateRepairRecoveryAnchor
    /\ s.v <= e.v /\ e.v >= Current.v
    /\ IF s.v < Current.v THEN validateRunnerRecoveryLedgerPrefix(s, Current)
       ELSE validateCandidateRepairAuthorityEndpoint(s)
    /\ validateCandidateRepairAuthorityEndpoint(e)

-----------------------------------------------------------------------------
(* validateRunnerRecoveryAuthority: the audit of the whole ledger *)

validateInitialLifecycleAdvance(v) ==
    /\ Is(1, "submit_valid", "none", "queued") /\ Is(2, "operator_start", "queued", "planning")
    /\ \A w \in 3 .. v : validInitialLifecycleTransition(w)

\* The predecessor p of the first row: the ordinary start of a ticket, its first
\* Build entry, the newest candidate while it was published, or the repair.
FirstRowHolds(p) ==
    \/ p.r = 1 /\ validateInitialLifecycleAdvance(p.v)
    \/ p.r = 1 /\ p.v < RepairEntry.v /\ validateRunnerRecoveryLedgerPrefix(cand.check, p)
    \/ p.r = 1 /\ built.candidate = NoFence /\ CandidateReaches(p)
    \/ p.r # 1 /\ validateRunnerControlAdvance(Fence(1, 1, p.l), p)
    \/ validateCandidateRepairRecoveryTarget(p)

AuditGap(s, e) ==
    \/ validateRunnerControlAdvance(s, e)
    \/ validateRunnerPhaseChain(s, e)
    \/ validPublishingResumeGap(s, e)
    \/ validateCandidateRepairRecoveryGap(s, e)

\* Every row's predecessor, and at last the live fence, follows the row before.
validateRunnerRecoveryAuthority ==
    Rows # {} =>
    \A v \in Rows \union {ticket.version + 1} :
        LET older == {w \in Rows : w < v}
            e     == IF v \in Rows THEN Prior(v) ELSE Live IN
        /\ v \in Rows => v <= ticket.version /\ hist[v].r <= ticket.runner /\ hist[v].l <= leader
        /\ IF older = {} THEN FirstRowHolds(e)
           ELSE /\ v \in Rows => e.v >= Newest(older) /\ e.l >= hist[Newest(older)].l
                /\ AuditGap(At(Newest(older)), e)

-----------------------------------------------------------------------------
(* The Builder of the repair *)

\* CandidateRepairBuildContext: the live fence may build the successor.
CandidateRepairBuildContext ==
    /\ ticket.state = "building" /\ RepairBinding
    /\ Live # RepairEntry => validateRunnerRecoveryLedger(RepairEntry, Live)
    /\ validateRunnerRecoveryAuthority

\* candidateRepairBuilderEntryResultReachesFence: the result belongs to the entry
\* of the repair; the claim is read as if it were the newest.
candidateRepairBuilderEntryResultReachesFence ==
    /\ CandidateRepairBuildContext
    /\ built.result.v >= RepairEntry.v
    /\ built.result # RepairEntry => validateRunnerRecoveryLedger(RepairEntry, built.result)

\* candidateRepairPreparedCandidateWitness: the command and the one confirmed child,
\* made under one fence.  Either without the other is a contradiction.
candidateRepairPreparedCandidateWitness ==
    /\ candidateRepairBuilderEntryResultReachesFence /\ built.candidate = NoFence
    /\ built.child # NoFence /\ built.command = built.child
    /\ built.child # Live => validateRunnerRecoveryLedger(built.child, Live)
    /\ built.child # built.result => validateRunnerRecoveryLedgerPrefix(built.result, built.child)

\* candidateRepairBuilderResultReachesFenceAtMode for a reader of history: the
\* completion names the claim, and rows lead from there to e.
candidateRepairBuilderResultReachesHistoricalFence(e) ==
    /\ built.candidate # NoFence
    /\ e # built.result => validateRunnerRecoveryLedgerPrefix(built.result, e)

\* authenticateCandidateRepairBuildContextAt: no successor yet, or a complete one.
authenticateCandidateRepairBuildContextAt(e) ==
    /\ candidateRepairBuildAuthorityHistoricalAt(e)
    /\ built.candidate # NoFence => candidateRepairBuilderResultReachesHistoricalFence(e)

completedCandidateRepairContextAt ==
    /\ candidateRepairBuildAuthorityHistoricalAt(RepairEntry)
    /\ candidateRepairBuilderResultReachesHistoricalFence(built.candidate)

-----------------------------------------------------------------------------
(* The startup fence of a ticket that repairs *)

\* durableCandidateRepairBaseline: a recorded successor must be complete.
durableCandidateRepairBaseline == built.candidate # NoFence => completedCandidateRepairContextAt

candidateRepairRecoveryPredecessor ==
    LET p == IF ExactRow THEN hist[LatestRow].l
             ELSE IF ControlEndpoint # {} THEN CHOOSE l \in ControlEndpoint : TRUE
             ELSE RepairEntry.l IN
    IF /\ Older(p)
       /\ validateCandidateRepairRecoveryTarget(Preceding(p))
       /\ authenticateCandidateRepairBuildContextAt(Preceding(p))
    THEN {p} ELSE Refuse

BuildingPrior == IF durableCandidateRepairBaseline THEN candidateRepairRecoveryPredecessor ELSE Refuse
=============================================================================
