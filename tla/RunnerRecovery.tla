--------------------------- MODULE RunnerRecovery ---------------------------
(***************************************************************************)
(* store/lease.go, FenceRecoveredRunners: the startup fence of one ticket. *)
(*                                                                         *)
(* A new leader invalidates the runner of every active ticket and appends  *)
(* a recovery row.  The row names the leader that owned the ticket before; *)
(* no table holds that leader for every state, so it is reconstructed from *)
(* the first witness that applies.  Each operator below is one witness:    *)
(* {} when it does not apply, {0} when it refuses (the whole start fails), *)
(* and {l} when it names the leader l.                                     *)
(***************************************************************************)
EXTENDS TicketLedger

\* recoveryProviderPhase and loadPhaseRecoveryBaseline: the newest completed
\* claim of a phase, whatever entry it belongs to.
Completed(ph) == {i \in DOMAIN claims : claims[i].ph = ph /\ claims[i].st = "completed"}
Baseline(ph)  == claims[Newest(Completed(ph))]
ClaimFence(c) == Fence(c.v, c.r, c.l)

\* An amendment decision made the live version.
verificationAmendmentRecoveryPredecessor ==
    LET v  == ticket.version
        us == UnresolvedBefore(v)
        fs == amendmentDecisionFence(Ledger, CHOOSE q \in us : TRUE, v)
        f  == CHOOSE x \in fs : TRUE IN
    IF ticket.state # "building" \/ hist[v].trig \notin Decided THEN {}
    ELSE IF /\ Cardinality(us) = 1 /\ fs # {} /\ f.r = ticket.runner /\ Older(f.l)
            /\ DecidedAt(Ledger, Fence(v, f.r, f.l))
         THEN {f.l} ELSE Refuse

\* normalRecoveryLeaderAt: from the endpoint s only recovery rows, each signed
\* by its predecessor, lead to the live version and runner.
normalRecoveryLeaderAt(s) ==
    IF /\ ticket.version >= s.v /\ ticket.version - s.v = ticket.runner - s.r
       /\ \A v \in s.v + 1 .. ticket.version :
             Recovered(v) /\ Prior(v) = (IF v = s.v + 1 THEN s ELSE At(v - 1))
    THEN IF ticket.version = s.v THEN s.l ELSE hist[ticket.version].l
    ELSE 0

\* The phase entry was retried: only its retry endpoint is a witness.
providerRetryRecoveryPredecessor ==
    LET ph == ticket.state
        xs == EpochOf(EntryAt(ph, ticket.version))
        x  == CHOOSE y \in xs : TRUE IN
    IF ph \notin Phases \/ ~HasEntry(ph, ticket.version) THEN {}
    ELSE IF xs = {} THEN {}
    ELSE IF /\ x.exV + 1 <= ticket.version /\ x.r <= ticket.runner /\ Older(x.l)
            /\ validateProviderRetryAdvance(ph, Fence(x.exV - 1, x.r, x.l), Fence(x.exV + 1, x.r, x.l))
         THEN Witness(normalRecoveryLeaderAt(Fence(x.exV + 1, x.r, x.l))) ELSE Refuse

\* A typed blocker and its recovery made the last two versions.
providerBlockedRecoveryPredecessor ==
    LET v  == ticket.version
        ph == ticket.state
        ps == providerBlockedEndpointLeader(ph, v - 2, ticket.runner)
        p  == CHOOSE x \in ps : TRUE
        l  == hist[v].l IN
    IF ph \notin Phases \/ v < 3 \/ ~Is(v, "operator_recover", "blocked", ph) THEN {}
    ELSE IF /\ Is(v - 1, "typed_blocker", ph, "blocked")
            /\ ps # {} /\ hist[v].pl = p /\ hist[v].r = ticket.runner /\ Older(l)
            /\ HasEntry(ph, v - 2)
            /\ validateProviderBlockedRecoveryAdvance(Owned, EntryAt(ph, v - 2), Preceding(l))
         THEN {l} ELSE Refuse

\* A resume made the live version: the stop of the sealed control row is the
\* witness, whether or not the control was admitted before the daemon died.
providerPausedRecoveryPredecessor ==
    LET ph == ticket.state
        s  == control.stop IN
    IF \/ ph \notin Phases \/ ticket.runner < 2
       \/ hist[ticket.version].from # "paused"
       \/ hist[ticket.version].trig \notin {"operator_resume", "operator_retry"}
    THEN {}
    ELSE IF hist[ticket.version].trig # "operator_resume" \/ control.st = "none" THEN Refuse
    ELSE IF control.st = "open" THEN {}
    ELSE IF /\ \/ control.auth = s
               \/ control.auth = Preceding(s.l)
            /\ s.r >= 2 /\ s.v + 2 = ticket.version /\ s.r = ticket.runner /\ Older(s.l)
            /\ loadCurrentProviderPhaseEntry(ph, Fence(s.v - 1, s.r - 1, s.l)) # 0
            /\ Is(s.v, "operator_pause_or_take", ph, "stopping")
            /\ Is(s.v + 1, "process_and_effects_drained", "stopping", "paused")
            /\ \A i \in DOMAIN claims : claims[i].st # "active"
         THEN {s.l} ELSE Refuse

\* The newest result of the phase, carried to the live endpoint.
phaseRecoveryBaseline ==
    LET ph == ticket.state
        b  == Baseline(ph)
        p  == IF ControlEndpoint # {} THEN CHOOSE l \in ControlEndpoint : TRUE
              ELSE IF ExactRow THEN hist[LatestRow].l ELSE b.l IN
    IF ph \notin Phases \/ Completed(ph) = {} THEN {}
    ELSE IF /\ \/ ControlEndpoint # {}
               \/ ExactRow
               \/ b.r = ticket.runner /\ ticket.version \in {b.v, b.v + 1}
            /\ Older(p)
            /\ (Rows = {} /\ b.r = 1) => validateInitialLifecycleAdvance(b.v)
            /\ validateRunnerRecoveryLedger(Ledger, ClaimFence(b), Preceding(p))
         THEN {p} ELSE Refuse

\* Verifying without a Reviewer result yet: the Planner's result and the
\* phase_pass that consumed it.
plannerBaseline ==
    LET b == Baseline("planning")
        after == LatestRow # 0 /\ LatestRow + 1 = ticket.version
                    /\ hist[LatestRow].r = ticket.runner
        p == IF after THEN hist[LatestRow].l ELSE b.l IN
    IF \/ ticket.state # "verifying" \/ Completed("verifying") # {}
       \/ Completed("planning") = {} \/ ExactRow
    THEN {}
    ELSE IF /\ Is(ticket.version, "phase_pass", "planning", "verifying")
            /\ after \/ (ticket.version = b.v + 1 /\ ticket.runner = b.r)
            /\ Older(p)
            /\ (LatestRow = 0 /\ b.r = 1) => validateInitialLifecycleAdvance(ticket.version)
            /\ validateRunnerRecoveryLedger(Ledger, ClaimFence(b), Preceding(p))
         THEN {p} ELSE Refuse

\* Building without a Builder result yet: the Reviewer's result, and the leader
\* of its control row where it has one.
verificationBaseline ==
    LET b == Baseline("verifying")
        p == IF ControlEndpoint # {} THEN CHOOSE l \in ControlEndpoint : TRUE ELSE b.l IN
    IF ticket.state # "building" \/ Completed("verifying") = {} THEN {}
    ELSE IF /\ Is(ticket.version, "phase_pass", "verifying", "building")
            /\ ticket.version = b.v + 1 /\ ticket.runner = b.r
            /\ Older(p)
            /\ validateRunnerRecoveryLedger(Ledger, ClaimFence(b), Preceding(p))
         THEN {p} ELSE Refuse

\* A complete pause after the latest row, with its control endpoint.
controlAfterRow ==
    IF LatestRow = 0 \/ ticket.state = "building" THEN {}
    ELSE {l \in ControlEndpoint :
             validateRunnerControlAdvance(At(LatestRow), Preceding(l))}

\* loadActiveProviderEndpoint: a claim in flight at the live version.
activeEndpoint ==
    IF ticket.state \notin Phases THEN {}
    ELSE {claims[i].l : i \in {i \in DOMAIN claims :
             /\ claims[i].ph = ticket.state /\ claims[i].st = "active" /\ Older(claims[i].l)
             /\ claims[i].v = ticket.version /\ claims[i].r = ticket.runner}}

\* A plausible bug: the decision that started the ticket is no witness.
startAuthorityMutant == {}

\* loadRunnerStartAuthority: nothing has happened since the ticket was started.
startAuthority ==
    IF LatestRow = 0 /\ ticket.state = "planning" /\ ticket.version = 2 /\ ticket.runner = 1
    THEN Witness(entries[1].l) ELSE {}

\* loadRegisteredWorktreeEndpoint.
worktreeEndpoint ==
    IF worktree = NoFence THEN {}
    ELSE IF worktree.v = ticket.version /\ worktree.r = ticket.runner /\ Older(worktree.l)
         THEN {worktree.l} ELSE Refuse

\* The witnesses in the order of the code; none of them is a refusal too.
PriorLeader ==
    First(<<StopPredecessor, verificationAmendmentRecoveryPredecessor,
            providerRetryRecoveryPredecessor, providerBlockedRecoveryPredecessor,
            providerPausedRecoveryPredecessor, phaseRecoveryBaseline, plannerBaseline,
            IF ExactRow THEN Witness(hist[LatestRow].l) ELSE {},
            verificationBaseline, controlAfterRow, activeEndpoint, startAuthority,
            worktreeEndpoint, Refuse>>)

\* Paused, blocked, queued and terminal tickets are not fenced; nor is one that
\* this leader has fenced already.
Fenced ==
    /\ ticket.state \in Phases \union {"stopping", "cancelling"}
    /\ ~(ExactRow /\ hist[LatestRow].l = leader)
=============================================================================
