---------------------------- MODULE TicketHistory ----------------------------
(***************************************************************************)
(* The durable history of one ticket, as every validator of the Store      *)
(* reads it (store/runner_recovery.go, store/store.go).                    *)
(*                                                                         *)
(* A ticket is versioned: every version is made by exactly one state       *)
(* transition (an event) or one recovery row, so the events table and the  *)
(* runner recovery ledger are together the sequence hist, indexed by       *)
(* version.  Events carry no fence: which leader and runner owned a        *)
(* version can only be reconstructed.  TicketLedger reconstructs it before *)
(* publication, PublicationLedger after.                                   *)
(***************************************************************************)
EXTENDS Naturals, Sequences, FiniteSets

VARIABLES
    leader,    \* durable: daemon_instances.leader_epoch
    ticket,    \* durable: the tickets row
    hist,      \* durable: what made each version, an event or a recovery row
    notes,     \* durable: versions with a same-state evidence event
    control    \* durable: runtime_controls row, and whether admission is open

Phases == {"planning", "verifying", "building"}

Fence(v, r, l) == [v |-> v, r |-> r, l |-> l]
NoFence        == Fence(0, 0, 0)
Live           == Fence(ticket.version, ticket.runner, leader)

\* every component at least as large: counters never move back
AtLeast(e, s) == e.v >= s.v /\ e.r >= s.r /\ e.l >= s.l

Newest(S) == CHOOSE x \in S : \A y \in S : y <= x

-----------------------------------------------------------------------------
(* Rows of the two tables *)

Event(trig, from, to) ==
    [trig |-> trig, from |-> from, to |-> to, r |-> 0, pl |-> 0, l |-> 0, code |-> "none"]

Is(v, trig, from, to) ==
    /\ v \in DOMAIN hist
    /\ hist[v].trig = trig /\ hist[v].from = from /\ hist[v].to = to

Recovered(v) == v \in DOMAIN hist /\ hist[v].trig = "recovered"
Rows         == {v \in DOMAIN hist : Recovered(v)}
Prior(v)     == Fence(v - 1, hist[v].r - 1, hist[v].pl)
At(v)        == Fence(v, hist[v].r, hist[v].l)

\* latestRunnerRecovery, and whether it is the live version and runner.
LatestRow == IF Rows = {} THEN 0 ELSE Newest(Rows)
ExactRow  == LatestRow # 0 /\ LatestRow = ticket.version /\ At(LatestRow).r = ticket.runner

resumeTargetState(st) ==
    st \in Phases \union {"publishing", "waiting_ci", "reviewing", "waiting_approval",
                          "waiting_manual_merge", "merging", "reconciling"}

-----------------------------------------------------------------------------
(* Gaps between two fences that are not recovery rows *)

\* n complete pause/drain/resume triples and nothing else.  A note inside the
\* segment is an evidence event that no longer belongs to the old result.
validateRunnerControlAdvance(s, e) ==
    /\ AtLeast(e, s)
    /\ IF e.v = s.v /\ e.r = s.r
       THEN e.l = s.l
       ELSE LET n == e.r - s.r IN
            /\ n > 0 /\ e.v = s.v + 3 * n
            /\ \A k \in 0 .. n - 1 :
                  LET v == s.v + 3 * k IN
                  /\ Is(v + 1, "operator_pause_or_take", hist[v + 1].from, "stopping")
                  /\ Is(v + 2, "process_and_effects_drained", "stopping", "paused")
                  /\ hist[v + 3].trig \in {"operator_resume", "operator_retry"}
                  /\ hist[v + 3].from = "paused"
                  /\ resumeTargetState(hist[v + 3].to)
            /\ notes \intersect (s.v + 1 .. e.v) = {}

PhasePass(v) ==
    \/ Is(v, "phase_pass", "planning", "verifying")
    \/ Is(v, "phase_pass", "verifying", "building")
    \/ Is(v, "phase_pass", "building", "publishing")

validInitialLifecycleTransition(v) ==
    \/ PhasePass(v)
    \/ Is(v, "effects_confirmed", "publishing", "waiting_ci")
    \/ Is(v, "checks_green", "waiting_ci", "reviewing")

validateRunnerPhaseAdvance(s, e) == e.v = s.v + 1 /\ e.r = s.r /\ PhasePass(e.v)

validateRunnerPhaseChain(s, e) ==
    /\ e.v > s.v /\ e.r = s.r
    /\ \A v \in s.v + 1 .. e.v : validInitialLifecycleTransition(v)

-----------------------------------------------------------------------------
(* What the startup fence reads (lease.go): a witness is {} when it does not  *)
(* apply, {0} when it refuses, and {l} when it names the leader l             *)

Refuse       == {0}
Witness(l)   == IF l # 0 /\ l < leader THEN {l} ELSE Refuse
Older(l)     == l # 0 /\ l < leader
Preceding(l) == Fence(ticket.version, ticket.runner, l)

\* loadRuntimeControlEndpointLeader: the authority of the control row, when it
\* is exactly the live version and runner.
ControlEndpoint ==
    IF control.st # "none" /\ control.auth.v = ticket.version /\ control.auth.r = ticket.runner
    THEN {control.auth.l} ELSE {}

\* A plausible bug: the previous epoch is taken for the previous owner, although
\* a leader may die before it fences anything.
StopPredecessorMutant ==
    IF ticket.state \notin {"stopping", "cancelling"} THEN {} ELSE {leader - 1}

\* exactStoppingControlPredecessor, exactCancellationControlPredecessor.
StopPredecessor ==
    IF ticket.state \notin {"stopping", "cancelling"} THEN {}
    ELSE IF ExactRow THEN Witness(hist[LatestRow].l)
    ELSE IF control.st = "sealed" /\ control.stop.v = ticket.version
            /\ control.stop.r = ticket.runner
         THEN Witness(control.stop.l) ELSE Refuse

\* The first witness that applies.
First(ws) == CHOOSE l \in ws[CHOOSE i \in DOMAIN ws :
                                 ws[i] # {} /\ \A j \in 1 .. i - 1 : ws[j] = {}] : TRUE
=============================================================================
