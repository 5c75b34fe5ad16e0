----------------------------- MODULE BuildCycle -----------------------------
(***************************************************************************)
(* One ticket from start to a published candidate, with everything that    *)
(* may happen to it on the way:                                            *)
(*   store/store.go                  (start, typed blocker, recovery)      *)
(*   store/evidence.go               (plan, verification, candidate)       *)
(*   store/verification_amendment.go (the Builder asks for a new proof)    *)
(*   store/provider_retry.go         (exhaustion and its one retry)        *)
(*   store/control.go, runtime_control.go (pause, seal, rearm, cancel)     *)
(*   store/lease.go                  (the startup fence)                   *)
(*                                                                         *)
(* Every operation is one transaction of the Store; each is guarded by the *)
(* validators of TicketLedger, which decide from the history alone whether *)
(* evidence made under an older fence may still be used.  The ghost owner  *)
(* remembers the fence under which each version was really made: no guard  *)
(* reads it.                                                               *)
(*                                                                         *)
(* Left out: the repository commands and commits behind a verification and *)
(* a candidate (module Writers), the rows of a provider attempt (module    *)
(* ProviderAttempts), the operator's source resume, and the 64-row bound   *)
(* of the ledger, which these instances do not reach.                      *)
(***************************************************************************)
EXTENDS RunnerRecovery

CONSTANTS
    MaxLeader,   \* bound: daemon starts
    MaxFaults,   \* bound: restarts, pauses, blocks, failed attempts, amendments
    Corrections  \* the ticket's correction budget

ASSUME BuildAssumption == {MaxLeader, MaxFaults, Corrections} \subseteq Nat /\ MaxLeader >= 1

VARIABLES
    pc,          \* the daemon: down, acquired (the lease only), serving, refused
    owner        \* ghost: the runner and the leader that made each version

vars == <<ledger, pc, owner>>

States == {"queued", "planning", "verifying", "building", "publishing", "stopping",
           "paused", "blocked", "cancelling", "cancelled"}
Triggers == {"submit_valid", "operator_start", "phase_pass", "verification_amendment_requested",
             "amendment_accepted", "amendment_rejected", "retry_or_correction_exhausted",
             "operator_retry", "operator_resume", "operator_pause_or_take",
             "process_and_effects_drained", "typed_blocker", "operator_recover",
             "operator_cancel", "recovered"}

NoControl == [st |-> "none", stop |-> NoFence, auth |-> NoFence]

Fences == [v : Nat, r : Nat, l : 0 .. MaxLeader]

TypeOK ==
    /\ leader \in 1 .. MaxLeader
    /\ ticket \in [state : States, resume : Phases \union {"none"}, version : Nat, runner : Nat,
                   code : {"none", "recoverable", "terminal"}]
    /\ ticket.version = Len(hist) /\ Len(owner) = Len(hist)
    /\ \A v \in DOMAIN hist : hist[v].trig \in Triggers
    /\ notes \subseteq DOMAIN hist
    /\ \A i \in DOMAIN entries : entries[i].ph \in Phases /\ entries[i].v \in DOMAIN hist
    /\ \A x \in epochs : x.ph \in Phases /\ x.exV + 1 \in DOMAIN hist
    /\ \A i \in DOMAIN claims : /\ claims[i].ph \in Phases
                                /\ claims[i].st \in {"active", "completed", "failed"}
    /\ control.st \in {"none", "sealed", "open"}
    /\ control.stop \in Fences /\ control.auth \in Fences
    /\ worktree \in Fences
    /\ pc \in {"down", "acquired", "serving", "refused"}

Init ==
    /\ leader = 1
    /\ ticket = [state |-> "queued", resume |-> "none", version |-> 1, runner |-> 1,
                 code |-> "none"]
    /\ hist = <<Event("submit_valid", "none", "queued")>>
    /\ owner = <<[r |-> 1, l |-> 1]>>
    /\ notes = {} /\ entries = <<>> /\ epochs = {} /\ claims = <<>>
    /\ requests = {} /\ revs = <<>> /\ bound = {}
    /\ control = NoControl
    /\ worktree = NoFence
    /\ pc = "serving"

-----------------------------------------------------------------------------
(* What the operations share *)

Count(trigs) == Cardinality({v \in DOMAIN hist : hist[v].trig \in trigs})
Failed       == {i \in DOMAIN claims : claims[i].st = "failed"}
Faults       == (leader - 1) + Cardinality(Failed)
                + Count({"operator_pause_or_take", "typed_blocker",
                         "verification_amendment_requested"})
MayFault     == Faults < MaxFaults

NoneActive == \A i \in DOMAIN claims : claims[i].st # "active"
Admitted   == control.st \in {"none", "open"}

\* UPDATE tickets SET version=version+1 and INSERT INTO events, one transaction.
Step(event, state, resume, runner, code) ==
    /\ hist' = Append(hist, event)
    /\ ticket' = [state |-> state, resume |-> resume, version |-> ticket.version + 1,
                  runner |-> runner, code |-> code]
    /\ owner' = Append(owner, [r |-> runner, l |-> leader])

Move(trig, state, resume) ==
    Step(Event(trig, ticket.state, state), state, resume, ticket.runner, "none")

\* recordProviderPhaseEntry: a fresh entry of the phase the transition enters.
Enter(ph) ==
    entries' = Append(entries, [ph |-> ph, v |-> ticket.version + 1, r |-> ticket.runner,
                                l |-> leader])

\* advanceOpenRuntimeAuthority, in every transition that carries evidence: a
\* control row, if there is one, must be open at this runner and leader.
Advances ==
    control.st # "none" =>
        /\ control.st = "open" /\ control.auth.v <= ticket.version
        /\ control.auth.r = ticket.runner /\ control.auth.l = leader
AdvanceControl ==
    control' = IF control.st = "none" THEN control
               ELSE [control EXCEPT !.auth = Fence(ticket.version + 1, ticket.runner, leader)]

\* SealRuntimeControl and the seal inside a stop: both fences at the stop.
Sealed(f) == [st |-> "sealed", stop |-> f, auth |-> f]

At0(ph) == pc = "serving" /\ ticket.state = ph

-----------------------------------------------------------------------------
(* Start, worktree, provider attempts *)

StartOrAdopt ==
    /\ At0("queued")
    /\ Move("operator_start", "planning", "none")
    /\ Enter("planning")
    /\ UNCHANGED <<leader, notes, epochs, claims, requests, revs, bound, control, worktree, pc>>

\* The worktree coordinator registers the worktree before the first attempt.
RegisterWorktree ==
    /\ At0("planning") /\ worktree = NoFence /\ Admitted
    /\ worktree' = Live
    /\ notes' = notes \union {ticket.version}
    /\ UNCHANGED <<leader, ticket, hist, owner, entries, epochs, claims, requests, revs, bound,
                   control, pc>>

BindingAt(ph, i) == [ph |-> ph, claim |-> i, v |-> ticket.version, r |-> ticket.runner,
                     l |-> leader]

OfEntry(ph, v) == {i \in DOMAIN claims : claims[i].ph = ph /\ claims[i].entry = v}

\* A plausible bug: a result that cannot be authenticated counts as no result.
LatestReusableProviderAttemptMutant(ph) ==
    IF \E i \in Completed(ph) : i = Newest(Completed(ph)) /\ providerResultReachesFence(i)
    THEN "reusable" ELSE "absent"

\* LatestReusableProviderAttempt: the newest completed attempt of the phase.  It
\* is absent, reusable, or stale; a stale one is an error and never replaced.
LatestReusableProviderAttempt(ph) ==
    IF Completed(ph) = {} THEN "absent"
    ELSE IF providerResultReachesFence(Newest(Completed(ph))) THEN "reusable" ELSE "stale"

Reusable(ph) == {i \in Completed(ph) : i = Newest(Completed(ph)) /\ providerResultReachesFence(i)}

\* CurrentVerification: the binding of the current revision is the live one, the
\* one that the phase_pass consumed, or authenticated by an amendment decision.
CurrentVerification ==
    LET n == Len(revs) IN
    /\ n > 0
    /\ \/ [ph |-> "verifying", claim |-> revs[n].claim, v |-> ticket.version,
           r |-> ticket.runner, l |-> leader] \in bound
       \/ \E b \in loadVerificationAmendmentBoundaryAt(Ledger, Live) :
             IF b # NoBoundary
             THEN claims[b.reviewer].says = "accept" => b.reviewer = revs[n].claim
             ELSE /\ Is(ticket.version, "phase_pass", "verifying", "building")
                  /\ [ph |-> "verifying", claim |-> revs[n].claim, v |-> ticket.version - 1,
                      r |-> ticket.runner, l |-> leader] \in bound

\* rebindStoredVerification: unless the proof is current, the worker in building
\* appends a binding of the recorded Reviewer at the live fence.  The sets of
\* bindings it may append; there is none when the proof cannot be used.
Rebindable(i) == /\ revs # <<>> /\ revs[Len(revs)].claim = i
                 /\ newestBound(i) /\ i \in Reusable("verifying")
Rebindings(ph) ==
    IF ph # "building" \/ CurrentVerification THEN {{}}
    ELSE {{BindingAt("verifying", i)} : i \in {j \in DOMAIN claims : Rebindable(j)}}

\* Worker.planning, verifying and building: a provider is launched only when no
\* completed attempt is found, or for an amendment whose request is newer than
\* the completed review.
Unanswered(ph, found) ==
    \/ found = "absent"
    \/ /\ ph = "verifying" /\ found = "reusable"
       /\ PendingVerificationAmendment = "ok" /\ Baseline(ph).v < PendingRequest.v

BeginProviderAttempt(ph) ==
    LET n == loadCurrentProviderPhaseEntry(ph, Live) IN
    /\ At0(ph) /\ worktree # NoFence /\ Admitted /\ NoneActive
    /\ ph = "verifying" => PendingVerificationAmendment # "bad"
    /\ TRUE \in {Unanswered(ph, LatestReusableProviderAttempt(ph))}
    /\ n # 0
    /\ Cardinality(OfEntry(ph, n)) < (IF EpochOf(EntryAt(ph, n)) = {} THEN 2 ELSE 4)
    /\ claims' = Append(claims, [ph |-> ph, v |-> ticket.version, r |-> ticket.runner,
                                 l |-> leader, entry |-> n, st |-> "active", says |-> "none"])
    /\ \E rb \in Rebindings(ph) : bound' = bound \union rb
    /\ UNCHANGED <<leader, ticket, hist, owner, notes, entries, epochs, requests, revs,
                   control, worktree, pc>>

Settle(i, st, says) ==
    /\ claims' = [claims EXCEPT ![i].st = st, ![i].says = says]
    /\ UNCHANGED <<leader, ticket, hist, owner, notes, entries, epochs, requests, revs, bound,
                   control, worktree, pc>>

\* What a provider may answer in each phase.
Answer(ph) ==
    CASE ph = "planning"  -> {"pass"}
      [] ph = "verifying" -> IF requests = {} THEN {"pass"} ELSE {"accept", "reject"}
      [] ph = "building"  -> {"pass", "amend"}

\* FinishProviderAttempt: only at the fence of the claim.
CompleteAttempt(i) ==
    /\ claims[i].st = "active" /\ At0(claims[i].ph)
    /\ ClaimFence(claims[i]) = Live
    /\ \E says \in Answer(claims[i].ph) : Settle(i, "completed", says)

\* The attempt fails, or the operator's stop retires it.
FailAttempt(i) ==
    /\ pc = "serving" /\ claims[i].st = "active"
    /\ MayFault \/ ticket.state \in {"stopping", "cancelling"}
    /\ Settle(i, "failed", "none")

-----------------------------------------------------------------------------
(* Evidence and the transitions that consume it *)

BoundNow(ph) == {i \in DOMAIN claims : BindingAt(ph, i) \in bound}

Bind(ph, i, first) ==
    /\ \E rb \in Rebindings(ph) : bound' = bound \union {BindingAt(ph, i)} \union rb
    /\ notes' = IF first THEN notes \union {ticket.version} ELSE notes
    /\ UNCHANGED <<leader, ticket, hist, owner, entries, epochs, claims, requests, control,
                   worktree, pc>>

Usable(ph, i) == /\ At0(ph) /\ Admitted /\ BindingAt(ph, i) \notin bound
                 /\ i \in Reusable(ph) /\ newestBound(i)

EverBound(ph) == {b.claim : b \in {c \in bound : c.ph = ph}}

\* RecordPlan: a second plan with another digest is a conflict.
RecordPlan(i) ==
    /\ Usable("planning", i)
    /\ EverBound("planning") \subseteq {i}
    /\ Bind("planning", i, EverBound("planning") = {})
    /\ UNCHANGED revs

\* RecordVerification: the first revision, the revision of an accepted
\* amendment, or the same revision again under a new fence.
RecordVerification(i) ==
    LET cur == Len(revs)
        pend == PendingVerificationAmendment IN
    /\ Usable("verifying", i)
    /\ pend # "bad"
    /\ IF cur > 0 /\ revs[cur].claim = i
       THEN UNCHANGED revs
       ELSE IF cur = 0 THEN pend = "none" /\ revs' = <<[claim |-> i, amends |-> 0]>>
       ELSE /\ pend = "ok" /\ claims[i].says = "accept"
            /\ decisionHolds(Ledger, PendingRequest, i, Live)
            /\ cur = PendingRequest.prior
            /\ revs' = Append(revs, [claim |-> i, amends |-> cur])
    /\ Bind("verifying", i, cur = 0 \/ revs[cur].claim # i)

\* RecordCandidate: the Builder's result on the current verification revision.
RecordCandidate(i) ==
    /\ Usable("building", i) /\ claims[i].says = "pass"
    /\ EverBound("building") \subseteq {i}
    /\ Bind("building", i, EverBound("building") = {})
    /\ UNCHANGED revs

Pass(ph, next, i) ==
    /\ At0(ph) /\ i \in BoundNow(ph) /\ newestBound(i) /\ Advances
    /\ Move("phase_pass", next, "none")
    /\ AdvanceControl
    /\ UNCHANGED <<leader, notes, epochs, claims, requests, revs, bound, worktree, pc>>

TransitionPlan(i) == Pass("planning", "verifying", i) /\ Enter("verifying")

TransitionVerification(i) ==
    /\ PendingVerificationAmendment = "none"
    /\ Len(revs) > 0 /\ revs[Len(revs)].claim = i
    /\ Pass("verifying", "building", i) /\ Enter("building")

TransitionCandidate(i) == Pass("building", "publishing", i) /\ UNCHANGED entries

-----------------------------------------------------------------------------
(* Verification amendments *)

Amends(i)    == claims[i].says = "amend" /\ i \in Reusable("building") /\ newestBound(i)
Requested(i) == \E q \in requests : q.builder = i

\* TransitionVerificationAmendmentRequest: charges the budget, names the
\* Builder's result and the revision it disputes.
TransitionVerificationAmendmentRequest(i) ==
    /\ At0("building") /\ Admitted /\ Advances /\ MayFault
    /\ Amends(i) /\ ~Requested(i)
    /\ revs # <<>> /\ EverBound("building") = {}
    /\ Cardinality(requests) < Corrections
    /\ requests' = requests \union
          {[v |-> ticket.version + 1, r |-> ticket.runner, l |-> leader, builder |-> i,
            prior |-> Len(revs)]}
    /\ notes' = notes \union {ticket.version}
    /\ Move("verification_amendment_requested", "verifying", "none")
    /\ AdvanceControl /\ Enter("verifying")
    /\ UNCHANGED <<leader, epochs, claims, revs, bound, worktree, pc>>

\* blockInvalidVerificationAmendment: the worker replays the Builder that asked
\* for the amendment; the proof it disputes has been replaced, so the request is
\* refused and the ticket is blocked without recovery.  (After a rejection the
\* replayed request fails on the unique builder instead, and nothing changes.)
BlockInvalidVerificationAmendment(i) ==
    /\ At0("building") /\ Admitted
    /\ Amends(i) /\ \E q \in requests : q.builder = i /\ q.prior < Len(revs)
    /\ Step([Event("typed_blocker", "building", "blocked") EXCEPT !.code = "terminal"],
            "blocked", "building", ticket.runner, "terminal")
    /\ UNCHANGED <<leader, notes, entries, epochs, claims, requests, revs, bound, control,
                   worktree, pc>>

\* VerificationAmendmentDecision at the live fence, with the audit.
DecidedBy(i, says) ==
    /\ At0("verifying") /\ Admitted /\ Advances
    /\ PendingVerificationAmendment = "ok" /\ validateRunnerRecoveryAuthority
    /\ claims[i].ph = "verifying" /\ claims[i].says = says
    /\ decisionHolds(Ledger, PendingRequest, i, Live)

Decide(trig) ==
    /\ Move(trig, "building", "none")
    /\ AdvanceControl /\ Enter("building")
    /\ UNCHANGED <<leader, notes, epochs, claims, requests, revs, bound, worktree, pc>>

TransitionVerificationAmendmentAccepted(i) ==
    /\ DecidedBy(i, "accept") /\ i \in BoundNow("verifying")
    /\ Len(revs) = PendingRequest.prior + 1
    /\ Decide("amendment_accepted")

TransitionVerificationAmendmentRejected(i) ==
    /\ DecidedBy(i, "reject") /\ Len(revs) = PendingRequest.prior
    /\ Decide("amendment_rejected")

-----------------------------------------------------------------------------
(* Exhaustion, retry, blockers *)

\* TransitionProviderExhausted: every attempt of the entry, or of its retry
\* epoch, has failed without a result.
TransitionProviderExhausted(ph) ==
    LET n  == loadCurrentProviderPhaseEntry(ph, Live)
        is == OfEntry(ph, n)
        xs == EpochOf(EntryAt(ph, n)) IN
    /\ At0(ph) /\ NoneActive /\ n # 0
    /\ Cardinality(is) = (IF xs = {} THEN 2 ELSE 4)
    /\ is \subseteq Failed
    /\ Move("retry_or_correction_exhausted", "paused", ph)
    /\ UNCHANGED <<leader, notes, entries, epochs, claims, requests, revs, bound, control,
                   worktree, pc>>

\* The controller seals the exhausted ticket where it stands.
SealRuntimeControl ==
    /\ At0("paused") /\ hist[ticket.version].trig = "retry_or_correction_exhausted"
    /\ control # Sealed(Live)
    /\ control' = Sealed(Live)
    /\ UNCHANGED <<leader, ticket, hist, owner, notes, entries, epochs, claims, requests, revs,
                   bound, worktree, pc>>

\* TransitionProviderRetry: one epoch per entry, at the sealed fence.
TransitionProviderRetry ==
    LET ph == ticket.resume
        n  == EntryAt(ph, ticket.version)
        is == OfEntry(ph, n.v) IN
    /\ At0("paused") /\ hist[ticket.version].trig = "retry_or_correction_exhausted"
    /\ control = Sealed(Live)
    /\ EpochOf(n) = {} /\ Cardinality(is) = 2
    /\ epochs' = epochs \union
          {[ph |-> ph, entry |-> n.v, exV |-> ticket.version, r |-> ticket.runner,
            l |-> leader, first |-> CHOOSE i \in is : \A j \in is : i <= j,
            last |-> Newest(is)]}
    /\ Move("operator_retry", ph, "none")
    /\ UNCHANGED <<leader, notes, entries, claims, requests, revs, bound, control, worktree, pc>>

\* Transition with typed_blocker: the worker met a host or policy obstacle.  It
\* does not carry evidence, so it leaves the control row alone.
Block(code) ==
    /\ pc = "serving" /\ ticket.state \in Phases /\ Admitted /\ NoneActive /\ MayFault
    /\ Step([Event("typed_blocker", ticket.state, "blocked") EXCEPT !.code = code],
            "blocked", ticket.state, ticket.runner, code)
    /\ UNCHANGED <<leader, notes, entries, epochs, claims, requests, revs, bound, control,
                   worktree, pc>>

\* recoverTicket: the drain seals the blocked fence, then operator_recover with
\* the bridge between two leaders; Rearm follows.
RecoverBlocked ==
    /\ At0("blocked") /\ ticket.code = "recoverable"
    /\ control' = Sealed(Live)
    /\ \E p \in validateProviderBlockedRecoveryPrefix :
          Step([Event("operator_recover", "blocked", ticket.resume) EXCEPT
                   !.r = ticket.runner, !.pl = p, !.l = leader],
               ticket.resume, "none", ticket.runner, "none")
    /\ UNCHANGED <<leader, notes, entries, epochs, claims, requests, revs, bound,
                   worktree, pc>>

-----------------------------------------------------------------------------
(* Operator control *)

\* TransitionAndInvalidateRunner: the stop moves the fence and seals it.
StopInto(trig, state, resume) ==
    /\ Step(Event(trig, ticket.state, state), state, resume, ticket.runner + 1, "none")
    /\ control' = Sealed(Fence(ticket.version + 1, ticket.runner + 1, leader))
    /\ UNCHANGED <<leader, notes, entries, epochs, claims, requests, revs, bound, worktree, pc>>

Pause ==
    /\ pc = "serving" /\ ticket.state \in Phases /\ MayFault
    /\ StopInto("operator_pause_or_take", "stopping", ticket.state)

Cancel ==
    /\ pc = "serving" /\ MayFault
    /\ ticket.state \in Phases \union {"queued", "stopping", "paused", "blocked"}
    /\ StopInto("operator_cancel", "cancelling", "none")

\* A plausible bug: the drain forgets where the ticket was stopped.
DrainMutant ==
    /\ pc = "serving" /\ ticket.state \in {"stopping", "cancelling"} /\ NoneActive
    /\ control' = Sealed(Live)
    /\ IF ticket.state = "stopping"
       THEN Move("process_and_effects_drained", "paused", "none")
       ELSE Move("process_and_effects_drained", "cancelled", "none")
    /\ UNCHANGED <<leader, notes, entries, epochs, claims, requests, revs, bound,
                   worktree, pc>>

\* finishControl: Controller.Drain seals the stopped fence again, and the state
\* moves once every writer of the ticket is gone (CompleteControlTransition).
Drain ==
    /\ pc = "serving" /\ ticket.state \in {"stopping", "cancelling"} /\ NoneActive
    /\ control' = Sealed(Live)
    /\ IF ticket.state = "stopping"
       THEN Move("process_and_effects_drained", "paused", ticket.resume)
       ELSE Move("process_and_effects_drained", "cancelled", "none")
    /\ UNCHANGED <<leader, notes, entries, epochs, claims, requests, revs, bound,
                   worktree, pc>>

Resume ==
    /\ At0("paused") /\ hist[ticket.version].trig = "process_and_effects_drained"
    /\ validateProviderPausedResumePrefix
    /\ Move("operator_resume", ticket.resume, "none")
    /\ UNCHANGED <<leader, notes, entries, epochs, claims, requests, revs, bound, control,
                   worktree, pc>>

\* RearmRuntimeControl and OpenRuntimeControl: a sealed control is admitted at
\* the live fence once the ticket has moved past the stop.
Rearm ==
    /\ pc = "serving" /\ ticket.state \in Phases /\ NoneActive
    /\ control.st = "sealed"
    /\ ticket.version > control.stop.v \/ ticket.runner # control.stop.r
    /\ control' = [st |-> "open", stop |-> control.stop, auth |-> Live]
    /\ UNCHANGED <<leader, ticket, hist, owner, notes, entries, epochs, claims, requests, revs,
                   bound, worktree, pc>>

-----------------------------------------------------------------------------
(* The daemon *)

Crash ==
    /\ pc \in {"serving", "acquired"} /\ MayFault
    /\ leader < MaxLeader /\ ticket.state \notin {"publishing", "cancelled"}
    /\ pc' = "down"
    /\ UNCHANGED <<ledger, owner>>

\* Open restores every control as sealed; AcquireLeader moves the epoch.
AcquireLeader ==
    /\ pc = "down" /\ leader < MaxLeader
    /\ leader' = leader + 1
    /\ control' = IF control.st = "open" THEN [control EXCEPT !.st = "sealed"] ELSE control
    /\ pc' = "acquired"
    /\ UNCHANGED <<ticket, hist, owner, notes, entries, epochs, claims, requests, revs, bound,
                   worktree>>

\* RecoverProviderAttemptClaimWithProof, for every claim of a dead leader.
Retired == [i \in DOMAIN claims |->
               IF claims[i].st = "active" THEN [claims[i] EXCEPT !.st = "failed"]
               ELSE claims[i]]

\* The fence, then the recovery of provider attempts; a refusal stops the start.
FenceRecoveredRunners ==
    /\ pc = "acquired"
    /\ \E p \in {IF Fenced THEN PriorLeader ELSE leader} :
          IF p = 0
          THEN /\ pc' = "refused"
               /\ UNCHANGED <<ticket, hist, owner, claims>>
          ELSE /\ pc' = "serving"
               /\ claims' = Retired
               /\ IF Fenced
                  THEN Step([Event("recovered", ticket.state, ticket.state) EXCEPT
                                !.r = ticket.runner + 1, !.pl = p, !.l = leader],
                            ticket.state, ticket.resume, ticket.runner + 1, ticket.code)
                  ELSE UNCHANGED <<ticket, hist, owner>>
    /\ UNCHANGED <<leader, notes, entries, epochs, requests, revs, bound, control, worktree>>

Next ==
    \/ StartOrAdopt \/ RegisterWorktree
    \/ \E ph \in Phases : BeginProviderAttempt(ph) \/ TransitionProviderExhausted(ph)
    \/ \E i \in DOMAIN claims : CompleteAttempt(i)
    \/ \E i \in DOMAIN claims : FailAttempt(i)
    \/ \E i \in DOMAIN claims : RecordPlan(i)
    \/ \E i \in DOMAIN claims : RecordVerification(i)
    \/ \E i \in DOMAIN claims : RecordCandidate(i)
    \/ \E i \in DOMAIN claims : TransitionPlan(i)
    \/ \E i \in DOMAIN claims : TransitionVerification(i)
    \/ \E i \in DOMAIN claims : TransitionCandidate(i)
    \/ \E i \in DOMAIN claims : TransitionVerificationAmendmentRequest(i)
    \/ \E i \in DOMAIN claims : BlockInvalidVerificationAmendment(i)
    \/ \E i \in DOMAIN claims : TransitionVerificationAmendmentAccepted(i)
    \/ \E i \in DOMAIN claims : TransitionVerificationAmendmentRejected(i)
    \/ SealRuntimeControl \/ TransitionProviderRetry
    \/ \E code \in {"recoverable", "terminal"} : Block(code)
    \/ RecoverBlocked \/ Pause \/ Cancel \/ Drain \/ Resume \/ Rearm
    \/ Crash \/ AcquireLeader \/ FenceRecoveredRunners

Spec == Init /\ [][Next]_vars

-----------------------------------------------------------------------------
(* Properties *)

\* The daemon whose leader and runner a recovery row names as predecessor really
\* held the ticket, with that runner (FenceRecoveredRunners; lease.go).
PriorHeldTicket ==
    \A v \in Rows : \E w \in 1 .. v - 1 :
        owner[w] = [r |-> hist[v].r - 1, l |-> hist[v].pl]

\* A phase entry whose provider has answered never runs its provider again, no
\* matter which crash, block or pause follows (LatestReusableProviderAttempt and
\* the worker's phases).
CompletedIsNotRerun ==
    \A i, j \in DOMAIN claims :
        i < j /\ claims[i].ph = claims[j].ph /\ claims[i].entry = claims[j].entry
            => claims[i].st # "completed"

\* The Builder works on the proof that the decisions so far have established:
\* one revision, and one more for each accepted amendment.
RevisionsMatchDecisions ==
    ticket.state \in {"building", "publishing"} => Len(revs) = 1 + Count({"amendment_accepted"})

\* The first crash of a ticket that no operator, blocker or failure disturbed is
\* recovered, whatever the daemon was doing (FenceRecoveredRunners).
FirstCrashResumes ==
    pc = "refused" =>
        \/ leader > 2 \/ Failed # {}
        \/ Count({"operator_pause_or_take", "operator_cancel", "typed_blocker",
                  "verification_amendment_requested"}) > 0

\* Every step moves the ticket as the normative table says, the startup fence
\* leaves its state alone (engine.go, transition).
Normative == INSTANCE NormativeMachine WITH state <- ticket.state, resume <- ticket.resume
NormativeSpec == Normative!Spec
=============================================================================
