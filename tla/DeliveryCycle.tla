---------------------------- MODULE DeliveryCycle ----------------------------
(***************************************************************************)
(* One candidate from the Builder's pass to the verdict of CI:             *)
(*   publication/worker.go        (push, draft PR, witness)                *)
(*   store/publication_evidence.go (witness, block, resume, rebind)        *)
(*   store/pr_endpoint.go          (the stop after the first PR)           *)
(*   store/ci_schedule.go, ci_authority.go, localruntime/ci_worker.go      *)
(*   github/github.go, check_apps.go (what the branch requires of CI)      *)
(*   store/runtime_control.go, daemon.go (pause, resume, recover, rearm)   *)
(*   store/lease.go, runner_recovery.go  (the startup fence)               *)
(*   workflowruntime/phase_runner.go, store/evidence.go (the repair)       *)
(*                                                                         *)
(* Every Store operation is one transaction; a start of the daemon is      *)
(* three (epoch, fence, rebind), and it may die between them.  The ghost   *)
(* owner remembers who really made each version: no guard reads it.        *)
(*                                                                         *)
(* The cycle ends in reviewing or, for the one diagnosed repair, with the  *)
(* successor candidate.  Left out: cancellation (module BuildCycle), the   *)
(* rows of a mutation claim (module Effects), the diagnostics of an        *)
(* observation, and the second candidate's pass and publication.           *)
(***************************************************************************)
EXTENDS CandidateRepair

CONSTANTS
    MaxLeader,    \* bound: daemon starts
    MaxFaults,    \* bound: restarts, pauses and blocks together
    MaxPending,   \* bound: pending verdicts that are consumed
    MaxAttempts,  \* ciPollMaxAttempts
    Limit,        \* the correction budget
    Protections   \* what the branch may require: for each check an app, or "any"

ASSUME DeliveryAssumption ==
    /\ \A p \in Protections : DOMAIN p # {} /\ IsFiniteSet(DOMAIN p)
    /\ {MaxLeader, MaxFaults, MaxPending, MaxAttempts, Limit} \subseteq Nat
    /\ MaxLeader >= 2 /\ MaxAttempts >= 1

VARIABLES
    poll,      \* durable: ci_poll_schedules, attempts and the retry epoch
    worker,    \* volatile: the CI worker or the Builder, and its admitted fence
    remote,    \* external: what GitHub has of the candidate
    pc,        \* the daemon: down, acquired, fenced, serving, refused
    owner      \* ghost: the runner and the leader that made each version

machine  == <<ticket, hist, notes, owner>>
ci       == <<poll, policy, obs, used, repair, built>>
vars     == <<leader, machine, control, publication, ci, worker, remote, pc>>

Kinds     == {"push", "draft"}
Published0 == {"publishing", "waiting_ci"}
NoControl == [st |-> "none", stop |-> NoFence, auth |-> NoFence]
NoObs     == [f |-> NoFence, class |-> "none"]
Idle      == [st |-> "idle", f |-> NoFence]
Fences    == [v : Nat, r : Nat, l : 0 .. MaxLeader]

TypeOK ==
    /\ leader \in 1 .. MaxLeader
    /\ ticket \in [state : Published0 \union {"stopping", "paused", "blocked", "reviewing", "building"},
                   resume : Published0 \union {"none"}, version : Nat, runner : Nat,
                   code : {"none", "recoverable", "pr_opened"}]
    /\ ticket.version = Len(hist) /\ Len(owner) = Len(hist) /\ notes \subseteq DOMAIN hist
    /\ control.st \in {"none", "sealed", "open"} /\ {control.stop, control.auth} \subseteq Fences
    /\ \A k \in Kinds : /\ eff[k].f \in Fences
                        /\ eff[k].st \in {"none", "executing", "uncertain", "confirmed", "failed"}
    /\ endpoint.pr \in BOOLEAN /\ endpoint.f \in Fences
    /\ poll.attempts \in 0 .. 2 * MaxAttempts /\ poll.base \in 0 .. MaxAttempts
    /\ obs.class \in {"none", "pending", "green", "red"}
    /\ used \in 0 .. Limit
    /\ policy \in Protections \union {NoPolicy} /\ (obs # NoObs => policy # NoPolicy)
    /\ repair.f \in Fences /\ repair.rows \subseteq Fences
    /\ \A k \in DOMAIN NotBuilt : built[k] \in Fences
    /\ worker.st \in {"idle", "due", "bound", "recorded", "building", "verified", "prepared"}
    /\ remote \subseteq Kinds
    /\ pc \in {"down", "acquired", "fenced", "serving", "refused"}

\* The Builder has passed, undisturbed or after one restart while building.
Passed == <<Event("submit_valid", "none", "queued"), Event("operator_start", "queued", "planning"),
            Event("phase_pass", "planning", "verifying"), Event("phase_pass", "verifying", "building")>>
Restarted == [Event("recovered", "building", "building") EXCEPT !.r = 2, !.pl = 1, !.l = 2]
Pass      == Event("phase_pass", "building", "publishing")

Init ==
    /\ leader \in {1, 2}
    /\ hist = IF leader = 1 THEN Append(Passed, Pass) ELSE Passed \o <<Restarted, Pass>>
    /\ owner = [v \in 1 .. 4 |-> [r |-> 1, l |-> 1]] \o
               [v \in 1 .. leader |-> [r |-> leader, l |-> leader]]
    /\ ticket = [state |-> "publishing", resume |-> "none", version |-> 4 + leader,
                 runner |-> leader, code |-> "none"]
    /\ cand = [check |-> Fence(4, 1, 1), bind |-> Fence(3 + leader, leader, leader)]
    /\ notes = {2, 3, 4}
    /\ control = NoControl
    /\ wit = [f |-> NoFence, rebinds |-> <<>>]
    /\ eff = [k \in Kinds |-> [st |-> "none", f |-> NoFence]]
    /\ endpoint \in [pr : BOOLEAN, f : {NoFence}]
    /\ poll = [attempts |-> 0, base |-> 0, late |-> FALSE, retry |-> FALSE]
    /\ policy = NoPolicy /\ obs = NoObs /\ used \in {0, Limit}
    /\ repair = NoRepair /\ built = NotBuilt
    /\ worker = Idle /\ remote = {} /\ pc = "serving"

-----------------------------------------------------------------------------
(* What the operations share *)

Count(trigs) == Cardinality({v \in DOMAIN hist : hist[v].trig \in trigs})
Faults       == (leader - owner[5].l) + Count({"operator_pause_or_take", "typed_blocker"})
MayFault     == Faults < MaxFaults

\* RuntimeAdmissionReady: no control row, or one that is open for this fence.
Admitted ==
    control.st # "none" =>
        /\ control.st = "open" /\ control.auth.v <= ticket.version
        /\ control.auth.r = ticket.runner /\ control.auth.l = leader

\* Worker.Run of the local runtime starts a worker of the state.
Serves(st) == pc = "serving" /\ ticket.state = st /\ Admitted

\* UPDATE tickets and INSERT INTO events, one transaction.
Step(event, state, resume, runner, code) ==
    /\ hist' = Append(hist, event)
    /\ ticket' = [state |-> state, resume |-> resume, version |-> ticket.version + 1,
                  runner |-> runner, code |-> code]
    /\ owner' = Append(owner, [r |-> runner, l |-> leader])

Move(trig, state, resume) ==
    Step(Event(trig, ticket.state, state), state, resume, ticket.runner, "none")

Sealed(f) == [st |-> "sealed", stop |-> f, auth |-> f]

Unsettled == \E k \in Kinds : eff[k].st \in {"executing", "uncertain"}

-----------------------------------------------------------------------------
(* Publication *)

Ready(k) == /\ Serves("publishing") /\ ~Published /\ CandidateReachesLast(Live)
            /\ k = "draft" => eff["push"] = [st |-> "confirmed", f |-> Live]

SetEffect(k, st) == eff' = [eff EXCEPT ![k] = [st |-> st, f |-> Live]]

\* ensurePush and ensureDraft: a row that was never launched, or that failed
\* before its start, is planned again and claimed.
ClaimEffect(k) ==
    /\ Ready(k) /\ eff[k].st \in {"none", "failed"}
    /\ SetEffect(k, "executing")
    /\ UNCHANGED <<leader, machine, control, cand, wit, endpoint, ci, worker, remote, pc>>

\* GitHub takes the effect, whether or not anyone learns of it.
Apply(k) ==
    /\ eff[k].st \in {"executing", "uncertain"} /\ k \notin remote
    /\ remote' = remote \union {k}
    /\ UNCHANGED <<leader, machine, control, publication, ci, worker, pc>>

\* What the push may report: the exact head on the branch over an unmoved base,
\* an end before git was handed the command, or neither.
PushWithRequest ==
    {"uncertain"} \union (IF "push" \in remote THEN {"confirmed"} ELSE {"failed"})

\* What the creation may report: the draft is there (its own, or one adopted), no
\* command was handed off, or neither. Absence afterwards proves nothing.
CreateDraftPullRequest ==
    {"uncertain"} \union (IF "draft" \in remote THEN {"confirmed"} ELSE {"failed"})

\* The claim returns.  At a fence that has moved the row is left as it is.
FinishEffect(k) ==
    /\ pc = "serving" /\ eff[k].st = "executing" /\ eff[k].f = Live
    /\ \E st \in [push |-> PushWithRequest, draft |-> CreateDraftPullRequest][k] : SetEffect(k, st)
    /\ UNCHANGED <<leader, machine, control, cand, wit, endpoint, ci, worker, remote, pc>>

\* ObserveEffect and ReconcileInvalidatedEffect: presence settles an uncertain
\* row and rebinds a confirmed one; absence settles nothing.
ReconcileEffect(k) ==
    /\ Ready(k) /\ k \in remote
    /\ eff[k].st \in {"executing", "uncertain", "confirmed"}
    /\ eff[k] # [st |-> "confirmed", f |-> Live]
    /\ SetEffect(k, "confirmed")
    /\ UNCHANGED <<leader, machine, control, cand, wit, endpoint, ci, worker, remote, pc>>

RecordPublishedCandidate ==
    /\ Ready("draft") /\ EffectsConfirmed(Live)
    /\ wit' = [f |-> Live, rebinds |-> <<>>]
    /\ UNCHANGED <<leader, machine, control, cand, eff, endpoint, ci, worker, remote, pc>>

\* TransitionPublishedCandidate; a requested PR endpoint that was not consumed
\* stops the ticket in the same transaction.
TransitionPublishedCandidate ==
    /\ Serves("publishing") /\ LoadPublishedCandidate /\ Current = Live
    /\ IF endpoint.pr /\ endpoint.f = NoFence
       THEN /\ hist' = hist \o <<Event("effects_confirmed", "publishing", "waiting_ci"),
                                 Event("endpoint_reached", "waiting_ci", "paused")>>
            /\ owner' = owner \o [i \in 1 .. 2 |-> [r |-> ticket.runner, l |-> leader]]
            /\ ticket' = [ticket EXCEPT !.state = "paused", !.resume = "waiting_ci",
                                        !.version = @ + 2, !.code = "pr_opened"]
       ELSE Move("effects_confirmed", "waiting_ci", "none")
    /\ UNCHANGED <<leader, notes, control, publication, ci, worker, remote, pc>>

ResumePREndpoint ==
    /\ pc = "serving" /\ ticket.state = "paused" /\ ticket.code = "pr_opened"
    /\ endpoint.pr /\ endpoint.f = NoFence
    /\ Versions("endpoint_reached") = {ticket.version} /\ loadLatestPublicationRebind
    /\ Move("operator_resume", "waiting_ci", "none")
    /\ endpoint' = [endpoint EXCEPT !.f = Fence(ticket.version + 1, ticket.runner, leader)]
    /\ UNCHANGED <<leader, notes, control, cand, wit, eff, ci, worker, remote, pc>>

-----------------------------------------------------------------------------
(* Blocks, and the operator *)

\* TransitionPublishedBlock: without a witness only the candidate speaks for the
\* ticket, and no effect of it may be unsettled.
TransitionPublishedBlock(f) ==
    /\ MayFault
    /\ IF ~Published
       THEN ticket.state = "publishing" /\ CandidateReachesLast(Live) /\ ~Unsettled
       ELSE loadLatestPublicationRebind /\ Live = f
    /\ Step(Event("typed_blocker", ticket.state, "blocked"), "blocked", ticket.state,
            ticket.runner, "recoverable")
    /\ UNCHANGED <<leader, notes, control, publication, ci, worker, remote, pc>>

\* The daemon has no GitHub client to publish with.
blockPublishing == Serves("publishing") /\ TransitionPublishedBlock(Current)

\* Nor one to observe CI with: only an untouched waiting ticket is blocked.
blockCI ==
    /\ Serves("waiting_ci") /\ worker.st = "idle"
    /\ Published /\ WaitingEvent /\ TransitionPublishedBlock(Waiting)

\* authenticateBlockedResume and the published fence it returns to.
BlockedResume(st) ==
    IF ~Published THEN st = "publishing" /\ CandidateReachesLast(Live)
    ELSE /\ loadLatestPublicationRebind
         /\ IF st = "publishing" THEN ticket.version = Current.v + 2 /\ ticket.runner = Current.r
            ELSE ticket.version = Current.v + 3 /\ WaitingEvent

\* recoverTicket: the drain seals the blocked fence, then operator_recover.  No
\* rearm follows for a published state.
RecoverBlocked ==
    /\ pc = "serving" /\ ticket.state = "blocked" /\ worker.st = "idle" /\ ~Unsettled
    /\ Move("operator_recover", ticket.resume, "none")
    /\ control' = Sealed(Live)
    /\ UNCHANGED <<leader, notes, publication, ci, worker, remote, pc>>
    /\ \E st \in {ticket.resume} : BlockedResume(st)'

\* TransitionAndInvalidateRunner: the stop moves the fence and seals it.
Pause ==
    /\ pc = "serving" /\ ticket.state \in Published0 /\ MayFault
    /\ Step(Event("operator_pause_or_take", ticket.state, "stopping"), "stopping", ticket.state,
            ticket.runner + 1, "none")
    /\ control' = Sealed(Fence(ticket.version + 1, ticket.runner + 1, leader))
    /\ UNCHANGED <<leader, notes, publication, ci, worker, remote, pc>>

\* finishControl: the drain seals the fence again and proves it settled.
Drain ==
    /\ pc = "serving" /\ ticket.state = "stopping" /\ worker.st = "idle" /\ ~Unsettled
    /\ control' = Sealed(Live)
    /\ Move("process_and_effects_drained", "paused", ticket.resume)
    /\ UNCHANGED <<leader, notes, publication, ci, worker, remote, pc>>

\* authenticateCIPollResume: the one resume of the first exhaustion.
CIPollResume(v) ==
    /\ loadLatestPublicationRebind /\ Current.l <= leader
    /\ findCIPollResumePair(Waiting.v, v) = {v - 1}
    /\ validateCIRecoveryLedger(Waiting, Fence(v - 2, ticket.runner, leader))
    /\ WaitingEvent

\* A pause that was drained, and resumed with the runner it made.
DrainedResume(st) ==
    IF st = "waiting_ci"
    THEN /\ loadLatestPublicationRebind /\ ticket.version > Waiting.v
         /\ validateRunnerControlAdvance(Waiting, Live)
    ELSE CandidateReachesLast(Live)

\* validatePublicationAdvance for the resume: one pause and its drain since p.
StoppedAfter(p) ==
    /\ ticket.version = p.v + 2 /\ ticket.runner = p.r + 1 /\ leader = p.l
    /\ Is(p.v + 1, "operator_pause_or_take", "publishing", "stopping")
    /\ Is(p.v + 2, "process_and_effects_drained", "stopping", "paused")

\* TransitionPublishedResume for a paused ticket.  A witness that was already
\* recorded is bound to the resumed fence.
Resume ==
    \E st \in {ticket.resume} :
    /\ pc = "serving" /\ ticket.state = "paused" /\ ticket.code # "pr_opened"
    /\ Move("operator_resume", st, "none")
    /\ UNCHANGED <<leader, control, cand, eff, endpoint, ci, worker, remote, pc>>
    /\ IF st = "publishing" /\ Published
       THEN /\ loadLatestPublicationRebind /\ StoppedAfter(Current)
            /\ wit' = [wit EXCEPT !.rebinds =
                          Append(@, [prior |-> Current, anchor |-> Len(@),
                                     f |-> Fence(ticket.version + 1, ticket.runner, leader)])]
            /\ notes' = notes \union {ticket.version + 1}
       ELSE /\ UNCHANGED <<wit, notes>>
            /\ IF hist[ticket.version].trig = "ci_poll_exhausted"
                  /\ hist[ticket.version].code = "initial"
               THEN CIPollResume(ticket.version)'
               ELSE DrainedResume(st)'

\* PostPublicationRearmProof for a control that a restart has sealed again: the
\* resumed ticket was fenced once more and nothing else happened to it.
AuthorityAdvance ==
    LET s == control.stop a == control.auth IN
    /\ ticket.version = a.v + 1 /\ ticket.runner = a.r + 1
    /\ IF a.v = s.v + 2 THEN a.r = s.r /\ a.l = s.l
       ELSE a.v > s.v + 2 /\ a.r > s.r /\ a.l < leader
    /\ validateRunnerRecoveryLedger(Shift(s, 2), Live)
    /\ RecoveryStep(a, Live)

\* resumeTicket and Controller.Rearm.
Rearm ==
    LET s == control.stop IN
    /\ pc = "serving" /\ ticket.state \in Published0 /\ control.st = "sealed"
    /\ worker.st = "idle" /\ ~Unsettled
    /\ ~(ticket.state = "waiting_ci" /\ endpoint.f # NoFence)
    /\ control.auth # s => AuthorityAdvance
    /\ PostPublicationResume(ticket.state, s.v - 1, Live)
    /\ authenticatePostPublicationState(ticket.state, Fence(s.v - 1, s.r - 1, s.l))
    /\ control' = [control EXCEPT !.st = "open", !.auth = Live]
    /\ UNCHANGED <<leader, machine, publication, ci, worker, remote, pc>>

-----------------------------------------------------------------------------
(* CI *)

Pauses(code) ==
    Step([Event("ci_poll_exhausted", "waiting_ci", "paused") EXCEPT !.code = code],
         "paused", "waiting_ci", ticket.runner, "none")

\* authorizeCIPollRetry: the one resume after the first exhaustion.
authorizeCIPollRetry ==
    /\ ticket.version > Waiting.v /\ ticket.runner >= Current.r
    /\ \E pair \in {findCIPollResumePair(Waiting.v, ticket.version)} : pair \notin {{}, {0}}
    /\ validateCIRecoveryLedger(Waiting, Live)

\* AdmitCIPoll: a poll, or the pause once the attempts or the deadline of the
\* epoch are spent.  The deadline starts with the first attempt; the backoff
\* between two attempts only delays.
AdmitCIPoll ==
    /\ Serves("waiting_ci") /\ worker.st = "idle"
    /\ loadCICurrentPublicationAt(leader)
    /\ \E late \in IF poll.attempts = 0 THEN {FALSE} ELSE {poll.late, TRUE},
          retries \in {~poll.retry /\ authorizeCIPollRetry}, again \in BOOLEAN :
       LET spent  == late \/ poll.attempts - poll.base >= MaxAttempts
           second == spent /\ retries
           now    == IF second
                     THEN [poll EXCEPT !.base = poll.attempts, !.late = again, !.retry = TRUE]
                     ELSE [poll EXCEPT !.late = late] IN
       IF spent /\ (~retries \/ again)
       THEN /\ Pauses(IF poll.retry \/ second THEN "retry" ELSE "initial")
            /\ poll' = now
            /\ UNCHANGED worker
       ELSE /\ poll' = [now EXCEPT !.attempts = @ + 1]
            /\ worker' = [st |-> "due", f |-> Live]
            /\ UNCHANGED <<ticket, hist, owner>>
    /\ UNCHANGED <<leader, notes, control, publication, policy, obs, used, repair, built, remote, pc>>

\* What gh may list as required for the pull request: each check, and the app
\* that ran it.
checkWire ==
    LET apps == UNION {{p[n] : n \in DOMAIN p} : p \in Protections} IN
    UNION {[DOMAIN p -> apps] : p \in Protections}

\* The apps of the checks that the rules bind to one: every such row must be a
\* run of the exact commit.
authenticateCheckApps(rules, rows) ==
    [n \in {c \in DOMAIN rows \intersect DOMAIN rules : rules[c] # "any"} |-> rows[n]]

\* The rows are the complete required set, neither more nor less, and each bound
\* check was run by its app.
requiredChecksMatchProtection(rows, rules, apps) ==
    /\ DOMAIN rows = DOMAIN rules
    /\ \A n \in DOMAIN rules : rules[n] # "any" => n \in DOMAIN apps /\ apps[n] = rules[n]

\* The rules are read before and after the rows: what the observer may return.
\* Any other reading is refused, and GitHub may change its rules at any time.
ObserveCIRequiredCheckPolicy ==
    {rules \in Protections : \E rows \in checkWire, after \in Protections :
        \E apps \in {authenticateCheckApps(rules, rows)} :
            /\ requiredChecksMatchProtection(rows, rules, apps)
            /\ after = rules
            /\ requiredChecksMatchProtection(rows, after, apps)}

\* RecordCIRequiredCheckPolicy: the first set observed for the candidate stays;
\* the worker goes on only with that very set.
RecordCIRequiredCheckPolicy ==
    /\ Serves("waiting_ci") /\ worker.st = "due"
    /\ LoadPublishedCandidate /\ loadCICurrentPublicationAt(leader)
    /\ \E seen \in ObserveCIRequiredCheckPolicy :
          /\ policy' = IF policy = NoPolicy THEN seen ELSE policy
          /\ seen = policy'
    /\ worker' = [worker EXCEPT !.st = "bound"]
    /\ UNCHANGED <<leader, machine, control, publication, poll, obs, used, repair, built, remote, pc>>

\* checksBound: the rows that the observation reads, at an open pull request.  It
\* is a second reading: the rules may have changed once more.
RequiredChecks == UNION {[DOMAIN p -> {"queued", "success", "failed", "canceled"}] : p \in Protections}

canonicalCIState(state) ==
    CASE state = "queued"   -> "pending"
      [] state = "failed"   -> "failure"
      [] state = "canceled" -> "cancelled"
      [] state = "success"  -> "success"

NormalizeCIObservationChecks(rows) == [n \in DOMAIN rows |-> canonicalCIState(rows[n])]

ciObservationClassification(checks) ==
    LET states == {checks[n] : n \in DOMAIN checks} IN
    IF states \intersect {"failure", "cancelled"} # {} THEN "red"
    ELSE IF "pending" \in states THEN "pending" ELSE "green"

\* The observation names exactly the checks of the policy.
policyMatchesObservation(checks) == policy # NoPolicy /\ DOMAIN checks = DOMAIN policy

canonicalCIObservation(checks, f) == [f |-> f, class |-> ciObservationClassification(checks)]

\* RecordCIObservationFromObserver: what GitHub said, at the worker's fence.
RecordCIObservation ==
    /\ pc = "serving" /\ worker.st = "bound" /\ worker.f = Live
    /\ ticket.state = "waiting_ci" /\ loadCICurrentPublicationAt(leader) /\ repair = NoRepair
    /\ \E rows \in RequiredChecks : \E checks \in {NormalizeCIObservationChecks(rows)} :
          /\ policyMatchesObservation(checks)
          /\ obs' = canonicalCIObservation(checks, worker.f)
    /\ obs'.class = "pending" => Count({"checks_pending"}) < MaxPending
    /\ worker' = [worker EXCEPT !.st = "recorded"]
    /\ UNCHANGED <<leader, machine, control, publication, poll, policy, used, repair, built, remote, pc>>

\* consumeCorrectionBudget: the one repair loop, while the budget lasts.
Repairs(class) == class = "red" /\ repair = NoRepair /\ used < Limit

Verdict(class) ==
    CASE class = "pending" -> <<"checks_pending", "waiting_ci", "none">>
      [] class = "green"   -> <<"checks_green", "reviewing", "none">>
      [] Repairs(class)    -> <<"checks_red", "building", "none">>
      [] OTHER             -> <<"checks_red", "paused", "waiting_ci">>

\* A plausible bug: the binding names the version the verdict makes.
recordRepairBindingMutant ==
    repair' = [f    |-> Shift(obs.f, 1),
               rows |-> candidateRepairRecoveryPrefixDigest(obs.f.v)]

\* The verdict's fence, sealed together with the recovery rows of that time.
recordRepairBinding ==
    repair' = [f |-> obs.f, rows |-> candidateRepairRecoveryPrefixDigest(obs.f.v)]

Consume ==
    \E v \in {Verdict(obs.class)} :
       /\ Step([Event(v[1], "waiting_ci", v[2]) EXCEPT !.r = obs.f.r, !.l = obs.f.l],
               v[2], v[3], ticket.runner, "none")
       /\ IF v[2] = "building"
          THEN used' = used + 1 /\ notes' = notes \union {ticket.version} /\ recordRepairBinding
          ELSE UNCHANGED <<used, repair, notes>>
       /\ worker' = Idle
       /\ UNCHANGED <<leader, control, publication, poll, policy, obs, built, remote, pc>>

\* A plausible bug: the newest observation is consumed whoever made it.
ConsumeCIObservationMutant ==
    /\ pc = "serving" /\ ticket.state = "waiting_ci"
    /\ obs # NoObs
    /\ Consume

\* authenticateCurrentCIObservation: the newest observation, under the policy of
\* the publication, and only at the fence that made it.
authenticateCurrentCIObservation ==
    /\ obs # NoObs /\ policy # NoPolicy /\ loadCICurrentPublicationAt(leader)
    /\ ticket.state = "waiting_ci" /\ obs.f = Live

ConsumeCIObservation ==
    /\ pc = "serving" /\ worker.st = "recorded"
    /\ authenticateCurrentCIObservation
    /\ Consume

\* The worker gives up: GitHub failed, the Store was busy, or the fence moved.
WorkerReturns ==
    /\ worker.st # "idle"
    /\ worker' = Idle
    /\ UNCHANGED <<leader, machine, control, publication, ci, remote, pc>>

-----------------------------------------------------------------------------
(* The repair *)

\* PhaseRunner.build: without a result of this entry the Builder starts, with the
\* verdict's diagnostics in its prompt.
BeginBuilder ==
    /\ Serves("building") /\ worker.st = "idle" /\ built.result = NoFence
    /\ \E context \in {CandidateRepairBuildContext} : context
    /\ worker' = [st |-> "building", f |-> Live]
    /\ UNCHANGED <<leader, machine, control, publication, ci, remote, pc>>

\* CompleteProviderAttempt: the result belongs to its claim's fence, which must
\* still be live.
EndBuilder ==
    /\ worker.st = "building" /\ worker.f = Live
    /\ built' = [built EXCEPT !.result = Live]
    /\ worker' = Idle
    /\ UNCHANGED <<leader, machine, control, publication, poll, policy, obs, used, repair, remote, pc>>

\* MaterializeCandidate: a result that nothing was made of yet is verified by its
\* post-build command.
runCommand ==
    /\ Serves("building") /\ worker.st = "idle"
    /\ built.result # NoFence /\ {built.command, built.child, built.candidate} = {NoFence}
    /\ \E reaches \in {candidateRepairBuilderEntryResultReachesFence} : reaches
    /\ built' = [built EXCEPT !.command = Live]
    /\ worker' = [st |-> "verified", f |-> Live]
    /\ UNCHANGED <<leader, machine, control, publication, poll, policy, obs, used, repair, remote, pc>>

\* The prepared child of the predecessor's head, confirmed under the same fence.
commitCandidate ==
    /\ worker.st = "verified" /\ worker.f = Live
    /\ built' = [built EXCEPT !.child = Live]
    /\ worker' = [worker EXCEPT !.st = "prepared"]
    /\ UNCHANGED <<leader, machine, control, publication, poll, policy, obs, used, repair, remote, pc>>

\* After a restart the child is only observed: neither the command nor the commit
\* is issued again.
replayCandidateRepairPreparedCandidate ==
    /\ Serves("building") /\ worker.st = "idle"
    /\ \E found \in {candidateRepairPreparedCandidateWitness} : found
    /\ worker' = [st |-> "prepared", f |-> Live]
    /\ UNCHANGED <<leader, machine, control, publication, ci, remote, pc>>

\* RecordCandidate: the successor, with its completion, or after a restart a new
\* binding of the one that is there.
RecordCandidate ==
    /\ Serves("building")
    /\ IF built.candidate = NoFence THEN worker = [st |-> "prepared", f |-> Live]
       ELSE worker.st = "idle" /\ built.candidate # Live
    /\ \E reaches \in {candidateRepairBuilderEntryResultReachesFence} : reaches
    /\ built' = [built EXCEPT !.candidate = Live]
    /\ notes' = IF built.candidate = NoFence THEN notes \union {ticket.version} ELSE notes
    /\ worker' = Idle
    /\ UNCHANGED <<leader, ticket, hist, owner, control, publication, poll, policy, obs, used,
                   repair, remote, pc>>

-----------------------------------------------------------------------------
(* The startup fence: who held the ticket before this start *)

\* The waiting ticket with pending verdicts, or a resumed poll: the whole CI
\* chain must hold under the last owner.
ciWaitingPrior ==
    LET pair == findCIPollResumePair(Waiting.v, ticket.version)
        p    == IF LatestRow # 0 THEN hist[LatestRow].l ELSE Current.l IN
    IF ~loadLatestPublicationRebind \/ pair = {0} THEN Refuse
    ELSE IF Versions("checks_pending") = {} /\ ~(pair # {} /\ ticket.runner = Current.r) THEN {}
    ELSE IF Older(p) /\ loadCICurrentPublicationAt(p) THEN {p} ELSE Refuse

\* Where the authority of a control that was opened again stands.
AuthorityEndpoint ==
    LET s == control.stop a == control.auth v == ticket.version IN
    IF a.v = v /\ a.r = ticket.runner
    THEN IF /\ Older(a.l)
            /\ IF v = s.v + 2 /\ ticket.runner = s.r THEN a.l = s.l
               ELSE /\ v > s.v + 2 /\ ticket.runner > s.r /\ a.l > s.l
                    /\ validateRunnerRecoveryLedger(Shift(s, 2), Preceding(a.l))
         THEN {a.l} ELSE Refuse
    ELSE IF a.v > v \/ a.r > ticket.runner THEN Refuse ELSE {}

\* postPublicationRecoveryBaseline: a ticket that was paused and resumed.
postPublicationRecoveryBaseline ==
    LET s == control.stop v == ticket.version st == ticket.state IN
    IF v < 3 \/ ticket.runner <= 1 THEN {}
    ELSE IF control.st = "none" THEN IF Triplet(v - 3, st) THEN Refuse ELSE {}
    ELSE IF control.st # "sealed" THEN Refuse
    ELSE IF control.auth # s /\ (control.auth.v # v \/ control.auth.r # ticket.runner)
         THEN AuthorityEndpoint
    ELSE IF /\ control.auth = s => s.v = v - 2 /\ s.r = ticket.runner
            /\ s.r > 1
            /\ PostPublicationResume(st, s.v - 1, Live)
            /\ authenticatePostPublicationState(st, Fence(s.v - 1, s.r - 1, s.l))
         THEN IF control.auth = s THEN Witness(s.l) ELSE AuthorityEndpoint
    ELSE Refuse

\* A plausible bug: the resume of the PR endpoint is not a witness.
publicationRecoveryBaselineMutant ==
    IF loadLatestPublicationRebind /\ ticket.version - Current.v \in {0, 1}
       /\ ticket.runner = Current.r
    THEN Witness(Current.l) ELSE {}

\* publicationRecoveryBaseline: a waiting ticket near its waiting event.
publicationRecoveryBaseline ==
    LET n == ticket.version - Current.v IN
    IF ~loadLatestPublicationRebind THEN Refuse
    ELSE IF n = 3 /\ authenticatePREndpointResume(ticket.version)
         THEN IF endpoint.f.r = ticket.runner THEN Witness(endpoint.f.l) ELSE Refuse
    ELSE IF \/ n = 4 /\ ticket.runner = Current.r + 1 /\ Triplet(Current.v + 1, "waiting_ci")
            \/ n \in {0, 1} /\ ticket.runner = Current.r
            \/ /\ n = 3 /\ ticket.runner = Current.r /\ WaitingEvent
               /\ BlockedPair(Current.v + 2, "waiting_ci")
         THEN Witness(Current.l)
    ELSE {}

WaitingPrior ==
    First(<<ciWaitingPrior,
            IF ExactRow THEN Witness(hist[LatestRow].l) ELSE {},
            IF LatestRow = 0 THEN {}
            ELSE {l \in ControlEndpoint : Older(l)
                     /\ validateRunnerControlAdvance(At(LatestRow), Preceding(l))},
            postPublicationRecoveryBaseline,
            publicationRecoveryBaseline,
            Refuse>>)

\* The published candidate that was not yet announced as waiting.
PublishedPrior ==
    IF /\ loadLatestPublicationRebind /\ Current.r = ticket.runner
       /\ \/ ticket.version = Current.v
          \/ ticket.version = Current.v + 2 /\ BlockedPair(Current.v + 1, "publishing")
    THEN Witness(Current.l) ELSE Refuse

\* The candidate alone: its pass, or the last row, followed by pairs only; or
\* the authority of the control row.
CandidateEndpoint ==
    LET e     == Fence(ticket.version, ticket.runner, cand.bind.l)
        f     == BuildFence(Newest(BuildPasses(e)), e)
        row   == At(LatestRow)
        named == IF ControlEndpoint # {} THEN ControlEndpoint
                 ELSE IF LatestRow >= f.v
                 THEN {l \in {hist[LatestRow].l} : validPublishingResumeGap(row, Preceding(l))}
                 ELSE {l \in {f.l} : \/ Fence(ticket.version, ticket.runner, l) = f
                                     \/ validPublishingResumeGap(f, Preceding(l))} IN
    IF Cardinality(BuildPasses(e)) # 1 THEN Refuse
    ELSE {l \in named : Older(l) /\ CandidateReachesLast(Preceding(l))}

PublishingPrior ==
    IF Published THEN First(<<PublishedPrior>>)
    ELSE First(<<IF ExactRow THEN Witness(hist[LatestRow].l) ELSE {},
                 postPublicationRecoveryBaseline,
                 CandidateEndpoint,
                 Refuse>>)

\* fenceRecoveredRunners: the leader that held the ticket, or 0 for a refusal.
PriorLeader ==
    IF ticket.state = "stopping" THEN First(<<StopPredecessor>>)
    ELSE IF ticket.state = "building" THEN First(<<BuildingPrior>>)
    ELSE IF ticket.state = "publishing" THEN PublishingPrior ELSE WaitingPrior

Fenced == ticket.state \in Published0 \union {"stopping", "building"}

-----------------------------------------------------------------------------
(* The daemon *)

Crash ==
    /\ pc \in {"serving", "acquired", "fenced"} /\ MayFault
    /\ leader < MaxLeader /\ ticket.state # "reviewing"
    /\ pc' = "down" /\ worker' = Idle
    /\ UNCHANGED <<leader, machine, control, publication, ci, remote>>

\* Open restores every control as sealed; AcquireLeader moves the epoch, and
\* ReconcileEffects marks what was in flight.
AcquireLeader ==
    /\ pc = "down"
    /\ leader' = leader + 1
    /\ control' = IF control.st = "open" THEN [control EXCEPT !.st = "sealed"] ELSE control
    /\ eff' = [k \in Kinds |-> IF eff[k].st = "executing"
                               THEN [eff[k] EXCEPT !.st = "uncertain"] ELSE eff[k]]
    /\ pc' = "acquired"
    /\ UNCHANGED <<machine, cand, wit, endpoint, ci, worker, remote>>

FenceRecoveredRunners ==
    /\ pc = "acquired"
    /\ IF ~Fenced THEN pc' = "fenced" /\ UNCHANGED <<ticket, hist, owner>>
       ELSE \E p \in {PriorLeader} :
            IF p = 0 THEN pc' = "refused" /\ UNCHANGED <<ticket, hist, owner>>
            ELSE /\ pc' = "fenced"
                 /\ Step([Event("recovered", ticket.state, ticket.state) EXCEPT
                             !.r = ticket.runner + 1, !.pl = p, !.l = leader],
                         ticket.state, ticket.resume, ticket.runner + 1, ticket.code)
    /\ UNCHANGED <<leader, notes, control, publication, ci, worker, remote>>

\* What the start must be able to read of a ticket in a published state.
Readable ==
    IF ticket.state \notin Published0 THEN TRUE
    ELSE IF ~Published THEN CandidateReachesLast(Live) ELSE LoadPublishedCandidate

\* RebindPublishedCandidate: the rebinds it may add; none when it refuses.
Rebinds ==
    LET p == Shift(Current, 2)
        n == Len(wit.rebinds) IN
    IF ~loadLatestPublicationRebind THEN {}
    ELSE IF Live = p /\ BlockedPair(Current.v + 1, "publishing") THEN {<<>>}
    ELSE IF Live = Current /\ n > 0 THEN {<<>>}
    ELSE IF ticket.version = Current.v + 3 /\ ticket.runner = Current.r + 1
         THEN IF BlockedPair(Current.v + 1, "publishing") /\ RecoveryStep(p, Live)
              THEN {<<[prior |-> p, f |-> Live, anchor |-> 0]>>} ELSE {}
    ELSE IF validatePublicationAdvance(Current, Live)
         THEN {<<[prior |-> Current, f |-> Live, anchor |-> n]>>} ELSE {}

\* RebindRecoveredPublicationEvidence, before the daemon serves: a published
\* ticket that cannot be read at its new fence stops the start.
RebindRecovered ==
    LET bs == IF ticket.state = "publishing" /\ Published THEN Rebinds ELSE {<<>>} IN
    /\ pc = "fenced"
    /\ wit' = IF bs = {} THEN wit
              ELSE [wit EXCEPT !.rebinds = @ \o (CHOOSE b \in bs : TRUE)]
    /\ notes' = IF wit' = wit THEN notes ELSE notes \union {ticket.version}
    /\ UNCHANGED <<leader, ticket, hist, owner, control, cand, eff, endpoint, ci, worker, remote>>
    /\ pc' = IF bs # {} /\ Readable' THEN "serving" ELSE "refused"

Next ==
    \/ \E k \in Kinds : ClaimEffect(k) \/ Apply(k) \/ FinishEffect(k) \/ ReconcileEffect(k)
    \/ RecordPublishedCandidate \/ TransitionPublishedCandidate \/ ResumePREndpoint
    \/ blockPublishing \/ blockCI \/ RecoverBlocked \/ Pause \/ Drain \/ Resume \/ Rearm
    \/ AdmitCIPoll \/ RecordCIRequiredCheckPolicy \/ RecordCIObservation
    \/ ConsumeCIObservation \/ WorkerReturns
    \/ BeginBuilder \/ EndBuilder \/ runCommand \/ commitCandidate
    \/ replayCandidateRepairPreparedCandidate \/ RecordCandidate
    \/ Crash \/ AcquireLeader \/ FenceRecoveredRunners \/ RebindRecovered

Spec == Init /\ [][Next]_vars

-----------------------------------------------------------------------------
(* Properties *)

\* The daemon whose leader and runner a recovery row names as predecessor really
\* held the ticket, with that runner, whatever pause, block, endpoint or verdict
\* came before the crash (FenceRecoveredRunners; lease.go).
PriorHeldTicket ==
    \A v \in Rows : \E w \in 1 .. v - 1 :
        owner[w] = [r |-> hist[v].r - 1, l |-> hist[v].pl]

\* A verdict moves the ticket only when the observation was made under the very
\* runner and leader that owned the version it consumes: neither by a worker
\* that a pause has stopped nor before a restart (ConsumeCIObservation).
VerdictIsOwn ==
    \A v \in DOMAIN hist :
        hist[v].trig \in {"checks_pending", "checks_green", "checks_red"} =>
            owner[v - 1] = [r |-> hist[v].r, l |-> hist[v].l] /\ owner[v] = owner[v - 1]

\* The Builder of the repair can authenticate the history that led to the red
\* verdict, whichever restarts and poll retries it holds, unless the ticket had
\* stopped at its PR endpoint; and the fence it serves under reaches the binding,
\* unless there were both a restart and a pause or a block
\* (candidateRepairBuildAuthorityAtMode, validateRunnerRecoveryAuthority).
RepairIsAuthentic ==
    repair # NoRepair /\ endpoint.f = NoFence =>
        /\ RepairHistory(repair.f)
        /\ pc = "serving" /\ (Rows = {} \/ Count({"operator_pause_or_take", "typed_blocker"}) = 0)
              => CandidateRepairBuildContext

\* The first crash of a ticket that no operator or blocker disturbed is
\* recovered, whatever was in flight, except the repair of a ticket that had
\* stopped at its PR endpoint (FenceRecoveredRunners, RebindRecovered).
FirstCrashResumes ==
    pc = "refused" =>
        \/ leader > owner[5].l + 1
        \/ Count({"operator_pause_or_take", "typed_blocker"}) > 0
        \/ repair # NoRepair /\ endpoint.f # NoFence
=============================================================================
