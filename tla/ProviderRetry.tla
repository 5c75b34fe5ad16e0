---------------------------- MODULE ProviderRetry ----------------------------
(***************************************************************************)
(* The operator's one retry of a provider phase whose attempts are spent:  *)
(* daemon.resumeWithTrigger, the controller's RearmProviderRetry           *)
(* (internal/daemon/runtimecontrol) and the evidence both ask Store for    *)
(* (internal/store/provider_retry.go, provider_retry_worktree.go).         *)
(*                                                                         *)
(* One phase entry of one ticket.  The retry is paid for once and then     *)
(* handed to the runtime in several steps, any of which may fail, lose its *)
(* answer or die with the daemon; the same command finishes the handoff.   *)
(* Someone may edit the retained worktree at any moment.                   *)
(*                                                                         *)
(* Left out: what makes a pair of failures authentic (ProviderAttempts),   *)
(* the admission table's own races and a refused installation              *)
(* (RuntimeControl), retries committed before controls were durable, and   *)
(* the ticket once the phase has passed.                                   *)
(***************************************************************************)
EXTENDS Naturals, Sequences

CONSTANTS
    MaxLeaders,  \* bound: daemon starts
    MaxEdits    \* bound: edits of the worktree by somebody else

Fence(v, l, r) == [v |-> v, l |-> l, r |-> r]
NoFence == Fence(0, 0, 0)
NoEpoch == [ex |-> NoFence, re |-> NoFence]
Row(st, stop, auth) == [st |-> st, stop |-> stop, auth |-> auth]
Entry(phase, from, trigger) == [phase |-> phase, from |-> from, trigger |-> trigger]

\* The transitions that open a provider phase: providerPhaseEntryForTransition
\* and the other callers of recordProviderPhaseEntry.
Entries ==
    {Entry("planning", "queued", "operator_start"),
     Entry("verification", "planning", "phase_pass"),
     Entry("verification", "reviewing", "review_repair"),
     Entry("verification", "building", "verification_amendment_requested"),
     Entry("verification", "paused", "operator_resume"),
     Entry("build", "building", "postbuild_repair"),
     Entry("build", "reviewing", "review_repair"),
     Entry("build", "waiting_ci", "checks_red"),
     Entry("build", "waiting_approval", "operator_rejected"),
     Entry("build", "blocked", "operator_recover"),
     Entry("build", "publishing", "base_or_candidate_head_changed"),
     Entry("review", "waiting_ci", "checks_green")}
    \cup {Entry("build", "verifying", trigger) :
            trigger \in {"phase_pass", "amendment_accepted", "amendment_rejected"}}

VARIABLES
    up,         \* a daemon serves
    starts,     \* durable: leader epoch
    entry,      \* durable: the provider phase entry, made at fence 1, 1, 1
    ticket,     \* durable: state, version and runner epoch
    claims,     \* durable: fences of the entry's attempts, in order
    open,       \* durable: the last of them is active
    exh,        \* durable: the exhaustion event of the pause, version and epoch
    epoch,      \* durable: the retry epoch: exhaustion and retry endpoints
    recs,       \* durable: runner recovery ledger, prior and next endpoints
    ctl,        \* durable: runtime_ticket_controls row
    tree,       \* the retained worktree: head, and whether it is dirty
    edits,      \* how often it was edited
    latch,      \* memory: Store's latch of the ticket
    stopped,    \* memory: the scheduler's stop latch
    allowed,    \* memory: the permission installed by a rearm
    run,        \* memory: fence of the admitted activity
    memo,       \* memory: the controller's remembered stop
    req,        \* memory: the retry request in progress
    authed      \* history: fences at which a sealed ticket's tree was authentic

evidence == <<entry, claims, open, exh, epoch, recs>>
memory == <<latch, stopped, allowed, run, memo>>
vars == <<up, starts, evidence, ticket, ctl, tree, edits, memory, req, authed>>

Current == Fence(ticket.v, starts, ticket.r)
Idle == [at |-> "idle", f |-> NoFence]

-----------------------------------------------------------------------------
(* The worktree the phase was entered with *)

\* providerRetryLineageRequiresResubmission
RequiresResubmission(e) ==
    e.phase = "verification" /\ e.trigger \in {"verification_amendment_requested", "operator_resume"}

\* providerRetryPhaseExpectedHead: the only head the entry's transition left,
\* bound to a confirmed creation, refresh or commit.
ExpectedHead(e) ==
    CASE RequiresResubmission(e) -> "none"
      [] e.from \in {"queued", "planning"} -> "registered"
      [] e.trigger = "base_or_candidate_head_changed" -> "refreshed"
      [] e.from = "verifying" -> "checkpoint"
      [] e.trigger = "postbuild_repair" -> "none"
      [] OTHER -> "candidate"

\* The head the branch really has when the phase begins.
EnteredHead(e) == IF ExpectedHead(e) = "none" THEN "checkpoint" ELSE ExpectedHead(e)

\* AuthenticateExistingRegisteredWorktree: strictly clean, at that head.
Pristine == ~tree.dirty /\ tree.head = ExpectedHead(entry)

-----------------------------------------------------------------------------
(* Store: the evidence of a retry *)

\* validateRunnerRecoveryLedger: signed handoffs join the two endpoints.
Reaches(from, to) ==
    LET rows == SelectSeq(recs, LAMBDA x : from.v < x.next.v /\ x.next.v <= to.v)
    IN  IF rows = <<>> THEN from = to
        ELSE /\ rows[1].prior = from
             /\ rows[Len(rows)].next = to
             /\ \A i \in 2..Len(rows) : rows[i].prior = rows[i - 1].next

\* validateProviderRetryAdvance: the pause and the retry are one step from the
\* endpoint before them; a later leader joins it through the last claim.
RetryGap(from, to) ==
    /\ to = epoch.re
    /\ from.v + 2 = to.v /\ from.r = to.r
    /\ from.l # to.l => from.l < to.l /\ claims[2] = from

\* loadCurrentProviderPhaseEntry: the entry reaches the endpoint directly, by
\* handoffs, or by handoffs on either side of the retry.
EntryReaches(f) ==
    \/ Reaches(Fence(1, 1, 1), f)
    \/ /\ epoch # NoEpoch
       /\ \/ f = epoch.re
          \/ /\ Reaches(epoch.re, f)
             /\ \E g \in {Fence(1, 1, 1)} \cup {recs[i].next : i \in DOMAIN recs} :
                  Reaches(Fence(1, 1, 1), g) /\ RetryGap(g, epoch.re)

\* providerRetryWorktreeProofFrom: the exhausted pause without an epoch, or the
\* active endpoint the epoch opened and only handoffs have moved since.
WorktreeProof(f) ==
    /\ f = Current
    /\ \/ ticket.st = "paused" /\ exh = [v |-> ticket.v, epoch |-> 0] /\ epoch = NoEpoch
       \/ ticket.st = "active" /\ epoch # NoEpoch /\ Reaches(epoch.re, f)
    /\ ~RequiresResubmission(entry)
    /\ ExpectedHead(entry) # "none"

\* providerRetryRuntimeControlFrom: the row stopped at the exhaustion, and its
\* authority is that stop or an endpoint of the retry on the way to this one.
RetryControl(f) ==
    /\ epoch # NoEpoch /\ ctl.stop = epoch.ex
    /\ Reaches(epoch.re, f)
    /\ CASE ctl.st = "sealed" ->
              ctl.auth # epoch.ex => Reaches(epoch.re, ctl.auth) /\ Reaches(ctl.auth, f)
         [] ctl.st \in {"armed", "open"} -> ctl.auth = f
         [] OTHER -> FALSE

\* ProviderRetryRuntimeReplay: what an active ticket's retry still lacks.
Replay ==
    IF ctl.st = "none" \/ ~WorktreeProof(Current) \/ ~RetryControl(Current) THEN "no_replay"
    ELSE IF ctl.st = "sealed" THEN "needs_rearm" ELSE "already_rearmed"

\* ProviderRetryDisposition of a paused ticket.
Disposition ==
    CASE ticket.st # "paused" \/ exh.v # ticket.v -> "not_provider"
      [] exh.epoch = 1 -> "exhausted"
      [] RequiresResubmission(entry) -> "resubmit"
      [] OTHER -> "eligible"

\* authenticateProviderRetryWorktree: Store's proof, then the checkout itself.
Authentic(f) == WorktreeProof(f) /\ Pristine

-----------------------------------------------------------------------------
(* The scheduler and the provider *)

Init ==
    /\ up = TRUE /\ starts = 1
    /\ entry \in Entries
    /\ ticket = [st |-> "active", v |-> 1, r |-> 1]
    /\ claims = <<>> /\ open = FALSE
    /\ exh = [v |-> 0, epoch |-> 0]
    /\ epoch = NoEpoch /\ recs = <<>>
    /\ ctl = Row("none", NoFence, NoFence)
    /\ tree = [head |-> EnteredHead(entry), dirty |-> FALSE]
    /\ edits = 0
    /\ latch = NoFence /\ stopped = FALSE /\ allowed = NoFence /\ run = NoFence
    /\ memo = NoFence /\ req = Idle /\ authed = {}

\* RuntimeAdmissionReady: an uncontrolled ticket, or an open row of this runner.
Ready(f) ==
    /\ latch = NoFence
    /\ \/ ctl.st = "none"
       \/ /\ ctl.st = "open" /\ ctl.auth.v <= f.v
          /\ ctl.auth.l = f.l /\ ctl.auth.r = f.r

\* begin: a stopped ticket needs its permission, which opens the armed row.
Begin ==
    /\ up /\ run = NoFence /\ ticket.st = "active"
    /\ IF stopped
       THEN /\ allowed = Current /\ latch = Current
            /\ ctl.st = "armed" /\ ctl.auth = Current
            /\ ctl' = Row("open", ctl.stop, ctl.auth)
            /\ latch' = NoFence /\ stopped' = FALSE /\ allowed' = NoFence
       ELSE Ready(Current) /\ UNCHANGED <<ctl, latch, stopped, allowed>>
    /\ run' = Current
    /\ UNCHANGED <<up, starts, evidence, ticket, tree, edits, memo, req, authed>>

\* The activity returns once no attempt of it is active.
RunEnds ==
    /\ run # NoFence /\ ~open
    /\ run' = NoFence
    /\ UNCHANGED <<up, starts, evidence, ticket, ctl, tree, edits, latch, stopped,
                   allowed, memo, req, authed>>

\* Two attempts for an entry, two more once it has its epoch.
Limit == IF epoch = NoEpoch THEN 2 ELSE 4

\* BeginProviderAttempt, under the entry's window.
BeginProviderAttempt ==
    /\ run # NoFence /\ run = Current /\ ticket.st = "active"
    /\ latch = NoFence /\ ctl.st \notin {"sealed", "armed"}
    /\ ~open /\ Len(claims) < Limit
    /\ EntryReaches(run)
    /\ claims' = Append(claims, run) /\ open' = TRUE
    /\ UNCHANGED <<up, starts, entry, exh, epoch, recs, ticket, ctl, tree, edits,
                   memory, req, authed>>

\* The attempt fails; a Reviewer of the tests and a Builder may have written.
AttemptFails ==
    /\ up /\ open
    /\ open' = FALSE
    /\ \E dirty \in {tree.dirty, entry.phase \in {"verification", "build"}} :
         tree' = [tree EXCEPT !.dirty = tree.dirty \/ dirty]
    /\ UNCHANGED <<up, starts, entry, claims, exh, epoch, recs, ticket, ctl, edits,
                   memory, req, authed>>

\* The phase passes; the open authority moves with the ticket.
AttemptPasses ==
    /\ up /\ open /\ run = Current
    /\ open' = FALSE
    /\ ticket' = [st |-> "left", v |-> ticket.v + 1, r |-> ticket.r]
    /\ ctl' = IF ctl.st = "open" THEN Row("open", ctl.stop, Fence(ticket.v + 1, starts, ticket.r))
              ELSE ctl
    /\ run' = NoFence
    /\ UNCHANGED <<up, starts, entry, claims, exh, epoch, recs, tree, edits, latch,
                   stopped, allowed, memo, req, authed>>

\* TransitionProviderExhausted; it leaves the control row alone.
TransitionProviderExhausted ==
    /\ run # NoFence /\ run = Current /\ ticket.st = "active"
    /\ ~open /\ Len(claims) = Limit
    /\ EntryReaches(run)
    /\ ticket' = [st |-> "paused", v |-> ticket.v + 1, r |-> ticket.r]
    /\ exh' = [v |-> ticket.v + 1, epoch |-> IF epoch = NoEpoch THEN 0 ELSE 1]
    /\ UNCHANGED <<up, starts, entry, claims, open, epoch, recs, ctl, tree, edits,
                   memory, req, authed>>

\* Somebody edits, commits or restores the retained worktree.
Edit ==
    /\ edits < MaxEdits
    /\ edits' = edits + 1
    /\ tree' \in {[tree EXCEPT !.dirty = TRUE], [head |-> "other", dirty |-> FALSE]}
    /\ UNCHANGED <<up, starts, evidence, ticket, ctl, memory, req, authed>>
Restore ==
    /\ ~open /\ tree # [head |-> EnteredHead(entry), dirty |-> FALSE]
    /\ tree' = [head |-> EnteredHead(entry), dirty |-> FALSE]
    /\ UNCHANGED <<up, starts, evidence, ticket, ctl, edits, memory, req, authed>>

-----------------------------------------------------------------------------
(* The retry request, serialized by daemon.runtimeMu *)

Go(at) == req' = [at |-> at, f |-> req.f]

\* resumeWithTrigger on a paused ticket: eligible and authentic, or refused
\* before anything is consumed.
RequestRetry ==
    /\ up /\ req = Idle
    /\ Disposition = "eligible"
    /\ Authentic(Current)
    /\ req' = [at |-> "drain", f |-> Current]
    /\ UNCHANGED <<up, starts, evidence, ticket, ctl, tree, edits, memory, authed>>

\* resumeWithTrigger on an active ticket: a committed retry is only rearmed.
RequestReplay ==
    /\ up /\ req = Idle
    /\ ticket.st = "active" /\ Replay = "needs_rearm"
    /\ req' = [at |-> "load", f |-> Current]
    /\ UNCHANGED <<up, starts, evidence, ticket, ctl, tree, edits, memory, authed>>

\* Drain: SealRuntimeControl commits first.
SealRuntimeControl ==
    /\ req.at = "drain"
    /\ ctl' = Row("sealed", Current, Current) /\ latch' = Current
    /\ Go("join")
    /\ UNCHANGED <<up, starts, evidence, ticket, tree, edits, stopped, allowed, run,
                   memo, authed>>

\* Drain: the runtime is stopped and joined, and Store proves the drain.
Drained ==
    /\ req.at = "join" /\ run = NoFence
    /\ stopped' = TRUE /\ allowed' = NoFence
    /\ ctl' = Row("sealed", Current, Current) /\ latch' = Current
    /\ memo' = IF open THEN memo ELSE Current
    /\ IF open THEN req' = Idle ELSE Go("preflight")
    /\ UNCHANGED <<up, starts, evidence, ticket, tree, edits, run, authed>>

\* Fault: the answer from before the drain is used again.
PreflightMutant ==
    /\ req.at = "preflight"
    /\ Go("commit") /\ authed' = authed
    /\ UNCHANGED <<up, starts, evidence, ticket, ctl, tree, edits, memory>>

\* resumeWithTrigger authenticates the worktree again behind the seal.
Preflight ==
    /\ req.at = "preflight"
    /\ IF Authentic(req.f) THEN Go("commit") /\ authed' = authed \cup {req.f}
       ELSE req' = Idle /\ authed' = authed
    /\ UNCHANGED <<up, starts, evidence, ticket, ctl, tree, edits, memory>>

\* TransitionProviderRetry: the row must be sealed at exactly this pause.
CanRetry ==
    /\ ticket.st = "paused" /\ req.f = Current
    /\ ctl = Row("sealed", Current, Current)
    /\ exh = [v |-> ticket.v, epoch |-> 0] /\ epoch = NoEpoch /\ ~open

TransitionProviderRetry ==
    /\ req.at = "commit" /\ CanRetry
    /\ ticket' = [st |-> "active", v |-> ticket.v + 1, r |-> ticket.r]
    /\ epoch' = [ex |-> Current, re |-> Fence(ticket.v + 1, starts, ticket.r)]
    /\ req' = [at |-> "load", f |-> epoch'.re]
    /\ UNCHANGED <<up, starts, entry, claims, open, exh, recs, ctl, tree, edits,
                   memory, authed>>

\* RearmProviderRetry: the remembered stop, or the durable one after a join.
LoadStop ==
    /\ req.at = "load"
    /\ IF memo # NoFence THEN Go("authenticate") /\ UNCHANGED <<stopped, allowed, memo>>
       ELSE IF ctl.st # "sealed" THEN req' = Idle /\ UNCHANGED <<stopped, allowed, memo>>
       ELSE /\ run = NoFence
            /\ stopped' = TRUE /\ allowed' = NoFence /\ memo' = ctl.stop
            /\ Go("authenticate")
    /\ UNCHANGED <<up, starts, evidence, ticket, ctl, tree, edits, latch, run, authed>>

\* RearmProviderRetry: the checkout once more, still behind the latch.
Reauthenticate ==
    /\ req.at = "authenticate"
    /\ IF Authentic(req.f) THEN Go("prove") /\ authed' = authed \cup {req.f}
       ELSE req' = Idle /\ authed' = authed
    /\ UNCHANGED <<up, starts, evidence, ticket, ctl, tree, edits, memory>>

\* ProviderRetryRearmProof: what it asks of the latch, the stop and the row.
CanRearm ==
    /\ latch # NoFence
    /\ ticket.v > memo.v /\ ticket.r >= memo.r
    /\ WorktreeProof(Current)
    /\ RetryControl(Current) /\ ctl.st = "sealed"
    /\ ctl.stop.v = memo.v /\ ctl.stop.r = memo.r
    /\ ~open

\* ProviderRetryRearmProof: the latch moves to the proved endpoint.
RearmProof ==
    /\ req.at = "prove"
    /\ IF CanRearm THEN latch' = Current /\ req' = [at |-> "activate", f |-> Current]
       ELSE latch' = latch /\ req' = Idle
    /\ UNCHANGED <<up, starts, evidence, ticket, ctl, tree, edits, stopped, allowed,
                   run, memo, authed>>

\* ActivateRearm: the row is armed and the permission installed.
ActivateRearm ==
    /\ req.at = "activate"
    /\ IF latch = req.f /\ Current = req.f /\ ctl.st = "sealed"
       THEN ctl' = Row("armed", ctl.stop, req.f) /\ allowed' = req.f
       ELSE UNCHANGED <<ctl, allowed>>
    /\ req' = Idle
    /\ UNCHANGED <<up, starts, evidence, ticket, tree, edits, latch, stopped, run,
                   memo, authed>>

\* A step of the request fails or its context ends; what it did stays.
RequestFails ==
    /\ req # Idle
    /\ req' = Idle
    /\ UNCHANGED <<up, starts, evidence, ticket, ctl, tree, edits, memory, authed>>

-----------------------------------------------------------------------------
(* Crash and restart *)

Crash ==
    /\ up /\ starts < MaxLeaders
    /\ up' = FALSE
    /\ latch' = NoFence /\ stopped' = FALSE /\ allowed' = NoFence /\ run' = NoFence
    /\ memo' = NoFence /\ req' = Idle
    /\ UNCHANGED <<starts, evidence, ticket, ctl, tree, edits, authed>>

\* restoreRuntimeControls
Restored == IF ctl.st = "none" THEN ctl ELSE Row("sealed", ctl.stop, ctl.auth)

\* providerRetryRecoveryPredecessor: the leader a handoff continues from.
Prior == Fence(ticket.v, IF recs # <<>> /\ recs[Len(recs)].next.v = ticket.v
                         THEN recs[Len(recs)].next.l
                         ELSE IF epoch # NoEpoch THEN epoch.re.l ELSE 1, ticket.r)

\* FenceRecoveredRunners: a retried ticket continues from the retry alone.
CanFence == epoch # NoEpoch => Reaches(epoch.re, Prior)

\* A new daemon: controls sealed, the attempt drained, the active ticket fenced.
Start ==
    /\ ~up
    /\ ticket.st = "active" => CanFence
    /\ up' = TRUE /\ starts' = starts + 1
    /\ ctl' = Restored
    /\ latch' = IF ctl.st = "none" THEN NoFence ELSE ctl.auth
    /\ open' = FALSE
    /\ IF ticket.st = "active"
       THEN /\ ticket' = [st |-> "active", v |-> ticket.v + 1, r |-> ticket.r + 1]
            /\ recs' = Append(recs, [prior |-> Prior,
                                     next |-> Fence(ticket.v + 1, starts + 1, ticket.r + 1)])
       ELSE UNCHANGED <<ticket, recs>>
    /\ UNCHANGED <<entry, claims, exh, epoch, tree, edits, stopped, allowed, run,
                   memo, req, authed>>

-----------------------------------------------------------------------------

Next ==
    \/ Begin \/ RunEnds \/ BeginProviderAttempt \/ AttemptFails \/ AttemptPasses
    \/ TransitionProviderExhausted \/ Edit \/ Restore
    \/ RequestRetry \/ RequestReplay \/ SealRuntimeControl \/ Drained \/ Preflight
    \/ TransitionProviderRetry \/ LoadStop \/ Reauthenticate \/ RearmProof
    \/ ActivateRearm \/ RequestFails
    \/ Crash \/ Start

Spec == Init /\ [][Next]_vars

-----------------------------------------------------------------------------
(* Properties *)

\* The retry is consumed, and a runtime admitted for it, only at an endpoint at
\* which the retained worktree was found pristine while the ticket was sealed:
\* no answer from before the drain, the commit or a restart is used again
\* (resumeWithTrigger: "sf did not consume the retry"; RearmProviderRetry: "The
\* checkout is reauthenticated while the Store/runtime latch remains sealed").
RetryIsAuthenticated ==
    /\ epoch # NoEpoch => epoch.ex \in authed
    /\ ctl.st = "armed" => ctl.auth \in authed /\ ctl.stop = epoch.ex
    /\ allowed # NoFence => allowed = ctl.auth /\ ctl.st = "armed"
    /\ ticket.st = "active" /\ run # NoFence /\ epoch # NoEpoch => run \in authed

\* The leader under which the attempts were found spent.
ExhaustedBy ==
    LET at == {i \in DOMAIN recs : recs[i].next.v + 1 = epoch.ex.v}
    IN  IF at = {} THEN 1 ELSE recs[CHOOSE i \in at : TRUE].next.l

\* A pair whose last attempt a restart drained, exhausted by that daemon and
\* retried by a later one: validateProviderRetryPausedTakeover looks for the
\* last claim at the exhausting endpoint, so the next handoff loses the entry.
LostByTakeover ==
    ExhaustedBy # epoch.ex.l /\ claims[2].v + 1 # epoch.ex.v /\ Current # epoch.re

\* A committed retry is never lost: whatever failed, and however often the
\* daemon died, the next start fences the ticket, and with the worktree
\* restored the same command completes the handoff and the phase can claim
\* its attempt (ProviderRetryRuntimeReplay: "replay must finish the handoff").
RetryIsServed ==
    ticket.st = "active" /\ epoch # NoEpoch =>
        /\ CanFence
        /\ up /\ req = Idle /\ run = NoFence /\ Pristine =>
             \/ /\ Replay = "needs_rearm" /\ latch # NoFence
                /\ memo # NoFence => memo.v = ctl.stop.v /\ memo.r = ctl.stop.r
                /\ ~open
             \/ ctl.st = "armed" /\ allowed = Current /\ latch = Current
             \/ Ready(Current)
        /\ up /\ ~LostByTakeover => EntryReaches(Current)
=============================================================================
