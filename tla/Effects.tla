------------------------------ MODULE Effects ------------------------------
(***************************************************************************)
(* The external effect ledger of one ticket: internal/store/effects.go,    *)
(* mutation_guard.go, control.go, merge_intents.go, recovery.go and        *)
(* external_cleanup_recovery.go, with the workers of internal/publication  *)
(* and internal/localruntime that drive it through internal/github.        *)
(*                                                                         *)
(* An effect row goes planned -> executing -> confirmed / uncertain /      *)
(* failed.  A worker claims the row, enters a process-wide gate, has its   *)
(* claim validated there, hands a command to a child process and persists  *)
(* what it learnt.  The ticket's fence (version, leader epoch, runner      *)
(* epoch) moves under it; the daemon crashes at any step; children outlive *)
(* it and may still change GitHub.                                         *)
(*                                                                         *)
(* The keys are the effects whose command goes to gh through the gate.  A  *)
(* push does not: it runs git under a mutation lease of its own.           *)
(***************************************************************************)
EXTENDS Naturals

CONSTANTS Creates,      \* keys of draft PRs and PR updates
          Readies,      \* keys of "mark ready for review"
          Merges,       \* keys of guarded merges
          MaxVersion,   \* bound: ticket versions
          MaxLeader,    \* bound: daemon starts
          MaxClaim,     \* bound: claim epochs of one effect
          MaxBoot       \* bound: boots of the host

Keys == Creates \cup Readies \cup Merges
Once == Creates \cup Merges      \* keys whose command is never reissued

ASSUME EffectsAssumption ==
    /\ Creates \cap Readies = {} /\ Creates \cap Merges = {}
    /\ Readies \cap Merges = {}
    /\ MaxVersion \in Nat /\ MaxLeader \in Nat /\ MaxClaim \in Nat
    /\ MaxBoot \in Nat

Fences == [v : Nat, l : Nat, r : Nat]
Tags == [v : Nat, l : Nat, r : Nat, c : Nat]
FenceOf(t) == [v |-> t.v, l |-> t.l, r |-> t.r]
Tag(f, c) == [v |-> f.v, l |-> f.l, r |-> f.r, c |-> c]
NoTag == [v |-> 0, l |-> 0, r |-> 0, c |-> 0]

States == {"none", "planned", "executing", "confirmed", "uncertain", "failed"}

\* Where a worker that holds a claim is.  "claimed" and "intended" are before
\* the gate, "gate" is validated inside it, "running" has handed the command
\* to a child, "applied" means GitHub has applied it; the last three are what
\* the adapter returned to the worker.
InGate == {"gate", "running", "applied"}
Stages == {"claimed", "intended"} \cup InGate \cup {"ok", "before", "lost"}

VARIABLES
    mode,       \* of the daemon process: "down" .. "serving"
    fence,      \* durable: ticket version, leader epoch, runner epoch
    phase,      \* durable: ticket state, as far as effects depend on it
    control,    \* durable: runtime_ticket_controls row ("armed" is "sealed")
    eff,        \* durable: effects rows
    intent,     \* durable: merge_intents rows, NoTag when absent
    quar,       \* durable: external_mutation_quarantine row
    ckpt,       \* durable: boot of the cleanup checkpoint, 0 when absent
    revoked,    \* memory: last fence the mutation gate drained
    gate,       \* memory: the mutation gate
    latched,    \* memory: the GitHub client refuses every command
    held,       \* memory: claims workers hold
    seen,       \* memory: observations not yet written back
    boot,       \* boot of the host
    child,      \* children whose command may still be applied, unsupervised
    abandoned,  \* children that were ever left unsupervised
    sent,       \* commands handed to a child
    landed      \* times GitHub applied the effect

memory == <<revoked, gate, latched, held, seen>>
ledger == <<eff, intent>>
cleanup == <<quar, ckpt, boot>>
world == <<child, abandoned, sent, landed>>
vars == <<mode, fence, phase, control, ledger, cleanup, memory, world>>

TypeOK ==
    /\ mode \in {"down", "elected", "reconciled", "serving"}
    /\ fence \in Fences
    /\ phase \in {"active", "stopping", "paused", "cancelling", "cancelled"}
    /\ control \in {"none", "sealed", "open"}
    /\ eff \in [Keys -> [st : States, tag : Tags]]
    /\ intent \in [Keys -> Tags]
    /\ quar \in BOOLEAN
    /\ ckpt \in Nat
    /\ boot \in Nat
    /\ revoked \in Fences
    /\ gate \in {"free", "busy", "stuck"}
    /\ latched \in BOOLEAN
    /\ held \in SUBSET [key : Keys, tag : Tags, at : Stages]
    /\ seen \in SUBSET [key : Keys, prior : Tags, cur : Fences,
                        present : BOOLEAN]
    /\ child \in [Keys -> Nat]
    /\ abandoned \in [Keys -> Nat]
    /\ sent \in [Keys -> Nat]
    /\ landed \in [Keys -> Nat]

\* An admitted ticket under a serving daemon, no effect planned yet.
Init ==
    /\ mode = "serving"
    /\ fence = [v |-> 1, l |-> 1, r |-> 1]
    /\ phase = "active"
    /\ control = "none"
    /\ eff = [k \in Keys |-> [st |-> "none", tag |-> NoTag]]
    /\ intent = [k \in Keys |-> NoTag]
    /\ quar = FALSE /\ ckpt = 0 /\ boot = 1
    /\ revoked = FenceOf(NoTag)
    /\ gate = "free"
    /\ latched = FALSE
    /\ held = {} /\ seen = {}
    /\ child = [k \in Keys |-> 0]
    /\ abandoned = [k \in Keys |-> 0]
    /\ sent = [k \in Keys |-> 0]
    /\ landed = [k \in Keys |-> 0]

-----------------------------------------------------------------------------
(* Fences *)

\* revokedBy: componentwise comparison with the last drained fence.
RevokedBy(f) == f.v <= revoked.v /\ f.l <= revoked.l /\ f.r <= revoked.r

\* assertTicketFence: admits a new external writer.
TicketFence(f) ==
    /\ ~RevokedBy(f)
    /\ control # "sealed"
    /\ phase # "cancelled"
    /\ f = fence

\* assertCurrentTicketFence: admits an observation of an old writer.
CurrentTicketFence(f) == f = fence

\* ValidateExternalEffectClaim: the row is still this claim's execution.
ValidClaim(h) ==
    /\ TicketFence(FenceOf(h.tag))
    /\ eff[h.key] = [st |-> "executing", tag |-> h.tag]

\* The scheduler runs one activity per ticket identity, and only when the
\* runtime control admits the ticket.
WorkerIdle ==
    /\ mode = "serving"
    /\ phase = "active"
    /\ control # "sealed"
    /\ \A h \in held : FenceOf(h.tag) # fence
    /\ \A o \in seen : o.cur # fence

Unsettled == {k \in Keys : eff[k].st \in {"executing", "uncertain"}}
\* TicketControlProof.Drained also counts planned publication effects.
Outstanding == {k \in Keys : eff[k].st \in {"planned", "executing", "uncertain"}}

-----------------------------------------------------------------------------
(* The worker before the external boundary *)

\* PlanEffect: inserts the row, or rebinds a planned or failed one.
PlanEffect(k) ==
    /\ WorkerIdle
    /\ TicketFence(fence)
    /\ \/ eff[k].st = "none"
       \/ eff[k].st \in {"planned", "failed"} /\ FenceOf(eff[k].tag) # fence
    /\ eff' = [eff EXCEPT ![k] =
                 [st |-> IF eff[k].st = "none" THEN "planned" ELSE eff[k].st,
                  tag |-> Tag(fence, eff[k].tag.c)]]
    /\ UNCHANGED <<mode, fence, phase, control, intent, cleanup, memory, world>>

\* Fault: an uncertain row may be claimed again.
ClaimEffectMutant(k) ==
    /\ WorkerIdle
    /\ TicketFence(fence)
    /\ eff[k].st \in {"planned", "failed", "uncertain"}
    /\ eff[k].tag.c < MaxClaim
    /\ LET t == Tag(fence, eff[k].tag.c + 1)
       IN /\ eff' = [eff EXCEPT ![k] = [st |-> "executing", tag |-> t]]
          /\ held' = held \cup {[key |-> k, tag |-> t, at |-> "claimed"]}
    /\ UNCHANGED <<mode, fence, phase, control, intent, cleanup, revoked, gate,
                   latched, seen, world>>

\* ClaimEffect: the only way into "executing", with a fresh claim epoch.
ClaimEffect(k) ==
    /\ WorkerIdle
    /\ TicketFence(fence)
    /\ eff[k].st \in {"planned", "failed"}
    /\ eff[k].tag.v = fence.v
    /\ eff[k].tag.c < MaxClaim
    /\ LET t == Tag(fence, eff[k].tag.c + 1)
       IN /\ eff' = [eff EXCEPT ![k] = [st |-> "executing", tag |-> t]]
          /\ held' = held \cup {[key |-> k, tag |-> t, at |-> "claimed"]}
    /\ UNCHANGED <<mode, fence, phase, control, intent, cleanup, revoked, gate,
                   latched, seen, world>>

\* The worker that holds h moves on to stage s.
Advance(h, s) == held' = (held \ {h}) \cup {[h EXCEPT !.at = s]}

\* Fault: MergeExactHead goes to the gate without persisting its intent.
RecordMergeIntentMutant(h) ==
    /\ h.key \in Merges /\ h.at = "claimed"
    /\ Advance(h, "intended")
    /\ UNCHANGED <<mode, fence, phase, control, eff, intent, cleanup, revoked,
                   gate, latched, seen, world>>

\* RecordMergeIntent: before the gate, bound to the executing claim; a second
\* intent for the key is refused unless it is the same.
RecordMergeIntent(h) ==
    /\ h.key \in Merges /\ h.at = "claimed"
    /\ \/ /\ ValidClaim(h) /\ intent[h.key] \in {NoTag, h.tag}
          /\ intent' = [intent EXCEPT ![h.key] = h.tag]
          /\ Advance(h, "intended")
       \/ /\ Advance(h, "lost")
          /\ UNCHANGED intent
    /\ UNCHANGED <<mode, fence, phase, control, eff, cleanup, revoked, gate,
                   latched, seen, world>>

-----------------------------------------------------------------------------
(* RunExternalMutation *)

AtGate(h) == h.at = IF h.key \in Merges THEN "intended" ELSE "claimed"

\* runWithHandoff starts no gh process, not even to observe, once the client
\* is latched or the quarantine is persisted.
GhAdmits == ~latched /\ ~quar

\* What an error before the handoff becomes: the create adapters report
\* ErrCreateBeforeStart once gh has shown that nothing is there, the ready and
\* merge adapters an undifferentiated error.
NotStarted(h) ==
    {"lost"} \cup IF h.key \in Creates /\ GhAdmits THEN {"before"} ELSE {}

\* Fault: the claim is not validated again once the gate is held.
EnterGateMutant(h) ==
    /\ AtGate(h)
    /\ gate = "free" /\ ~quar
    /\ gate' = "busy"
    /\ Advance(h, "gate")
    /\ UNCHANGED <<mode, fence, phase, control, ledger, cleanup, revoked,
                   latched, seen, world>>

\* The gate looks at the persisted quarantine only; a latched client refuses
\* the commands inside it.
EnterGate(h) ==
    /\ AtGate(h)
    /\ gate = "free" /\ ~quar
    /\ ~RevokedBy(FenceOf(h.tag))
    /\ ValidClaim(h)
    /\ gate' = "busy"
    /\ Advance(h, "gate")
    /\ UNCHANGED <<mode, fence, phase, control, ledger, cleanup, revoked,
                   latched, seen, world>>

\* Stale claim, cancelled context, or quarantine: nothing is started.
RefuseGate(h) ==
    /\ AtGate(h)
    /\ \E s \in NotStarted(h) : Advance(h, s)
    /\ UNCHANGED <<mode, fence, phase, control, ledger, cleanup, revoked, gate,
                   latched, seen, world>>

\* The inner observation refuses, or the runner is busy: the gate is released.
\* A create that meets a latched client passes its error on as it is, and the
\* gate takes it for an uncertain cleanup and stays shut.
RefuseLaunch(h) ==
    /\ h.at = "gate"
    /\ gate' = IF h.key \in Creates /\ ~GhAdmits THEN "stuck" ELSE "free"
    /\ \E s \in NotStarted(h) : Advance(h, s)
    /\ UNCHANGED <<mode, fence, phase, control, ledger, cleanup, revoked,
                   latched, seen, world>>

\* The inner observation matches and the command is handed to a child.  A
\* create or a merge is refused when GitHub already shows it.
Launch(h) ==
    /\ h.at = "gate"
    /\ GhAdmits
    /\ h.key \in Once => landed[h.key] = 0
    /\ Advance(h, "running")
    /\ sent' = [sent EXCEPT ![h.key] = @ + 1]
    /\ UNCHANGED <<mode, fence, phase, control, ledger, cleanup, revoked, gate,
                   latched, seen, child, abandoned, landed>>

Apply(h) ==
    /\ h.at = "running"
    /\ Advance(h, "applied")
    /\ landed' = [landed EXCEPT ![h.key] = @ + 1]
    /\ UNCHANGED <<mode, fence, phase, control, ledger, cleanup, revoked, gate,
                   latched, seen, child, abandoned, sent>>

\* The child is proven gone.  The adapter reports success only after it has
\* observed the effect; every other outcome is unknown.
Return(h) ==
    /\ h.at \in {"running", "applied"}
    /\ gate' = "free"
    /\ \E s \in {"ok", "lost"} : (s = "ok" => h.at = "applied") /\ Advance(h, s)
    /\ UNCHANGED <<mode, fence, phase, control, ledger, cleanup, revoked,
                   latched, seen, world>>

\* The error of a failed inner observation that shuts the gate: the merge
\* adapter turns every one into a refusal, the ready adapter the one of a
\* quarantine that could not be persisted.
ShutsGate(h, persisted) ==
    \/ h.at # "gate"
    \/ h.key \in Creates
    \/ h.key \in Readies /\ persisted

\* A child, of the command or of the inner observation, cannot be proven gone:
\* the client latches, the quarantine is persisted unless that write fails,
\* and the gate is never released unless the adapter hides the error.
CleanupUncertain(h) ==
    /\ h.at \in InGate
    /\ h.at = "gate" => GhAdmits
    /\ latched' = TRUE
    /\ quar' \in {TRUE, quar}
    /\ gate' = IF ShutsGate(h, quar') THEN "stuck" ELSE "free"
    /\ Advance(h, "lost")
    /\ abandoned' = [abandoned EXCEPT ![h.key] = IF h.at = "gate" THEN @ ELSE @ + 1]
    /\ child' = [child EXCEPT ![h.key] = IF h.at = "running" THEN @ + 1 ELSE @]
    /\ UNCHANGED <<mode, fence, phase, control, ledger, ckpt, boot, revoked,
                   seen, sent, landed>>

\* The same for a gh read outside the gate, of this ticket's workers or of
\* another's: the client is shared, and serializes its commands.
ReadUncertain ==
    /\ mode = "serving"
    /\ GhAdmits
    /\ \A h \in held : h.at \notin {"running", "applied"}
    /\ latched' = TRUE
    /\ quar' \in {TRUE, quar}
    /\ UNCHANGED <<mode, fence, phase, control, ledger, ckpt, boot, revoked,
                   gate, held, seen, world>>

-----------------------------------------------------------------------------
(* The worker after the external boundary *)

Outcome(h) == IF h.at = "ok" THEN "confirmed"
              ELSE IF h.at = "before" THEN "failed" ELSE "uncertain"

\* ConfirmEffect, FailEffect and MarkEffectUncertain; a refused or failed
\* write leaves the row as it is.
FinishEffect(h) ==
    /\ h.at \in {"ok", "before", "lost"}
    /\ held' = held \ {h}
    /\ \/ /\ TicketFence(FenceOf(h.tag))
          /\ eff[h.key].tag = h.tag
          /\ eff[h.key].st \in {"executing", "uncertain"}
          /\ eff' = [eff EXCEPT ![h.key].st = Outcome(h)]
       \/ UNCHANGED eff
    /\ UNCHANGED <<mode, fence, phase, control, intent, cleanup, revoked, gate,
                   latched, seen, world>>

-----------------------------------------------------------------------------
(* Reconciliation by the worker of the current fence *)

\* equalRecoveryAdvance: startup fences move version and runner together.
EqualRecoveryAdvance(t, f) == f.v > t.v /\ f.r > t.r /\ f.v - t.v = f.r - t.r

\* recoverySnapshot: an uncertain merge whose intent is the launch of the row.
MergeRecoverable(k, t, f) ==
    /\ intent[k] # NoTag
    /\ t.v = intent[k].v /\ t.r = intent[k].r
    /\ t.l = f.l /\ t.c > intent[k].c
    /\ EqualRecoveryAdvance(t, f)

\* What each worker accepts as conclusive for an unsettled row.  Publication:
\* presence only.  Ready: either.  Merge: presence through its intent, absence
\* only when no intent was ever recorded.
Conclusive(k, present) ==
    \/ k \in Creates /\ present
    \/ k \in Readies
    \/ k \in Merges /\ (present <=> intent[k] # NoTag)

\* Fault: the re-entered worker looks only at rows that are already uncertain.
ObserveMutant(k) ==
    /\ WorkerIdle
    /\ GhAdmits
    /\ \E present \in BOOLEAN :
         /\ present => landed[k] > 0
         /\ eff[k].st = "uncertain"
         /\ Conclusive(k, present)
         /\ seen' = seen \cup {[key |-> k, prior |-> eff[k].tag, cur |-> fence,
                                present |-> present]}
    /\ UNCHANGED <<mode, fence, phase, control, ledger, cleanup, revoked, gate,
                   latched, held, world>>

\* ensureDraft / ensureDraftCorrection / reconcileReady / reconcileMerge: read
\* the row, then GitHub.  Row and answer may be stale when they are used.  A
\* confirmed mark-ready is promoted without asking GitHub.
Observe(k) ==
    /\ WorkerIdle
    /\ GhAdmits \/ (k \in Readies /\ eff[k].st = "confirmed")
    /\ \E present \in BOOLEAN :
         /\ present => landed[k] > 0
         /\ ~present => landed[k] = 0 \/ k \in Merges
         /\ \/ /\ eff[k].st = "uncertain"
               /\ Conclusive(k, present)
               /\ k \in Merges /\ present => MergeRecoverable(k, eff[k].tag, fence)
            \/ /\ eff[k].st = "executing"
               /\ k \notin Merges
               /\ Conclusive(k, present)
            \/ /\ eff[k].st = "confirmed"
               /\ FenceOf(eff[k].tag) # fence
               /\ present
         /\ seen' = seen \cup {[key |-> k, prior |-> eff[k].tag, cur |-> fence,
                                present |-> present]}
    /\ UNCHANGED <<mode, fence, phase, control, ledger, cleanup, revoked, gate,
                   latched, held, world>>

\* ObserveEffect: same fence, publication workers only.
ObserveEffect(o) ==
    /\ o.key \in Creates /\ FenceOf(o.prior) = o.cur
    /\ TicketFence(o.cur)
    /\ eff[o.key].tag = o.prior
    /\ eff[o.key].st \in {"executing", "uncertain"}
    /\ eff' = [eff EXCEPT ![o.key].st = "confirmed"]

\* ReconcileInvalidatedEffect: the claim was revoked, by the fence or by
\* having become uncertain; presence takes a fresh claim epoch under the
\* current fence, absence keeps the old one.
ReconcileInvalidatedEffect(o) ==
    /\ o.key \in Creates => FenceOf(o.prior) # o.cur
    /\ CurrentTicketFence(o.cur)
    /\ eff[o.key].tag = o.prior
    /\ FenceOf(o.prior) = o.cur => eff[o.key].st = "uncertain"
    /\ \/ eff[o.key].st \in {"executing", "uncertain"}
       \/ eff[o.key].st = "confirmed" /\ o.present
    /\ eff' = [eff EXCEPT ![o.key] =
                 IF o.present
                 THEN [st |-> "confirmed", tag |-> Tag(o.cur, o.prior.c + 1)]
                 ELSE [st |-> "failed", tag |-> o.prior]]

\* confirmRecoveredMerge: the uncertain merge is confirmed in place.
ConfirmRecoveredMerge(o) ==
    /\ o.key \in Merges /\ o.present
    /\ phase = "active"
    /\ CurrentTicketFence(o.cur)
    /\ eff[o.key] = [st |-> "uncertain", tag |-> o.prior]
    /\ MergeRecoverable(o.key, o.prior, o.cur)
    /\ eff' = [eff EXCEPT ![o.key] = [st |-> "confirmed",
                                      tag |-> Tag(o.cur, o.prior.c)]]

\* An uncertain merge with an intent goes through RecoverMergeIntent only.
WriteObservation(o) ==
    /\ seen' = seen \ {o}
    /\ \/ ObserveEffect(o)
       \/ /\ ~(o.key \in Merges /\ o.present /\ eff[o.key].st = "uncertain")
          /\ ReconcileInvalidatedEffect(o)
       \/ ConfirmRecoveredMerge(o)
       \/ UNCHANGED eff
    /\ UNCHANGED <<mode, fence, phase, control, intent, cleanup, revoked, gate,
                   latched, held, world>>

-----------------------------------------------------------------------------
(* Lifecycle transitions and operator control *)

\* DrainExternalMutations: waits for the gate, fences the current identity.
Drain ==
    /\ mode = "serving"
    /\ gate = "free"
    /\ revoked # fence
    /\ revoked' = fence
    /\ UNCHANGED <<mode, fence, phase, control, ledger, cleanup, gate, latched,
                   held, seen, world>>

NextVersion == fence.v < MaxVersion

\* Runner invalidation: version and runner epoch move together.
NextRunner(f) == [v |-> f.v + 1, l |-> f.l, r |-> f.r + 1]

\* Store.Transition, after its drain, in a transaction of its own.  A drain of
\* this version is still the last one: versions only grow.
Transition ==
    /\ mode = "serving" /\ phase = "active"
    /\ revoked = fence
    /\ NextVersion
    /\ fence' = [fence EXCEPT !.v = @ + 1]
    /\ UNCHANGED <<mode, phase, control, ledger, cleanup, memory, world>>

\* TransitionAndInvalidateRunner: pause, take or cancel, under the gate.
TransitionAndInvalidateRunner ==
    /\ mode = "serving"
    /\ gate = "free"
    /\ NextVersion
    /\ \/ phase = "active" /\ phase' = "stopping"
       \/ phase \in {"active", "paused", "stopping"} /\ phase' = "cancelling"
    /\ fence' = NextRunner(fence)
    /\ control' = "sealed"
    /\ UNCHANGED <<mode, ledger, cleanup, memory, world>>

\* Fault: the drain proof is not repeated by CompleteControlTransition.
CompleteControlTransitionMutant ==
    /\ mode = "serving"
    /\ gate = "free"
    /\ held = {} /\ seen = {}
    /\ NextVersion
    /\ fence' = [fence EXCEPT !.v = @ + 1]
    /\ \/ phase = "stopping" /\ phase' = "paused" /\ UNCHANGED <<control, revoked>>
       \/ /\ phase = "cancelling" /\ phase' = "cancelled"
          /\ control' = "none" /\ revoked' = FenceOf(NoTag)
    /\ UNCHANGED <<mode, ledger, cleanup, gate, latched, held, seen, world>>

\* finishControl: Controller.Drain seals the ticket, joins its activities and
\* proves it drained; then the control completes, and cancellation retires
\* the control row and the revocation.
CompleteControlTransition ==
    /\ mode = "serving"
    /\ gate = "free"
    /\ held = {} /\ seen = {}
    /\ Outstanding = {}
    /\ NextVersion
    /\ fence' = [fence EXCEPT !.v = @ + 1]
    /\ \/ phase = "stopping" /\ phase' = "paused" /\ UNCHANGED <<control, revoked>>
       \/ /\ phase = "cancelling" /\ phase' = "cancelled"
          /\ control' = "none" /\ revoked' = FenceOf(NoTag)
    /\ UNCHANGED <<mode, ledger, cleanup, gate, latched, held, seen, world>>

\* operator_resume: an ordinary transition; the runtime control stays sealed.
Resume ==
    /\ mode = "serving" /\ phase = "paused"
    /\ gate = "free"
    /\ NextVersion
    /\ revoked' = fence
    /\ fence' = [fence EXCEPT !.v = @ + 1]
    /\ phase' = "active"
    /\ UNCHANGED <<mode, control, ledger, cleanup, gate, latched, held, seen,
                   world>>

\* Controller.Rearm up to the scheduler's Begin: reopens admission when
\* nothing is outstanding.
Rearm ==
    /\ mode = "serving" /\ phase = "active"
    /\ control = "sealed"
    /\ gate = "free"
    /\ Outstanding = {}
    /\ control' = "open"
    /\ UNCHANGED <<mode, fence, phase, ledger, cleanup, memory, world>>

-----------------------------------------------------------------------------
(* Crash, restart, reboot *)

Running(k) == {h \in held : h.key = k /\ h.at = "running"}
Launched(k) == {h \in held : h.key = k /\ h.at \in {"running", "applied"}}

\* The process dies: memory is gone, a running child (the gate admits one) is
\* left behind.  Bounded with the starts: every crash leaves a start to come.
Crash ==
    /\ mode # "down"
    /\ fence.l < MaxLeader
    /\ mode' = "down"
    /\ revoked' = FenceOf(NoTag)
    /\ gate' = "free"
    /\ latched' = FALSE
    /\ held' = {} /\ seen' = {}
    /\ child' = [k \in Keys |-> child[k] + (IF Running(k) = {} THEN 0 ELSE 1)]
    /\ abandoned' = [k \in Keys |-> abandoned[k] + (IF Launched(k) = {} THEN 0 ELSE 1)]
    /\ UNCHANGED <<fence, phase, control, ledger, cleanup, sent, landed>>

\* store.Open reseals every control it finds open; AcquireLeader drains the
\* channel under the old epoch and takes the next one.
Start ==
    /\ mode = "down"
    /\ mode' = "elected"
    /\ control' = IF control = "open" THEN "sealed" ELSE control
    /\ revoked' = fence
    /\ fence' = [fence EXCEPT !.l = @ + 1]
    /\ UNCHANGED <<phase, ledger, cleanup, gate, latched, held, seen, world>>

\* A stranded claim moves to the new leader with a fresh claim epoch.
Stranded(t) == [v |-> t.v, l |-> fence.l, r |-> t.r, c |-> t.c + 1]

\* ReconcileEffects: stranded rows become uncertain under the new leader.
ReconcileEffects ==
    /\ mode = "elected"
    /\ mode' = "reconciled"
    /\ eff' = [k \in Keys |->
                 IF k \in Unsettled /\ eff[k].tag.l # fence.l
                 THEN [st |-> "uncertain",
                       tag |-> Stranded(eff[k].tag)]
                 ELSE eff[k]]
    /\ UNCHANGED <<fence, phase, control, intent, cleanup, memory, world>>

\* FenceRecoveredRunners: a live ticket gets a new version and runner epoch.
FenceRecoveredRunners ==
    /\ mode = "reconciled"
    /\ mode' = "serving"
    /\ fence' = IF phase \in {"active", "stopping", "cancelling"}
                THEN NextRunner(fence) ELSE fence
    /\ UNCHANGED <<phase, control, ledger, cleanup, memory, world>>

\* A child that nobody supervises still applies its command, or exits.
OrphanApplies(k) ==
    /\ child[k] > 0
    /\ child' = [child EXCEPT ![k] = @ - 1]
    /\ landed' = [landed EXCEPT ![k] = @ + 1]
    /\ UNCHANGED <<mode, fence, phase, control, ledger, cleanup, memory,
                   abandoned, sent>>

OrphanExits(k) ==
    /\ child[k] > 0
    /\ child' = [child EXCEPT ![k] = @ - 1]
    /\ UNCHANGED <<mode, fence, phase, control, ledger, cleanup, memory,
                   abandoned, sent, landed>>

\* The host reboots while the daemon is down: no child survives.
Reboot ==
    /\ mode = "down"
    /\ boot < MaxBoot
    /\ boot' = boot + 1
    /\ child' = [k \in Keys |-> 0]
    /\ UNCHANGED <<mode, fence, phase, control, ledger, quar, ckpt, memory,
                   abandoned, sent, landed>>

\* PrepareExternalCleanupRecovery: the checkpoint of a quarantine is immutable.
PrepareExternalCleanupRecovery ==
    /\ mode = "serving"
    /\ quar /\ ckpt = 0
    /\ ckpt' = boot
    /\ UNCHANGED <<mode, fence, phase, control, ledger, quar, boot, memory, world>>

\* Fault: the recovery does not compare the boot with the checkpoint's.
RecoverExternalCleanupMutant ==
    /\ mode = "serving"
    /\ quar /\ ckpt # 0
    /\ gate = "free"
    /\ quar' = FALSE
    /\ ckpt' = 0
    /\ UNCHANGED <<mode, fence, phase, control, ledger, boot, memory, world>>

\* RecoverExternalCleanup: only after a reboot, and with the gate in hand.
RecoverExternalCleanup ==
    /\ mode = "serving"
    /\ quar /\ ckpt # 0
    /\ ckpt # boot
    /\ gate = "free"
    /\ quar' = FALSE
    /\ ckpt' = 0
    /\ UNCHANGED <<mode, fence, phase, control, ledger, boot, memory, world>>

-----------------------------------------------------------------------------
Worker(h) ==
    \/ RecordMergeIntent(h) \/ EnterGate(h) \/ RefuseGate(h) \/ RefuseLaunch(h)
    \/ Launch(h) \/ Apply(h) \/ Return(h) \/ CleanupUncertain(h)
    \/ FinishEffect(h)

Control ==
    \/ Drain \/ Transition \/ TransitionAndInvalidateRunner
    \/ CompleteControlTransition
    \/ Resume \/ Rearm

Recovery ==
    \/ ReadUncertain \/ Crash \/ Start \/ ReconcileEffects \/ FenceRecoveredRunners \/ Reboot
    \/ PrepareExternalCleanupRecovery \/ RecoverExternalCleanup

Next ==
    \/ \E k \in Keys : \/ PlanEffect(k) \/ ClaimEffect(k) \/ Observe(k)
                       \/ OrphanApplies(k) \/ OrphanExits(k)
    \/ \E h \in held : Worker(h)
    \/ \E o \in seen : WriteObservation(o)
    \/ Control
    \/ Recovery

Spec == Init /\ [][Next]_vars

\* A running worker finishes (contexts and gh deadlines are bounded), the
\* scheduler keeps calling an admitted ticket's worker, a retried write is
\* eventually accepted, a stopped daemon is started again and recovers.
Fairness ==
    /\ WF_vars(\E h \in held : Worker(h))
    /\ WF_vars(\E o \in seen : WriteObservation(o))
    /\ SF_vars(\E o \in seen : WriteObservation(o) /\ eff' # eff)
    /\ \A k \in Keys : WF_vars(Observe(k)) /\ WF_vars(PlanEffect(k))
                       /\ WF_vars(ClaimEffect(k))
    /\ WF_vars(CompleteControlTransition)
    /\ WF_vars(Rearm)
    /\ WF_vars(Start) /\ WF_vars(ReconcileEffects)
    /\ WF_vars(FenceRecoveredRunners)

FairSpec == Spec /\ Fairness

-----------------------------------------------------------------------------
(* Properties *)

\* The command of a draft pull request, its update or a merge is handed to a
\* child at most once, through every crash, restart, pause and reconciliation
\* (ensureDraftCorrection: "a stale title/body is not a semantic absence").
AtMostOneHandoff == \A k \in Once : sent[k] <= 1

\* "Mark ready" may be reissued, but GitHub applies it twice only if an earlier
\* child was left unsupervised by a crash or a failed cleanup.
ReadyAppliedOnce == \A k \in Readies : landed[k] <= 1 + abandoned[k]

\* Whatever is inside the mutation gate is the executing row's own claim under
\* the ticket's current fence, with admission open: no transition, pause,
\* drain or other worker can move the fence under a command
\* (RunExternalMutation: "Invalidation waits for start").
GateIsCurrent ==
    \A h \in held : h.at \in InGate =>
        /\ gate = "busy"
        /\ eff[h.key] = [st |-> "executing", tag |-> h.tag]
        /\ FenceOf(h.tag) = fence
        /\ phase = "active" /\ control # "sealed"
        /\ \A g \in held : g.at \in InGate => g = h

\* A paused or cancelled ticket has no external writer: nothing outstanding in
\* the ledger, nothing in the gate, and no live child of a draft or a merge (a
\* mark-ready is settled by what GitHub shows while its child may still run).
StoppedIsQuiet ==
    phase \in {"paused", "cancelled"} =>
        /\ Outstanding = {}
        /\ \A h \in held : h.at \notin InGate
        /\ \A k \in Once : child[k] = 0

LedgerStep ==
    \A k \in Keys :
        /\ eff[k].st = "confirmed" => eff'[k].st = "confirmed"
        /\ eff'[k].tag.c >= eff[k].tag.c
        /\ eff'[k].st = "executing" /\ eff[k] # eff'[k] =>
               eff'[k].tag.c = eff[k].tag.c + 1

\* The ledger never forgets: a confirmed row stays confirmed, claim epochs
\* never go back, and an execution starts only with a fresh claim epoch.
LedgerMonotone == [][LedgerStep]_vars

\* "A same-fence unknown response remains uncertain and never becomes a retry
\* authorization" (localruntime/worker.go, above reconcileReady): a mark-ready
\* whose command was sent and whose outcome is unknown under the current fence
\* is not made claimable.
UnknownIsNoRetry ==
    [][\A k \in Readies :
           eff[k].st = "uncertain" /\ FenceOf(eff[k].tag) = fence /\ sent[k] > 0
               => eff'[k].st # "failed"]_vars

\* A quarantine is lifted only when no child of any key can still be alive.
QuarantineOutlivesChildren ==
    [][quar /\ ~quar' => \A k \in Keys : child[k] = 0]_vars

\* Something other than the worker decides: the daemon is down or recovering,
\* the ticket is under control, a drain has revoked the current fence, or the
\* gh client is shut.
Interrupted ==
    \/ mode # "serving" \/ phase # "active" \/ control = "sealed"
    \/ revoked = fence
    \/ ~GhAdmits

\* A draft or an update that GitHub has applied does not stay unsettled while
\* the ticket's worker runs: the re-entered worker observes it and confirms the
\* row, whoever executed it (ensureDraft, ensureDraftCorrection).
AppliedIsConfirmed ==
    \A k \in Creates :
        (eff[k].st \in {"executing", "uncertain"} /\ landed[k] > 0)
            ~> (eff[k].st = "confirmed" \/ Interrupted)
=============================================================================
