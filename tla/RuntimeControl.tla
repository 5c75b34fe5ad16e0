--------------------------- MODULE RuntimeControl ---------------------------
(***************************************************************************)
(* How one ticket's workflow is stopped and started again: the durable     *)
(* runtime_ticket_controls row and its in-memory latch                     *)
(* (internal/store/runtime_control.go, mutation_guard.go, control.go), the *)
(* scheduler's admission table (internal/workflowruntime/admission.go),    *)
(* the controller that drives both (internal/daemon/runtimecontrol) and    *)
(* the operator requests of internal/daemon/daemon.go.                     *)
(*                                                                         *)
(* Three parties interleave: scheduler loops that admit an activity for    *)
(* the ticket, one operator request at a time (daemon.runtimeMu), and      *)
(* crashes.  Every Store operation takes the mutation gate and one SQLite  *)
(* transaction, so it is one step; the admission table's mutex is dropped  *)
(* between the steps of Begin and of Stop.                                 *)
(***************************************************************************)
EXTENDS Naturals

CONSTANTS MaxVersion,    \* bound: no request starts above this version
          MaxLeader,     \* bound: daemon starts
          GateTimeouts   \* other tickets may hold the gate for over a second

ASSUME ControlAssumption ==
    MaxVersion \in Nat /\ MaxLeader \in Nat /\ GateTimeouts \in BOOLEAN

Fences == [v : Nat, l : Nat, r : Nat]
Fence(v, l, r) == [v |-> v, l |-> l, r |-> r]
None == Fence(0, 0, 0)

RowStates == {"none", "sealed", "armed", "open"}
Row(st, stop, auth) == [st |-> st, stop |-> stop, auth |-> auth]

\* Where a registered activity is.  The three after "opened" are what a Begin
\* that lost its commit learnt from suspendStore.
ActStages == {"none", "opening", "opened", "retry", "final", "faulty",
              "admitted", "running"}
Act(at, id, by, sealer, cancelled) ==
    [at |-> at, id |-> id, by |-> by, sealer |-> sealer, cancelled |-> cancelled]
NoAct == Act("none", None, "loop", FALSE, FALSE)

Kinds == {"none", "pause", "cancel", "recover", "resume", "decide"}
Steps == {"idle", "seal", "stop", "sealact", "cancel", "join", "proof",
          "complete", "terminal", "retire", "retirestore", "load", "rearm",
          "activate", "install", "reserve", "begin", "deciding"}
Op(kind, at, cap, stop) == [kind |-> kind, at |-> at, cap |-> cap, stop |-> stop]
Idle == Op("none", "idle", None, None)

VARIABLES
    up,         \* the daemon is serving
    fence,      \* durable: ticket version, leader epoch, runner epoch
    phase,      \* durable: ticket state; "active" stands for every phase, "held"
                \* for a paused ticket that no drain has stopped
    row,        \* durable: runtime_ticket_controls row
    writer,     \* durable: fence of the outstanding provider attempt, or None
    latch,      \* memory: controls entry of the mutation gate, None if absent
    stopped,    \* memory: admission.stopped entry
    allowed,    \* memory: admission.allowed identity, None if absent
    opened,     \* memory: the installed capability has opened Store
    act,        \* memory: admission.active entry and its goroutine
    reserved,   \* memory: admission.decisions entry
    fault,      \* memory: admission.faults entry
    memo,       \* memory: ticketControl.stopped, None without hasStop
    snap,       \* memory: identity a loop has listed and not yet begun
    op          \* memory: the operator request in progress

durable == <<fence, phase, row, writer>>
admission == <<stopped, allowed, opened, act, reserved, fault>>
vars == <<up, durable, latch, admission, memo, snap, op>>

TypeOK ==
    /\ up \in BOOLEAN
    /\ fence \in Fences
    /\ phase \in {"active", "blocked", "held", "stopping", "paused", "cancelling",
                 "cancelled"}
    /\ row \in [st : RowStates, stop : Fences, auth : Fences]
    /\ writer \in Fences
    /\ latch \in Fences
    /\ stopped \in [on : BOOLEAN, id : Fences]
    /\ allowed \in Fences
    /\ opened \in BOOLEAN
    /\ act \in [at : ActStages, id : Fences, by : {"loop", "decision"},
                sealer : BOOLEAN, cancelled : BOOLEAN]
    /\ reserved \in BOOLEAN
    /\ fault \in BOOLEAN
    /\ memo \in Fences
    /\ snap \in Fences
    /\ op \in [kind : Kinds, at : Steps, cap : Fences, stop : Fences]

\* An admitted ticket that was never controlled, under a serving daemon.
Init ==
    /\ up = TRUE
    /\ fence = Fence(1, 1, 1)
    /\ phase = "active"
    /\ row = Row("none", None, None)
    /\ writer = None
    /\ latch = None
    /\ stopped = [on |-> FALSE, id |-> None]
    /\ allowed = None
    /\ opened = FALSE
    /\ act = NoAct
    /\ reserved = FALSE
    /\ fault = FALSE
    /\ memo = None
    /\ snap = None
    /\ op = Idle

-----------------------------------------------------------------------------
(* Store: what the rows and the latch admit *)

\* assertTicketFence: admits a new writer of identity f.
TicketFence(f) ==
    /\ latch = None
    /\ row.st \notin {"sealed", "armed"}
    /\ phase # "cancelled"
    /\ fence = f

\* RuntimeAdmissionReady: the scheduler's durable half of admission.
RuntimeAdmissionReady(f) ==
    /\ latch = None
    /\ phase = "active"
    /\ fence = f
    /\ \/ row.st = "none"
       \/ /\ row.st = "open"
          /\ row.auth.v <= f.v /\ row.auth.l = f.l /\ row.auth.r = f.r

\* advanceOpenRuntimeAuthority: what it accepts.
CanAdvance(f) ==
    \/ row.st = "none"
    \/ /\ row.st = "open"
       /\ row.auth.v # 0 /\ row.auth.v <= f.v
       /\ row.auth.l = f.l /\ row.auth.r = f.r

\* advanceOpenRuntimeAuthority: the row it leaves.
Advanced(f) ==
    IF row.st = "open" THEN Row("open", row.stop, Fence(f.v + 1, f.l, f.r)) ELSE row

\* sealRuntimeControl followed by the latch, inside one gate section.
Seal(f) ==
    /\ row' = Row("sealed", f, f)
    /\ latch' = f

\* sealRuntimeAdmission: the exact +1/+1 successor a pause has already sealed.
SealedSuccessor(f) ==
    /\ row.st = "sealed"
    /\ phase \in {"stopping", "cancelling"}
    /\ row.auth = Fence(f.v + 1, f.l, f.r + 1)
    /\ fence = row.auth

\* sealRuntimeAdmission: whether it accepts identity f.
CanSealAdmission(f) ==
    \/ row.st # "none" /\ row.auth = f
    \/ SealedSuccessor(f)

\* sealRuntimeAdmission: its effect; the stop tuple is kept.
SealAdmission(f) ==
    IF row.auth = f
    THEN row' = Row("sealed", row.stop, f) /\ latch' = f
    ELSE row' = row /\ latch' = row.auth

-----------------------------------------------------------------------------
(* Scheduler: Tick, Begin and the activity *)

\* Tick lists the tickets.  A loop that was refused lists again.
ListTickets ==
    /\ up /\ phase = "active"
    /\ snap # fence
    /\ snap' = fence
    /\ UNCHANGED <<up, durable, latch, admission, memo, op>>

\* begin, under the table's mutex: whether identity f may register, and where
\* its activity starts.
CanBegin(f) ==
    /\ act.at = "none"
    /\ stopped.on => allowed = f
EntryStage == IF stopped.on THEN "opening" ELSE "admitted"

\* Begin by a scheduler loop.
Begin ==
    /\ up /\ snap # None /\ ~reserved
    /\ CanBegin(snap)
    /\ act' = Act(EntryStage, snap, "loop", FALSE, FALSE)
    /\ snap' = None
    /\ UNCHANGED <<up, durable, latch, stopped, allowed, opened, reserved, fault,
                   memo, op>>

\* begin: the caller of a decision goes away (the request's 30 s limit).
CallerGone ==
    /\ act.by = "decision" /\ act.at \in {"opening", "opened"} /\ ~act.cancelled
    /\ act' = Act(act.at, act.id, act.by, act.sealer, TRUE)
    /\ UNCHANGED <<up, durable, latch, stopped, allowed, opened, reserved, fault,
                   memo, snap, op>>

\* The reservation of a decision is dropped when its BeginDecision returns.
Release == reserved' = (reserved /\ act.by # "decision")

\* The request of a decision ends when its activity does.
DecisionEnds == op' = IF act.by = "decision" THEN Idle ELSE op

\* openRuntimeAdmission with the conditions of OpenStoreAdmission.
CanOpen(f) ==
    /\ ~act.cancelled /\ ~opened
    /\ latch = f
    /\ phase = "active" /\ fence = f
    /\ row.st = "armed" /\ row.auth = f

\* begin calls openStore: the row and the latch open together.
Open ==
    /\ act.at = "opening"
    /\ CanOpen(act.id)
    /\ row' = Row("open", row.stop, row.auth)
    /\ latch' = None
    /\ opened' = TRUE
    /\ act' = Act("opened", act.id, act.by, FALSE, FALSE)
    /\ UNCHANGED <<up, fence, phase, writer, stopped, allowed, reserved, fault,
                   memo, snap, op>>

\* Fault: the rolled-back entry stays registered and its done channel open.
OpenFailsMutant ==
    /\ act.at = "opening"
    /\ ~CanOpen(act.id)
    /\ Release /\ DecisionEnds
    /\ UNCHANGED <<up, durable, latch, act, stopped, allowed, opened, fault, memo, snap>>

\* begin: openStore failed; the entry is rolled back, the permission is kept.
OpenFails ==
    /\ act.at = "opening"
    /\ ~CanOpen(act.id)
    /\ act' = NoAct
    /\ Release /\ DecisionEnds
    /\ UNCHANGED <<up, durable, latch, stopped, allowed, opened, fault, memo, snap>>

\* begin commits: the permission is consumed and the stop latch cleared.
Commit ==
    /\ act.at = "opened" /\ ~act.cancelled
    /\ allowed' = None
    /\ stopped' = [on |-> FALSE, id |-> None]
    /\ act' = Act("admitted", act.id, act.by, TRUE, FALSE)
    /\ Release
    /\ UNCHANGED <<up, durable, latch, opened, fault, memo, snap, op>>

\* suspendRuntimeAdmission of identity f: a matching seal wins, a mismatched
\* authority is an error.
SuspendOutcome(f) ==
    IF row.auth # f \/ row.st \notin {"open", "sealed"} THEN "faulty"
    ELSE IF row.st = "sealed" THEN "final" ELSE "retry"

\* begin lost its commit to a cancellation: the compensating close returns the
\* row to armed, unless it was moved or the second the gate is given passes.
Suspend ==
    /\ act.at = "opened" /\ act.cancelled
    /\ \E out \in {SuspendOutcome(act.id)} \cup (IF GateTimeouts THEN {"faulty"} ELSE {}) :
         /\ row' = IF out = "retry" THEN Row("armed", row.stop, row.auth) ELSE row
         /\ latch' = IF out = "faulty" THEN latch ELSE act.id
         /\ opened' = (opened /\ out = "faulty")
         /\ act' = Act(out, act.id, act.by, FALSE, TRUE)
    /\ UNCHANGED <<up, fence, phase, writer, stopped, allowed, reserved, fault,
                   memo, snap, op>>

\* Fault: the one-use permission is dropped although the row is armed again.
CommitLostMutant ==
    /\ act.at \in {"retry", "final", "faulty"}
    /\ stopped' = [on |-> TRUE, id |-> act.id]
    /\ allowed' = None
    /\ fault' = (fault \/ act.at = "faulty")
    /\ act' = NoAct
    /\ Release /\ DecisionEnds
    /\ UNCHANGED <<up, durable, latch, opened, memo, snap>>

\* begin records the outcome under the table's mutex and gives up.
CommitLost ==
    /\ act.at \in {"retry", "final", "faulty"}
    /\ stopped' = [on |-> TRUE, id |-> act.id]
    /\ allowed' = IF act.at = "retry" THEN allowed ELSE None
    /\ fault' = (fault \/ act.at = "faulty")
    /\ act' = NoAct
    /\ Release /\ DecisionEnds
    /\ UNCHANGED <<up, durable, latch, opened, memo, snap>>

\* Tick after Begin: the ticket is read again and Store must admit it.
Admit ==
    /\ act.at = "admitted" /\ ~act.cancelled
    /\ RuntimeAdmissionReady(act.id)
    /\ act' = Act("running", act.id, act.by, act.sealer, FALSE)
    /\ UNCHANGED <<up, durable, latch, stopped, allowed, opened, reserved, fault,
                   memo, snap, op>>

\* The activity returns: refused, finished or cancelled.
End ==
    /\ \/ act.at = "running"
       \/ act.at = "admitted" /\ (act.cancelled \/ ~RuntimeAdmissionReady(act.id))
    /\ act' = NoAct
    /\ DecisionEnds
    /\ UNCHANGED <<up, durable, latch, stopped, allowed, opened, reserved, fault,
                   memo, snap>>

\* BeginProviderAttempt: the worker's durable writer.
BeginWriter ==
    /\ act.at = "running" /\ act.by = "loop"
    /\ writer = None
    /\ TicketFence(act.id)
    /\ writer' = act.id
    /\ UNCHANGED <<up, fence, phase, row, latch, admission, memo, snap, op>>

\* The drained attempt is settled under its own fence, or retired under the
\* exact pause that invalidated it; nothing else closes it.
FinishWriter ==
    /\ act.at = "running" /\ writer = act.id
    /\ \/ fence = writer
       \/ /\ phase \in {"stopping", "cancelling"}
          /\ fence = Fence(writer.v + 1, writer.l, writer.r + 1)
          /\ row = Row("sealed", fence, fence)
    /\ writer' = None
    /\ UNCHANGED <<up, fence, phase, row, latch, admission, memo, snap, op>>

\* What every transition by the activity needs; its writer is settled by then.
CanTransit == act.at = "running" /\ phase = "active" /\ fence = act.id /\ writer = None

\* The ticket moves to its next version.
NextVersion ==
    /\ fence.v < MaxVersion
    /\ fence' = Fence(fence.v + 1, fence.l, fence.r)

\* A phase transition with evidence (one of them blocks the ticket), or an
\* operator's decision: the open authority is carried to the next version in
\* the same transaction.
Advance ==
    /\ CanTransit /\ CanAdvance(fence) /\ NextVersion
    /\ phase' \in {"active", "blocked"}
    /\ row' = Advanced(fence)
    /\ UNCHANGED <<up, writer, latch, admission, memo, snap, op>>

\* Every other transition of the ticket looks at no control row: an ordinary
\* lifecycle step, a typed, provider or budget blocker, the pause of an
\* exhausted provider or CI poll.  The open authority stays at its version.
Transition ==
    /\ CanTransit /\ NextVersion
    /\ phase' \in {"active", "blocked", "held"}
    /\ UNCHANGED <<up, row, writer, latch, admission, memo, snap, op>>

-----------------------------------------------------------------------------
(* Operator: pause and cancel *)

\* TransitionAndInvalidateRunner, from controlTicket.
Invalidate(kind, to) ==
    /\ fence.v < MaxVersion
    /\ phase' = to
    /\ fence' = Fence(fence.v + 1, fence.l, fence.r + 1)
    /\ Seal(fence')
    /\ op' = Op(kind, "seal", None, None)
    /\ UNCHANGED <<up, writer, admission, memo, snap>>

\* controlTicket "pause" or "take"; a repeated request only finishes, and one
\* for a paused ticket that still holds capacity only drains it.
RequestPause ==
    /\ up /\ op = Idle
    /\ \/ phase = "active" /\ Invalidate("pause", "stopping")
       \/ /\ phase \in {"stopping", "held"}
          /\ op' = Op("pause", "seal", None, None)
          /\ UNCHANGED <<up, durable, latch, admission, memo, snap>>

\* controlTicket "cancel".
RequestCancel ==
    /\ up /\ op = Idle
    /\ \/ /\ phase \in {"active", "blocked", "held", "stopping", "paused"}
          /\ Invalidate("cancel", "cancelling")
       \/ /\ phase \in {"cancelling", "cancelled"}
          /\ op' = Op("cancel", IF phase = "cancelled" THEN "terminal" ELSE "seal",
                      None, None)
          /\ UNCHANGED <<up, durable, latch, admission, memo, snap>>

\* Drain: SealRuntimeControl commits before the runtime is stopped.
SealRuntimeControl ==
    /\ op.at = "seal"
    /\ Seal(fence)
    /\ op' = Op(op.kind, "stop", None, None)
    /\ UNCHANGED <<up, fence, phase, writer, admission, memo, snap>>

\* What follows a Stop that returned nil.
AfterStop == IF op.kind \in {"pause", "cancel", "recover"} THEN "proof" ELSE "rearm"

\* Stop, first section: mark the ticket, drop the permission, fail on a fault.
Stop ==
    /\ op.at = "stop"
    /\ stopped' = IF act.at # "none" THEN [on |-> TRUE, id |-> act.id]
                  ELSE IF stopped.on THEN stopped
                  ELSE [on |-> TRUE, id |-> None]
    /\ allowed' = None
    /\ op' = IF fault THEN Idle
             ELSE IF act.at # "none" /\ act.sealer
             THEN Op(op.kind, "sealact", act.id, op.stop)
             ELSE Op(op.kind, "cancel", None, op.stop)
    /\ UNCHANGED <<up, durable, latch, opened, act, reserved, fault, memo, snap>>

\* Stop: sealStore of the rearmed activity, SealStoreAdmission first.
SealActivity ==
    /\ op.at = "sealact"
    /\ \/ /\ opened /\ CanSealAdmission(op.cap)
          /\ SealAdmission(op.cap)
          /\ opened' = FALSE
          /\ op' = Op(op.kind, "cancel", None, op.stop)
          /\ fault' = fault
       \/ /\ GateTimeouts \/ ~opened \/ ~CanSealAdmission(op.cap)
          /\ fault' = TRUE
          /\ op' = Idle
          /\ UNCHANGED <<row, latch, opened>>
    /\ UNCHANGED <<up, fence, phase, writer, stopped, allowed, act, reserved,
                   memo, snap>>

\* Stop, last section: cancel whatever is registered now.
StopCancels ==
    /\ op.at = "cancel"
    /\ act' = IF act.at = "none" THEN act
              ELSE Act(act.at, act.id, act.by, act.sealer, TRUE)
    /\ op' = Op(op.kind, "join", None, op.stop)
    /\ UNCHANGED <<up, durable, latch, stopped, allowed, opened, reserved, fault,
                   memo, snap>>

\* Stop joins the cancelled activity; a restored stop is cached afterwards.
Join ==
    /\ op.at = "join"
    /\ act.at = "none"
    /\ memo' = IF AfterStop = "rearm" THEN op.stop ELSE memo
    /\ op' = Op(op.kind, AfterStop, None, None)
    /\ UNCHANGED <<up, durable, latch, admission, snap>>

\* ControlProof: seals again and counts the writers in one transaction.  The
\* drain of a paused ticket ends here.
ControlProof ==
    /\ op.at = "proof"
    /\ Seal(fence)
    /\ memo' = IF writer = None THEN fence ELSE memo
    /\ op' = IF writer = None /\ ~(op.kind = "pause" /\ phase = "held")
             THEN Op(op.kind, "complete", None, None) ELSE Idle
    /\ UNCHANGED <<up, fence, phase, writer, admission, snap>>

\* CompleteControlTransition; the sealed row stays at the stopped version.
CompleteControlTransition ==
    /\ op.at = "complete" /\ op.kind # "recover"
    /\ phase' = IF phase = "stopping" THEN "paused" ELSE "cancelled"
    /\ fence' = Fence(fence.v + 1, fence.l, fence.r)
    /\ op' = IF op.kind = "pause" THEN Idle ELSE Op(op.kind, "terminal", None, None)
    /\ UNCHANGED <<up, row, writer, latch, admission, memo, snap>>

\* TerminalControlProof: a ControlProof of the terminal ticket.
TerminalControlProof ==
    /\ op.at = "terminal"
    /\ Seal(fence)
    /\ op' = IF writer = None THEN Op(op.kind, "retire", fence, None) ELSE Idle
    /\ UNCHANGED <<up, fence, phase, writer, admission, memo, snap>>

\* RetireRuntime, runtime side: Retire forgets the stop and the permission, and
\* refuses a stopped ticket that is still active.
Retire ==
    LET busy == stopped.on /\ act.at # "none"
    IN  /\ op.at = "retire"
        /\ stopped' = IF busy THEN stopped ELSE [on |-> FALSE, id |-> None]
        /\ allowed' = IF stopped.on /\ ~busy THEN None ELSE allowed
        /\ op' = IF busy THEN Idle ELSE Op(op.kind, "retirestore", op.cap, None)
        /\ UNCHANGED <<up, durable, latch, opened, act, reserved, fault, memo, snap>>

\* RetireRuntime, Store side: retireRuntimeControl deletes row and latch.
RetireRuntimeControl ==
    LET ok == latch = op.cap /\ phase = "cancelled" /\ row.auth = op.cap
    IN  /\ op.at = "retirestore"
        /\ row' = IF ok THEN Row("none", None, None) ELSE row
        /\ latch' = IF ok THEN None ELSE latch
        /\ memo' = IF ok THEN None ELSE memo
        /\ op' = Idle
        /\ UNCHANGED <<up, fence, phase, writer, admission, snap>>

-----------------------------------------------------------------------------
(* Operator: recover, resume and decisions *)

\* recoverTicket, and retryTicket after a spent provider or a failed merge: the
\* runtime is drained first.
RequestRecover ==
    /\ up /\ op = Idle /\ phase \in {"blocked", "held"} /\ fence.v < MaxVersion
    /\ op' = Op("recover", "seal", None, None)
    /\ UNCHANGED <<up, durable, latch, admission, memo, snap>>

\* The drained ticket returns to its phase under the row that stopped it
\* (TransitionProviderRetry, TransitionRecoverAsGuarded), and is rearmed.
RecoverTicket ==
    /\ op.at = "complete" /\ op.kind = "recover"
    /\ row = Row("sealed", fence, fence)
    /\ phase' = "active" /\ NextVersion
    /\ op' = Op("resume", "load", None, None)
    /\ UNCHANGED <<up, row, writer, latch, admission, memo, snap>>

\* resumeTicket, and retryTicket of a pause that needs no drain: the
\* transition, or only the rearm when the row is sealed.
RequestResume ==
    /\ up /\ op = Idle
    /\ \/ /\ phase \in {"paused", "held"}
          /\ phase' = "active" /\ NextVersion
       \/ phase = "active" /\ row.st = "sealed" /\ UNCHANGED <<phase, fence>>
    /\ op' = Op("resume", "load", None, None)
    /\ UNCHANGED <<up, row, writer, latch, admission, memo, snap>>

\* ApplyOperatorDecision for the identity current now; a sealed row is rearmed
\* first, which no transition can overtake.
RequestDecision ==
    /\ up /\ op = Idle /\ phase = "active"
    /\ op' = Op("decide", IF row.st = "sealed" THEN "load" ELSE "reserve", fence, None)
    /\ UNCHANGED <<up, durable, latch, admission, memo, snap>>

\* Rearm: the stop from memory, or StoppedRuntimeTicket followed by a Stop of
\* the runtime that has no latch for it.  A decision always restores the stop.
LoadStop ==
    /\ op.at = "load"
    /\ op' = IF op.kind = "resume" /\ memo # None THEN Op(op.kind, "rearm", None, None)
             ELSE IF row.st = "sealed" THEN Op(op.kind, "stop", None, row.stop)
             ELSE Idle
    /\ UNCHANGED <<up, durable, latch, admission, memo, snap>>

\* RearmProof: a sealed row of exactly this stop, and a newer drained ticket.
CanRearm ==
    /\ row.st = "sealed" /\ row.stop.v = memo.v /\ row.stop.r = memo.r
    /\ latch # None
    /\ fence.v > memo.v \/ fence.r # memo.r
    /\ writer = None /\ phase = "active"

\* RearmProof: the latch moves to the proved identity and stays closed.
RearmProof ==
    /\ op.at = "rearm"
    /\ op' = IF CanRearm THEN Op(op.kind, "activate", fence, None) ELSE Idle
    /\ latch' = IF CanRearm THEN fence ELSE latch
    /\ UNCHANGED <<up, durable, admission, memo, snap>>

\* ActivateRearm: the proved identity is still current; the row is armed.
ActivateRearm ==
    LET ok == latch = op.cap /\ fence = op.cap /\ row.st = "sealed"
    IN  /\ op.at = "activate"
        /\ row' = IF ok THEN Row("armed", row.stop, op.cap) ELSE row
        /\ op' = IF ok THEN Op(op.kind, "install", op.cap, None) ELSE Idle
        /\ UNCHANGED <<up, fence, phase, writer, latch, admission, memo, snap>>

\* admission.Rearm: installs one permission on a stopped, idle ticket.
CanInstall(f) ==
    /\ stopped.on /\ act.at = "none" /\ allowed = None
    /\ stopped.id = None \/ f.v > stopped.id.v
       \/ f.l # stopped.id.l \/ f.r # stopped.id.r

\* ActivateRearm: a refused installation seals the armed row again.
Install ==
    /\ op.at = "install"
    /\ \/ /\ CanInstall(op.cap)
          /\ allowed' = op.cap /\ opened' = FALSE
          /\ op' = IF op.kind = "decide" THEN Op(op.kind, "reserve", op.cap, None) ELSE Idle
          /\ UNCHANGED <<row, latch>>
       \/ /\ ~CanInstall(op.cap)
          /\ op' = Idle
          /\ \/ CanSealAdmission(op.cap) /\ SealAdmission(op.cap)
             \/ GateTimeouts /\ UNCHANGED <<row, latch>>
          /\ UNCHANGED <<allowed, opened>>
    /\ UNCHANGED <<up, fence, phase, writer, stopped, act, reserved, fault, memo, snap>>

\* BeginDecision reserves the next activity of the ticket.
Reserve ==
    /\ op.at = "reserve"
    /\ reserved' = TRUE
    /\ op' = Op(op.kind, "begin", op.cap, None)
    /\ UNCHANGED <<up, durable, latch, stopped, allowed, opened, act, fault, memo, snap>>

\* BeginDecision joined the poll that was running and begins, or is refused.
BeginDecision ==
    /\ op.at = "begin" /\ act.at = "none"
    /\ \/ /\ CanBegin(op.cap)
          /\ act' = Act(EntryStage, op.cap, "decision", FALSE, FALSE)
          /\ reserved' = (EntryStage = "opening")
          /\ op' = Op(op.kind, "deciding", None, None)
       \/ /\ ~CanBegin(op.cap)
          /\ reserved' = FALSE /\ op' = Idle /\ act' = act
    /\ UNCHANGED <<up, durable, latch, stopped, allowed, opened, fault, memo, snap>>

\* The request's context ends where the request waits or calls Store.
Abort ==
    /\ op.at \in {"seal", "join", "proof", "complete", "terminal", "retirestore",
                  "load", "rearm", "activate", "reserve", "begin"}
    /\ op' = Idle
    /\ reserved' = FALSE
    /\ UNCHANGED <<up, durable, latch, stopped, allowed, opened, act, fault, memo, snap>>

-----------------------------------------------------------------------------
(* Crash and restart *)

\* The process dies: everything in memory is gone.
Crash ==
    /\ up /\ fence.l < MaxLeader
    /\ up' = FALSE
    /\ latch' = None
    /\ stopped' = [on |-> FALSE, id |-> None] /\ allowed' = None /\ opened' = FALSE
    /\ act' = NoAct /\ reserved' = FALSE /\ fault' = FALSE
    /\ memo' = None /\ snap' = None /\ op' = Idle
    /\ UNCHANGED durable

\* Fault: the latch is restored and the row keeps its owner's state.
RestoredMutant == row

\* restoreRuntimeControls: armed and open rows lost their owner.
Restored == IF row.st = "none" THEN row ELSE Row("sealed", row.stop, row.auth)

\* A new daemon before it serves: restoreRuntimeControls, AcquireLeader, the
\* recovery of provider attempts, FenceRecoveredRunners.
Start ==
    /\ ~up
    /\ up' = TRUE
    /\ row' = Restored
    /\ latch' = IF row.st = "none" THEN None ELSE row.auth
    /\ writer' \in {None, writer}
    /\ fence' = IF phase \in {"active", "stopping", "cancelling"}
                THEN Fence(fence.v + 1, fence.l + 1, fence.r + 1)
                ELSE Fence(fence.v, fence.l + 1, fence.r)
    /\ UNCHANGED <<phase, admission, memo, snap, op>>

-----------------------------------------------------------------------------

Loop ==
    \/ ListTickets \/ Begin \/ Open \/ OpenFails \/ Commit \/ Suspend \/ CommitLost
    \/ Admit \/ End \/ BeginWriter \/ FinishWriter \/ Advance \/ Transition

\* The steps a request takes by itself once it was made.
Request ==
    \/ SealRuntimeControl \/ Stop \/ SealActivity \/ StopCancels \/ Join
    \/ ControlProof \/ CompleteControlTransition \/ RecoverTicket
    \/ TerminalControlProof \/ Retire \/ RetireRuntimeControl
    \/ LoadStop \/ RearmProof \/ ActivateRearm \/ Install
    \/ Reserve \/ BeginDecision

Next ==
    \/ Loop \/ Request
    \/ RequestPause \/ RequestCancel \/ RequestRecover \/ RequestResume
    \/ RequestDecision
    \/ CallerGone \/ Abort
    \/ Crash \/ Start

Spec == Init /\ [][Next]_vars

\* Scheduler loops tick for ever, a worker returns (its contexts and commands
\* are bounded), a request's goroutine runs on until it waits.
Fairness ==
    /\ WF_vars(ListTickets) /\ WF_vars(Begin)
    /\ WF_vars(Open \/ OpenFails \/ Commit \/ Suspend \/ CommitLost \/ Admit)
    /\ WF_vars(End)
    /\ WF_vars(Request)

FairSpec == Spec /\ Fairness

-----------------------------------------------------------------------------
(* Properties *)

\* A drained ticket has no durable writer, nothing running and no admission
\* that could start something (Controller.Drain: "only reports drained after
\* Store proves the ticket has neither durable writers..."); one that blocked
\* or paused by itself may keep its open row, but nobody begins a writer on it.
StoppedIsQuiet ==
    /\ phase \in {"paused", "cancelled"} =>
           act.at # "running" /\ row.st \in {"sealed", "none"}
    /\ phase \in {"blocked", "held", "paused", "cancelled"} => writer = None

\* While the daemon serves, the process gate is closed exactly when the durable
\* row is: neither a half-opened admission nor a latch without its row survives
\* any order of open, suspend, seal, retire, crash and restart.
LatchMirrorsRow ==
    up => (latch # None <=> row.st \in {"sealed", "armed"})

\* An armed row is the authority of exactly the active ticket's identity; an
\* open one is of its leader and runner, of no later version, and outlives no
\* operator's stop.  Both are successors of the stop they came from
\* (advanceOpenRuntimeAuthority, "at or before the current endpoint").
AuthorityIsCurrent ==
    /\ up /\ row.st \in {"armed", "open"} => row.auth.v > row.stop.v
    /\ up /\ row.st = "armed" => row.auth = fence /\ phase = "active"
    /\ up /\ row.st = "open" =>
           /\ phase \in {"active", "blocked", "held"}
           /\ row.auth.l = fence.l /\ row.auth.r = fence.r /\ row.auth.v <= fence.v

\* A permission a loop could still use belongs to an armed or open row of the
\* same identity: nothing stale can be redeemed (admission.Rearm).
PermissionIsBacked ==
    allowed # None /\ allowed = fence =>
        row.st \in {"armed", "open"} /\ row.auth = allowed

\* Row, latch, permission and identity of a ticket agree at every moment, with a
\* stopped ticket quiet, and every variable has its type.
RowsAgree ==
    /\ TypeOK
    /\ LatchMirrorsRow /\ AuthorityIsCurrent /\ PermissionIsBacked
    /\ StoppedIsQuiet

\* Every operator request returns: joining an activity never waits on something
\* that waits for the request (Drain: "a Store/admission/runtime lock cycle
\* cannot form").
RequestEnds == op # Idle ~> op = Idle

\* An installed rearm is used: once the operator stops sending decisions (each
\* one reserves the ticket and keeps the loops out), some loop's Begin opens the
\* armed row, whatever cancellations and stale listings get in its way, unless
\* the daemon dies first.
ArmedIsServed ==
    <>[](op.kind # "decide") =>
        (row.st = "armed" /\ allowed = row.auth ~> row.st # "armed" \/ ~up)
=============================================================================
