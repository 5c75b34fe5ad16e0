--------------------------- MODULE EffectsProofs ---------------------------
(***************************************************************************)
(* Theorems about Effects, for every set of keys and every bound.          *)
(***************************************************************************)
EXTENDS Effects, TLAPS

(***************************************************************************)
(* What keeps the gate current.  Memory is empty while nobody serves; a    *)
(* controlled ticket is sealed; a claim is held by one worker, is no newer *)
(* than its row, and its fence is not the fence an observation was made    *)
(* under; what is in the gate was not drained.                             *)
(***************************************************************************)
DownIsEmpty == mode # "serving" => held = {} /\ seen = {}
ControlledIsSealed == phase \in {"stopping", "paused", "cancelling"} => control = "sealed"
HeldIsFresh == \A h \in held : 1 <= h.tag.c /\ h.tag.c <= eff[h.key].tag.c
HeldIsUnique == \A g, h \in held : g.key = h.key /\ g.tag = h.tag => g = h
OneWorkerPerFence == \A h \in held, o \in seen : FenceOf(h.tag) # o.cur
GateNotRevoked == \A h \in held : h.at \in InGate => revoked # fence

GateInv ==
    /\ DownIsEmpty /\ ControlledIsSealed
    /\ HeldIsFresh /\ HeldIsUnique /\ OneWorkerPerFence
    /\ GateNotRevoked /\ GateIsCurrent

(***************************************************************************)
(* What keeps a command from being handed out twice.  A row that may be    *)
(* claimed, and a claim that has not been launched, have sent nothing; a   *)
(* merge past "claimed" has its intent; absence is recorded of a merge     *)
(* only, and only of an execution older than any intent.                   *)
(***************************************************************************)
RetryableIsUnsent ==
    \A k \in Once : eff[k].st \in {"none", "planned", "failed"} => sent[k] = 0
PendingIsUnsent ==
    \A h \in held : h.key \in Once /\ h.at \in {"claimed", "intended", "gate", "before"}
                     /\ eff[h.key].tag = h.tag => sent[h.key] = 0
IntentBeforeSend == \A k \in Merges : intent[k] = NoTag => sent[k] = 0
IntentBeforeGate ==
    \A h \in held : h.key \in Merges /\ h.at \in {"intended", "gate"} => intent[h.key] # NoTag
AbsenceIsOld ==
    \A o \in seen : ~o.present =>
        /\ o.key \notin Creates
        /\ o.key \in Merges =>
             /\ o.prior.c <= eff[o.key].tag.c
             /\ eff[o.key].st = "executing" \/ intent[o.key] # NoTag
                  => o.prior.c < eff[o.key].tag.c

HandoffInv ==
    /\ RetryableIsUnsent /\ PendingIsUnsent /\ IntentBeforeSend
    /\ IntentBeforeGate /\ AbsenceIsOld /\ AtMostOneHandoff

-----------------------------------------------------------------------------
\* Type correctness: every action keeps every variable of the ledger, the
\* gate and the world in its type.
LEMMA EffectsTypeInit == Init => TypeOK
  <1> SUFFICES ASSUME Init PROVE TypeOK
    OBVIOUS
  <1>1. NoTag \in Tags /\ FenceOf(NoTag) \in Fences
    BY DEF NoTag, Tags, FenceOf, Fences
  <1>2. fence \in Fences
    BY DEF Init, Fences
  <1>3. [st |-> "none", tag |-> NoTag] \in [st : States, tag : Tags]
    BY <1>1 DEF States
  <1> QED
    BY <1>1, <1>2, <1>3 DEF Init, TypeOK

LEMMA AdvanceType ==
    ASSUME TypeOK, NEW h \in held, NEW s \in Stages, Advance(h, s)
    PROVE  held' \subseteq [key : Keys, tag : Tags, at : Stages]
  <1>1. h \in [key : Keys, tag : Tags, at : Stages]
    BY DEF TypeOK
  <1>2. [h EXCEPT !.at = s] \in [key : Keys, tag : Tags, at : Stages]
    BY <1>1
  <1> QED
    BY <1>2 DEF TypeOK, Advance

LEMMA EffectsTypeKey ==
    ASSUME TypeOK, NEW k \in Keys,
           PlanEffect(k) \/ ClaimEffect(k) \/ Observe(k) \/ OrphanApplies(k)
             \/ OrphanExits(k)
    PROVE  TypeOK'
  <1>1. CASE PlanEffect(k)
    BY <1>1 DEF PlanEffect, TypeOK, Fences, Tags, Tag, FenceOf, States, memory, ledger, cleanup, world
  <1>2. CASE ClaimEffect(k)
    <2> DEFINE t == Tag(fence, eff[k].tag.c + 1)
    <2>1. t \in Tags /\ eff[k].tag.c + 1 \in Nat
      BY DEF TypeOK, Fences, Tags, Tag
    <2>2. eff' = [eff EXCEPT ![k] = [st |-> "executing", tag |-> t]]
          /\ held' = held \cup {[key |-> k, tag |-> t, at |-> "claimed"]}
      BY <1>2 DEF ClaimEffect
    <2> HIDE DEF t
    <2>3. eff' \in [Keys -> [st : States, tag : Tags]]
      BY <2>1, <2>2 DEF TypeOK, States
    <2>4. held' \subseteq [key : Keys, tag : Tags, at : Stages]
      BY <2>1, <2>2 DEF TypeOK, Stages, InGate
    <2> QED
      BY <1>2, <2>3, <2>4 DEF ClaimEffect, TypeOK, memory, ledger, cleanup, world
  <1>3. CASE Observe(k)
    BY <1>3 DEF Observe, TypeOK, memory, ledger, cleanup, world
  <1>4. CASE OrphanApplies(k)
    BY <1>4 DEF OrphanApplies, TypeOK, memory, ledger, cleanup, world
  <1>5. CASE OrphanExits(k)
    BY <1>5 DEF OrphanExits, TypeOK, memory, ledger, cleanup, world
  <1> QED
    BY <1>1, <1>2, <1>3, <1>4, <1>5

LEMMA EffectsTypeWorker ==
    ASSUME TypeOK, NEW h \in held, Worker(h)
    PROVE  TypeOK'
  <1>0. h.key \in Keys /\ h.tag \in Tags /\ h.at \in Stages
    BY DEF TypeOK
  <1>1. CASE RecordMergeIntent(h)
    <2>1. held' \subseteq [key : Keys, tag : Tags, at : Stages]
      BY <1>1, AdvanceType DEF RecordMergeIntent, Stages
    <2> QED
      BY <1>0, <1>1, <2>1 DEF RecordMergeIntent, TypeOK, memory, ledger, cleanup, world
  <1>2. CASE EnterGate(h)
    <2>1. held' \subseteq [key : Keys, tag : Tags, at : Stages]
      BY <1>2, AdvanceType DEF EnterGate, Stages, InGate
    <2> QED
      BY <1>2, <2>1 DEF EnterGate, TypeOK, memory, ledger, cleanup, world
  <1>3. CASE RefuseGate(h)
    <2>1. held' \subseteq [key : Keys, tag : Tags, at : Stages]
      BY <1>3, AdvanceType DEF RefuseGate, NotStarted, Stages
    <2> QED
      BY <1>3, <2>1 DEF RefuseGate, TypeOK, memory, ledger, cleanup, world
  <1>4. CASE RefuseLaunch(h)
    <2>1. held' \subseteq [key : Keys, tag : Tags, at : Stages]
      BY <1>4, AdvanceType DEF RefuseLaunch, NotStarted, Stages
    <2> QED
      BY <1>4, <2>1 DEF RefuseLaunch, TypeOK, memory, ledger, cleanup, world
  <1>5. CASE Launch(h)
    <2>1. held' \subseteq [key : Keys, tag : Tags, at : Stages]
      BY <1>5, AdvanceType DEF Launch, Stages, InGate
    <2> QED
      BY <1>0, <1>5, <2>1 DEF Launch, TypeOK, memory, ledger, cleanup, world
  <1>6. CASE Apply(h)
    <2>1. held' \subseteq [key : Keys, tag : Tags, at : Stages]
      BY <1>6, AdvanceType DEF Apply, Stages, InGate
    <2> QED
      BY <1>0, <1>6, <2>1 DEF Apply, TypeOK, memory, ledger, cleanup, world
  <1>7. CASE Return(h)
    <2>1. held' \subseteq [key : Keys, tag : Tags, at : Stages]
      BY <1>7, AdvanceType DEF Return, Stages
    <2> QED
      BY <1>7, <2>1 DEF Return, TypeOK, memory, ledger, cleanup, world
  <1>8. CASE CleanupUncertain(h)
    <2>1. held' \subseteq [key : Keys, tag : Tags, at : Stages]
      BY <1>8, AdvanceType DEF CleanupUncertain, Stages
    <2>2. child' \in [Keys -> Nat] /\ abandoned' \in [Keys -> Nat]
      BY <1>0, <1>8 DEF CleanupUncertain, TypeOK
    <2> QED
      BY <1>8, <2>1, <2>2 DEF CleanupUncertain, TypeOK, memory, ledger, cleanup, world
  <1>9. CASE FinishEffect(h)
    <2>1. Outcome(h) \in States
      BY DEF Outcome, States
    <2>2. eff' \in [Keys -> [st : States, tag : Tags]]
      BY <1>0, <1>9, <2>1 DEF FinishEffect, TypeOK
    <2> QED
      BY <1>9, <2>2 DEF FinishEffect, TypeOK, memory, ledger, cleanup, world
  <1> QED
    BY <1>1, <1>2, <1>3, <1>4, <1>5, <1>6, <1>7, <1>8, <1>9 DEF Worker

LEMMA EffectsTypeObservation ==
    ASSUME TypeOK, NEW o \in seen, WriteObservation(o)
    PROVE  TypeOK'
  <1>0. o.key \in Keys /\ o.prior \in Tags /\ o.cur \in Fences
    BY DEF TypeOK
  <1>1. Tag(o.cur, o.prior.c + 1) \in Tags /\ Tag(o.cur, o.prior.c) \in Tags
    BY <1>0 DEF Tag, Tags, Fences
  <1>2. eff' \in [Keys -> [st : States, tag : Tags]]
    <2>1. CASE ObserveEffect(o)
      BY <1>0, <2>1 DEF ObserveEffect, TypeOK, States
    <2>2. CASE ReconcileInvalidatedEffect(o)
      BY <1>0, <1>1, <2>2 DEF ReconcileInvalidatedEffect, TypeOK, States
    <2>3. CASE ConfirmRecoveredMerge(o)
      BY <1>0, <1>1, <2>3 DEF ConfirmRecoveredMerge, TypeOK, States
    <2>4. CASE UNCHANGED eff
      BY <2>4 DEF TypeOK
    <2> QED
      BY <2>1, <2>2, <2>3, <2>4 DEF WriteObservation
  <1> QED
    BY <1>2 DEF WriteObservation, TypeOK, memory, ledger, cleanup, world

LEMMA EffectsTypeControl ==
    ASSUME TypeOK, Control
    PROVE  TypeOK'
  <1>1. CASE Drain
    BY <1>1 DEF Drain, TypeOK, memory, ledger, cleanup, world
  <1>2. CASE Transition
    BY <1>2 DEF Transition, TypeOK, Fences, memory, ledger, cleanup, world
  <1>3. CASE TransitionAndInvalidateRunner
    <2>1. fence' \in Fences
      BY <1>3 DEF TransitionAndInvalidateRunner, NextRunner, TypeOK, Fences
    <2> QED
      BY <1>3, <2>1 DEF TransitionAndInvalidateRunner, TypeOK, memory, ledger, cleanup, world
  <1>4. CASE CompleteControlTransition
    BY <1>4 DEF CompleteControlTransition, TypeOK, Fences, FenceOf, NoTag, memory, ledger, cleanup, world
  <1>5. CASE Resume
    BY <1>5 DEF Resume, TypeOK, Fences, memory, ledger, cleanup, world
  <1>6. CASE Rearm
    BY <1>6 DEF Rearm, TypeOK, memory, ledger, cleanup, world
  <1> QED
    BY <1>1, <1>2, <1>3, <1>4, <1>5, <1>6 DEF Control

LEMMA EffectsTypeRecovery ==
    ASSUME TypeOK, Recovery
    PROVE  TypeOK'
  <1>1. CASE Crash
    <2>1. child' \in [Keys -> Nat] /\ abandoned' \in [Keys -> Nat]
      BY <1>1 DEF Crash, TypeOK
    <2> QED
      BY <1>1, <2>1 DEF Crash, TypeOK, Fences, FenceOf, NoTag, memory, ledger, cleanup, world
  <1>2. CASE Start
    BY <1>2 DEF Start, TypeOK, Fences, memory, ledger, cleanup, world
  <1>3. CASE ReconcileEffects
    <2>1. ASSUME NEW k \in Keys
          PROVE  Stranded(eff[k].tag) \in Tags
      <3>1. eff[k].tag \in Tags /\ fence.l \in Nat
        BY DEF TypeOK, Fences
      <3> QED
        BY <3>1 DEF Stranded, Tags
    <2>2. eff' \in [Keys -> [st : States, tag : Tags]]
      BY <1>3, <2>1 DEF ReconcileEffects, TypeOK, States
    <2> QED
      BY <1>3, <2>2 DEF ReconcileEffects, TypeOK, memory, ledger, cleanup, world
  <1>4. CASE FenceRecoveredRunners
    <2>1. fence' \in Fences
      BY <1>4 DEF FenceRecoveredRunners, NextRunner, TypeOK, Fences
    <2> QED
      BY <1>4, <2>1 DEF FenceRecoveredRunners, TypeOK, memory, ledger, cleanup, world
  <1>5. CASE Reboot
    BY <1>5 DEF Reboot, TypeOK, memory, ledger, cleanup, world
  <1>6. CASE PrepareExternalCleanupRecovery
    BY <1>6 DEF PrepareExternalCleanupRecovery, TypeOK, memory, ledger, cleanup, world
  <1>7. CASE RecoverExternalCleanup
    BY <1>7 DEF RecoverExternalCleanup, TypeOK, memory, ledger, cleanup, world
  <1>8. CASE ReadUncertain
    BY <1>8 DEF ReadUncertain, TypeOK, ledger, cleanup, world
  <1> QED
    BY <1>1, <1>2, <1>3, <1>4, <1>5, <1>6, <1>7, <1>8 DEF Recovery

LEMMA EffectsTypeStep == TypeOK /\ [Next]_vars => TypeOK'
  <1> SUFFICES ASSUME TypeOK, [Next]_vars PROVE TypeOK'
    OBVIOUS
  <1>1. CASE UNCHANGED vars
    BY <1>1 DEF TypeOK, vars, memory, ledger, cleanup, world
  <1> QED
    BY <1>1, EffectsTypeKey, EffectsTypeWorker, EffectsTypeObservation,
       EffectsTypeControl, EffectsTypeRecovery DEF Next

\* The type invariant of the ledger, the gate and the ticket holds for every
\* instance (effects.go, mutation_guard.go, control.go).
THEOREM EffectsType == Spec => []TypeOK
  BY EffectsTypeInit, EffectsTypeStep, PTL DEF Spec

-----------------------------------------------------------------------------
(* The gate *)

\* The claim a worker moves to another stage keeps its key and its tag.
LEMMA AdvanceShape ==
    ASSUME TypeOK, NEW h \in held, NEW s \in Stages, Advance(h, s)
    PROVE  /\ [h EXCEPT !.at = s] \in held'
           /\ [h EXCEPT !.at = s].key = h.key
           /\ [h EXCEPT !.at = s].tag = h.tag
           /\ [h EXCEPT !.at = s].at = s
           /\ \A g \in held' : g = [h EXCEPT !.at = s] \/ (g \in held /\ g # h)
  <1>1. h \in [key : Keys, tag : Tags, at : Stages]
    BY DEF TypeOK
  <1> QED
    BY <1>1 DEF Advance

\* A worker that only moves on leaves the claims as distinct and as fresh as
\* they were.
LEMMA AdvanceKeeps ==
    ASSUME TypeOK, GateInv, NEW h \in held, NEW s \in Stages, Advance(h, s),
           mode' = mode, eff' = eff, seen' = seen, phase' = phase, control' = control
    PROVE  /\ DownIsEmpty' /\ ControlledIsSealed'
           /\ HeldIsFresh' /\ HeldIsUnique' /\ OneWorkerPerFence'
  <1> DEFINE n == [h EXCEPT !.at = s]
  <1>1. /\ n.key = h.key /\ n.tag = h.tag
        /\ \A g \in held' : g = n \/ (g \in held /\ g # h)
    BY AdvanceShape
  <1> HIDE DEF n
  <1>2. DownIsEmpty' /\ ControlledIsSealed'
    BY DEF GateInv, DownIsEmpty, ControlledIsSealed
  <1>3. HeldIsFresh'
    BY <1>1 DEF GateInv, HeldIsFresh
  <1>4. HeldIsUnique'
    <2> SUFFICES ASSUME NEW f \in held', NEW g \in held', f.key = g.key, f.tag = g.tag
                 PROVE  f = g
      BY DEF HeldIsUnique
    <2>1. CASE f = n /\ g \in held /\ g # h
      BY <1>1, <2>1 DEF GateInv, HeldIsUnique
    <2>2. CASE g = n /\ f \in held /\ f # h
      BY <1>1, <2>2 DEF GateInv, HeldIsUnique
    <2>3. CASE f \in held /\ g \in held
      BY <2>3 DEF GateInv, HeldIsUnique
    <2> QED
      BY <1>1, <2>1, <2>2, <2>3
  <1>5. OneWorkerPerFence'
    BY <1>1 DEF GateInv, OneWorkerPerFence
  <1> QED
    BY <1>2, <1>3, <1>4, <1>5

LEMMA GateWorker ==
    ASSUME TypeOK, GateInv, NEW h \in held, Worker(h)
    PROVE  GateInv'
  <1>0. h.key \in Keys /\ h.tag \in Tags /\ h.at \in Stages
    BY DEF TypeOK
  <1>1. ASSUME NEW s \in Stages \ InGate, Advance(h, s), gate' = gate, h.at \notin InGate,
               UNCHANGED <<mode, fence, phase, control, eff, revoked, seen>>
        PROVE  GateInv'
    <2>1. \A g \in held' : g.at \in InGate => g \in held
      BY <1>1, AdvanceShape
    <2>2. GateNotRevoked' /\ GateIsCurrent'
      BY <1>1, <2>1 DEF GateInv, GateNotRevoked, GateIsCurrent, InGate
    <2> QED
      BY <1>1, <2>2, AdvanceKeeps DEF GateInv
  <1>2. ASSUME NEW s \in Stages \ InGate, Advance(h, s), h.at \in InGate,
               UNCHANGED <<mode, fence, phase, control, eff, revoked, seen>>
        PROVE  GateInv'
    <2>0. \A g \in held : g.at \in InGate => g = h
      BY <1>2 DEF GateInv, GateIsCurrent
    <2> DEFINE n == [h EXCEPT !.at = s]
    <2>3. n.at = s /\ \A g \in held' : g = n \/ (g \in held /\ g # h)
      BY <1>2, AdvanceShape
    <2> HIDE DEF n
    <2>1. \A g \in held' : g.at \notin InGate
      BY <1>2, <2>0, <2>3
    <2>2. GateNotRevoked' /\ GateIsCurrent'
      BY <2>1 DEF GateNotRevoked, GateIsCurrent, InGate
    <2> QED
      BY <1>2, <2>2, AdvanceKeeps DEF GateInv
  <1>3. ASSUME NEW s \in InGate, Advance(h, s), gate' = gate, h.at \in InGate,
               UNCHANGED <<mode, fence, phase, control, eff, revoked, seen>>
        PROVE  GateInv'
    <2>0. s \in Stages
      BY <1>3 DEF Stages
    <2> DEFINE n == [h EXCEPT !.at = s]
    <2>4. \A g \in held : g.at \in InGate => g = h
      BY <1>3 DEF GateInv, GateIsCurrent
    <2>3. /\ n.key = h.key /\ n.tag = h.tag
          /\ \A g \in held' : g = n \/ (g \in held /\ g # h)
      BY <1>3, <2>0, AdvanceShape
    <2> HIDE DEF n
    <2>1. n.key = h.key /\ n.tag = h.tag /\ \A g \in held' : g.at \in InGate => g = n
      BY <2>3, <2>4
    <2>2. GateNotRevoked' /\ GateIsCurrent'
      BY <1>3, <2>1 DEF GateInv, GateNotRevoked, GateIsCurrent, InGate
    <2> QED
      BY <1>3, <2>0, <2>2, AdvanceKeeps DEF GateInv
  <1>4. CASE RecordMergeIntent(h)
    BY <1>1, <1>4 DEF RecordMergeIntent, Stages, InGate, memory, ledger, cleanup, world
  <1>5. CASE EnterGate(h)
    <2>0. Advance(h, "gate") /\ "gate" \in Stages
      BY <1>5 DEF EnterGate, Stages, InGate
    <2> DEFINE n == [h EXCEPT !.at = "gate"]
    <2>1. /\ n.key = h.key /\ n.tag = h.tag
          /\ \A g \in held' : g.at \in InGate => g = n
      BY <1>5, <2>0, AdvanceShape DEF EnterGate, GateInv, GateIsCurrent
    <2> HIDE DEF n
    <2>2. /\ gate' = "busy" /\ eff[h.key] = [st |-> "executing", tag |-> h.tag]
          /\ FenceOf(h.tag) = fence /\ control # "sealed" /\ phase # "cancelled"
          /\ revoked # fence
      BY <1>5 DEF EnterGate, ValidClaim, TicketFence, RevokedBy, TypeOK, Fences
    <2>3. phase = "active"
      BY <2>2 DEF GateInv, ControlledIsSealed, TypeOK
    <2>4. UNCHANGED <<mode, fence, phase, control, eff, revoked, seen>>
      BY <1>5 DEF EnterGate, memory, ledger, cleanup, world
    <2>5. GateNotRevoked' /\ GateIsCurrent'
      BY <2>1, <2>2, <2>3, <2>4 DEF GateNotRevoked, GateIsCurrent, InGate
    <2> QED
      BY <2>0, <2>4, <2>5, AdvanceKeeps DEF GateInv
  <1>6. CASE RefuseGate(h)
    BY <1>1, <1>6 DEF RefuseGate, AtGate, NotStarted, Stages, InGate, memory, ledger, cleanup, world
  <1>7. CASE RefuseLaunch(h)
    BY <1>2, <1>7 DEF RefuseLaunch, NotStarted, Stages, InGate, memory, ledger, cleanup, world
  <1>8. CASE Launch(h)
    BY <1>3, <1>8 DEF Launch, InGate, memory, ledger, cleanup, world
  <1>9. CASE Apply(h)
    BY <1>3, <1>9 DEF Apply, InGate, memory, ledger, cleanup, world
  <1>10. CASE Return(h)
    BY <1>2, <1>10 DEF Return, Stages, InGate, memory, ledger, cleanup, world
  <1>11. CASE CleanupUncertain(h)
    BY <1>2, <1>11 DEF CleanupUncertain, Stages, InGate, memory, ledger, cleanup, world
  <1>12. CASE FinishEffect(h)
    <2>1. held' = held \ {h} /\ h.at \notin InGate
          /\ UNCHANGED <<mode, fence, phase, control, gate, revoked, seen>>
      BY <1>12 DEF FinishEffect, InGate, memory, ledger, cleanup, world
    <2>2. \A g \in held' : eff'[g.key].tag = eff[g.key].tag
      BY <1>0, <1>12, <2>1 DEF FinishEffect, TypeOK
    <2>3. \A g \in held' : g.at \in InGate => eff'[g.key] = eff[g.key]
      <3> SUFFICES ASSUME NEW g \in held', g.at \in InGate, eff'[g.key] # eff[g.key]
                   PROVE  FALSE
        OBVIOUS
      <3>1. g \in held /\ g # h /\ g.key \in Keys
        BY <2>1 DEF TypeOK
      <3>2. g.key = h.key /\ eff[h.key].tag = h.tag
        BY <1>0, <1>12, <3>1 DEF FinishEffect, TypeOK
      <3>3. eff[g.key] = [st |-> "executing", tag |-> g.tag]
        BY <3>1 DEF GateInv, GateIsCurrent
      <3>4. g.tag = h.tag
        BY <3>2, <3>3
      <3> QED
        BY <3>1, <3>2, <3>4 DEF GateInv, HeldIsUnique
    <2>4. DownIsEmpty' /\ ControlledIsSealed' /\ HeldIsUnique' /\ OneWorkerPerFence'
      BY <2>1 DEF GateInv, DownIsEmpty, ControlledIsSealed, HeldIsUnique, OneWorkerPerFence
    <2>5. HeldIsFresh'
      BY <2>1, <2>2 DEF GateInv, HeldIsFresh
    <2>6. GateNotRevoked' /\ GateIsCurrent'
      BY <2>1, <2>3 DEF GateInv, GateNotRevoked, GateIsCurrent
    <2> QED
      BY <2>4, <2>5, <2>6 DEF GateInv
  <1> QED
    BY <1>4, <1>5, <1>6, <1>7, <1>8, <1>9, <1>10, <1>11, <1>12 DEF Worker

LEMMA GateKey ==
    ASSUME TypeOK, GateInv, NEW k \in Keys,
           PlanEffect(k) \/ ClaimEffect(k) \/ Observe(k) \/ OrphanApplies(k)
             \/ OrphanExits(k)
    PROVE  GateInv'
  <1>1. CASE PlanEffect(k)
    <2>1. /\ UNCHANGED <<mode, fence, phase, control, gate, revoked, held, seen>>
          /\ \A h \in held : FenceOf(h.tag) # fence
      BY <1>1 DEF PlanEffect, WorkerIdle, memory, ledger, cleanup, world
    <2>2. \A h \in held : h.at \notin InGate
      BY <2>1 DEF GateInv, GateIsCurrent
    <2>3. \A j \in Keys : eff'[j].tag.c = eff[j].tag.c
      BY <1>1 DEF PlanEffect, TypeOK, Tag
    <2>4. HeldIsFresh'
      BY <2>1, <2>3 DEF GateInv, HeldIsFresh, TypeOK
    <2> QED
      BY <2>1, <2>2, <2>4 DEF GateInv, DownIsEmpty, ControlledIsSealed, HeldIsUnique,
         OneWorkerPerFence, GateNotRevoked, GateIsCurrent
  <1>2. CASE ClaimEffect(k)
    <2> DEFINE t == Tag(fence, eff[k].tag.c + 1)
               n == [key |-> k, tag |-> t, at |-> "claimed"]
    <2>1. /\ UNCHANGED <<mode, fence, phase, control, gate, revoked, seen>>
          /\ mode = "serving"
          /\ \A h \in held : FenceOf(h.tag) # fence
          /\ \A o \in seen : o.cur # fence
          /\ eff' = [eff EXCEPT ![k] = [st |-> "executing", tag |-> t]]
          /\ held' = held \cup {n}
      BY <1>2 DEF ClaimEffect, WorkerIdle, memory, ledger, cleanup, world
    <2>2. FenceOf(t) = fence /\ t.c = eff[k].tag.c + 1 /\ eff[k].tag.c \in Nat
      BY DEF Tag, FenceOf, TypeOK, Fences, Tags
    <2>3. n.key = k /\ n.tag = t /\ n.at \notin InGate
      BY DEF InGate
    <2> HIDE DEF t, n
    <2>4. \A h \in held : h.at \notin InGate
      BY <2>1 DEF GateInv, GateIsCurrent
    <2>5. \A h \in held : h.key \in Keys /\ h.tag.c \in Nat /\ eff[h.key].tag.c \in Nat
      BY DEF TypeOK, Tags
    <2>6. eff'[k].tag = t /\ \A j \in Keys : j # k => eff'[j] = eff[j]
      BY <2>1 DEF TypeOK
    <2>7. HeldIsFresh'
      BY <2>1, <2>2, <2>3, <2>5, <2>6 DEF GateInv, HeldIsFresh
    <2>8. HeldIsUnique'
      BY <2>1, <2>2, <2>3, <2>5 DEF GateInv, HeldIsFresh, HeldIsUnique
    <2>9. OneWorkerPerFence'
      BY <2>1, <2>2, <2>3 DEF GateInv, OneWorkerPerFence
    <2> QED
      BY <2>1, <2>3, <2>4, <2>7, <2>8, <2>9 DEF GateInv, DownIsEmpty, ControlledIsSealed,
         GateNotRevoked, GateIsCurrent
  <1>3. CASE Observe(k)
    <2>1. /\ UNCHANGED <<mode, fence, phase, control, gate, revoked, held, eff>>
          /\ mode = "serving"
          /\ \A h \in held : FenceOf(h.tag) # fence
          /\ \A o \in seen' : o \in seen \/ o.cur = fence
      BY <1>3 DEF Observe, WorkerIdle, memory, ledger, cleanup, world
    <2> QED
      BY <2>1 DEF GateInv, DownIsEmpty, ControlledIsSealed, HeldIsFresh, HeldIsUnique,
         OneWorkerPerFence, GateNotRevoked, GateIsCurrent
  <1>4. CASE OrphanApplies(k) \/ OrphanExits(k)
    <2>1. UNCHANGED <<mode, fence, phase, control, gate, revoked, held, seen, eff>>
      BY <1>4 DEF OrphanApplies, OrphanExits, memory, ledger, cleanup, world
    <2> QED
      BY <2>1 DEF GateInv, DownIsEmpty, ControlledIsSealed, HeldIsFresh, HeldIsUnique,
         OneWorkerPerFence, GateNotRevoked, GateIsCurrent
  <1> QED
    BY <1>1, <1>2, <1>3, <1>4

LEMMA GateObservation ==
    ASSUME TypeOK, GateInv, NEW o \in seen, WriteObservation(o)
    PROVE  GateInv'
  <1>0. o.key \in Keys /\ o.prior \in Tags
    BY DEF TypeOK
  <1>1. UNCHANGED <<mode, fence, phase, control, gate, revoked, held>> /\ seen' = seen \ {o}
    BY DEF WriteObservation, memory, ledger, cleanup, world
  <1>2. CASE eff' = eff
    BY <1>1, <1>2 DEF GateInv, DownIsEmpty, ControlledIsSealed, HeldIsFresh, HeldIsUnique,
       OneWorkerPerFence, GateNotRevoked, GateIsCurrent
  <1>3. CASE eff' # eff
    <2>1. o.cur = fence /\ eff[o.key].tag = o.prior
      BY <1>3 DEF WriteObservation, ObserveEffect, ReconcileInvalidatedEffect,
         ConfirmRecoveredMerge, TicketFence, CurrentTicketFence
    <2>2. \A h \in held : h.at \notin InGate
      BY <2>1 DEF GateInv, GateIsCurrent, OneWorkerPerFence
    <2>3. \A j \in Keys : eff[j].tag.c <= eff'[j].tag.c
      <3>1. CASE ObserveEffect(o)
        BY <1>0, <3>1 DEF ObserveEffect, TypeOK, Tags
      <3>2. CASE ReconcileInvalidatedEffect(o)
        BY <1>0, <2>1, <3>2 DEF ReconcileInvalidatedEffect, TypeOK, Tags, Tag
      <3>3. CASE ConfirmRecoveredMerge(o)
        BY <1>0, <2>1, <3>3 DEF ConfirmRecoveredMerge, TypeOK, Tags, Tag
      <3> QED
        BY <1>3, <3>1, <3>2, <3>3 DEF WriteObservation
    <2>4. \A h \in held : h.key \in Keys /\ h.tag.c \in Nat /\ eff[h.key].tag.c \in Nat
      BY DEF TypeOK, Tags
    <2>5. \A j \in Keys : eff'[j].tag.c \in Nat
      BY EffectsTypeObservation DEF TypeOK, Tags
    <2>6. HeldIsFresh'
      BY <1>1, <2>3, <2>4, <2>5 DEF GateInv, HeldIsFresh
    <2> QED
      BY <1>1, <2>2, <2>6 DEF GateInv, DownIsEmpty, ControlledIsSealed, HeldIsUnique,
         OneWorkerPerFence, GateNotRevoked, GateIsCurrent
  <1> QED
    BY <1>2, <1>3

\* With nothing in the gate the fence, the phase and the drain may move.
LEMMA GateEmptyMoves ==
    ASSUME TypeOK, GateInv, UNCHANGED <<mode, eff, held, seen>>,
           \A h \in held : h.at \notin InGate, ControlledIsSealed'
    PROVE  GateInv'
  BY DEF GateInv, DownIsEmpty, HeldIsFresh, HeldIsUnique, OneWorkerPerFence,
     GateNotRevoked, GateIsCurrent

LEMMA GateControl ==
    ASSUME TypeOK, GateInv, Control
    PROVE  GateInv'
  <1>0. gate = "free" \/ revoked = fence => \A h \in held : h.at \notin InGate
    BY DEF GateInv, GateIsCurrent, GateNotRevoked
  <1>1. CASE Drain
    BY <1>0, <1>1, GateEmptyMoves DEF Drain, GateInv, ControlledIsSealed, memory, ledger, cleanup, world
  <1>2. CASE Transition
    BY <1>0, <1>2, GateEmptyMoves DEF Transition, GateInv, ControlledIsSealed, memory, ledger, cleanup, world
  <1>3. CASE TransitionAndInvalidateRunner
    BY <1>0, <1>3, GateEmptyMoves DEF TransitionAndInvalidateRunner, GateInv, ControlledIsSealed, memory, ledger, cleanup, world
  <1>4. CASE CompleteControlTransition
    BY <1>0, <1>4, GateEmptyMoves DEF CompleteControlTransition, GateInv, ControlledIsSealed, memory, ledger, cleanup, world
  <1>5. CASE Resume
    BY <1>0, <1>5, GateEmptyMoves DEF Resume, GateInv, ControlledIsSealed, memory, ledger, cleanup, world
  <1>6. CASE Rearm
    BY <1>0, <1>6, GateEmptyMoves DEF Rearm, GateInv, ControlledIsSealed, memory, ledger, cleanup, world
  <1> QED
    BY <1>1, <1>2, <1>3, <1>4, <1>5, <1>6 DEF Control

LEMMA GateRecovery ==
    ASSUME TypeOK, GateInv, Recovery
    PROVE  GateInv'
  <1>0. ASSUME held' = {}, seen' = {}, ControlledIsSealed'
        PROVE  GateInv'
    BY <1>0 DEF GateInv, DownIsEmpty, HeldIsFresh, HeldIsUnique, OneWorkerPerFence,
       GateNotRevoked, GateIsCurrent
  <1>1. CASE Crash
    BY <1>0, <1>1 DEF Crash, GateInv, ControlledIsSealed
  <1>2. CASE Start
    BY <1>0, <1>2 DEF Start, GateInv, ControlledIsSealed, DownIsEmpty
  <1>3. CASE ReconcileEffects
    BY <1>0, <1>3 DEF ReconcileEffects, GateInv, ControlledIsSealed, DownIsEmpty, memory
  <1>4. CASE FenceRecoveredRunners
    BY <1>0, <1>4 DEF FenceRecoveredRunners, GateInv, ControlledIsSealed, DownIsEmpty, memory
  <1>5. CASE Reboot
    BY <1>0, <1>5 DEF Reboot, GateInv, ControlledIsSealed, DownIsEmpty, memory
  <1>6. CASE PrepareExternalCleanupRecovery \/ RecoverExternalCleanup \/ ReadUncertain
    <2>1. UNCHANGED <<mode, fence, phase, control, gate, revoked, held, seen, eff>>
      BY <1>6 DEF PrepareExternalCleanupRecovery, RecoverExternalCleanup, ReadUncertain,
         memory, ledger
    <2> QED
      BY <2>1 DEF GateInv, DownIsEmpty, ControlledIsSealed, HeldIsFresh, HeldIsUnique,
         OneWorkerPerFence, GateNotRevoked, GateIsCurrent
  <1> QED
    BY <1>1, <1>2, <1>3, <1>4, <1>5, <1>6 DEF Recovery

LEMMA GateStep == TypeOK /\ GateInv /\ [Next]_vars => GateInv'
  <1> SUFFICES ASSUME TypeOK, GateInv, [Next]_vars PROVE GateInv'
    OBVIOUS
  <1>1. CASE UNCHANGED vars
    BY <1>1 DEF GateInv, DownIsEmpty, ControlledIsSealed, HeldIsFresh, HeldIsUnique,
       OneWorkerPerFence, GateNotRevoked, GateIsCurrent, vars, memory, ledger
  <1> QED
    BY <1>1, GateKey, GateWorker, GateObservation, GateControl, GateRecovery DEF Next

LEMMA GateInit == Init => GateInv
  BY DEF Init, GateInv, DownIsEmpty, ControlledIsSealed, HeldIsFresh, HeldIsUnique,
     OneWorkerPerFence, GateNotRevoked, GateIsCurrent

\* Whatever runs inside RunExternalMutation is the executing row's own claim,
\* under the ticket's current fence, with admission open.
THEOREM GateAlwaysCurrent == Spec => []GateIsCurrent
  <1>1. Init => TypeOK /\ GateInv
    BY EffectsTypeInit, GateInit
  <1>2. (TypeOK /\ GateInv) /\ [Next]_vars => (TypeOK /\ GateInv)'
    BY EffectsTypeStep, GateStep
  <1>3. TypeOK /\ GateInv => GateIsCurrent
    BY DEF GateInv
  <1> QED
    BY <1>1, <1>2, <1>3, PTL DEF Spec

-----------------------------------------------------------------------------
(* At most one handoff *)

\* Once is a set of keys without the ready effects, and keys of one kind are
\* not of another.
LEMMA OnceKeys ==
    /\ Once \subseteq Keys /\ Creates \subseteq Once /\ Merges \subseteq Once
    /\ \A k \in Once : k \in Creates \/ k \in Merges
    /\ \A k \in Creates : k \notin Merges
  BY EffectsAssumption DEF Once, Keys

LEMMA HandoffInit == Init => HandoffInv
  <1> SUFFICES ASSUME Init PROVE HandoffInv
    OBVIOUS
  <1> QED
    BY OnceKeys DEF Init, HandoffInv, RetryableIsUnsent, PendingIsUnsent, IntentBeforeSend,
       IntentBeforeGate, AbsenceIsOld, AtMostOneHandoff

LEMMA HandoffKey ==
    ASSUME TypeOK, GateInv, HandoffInv, NEW k \in Keys,
           PlanEffect(k) \/ ClaimEffect(k) \/ Observe(k) \/ OrphanApplies(k)
             \/ OrphanExits(k)
    PROVE  HandoffInv'
  <1>0. sent' = sent /\ intent' = intent
    BY DEF PlanEffect, ClaimEffect, Observe, OrphanApplies, OrphanExits, ledger, world
  <1>1. CASE PlanEffect(k)
    <2>1. /\ held' = held /\ seen' = seen
          /\ \A h \in held : FenceOf(h.tag) # fence
          /\ eff[k].st \in {"none", "planned", "failed"}
      BY <1>1 DEF PlanEffect, WorkerIdle, memory
    <2>2. /\ eff'[k].st \in {"planned", "failed"}
          /\ eff'[k].tag = Tag(fence, eff[k].tag.c)
          /\ \A j \in Keys : j # k => eff'[j] = eff[j]
      BY <1>1 DEF PlanEffect, TypeOK
    <2>3. FenceOf(eff'[k].tag) = fence /\ eff'[k].tag.c = eff[k].tag.c
      BY <2>2 DEF FenceOf, Tag, TypeOK, Fences
    <2>4. \A h \in held : h.key = k => eff'[k].tag # h.tag
      BY <2>1, <2>3
    <2>5. RetryableIsUnsent' /\ PendingIsUnsent'
      BY <1>0, <2>1, <2>2, <2>4, OnceKeys DEF HandoffInv, RetryableIsUnsent, PendingIsUnsent, TypeOK
    <2>6. AbsenceIsOld'
      BY <1>0, <2>1, <2>2, <2>3 DEF HandoffInv, AbsenceIsOld, TypeOK
    <2> QED
      BY <1>0, <2>1, <2>5, <2>6 DEF HandoffInv, IntentBeforeSend, IntentBeforeGate, AtMostOneHandoff
  <1>2. CASE ClaimEffect(k)
    <2> DEFINE t == Tag(fence, eff[k].tag.c + 1)
               n == [key |-> k, tag |-> t, at |-> "claimed"]
    <2>1. /\ eff' = [eff EXCEPT ![k] = [st |-> "executing", tag |-> t]]
          /\ held' = held \cup {n} /\ seen' = seen
          /\ eff[k].st \in {"none", "planned", "failed"}
      BY <1>2 DEF ClaimEffect
    <2>2. t.c = eff[k].tag.c + 1 /\ eff[k].tag.c \in Nat
      BY DEF Tag, TypeOK, Tags
    <2>3. n.key = k /\ n.tag = t /\ n.at = "claimed"
      OBVIOUS
    <2> HIDE DEF t, n
    <2>4. /\ eff'[k].tag = t /\ eff'[k].st = "executing"
          /\ \A j \in Keys : j # k => eff'[j] = eff[j]
      BY <2>1 DEF TypeOK
    <2>5. \A h \in held : h.key \in Keys /\ h.tag.c \in Nat /\ (h.key = k => h.tag # t)
      BY <2>2 DEF GateInv, HeldIsFresh, TypeOK, Tags
    <2>6. RetryableIsUnsent'
      BY <1>0, <2>4, OnceKeys DEF HandoffInv, RetryableIsUnsent
    <2>7. PendingIsUnsent'
      BY <1>0, <2>1, <2>3, <2>4, <2>5 DEF HandoffInv, RetryableIsUnsent, PendingIsUnsent
    <2>8. IntentBeforeGate'
      BY <1>0, <2>1, <2>3 DEF HandoffInv, IntentBeforeGate
    <2>9. AbsenceIsOld'
      <3> SUFFICES ASSUME NEW o \in seen, ~o.present, o.key \in Merges
                   PROVE  /\ o.prior.c <= eff'[o.key].tag.c
                          /\ eff'[o.key].st = "executing" \/ intent[o.key] # NoTag
                               => o.prior.c < eff'[o.key].tag.c
        BY <1>0, <2>1 DEF HandoffInv, AbsenceIsOld
      <3>1. o.prior.c \in Nat /\ o.key \in Keys /\ o.prior.c <= eff[o.key].tag.c
        BY DEF HandoffInv, AbsenceIsOld, TypeOK, Tags
      <3>2. CASE o.key = k
        BY <2>2, <2>4, <3>1, <3>2
      <3>3. CASE o.key # k
        BY <2>4, <3>1, <3>3 DEF HandoffInv, AbsenceIsOld
      <3> QED
        BY <3>2, <3>3
    <2> QED
      BY <1>0, <2>6, <2>7, <2>8, <2>9 DEF HandoffInv, IntentBeforeSend, AtMostOneHandoff
  <1>3. CASE Observe(k)
    <2>1. eff' = eff /\ held' = held
      BY <1>3 DEF Observe, ledger
    <2>2. PICK p \in BOOLEAN :
            /\ \/ /\ eff[k].st = "uncertain"
                  /\ Conclusive(k, p)
               \/ /\ eff[k].st = "executing"
                  /\ k \notin Merges
                  /\ Conclusive(k, p)
               \/ p
            /\ seen' = seen \cup {[key |-> k, prior |-> eff[k].tag, cur |-> fence,
                                   present |-> p]}
      BY <1>3 DEF Observe
    <2>3. ASSUME ~p
          PROVE  k \notin Creates /\ (k \in Merges => eff[k].st # "executing" /\ intent[k] = NoTag)
      BY <2>2, <2>3, EffectsAssumption DEF Conclusive
    <2>4. eff[k].tag.c \in Nat
      BY DEF TypeOK, Tags
    <2>5. AbsenceIsOld'
      BY <1>0, <2>1, <2>2, <2>3, <2>4 DEF HandoffInv, AbsenceIsOld
    <2> QED
      BY <1>0, <2>1, <2>5 DEF HandoffInv, RetryableIsUnsent, PendingIsUnsent,
         IntentBeforeSend, IntentBeforeGate, AtMostOneHandoff
  <1>4. CASE OrphanApplies(k) \/ OrphanExits(k)
    <2>1. eff' = eff /\ held' = held /\ seen' = seen
      BY <1>4 DEF OrphanApplies, OrphanExits, memory, ledger
    <2> QED
      BY <1>0, <2>1 DEF HandoffInv, RetryableIsUnsent, PendingIsUnsent,
         IntentBeforeSend, IntentBeforeGate, AbsenceIsOld, AtMostOneHandoff
  <1> QED
    BY <1>1, <1>2, <1>3, <1>4

LEMMA HandoffWorker ==
    ASSUME TypeOK, GateInv, HandoffInv, NEW h \in held, Worker(h)
    PROVE  HandoffInv'
  <1>0. h.key \in Keys /\ h.tag \in Tags /\ h.at \in Stages
    BY DEF TypeOK
  <1>1. ASSUME NEW s \in Stages, Advance(h, s), UNCHANGED <<eff, intent, sent, seen>>,
               s \in {"claimed", "intended", "gate", "before"} =>
                   h.at \in {"claimed", "intended", "gate", "before"},
               h.key \in Merges /\ s \in {"intended", "gate"} =>
                   h.at \in {"intended", "gate"}
        PROVE  HandoffInv'
    <2> DEFINE n == [h EXCEPT !.at = s]
    <2>1. /\ n.key = h.key /\ n.tag = h.tag /\ n.at = s
          /\ \A g \in held' : g = n \/ (g \in held /\ g # h)
      BY <1>1, AdvanceShape
    <2> HIDE DEF n
    <2>2. PendingIsUnsent'
      BY <1>1, <2>1 DEF HandoffInv, PendingIsUnsent
    <2>3. IntentBeforeGate'
      BY <1>1, <2>1 DEF HandoffInv, IntentBeforeGate
    <2> QED
      BY <1>1, <2>2, <2>3 DEF HandoffInv, RetryableIsUnsent, IntentBeforeSend,
         AbsenceIsOld, AtMostOneHandoff
  <1>2. CASE RecordMergeIntent(h)
    <2>1. CASE Advance(h, "lost") /\ intent' = intent
      BY <1>1, <1>2, <2>1 DEF RecordMergeIntent, Stages, InGate, ledger, world
    <2>2. CASE /\ ValidClaim(h) /\ intent' = [intent EXCEPT ![h.key] = h.tag]
               /\ Advance(h, "intended")
      <3> DEFINE n == [h EXCEPT !.at = "intended"]
      <3>0. "intended" \in Stages
        BY DEF Stages
      <3>1. /\ n.key = h.key /\ n.tag = h.tag /\ n.at = "intended"
            /\ \A g \in held' : g = n \/ (g \in held /\ g # h)
        BY <2>2, <3>0, AdvanceShape
      <3> HIDE DEF n
      <3>2. /\ h.at = "claimed" /\ h.key \in Merges
            /\ UNCHANGED <<eff, sent, seen>>
        BY <1>2 DEF RecordMergeIntent, world
      <3>3. h.tag # NoTag
        BY DEF GateInv, HeldIsFresh, NoTag
      <3>4. intent'[h.key] = h.tag /\ \A j \in Keys : j # h.key => intent'[j] = intent[j]
        BY <1>0, <2>2 DEF TypeOK
      <3>5. PendingIsUnsent'
        BY <3>1, <3>2 DEF HandoffInv, PendingIsUnsent
      <3>6. IntentBeforeGate'
        BY <3>1, <3>3, <3>4, OnceKeys DEF HandoffInv, IntentBeforeGate
      <3>7. IntentBeforeSend'
        BY <3>2, <3>3, <3>4, OnceKeys DEF HandoffInv, IntentBeforeSend
      <3>8. eff[h.key].st = "executing"
        BY <2>2 DEF ValidClaim
      <3>9. AbsenceIsOld'
        BY <3>2, <3>4, <3>8, OnceKeys DEF HandoffInv, AbsenceIsOld
      <3> QED
        BY <3>2, <3>5, <3>6, <3>7, <3>9 DEF HandoffInv, RetryableIsUnsent, AtMostOneHandoff
    <2> QED
      BY <1>2, <2>1, <2>2 DEF RecordMergeIntent
  <1>3. CASE EnterGate(h)
    BY <1>1, <1>3 DEF EnterGate, AtGate, Stages, InGate, ledger, world
  <1>4. CASE RefuseGate(h)
    BY <1>1, <1>4 DEF RefuseGate, AtGate, NotStarted, Stages, InGate, ledger, world
  <1>5. CASE RefuseLaunch(h)
    BY <1>1, <1>5 DEF RefuseLaunch, NotStarted, Stages, ledger, world
  <1>6. CASE Launch(h)
    <2> DEFINE n == [h EXCEPT !.at = "running"]
    <2>0. "running" \in Stages
      BY DEF Stages, InGate
    <2>1. /\ n.key = h.key /\ n.tag = h.tag /\ n.at = "running"
          /\ \A g \in held' : g = n \/ (g \in held /\ g # h)
      BY <1>6, <2>0, AdvanceShape DEF Launch
    <2> HIDE DEF n
    <2>2. /\ h.at = "gate" /\ UNCHANGED <<eff, intent, seen>>
          /\ sent'[h.key] = sent[h.key] + 1
          /\ \A j \in Keys : j # h.key => sent'[j] = sent[j]
      BY <1>0, <1>6 DEF Launch, TypeOK, ledger
    <2>3. eff[h.key] = [st |-> "executing", tag |-> h.tag]
      BY <2>2 DEF GateInv, GateIsCurrent, InGate
    <2>4. h.key \in Once => sent[h.key] = 0
      BY <2>2, <2>3 DEF HandoffInv, PendingIsUnsent
    <2>5. PendingIsUnsent'
      <3> SUFFICES ASSUME NEW g \in held', g.key \in Once,
                          g.at \in {"claimed", "intended", "gate", "before"},
                          eff[g.key].tag = g.tag
                   PROVE  sent'[g.key] = 0
        BY <2>2 DEF PendingIsUnsent
      <3>1. g \in held /\ g # h
        BY <2>1
      <3>2. g.key # h.key
        BY <2>3, <3>1 DEF GateInv, HeldIsUnique
      <3> QED
        BY <2>2, <3>1, <3>2, OnceKeys DEF HandoffInv, PendingIsUnsent
    <2>6. RetryableIsUnsent'
      BY <2>2, <2>3, OnceKeys DEF HandoffInv, RetryableIsUnsent
    <2>7. IntentBeforeSend'
      BY <2>2, OnceKeys DEF HandoffInv, IntentBeforeSend, IntentBeforeGate
    <2>8. IntentBeforeGate'
      BY <2>1, <2>2 DEF HandoffInv, IntentBeforeGate
    <2>9. AtMostOneHandoff'
      BY <2>2, <2>4, OnceKeys DEF HandoffInv, AtMostOneHandoff
    <2> QED
      BY <2>2, <2>5, <2>6, <2>7, <2>8, <2>9 DEF HandoffInv, AbsenceIsOld
  <1>7. CASE Apply(h)
    BY <1>1, <1>7 DEF Apply, Stages, InGate, ledger, world
  <1>8. CASE Return(h)
    BY <1>1, <1>8 DEF Return, Stages, ledger, world
  <1>9. CASE CleanupUncertain(h)
    BY <1>1, <1>9 DEF CleanupUncertain, Stages, ledger, world
  <1>10. CASE FinishEffect(h)
    <2>1. held' = held \ {h} /\ UNCHANGED <<intent, sent, seen>>
          /\ h.at \in {"ok", "before", "lost"}
      BY <1>10 DEF FinishEffect, world
    <2>2. CASE eff' = eff
      BY <2>1, <2>2 DEF HandoffInv, RetryableIsUnsent, PendingIsUnsent,
         IntentBeforeSend, IntentBeforeGate, AbsenceIsOld, AtMostOneHandoff
    <2>3. CASE eff' # eff
      <3>1. /\ eff[h.key].tag = h.tag
            /\ eff' = [eff EXCEPT ![h.key].st = Outcome(h)]
        BY <1>10, <2>3 DEF FinishEffect
      <3>2. /\ eff'[h.key].st = Outcome(h)
            /\ \A j \in Keys : eff'[j].tag = eff[j].tag /\ (j # h.key => eff'[j] = eff[j])
        BY <1>0, <3>1 DEF TypeOK
      <3>3. /\ Outcome(h) \in {"confirmed", "failed", "uncertain"}
            /\ Outcome(h) = "failed" => h.at = "before"
        BY <2>1 DEF Outcome
      <3>4. RetryableIsUnsent'
        BY <2>1, <3>1, <3>2, <3>3, OnceKeys DEF HandoffInv, RetryableIsUnsent, PendingIsUnsent
      <3>5. PendingIsUnsent'
        BY <2>1, <3>2, OnceKeys DEF HandoffInv, PendingIsUnsent
      <3>6. AbsenceIsOld'
        BY <2>1, <3>2, <3>3, OnceKeys DEF HandoffInv, AbsenceIsOld
      <3> QED
        BY <2>1, <3>4, <3>5, <3>6 DEF HandoffInv, IntentBeforeSend, IntentBeforeGate, AtMostOneHandoff
    <2> QED
      BY <2>2, <2>3
  <1> QED
    BY <1>2, <1>3, <1>4, <1>5, <1>6, <1>7, <1>8, <1>9, <1>10 DEF Worker

LEMMA HandoffObservation ==
    ASSUME TypeOK, GateInv, HandoffInv, NEW o \in seen, WriteObservation(o)
    PROVE  HandoffInv'
  <1>0. o.key \in Keys /\ o.prior \in Tags
    BY DEF TypeOK
  <1>1. UNCHANGED <<held, intent, sent>> /\ seen' = seen \ {o}
    BY DEF WriteObservation, world
  <1>2. CASE eff' = eff
    BY <1>1, <1>2 DEF HandoffInv, RetryableIsUnsent, PendingIsUnsent,
       IntentBeforeSend, IntentBeforeGate, AbsenceIsOld, AtMostOneHandoff
  <1>3. CASE eff' # eff
    <2>1. o.cur = fence /\ eff[o.key].tag = o.prior
      BY <1>3 DEF WriteObservation, ObserveEffect, ReconcileInvalidatedEffect,
         ConfirmRecoveredMerge, TicketFence, CurrentTicketFence
    <2>2. /\ eff'[o.key].st \in {"confirmed", "failed"}
          /\ eff'[o.key].st = "failed" => ~o.present
          /\ eff'[o.key].tag = eff[o.key].tag
             \/ eff'[o.key].tag \in {Tag(fence, o.prior.c + 1), Tag(fence, o.prior.c)}
          /\ \A j \in Keys : j # o.key => eff'[j] = eff[j]
      <3>1. CASE ObserveEffect(o)
        BY <1>0, <3>1 DEF ObserveEffect, TypeOK
      <3>2. CASE ReconcileInvalidatedEffect(o)
        BY <1>0, <2>1, <3>2 DEF ReconcileInvalidatedEffect, TypeOK
      <3>3. CASE ConfirmRecoveredMerge(o)
        BY <1>0, <2>1, <3>3 DEF ConfirmRecoveredMerge, TypeOK
      <3> QED
        BY <1>3, <3>1, <3>2, <3>3 DEF WriteObservation
    <2>3. o.prior.c \in Nat /\ o.prior.c <= eff'[o.key].tag.c /\ eff'[o.key].tag.c \in Nat
      BY <1>0, <2>1, <2>2 DEF Tag, Tags
    <2>4. ASSUME NEW h \in held, h.key = o.key, eff'[o.key].tag = h.tag
          PROVE  eff[o.key].tag = h.tag
      <3>1. FenceOf(h.tag) # fence
        BY <2>1 DEF GateInv, OneWorkerPerFence
      <3>2. FenceOf(Tag(fence, o.prior.c + 1)) = fence /\ FenceOf(Tag(fence, o.prior.c)) = fence
        BY DEF FenceOf, Tag, TypeOK, Fences
      <3> QED
        BY <2>2, <2>4, <3>1, <3>2
    <2>5. o.key \in Once /\ ~o.present => sent[o.key] = 0
      <3> SUFFICES ASSUME o.key \in Once, ~o.present PROVE sent[o.key] = 0
        OBVIOUS
      <3>1. o.key \in Merges /\ (intent[o.key] # NoTag => o.prior.c < eff[o.key].tag.c)
        BY OnceKeys DEF HandoffInv, AbsenceIsOld
      <3>2. intent[o.key] = NoTag
        BY <2>1, <2>3, <3>1
      <3> QED
        BY <3>1, <3>2 DEF HandoffInv, IntentBeforeSend
    <2>6. RetryableIsUnsent'
      BY <1>1, <2>2, <2>5, OnceKeys DEF HandoffInv, RetryableIsUnsent
    <2>7. PendingIsUnsent'
      BY <1>1, <2>2, <2>4, OnceKeys DEF HandoffInv, PendingIsUnsent
    <2>8. AbsenceIsOld'
      <3> SUFFICES ASSUME NEW p \in seen, ~p.present, p.key \in Merges
                   PROVE  /\ p.prior.c <= eff'[p.key].tag.c
                          /\ eff'[p.key].st = "executing" \/ intent[p.key] # NoTag
                               => p.prior.c < eff'[p.key].tag.c
        BY <1>1 DEF HandoffInv, AbsenceIsOld
      <3>1. p.prior.c \in Nat /\ p.key \in Keys
        BY DEF TypeOK, Tags
      <3>2. /\ p.prior.c <= eff[p.key].tag.c
            /\ eff[p.key].st = "executing" \/ intent[p.key] # NoTag
                 => p.prior.c < eff[p.key].tag.c
        BY DEF HandoffInv, AbsenceIsOld
      <3>3. CASE p.key = o.key
        BY <2>1, <2>2, <2>3, <3>1, <3>2, <3>3
      <3>4. CASE p.key # o.key
        BY <2>2, <3>1, <3>2, <3>4
      <3> QED
        BY <3>3, <3>4
    <2> QED
      BY <1>1, <2>6, <2>7, <2>8 DEF HandoffInv, IntentBeforeSend, IntentBeforeGate, AtMostOneHandoff
  <1> QED
    BY <1>2, <1>3

LEMMA HandoffControl ==
    ASSUME TypeOK, GateInv, HandoffInv, Control
    PROVE  HandoffInv'
  <1>1. UNCHANGED <<eff, intent, sent, held, seen>>
    BY DEF Control, Drain, Transition, TransitionAndInvalidateRunner,
       CompleteControlTransition, Resume, Rearm, memory, ledger, world
  <1> QED
    BY <1>1 DEF HandoffInv, RetryableIsUnsent, PendingIsUnsent,
       IntentBeforeSend, IntentBeforeGate, AbsenceIsOld, AtMostOneHandoff

LEMMA HandoffRecovery ==
    ASSUME TypeOK, GateInv, HandoffInv, Recovery
    PROVE  HandoffInv'
  <1>1. sent' = sent /\ intent' = intent
    BY DEF Recovery, Crash, Start, ReconcileEffects, FenceRecoveredRunners, Reboot,
       PrepareExternalCleanupRecovery, RecoverExternalCleanup, ReadUncertain, ledger, world
  <1>2. CASE ReconcileEffects
    <2>1. held' = {} /\ seen' = {}
      BY <1>2 DEF ReconcileEffects, GateInv, DownIsEmpty, memory
    <2>2. \A k \in Keys : eff'[k].st = eff[k].st \/ eff'[k].st = "uncertain"
      BY <1>2 DEF ReconcileEffects, TypeOK
    <2> QED
      BY <1>1, <2>1, <2>2, OnceKeys DEF HandoffInv, RetryableIsUnsent, PendingIsUnsent,
         IntentBeforeSend, IntentBeforeGate, AbsenceIsOld, AtMostOneHandoff
  <1>3. CASE ~ReconcileEffects
    <2>1. eff' = eff /\ (held' = held \/ held' = {}) /\ (seen' = seen \/ seen' = {})
      BY <1>3 DEF Recovery, Crash, Start, FenceRecoveredRunners, Reboot,
         PrepareExternalCleanupRecovery, RecoverExternalCleanup, ReadUncertain, memory, ledger
    <2> QED
      BY <1>1, <2>1 DEF HandoffInv, RetryableIsUnsent, PendingIsUnsent,
         IntentBeforeSend, IntentBeforeGate, AbsenceIsOld, AtMostOneHandoff
  <1> QED
    BY <1>2, <1>3

LEMMA HandoffStep == TypeOK /\ GateInv /\ HandoffInv /\ [Next]_vars => HandoffInv'
  <1> SUFFICES ASSUME TypeOK, GateInv, HandoffInv, [Next]_vars PROVE HandoffInv'
    OBVIOUS
  <1>1. CASE UNCHANGED vars
    BY <1>1 DEF HandoffInv, RetryableIsUnsent, PendingIsUnsent, IntentBeforeSend,
       IntentBeforeGate, AbsenceIsOld, AtMostOneHandoff, vars, memory, ledger, world
  <1> QED
    BY <1>1, HandoffKey, HandoffWorker, HandoffObservation, HandoffControl,
       HandoffRecovery DEF Next

\* The command of a draft pull request, its update or a merge is handed to a child
\* at most once, for any number of crashes, claims, pauses and effects.
THEOREM EffectHandedOffOnce == Spec => []AtMostOneHandoff
  <1>1. Init => TypeOK /\ GateInv /\ HandoffInv
    BY EffectsTypeInit, GateInit, HandoffInit
  <1>2. (TypeOK /\ GateInv /\ HandoffInv) /\ [Next]_vars => (TypeOK /\ GateInv /\ HandoffInv)'
    BY EffectsTypeStep, GateStep, HandoffStep
  <1>3. TypeOK /\ GateInv /\ HandoffInv => AtMostOneHandoff
    BY DEF HandoffInv
  <1> QED
    BY <1>1, <1>2, <1>3, PTL DEF Spec

-----------------------------------------------------------------------------
(* The ledger never forgets *)

LEMMA LedgerNext == TypeOK /\ [Next]_vars => LedgerStep
  <1> SUFFICES ASSUME TypeOK, [Next]_vars PROVE LedgerStep
    OBVIOUS
  <1>0. \A k \in Keys : eff[k].tag.c \in Nat
    BY DEF TypeOK, Tags
  <1>1. CASE eff' = eff
    BY <1>0, <1>1 DEF LedgerStep
  <1>2. ASSUME NEW k \in Keys, PlanEffect(k)
        PROVE  LedgerStep
    <2>1. /\ eff[k].st # "confirmed" /\ eff'[k].st # "executing"
          /\ eff'[k].tag = Tag(fence, eff[k].tag.c)
          /\ \A j \in Keys : j # k => eff'[j] = eff[j]
      BY <1>2 DEF PlanEffect, TypeOK
    <2>2. eff'[k].tag.c = eff[k].tag.c
      BY <2>1 DEF Tag
    <2> QED
      BY <1>0, <2>1, <2>2 DEF LedgerStep
  <1>3. ASSUME NEW k \in Keys, ClaimEffect(k)
        PROVE  LedgerStep
    <2>1. /\ eff[k].st # "confirmed"
          /\ eff'[k].tag = Tag(fence, eff[k].tag.c + 1)
          /\ \A j \in Keys : j # k => eff'[j] = eff[j]
      BY <1>3 DEF ClaimEffect, TypeOK
    <2>2. eff'[k].tag.c = eff[k].tag.c + 1
      BY <2>1 DEF Tag
    <2> QED
      BY <1>0, <2>1, <2>2 DEF LedgerStep
  <1>4. ASSUME NEW h \in held, FinishEffect(h), eff' # eff
        PROVE  LedgerStep
    <2>1. /\ h.key \in Keys /\ Outcome(h) # "executing"
          /\ eff[h.key].st # "confirmed"
          /\ eff' = [eff EXCEPT ![h.key].st = Outcome(h)]
      BY <1>4 DEF FinishEffect, Outcome, TypeOK
    <2>2. /\ eff'[h.key].st = Outcome(h)
          /\ \A j \in Keys : eff'[j].tag = eff[j].tag /\ (j # h.key => eff'[j] = eff[j])
      BY <2>1 DEF TypeOK
    <2> QED
      BY <1>0, <2>1, <2>2 DEF LedgerStep
  <1>5. ASSUME NEW o \in seen, WriteObservation(o), eff' # eff
        PROVE  LedgerStep
    <2>0. o.key \in Keys /\ o.prior.c \in Nat
      BY DEF TypeOK, Tags
    <2>1. eff[o.key].tag = o.prior
      BY <1>5 DEF WriteObservation, ObserveEffect, ReconcileInvalidatedEffect, ConfirmRecoveredMerge
    <2>2. /\ eff'[o.key].st \in {"confirmed", "failed"}
          /\ eff[o.key].st = "confirmed" => eff'[o.key].st = "confirmed"
          /\ eff'[o.key].tag \in {o.prior, Tag(o.cur, o.prior.c + 1), Tag(o.cur, o.prior.c)}
          /\ \A j \in Keys : j # o.key => eff'[j] = eff[j]
      <3>1. CASE ObserveEffect(o)
        BY <2>0, <2>1, <3>1 DEF ObserveEffect, TypeOK
      <3>2. CASE ReconcileInvalidatedEffect(o)
        BY <2>0, <3>2 DEF ReconcileInvalidatedEffect, TypeOK
      <3>3. CASE ConfirmRecoveredMerge(o)
        BY <2>0, <3>3 DEF ConfirmRecoveredMerge, TypeOK
      <3> QED
        BY <1>5, <3>1, <3>2, <3>3 DEF WriteObservation
    <2>3. eff'[o.key].tag.c \in {o.prior.c, o.prior.c + 1}
      BY <2>2 DEF Tag
    <2> QED
      BY <1>0, <2>0, <2>1, <2>2, <2>3 DEF LedgerStep
  <1>6. CASE ReconcileEffects
    <2>1. ASSUME NEW k \in Keys
          PROVE  eff'[k] = eff[k] \/ (/\ eff[k].st # "confirmed" /\ eff'[k].st = "uncertain"
                                     /\ eff'[k].tag.c = eff[k].tag.c + 1)
      BY <1>6 DEF ReconcileEffects, Unsettled, Stranded, TypeOK
    <2> QED
      BY <1>0, <2>1 DEF LedgerStep
  <1>7. CASE ~ReconcileEffects /\ (Recovery \/ Control \/ UNCHANGED vars)
    BY <1>1, <1>7 DEF Recovery, Crash, Start, FenceRecoveredRunners, Reboot,
       PrepareExternalCleanupRecovery, RecoverExternalCleanup, ReadUncertain, Control, Drain,
       Transition, TransitionAndInvalidateRunner, CompleteControlTransition, Resume, Rearm,
       vars, ledger
  <1>8. ASSUME NEW h \in held, Worker(h), ~FinishEffect(h)
        PROVE  eff' = eff
    BY <1>8 DEF Worker, RecordMergeIntent, EnterGate, RefuseGate, RefuseLaunch, Launch,
       Apply, Return, CleanupUncertain, ledger
  <1>9. ASSUME NEW k \in Keys, Observe(k) \/ OrphanApplies(k) \/ OrphanExits(k)
        PROVE  eff' = eff
    BY <1>9 DEF Observe, OrphanApplies, OrphanExits, ledger
  <1> QED
    BY <1>1, <1>2, <1>3, <1>4, <1>5, <1>6, <1>7, <1>8, <1>9 DEF Next, Recovery

\* A confirmed effect stays confirmed, claim epochs never go back and an
\* execution starts only with a fresh claim epoch (effects.go).
THEOREM LedgerNeverForgets == Spec => LedgerMonotone
  <1>1. TypeOK /\ [Next]_vars => [LedgerStep]_vars
    BY LedgerNext
  <1> QED
    BY <1>1, EffectsTypeInit, EffectsTypeStep, PTL DEF Spec, LedgerMonotone

-----------------------------------------------------------------------------
(***************************************************************************)
(* What makes a stopped ticket quiet.  A controlled ticket's ledger stays  *)
(* settled; every command sent is at most one landing, one child left      *)
(* behind or one running claim; what is confirmed, or was observed, has    *)
(* landed.  With AtMostOneHandoff this leaves no child to a settled row.   *)
(***************************************************************************)
StoppedIsSettled == phase \in {"paused", "cancelled"} => Outstanding = {}
SentIsAccounted ==
    /\ \A k \in Once : child[k] + landed[k] <= sent[k]
    /\ \A h \in held : h.key \in Once /\ h.at = "running" =>
           child[h.key] + landed[h.key] + 1 <= sent[h.key]
AppliedIsLanded == \A h \in held : h.at \in {"applied", "ok"} => landed[h.key] >= 1
PresentIsLanded == \A o \in seen : o.present => landed[o.key] >= 1
ConfirmedIsLanded == \A k \in Keys : eff[k].st = "confirmed" => landed[k] >= 1

QuietInv ==
    /\ StoppedIsSettled /\ SentIsAccounted /\ AppliedIsLanded
    /\ PresentIsLanded /\ ConfirmedIsLanded

(***************************************************************************)
(* What makes a reboot a proof.  Under a quarantine no command runs in the *)
(* gate, so no child is left behind; a checkpoint of an earlier boot was   *)
(* taken before every child of that boot died.                             *)
(***************************************************************************)
QuarantinedIsIdle == quar => \A h \in held : h.at \notin {"running", "applied"}
CheckpointIsOld ==
    /\ ckpt <= boot
    /\ ckpt # 0 => quar
    /\ ckpt # 0 /\ ckpt # boot => \A k \in Keys : child[k] = 0

BootInv == QuarantinedIsIdle /\ CheckpointIsOld

(***************************************************************************)
(* What bounds the landings of "mark ready".  Until its row's execution    *)
(* lands under supervision, every landing, past or still to come, is that  *)
(* of a child left unsupervised; an absence is written back only while     *)
(* that holds, since the claim observed is of an older fence and can no    *)
(* longer be launched.                                                     *)
(***************************************************************************)
Unspent(k) == landed[k] + child[k] <= abandoned[k]

HeldIsNotAhead == \A h \in held : h.tag.v <= fence.v
SeenIsOld == \A o \in seen : o.prior.c <= eff[o.key].tag.c
ObservedIsPast ==
    \A o \in seen, h \in held : h.key = o.key /\ h.tag = o.prior => FenceOf(h.tag) # fence
ReadyIsBounded ==
    \A k \in Readies : landed[k] + child[k] <= abandoned[k] + 1 /\ child[k] <= abandoned[k]
RetryableIsUnspent ==
    \A k \in Readies : eff[k].st \in {"none", "planned", "failed"} => Unspent(k)
PendingIsUnspent ==
    \A h \in held : h.key \in Readies /\ eff[h.key].tag = h.tag
                     /\ h.at \in {"claimed", "gate", "before", "running"} => Unspent(h.key)
AbsentIsUnspent ==
    \A o \in seen : o.key \in Readies /\ ~o.present /\ eff[o.key].tag = o.prior
                     /\ eff[o.key].st \in {"executing", "uncertain"} => Unspent(o.key)

ReadyInv ==
    /\ HeldIsNotAhead /\ SeenIsOld /\ ObservedIsPast /\ ReadyIsBounded
    /\ RetryableIsUnspent /\ PendingIsUnspent /\ AbsentIsUnspent

-----------------------------------------------------------------------------
(* A stopped ticket is quiet *)

\* Whoever is in the gate is alone there, before and after it moves on.
LEMMA AdvanceInGate ==
    ASSUME TypeOK, GateInv, NEW h \in held, h.at \in InGate,
           NEW s \in Stages, Advance(h, s)
    PROVE  /\ \A g \in held : g.at \in InGate => g = h
           /\ \A g \in held' : \/ g.key = h.key /\ g.tag = h.tag /\ g.at = s
                               \/ g \in held /\ g # h /\ g.at \notin InGate
  <1>1. \A g \in held : g.at \in InGate => g = h
    BY DEF GateInv, GateIsCurrent
  <1> DEFINE n == [h EXCEPT !.at = s]
  <1>2. /\ n.key = h.key /\ n.tag = h.tag /\ n.at = s
        /\ \A g \in held' : g = n \/ (g \in held /\ g # h)
    BY AdvanceShape
  <1> HIDE DEF n
  <1>3. ASSUME NEW g \in held'
        PROVE  \/ g.key = h.key /\ g.tag = h.tag /\ g.at = s
               \/ g \in held /\ g # h /\ g.at \notin InGate
    <2>1. CASE g = n
      BY <1>2, <2>1
    <2>2. CASE g \in held /\ g # h
      BY <1>1, <2>2
    <2> QED
      BY <1>2, <2>1, <2>2
  <1> QED
    BY <1>1, <1>3

LEMMA QuietInit == Init => QuietInv
  <1> SUFFICES ASSUME Init PROVE QuietInv
    OBVIOUS
  <1> QED
    BY OnceKeys DEF Init, QuietInv, StoppedIsSettled, SentIsAccounted, AppliedIsLanded,
       PresentIsLanded, ConfirmedIsLanded

\* The parts that a step can only disturb by planning an effect, stopping the
\* ticket, adding an observation or confirming a row.
LEMMA QuietFrame ==
    ASSUME TypeOK, QuietInv, phase' = phase, eff' = eff, seen' = seen,
           \A k \in Keys : landed'[k] \in Nat /\ landed'[k] >= landed[k]
    PROVE  StoppedIsSettled' /\ PresentIsLanded' /\ ConfirmedIsLanded'
  <1>1. StoppedIsSettled'
    BY DEF QuietInv, StoppedIsSettled, Outstanding
  <1>2. PresentIsLanded'
    BY DEF QuietInv, PresentIsLanded, TypeOK
  <1>3. ConfirmedIsLanded'
    BY DEF QuietInv, ConfirmedIsLanded, TypeOK
  <1> QED
    BY <1>1, <1>2, <1>3

LEMMA QuietWorker ==
    ASSUME TypeOK, GateInv, QuietInv, NEW h \in held, Worker(h)
    PROVE  QuietInv'
  <1>0. /\ h.key \in Keys /\ h.tag \in Tags /\ h.at \in Stages
        /\ \A k \in Keys : child[k] \in Nat /\ landed[k] \in Nat /\ sent[k] \in Nat
    BY DEF TypeOK
  <1>1. ASSUME NEW s \in Stages \ {"running", "applied", "ok"}, Advance(h, s),
               UNCHANGED <<phase, eff, seen, child, sent, landed>>
        PROVE  QuietInv'
    <2>1. \A g \in held' : g.at \in {"running", "applied", "ok"} => g \in held
      BY <1>1, AdvanceShape
    <2>2. SentIsAccounted' /\ AppliedIsLanded'
      BY <1>1, <2>1 DEF QuietInv, SentIsAccounted, AppliedIsLanded
    <2>3. StoppedIsSettled' /\ PresentIsLanded' /\ ConfirmedIsLanded'
      BY <1>0, <1>1, QuietFrame
    <2> QED
      BY <2>2, <2>3 DEF QuietInv
  <1>2. CASE RecordMergeIntent(h) \/ EnterGate(h) \/ RefuseGate(h) \/ RefuseLaunch(h)
    <2>1. PICK s \in {"intended", "lost", "gate", "before"} : Advance(h, s)
      BY <1>2 DEF RecordMergeIntent, EnterGate, RefuseGate, RefuseLaunch, NotStarted
    <2>2. UNCHANGED <<phase, eff, seen, child, sent, landed>>
      BY <1>2 DEF RecordMergeIntent, EnterGate, RefuseGate, RefuseLaunch, ledger, world
    <2> QED
      BY <1>1, <2>1, <2>2 DEF Stages, InGate
  <1>3. CASE Launch(h)
    <2>1. /\ h.at \in InGate /\ Advance(h, "running") /\ "running" \in Stages
          /\ sent' = [sent EXCEPT ![h.key] = @ + 1]
          /\ UNCHANGED <<phase, eff, seen, child, landed>>
      BY <1>3 DEF Launch, InGate, Stages, ledger
    <2>2. \A g \in held' : \/ g.key = h.key /\ g.at = "running"
                           \/ g \in held /\ g.at \notin InGate
      BY <2>1, AdvanceInGate
    <2>3. \A k \in Keys : sent'[k] = IF k = h.key THEN sent[k] + 1 ELSE sent[k]
      BY <1>0, <2>1 DEF TypeOK
    <2>4. SentIsAccounted'
      BY <1>0, <2>1, <2>2, <2>3, OnceKeys DEF QuietInv, SentIsAccounted, InGate
    <2>5. AppliedIsLanded'
      BY <2>1, <2>2 DEF QuietInv, AppliedIsLanded
    <2>6. StoppedIsSettled' /\ PresentIsLanded' /\ ConfirmedIsLanded'
      BY <1>0, <2>1, QuietFrame
    <2> QED
      BY <2>4, <2>5, <2>6 DEF QuietInv
  <1>4. CASE Apply(h)
    <2>1. /\ h.at = "running" /\ h.at \in InGate
          /\ Advance(h, "applied") /\ "applied" \in Stages
          /\ landed' = [landed EXCEPT ![h.key] = @ + 1]
          /\ UNCHANGED <<phase, eff, seen, child, sent>>
      BY <1>4 DEF Apply, InGate, Stages, ledger
    <2>2. \A g \in held' : \/ g.key = h.key /\ g.at = "applied"
                           \/ g \in held /\ g.at \notin InGate
      BY <2>1, AdvanceInGate
    <2>3. \A k \in Keys : landed'[k] = IF k = h.key THEN landed[k] + 1 ELSE landed[k]
      BY <1>0, <2>1 DEF TypeOK
    <2>4. SentIsAccounted'
      BY <1>0, <2>1, <2>2, <2>3, OnceKeys DEF QuietInv, SentIsAccounted, InGate
    <2>5. AppliedIsLanded'
      BY <1>0, <2>1, <2>2, <2>3 DEF QuietInv, AppliedIsLanded, TypeOK
    <2>6. StoppedIsSettled' /\ PresentIsLanded' /\ ConfirmedIsLanded'
      BY <1>0, <2>1, <2>3, QuietFrame
    <2> QED
      BY <2>4, <2>5, <2>6 DEF QuietInv
  <1>5. CASE Return(h)
    <2>1. PICK s \in {"ok", "lost"} : (s = "ok" => h.at = "applied") /\ Advance(h, s)
      BY <1>5 DEF Return
    <2>2. h.at \in InGate /\ UNCHANGED <<phase, eff, seen, child, sent, landed>>
      BY <1>5 DEF Return, InGate, ledger, world
    <2>3. \A g \in held' : \/ g.key = h.key /\ g.at = s
                           \/ g \in held /\ g.at \notin InGate
      BY <2>1, <2>2, AdvanceInGate DEF Stages
    <2>4. SentIsAccounted'
      BY <2>1, <2>2, <2>3 DEF QuietInv, SentIsAccounted, InGate
    <2>5. AppliedIsLanded'
      BY <2>1, <2>2, <2>3 DEF QuietInv, AppliedIsLanded
    <2>6. StoppedIsSettled' /\ PresentIsLanded' /\ ConfirmedIsLanded'
      BY <1>0, <2>2, QuietFrame
    <2> QED
      BY <2>4, <2>5, <2>6 DEF QuietInv
  <1>6. CASE CleanupUncertain(h)
    <2>1. /\ h.at \in InGate /\ Advance(h, "lost") /\ "lost" \in Stages
          /\ child' = [child EXCEPT ![h.key] = IF h.at = "running" THEN @ + 1 ELSE @]
          /\ UNCHANGED <<phase, eff, seen, sent, landed>>
      BY <1>6 DEF CleanupUncertain, Stages, ledger
    <2>2. \A g \in held' : g.at = "lost" \/ (g \in held /\ g.at \notin InGate)
      BY <2>1, AdvanceInGate
    <2>3. \A k \in Keys : child'[k] = IF k = h.key /\ h.at = "running"
                                      THEN child[k] + 1 ELSE child[k]
      BY <1>0, <2>1 DEF TypeOK
    <2>4. SentIsAccounted'
      BY <1>0, <2>1, <2>2, <2>3, OnceKeys DEF QuietInv, SentIsAccounted, InGate
    <2>5. AppliedIsLanded'
      BY <2>1, <2>2 DEF QuietInv, AppliedIsLanded
    <2>6. StoppedIsSettled' /\ PresentIsLanded' /\ ConfirmedIsLanded'
      BY <1>0, <2>1, QuietFrame
    <2> QED
      BY <2>4, <2>5, <2>6 DEF QuietInv
  <1>7. CASE FinishEffect(h)
    <2>1. held' = held \ {h} /\ UNCHANGED <<phase, seen, child, sent, landed>>
      BY <1>7 DEF FinishEffect, world
    <2>2. SentIsAccounted' /\ AppliedIsLanded' /\ PresentIsLanded'
      BY <2>1 DEF QuietInv, SentIsAccounted, AppliedIsLanded, PresentIsLanded
    <2>3. CASE eff' = eff
      BY <1>0, <2>1, <2>2, <2>3, QuietFrame DEF QuietInv
    <2>4. CASE eff' # eff
      <3>1. /\ control # "sealed" /\ phase # "cancelled"
            /\ eff' = [eff EXCEPT ![h.key].st = Outcome(h)]
        BY <1>7, <2>4 DEF FinishEffect, TicketFence
      <3>2. StoppedIsSettled'
        BY <2>1, <3>1 DEF GateInv, ControlledIsSealed, StoppedIsSettled
      <3>3. ASSUME NEW k \in Keys, eff'[k].st = "confirmed"
            PROVE  landed'[k] >= 1
        BY <1>0, <2>1, <3>1, <3>3
           DEF QuietInv, ConfirmedIsLanded, AppliedIsLanded, Outcome, TypeOK
      <3> QED
        BY <2>2, <3>2, <3>3 DEF QuietInv, ConfirmedIsLanded
    <2> QED
      BY <2>3, <2>4
  <1> QED
    BY <1>2, <1>3, <1>4, <1>5, <1>6, <1>7 DEF Worker

LEMMA QuietKey ==
    ASSUME TypeOK, GateInv, QuietInv, NEW k \in Keys,
           PlanEffect(k) \/ ClaimEffect(k) \/ Observe(k) \/ OrphanApplies(k)
             \/ OrphanExits(k)
    PROVE  QuietInv'
  <1>0. /\ phase' = phase /\ sent' = sent
        /\ \A j \in Keys : child[j] \in Nat /\ landed[j] \in Nat /\ sent[j] \in Nat
    BY DEF TypeOK, PlanEffect, ClaimEffect, Observe, OrphanApplies, OrphanExits, world
  <1>1. CASE PlanEffect(k) \/ ClaimEffect(k)
    <2>1. /\ phase = "active" /\ UNCHANGED <<seen, child, landed>>
          /\ held' \subseteq held \cup [key : {k}, tag : Tags, at : {"claimed"}]
          /\ \A j \in Keys : eff'[j].st = "confirmed" => eff[j].st = "confirmed"
      <3>1. CASE PlanEffect(k)
        BY <3>1 DEF PlanEffect, WorkerIdle, TypeOK, memory, world
      <3>2. CASE ClaimEffect(k)
        <4>1. Tag(fence, eff[k].tag.c + 1) \in Tags
          BY DEF Tag, Tags, Fences, TypeOK
        <4> QED
          BY <3>2, <4>1 DEF ClaimEffect, WorkerIdle, TypeOK, world
      <3> QED
        BY <1>1, <3>1, <3>2
    <2>2. \A g \in held' : g \in held \/ g.at = "claimed"
      BY <2>1
    <2>3. SentIsAccounted' /\ AppliedIsLanded'
      BY <1>0, <2>1, <2>2 DEF QuietInv, SentIsAccounted, AppliedIsLanded
    <2>4. StoppedIsSettled' /\ PresentIsLanded' /\ ConfirmedIsLanded'
      BY <1>0, <2>1 DEF QuietInv, StoppedIsSettled, PresentIsLanded, ConfirmedIsLanded
    <2> QED
      BY <2>3, <2>4 DEF QuietInv
  <1>2. CASE Observe(k)
    <2>1. UNCHANGED <<eff, held, child, landed>>
      BY <1>2 DEF Observe, ledger, world
    <2>2. \A o \in seen' : o \in seen \/ (o.key = k /\ (o.present => landed[k] >= 1))
      BY <1>0, <1>2 DEF Observe
    <2>3. PresentIsLanded'
      BY <2>1, <2>2 DEF QuietInv, PresentIsLanded
    <2>4. /\ StoppedIsSettled' /\ SentIsAccounted' /\ AppliedIsLanded' /\ ConfirmedIsLanded'
      BY <1>0, <2>1 DEF QuietInv, StoppedIsSettled, Outstanding, SentIsAccounted,
         AppliedIsLanded, ConfirmedIsLanded
    <2> QED
      BY <2>3, <2>4 DEF QuietInv
  <1>3. CASE OrphanApplies(k) \/ OrphanExits(k)
    <2>0. /\ UNCHANGED <<eff, held, seen>>
          /\ child[k] > 0 /\ child'[k] = child[k] - 1
          /\ landed'[k] \in {landed[k], landed[k] + 1}
          /\ \A j \in Keys : j # k => child'[j] = child[j] /\ landed'[j] = landed[j]
      BY <1>3 DEF OrphanApplies, OrphanExits, TypeOK, ledger, memory
    <2>1. \A j \in Keys : /\ landed'[j] >= landed[j] /\ landed'[j] \in Nat
                          /\ child'[j] + landed'[j] <= child[j] + landed[j]
      BY <1>0, <2>0
    <2>2. \A j \in Keys : child'[j] \in Nat
      BY <1>0, <2>0
    <2>3. SentIsAccounted'
      BY <1>0, <2>0, <2>1, <2>2, OnceKeys DEF QuietInv, SentIsAccounted, TypeOK
    <2>4. AppliedIsLanded'
      BY <1>0, <2>0, <2>1 DEF QuietInv, AppliedIsLanded, TypeOK
    <2> QED
      BY <1>0, <2>0, <2>1, <2>3, <2>4, QuietFrame DEF QuietInv
  <1> QED
    BY <1>1, <1>2, <1>3

LEMMA QuietObservation ==
    ASSUME TypeOK, GateInv, HandoffInv, QuietInv, NEW o \in seen, WriteObservation(o)
    PROVE  QuietInv'
  <1>0. o.key \in Keys
    BY DEF TypeOK
  <1>1. seen' = seen \ {o} /\ UNCHANGED <<phase, held, child, sent, landed>>
    BY DEF WriteObservation, world
  <1>2. \A k \in Keys : \/ eff'[k] = eff[k]
                        \/ /\ k = o.key /\ eff'[k].st \in {"confirmed", "failed"}
                           /\ eff'[k].st = "confirmed" =>
                                  o.present \/ o.key \in Creates
    <2>1. CASE ObserveEffect(o)
      BY <1>0, <2>1 DEF ObserveEffect, TypeOK
    <2>2. CASE ReconcileInvalidatedEffect(o)
      BY <1>0, <2>2 DEF ReconcileInvalidatedEffect, TypeOK
    <2>3. CASE ConfirmRecoveredMerge(o)
      BY <1>0, <2>3 DEF ConfirmRecoveredMerge, TypeOK
    <2> QED
      BY <2>1, <2>2, <2>3 DEF WriteObservation
  <1>3. StoppedIsSettled'
    BY <1>1, <1>2 DEF QuietInv, StoppedIsSettled, Outstanding
  <1>4. ConfirmedIsLanded'
    BY <1>1, <1>2 DEF HandoffInv, AbsenceIsOld, QuietInv, ConfirmedIsLanded, PresentIsLanded
  <1>5. SentIsAccounted' /\ AppliedIsLanded' /\ PresentIsLanded'
    BY <1>1 DEF QuietInv, SentIsAccounted, AppliedIsLanded, PresentIsLanded
  <1> QED
    BY <1>3, <1>4, <1>5 DEF QuietInv

LEMMA QuietControl ==
    ASSUME TypeOK, GateInv, QuietInv, Control
    PROVE  QuietInv'
  <1>1. UNCHANGED <<eff, held, seen, child, sent, landed>>
    BY DEF Control, Drain, Transition, TransitionAndInvalidateRunner,
       CompleteControlTransition, Resume, Rearm, memory, ledger, world
  <1>2. phase' \in {"paused", "cancelled"} => phase' = phase \/ Outstanding = {}
    BY DEF Control, Drain, Transition, TransitionAndInvalidateRunner,
       CompleteControlTransition, Resume, Rearm
  <1>3. StoppedIsSettled'
    BY <1>1, <1>2 DEF QuietInv, StoppedIsSettled, Outstanding
  <1> QED
    BY <1>1, <1>3 DEF QuietInv, SentIsAccounted, AppliedIsLanded, PresentIsLanded,
       ConfirmedIsLanded

LEMMA QuietRecovery ==
    ASSUME TypeOK, GateInv, QuietInv, Recovery
    PROVE  QuietInv'
  <1>0. /\ phase' = phase /\ sent' = sent /\ landed' = landed
        /\ \A k \in Keys : child[k] \in Nat /\ landed[k] \in Nat /\ sent[k] \in Nat
    BY DEF TypeOK, Recovery, Crash, Start, ReconcileEffects, FenceRecoveredRunners, Reboot,
       PrepareExternalCleanupRecovery, RecoverExternalCleanup, ReadUncertain, world
  <1>1. CASE Crash
    <2>1. held' = {} /\ seen' = {} /\ eff' = eff
      BY <1>1 DEF Crash, ledger
    <2>2. ASSUME NEW k \in Once
          PROVE  child'[k] + landed'[k] <= sent'[k]
      <3>1. k \in Keys /\ child'[k] = child[k] + (IF Running(k) = {} THEN 0 ELSE 1)
        BY <1>1, OnceKeys DEF Crash
      <3>2. CASE Running(k) = {}
        BY <1>0, <3>1, <3>2 DEF QuietInv, SentIsAccounted
      <3>3. CASE Running(k) # {}
        <4>1. PICK h \in held : h.key = k /\ h.at = "running"
          BY <3>3 DEF Running
        <4> QED
          BY <1>0, <3>1, <3>3, <4>1 DEF QuietInv, SentIsAccounted
      <3> QED
        BY <3>2, <3>3
    <2> QED
      BY <1>0, <2>1, <2>2 DEF QuietInv, StoppedIsSettled, Outstanding, SentIsAccounted,
         AppliedIsLanded, PresentIsLanded, ConfirmedIsLanded
  <1>2. CASE ReconcileEffects
    <2>1. UNCHANGED <<held, seen, child>>
      BY <1>2 DEF ReconcileEffects, memory, world
    <2>2. \A k \in Keys : \/ eff'[k] = eff[k]
                          \/ eff[k].st \in {"executing", "uncertain"} /\ eff'[k].st = "uncertain"
      BY <1>2 DEF ReconcileEffects, Unsettled
    <2>3. StoppedIsSettled' /\ ConfirmedIsLanded'
      BY <1>0, <2>2 DEF QuietInv, StoppedIsSettled, Outstanding, ConfirmedIsLanded
    <2> QED
      BY <1>0, <2>1, <2>3 DEF QuietInv, SentIsAccounted, AppliedIsLanded, PresentIsLanded
  <1>3. CASE Reboot
    <2>1. UNCHANGED <<eff, held, seen>> /\ child' = [k \in Keys |-> 0]
      BY <1>3 DEF Reboot, ledger, memory
    <2>2. held = {}
      BY <1>3 DEF Reboot, GateInv, DownIsEmpty
    <2>3. SentIsAccounted'
      BY <1>0, <2>1, <2>2, OnceKeys DEF QuietInv, SentIsAccounted
    <2> QED
      BY <1>0, <2>1, <2>2, <2>3 DEF QuietInv, StoppedIsSettled, Outstanding,
         AppliedIsLanded, PresentIsLanded, ConfirmedIsLanded
  <1>4. CASE Start \/ FenceRecoveredRunners \/ PrepareExternalCleanupRecovery
             \/ RecoverExternalCleanup \/ ReadUncertain
    <2>1. UNCHANGED <<eff, held, seen, child>>
      BY <1>4 DEF Start, FenceRecoveredRunners, PrepareExternalCleanupRecovery,
         RecoverExternalCleanup, ReadUncertain, ledger, memory, world
    <2> QED
      BY <1>0, <2>1 DEF QuietInv, StoppedIsSettled, Outstanding, SentIsAccounted,
         AppliedIsLanded, PresentIsLanded, ConfirmedIsLanded
  <1> QED
    BY <1>1, <1>2, <1>3, <1>4 DEF Recovery

LEMMA QuietStep == TypeOK /\ GateInv /\ HandoffInv /\ QuietInv /\ [Next]_vars => QuietInv'
  <1> SUFFICES ASSUME TypeOK, GateInv, HandoffInv, QuietInv, [Next]_vars PROVE QuietInv'
    OBVIOUS
  <1>1. CASE UNCHANGED vars
    BY <1>1 DEF QuietInv, StoppedIsSettled, Outstanding, SentIsAccounted, AppliedIsLanded,
       PresentIsLanded, ConfirmedIsLanded, vars, memory, ledger, world
  <1> QED
    BY <1>1, QuietKey, QuietWorker, QuietObservation, QuietControl, QuietRecovery DEF Next

\* Nothing sent is unaccounted for, so a settled row leaves no child.
LEMMA SettledIsQuiet ==
    TypeOK /\ GateInv /\ HandoffInv /\ QuietInv => StoppedIsQuiet
  <1> SUFFICES ASSUME TypeOK, GateInv, HandoffInv, QuietInv, phase \in {"paused", "cancelled"}
               PROVE  /\ Outstanding = {}
                      /\ \A h \in held : h.at \notin InGate
                      /\ \A k \in Once : child[k] = 0
    BY DEF StoppedIsQuiet
  <1>1. Outstanding = {}
    BY DEF QuietInv, StoppedIsSettled
  <1>2. \A h \in held : h.at \notin InGate
    BY DEF GateInv, GateIsCurrent
  <1>3. ASSUME NEW k \in Once
        PROVE  child[k] = 0
    <2>1. /\ k \in Keys /\ child[k] \in Nat /\ landed[k] \in Nat /\ sent[k] \in Nat
          /\ eff[k].st \in States
      BY OnceKeys DEF TypeOK
    <2>2. child[k] + landed[k] <= sent[k] /\ sent[k] <= 1
      BY DEF QuietInv, SentIsAccounted, HandoffInv, AtMostOneHandoff
    <2>3. eff[k].st \in {"none", "failed", "confirmed"}
      BY <1>1, <2>1 DEF Outstanding, States
    <2>4. CASE eff[k].st = "confirmed"
      BY <2>1, <2>2, <2>4 DEF QuietInv, ConfirmedIsLanded
    <2>5. CASE eff[k].st # "confirmed"
      BY <2>1, <2>2, <2>3, <2>5 DEF HandoffInv, RetryableIsUnsent
    <2> QED
      BY <2>4, <2>5
  <1> QED
    BY <1>1, <1>2, <1>3

\* A paused or cancelled ticket has no external writer: the ledger is settled,
\* the gate is empty and no draft or merge is still alive somewhere
\* (CompleteControlTransition, after Controller.Drain).
THEOREM StoppedTicketIsQuiet == Spec => []StoppedIsQuiet
  <1>1. Init => TypeOK /\ GateInv /\ HandoffInv /\ QuietInv
    BY EffectsTypeInit, GateInit, HandoffInit, QuietInit
  <1>2. (TypeOK /\ GateInv /\ HandoffInv /\ QuietInv) /\ [Next]_vars
          => (TypeOK /\ GateInv /\ HandoffInv /\ QuietInv)'
    BY EffectsTypeStep, GateStep, HandoffStep, QuietStep
  <1> QED
    BY <1>1, <1>2, SettledIsQuiet, PTL DEF Spec

-----------------------------------------------------------------------------
(* A quarantine outlives its children *)

LEMMA BootInit == Init => BootInv
  <1> SUFFICES ASSUME Init PROVE BootInv
    OBVIOUS
  <1> QED
    BY DEF Init, BootInv, QuarantinedIsIdle, CheckpointIsOld

LEMMA BootWorker ==
    ASSUME TypeOK, GateInv, BootInv, NEW h \in held, Worker(h)
    PROVE  BootInv'
  <1>0. ckpt' = ckpt /\ boot' = boot
    BY DEF Worker, RecordMergeIntent, EnterGate, RefuseGate, RefuseLaunch, Launch, Apply,
       Return, CleanupUncertain, FinishEffect, cleanup
  <1>1. CASE CleanupUncertain(h)
    <2>1. h.at \in InGate /\ Advance(h, "lost") /\ "lost" \in Stages \ InGate
      BY <1>1 DEF CleanupUncertain, Stages, InGate
    <2>2. \A g \in held' : g.at \notin InGate
      BY <2>1, AdvanceInGate
    <2>3. ~quar
      BY <1>1, <2>1 DEF CleanupUncertain, GhAdmits, InGate, BootInv, QuarantinedIsIdle
    <2>4. QuarantinedIsIdle'
      BY <2>2 DEF QuarantinedIsIdle, InGate
    <2> QED
      BY <1>0, <2>3, <2>4 DEF BootInv, CheckpointIsOld
  <1>2. CASE ~CleanupUncertain(h)
    <2>1. quar' = quar /\ child' = child
      BY <1>2 DEF Worker, RecordMergeIntent, EnterGate, RefuseGate, RefuseLaunch, Launch,
         Apply, Return, FinishEffect, cleanup, world
    <2>2. CASE FinishEffect(h)
      BY <1>0, <2>1, <2>2 DEF FinishEffect, BootInv, QuarantinedIsIdle, CheckpointIsOld
    <2>3. CASE ~FinishEffect(h)
      <3>1. PICK s \in Stages :
              Advance(h, s) /\ (s \in {"running", "applied"} => h.at = "running" \/ ~quar)
        BY <1>2, <2>3 DEF Worker, RecordMergeIntent, EnterGate, RefuseGate, RefuseLaunch,
           Launch, Apply, Return, NotStarted, GhAdmits, Stages, InGate
      <3>2. QuarantinedIsIdle'
        BY <2>1, <3>1, AdvanceShape DEF BootInv, QuarantinedIsIdle
      <3> QED
        BY <1>0, <2>1, <3>2 DEF BootInv, CheckpointIsOld
    <2> QED
      BY <2>2, <2>3
  <1> QED
    BY <1>1, <1>2

LEMMA BootKey ==
    ASSUME TypeOK, BootInv, NEW k \in Keys,
           PlanEffect(k) \/ ClaimEffect(k) \/ Observe(k) \/ OrphanApplies(k)
             \/ OrphanExits(k)
    PROVE  BootInv'
  <1>1. UNCHANGED <<quar, ckpt, boot>>
    BY DEF PlanEffect, ClaimEffect, Observe, OrphanApplies, OrphanExits, cleanup
  <1>2. \A g \in held' : g \in held \/ g.at = "claimed"
    BY DEF PlanEffect, ClaimEffect, Observe, OrphanApplies, OrphanExits, memory
  <1>3. (\A j \in Keys : child[j] = 0) => child' = child
    BY DEF PlanEffect, ClaimEffect, Observe, OrphanApplies, OrphanExits, world
  <1> QED
    BY <1>1, <1>2, <1>3 DEF BootInv, QuarantinedIsIdle, CheckpointIsOld, InGate

LEMMA BootRecovery ==
    ASSUME TypeOK, GateInv, BootInv, Recovery
    PROVE  BootInv'
  <1>0. boot \in Nat /\ ckpt \in Nat
    BY DEF TypeOK
  <1>1. CASE Crash
    <2>1. held' = {} /\ UNCHANGED <<quar, ckpt, boot>>
      BY <1>1 DEF Crash, cleanup
    <2>2. quar => child' = child
      BY <1>1 DEF Crash, Running, BootInv, QuarantinedIsIdle, TypeOK
    <2> QED
      BY <2>1, <2>2 DEF BootInv, QuarantinedIsIdle, CheckpointIsOld
  <1>2. CASE Reboot
    <2>1. held' = held /\ UNCHANGED <<quar, ckpt>> /\ boot' = boot + 1
          /\ child' = [k \in Keys |-> 0]
      BY <1>2 DEF Reboot, memory
    <2> QED
      BY <1>0, <2>1 DEF BootInv, QuarantinedIsIdle, CheckpointIsOld
  <1>3. CASE PrepareExternalCleanupRecovery
    <2>1. held' = held /\ UNCHANGED <<quar, boot>> /\ ckpt' = boot /\ quar
      BY <1>3 DEF PrepareExternalCleanupRecovery, memory
    <2> QED
      BY <1>0, <2>1 DEF BootInv, QuarantinedIsIdle, CheckpointIsOld
  <1>4. CASE RecoverExternalCleanup
    <2>1. ~quar' /\ ckpt' = 0 /\ boot' = boot
      BY <1>4 DEF RecoverExternalCleanup
    <2> QED
      BY <1>0, <2>1 DEF BootInv, QuarantinedIsIdle, CheckpointIsOld
  <1>5. CASE Start \/ ReconcileEffects \/ FenceRecoveredRunners
    <2>1. UNCHANGED <<held, quar, ckpt, boot, child>>
      BY <1>5 DEF Start, ReconcileEffects, FenceRecoveredRunners, memory, cleanup, world
    <2> QED
      BY <2>1 DEF BootInv, QuarantinedIsIdle, CheckpointIsOld
  <1>6. CASE ReadUncertain
    <2>1. UNCHANGED <<held, ckpt, boot, child>> /\ ~quar
          /\ \A h \in held : h.at \notin {"running", "applied"}
      BY <1>6 DEF ReadUncertain, GhAdmits, world
    <2> QED
      BY <2>1 DEF BootInv, QuarantinedIsIdle, CheckpointIsOld
  <1> QED
    BY <1>1, <1>2, <1>3, <1>4, <1>5, <1>6 DEF Recovery

LEMMA BootStep == TypeOK /\ GateInv /\ BootInv /\ [Next]_vars => BootInv'
  <1> SUFFICES ASSUME TypeOK, GateInv, BootInv, [Next]_vars PROVE BootInv'
    OBVIOUS
  <1>1. CASE UNCHANGED vars \/ Control \/ \E o \in seen : WriteObservation(o)
    <2>1. UNCHANGED <<held, quar, ckpt, boot, child>>
      BY <1>1 DEF WriteObservation, Control, Drain, Transition, TransitionAndInvalidateRunner,
         CompleteControlTransition, Resume, Rearm, vars, memory, cleanup, world
    <2> QED
      BY <2>1 DEF BootInv, QuarantinedIsIdle, CheckpointIsOld
  <1> QED
    BY <1>1, BootKey, BootWorker, BootRecovery DEF Next

\* Only RecoverExternalCleanup lifts a quarantine, and only where the
\* checkpoint proves that a reboot came in between.
LEMMA LiftedAfterReboot ==
    BootInv /\ [Next]_vars => (quar /\ ~quar' => \A k \in Keys : child[k] = 0)
  <1> SUFFICES ASSUME BootInv, [Next]_vars, quar, ~quar'
               PROVE  \A k \in Keys : child[k] = 0
    OBVIOUS
  <1>1. RecoverExternalCleanup
    BY DEF Next, PlanEffect, ClaimEffect, Observe, OrphanApplies, OrphanExits, Worker,
       RecordMergeIntent, EnterGate, RefuseGate, RefuseLaunch, Launch, Apply, Return,
       CleanupUncertain, FinishEffect, WriteObservation, Control, Drain, Transition,
       TransitionAndInvalidateRunner, CompleteControlTransition, Resume, Rearm, Recovery,
       Crash, Start, ReconcileEffects, FenceRecoveredRunners, Reboot,
       PrepareExternalCleanupRecovery, ReadUncertain, vars, cleanup
  <1> QED
    BY <1>1 DEF RecoverExternalCleanup, BootInv, CheckpointIsOld

\* A quarantine is lifted only when no child of any key can still be alive
\* (external_cleanup_recovery.go: RecoverExternalCleanup compares boots).
THEOREM QuarantineIsKept == Spec => QuarantineOutlivesChildren
  <1>1. Init => TypeOK /\ GateInv /\ BootInv
    BY EffectsTypeInit, GateInit, BootInit
  <1>2. (TypeOK /\ GateInv /\ BootInv) /\ [Next]_vars => (TypeOK /\ GateInv /\ BootInv)'
    BY EffectsTypeStep, GateStep, BootStep
  <1>3. (TypeOK /\ GateInv /\ BootInv) /\ [Next]_vars
            => [quar /\ ~quar' => \A k \in Keys : child[k] = 0]_vars
    BY LiftedAfterReboot
  <1> QED
    BY <1>1, <1>2, <1>3, PTL DEF Spec, QuarantineOutlivesChildren

-----------------------------------------------------------------------------
(* "Mark ready" lands once more than it was abandoned *)

\* The three kinds of keys are keys of one kind only.
LEMMA ReadyKeys ==
    /\ Readies \subseteq Keys
    /\ \A k \in Readies : k \notin Creates /\ k \notin Merges
  BY EffectsAssumption DEF Keys

LEMMA ReadyInit == Init => ReadyInv
  <1> SUFFICES ASSUME Init PROVE ReadyInv
    OBVIOUS
  <1> QED
    BY ReadyKeys DEF Init, ReadyInv, HeldIsNotAhead, SeenIsOld, ObservedIsPast, ReadyIsBounded,
       RetryableIsUnspent, PendingIsUnspent, AbsentIsUnspent, Unspent

\* A child that lands or dies leaves the sum of landings and children.
LEMMA ReadyFrame ==
    ASSUME TypeOK, ReadyInv, UNCHANGED <<fence, eff, held, seen, abandoned>>,
           \A k \in Keys : /\ landed'[k] \in Nat /\ child'[k] \in Nat
                           /\ child'[k] <= child[k]
                           /\ landed'[k] + child'[k] <= landed[k] + child[k]
    PROVE  ReadyInv'
  <1>0. \A k \in Keys : landed[k] \in Nat /\ child[k] \in Nat /\ abandoned[k] \in Nat
    BY DEF TypeOK
  <1>1. \A k \in Keys : Unspent(k) => Unspent(k)'
    BY <1>0 DEF Unspent
  <1>2. HeldIsNotAhead' /\ SeenIsOld' /\ ObservedIsPast'
    BY DEF ReadyInv, HeldIsNotAhead, SeenIsOld, ObservedIsPast
  <1>3. ReadyIsBounded'
    BY <1>0, ReadyKeys DEF ReadyInv, ReadyIsBounded
  <1>4. RetryableIsUnspent' /\ PendingIsUnspent' /\ AbsentIsUnspent'
    BY <1>1, ReadyKeys DEF ReadyInv, RetryableIsUnspent, PendingIsUnspent, AbsentIsUnspent
  <1> QED
    BY <1>2, <1>3, <1>4 DEF ReadyInv

LEMMA ReadyKey ==
    ASSUME TypeOK, GateInv, ReadyInv, NEW k \in Keys,
           PlanEffect(k) \/ ClaimEffect(k) \/ Observe(k) \/ OrphanApplies(k)
             \/ OrphanExits(k)
    PROVE  ReadyInv'
  <1>0. /\ fence' = fence
        /\ \A j \in Keys : landed[j] \in Nat /\ child[j] \in Nat /\ abandoned[j] \in Nat
                           /\ eff[j].tag.c \in Nat
    BY DEF TypeOK, Tags, PlanEffect, ClaimEffect, Observe, OrphanApplies, OrphanExits
  <1>1. CASE PlanEffect(k)
    <2>1. /\ UNCHANGED <<held, seen, child, landed, abandoned>>
          /\ eff[k].st \in {"none", "planned", "failed"}
          /\ eff'[k].st \in {"planned", "failed"} /\ eff'[k].tag = Tag(fence, eff[k].tag.c)
          /\ \A j \in Keys : j # k => eff'[j] = eff[j]
      BY <1>1 DEF PlanEffect, TypeOK, memory, world
    <2>2. eff'[k].tag.c = eff[k].tag.c
      BY <2>1 DEF Tag
    <2>3. HeldIsNotAhead' /\ ObservedIsPast' /\ ReadyIsBounded'
      BY <1>0, <2>1 DEF ReadyInv, HeldIsNotAhead, ObservedIsPast, ReadyIsBounded
    <2>4. SeenIsOld'
      BY <2>1, <2>2 DEF ReadyInv, SeenIsOld, TypeOK
    <2>5. /\ \A j \in Keys : Unspent(j)' <=> Unspent(j)
          /\ k \in Readies => Unspent(k)
      BY <2>1 DEF ReadyInv, RetryableIsUnspent, Unspent
    <2>6. RetryableIsUnspent'
      BY <2>1, <2>5, ReadyKeys DEF ReadyInv, RetryableIsUnspent
    <2>7. PendingIsUnspent'
      BY <2>1, <2>5, ReadyKeys DEF ReadyInv, PendingIsUnspent
    <2>8. AbsentIsUnspent'
      BY <2>1, <2>5, ReadyKeys DEF ReadyInv, AbsentIsUnspent
    <2> QED
      BY <2>3, <2>4, <2>6, <2>7, <2>8 DEF ReadyInv
  <1>2. CASE ClaimEffect(k)
    <2> DEFINE t == Tag(fence, eff[k].tag.c + 1)
               n == [key |-> k, tag |-> t, at |-> "claimed"]
    <2>1. /\ eff' = [eff EXCEPT ![k] = [st |-> "executing", tag |-> t]]
          /\ held' = held \cup {n} /\ UNCHANGED <<seen, child, landed, abandoned>>
          /\ eff[k].st \in {"none", "planned", "failed"}
      BY <1>2 DEF ClaimEffect, world
    <2>2. t.c = eff[k].tag.c + 1 /\ t.v = fence.v /\ fence.v \in Nat
      BY DEF Tag, TypeOK, Tags, Fences
    <2>3. n.key = k /\ n.tag = t /\ n.at = "claimed"
      OBVIOUS
    <2> HIDE DEF t, n
    <2>4. /\ eff'[k].tag = t /\ eff'[k].st = "executing"
          /\ \A j \in Keys : j # k => eff'[j] = eff[j]
      BY <2>1 DEF TypeOK
    <2>5. \A o \in seen : o.key \in Keys /\ o.prior.c \in Nat
                          /\ (o.key = k => o.prior.c <= eff[k].tag.c /\ o.prior # t)
      BY <1>0, <2>2 DEF ReadyInv, SeenIsOld, TypeOK, Tags
    <2>6. HeldIsNotAhead'
      BY <1>0, <2>1, <2>2, <2>3 DEF ReadyInv, HeldIsNotAhead
    <2>7. SeenIsOld'
      BY <1>0, <2>1, <2>2, <2>4, <2>5 DEF ReadyInv, SeenIsOld
    <2>8. ObservedIsPast'
      BY <1>0, <2>1, <2>3, <2>5 DEF ReadyInv, ObservedIsPast
    <2>9. ReadyIsBounded'
      BY <2>1 DEF ReadyInv, ReadyIsBounded
    <2>10. /\ \A j \in Keys : Unspent(j)' <=> Unspent(j)
           /\ k \in Readies => Unspent(k)
      BY <2>1 DEF ReadyInv, RetryableIsUnspent, Unspent
    <2>11. RetryableIsUnspent'
      BY <2>4, <2>10, ReadyKeys DEF ReadyInv, RetryableIsUnspent
    <2>12. PendingIsUnspent'
      BY <2>1, <2>3, <2>4, <2>10, ReadyKeys DEF ReadyInv, PendingIsUnspent
    <2>13. AbsentIsUnspent'
      BY <2>1, <2>4, <2>5, <2>10, ReadyKeys DEF ReadyInv, AbsentIsUnspent
    <2> QED
      BY <2>6, <2>7, <2>8, <2>9, <2>11, <2>12, <2>13 DEF ReadyInv
  <1>3. CASE Observe(k)
    <2>1. /\ UNCHANGED <<eff, held, child, landed, abandoned>>
          /\ \A h \in held : FenceOf(h.tag) # fence
      BY <1>3 DEF Observe, WorkerIdle, ledger, world
    <2>2. \A o \in seen' : \/ o \in seen
                           \/ /\ o.key = k /\ o.prior = eff[k].tag
                              /\ ~o.present => landed[k] = 0 \/ k \in Merges
      BY <1>3 DEF Observe
    <2>3. SeenIsOld'
      BY <1>0, <2>1, <2>2 DEF ReadyInv, SeenIsOld
    <2>4. ObservedIsPast'
      BY <1>0, <2>1 DEF ObservedIsPast
    <2>5. HeldIsNotAhead' /\ ReadyIsBounded' /\ RetryableIsUnspent' /\ PendingIsUnspent'
      BY <1>0, <2>1 DEF ReadyInv, HeldIsNotAhead, ReadyIsBounded, RetryableIsUnspent,
         PendingIsUnspent, Unspent
    <2>6. AbsentIsUnspent'
      <3>1. k \in Readies /\ landed[k] = 0 => Unspent(k)
        BY <1>0 DEF ReadyInv, ReadyIsBounded, Unspent
      <3>2. \A j \in Keys : Unspent(j)' <=> Unspent(j)
        BY <2>1 DEF Unspent
      <3> QED
        BY <2>1, <2>2, <3>1, <3>2, ReadyKeys DEF ReadyInv, AbsentIsUnspent
    <2> QED
      BY <2>3, <2>4, <2>5, <2>6 DEF ReadyInv
  <1>4. CASE OrphanApplies(k) \/ OrphanExits(k)
    <2>1. /\ UNCHANGED <<eff, held, seen, abandoned>>
          /\ child[k] > 0 /\ child'[k] = child[k] - 1
          /\ landed'[k] \in {landed[k], landed[k] + 1}
          /\ \A j \in Keys : j # k => child'[j] = child[j] /\ landed'[j] = landed[j]
      BY <1>4 DEF OrphanApplies, OrphanExits, TypeOK, ledger, memory
    <2>2. \A j \in Keys : /\ landed'[j] \in Nat /\ child'[j] \in Nat
                          /\ child'[j] <= child[j]
                          /\ landed'[j] + child'[j] <= landed[j] + child[j]
      BY <1>0, <2>1
    <2> QED
      BY <1>0, <2>1, <2>2, ReadyFrame
  <1> QED
    BY <1>1, <1>2, <1>3, <1>4

LEMMA ReadyWorker ==
    ASSUME TypeOK, GateInv, ReadyInv, NEW h \in held, Worker(h)
    PROVE  ReadyInv'
  <1>0. /\ h.key \in Keys /\ h.tag \in Tags /\ h.at \in Stages
        /\ fence' = fence /\ seen' = seen
        /\ \A j \in Keys : landed[j] \in Nat /\ child[j] \in Nat /\ abandoned[j] \in Nat
    BY DEF TypeOK, Worker, RecordMergeIntent, EnterGate, RefuseGate, RefuseLaunch, Launch,
       Apply, Return, CleanupUncertain, FinishEffect
  <1>1. CASE RecordMergeIntent(h) \/ EnterGate(h) \/ RefuseGate(h) \/ RefuseLaunch(h)
             \/ Launch(h) \/ Return(h)
    <2>1. PICK s \in {"intended", "lost", "gate", "before", "running", "ok"} :
            /\ Advance(h, s)
            /\ h.key \in Readies /\ s \in {"gate", "before", "running"}
                 => h.at \in {"claimed", "gate"}
      BY <1>1, ReadyKeys DEF RecordMergeIntent, EnterGate, RefuseGate, RefuseLaunch, Launch,
         Return, NotStarted, AtGate
    <2>2. UNCHANGED <<eff, child, landed, abandoned>>
      BY <1>1 DEF RecordMergeIntent, EnterGate, RefuseGate, RefuseLaunch, Launch, Return,
         ledger, world
    <2>3. \A g \in held' : \/ g \in held
                           \/ g.key = h.key /\ g.tag = h.tag /\ g.at = s
      <3> DEFINE n == [h EXCEPT !.at = s]
      <3>0. s \in Stages /\ Advance(h, s)
        BY <2>1 DEF Stages, InGate
      <3>1. /\ n.key = h.key /\ n.tag = h.tag /\ n.at = s
            /\ \A g \in held' : g = n \/ (g \in held /\ g # h)
        BY <3>0, AdvanceShape
      <3> HIDE DEF n
      <3> QED
        BY <3>1
    <2>4. HeldIsNotAhead' /\ SeenIsOld' /\ ObservedIsPast' /\ ReadyIsBounded'
      BY <1>0, <2>2, <2>3 DEF ReadyInv, HeldIsNotAhead, SeenIsOld, ObservedIsPast,
         ReadyIsBounded
    <2>5. RetryableIsUnspent' /\ AbsentIsUnspent'
      BY <1>0, <2>2 DEF ReadyInv, RetryableIsUnspent, AbsentIsUnspent, Unspent
    <2>6. PendingIsUnspent'
      <3>1. \A j \in Keys : Unspent(j)' <=> Unspent(j)
        BY <2>2 DEF Unspent
      <3> QED
        BY <1>0, <2>1, <2>2, <2>3, <3>1, ReadyKeys DEF ReadyInv, PendingIsUnspent
    <2> QED
      BY <2>4, <2>5, <2>6 DEF ReadyInv
  <1>2. CASE Apply(h) \/ CleanupUncertain(h)
    <2>1. h.at \in InGate /\ \E s \in {"applied", "lost"} : Advance(h, s)
      BY <1>2 DEF Apply, CleanupUncertain, InGate
    <2>2. \A g \in held' : \/ g.key = h.key /\ g.tag = h.tag /\ g.at \in {"applied", "lost"}
                           \/ g \in held /\ g # h /\ g.at \notin InGate
      BY <2>1, AdvanceInGate DEF Stages, InGate
    <2>3. /\ eff' = eff /\ eff[h.key] = [st |-> "executing", tag |-> h.tag]
          /\ FenceOf(h.tag) = fence
      BY <1>2, <2>1 DEF Apply, CleanupUncertain, ledger, GateInv, GateIsCurrent
    <2>4. HeldIsNotAhead' /\ SeenIsOld' /\ ObservedIsPast'
      BY <1>0, <2>2, <2>3 DEF ReadyInv, HeldIsNotAhead, SeenIsOld, ObservedIsPast
    <2>5. \A j \in Keys : j # h.key => Unspent(j)' <=> Unspent(j)
      BY <1>2 DEF Apply, CleanupUncertain, Unspent, TypeOK
    <2>6. RetryableIsUnspent'
      BY <2>3, <2>5, ReadyKeys DEF ReadyInv, RetryableIsUnspent
    <2>7. PendingIsUnspent'
      <3>1. \A g \in held' : g.key = h.key /\ eff'[g.key].tag = g.tag
                               => g.at \in {"applied", "lost"}
        BY <2>2, <2>3 DEF GateInv, HeldIsUnique
      <3> QED
        BY <2>2, <2>3, <2>5, <3>1, ReadyKeys DEF ReadyInv, PendingIsUnspent
    <2>8. AbsentIsUnspent'
      <3>1. \A o \in seen : o.key = h.key => o.prior # h.tag
        BY <2>3 DEF ReadyInv, ObservedIsPast
      <3> QED
        BY <1>0, <2>3, <2>5, <3>1, ReadyKeys DEF ReadyInv, AbsentIsUnspent
    <2>9. ReadyIsBounded'
      <3>1. ASSUME NEW k \in Readies
            PROVE  landed'[k] + child'[k] <= abandoned'[k] + 1 /\ child'[k] <= abandoned'[k]
        <4>0. k \in Keys /\ landed[k] + child[k] <= abandoned[k] + 1 /\ child[k] <= abandoned[k]
          BY <3>1, ReadyKeys DEF ReadyInv, ReadyIsBounded
        <4>1. CASE k # h.key
          BY <1>2, <4>0, <4>1 DEF Apply, CleanupUncertain, TypeOK
        <4>2. CASE k = h.key /\ Apply(h)
          <5>1. Unspent(k)
            BY <2>3, <3>1, <4>2 DEF ReadyInv, PendingIsUnspent, Apply
          <5>2. landed'[k] = landed[k] + 1 /\ child' = child /\ abandoned' = abandoned
            BY <1>0, <4>2 DEF Apply, TypeOK
          <5> QED
            BY <1>0, <4>0, <5>1, <5>2 DEF Unspent
        <4>3. CASE k = h.key /\ CleanupUncertain(h) /\ h.at = "running"
          <5>1. Unspent(k)
            BY <2>3, <3>1, <4>3 DEF ReadyInv, PendingIsUnspent
          <5>2. landed' = landed /\ child'[k] = child[k] + 1 /\ abandoned'[k] = abandoned[k] + 1
            BY <1>0, <4>3 DEF CleanupUncertain, TypeOK
          <5> QED
            BY <1>0, <4>0, <5>1, <5>2 DEF Unspent
        <4>4. CASE k = h.key /\ CleanupUncertain(h) /\ h.at # "running"
          <5>1. landed' = landed /\ child'[k] = child[k]
                /\ abandoned'[k] \in {abandoned[k], abandoned[k] + 1}
            BY <1>0, <4>4 DEF CleanupUncertain, TypeOK
          <5> QED
            BY <1>0, <4>0, <5>1
        <4> QED
          BY <1>2, <4>1, <4>2, <4>3, <4>4
      <3> QED
        BY <3>1 DEF ReadyIsBounded
    <2> QED
      BY <2>4, <2>6, <2>7, <2>8, <2>9 DEF ReadyInv
  <1>3. CASE FinishEffect(h)
    <2>1. held' = held \ {h} /\ UNCHANGED <<child, landed, abandoned>>
      BY <1>3 DEF FinishEffect, world
    <2>2. \A k \in Keys :
            /\ eff'[k].tag = eff[k].tag
            /\ \/ eff'[k] = eff[k]
               \/ /\ k = h.key /\ eff[k].tag = h.tag /\ eff[k].st \in {"executing", "uncertain"}
                  /\ eff'[k].st \in {"confirmed", "uncertain", "failed"}
                  /\ eff'[k].st = "failed" => h.at = "before"
      BY <1>0, <1>3 DEF FinishEffect, Outcome, TypeOK
    <2>3. \A j \in Keys : Unspent(j)' <=> Unspent(j)
      BY <2>1 DEF Unspent
    <2>4. \A o \in seen : o.key \in Keys
      BY DEF TypeOK
    <2>5. HeldIsNotAhead' /\ SeenIsOld' /\ ObservedIsPast' /\ ReadyIsBounded'
      BY <1>0, <2>1, <2>2, <2>4 DEF ReadyInv, HeldIsNotAhead, SeenIsOld, ObservedIsPast,
         ReadyIsBounded
    <2>6. RetryableIsUnspent'
      BY <2>2, <2>3, ReadyKeys DEF ReadyInv, RetryableIsUnspent, PendingIsUnspent
    <2>7. PendingIsUnspent'
      BY <2>1, <2>2, <2>3, ReadyKeys DEF ReadyInv, PendingIsUnspent
    <2>8. AbsentIsUnspent'
      BY <1>0, <2>2, <2>3, ReadyKeys DEF ReadyInv, AbsentIsUnspent
    <2> QED
      BY <2>5, <2>6, <2>7, <2>8 DEF ReadyInv
  <1> QED
    BY <1>1, <1>2, <1>3 DEF Worker

LEMMA ReadyObservation ==
    ASSUME TypeOK, GateInv, ReadyInv, NEW o \in seen, WriteObservation(o)
    PROVE  ReadyInv'
  <1>0. /\ o.key \in Keys /\ o.prior.c \in Nat /\ o.prior.c <= eff[o.key].tag.c
        /\ seen' = seen \ {o}
        /\ UNCHANGED <<fence, held, child, landed, abandoned>>
    BY DEF TypeOK, Tags, WriteObservation, ReadyInv, SeenIsOld, world
  <1>1. CASE eff' = eff
    BY <1>0, <1>1 DEF ReadyInv, HeldIsNotAhead, SeenIsOld, ObservedIsPast, ReadyIsBounded,
       RetryableIsUnspent, PendingIsUnspent, AbsentIsUnspent, Unspent
  <1>2. CASE eff' # eff
    <2>1. /\ eff[o.key].tag = o.prior
          /\ \A k \in Keys : k # o.key => eff'[k] = eff[k]
          /\ \/ eff'[o.key].st = "confirmed"
             \/ /\ eff'[o.key].st = "failed" /\ ~o.present
                /\ eff[o.key].st \in {"executing", "uncertain"}
          /\ \/ eff'[o.key].tag = o.prior
             \/ eff'[o.key].tag = Tag(o.cur, o.prior.c + 1)
             \/ eff'[o.key].tag = Tag(o.cur, o.prior.c) /\ o.key \in Merges
      <3>1. CASE ObserveEffect(o)
        BY <1>0, <3>1 DEF ObserveEffect, TypeOK
      <3>2. CASE ReconcileInvalidatedEffect(o)
        BY <1>0, <3>2 DEF ReconcileInvalidatedEffect, TypeOK
      <3>3. CASE ConfirmRecoveredMerge(o)
        BY <1>0, <3>3 DEF ConfirmRecoveredMerge, TypeOK
      <3> QED
        BY <1>2, <3>1, <3>2, <3>3 DEF WriteObservation
    <2>2. eff'[o.key].tag.c \in {o.prior.c, o.prior.c + 1}
      BY <2>1 DEF Tag
    <2>3. \A j \in Keys : Unspent(j)' <=> Unspent(j)
      BY <1>0 DEF Unspent
    <2>4. HeldIsNotAhead' /\ ObservedIsPast' /\ ReadyIsBounded'
      BY <1>0 DEF ReadyInv, HeldIsNotAhead, ObservedIsPast, ReadyIsBounded
    <2>5. SeenIsOld'
      <3> SUFFICES ASSUME NEW p \in seen
                   PROVE  p.prior.c <= eff'[p.key].tag.c
        BY <1>0 DEF SeenIsOld
      <3>1. p.key \in Keys /\ p.prior.c \in Nat /\ p.prior.c <= eff[p.key].tag.c
        BY DEF ReadyInv, SeenIsOld, TypeOK, Tags
      <3> QED
        BY <1>0, <2>1, <2>2, <3>1
    <2>6. RetryableIsUnspent'
      BY <1>0, <2>1, <2>3, ReadyKeys DEF ReadyInv, RetryableIsUnspent, AbsentIsUnspent
    <2>7. PendingIsUnspent'
      <3> SUFFICES ASSUME NEW h \in held, h.key \in Readies, eff'[h.key].tag = h.tag,
                          h.at \in {"claimed", "gate", "before", "running"}
                   PROVE  Unspent(h.key)'
        BY <1>0 DEF PendingIsUnspent
      <3>1. h.tag.c \in Nat /\ h.tag.c <= eff[h.key].tag.c
        BY DEF GateInv, HeldIsFresh, TypeOK, Tags
      <3>2. eff[h.key].tag = h.tag
        <4>1. CASE h.key = o.key
          BY <1>0, <2>1, <3>1, <4>1, ReadyKeys DEF Tag
        <4>2. CASE h.key # o.key
          BY <2>1, <4>2, ReadyKeys
        <4> QED
          BY <4>1, <4>2
      <3> QED
        BY <2>3, <3>2, ReadyKeys DEF ReadyInv, PendingIsUnspent
    <2>8. AbsentIsUnspent'
      BY <1>0, <2>1, <2>3, ReadyKeys DEF ReadyInv, AbsentIsUnspent
    <2> QED
      BY <2>4, <2>5, <2>6, <2>7, <2>8 DEF ReadyInv
  <1> QED
    BY <1>1, <1>2

LEMMA ReadyControl ==
    ASSUME TypeOK, ReadyInv, Control
    PROVE  ReadyInv'
  <1>1. UNCHANGED <<eff, held, seen, child, landed, abandoned>>
    BY DEF Control, Drain, Transition, TransitionAndInvalidateRunner,
       CompleteControlTransition, Resume, Rearm, memory, ledger, world
  <1>2. fence' = fence \/ fence'.v = fence.v + 1
    BY DEF Control, Drain, Transition, TransitionAndInvalidateRunner, NextRunner,
       CompleteControlTransition, Resume, Rearm, TypeOK, Fences
  <1>3. HeldIsNotAhead' /\ ObservedIsPast'
    <2>1. fence.v \in Nat /\ \A h \in held : h.tag.v \in Nat /\ FenceOf(h.tag).v = h.tag.v
      BY DEF TypeOK, Fences, Tags, FenceOf
    <2>2. \A h \in held : h.tag.v <= fence.v
      BY DEF ReadyInv, HeldIsNotAhead
    <2>3. CASE fence' = fence
      BY <1>1, <2>3 DEF ReadyInv, HeldIsNotAhead, ObservedIsPast
    <2>4. CASE fence'.v = fence.v + 1
      <3>1. \A h \in held : FenceOf(h.tag) # fence'
        BY <2>1, <2>2, <2>4
      <3> QED
        BY <1>1, <2>1, <2>2, <2>4, <3>1 DEF HeldIsNotAhead, ObservedIsPast
    <2> QED
      BY <1>2, <2>3, <2>4
  <1> QED
    BY <1>1, <1>3 DEF ReadyInv, SeenIsOld, ReadyIsBounded, RetryableIsUnspent,
       PendingIsUnspent, AbsentIsUnspent, Unspent

LEMMA ReadyRecovery ==
    ASSUME TypeOK, GateInv, ReadyInv, Recovery
    PROVE  ReadyInv'
  <1>0. /\ landed' = landed
        /\ \A k \in Keys : landed[k] \in Nat /\ child[k] \in Nat /\ abandoned[k] \in Nat
    BY DEF TypeOK, Recovery, Crash, Start, ReconcileEffects, FenceRecoveredRunners, Reboot,
       PrepareExternalCleanupRecovery, RecoverExternalCleanup, ReadUncertain, world
  <1>1. CASE Crash
    <2>1. held' = {} /\ seen' = {} /\ eff' = eff
      BY <1>1 DEF Crash, ledger
    <2>2. \A k \in Keys : \/ child'[k] = child[k] /\ abandoned'[k] \in {abandoned[k], abandoned[k] + 1}
                          \/ child'[k] = child[k] + 1 /\ abandoned'[k] = abandoned[k] + 1
      BY <1>1 DEF Crash, Running, Launched, TypeOK
    <2>3. RetryableIsUnspent'
      BY <1>0, <2>1, <2>2, ReadyKeys DEF ReadyInv, RetryableIsUnspent, Unspent
    <2>4. ReadyIsBounded'
      BY <1>0, <2>2, ReadyKeys DEF ReadyInv, ReadyIsBounded
    <2> QED
      BY <2>1, <2>3, <2>4 DEF ReadyInv, HeldIsNotAhead, SeenIsOld, ObservedIsPast,
         PendingIsUnspent, AbsentIsUnspent
  <1>2. CASE Start \/ ReconcileEffects \/ FenceRecoveredRunners
    <2>1. held = {} /\ seen = {}
      BY <1>2 DEF Start, ReconcileEffects, FenceRecoveredRunners, GateInv, DownIsEmpty
    <2>2. UNCHANGED <<held, seen, child, abandoned>>
      BY <1>2 DEF Start, ReconcileEffects, FenceRecoveredRunners, memory, world
    <2>3. \A k \in Keys : eff'[k] = eff[k] \/ eff'[k].st = "uncertain"
      BY <1>2 DEF Start, ReconcileEffects, FenceRecoveredRunners, ledger
    <2>4. RetryableIsUnspent' /\ ReadyIsBounded'
      BY <1>0, <2>2, <2>3, ReadyKeys DEF ReadyInv, RetryableIsUnspent, ReadyIsBounded, Unspent
    <2> QED
      BY <2>1, <2>2, <2>4 DEF ReadyInv, HeldIsNotAhead, SeenIsOld, ObservedIsPast,
         PendingIsUnspent, AbsentIsUnspent
  <1>3. CASE Reboot \/ PrepareExternalCleanupRecovery \/ RecoverExternalCleanup
             \/ ReadUncertain
    <2>1. /\ UNCHANGED <<fence, eff, held, seen, abandoned>>
          /\ \A k \in Keys : child'[k] \in {0, child[k]}
      BY <1>3 DEF Reboot, PrepareExternalCleanupRecovery, RecoverExternalCleanup,
         ReadUncertain, memory, ledger, world
    <2> QED
      BY <1>0, <2>1, ReadyFrame
  <1> QED
    BY <1>1, <1>2, <1>3 DEF Recovery

LEMMA ReadyStep == TypeOK /\ GateInv /\ ReadyInv /\ [Next]_vars => ReadyInv'
  <1> SUFFICES ASSUME TypeOK, GateInv, ReadyInv, [Next]_vars PROVE ReadyInv'
    OBVIOUS
  <1>1. CASE UNCHANGED vars
    BY <1>1 DEF ReadyInv, HeldIsNotAhead, SeenIsOld, ObservedIsPast, ReadyIsBounded,
       RetryableIsUnspent, PendingIsUnspent, AbsentIsUnspent, Unspent, vars, memory, ledger,
       world
  <1> QED
    BY <1>1, ReadyKey, ReadyWorker, ReadyObservation, ReadyControl, ReadyRecovery DEF Next

\* "Mark ready" lands at most once more than a child of it was left without
\* supervision (reconcileReady reissues only what GitHub does not show).
THEOREM ReadyLandsOnce == Spec => []ReadyAppliedOnce
  <1>1. Init => TypeOK /\ GateInv /\ ReadyInv
    BY EffectsTypeInit, GateInit, ReadyInit
  <1>2. (TypeOK /\ GateInv /\ ReadyInv) /\ [Next]_vars => (TypeOK /\ GateInv /\ ReadyInv)'
    BY EffectsTypeStep, GateStep, ReadyStep
  <1>3. TypeOK /\ ReadyInv => ReadyAppliedOnce
    <2> SUFFICES ASSUME TypeOK, ReadyInv, NEW k \in Readies
                 PROVE  landed[k] <= 1 + abandoned[k]
      BY DEF ReadyAppliedOnce
    <2>1. landed[k] \in Nat /\ child[k] \in Nat /\ abandoned[k] \in Nat
      BY ReadyKeys DEF TypeOK
    <2> QED
      BY <2>1 DEF ReadyInv, ReadyIsBounded
  <1> QED
    BY <1>1, <1>2, <1>3, PTL DEF Spec

=============================================================================
