------------------------------ MODULE DaemonLife ------------------------------
(***************************************************************************)
(* The life of a daemon process and what shares its authority:             *)
(*   daemon/daemon.go              Start, Serve, Close, qualification      *)
(*   daemon/authoring.go           sessions, turns and their one worker    *)
(*   store/authoring.go            the durable turn and its outcome        *)
(*   store/qualification.go        verdicts and the selected pair          *)
(*   processsupervisor/authoring.go  the child behind its launch gate      *)
(*   transport/transport.go, workflowruntime/runtime.go, composition.go    *)
(*                                                                         *)
(* Handlers, the serving loop, the closer, the workflow runtime and the    *)
(* authoring worker run concurrently; a lock that is held over a slow call *)
(* (runtimeMu) is a variable, one that is not (mu, authoringMu) is a step. *)
(* The process may die, and the host restart, between any two steps; a     *)
(* child whose gate was opened outlives the daemon.                        *)
(* Left out: reference files, models and purposes of a session, reads.     *)
(***************************************************************************)
EXTENDS Naturals, FiniteSets

CONSTANTS
    Sessions,    \* authoring sessions an operator may create
    Keys,        \* turn keys an operator may use
    TurnLimit,   \* contracts.AuthoringTurnLimit
    Capacity,    \* authoringSessionCapacity
    Scopes,      \* bound: daemon starts, and what operators do in a behaviour
    MaxBoot      \* bound: host boots

VARIABLES
    scope,    \* the bound of this behaviour: [starts, qualify, sessions]
    epoch,    \* durable: daemon_instances.leader_epoch
    turns,    \* durable: authoring_turns
    verdicts, \* durable: the leader that signed each role's newest verdict, 0 if failed
    pair,     \* durable: provider_pair_selections holds the newest verdicts
    boot,     \* external: the boot identity of the host
    child,    \* external: the authoring child of each turn
    pc,       \* where Start and Serve are
    lease,    \* the process holds leader.lock
    db,       \* the process has the Store open
    closer,   \* where Close is
    shut,     \* where the two callers of shutdownRuntime are
    runtimeStopped,  \* Daemon.runtimeStopped
    runtime,  \* the workflow runtime: none, live, closing, closed
    tick,     \* a scheduler tick is using the Store
    coord,    \* the provider coordinator: none, open, closed
    hnd,      \* where the qualification in flight is
    mu,       \* runtimeMu is held over a qualification
    cache,    \* authoringSessions: cached, and those past their time
    flags,    \* authoringStopping, authoringQuarantined
    worker    \* the authoring worker

Turn    == Sessions \X Keys
Roles   == {"builder", "reviewer"}
NoTurn  == [st |-> "none", bt |-> 0, out |-> "none"]
NoWork    == [st |-> "idle", t |-> <<>>, ctx |-> FALSE, out |-> "none"]

authoring == <<turns, child, cache, flags, worker>>
provider  == <<verdicts, pair, runtime, tick, coord, mu>>
process   == <<pc, lease, db, closer, shut, runtimeStopped, hnd>>
daemonVars      == <<scope, epoch, boot, authoring, provider, process>>

DaemonInit ==
    /\ scope \in Scopes
    /\ epoch = 0 /\ boot = 1
    /\ turns = [t \in Turn |-> NoTurn]
    /\ child = [t \in Turn |-> "none"]
    /\ cache = [all |-> {}, old |-> {}, used |-> {}]
    /\ flags = [stop |-> FALSE, quar |-> FALSE]
    /\ worker = NoWork
    /\ verdicts = [r \in Roles |-> 0] /\ pair = FALSE
    /\ runtime = "none" /\ tick = FALSE /\ coord = "none" /\ mu = FALSE
    /\ pc = "down" /\ lease = FALSE /\ db = FALSE
    /\ closer = "none"
    /\ shut = [c \in {"serve", "close"} |-> "none"]
    /\ runtimeStopped = FALSE
    /\ hnd = "none"

Closed   == closer # "none"
Serving  == pc \in {"listening", "serving", "served"}
Pending  == {t \in Turn : turns[t].st \in {"reserved", "launched", "uncertain"}}

-------------------------------------------------------------------------------
(* Qualification verdicts and the selected pair. *)

\* A passing verdict signed by the supervisor of the current leader.
QualificationCurrent(r) == verdicts[r] = epoch

PairUsable == pair /\ \A r \in Roles : QualificationCurrent(r)

-------------------------------------------------------------------------------
(* Start. *)

AcquireLease ==
    /\ pc = "down" /\ ~lease /\ epoch < scope.starts
    /\ pc' = "leased" /\ lease' = TRUE
    /\ UNCHANGED <<epoch, boot, authoring, provider, db, closer, shut, runtimeStopped, hnd>>

\* OpenChannel, AcquireLeader and the recovery key.
OpenStore ==
    /\ pc = "leased"
    /\ pc' = "acquired" /\ db' = TRUE /\ epoch' = epoch + 1
    /\ UNCHANGED <<boot, authoring, provider, lease, closer, shut, runtimeStopped, hnd>>

\* What the supervisor can prove about a turn of a dead leader: it never
\* launched, the host has restarted, or the child is there and is stopped.
RecoverAuthoring(t) ==
    \/ turns[t].bt = 0
    \/ turns[t].bt # boot
    \/ child[t] = "running"

\* Every unfinished turn is interrupted under a proof or kept as uncertain.
RecoverTurns ==
    /\ pc = "acquired"
    /\ \E drained \in SUBSET {t \in Pending : RecoverAuthoring(t)} :
          /\ \A t \in Pending : (turns[t].bt = 0 \/ turns[t].bt # boot) => t \in drained
          /\ turns' = [t \in Turn |->
                IF t \in drained
                THEN [turns[t] EXCEPT !.st = "completed", !.out = "interrupted"]
                ELSE IF t \in Pending THEN [turns[t] EXCEPT !.st = "uncertain"] ELSE turns[t]]
          /\ child' = [t \in Turn |->
                IF t \in drained /\ child[t] = "running" THEN "gone" ELSE child[t]]
          /\ flags' = [flags EXCEPT !.quar = ~(Pending \subseteq drained)]
    /\ pc' = "recovered"
    /\ UNCHANGED <<epoch, boot, cache, worker, provider, lease, db, closer, shut, runtimeStopped, hnd>>

\* ComposeQualified: routes only for a usable pair whose binaries are there.
ComposeQualified == {PairUsable, FALSE}

\* The factory builds a runtime only over a coordinator that has its routes.
RuntimeFactory(ready) == IF ready THEN "live" ELSE runtime

\* Without routes there is no runtime and the coordinator is closed again.
Compose ==
    \E ready \in ComposeQualified :
        /\ runtime' = RuntimeFactory(ready)
        /\ coord' = IF ready THEN "open" ELSE "closed"

StartRuntime ==
    /\ pc = "recovered"
    /\ Compose
    /\ pc' = "started"
    /\ UNCHANGED <<epoch, boot, authoring, verdicts, pair, tick, mu, lease, db, closer, shut, runtimeStopped, hnd>>

\* The socket is opened, under a runtime that already ticks.
Listen ==
    /\ pc = "started"
    /\ pc' = "listening"
    /\ UNCHANGED <<epoch, boot, authoring, provider, lease, db, closer, shut, runtimeStopped, hnd>>

\* Runtime.Start or the socket fails: the runtime is closed first.
ListenFails ==
    /\ pc = "started"
    /\ pc' = "failing" /\ runtime' = IF runtime = "live" THEN "closing" ELSE runtime
    /\ UNCHANGED <<epoch, boot, authoring, verdicts, pair, tick, coord, mu, lease, db, closer, shut,
                   runtimeStopped, hnd>>

\* failStore: a failed start gives back what it took, coordinator, Store and
\* lease one after the other; nobody else is there to see the order.
FailStart ==
    /\ \/ pc \in {"leased", "acquired", "recovered"}
       \/ pc = "failing" /\ runtime # "closing"
    /\ pc' = "down" /\ db' = FALSE /\ lease' = FALSE /\ coord' = "none" /\ runtime' = "none"
    /\ flags' = [flags EXCEPT !.quar = FALSE]
    /\ UNCHANGED <<epoch, boot, turns, child, cache, worker, verdicts, pair, tick, mu,
                   closer, shut, runtimeStopped, hnd>>

-------------------------------------------------------------------------------
(* Serve, the runtime loop and the two callers of shutdownRuntime. *)

Serve ==
    /\ pc = "listening" /\ ~Closed
    /\ pc' = "serving"
    /\ UNCHANGED <<epoch, boot, authoring, provider, lease, db, closer, shut, runtimeStopped, hnd>>

\* The serving context ends, or the listener was closed.  The same context
\* is the parent of every authoring turn.
ServeReturns ==
    /\ pc = "serving"
    /\ pc' = "served"
    /\ shut' = [shut EXCEPT !["serve"] = "enter"]
    /\ worker' = [worker EXCEPT !.ctx = worker.st # "idle"]
    /\ UNCHANGED <<epoch, boot, turns, child, cache, flags, provider, lease, db, closer, runtimeStopped, hnd>>

TickBegins ==
    /\ runtime = "live" /\ ~tick
    /\ tick' = TRUE
    /\ UNCHANGED <<epoch, boot, authoring, verdicts, pair, runtime, coord, mu, process>>

TickEnds ==
    /\ tick
    /\ tick' = FALSE
    /\ UNCHANGED <<epoch, boot, authoring, verdicts, pair, runtime, coord, mu, process>>

ShutdownEnter(c) ==
    /\ shut[c] = "enter" /\ ~mu
    /\ runtimeStopped' = TRUE
    /\ runtime' = IF runtime = "live" THEN "closing" ELSE runtime
    /\ shut' = [shut EXCEPT ![c] = IF runtime \in {"live", "closing"} THEN "join" ELSE "done"]
    /\ UNCHANGED <<epoch, boot, authoring, verdicts, pair, tick, coord, mu, pc, lease, db, closer, hnd>>

\* Runtime.Close: cancel, and wait for the tick that is running.
RuntimeClose ==
    /\ runtime = "closing" /\ ~tick
    /\ runtime' = "closed"
    /\ UNCHANGED <<epoch, boot, authoring, verdicts, pair, tick, coord, mu, process>>

ShutdownLeave(c) ==
    /\ shut[c] = "join" /\ runtime = "closed"
    /\ shut' = [shut EXCEPT ![c] = "done"]
    /\ UNCHANGED <<epoch, boot, authoring, provider, pc, lease, db, closer, runtimeStopped, hnd>>

-------------------------------------------------------------------------------
(* Handlers. *)

\* Handle: beginHandler counts a request unless the daemon is closed.
Admitted == Serving /\ ~Closed

Handle ==
    /\ Admitted /\ hnd = "none" /\ scope.qualify
    /\ hnd' = "begun"
    /\ UNCHANGED <<epoch, boot, authoring, provider, pc, lease, db, closer, shut, runtimeStopped>>

\* qualifyProvider takes runtimeMu for the whole qualification; it is refused
\* while the daemon stops and while a runtime is live on the current pair.
QualifyLock ==
    /\ hnd = "begun" /\ ~mu
    /\ IF Closed \/ runtimeStopped \/ runtime = "live"
       THEN hnd' = "none" /\ mu' = mu
       ELSE hnd' = "builder" /\ mu' = TRUE
    /\ UNCHANGED <<epoch, boot, authoring, verdicts, pair, runtime, tick, coord,
                   pc, lease, db, closer, shut, runtimeStopped>>

\* RecordAttestedProviderQualification: a new verdict drops a pair that
\* selected an older one of the same provider.
RecordQualification(r, signed) ==
    /\ verdicts' = [verdicts EXCEPT ![r] = signed]
    /\ pair' = FALSE

\* One paid probe of a role: the supervisor signs the verdict for the leader
\* it read before, or the fixture fails.
ProbeRole == {epoch, 0}

\* QualifyLocalModels: the builder, then the reviewer.
QualifyRole ==
    /\ hnd \in Roles
    /\ \E r \in {hnd}, signed \in ProbeRole :
          /\ RecordQualification(r, signed)
          /\ hnd' = IF r = "builder" THEN "reviewer" ELSE "select"
    /\ UNCHANGED <<epoch, boot, authoring, runtime, tick, coord, mu, pc, lease, db, closer, shut, runtimeStopped>>

\* A probe fails, or the request times out.
QualifyFails ==
    /\ hnd \in Roles \cup {"select", "activate"}
    /\ mu' = FALSE
    /\ hnd' = "none"
    /\ UNCHANGED <<epoch, boot, authoring, verdicts, pair, runtime, tick, coord,
                   pc, lease, db, closer, shut, runtimeStopped>>

\* SelectProviderSet over the two newest verdicts, only if both are usable.
SelectPair ==
    /\ hnd = "select"
    /\ \A r \in Roles : QualificationCurrent(r)
    /\ pair' = TRUE
    /\ hnd' = "activate"
    /\ UNCHANGED <<epoch, boot, authoring, verdicts, runtime, tick, coord, mu,
                   pc, lease, db, closer, shut, runtimeStopped>>

\* activateQualifiedRuntimeLocked; Close may have begun since the lock was taken.
Activate ==
    /\ hnd = "activate" /\ ~Closed
    /\ Compose
    /\ mu' = FALSE
    /\ hnd' = "none"
    /\ UNCHANGED <<epoch, boot, authoring, verdicts, pair, tick, pc, lease, db, closer, shut, runtimeStopped>>

-------------------------------------------------------------------------------
(* Authoring sessions and turns. *)

\* The durable row of a session: its identity is never used again.
CreateAuthoringSession(s) ==
    /\ s \notin cache.used
    /\ cache' = [cache EXCEPT !.all = @ \cup {s}, !.used = @ \cup {s}]

\* createAuthoring prepares between two checks; while a handler runs only
\* the quarantine can change, so the second check is the one that counts.
CreateAuthoring ==
    /\ Admitted /\ Cardinality(cache.used) < scope.sessions
    /\ ~flags.stop /\ ~flags.quar /\ Cardinality(cache.all) < Capacity
    /\ \E s \in Sessions : CreateAuthoringSession(s)
    /\ UNCHANGED <<epoch, boot, turns, child, flags, worker, provider, process>>

\* The session's time is over; its timer drops it unless its worker runs.
SessionExpires(s) ==
    /\ s \in cache.all \ cache.old
    /\ cache' = IF worker.st # "idle" /\ worker.t[1] = s
                THEN [cache EXCEPT !.old = @ \cup {s}] ELSE [cache EXCEPT !.all = @ \ {s}]
    /\ UNCHANGED <<epoch, boot, turns, child, flags, worker, provider, process>>

\* A turn is reserved once per key, within the limit of its session, and
\* never while another turn of the channel is unfinished.
ReserveAuthoringTurn(t) ==
    /\ turns[t].st = "none"
    /\ Cardinality({u \in Turn : u[1] = t[1] /\ turns[u].st # "none"}) < TurnLimit
    /\ Pending = {}
    /\ turns' = [turns EXCEPT ![t] = [NoTurn EXCEPT !.st = "reserved"]]

\* turnAuthoring holds authoringMu through ReserveAuthoringTurn: a key that
\* is known is a replay, and a new one starts the only worker.
TurnAuthoring ==
    /\ Admitted /\ ~flags.stop /\ ~flags.quar /\ worker.st = "idle"
    /\ \E t \in Turn :
          /\ t[1] \in cache.all \ cache.old
          /\ ReserveAuthoringTurn(t)
          /\ worker' = [NoWork EXCEPT !.st = "begun", !.t = t, !.ctx = pc = "served"]
    /\ UNCHANGED <<epoch, boot, child, cache, flags, provider, process>>

\* authoring.cancel, or the turn's own time limit.
CancelTurn ==
    /\ worker.st # "idle" /\ ~worker.ctx
    /\ worker' = [worker EXCEPT !.ctx = TRUE]
    /\ UNCHANGED <<epoch, boot, turns, child, cache, flags, provider, process>>

\* What the worker does next with its turn.
Works(st) == worker.st = st
Goes(st)  == worker' = [worker EXCEPT !.st = st]

\* RunAuthoring binds the staged runtime and starts the gated child; a
\* failure before the child exists needs no drain.
StartGate ==
    /\ Works("begun")
    /\ \/ Goes("proved") /\ child' = child
       \/ ~worker.ctx /\ Goes("gated") /\ child' = [child EXCEPT ![worker.t] = "gated"]
    /\ UNCHANGED <<epoch, boot, turns, cache, flags, provider, process>>

\* The child's start identity is unknown: the unreleased gate is killed, and
\* either seen gone or left unclear.
IdentityUnknown ==
    /\ Works("gated")
    /\ worker' \in {[worker EXCEPT !.st = st] : st \in {"proved", "unclear"}}
    /\ child' = [child EXCEPT ![worker.t] = "gone"]
    /\ UNCHANGED <<epoch, boot, turns, cache, flags, provider, process>>

\* RecordAuthoringLaunch, while this process still leads.
RecordLaunch ==
    /\ Works("gated")
    /\ \/ /\ ~worker.ctx /\ lease /\ turns[worker.t].st = "reserved"
          /\ turns' = [turns EXCEPT ![worker.t].st = "launched", ![worker.t].bt = boot]
          /\ Goes("recorded")
       \/ turns' = turns /\ Goes("killing")
    /\ UNCHANGED <<epoch, boot, child, cache, flags, provider, process>>

\* One byte opens the gate: from here the child runs on its own.
ReleaseGateMutant ==  \* A plausible bug: the gate is opened before the launch is recorded.
    /\ worker.st \in {"gated", "recorded"}
    /\ \/ /\ ~worker.ctx
          /\ child' = [child EXCEPT ![worker.t] = "running"]
          /\ Goes("released")
       \/ worker.ctx /\ child' = child /\ Goes("killing")
    /\ UNCHANGED <<epoch, boot, turns, cache, flags, provider, process>>

ReleaseGate ==
    /\ Works("recorded")
    /\ \/ /\ ~worker.ctx
          /\ child' = [child EXCEPT ![worker.t] = "running"]
          /\ Goes("released")
       \/ worker.ctx /\ child' = child /\ Goes("killing")
    /\ UNCHANGED <<epoch, boot, turns, cache, flags, provider, process>>

\* The child ends on its own.
ChildExits(t) ==
    /\ child[t] = "running"
    /\ child' = [child EXCEPT ![t] = "gone"]
    /\ UNCHANGED <<epoch, boot, turns, cache, flags, worker, provider, process>>

\* terminate and proveGone, after an exit, a failed launch or a cancellation;
\* without proof that the whole group is gone the turn stays unclear.
ProveGone ==
    /\ \/ Works("killing")
       \/ Works("released") /\ (worker.ctx \/ child[worker.t] = "gone")
    /\ \/ /\ child' = [child EXCEPT ![worker.t] = "gone"]
          /\ \E out \in IF Works("released") /\ child[worker.t] = "gone"
                        THEN {"failed", "success"} ELSE {"failed"} :
                worker' = [worker EXCEPT !.st = "proved", !.out = out]
       \/ child' = child /\ Goes("unclear")
    /\ UNCHANGED <<epoch, boot, turns, cache, flags, provider, process>>

\* The outcome of a turn that is proved drained; a completed turn is final.
FinishAuthoringTurn(t, out) ==
    [turns EXCEPT ![t].st = "completed", ![t].out = out]

\* A turn nobody can prove drained; the mark itself may be lost.
MarkAuthoringUncertain(t) == {turns, [turns EXCEPT ![t].st = "uncertain"]}

\* runAuthoring: FinishAuthoringTurn under the proof; when it fails, or there
\* is no proof, the turn is uncertain and authoring stays closed in this process.
FinishTurn ==
    /\ worker.st \in {"proved", "unclear"}
    /\ LET out == IF worker.ctx THEN "cancelled" ELSE IF worker.out = "success" THEN "success" ELSE "failed"
           t   == worker.t
       IN  \/ /\ Works("proved")
              /\ turns' = FinishAuthoringTurn(t, out)
              /\ flags' = flags
           \/ /\ turns' \in MarkAuthoringUncertain(t)
              /\ flags' = [flags EXCEPT !.quar = TRUE]
    /\ cache' = [cache EXCEPT !.all = @ \ (cache.old \cap {worker.t[1]})]
    /\ worker' = NoWork
    /\ UNCHANGED <<epoch, boot, child, provider, process>>

-------------------------------------------------------------------------------
(* Close. *)

CloseBegins ==
    /\ Serving /\ ~Closed
    /\ closer' = "handlers"
    /\ UNCHANGED <<epoch, boot, authoring, provider, pc, lease, db, shut, runtimeStopped, hnd>>

\* Server.Close and handlers.Wait, then closeAuthoring stops the worker.
CloseWaitsHandlers ==
    /\ closer = "handlers" /\ hnd = "none"
    /\ closer' = "authoring"
    /\ flags' = [flags EXCEPT !.stop = TRUE]
    /\ worker' = [worker EXCEPT !.ctx = worker.st # "idle"]
    /\ UNCHANGED <<epoch, boot, turns, child, cache, provider, pc, lease, db, shut, runtimeStopped, hnd>>

\* The worker ends, or the grace time does; either way the runtime is joined.
CloseAuthoring ==
    /\ closer = "authoring"
    /\ closer' \in {"late"} \cup (IF Works("idle") THEN {"runtime"} ELSE {})
    /\ shut' = [shut EXCEPT !["close"] = "enter"]
    /\ UNCHANGED <<epoch, boot, authoring, provider, pc, lease, db, runtimeStopped, hnd>>

\* A worker that did not end keeps the Store and the lease until it does.
CloseJoinsMutant ==  \* A plausible bug: Close gives up its authority after the grace time.
    /\ closer \in {"runtime", "late"} /\ shut["close"] = "done"
    /\ closer' = "resources"
    /\ UNCHANGED <<epoch, boot, authoring, provider, pc, lease, db, shut, runtimeStopped, hnd>>

CloseJoins ==
    /\ closer \in {"runtime", "late"} /\ shut["close"] = "done"
    /\ closer = "late" => Works("idle")
    /\ closer' = "resources"
    /\ UNCHANGED <<epoch, boot, authoring, provider, pc, lease, db, shut, runtimeStopped, hnd>>

\* closeOwnedResources: coordinator, Store, lease, in that order.
CloseResources ==
    /\ closer = "resources"
    /\ \/ coord = "open" /\ coord' = "closed" /\ UNCHANGED <<db, lease, closer>>
       \/ coord # "open" /\ db /\ db' = FALSE /\ UNCHANGED <<coord, lease, closer>>
       \/ coord # "open" /\ ~db /\ lease' = FALSE /\ closer' = "done" /\ UNCHANGED <<coord, db>>
    /\ UNCHANGED <<epoch, boot, authoring, verdicts, pair, runtime, tick, mu, pc, shut, runtimeStopped, hnd>>

\* What a process loses when it ends; an unopened gate ends with its pipe.
Dies ==
    /\ pc' = "down" /\ lease' = FALSE /\ db' = FALSE /\ closer' = "none"
    /\ shut' = [c \in {"serve", "close"} |-> "none"] /\ runtimeStopped' = FALSE
    /\ runtime' = "none" /\ tick' = FALSE /\ coord' = "none" /\ mu' = FALSE
    /\ hnd' = "none"
    /\ cache' = [cache EXCEPT !.all = {}, !.old = {}]
    /\ flags' = [stop |-> FALSE, quar |-> FALSE]
    /\ worker' = NoWork
    /\ UNCHANGED <<epoch, turns, verdicts, pair>>

\* The foreground process ends after Close, or is killed at any time.
Exit ==
    /\ pc # "down"
    /\ Dies
    /\ child' = [t \in Turn |-> IF child[t] = "gated" THEN "gone" ELSE child[t]]
    /\ UNCHANGED boot

Reboot ==
    /\ boot < MaxBoot
    /\ Dies
    /\ boot' = boot + 1
    /\ child' = [t \in Turn |-> IF child[t] = "none" THEN "none" ELSE "gone"]

-------------------------------------------------------------------------------
Progress ==
    \/ TickEnds \/ RuntimeClose \/ QualifyLock \/ QualifyFails
    \/ \E c \in {"serve", "close"} : ShutdownEnter(c) \/ ShutdownLeave(c)
    \/ StartGate \/ RecordLaunch \/ ReleaseGate \/ ProveGone \/ FinishTurn
    \/ CloseWaitsHandlers \/ CloseAuthoring \/ CloseJoins \/ CloseResources

Step ==
    \/ AcquireLease \/ OpenStore \/ RecoverTurns \/ StartRuntime \/ Listen
    \/ ListenFails \/ FailStart
    \/ Serve \/ ServeReturns \/ TickBegins \/ QualifyRole \/ SelectPair \/ Activate
    \/ Handle \/ CreateAuthoring \/ TurnAuthoring
    \/ \E s \in Sessions : SessionExpires(s)
    \/ CancelTurn \/ IdentityUnknown \/ CloseBegins \/ Exit \/ Reboot
    \/ \E t \in Turn : ChildExits(t)
    \/ Progress

DaemonNext == Step /\ UNCHANGED scope

DaemonSpec == DaemonInit /\ [][DaemonNext]_daemonVars

-------------------------------------------------------------------------------
(* Properties. *)

\* daemon.go Close: the Store is closed only when no handler, no tick, no
\* authoring worker and no open coordinator can use it, and the lease is
\* given back only after the Store, so no second daemon ever meets the first.
NoLateUser ==
    /\ pc # "down" /\ ~db =>
          /\ hnd = "none"
          /\ ~tick /\ runtime # "live" /\ worker.st = "idle" /\ coord # "open"
    /\ db => lease

\* From CloseBegins until the lease is given back some step of the daemon itself
\* can always be taken: Close never waits on itself.
CloseMoves == Closed /\ lease => ENABLED Progress

\* daemon.go Close ends in order, and never waits on itself.
AuthorityOutlivesWork == NoLateUser /\ CloseMoves

\* processsupervisor RunAuthoring: a child that runs is one a later daemon can
\* find, by a durable launch on an unfinished turn, and there is at most one.
ChildIsAccounted ==
    /\ \A t \in Turn : child[t] = "running" =>
          turns[t].bt = boot /\ turns[t].st \in {"launched", "uncertain"}
    /\ Cardinality({t \in Turn : child[t] = "running"}) <= 1
===============================================================================
