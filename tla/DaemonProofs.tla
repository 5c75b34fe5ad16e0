---------------------------- MODULE DaemonProofs ----------------------------
(***************************************************************************)
(* The daemon: two theorems of DaemonLife, for any number of starts,       *)
(* reboots, sessions and turns, those of LeaderLease, for any set of       *)
(* daemons that race for the lock, and that of RuntimeControl, for any     *)
(* number of versions, daemons and requests.                               *)
(*                                                                         *)
(* No late user: the Store is not closed under anything that still uses it *)
(* and the lease outlives the Store.  The invariant follows Start and      *)
(* Close: what a process that does not serve yet cannot have (Fresh), what *)
(* the closer has joined at each of its stages (Joined), and that a tick   *)
(* needs a runtime (Ticking).                                              *)
(*                                                                         *)
(* Child is accounted: a running authoring child has a durable launch on   *)
(* an unfinished turn.  The invariant relates the worker's place to its    *)
(* turn and its child (Working) and says that at most one turn of the      *)
(* channel is unfinished (OnePending).                                     *)
(*                                                                         *)
(* One valid lease, commits in the order of epochs: a daemon past the      *)
(* flock holds the flock of its inode and finds its own metadata there     *)
(* (FlockHeld, MetaHeld), and no epoch is ahead of the durable one.        *)
(*                                                                         *)
(* Rows agree: the durable control row, its latch, the scheduler's         *)
(* permission and the ticket's identity agree at every moment.  RowsAgree  *)
(* alone is not inductive: it says nothing of a request or of an activity  *)
(* that holds an identity it read earlier.  ControlInv adds what those     *)
(* know: identities only lie behind the fence (Behind), a dead daemon left *)
(* no memory (Gone), a request is in the phase its kind needs (Phased), a  *)
(* request past its seal still has the sealed row (Held), a Begin for the  *)
(* current identity still has its permission (Backed), and whoever has the *)
(* current identity finds the ticket active (Current).                     *)
(***************************************************************************)
EXTENDS DaemonLife, LeaderLease, RuntimeControl, FiniteSetTheorems, TLAPS

TurnStates == {"none", "reserved", "launched", "uncertain", "completed"}
WorkerStates == {"idle", "begun", "gated", "recorded", "released", "killing",
                 "proved", "unclear"}

Outcomes == {"none", "interrupted", "failed", "success", "cancelled"}
TurnSet == [st : TurnStates, bt : Nat, out : Outcomes]
WorkerSet == [st : WorkerStates, t : Turn \cup {<<>>}, ctx : BOOLEAN, out : Outcomes]

Typed ==
    /\ epoch \in Nat /\ boot \in Nat
    /\ turns \in [Turn -> TurnSet]
    /\ child \in [Turn -> {"none", "gated", "running", "gone"}]
    /\ worker \in WorkerSet
    /\ worker.st # "idle" => worker.t \in Turn
    /\ shut \in [{"serve", "close"} -> {"none", "enter", "join", "done"}]
    /\ runtime \in {"none", "live", "closing", "closed"}
    /\ tick \in BOOLEAN /\ db \in BOOLEAN /\ lease \in BOOLEAN
    /\ pc \in {"down", "leased", "acquired", "recovered", "started", "failing", "listening",
              "serving", "served"}
    /\ closer \in {"none", "handlers", "authoring", "late", "runtime", "resources", "done"}

-----------------------------------------------------------------------------
(* The order of Start and Close *)

\* A process that does not serve yet has no handler and no worker, and no
\* runtime before the last stage of its start; the Store and the lease come and
\* go in their order.
Fresh ==
    /\ ~Serving =>
         /\ hnd = "none" /\ worker.st = "idle"
         /\ closer = "none" /\ shut["close"] = "none"
    /\ ~Serving /\ pc \notin {"started", "failing"} =>
         ~tick /\ runtime = "none" /\ coord = "none"
    /\ pc = "failing" => runtime # "live"
    /\ pc = "down" => ~db
    /\ pc = "leased" => lease
    /\ pc \in {"acquired", "recovered", "started", "failing"} => db
    /\ Serving /\ ~db => closer \in {"resources", "done"}
    /\ db => lease

\* A tick runs on a runtime that is live or being closed.
Ticking == tick => runtime \in {"live", "closing"}

\* What Close has joined by the stage it is in.
Joined ==
    /\ closer \notin {"none", "handlers"} => hnd = "none"
    /\ closer \in {"runtime", "resources", "done"} => worker.st = "idle"
    /\ closer \in {"none", "handlers", "authoring"} => shut["close"] = "none"
    /\ shut["close"] = "done" => runtime \in {"none", "closed"}
    /\ closer \in {"resources", "done"} => shut["close"] = "done" /\ (db \/ coord # "open")

OrderInv == Fresh /\ Ticking /\ Joined

-----------------------------------------------------------------------------
(* The authoring child *)

\* At most one turn of the channel is unfinished (ReserveAuthoringTurn).
OnePending == \A t, u \in Pending : t = u

\* Where the worker is, its turn and its child agree.
Working ==
    /\ worker.st \in {"begun", "gated"} =>
         turns[worker.t].st = "reserved" /\ child[worker.t] # "running"
    /\ worker.st = "recorded" =>
         /\ turns[worker.t].st = "launched" /\ turns[worker.t].bt = boot
         /\ child[worker.t] # "running"
    /\ worker.st \in {"killing", "proved"} => child[worker.t] # "running"
    /\ worker.st # "idle" => turns[worker.t].st \in {"reserved", "launched"}

\* A running child has a durable launch of this boot on an unfinished turn.
Launched ==
    \A t \in Turn : child[t] = "running" =>
        turns[t].bt = boot /\ turns[t].st \in {"launched", "uncertain"}

ChildInv == OnePending /\ Working /\ Launched

DaemonInv == Typed /\ OrderInv /\ ChildInv

-----------------------------------------------------------------------------
(* Values *)

\* A turn's record keeps its type under the updates of the Store.
LEMMA TurnIs ==
  ASSUME NEW r \in TurnSet
  PROVE  /\ r.st \in TurnStates /\ r.bt \in Nat /\ r.out \in Outcomes
         /\ \A st \in TurnStates : /\ [r EXCEPT !.st = st] \in TurnSet
                                   /\ [r EXCEPT !.st = st].st = st
                                   /\ [r EXCEPT !.st = st].bt = r.bt
         /\ \A st \in TurnStates, b \in Nat :
              /\ [r EXCEPT !.st = st, !.bt = b] \in TurnSet
              /\ [r EXCEPT !.st = st, !.bt = b].st = st
              /\ [r EXCEPT !.st = st, !.bt = b].bt = b
         /\ \A st \in TurnStates, out \in Outcomes :
              /\ [r EXCEPT !.st = st, !.out = out] \in TurnSet
              /\ [r EXCEPT !.st = st, !.out = out].st = st
              /\ [r EXCEPT !.st = st, !.out = out].bt = r.bt
  BY DEF TurnSet

\* A turn that is reserved.
LEMMA ReservedIs ==
  LET r == [NoTurn EXCEPT !.st = "reserved"]
  IN  NoTurn \in TurnSet /\ r \in TurnSet /\ r.st = "reserved"
<1>1. NoTurn \in TurnSet
  BY DEF NoTurn, TurnSet, TurnStates, Outcomes
<1>2. "reserved" \in TurnStates
  BY DEF TurnStates
<1> QED
  BY SMTT(30), <1>1, <1>2, TurnIs, Zenon

\* The worker keeps its turn when it moves or is cancelled.
LEMMA WorkerIs ==
  ASSUME NEW w \in WorkerSet
  PROVE  /\ \A st \in WorkerStates : /\ [w EXCEPT !.st = st] \in WorkerSet
                                     /\ [w EXCEPT !.st = st].st = st
                                     /\ [w EXCEPT !.st = st].t = w.t
         /\ \A b \in BOOLEAN : /\ [w EXCEPT !.ctx = b] \in WorkerSet
                               /\ [w EXCEPT !.ctx = b].st = w.st
                               /\ [w EXCEPT !.ctx = b].t = w.t
         /\ \A st \in WorkerStates, out \in Outcomes :
              /\ [w EXCEPT !.st = st, !.out = out] \in WorkerSet
              /\ [w EXCEPT !.st = st, !.out = out].st = st
              /\ [w EXCEPT !.st = st, !.out = out].t = w.t
         /\ \A st \in WorkerStates, t \in Turn, b \in BOOLEAN :
              /\ [w EXCEPT !.st = st, !.t = t, !.ctx = b] \in WorkerSet
              /\ [w EXCEPT !.st = st, !.t = t, !.ctx = b].st = st
              /\ [w EXCEPT !.st = st, !.t = t, !.ctx = b].t = t
  BY DEF WorkerSet

\* No worker, and a new one.
LEMMA IdleIs ==
  /\ NoWork \in WorkerSet /\ NoWork.st = "idle"
  /\ \A t \in Turn, b \in BOOLEAN :
       /\ [NoWork EXCEPT !.st = "begun", !.t = t, !.ctx = b] \in WorkerSet
       /\ [NoWork EXCEPT !.st = "begun", !.t = t, !.ctx = b].st = "begun"
       /\ [NoWork EXCEPT !.st = "begun", !.t = t, !.ctx = b].t = t
<1>1. NoWork \in WorkerSet /\ NoWork.st = "idle" /\ "begun" \in WorkerStates
  BY DEF NoWork, WorkerSet, WorkerStates, Outcomes
<1>2. \A st \in WorkerStates, t \in Turn, b \in BOOLEAN :
        /\ [NoWork EXCEPT !.st = st, !.t = t, !.ctx = b] \in WorkerSet
        /\ [NoWork EXCEPT !.st = st, !.t = t, !.ctx = b].st = st
        /\ [NoWork EXCEPT !.st = st, !.t = t, !.ctx = b].t = t
  BY <1>1, WorkerIs, Zenon
<1> QED
  BY <1>1, <1>2, Zenon

-----------------------------------------------------------------------------
(* Frames *)

\* What the worker's turn and child are does not depend on the daemon's own
\* steps: cancelling a turn changes neither.
LEMMA AuthoringStands ==
  ASSUME DaemonInv, UNCHANGED <<boot, turns, child>>, worker' \in WorkerSet,
         worker'.st = worker.st, worker'.t = worker.t
  PROVE  ChildInv'
  BY DEF DaemonInv, Typed, ChildInv, OnePending, Pending, Working, Launched

\* The worker's steps do not touch the process; it starts only while the daemon
\* is open, and what Close waits for is that it is idle.
LEMMA ProcessStands ==
  ASSUME DaemonInv, UNCHANGED <<provider, process>>,
         worker'.st = "idle" \/ worker.st # "idle" \/ Admitted
  PROVE  OrderInv'
  BY DEF DaemonInv, OrderInv, Fresh, Ticking, Joined, Serving, Admitted,
         Closed, provider, process

-----------------------------------------------------------------------------
(* Steps of the daemon *)

\* The lock is taken first.
LEMMA AcquireLeaseKeeps ==
  ASSUME DaemonInv, AcquireLease
  PROVE  DaemonInv'
<1> USE DEF DaemonInv, Typed, authoring, provider, process
<1>1. Typed'
  BY DEF AcquireLease
<1>2. Fresh'
  BY DEF OrderInv, Fresh, Joined, Ticking, Serving, Closed, AcquireLease
<1>3. Ticking' /\ Joined'
  BY DEF OrderInv, Ticking, Joined, AcquireLease
<1>4. ChildInv'
  BY AuthoringStands DEF AcquireLease
<1> QED
  BY <1>1, <1>2, <1>3, <1>4 DEF OrderInv

\* The Store is opened under the lease.
LEMMA OpenStoreKeeps ==
  ASSUME DaemonInv, OpenStore
  PROVE  DaemonInv'
<1> USE DEF DaemonInv, Typed, authoring, provider, process
<1>1. Typed'
  BY DEF OpenStore
<1>2. Fresh'
  BY DEF OrderInv, Fresh, Joined, Ticking, Serving, Closed, OpenStore
<1>3. Joined'
  BY DEF OrderInv, Fresh, Ticking, Joined, Serving, Closed, OpenStore
<1>4. Ticking'
  BY DEF OrderInv, Ticking, OpenStore
<1>5. ChildInv'
  BY AuthoringStands DEF OpenStore
<1> QED
  BY <1>1, <1>2, <1>3, <1>4, <1>5 DEF OrderInv

\* The runtime of a start.
LEMMA StartRuntimeKeeps ==
  ASSUME DaemonInv, StartRuntime
  PROVE  DaemonInv'
<1> USE DEF DaemonInv, Typed, authoring, provider, process
<1>1. Typed'
  BY DEF StartRuntime, Compose, RuntimeFactory
<1>2. Fresh'
  BY DEF OrderInv, Fresh, Joined, Ticking, Serving, Closed, StartRuntime,
         Compose, RuntimeFactory
<1>3. Ticking'
  BY DEF OrderInv, Ticking, StartRuntime, Compose, RuntimeFactory
<1>4. Joined'
  BY DEF OrderInv, Fresh, Ticking, Joined, Serving, Closed, StartRuntime,
         Compose, RuntimeFactory
<1>5. ChildInv'
  BY AuthoringStands DEF StartRuntime
<1> QED
  BY <1>1, <1>2, <1>3, <1>4, <1>5 DEF OrderInv

\* The runtime starts before the socket, and is closed when that fails.
LEMMA ListenKeeps ==
  ASSUME DaemonInv, Listen \/ ListenFails
  PROVE  DaemonInv'
<1> USE DEF DaemonInv, Typed, authoring, provider, process
<1>1. Typed'
  BY DEF Listen, ListenFails
<1>2. Fresh'
  BY DEF OrderInv, Fresh, Joined, Ticking, Serving, Closed, Listen, ListenFails
<1>3. Ticking'
  BY DEF OrderInv, Ticking, Listen, ListenFails
<1>4. Joined'
  BY DEF OrderInv, Fresh, Ticking, Joined, Serving, Closed, Listen, ListenFails
<1>5. ChildInv'
  BY AuthoringStands DEF Listen, ListenFails
<1> QED
  BY <1>1, <1>2, <1>3, <1>4, <1>5 DEF OrderInv

\* A failed start gives back what it took.
LEMMA FailStartKeeps ==
  ASSUME DaemonInv, FailStart
  PROVE  DaemonInv'
<1> USE DEF DaemonInv, Typed, authoring, provider, process
<1>1. Typed'
  BY DEF FailStart
<1>2. Fresh'
  BY DEF OrderInv, Fresh, Joined, Ticking, Serving, Closed, FailStart
<1>3. Joined'
  BY DEF OrderInv, Fresh, Ticking, Joined, Serving, Closed, FailStart
<1>4. Ticking'
  BY DEF OrderInv, Fresh, Serving, Ticking, FailStart
<1>5. ChildInv'
  BY AuthoringStands DEF FailStart
<1> QED
  BY <1>1, <1>2, <1>3, <1>4, <1>5 DEF OrderInv

\* A daemon that was not closed serves.
LEMMA ServeKeeps ==
  ASSUME DaemonInv, Serve
  PROVE  DaemonInv'
<1> USE DEF DaemonInv, Typed, authoring, provider, process
<1>1. Typed'
  BY DEF Serve
<1>2. Fresh'
  BY DEF OrderInv, Fresh, Joined, Ticking, Serving, Closed, Serve
<1>3. Ticking' /\ Joined'
  BY DEF OrderInv, Ticking, Joined, Serve
<1>4. ChildInv'
  BY AuthoringStands DEF Serve
<1> QED
  BY <1>1, <1>2, <1>3, <1>4 DEF OrderInv

\* The end of serving joins the runtime and cancels the turn.
LEMMA ServeReturnsKeeps ==
  ASSUME DaemonInv, ServeReturns
  PROVE  DaemonInv'
<1> USE DEF DaemonInv, Typed, authoring, provider, process
<1>1. worker' \in WorkerSet /\ worker'.st = worker.st /\ worker'.t = worker.t
  <2>1. PICK b \in BOOLEAN : b = (worker.st # "idle")
    OBVIOUS
  <2>2. worker' = [worker EXCEPT !.ctx = b]
    BY <2>1, Zenon DEF ServeReturns
  <2> QED
    BY ZenonT(60), <2>2, WorkerIs
<1>2. Typed'
  BY <1>1 DEF ServeReturns
<1>3. Fresh'
  BY <1>1 DEF OrderInv, Fresh, Joined, Ticking, Serving, Closed, ServeReturns
<1>4. Joined'
  BY <1>1 DEF OrderInv, Fresh, Ticking, Joined, Serving, Closed, ServeReturns
<1>5. Ticking'
  BY DEF OrderInv, Ticking, ServeReturns
<1>6. ChildInv'
  BY <1>1, AuthoringStands DEF ServeReturns
<1> QED
  BY <1>2, <1>3, <1>4, <1>5, <1>6 DEF OrderInv

\* A tick needs a live runtime.
LEMMA TickBeginsKeeps ==
  ASSUME DaemonInv, TickBegins
  PROVE  DaemonInv'
<1> USE DEF DaemonInv, Typed, authoring, provider, process
<1>1. Typed'
  BY DEF TickBegins
<1>2. Fresh'
  BY DEF OrderInv, Fresh, Joined, Ticking, Serving, Closed, TickBegins
<1>3. Ticking'
  BY DEF OrderInv, Ticking, TickBegins
<1>4. Joined'
  BY DEF OrderInv, Joined, TickBegins
<1>5. ChildInv'
  BY AuthoringStands DEF TickBegins
<1> QED
  BY <1>1, <1>2, <1>3, <1>4, <1>5 DEF OrderInv

\* A tick returns.
LEMMA TickEndsKeeps ==
  ASSUME DaemonInv, TickEnds
  PROVE  DaemonInv'
<1> USE DEF DaemonInv, Typed, authoring, provider, process
<1>1. Typed'
  BY ZenonT(60), SMTT(30) DEF TickEnds
<1>2. Fresh'
  BY DEF OrderInv, Fresh, Joined, Ticking, Serving, Closed, TickEnds
<1>3. Ticking'
  BY DEF OrderInv, Ticking, TickEnds
<1>4. Joined'
  BY DEF OrderInv, Joined, TickEnds
<1>5. ChildInv'
  BY AuthoringStands DEF TickEnds
<1> QED
  BY <1>1, <1>2, <1>3, <1>4, <1>5 DEF OrderInv

\* Runtime.Close has waited for the tick.
LEMMA RuntimeCloseKeeps ==
  ASSUME DaemonInv, RuntimeClose
  PROVE  DaemonInv'
<1> USE DEF DaemonInv, Typed, authoring, provider, process
<1>1. Typed'
  BY DEF RuntimeClose
<1>2. Fresh'
  BY DEF OrderInv, Fresh, Joined, Ticking, Serving, Closed, RuntimeClose
<1>3. Ticking'
  BY DEF OrderInv, Ticking, RuntimeClose
<1>4. Joined'
  BY DEF OrderInv, Fresh, Ticking, Joined, Serving, Closed, RuntimeClose
<1>5. ChildInv'
  BY AuthoringStands DEF RuntimeClose
<1> QED
  BY <1>1, <1>2, <1>3, <1>4, <1>5 DEF OrderInv

\* A request is counted only before Close begins.
LEMMA HandleKeeps ==
  ASSUME DaemonInv, Handle
  PROVE  DaemonInv'
<1> USE DEF DaemonInv, Typed, authoring, provider, process
<1>1. Typed'
  BY DEF Handle
<1>2. Fresh'
  BY DEF OrderInv, Fresh, Joined, Ticking, Serving, Closed, Handle, Admitted
<1>3. Joined'
  BY DEF OrderInv, Fresh, Ticking, Joined, Serving, Closed, Handle, Admitted
<1>4. Ticking'
  BY DEF OrderInv, Ticking, Handle
<1>5. ChildInv'
  BY AuthoringStands DEF Handle
<1> QED
  BY <1>1, <1>2, <1>3, <1>4, <1>5 DEF OrderInv

\* A qualification that has the lock is still counted.
LEMMA QualifyLockKeeps ==
  ASSUME DaemonInv, QualifyLock
  PROVE  DaemonInv'
<1> USE DEF DaemonInv, Typed, authoring, provider, process
<1>1. Typed'
  BY DEF QualifyLock
<1>2. Fresh'
  BY DEF OrderInv, Fresh, Joined, Ticking, Serving, Closed, QualifyLock
<1>3. Joined'
  BY DEF OrderInv, Fresh, Ticking, Joined, Serving, Closed, QualifyLock
<1>4. Ticking'
  BY DEF OrderInv, Ticking, QualifyLock
<1>5. ChildInv'
  BY AuthoringStands DEF QualifyLock
<1> QED
  BY <1>1, <1>2, <1>3, <1>4, <1>5 DEF OrderInv

\* A verdict is recorded by a counted request.
LEMMA QualifyRoleKeeps ==
  ASSUME DaemonInv, QualifyRole
  PROVE  DaemonInv'
<1> USE DEF DaemonInv, Typed, authoring, provider, process
<1>1. Typed'
  BY DEF QualifyRole, RecordQualification, Roles
<1>2. Fresh'
  BY DEF OrderInv, Fresh, Joined, Ticking, Serving, Closed, QualifyRole,
         RecordQualification, Roles
<1>3. Joined'
  BY DEF OrderInv, Fresh, Ticking, Joined, Serving, Closed, QualifyRole,
         RecordQualification, Roles
<1>4. Ticking'
  BY DEF OrderInv, Ticking, QualifyRole, RecordQualification, Roles
<1>5. ChildInv'
  BY AuthoringStands DEF QualifyRole
<1> QED
  BY <1>1, <1>2, <1>3, <1>4, <1>5 DEF OrderInv

\* A qualification gives up.
LEMMA QualifyFailsKeeps ==
  ASSUME DaemonInv, QualifyFails
  PROVE  DaemonInv'
<1> USE DEF DaemonInv, Typed, authoring, provider, process
<1>1. Typed'
  BY DEF QualifyFails
<1>2. Fresh'
  BY DEF OrderInv, Fresh, Joined, Ticking, Serving, Closed, QualifyFails, Roles
<1>3. Joined'
  BY DEF OrderInv, Fresh, Ticking, Joined, Serving, Closed, QualifyFails, Roles
<1>4. Ticking'
  BY DEF OrderInv, Ticking, QualifyFails
<1>5. ChildInv'
  BY AuthoringStands DEF QualifyFails
<1> QED
  BY <1>1, <1>2, <1>3, <1>4, <1>5 DEF OrderInv

\* The pair is selected by a counted request.
LEMMA SelectPairKeeps ==
  ASSUME DaemonInv, SelectPair
  PROVE  DaemonInv'
<1> USE DEF DaemonInv, Typed, authoring, provider, process
<1>1. Typed'
  BY DEF SelectPair
<1>2. Fresh'
  BY DEF OrderInv, Fresh, Joined, Ticking, Serving, Closed, SelectPair
<1>3. Joined'
  BY DEF OrderInv, Fresh, Ticking, Joined, Serving, Closed, SelectPair
<1>4. Ticking'
  BY DEF OrderInv, Ticking, SelectPair
<1>5. ChildInv'
  BY AuthoringStands DEF SelectPair
<1> QED
  BY <1>1, <1>2, <1>3, <1>4, <1>5 DEF OrderInv

\* A runtime is activated by a request that Close still waits for.
LEMMA ActivateKeeps ==
  ASSUME DaemonInv, Activate
  PROVE  DaemonInv'
<1> USE DEF DaemonInv, Typed, authoring, provider, process
<1>1. Typed'
  BY DEF Activate, Compose, RuntimeFactory
<1>2. Fresh'
  BY DEF OrderInv, Fresh, Joined, Ticking, Serving, Closed, Activate, Compose,
         RuntimeFactory
<1>3. Ticking'
  BY DEF OrderInv, Ticking, Activate, Compose, RuntimeFactory
<1>4. Joined'
  BY DEF OrderInv, Fresh, Ticking, Joined, Serving, Closed, Activate, Compose,
         RuntimeFactory
<1>5. ChildInv'
  BY AuthoringStands DEF Activate
<1> QED
  BY <1>1, <1>2, <1>3, <1>4, <1>5 DEF OrderInv

\* A session is created.
LEMMA CreateAuthoringKeeps ==
  ASSUME DaemonInv, CreateAuthoring
  PROVE  DaemonInv'
<1> USE DEF DaemonInv, Typed, authoring, provider, process
<1>1. Typed'
  BY DEF CreateAuthoring, CreateAuthoringSession
<1>2. Fresh' /\ Ticking' /\ Joined'
  BY DEF OrderInv, Fresh, Ticking, Joined, Serving, CreateAuthoring,
         CreateAuthoringSession
<1>3. ChildInv'
  BY AuthoringStands DEF CreateAuthoring
<1> QED
  BY <1>1, <1>2, <1>3 DEF OrderInv

\* A turn is cancelled.
LEMMA CancelTurnKeeps ==
  ASSUME DaemonInv, CancelTurn
  PROVE  DaemonInv'
<1> USE DEF DaemonInv, Typed, authoring, provider, process
<1>1. worker' \in WorkerSet /\ worker'.st = worker.st /\ worker'.t = worker.t
  BY WorkerIs DEF CancelTurn
<1>2. Typed'
  BY <1>1 DEF CancelTurn
<1>3. Fresh'
  BY <1>1 DEF OrderInv, Fresh, Joined, Ticking, Serving, Closed, CancelTurn
<1>4. Joined'
  BY <1>1 DEF OrderInv, Fresh, Ticking, Joined, Serving, Closed, CancelTurn
<1>5. Ticking'
  BY DEF OrderInv, Ticking, CancelTurn
<1>6. ChildInv'
  BY <1>1, AuthoringStands DEF CancelTurn
<1> QED
  BY <1>2, <1>3, <1>4, <1>5, <1>6 DEF OrderInv

\* Close begins in a serving daemon.
LEMMA CloseBeginsKeeps ==
  ASSUME DaemonInv, CloseBegins
  PROVE  DaemonInv'
<1> USE DEF DaemonInv, Typed, authoring, provider, process
<1>1. Typed'
  BY DEF CloseBegins
<1>2. Fresh'
  BY DEF OrderInv, Fresh, Joined, Ticking, Serving, Closed, CloseBegins
<1>3. Joined'
  BY DEF OrderInv, Fresh, Ticking, Joined, Serving, Closed, CloseBegins
<1>4. Ticking'
  BY DEF OrderInv, Ticking, CloseBegins
<1>5. ChildInv'
  BY AuthoringStands DEF CloseBegins
<1> QED
  BY <1>1, <1>2, <1>3, <1>4, <1>5 DEF OrderInv

\* Every request has returned, and no other is admitted.
LEMMA CloseWaitsHandlersKeeps ==
  ASSUME DaemonInv, CloseWaitsHandlers
  PROVE  DaemonInv'
<1> USE DEF DaemonInv, Typed, authoring, provider, process
<1>1. worker' \in WorkerSet /\ worker'.st = worker.st /\ worker'.t = worker.t
  <2>1. PICK b \in BOOLEAN : b = (worker.st # "idle")
    OBVIOUS
  <2>2. worker' = [worker EXCEPT !.ctx = b]
    BY <2>1, Zenon DEF CloseWaitsHandlers
  <2> QED
    BY ZenonT(60), <2>2, WorkerIs
<1>2. Typed'
  BY <1>1 DEF CloseWaitsHandlers
<1>3. Fresh'
  BY <1>1 DEF OrderInv, Fresh, Joined, Ticking, Serving, Closed,
         CloseWaitsHandlers
<1>4. Joined'
  BY <1>1 DEF OrderInv, Fresh, Ticking, Joined, Serving, Closed,
         CloseWaitsHandlers
<1>5. Ticking'
  BY DEF OrderInv, Ticking, CloseWaitsHandlers
<1>6. ChildInv'
  BY <1>1, AuthoringStands DEF CloseWaitsHandlers
<1> QED
  BY <1>2, <1>3, <1>4, <1>5, <1>6 DEF OrderInv

\* The worker is idle, or the join is late.
LEMMA CloseAuthoringKeeps ==
  ASSUME DaemonInv, CloseAuthoring
  PROVE  DaemonInv'
<1> USE DEF DaemonInv, Typed, authoring, provider, process
<1>1. Typed'
  BY DEF CloseAuthoring, Works
<1>2. Fresh'
  BY DEF OrderInv, Fresh, Joined, Ticking, Serving, Closed, CloseAuthoring,
         Works
<1>3. Joined'
  BY DEF OrderInv, Fresh, Ticking, Joined, Serving, Closed, CloseAuthoring,
         Works
<1>4. Ticking'
  BY DEF OrderInv, Ticking, CloseAuthoring, Works
<1>5. ChildInv'
  BY AuthoringStands DEF CloseAuthoring
<1> QED
  BY <1>1, <1>2, <1>3, <1>4, <1>5 DEF OrderInv

\* Runtime and worker are joined.
LEMMA CloseJoinsKeeps ==
  ASSUME DaemonInv, CloseJoins
  PROVE  DaemonInv'
<1> USE DEF DaemonInv, Typed, authoring, provider, process
<1>1. Typed'
  BY DEF CloseJoins, Works
<1>2. Fresh'
  BY DEF OrderInv, Fresh, Joined, Ticking, Serving, Closed, CloseJoins, Works
<1>3. Joined'
  BY DEF OrderInv, Fresh, Ticking, Joined, Serving, Closed, CloseJoins, Works
<1>4. Ticking'
  BY DEF OrderInv, Ticking, CloseJoins, Works
<1>5. ChildInv'
  BY AuthoringStands DEF CloseJoins
<1> QED
  BY <1>1, <1>2, <1>3, <1>4, <1>5 DEF OrderInv

\* Coordinator, Store and lease go in that order.
LEMMA CloseResourcesKeeps ==
  ASSUME DaemonInv, CloseResources
  PROVE  DaemonInv'
<1> USE DEF DaemonInv, Typed, authoring, provider, process
<1>1. Typed'
  BY ZenonT(60), SMTT(30) DEF CloseResources
<1>2. Fresh'
  BY DEF OrderInv, Fresh, Joined, Ticking, Serving, Closed, CloseResources
<1>3. Joined'
  BY DEF OrderInv, Fresh, Ticking, Joined, Serving, Closed, CloseResources
<1>4. Ticking'
  BY DEF OrderInv, Ticking, CloseResources
<1>5. ChildInv'
  BY AuthoringStands DEF CloseResources
<1> QED
  BY <1>1, <1>2, <1>3, <1>4, <1>5 DEF OrderInv

\* The first caller of shutdownRuntime stops the runtime, both join it.
LEMMA ShutdownEnterKeeps ==
  ASSUME DaemonInv, NEW c \in {"serve", "close"}, ShutdownEnter(c)
  PROVE  DaemonInv'
<1> USE DEF DaemonInv, Typed, authoring, provider, process
<1>1. Typed'
  BY DEF ShutdownEnter
<1>2. Fresh'
  BY DEF OrderInv, Fresh, Joined, Ticking, Serving, Closed, ShutdownEnter
<1>3. Ticking'
  BY DEF OrderInv, Ticking, ShutdownEnter
<1>4. Joined'
  BY DEF OrderInv, Fresh, Ticking, Joined, Serving, Closed, ShutdownEnter
<1>5. ChildInv'
  BY AuthoringStands DEF ShutdownEnter
<1> QED
  BY <1>1, <1>2, <1>3, <1>4, <1>5 DEF OrderInv

\* The runtime is closed.
LEMMA ShutdownLeaveKeeps ==
  ASSUME DaemonInv, NEW c \in {"serve", "close"}, ShutdownLeave(c)
  PROVE  DaemonInv'
<1> USE DEF DaemonInv, Typed, authoring, provider, process
<1>1. Typed'
  BY DEF ShutdownLeave
<1>2. Fresh'
  BY DEF OrderInv, Fresh, Joined, Ticking, Serving, Closed, ShutdownLeave
<1>3. Joined'
  BY DEF OrderInv, Fresh, Ticking, Joined, Serving, Closed, ShutdownLeave
<1>4. Ticking'
  BY DEF OrderInv, Ticking, ShutdownLeave
<1>5. ChildInv'
  BY AuthoringStands DEF ShutdownLeave
<1> QED
  BY <1>1, <1>2, <1>3, <1>4, <1>5 DEF OrderInv

\* A session leaves the cache.
LEMMA SessionExpiresKeeps ==
  ASSUME DaemonInv, NEW s \in Sessions, SessionExpires(s)
  PROVE  DaemonInv'
<1> USE DEF DaemonInv, Typed, authoring, provider, process
<1>1. Typed'
  BY DEF SessionExpires
<1>2. Fresh' /\ Ticking' /\ Joined'
  BY DEF OrderInv, Fresh, Ticking, Joined, Serving, SessionExpires
<1>3. ChildInv'
  BY AuthoringStands DEF SessionExpires
<1> QED
  BY <1>1, <1>2, <1>3 DEF OrderInv

-----------------------------------------------------------------------------
(* Steps of authoring *)

\* A start drains a turn only with the child gone; what it cannot prove stays
\* unfinished, so its child is still accounted for.
LEMMA RecoverTurnsKeeps ==
  ASSUME DaemonInv, RecoverTurns
  PROVE  DaemonInv'
<1> USE DEF DaemonInv, Typed, provider
<1>1. worker.st = "idle" /\ pc' = "recovered"
  BY DEF OrderInv, Fresh, Serving, RecoverTurns
<1>2. PICK drained \in SUBSET Pending :
        /\ turns' = [t \in Turn |->
              IF t \in drained
              THEN [turns[t] EXCEPT !.st = "completed", !.out = "interrupted"]
              ELSE IF t \in Pending THEN [turns[t] EXCEPT !.st = "uncertain"] ELSE turns[t]]
        /\ child' = [t \in Turn |->
              IF t \in drained /\ child[t] = "running" THEN "gone" ELSE child[t]]
  BY Zenon DEF RecoverTurns
<1>3. \A t \in Turn :
        /\ turns'[t] \in TurnSet /\ turns'[t].bt = turns[t].bt
        /\ turns'[t].st = IF t \in drained THEN "completed"
                          ELSE IF t \in Pending THEN "uncertain" ELSE turns[t].st
  <2> SUFFICES ASSUME NEW t \in Turn
               PROVE  /\ turns'[t] \in TurnSet /\ turns'[t].bt = turns[t].bt
                      /\ turns'[t].st = IF t \in drained THEN "completed"
                                        ELSE IF t \in Pending THEN "uncertain" ELSE turns[t].st
    OBVIOUS
  <2>1. /\ turns[t] \in TurnSet /\ "interrupted" \in Outcomes
        /\ "completed" \in TurnStates /\ "uncertain" \in TurnStates
    BY DEF TurnStates, Outcomes
  <2> QED
    <3>1. CASE t \in drained
      <4>1. turns'[t] = [turns[t] EXCEPT !.st = "completed", !.out = "interrupted"]
        BY <1>2, <3>1
      <4> QED
        BY <2>1, <3>1, <4>1 DEF TurnSet
    <3>2. CASE t \notin drained /\ t \in Pending
      <4>1. turns'[t] = [turns[t] EXCEPT !.st = "uncertain"]
        BY <1>2, <3>2
      <4> QED
        BY <2>1, <3>2, <4>1 DEF TurnSet
    <3>3. CASE t \notin drained /\ t \notin Pending
      BY <1>2, <2>1, <3>3
    <3> QED
      BY <3>1, <3>2, <3>3
<1>4. turns' \in [Turn -> TurnSet]
  <2>1. turns' = [t \in Turn |-> turns'[t]]
    BY <1>2
  <2> QED
    BY <1>3, <2>1
<1>5. child' \in [Turn -> {"none", "gated", "running", "gone"}]
  BY <1>2
<1>6. Typed'
  BY <1>1, <1>4, <1>5 DEF RecoverTurns
<1>7. OrderInv'
  BY <1>1 DEF OrderInv, Fresh, Ticking, Joined, Serving, RecoverTurns
<1>8. OnePending'
  BY <1>3 DEF ChildInv, OnePending, Pending
<1>9. Working'
  BY <1>1 DEF Working, RecoverTurns
<1>10. Launched'
  BY ZenonT(60), <1>2, <1>3 DEF ChildInv, Launched, Pending, RecoverTurns
<1> QED
  BY <1>6, <1>7, <1>8, <1>9, <1>10 DEF ChildInv

\* A turn is reserved when no other is unfinished, by the only worker.
LEMMA TurnAuthoringKeeps ==
  ASSUME DaemonInv, TurnAuthoring
  PROVE  DaemonInv'
<1> USE DEF DaemonInv, Typed
<1>1. PICK t \in Turn : /\ turns[t].st = "none" /\ Pending = {}
                        /\ turns' = [turns EXCEPT ![t] = [NoTurn EXCEPT !.st = "reserved"]]
                        /\ worker' = [NoWork EXCEPT !.st = "begun", !.t = t, !.ctx = pc = "served"]
  BY Zenon DEF TurnAuthoring, ReserveAuthoringTurn
<1>2. worker' \in WorkerSet /\ worker'.st = "begun" /\ worker'.t = t
  <2>1. PICK b \in BOOLEAN : b = (pc = "served")
    OBVIOUS
  <2>2. worker' = [NoWork EXCEPT !.st = "begun", !.t = t, !.ctx = b]
    BY <1>1, <2>1, Zenon
  <2> QED
    <3>1. /\ [NoWork EXCEPT !.st = "begun", !.t = t, !.ctx = b] \in WorkerSet
          /\ [NoWork EXCEPT !.st = "begun", !.t = t, !.ctx = b].st = "begun"
          /\ [NoWork EXCEPT !.st = "begun", !.t = t, !.ctx = b].t = t
      BY IdleIs DEF WorkerSet, WorkerStates
    <3> QED
      BY <2>2, <3>1, Zenon
<1>3. /\ turns' \in [Turn -> TurnSet] /\ turns'[t].st = "reserved"
      /\ \A u \in Turn \ {t} : turns'[u] = turns[u]
  BY <1>1, ReservedIs
<1>4. Admitted /\ UNCHANGED <<epoch, boot, child, provider, process>>
  BY DEF TurnAuthoring
<1>5. Typed'
  BY <1>2, <1>3, <1>4 DEF provider, process
<1>6. OrderInv'
  BY <1>4, ProcessStands
<1>7. OnePending'
  BY <1>1, <1>3 DEF OnePending, Pending
<1>8. child[t] # "running"
  BY <1>1 DEF ChildInv, Launched
<1>9. Working' /\ Launched'
  BY <1>2, <1>3, <1>4, <1>8 DEF ChildInv, Working, Launched
<1> QED
  BY <1>5, <1>6, <1>7, <1>9 DEF ChildInv

\* A step of the worker on its own turn, which stays unfinished: what its new
\* place must say of the turn and of its child.
LEMMA WorkerStep ==
  ASSUME DaemonInv, worker.st # "idle", NEW st \in WorkerStates \ {"idle"},
         UNCHANGED <<epoch, boot, provider, process>>,
         worker' \in WorkerSet, worker'.st = st, worker'.t = worker.t,
         NEW r \in TurnSet, turns' = [turns EXCEPT ![worker.t] = r],
         r.st \in {"reserved", "launched"},
         NEW c \in {"none", "gated", "running", "gone"},
         child' = [child EXCEPT ![worker.t] = c],
         st \in {"begun", "gated"} => r.st = "reserved" /\ c # "running",
         st = "recorded" => r.st = "launched" /\ r.bt = boot /\ c # "running",
         st \in {"killing", "proved"} => c # "running",
         c = "running" => r.st = "launched" /\ r.bt = boot
  PROVE  DaemonInv'
<1> USE DEF DaemonInv, Typed
<1>1. /\ worker.t \in Turn /\ turns'[worker.t] = r /\ child'[worker.t] = c
      /\ \A u \in Turn \ {worker.t} : turns'[u] = turns[u] /\ child'[u] = child[u]
      /\ turns' \in [Turn -> TurnSet]
      /\ child' \in [Turn -> {"none", "gated", "running", "gone"}]
  OBVIOUS
<1>2. Typed'
  BY <1>1 DEF provider, process
<1>3. OrderInv'
  BY ProcessStands
<1>4. OnePending'
  BY <1>1 DEF ChildInv, OnePending, Pending, Working
<1>5. Working' /\ Launched'
  BY <1>1 DEF ChildInv, Working, Launched
<1> QED
  BY <1>2, <1>3, <1>4, <1>5 DEF ChildInv

\* A step that leaves turns or children alone writes back what is there.
LEMMA Same ==
  ASSUME DaemonInv, worker.st # "idle"
  PROVE  /\ worker.t \in Turn /\ turns[worker.t] \in TurnSet
         /\ turns[worker.t].st \in {"reserved", "launched"}
         /\ child[worker.t] \in {"none", "gated", "running", "gone"}
         /\ turns = [turns EXCEPT ![worker.t] = turns[worker.t]]
         /\ child = [child EXCEPT ![worker.t] = child[worker.t]]
  BY DEF DaemonInv, Typed, ChildInv, Working

\* RunAuthoring starts the child behind its gate, or gives up without one.
LEMMA StartGateKeeps ==
  ASSUME DaemonInv, StartGate
  PROVE  DaemonInv'
<1>1. /\ worker.st = "begun" /\ turns' = turns
      /\ UNCHANGED <<epoch, boot, provider, process>>
      /\ \/ worker' = [worker EXCEPT !.st = "proved"] /\ child' = child
         \/ worker' = [worker EXCEPT !.st = "gated"]
            /\ child' = [child EXCEPT ![worker.t] = "gated"]
  BY DEF StartGate, Works, Goes
<1>2. /\ worker \in WorkerSet /\ turns[worker.t].st = "reserved"
      /\ child[worker.t] # "running"
  BY <1>1 DEF DaemonInv, Typed, ChildInv, Working
<1>3. \A st \in {"proved", "gated"} :
        /\ st \in WorkerStates \ {"idle"} /\ [worker EXCEPT !.st = st] \in WorkerSet
        /\ [worker EXCEPT !.st = st].st = st /\ [worker EXCEPT !.st = st].t = worker.t
  BY <1>2 DEF WorkerSet, WorkerStates
<1>4. CASE worker' = [worker EXCEPT !.st = "proved"] /\ child' = child
  BY <1>1, <1>2, <1>3, <1>4, Same, WorkerStep
<1>5. CASE worker' = [worker EXCEPT !.st = "gated"]
           /\ child' = [child EXCEPT ![worker.t] = "gated"]
  BY <1>1, <1>2, <1>3, <1>5, Same, WorkerStep
<1> QED
  BY <1>1, <1>4, <1>5

\* A gate that is killed unopened leaves no child.
LEMMA IdentityUnknownKeeps ==
  ASSUME DaemonInv, IdentityUnknown
  PROVE  DaemonInv'
<1>1. /\ worker.st = "gated" /\ turns' = turns
      /\ UNCHANGED <<epoch, boot, provider, process>>
      /\ child' = [child EXCEPT ![worker.t] = "gone"]
  BY DEF IdentityUnknown, Works
<1>2. PICK st \in {"proved", "unclear"} : worker' = [worker EXCEPT !.st = st]
  BY DEF IdentityUnknown
<1>3. worker \in WorkerSet /\ turns[worker.t].st = "reserved"
  BY <1>1 DEF DaemonInv, Typed, ChildInv, Working
<1>4. /\ st \in WorkerStates \ {"idle"} /\ worker' \in WorkerSet
      /\ worker'.st = st /\ worker'.t = worker.t
  BY <1>2, <1>3 DEF WorkerSet, WorkerStates
<1> QED
  BY <1>1, <1>2, <1>3, <1>4, Same, WorkerStep

\* The launch is durable, under this boot, before the gate opens.
LEMMA RecordLaunchKeeps ==
  ASSUME DaemonInv, RecordLaunch
  PROVE  DaemonInv'
<1>1. /\ worker.st = "gated" /\ child' = child
      /\ UNCHANGED <<epoch, boot, provider, process>>
  BY DEF RecordLaunch, Works
<1>2. /\ worker \in WorkerSet /\ worker.t \in Turn /\ turns[worker.t].st = "reserved"
      /\ child[worker.t] # "running" /\ turns \in [Turn -> TurnSet] /\ boot \in Nat
  BY <1>1 DEF DaemonInv, Typed, ChildInv, Working
<1>3. \A st \in {"recorded", "killing"} :
        /\ st \in WorkerStates \ {"idle"} /\ [worker EXCEPT !.st = st] \in WorkerSet
        /\ [worker EXCEPT !.st = st].st = st /\ [worker EXCEPT !.st = st].t = worker.t
  BY <1>2 DEF WorkerSet, WorkerStates
<1>4. CASE /\ turns' = [turns EXCEPT ![worker.t].st = "launched", ![worker.t].bt = boot]
           /\ Goes("recorded")
  <2> DEFINE r == [turns[worker.t] EXCEPT !.st = "launched", !.bt = boot]
  <2>1. turns' = [turns EXCEPT ![worker.t] = r]
    BY <1>2, <1>4
  <2>2. r \in TurnSet /\ r.st = "launched" /\ r.bt = boot
    BY <1>2 DEF TurnSet, TurnStates
  <2> HIDE DEF r
  <2> QED
    BY <1>1, <1>2, <1>3, <1>4, <2>1, <2>2, Same, WorkerStep DEF Goes
<1>5. CASE turns' = turns /\ Goes("killing")
  BY <1>1, <1>2, <1>3, <1>5, Same, WorkerStep DEF Goes
<1> QED
  BY <1>4, <1>5 DEF RecordLaunch

\* The child runs on its own only after its launch is recorded.
LEMMA ReleaseGateKeeps ==
  ASSUME DaemonInv, ReleaseGate
  PROVE  DaemonInv'
<1>1. /\ worker.st = "recorded" /\ turns' = turns
      /\ UNCHANGED <<epoch, boot, provider, process>>
      /\ \/ Goes("released") /\ child' = [child EXCEPT ![worker.t] = "running"]
         \/ Goes("killing") /\ child' = child
  BY DEF ReleaseGate, Works
<1>2. /\ worker \in WorkerSet /\ turns[worker.t].st = "launched"
      /\ turns[worker.t].bt = boot /\ child[worker.t] # "running"
  BY <1>1 DEF DaemonInv, Typed, ChildInv, Working
<1>3. \A st \in {"released", "killing"} :
        /\ st \in WorkerStates \ {"idle"} /\ [worker EXCEPT !.st = st] \in WorkerSet
        /\ [worker EXCEPT !.st = st].st = st /\ [worker EXCEPT !.st = st].t = worker.t
  BY <1>2 DEF WorkerSet, WorkerStates
<1>4. CASE Goes("released") /\ child' = [child EXCEPT ![worker.t] = "running"]
  BY <1>1, <1>2, <1>3, <1>4, Same, WorkerStep DEF Goes
<1>5. CASE Goes("killing") /\ child' = child
  BY <1>1, <1>2, <1>3, <1>5, Same, WorkerStep DEF Goes
<1> QED
  BY <1>1, <1>4, <1>5

\* A child that ends is not running.
LEMMA ChildExitsKeeps ==
  ASSUME DaemonInv, NEW t \in Turn, ChildExits(t)
  PROVE  DaemonInv'
<1> USE DEF DaemonInv, Typed, ChildExits
<1>1. /\ child' \in [Turn -> {"none", "gated", "running", "gone"}]
      /\ \A u \in Turn : child'[u] = "running" => child[u] = "running"
  OBVIOUS
<1>2. Typed'
  BY <1>1 DEF provider, process
<1>3. OrderInv'
  BY ProcessStands
<1>4. OnePending' /\ Working' /\ Launched'
  BY <1>1 DEF ChildInv, OnePending, Pending, Working, Launched
<1> QED
  BY <1>2, <1>3, <1>4 DEF ChildInv

\* proveGone: the turn is proved only when the group is gone.
LEMMA ProveGoneKeeps ==
  ASSUME DaemonInv, ProveGone
  PROVE  DaemonInv'
<1>1. /\ worker.st \in {"killing", "released"} /\ turns' = turns
      /\ UNCHANGED <<epoch, boot, provider, process>>
  BY DEF ProveGone, Works
<1>2. worker \in WorkerSet
  BY DEF DaemonInv, Typed
<1>3. CASE /\ child' = [child EXCEPT ![worker.t] = "gone"]
           /\ \E out \in Outcomes : worker' = [worker EXCEPT !.st = "proved", !.out = out]
  <2>1. /\ "proved" \in WorkerStates \ {"idle"} /\ worker' \in WorkerSet
        /\ worker'.st = "proved" /\ worker'.t = worker.t
    BY <1>2, <1>3 DEF WorkerSet, WorkerStates
  <2> QED
    BY <1>1, <1>3, <2>1, Same, WorkerStep
<1>4. CASE child' = child /\ Goes("unclear")
  <2>1. /\ "unclear" \in WorkerStates \ {"idle"} /\ worker' \in WorkerSet
        /\ worker'.st = "unclear" /\ worker'.t = worker.t
    BY <1>2, <1>4 DEF WorkerSet, WorkerStates, Goes
  <2>2. child[worker.t] = "running" =>
          turns[worker.t].st = "launched" /\ turns[worker.t].bt = boot
    BY <1>1, Same DEF DaemonInv, ChildInv, Launched
  <2> QED
    BY <1>1, <1>4, <2>1, <2>2, Same, WorkerStep
<1>5. \A out \in {"failed", "success"} : out \in Outcomes
  BY DEF Outcomes
<1> QED
  BY <1>3, <1>4, <1>5 DEF ProveGone

\* runAuthoring completes a turn whose child is gone, and marks any other.
LEMMA FinishTurnKeeps ==
  ASSUME DaemonInv, FinishTurn
  PROVE  DaemonInv'
<1> USE DEF DaemonInv, Typed
<1>1. /\ worker.st \in {"proved", "unclear"} /\ worker' = NoWork
      /\ UNCHANGED <<epoch, boot, child, provider, process>>
  BY DEF FinishTurn
<1>2. PICK st \in {"completed", "uncertain", "same"}, out \in Outcomes :
        /\ st = "completed" => worker.st = "proved"
        /\ turns' = IF st = "same" THEN turns
                    ELSE IF st = "uncertain" THEN [turns EXCEPT ![worker.t].st = st]
                    ELSE [turns EXCEPT ![worker.t].st = st, ![worker.t].out = out]
  BY DEF FinishTurn, FinishAuthoringTurn, MarkAuthoringUncertain, Works,
         Outcomes
<1>3. worker.t \in Turn /\ turns[worker.t].st \in {"reserved", "launched"}
  BY <1>1, Same
<1>4. /\ turns' \in [Turn -> TurnSet]
      /\ \A u \in Turn \ {worker.t} : turns'[u] = turns[u]
      /\ turns'[worker.t].bt = turns[worker.t].bt
      /\ turns'[worker.t].st = IF st = "same" THEN turns[worker.t].st ELSE st
  BY <1>2, <1>3 DEF TurnSet, TurnStates
<1>5. worker' \in WorkerSet /\ worker'.st = "idle"
  BY <1>1, IdleIs
<1>6. Typed'
  BY <1>1, <1>4, <1>5 DEF provider, process
<1>7. OrderInv'
  BY <1>1, <1>5, ProcessStands
<1>8. OnePending'
  BY <1>3, <1>4 DEF ChildInv, OnePending, Pending
<1>9. Working'
  BY <1>5 DEF Working
<1>10. Launched'
  <2>1. st = "completed" => child[worker.t] # "running"
    BY <1>2, <1>3 DEF ChildInv, Working
  <2> QED
    BY <1>1, <1>3, <1>4, <2>1 DEF ChildInv, Launched
<1> QED
  BY <1>6, <1>7, <1>8, <1>9, <1>10 DEF ChildInv

-----------------------------------------------------------------------------
(* The end of a process *)

\* A process that ends has no memory; its children keep no place in it.
LEMMA DiesKeeps ==
  ASSUME DaemonInv, Dies, boot' \in Nat, boot' = boot \/ \A t \in Turn : child'[t] # "running",
         child' \in [Turn -> {"none", "gated", "running", "gone"}],
         \A t \in Turn : child'[t] = "running" => child[t] = "running"
  PROVE  DaemonInv'
<1> USE DEF DaemonInv, Typed, Dies
<1>1. worker' \in WorkerSet /\ worker'.st = "idle"
  BY IdleIs
<1>2. shut' \in [{"serve", "close"} -> {"none", "enter", "join", "done"}]
      /\ shut'["close"] = "none"
  OBVIOUS
<1>3. Typed'
  BY <1>1, <1>2
<1>4. OrderInv'
  BY <1>1, <1>2 DEF OrderInv, Fresh, Ticking, Joined, Serving
<1>5. OnePending' /\ Working' /\ Launched'
  BY <1>1 DEF ChildInv, OnePending, Pending, Working, Launched
<1> QED
  BY <1>3, <1>4, <1>5 DEF ChildInv

\* Exit and Reboot: an unopened gate ends with the process, a reboot ends all.
LEMMA TurnEndKeeps ==
  ASSUME DaemonInv, Exit \/ Reboot
  PROVE  DaemonInv'
<1>1. child \in [Turn -> {"none", "gated", "running", "gone"}] /\ boot \in Nat
  BY DEF DaemonInv, Typed
<1>2. CASE Exit
  BY <1>1, <1>2, DiesKeeps DEF Exit
<1>3. CASE Reboot
  BY <1>1, <1>3, DiesKeeps DEF Reboot
<1> QED
  BY <1>2, <1>3

-----------------------------------------------------------------------------
(* The theorems *)

\* The first state: no process and no turn.
LEMMA DaemonInitInv == DaemonInit => DaemonInv
<1> SUFFICES ASSUME DaemonInit PROVE DaemonInv
  OBVIOUS
<1> USE IdleIs, ReservedIs DEF DaemonInit
<1>1. \A t \in Turn : turns[t] = NoTurn /\ NoTurn.st = "none" /\ child[t] = "none"
  BY DEF NoTurn
<1>2. Typed
  BY DEF Typed
<1>3. OrderInv
  BY DEF OrderInv, Fresh, Ticking, Joined, Serving
<1>4. ChildInv
  BY <1>1 DEF ChildInv, OnePending, Pending, Working, Launched
<1> QED
  BY <1>2, <1>3, <1>4 DEF DaemonInv

\* A step of anyone, or of nobody.
LEMMA DaemonNextInv == DaemonInv /\ [DaemonNext]_daemonVars => DaemonInv'
<1> SUFFICES ASSUME DaemonInv, [DaemonNext]_daemonVars PROVE DaemonInv'
  OBVIOUS
<1>1. CASE Progress
  BY <1>1, TickEndsKeeps, RuntimeCloseKeeps, QualifyLockKeeps, QualifyFailsKeeps,
     ShutdownEnterKeeps, ShutdownLeaveKeeps, StartGateKeeps, RecordLaunchKeeps,
     ReleaseGateKeeps, ProveGoneKeeps, FinishTurnKeeps, CloseWaitsHandlersKeeps,
     CloseAuthoringKeeps, CloseJoinsKeeps, CloseResourcesKeeps DEF Progress
<1>2. CASE \/ AcquireLease \/ OpenStore \/ RecoverTurns \/ StartRuntime \/ Listen
           \/ ListenFails \/ FailStart \/ Serve \/ ServeReturns \/ TickBegins \/ QualifyRole \/ SelectPair \/ Activate
  BY <1>2, AcquireLeaseKeeps, OpenStoreKeeps, RecoverTurnsKeeps, StartRuntimeKeeps,
     ListenKeeps, FailStartKeeps, ServeKeeps, ServeReturnsKeeps, TickBeginsKeeps, QualifyRoleKeeps,
     SelectPairKeeps, ActivateKeeps
<1>3. CASE \/ Handle \/ CreateAuthoring \/ TurnAuthoring
           \/ \E s \in Sessions : SessionExpires(s)
           \/ CancelTurn \/ IdentityUnknown \/ CloseBegins \/ Exit \/ Reboot
           \/ \E t \in Turn : ChildExits(t)
  BY <1>3, HandleKeeps, CreateAuthoringKeeps, TurnAuthoringKeeps, SessionExpiresKeeps,
     CancelTurnKeeps, IdentityUnknownKeeps, CloseBeginsKeeps, TurnEndKeeps, ChildExitsKeeps
<1>4. CASE UNCHANGED daemonVars
  BY <1>4 DEF daemonVars, authoring, provider, process, DaemonInv, Typed, OrderInv, Fresh, Serving,
              Ticking, Joined, ChildInv, OnePending, Pending, Working, Launched
<1> QED
  BY <1>1, <1>2, <1>3, <1>4 DEF DaemonNext, Step

\* A set of which any two members are the same has at most one.
LEMMA AtMostOne ==
  ASSUME NEW S, \A t, u \in S : t = u
  PROVE  Cardinality(S) <= 1
<1>1. CASE S = {}
  BY <1>1, FS_EmptySet
<1>2. CASE S # {}
  <2>1. PICK a : S = {a}
    BY <1>2
  <2>2. Cardinality({a}) = 1
    BY FS_Singleton
  <2> QED
    BY <2>1, <2>2
<1> QED
  BY <1>1, <1>2

\* Close ends in its order: while the Store is closed and the process lives, no
\* handler, tick, worker or coordinator can use it, and the lease outlives the
\* Store (Daemon.Close, closeOwnedResources).
THEOREM DaemonNoLateUser == DaemonSpec => []NoLateUser
<1>1. DaemonInv => NoLateUser
  BY DEF DaemonInv, Typed, OrderInv, Fresh, Joined, Ticking, Serving, NoLateUser
<1> QED
  BY <1>1, DaemonInitInv, DaemonNextInv, PTL DEF DaemonSpec

\* A running authoring child always has a durable launch of this boot on an
\* unfinished turn, and there is at most one, through crashes, reboots, failed
\* proofs and restarts (RunAuthoring, RecoverAuthoring).
THEOREM DaemonChildIsAccounted == DaemonSpec => []ChildIsAccounted
<1>1. DaemonInv => ChildIsAccounted
  <2> SUFFICES ASSUME DaemonInv PROVE ChildIsAccounted
    OBVIOUS
  <2> DEFINE S == {t \in Turn : child[t] = "running"}
  <2>1. \A t, u \in S : t = u
    BY DEF DaemonInv, ChildInv, OnePending, Pending, Launched
  <2>2. Cardinality(S) <= 1
    BY <2>1, AtMostOne
  <2> QED
    BY <2>2 DEF ChildIsAccounted, DaemonInv, ChildInv, Launched
<1> QED
  BY <1>1, DaemonInitInv, DaemonNextInv, PTL DEF DaemonSpec

-----------------------------------------------------------------------------
(* The leader lease, for any set of daemons and any bounds *)

\* A daemon past the flock holds the flock of the inode it opened; one that
\* has opened and not yet locked, or locked, has a real inode open.
FlockHeld ==
    \A d \in Daemons :
        /\ at[d] # "idle" => fd[d] \in Inodes
        /\ at[d] \notin {"idle", "opened"} => flock[fd[d]] = d

\* A daemon past writeMetadata finds its own metadata in its inode: only the
\* holder of the flock writes it.
MetaHeld ==
    \A d \in Daemons :
        at[d] \notin {"idle", "opened", "flocked"} => meta[fd[d]] = d

\* Epochs handed out never exceed the durable one, and neither does the epoch
\* of the last commit.
EpochBounded ==
    /\ \A d \in Daemons : taken[d] <= leader
    /\ commit <= leader

LeaseInv == LeaseTypeOK /\ FlockHeld /\ MetaHeld /\ EpochBounded /\ EpochsExclusive

\* The initial state, with no lock file and no epoch, satisfies the invariant.
LEMMA LeaseInitInv == LeaseInit => LeaseInv
  BY LeaseAssumption DEF LeaseInit, LeaseInv, LeaseTypeOK, Phases, Inodes, FlockHeld, MetaHeld,
     EpochBounded, EpochsExclusive

\* Closing the descriptor on any way out of Acquire, Start or the process
\* preserves the invariant.
LEMMA ReleasedInv ==
    ASSUME LeaseInv, NEW d \in Daemons, Released(d)
    PROVE  LeaseInv'
  <1> USE DEF LeaseInv, Released
  <1>1. LeaseTypeOK'
    BY LeaseAssumption DEF LeaseTypeOK, Phases
  <1>2. FlockHeld'
    BY DEF LeaseTypeOK, FlockHeld
  <1>3. MetaHeld'
    BY DEF LeaseTypeOK, MetaHeld
  <1>4. EpochBounded'
    BY DEF LeaseTypeOK, EpochBounded
  <1>5. EpochsExclusive'
    BY DEF LeaseTypeOK, EpochsExclusive
  <1> QED BY <1>1, <1>2, <1>3, <1>4, <1>5

\* An identity check that lets the daemon go on, or ends it, preserves it.
LEMMA CheckedInv ==
    ASSUME LeaseInv, NEW d \in Daemons,
           NEW from \in Phases \ {"idle", "opened", "flocked"}, NEW to \in Phases \ {"idle"},
           Checked(d, from, to)
    PROVE  LeaseInv'
  <1>1. CASE Released(d)
    BY <1>1, ReleasedInv
  <1>2. CASE /\ at[d] = from
             /\ at' = [at EXCEPT ![d] = to]
             /\ UNCHANGED <<path, inodes, flock, meta, fd, taken, leader, commit>>
    <2>1. LeaseTypeOK'
      BY <1>2 DEF LeaseInv, LeaseTypeOK
    <2>2. FlockHeld'
      BY <1>2 DEF LeaseInv, LeaseTypeOK, FlockHeld
    <2>3. MetaHeld'
      BY <1>2 DEF LeaseInv, LeaseTypeOK, MetaHeld
    <2>4. EpochBounded' /\ EpochsExclusive'
      BY <1>2 DEF LeaseInv, EpochBounded, EpochsExclusive
    <2> QED BY <2>1, <2>2, <2>3, <2>4 DEF LeaseInv
  <1> QED BY <1>1, <1>2 DEF Checked

\* Every step of the daemons and of whatever replaces the path preserves it.
LEMMA LeaseNextInv == LeaseInv /\ [LeaseNext]_leaseVars => LeaseInv'
  <1> SUFFICES ASSUME LeaseInv, [LeaseNext]_leaseVars PROVE LeaseInv'
    OBVIOUS
  <1>1. CASE ReplacePath
    BY <1>1, LeaseAssumption DEF ReplacePath, LeaseInv, LeaseTypeOK, Inodes, FlockHeld,
       MetaHeld, EpochBounded, EpochsExclusive
  <1>2. ASSUME NEW d \in Daemons, OpenFile(d) PROVE LeaseInv'
    <2>0. path' \in 0 .. MaxInode /\ inodes' \in 0 .. MaxInode
      BY <1>2, LeaseAssumption DEF OpenFile, LeaseInv, LeaseTypeOK
    <2>1. LeaseTypeOK'
      BY <1>2, <2>0, LeaseAssumption DEF OpenFile, LeaseInv, LeaseTypeOK, Phases
    <2>2. FlockHeld' /\ MetaHeld'
      BY <1>2, LeaseAssumption DEF OpenFile, LeaseInv, LeaseTypeOK, Inodes, FlockHeld, MetaHeld
    <2>3. EpochBounded' /\ EpochsExclusive'
      BY <1>2 DEF OpenFile, LeaseInv, EpochBounded, EpochsExclusive
    <2> QED BY <2>1, <2>2, <2>3 DEF LeaseInv
  <1>3. ASSUME NEW d \in Daemons, Flock(d) PROVE LeaseInv'
    <2>1. CASE Released(d)
      BY <2>1, ReleasedInv
    <2>2. CASE /\ flock[fd[d]] = NoDaemon
               /\ flock' = [flock EXCEPT ![fd[d]] = d]
               /\ at' = [at EXCEPT ![d] = "flocked"]
               /\ UNCHANGED <<path, inodes, meta, fd, taken, leader, commit>>
      <3>1. LeaseTypeOK'
        BY <1>3, <2>2 DEF Flock, LeaseInv, LeaseTypeOK, Phases
      <3>2. FlockHeld'
        BY <1>3, <2>2, LeaseAssumption DEF Flock, LeaseInv, LeaseTypeOK, FlockHeld
      <3>3. MetaHeld'
        BY <1>3, <2>2 DEF Flock, LeaseInv, LeaseTypeOK, MetaHeld
      <3>4. EpochBounded' /\ EpochsExclusive'
        BY <2>2 DEF LeaseInv, EpochBounded, EpochsExclusive
      <3> QED BY <3>1, <3>2, <3>3, <3>4 DEF LeaseInv
    <2> QED BY <1>3, <2>1, <2>2 DEF Flock
  <1>4. ASSUME NEW d \in Daemons, WriteMetadata(d) PROVE LeaseInv'
    <2>1. CASE Released(d)
      BY <2>1, ReleasedInv
    <2>2. CASE /\ PathMatches(d)
               /\ meta' = [meta EXCEPT ![fd[d]] = d]
               /\ at' = [at EXCEPT ![d] = "written"]
               /\ UNCHANGED <<path, inodes, flock, fd, taken, leader, commit>>
      <3>1. LeaseTypeOK'
        BY <1>4, <2>2 DEF WriteMetadata, LeaseInv, LeaseTypeOK, Phases
      <3>2. FlockHeld'
        BY <1>4, <2>2 DEF WriteMetadata, LeaseInv, LeaseTypeOK, FlockHeld
      <3>3. MetaHeld'
        BY <1>4, <2>2 DEF WriteMetadata, LeaseInv, LeaseTypeOK, FlockHeld, MetaHeld
      <3>4. EpochBounded' /\ EpochsExclusive'
        BY <2>2 DEF LeaseInv, EpochBounded, EpochsExclusive
      <3> QED BY <3>1, <3>2, <3>3, <3>4 DEF LeaseInv
    <2> QED BY <1>4, <2>1, <2>2 DEF WriteMetadata
  <1>5. ASSUME NEW d \in Daemons,
               AcquireReturn(d) \/ ValidateFirst(d) \/ ValidateAgain(d) \/ Recover(d)
        PROVE  LeaseInv'
    BY <1>5, CheckedInv DEF AcquireReturn, ValidateFirst, ValidateAgain, Recover, Phases
  <1>6. ASSUME NEW d \in Daemons, AcquireLeader(d) PROVE LeaseInv'
    <2>1. LeaseTypeOK'
      BY <1>6, LeaseAssumption DEF AcquireLeader, LeaseInv, LeaseTypeOK, Phases
    <2>2. FlockHeld' /\ MetaHeld'
      BY <1>6 DEF AcquireLeader, LeaseInv, LeaseTypeOK, FlockHeld, MetaHeld
    <2>3. EpochBounded' /\ EpochsExclusive'
      BY <1>6, LeaseAssumption DEF AcquireLeader, LeaseInv, LeaseTypeOK, EpochBounded, EpochsExclusive
    <2> QED BY <2>1, <2>2, <2>3 DEF LeaseInv
  <1>7. ASSUME NEW d \in Daemons, BeginHandler(d) \/ FinishHandler(d) PROVE LeaseInv'
    <2>1. LeaseTypeOK'
      BY <1>7 DEF BeginHandler, FinishHandler, LeaseInv, LeaseTypeOK, Phases
    <2>2. FlockHeld' /\ MetaHeld'
      BY <1>7 DEF BeginHandler, FinishHandler, LeaseInv, LeaseTypeOK, FlockHeld, MetaHeld
    <2>3. EpochBounded' /\ EpochsExclusive'
      BY <1>7 DEF BeginHandler, FinishHandler, LeaseInv, LeaseTypeOK, EpochBounded,
         EpochsExclusive, FenceCurrent
    <2> QED BY <2>1, <2>2, <2>3 DEF LeaseInv
  <1>8. ASSUME NEW d \in Daemons, CloseLease(d) PROVE LeaseInv'
    BY <1>8, ReleasedInv DEF CloseLease
  <1>9. CASE UNCHANGED leaseVars
    BY <1>9 DEF leaseVars, LeaseInv, LeaseTypeOK, FlockHeld, MetaHeld, EpochBounded, EpochsExclusive
  <1> QED BY <1>1, <1>2, <1>3, <1>4, <1>5, <1>6, <1>7, <1>8, <1>9 DEF LeaseNext

\* The inductive invariant holds in every reachable state.
LEMMA LeaseInvariant == LeaseSpec => []LeaseInv
  BY LeaseInitInv, LeaseNextInv, PTL DEF LeaseSpec

\* The variables keep their types.
THEOREM LeaseType == LeaseSpec => []LeaseTypeOK
  BY LeaseInvariant, PTL DEF LeaseInv

\* Two daemons never share an epoch, however Start interleaves with
\* replacements of the lock path.
THEOREM LeaseEpochsExclusive == LeaseSpec => []EpochsExclusive
  BY LeaseInvariant, PTL DEF LeaseInv

\* At most one daemon has a lease that Validate accepts.
THEOREM LeaseOneValid == LeaseSpec => []OneValidLease
  <1>1. LeaseInv => OneValidLease
    BY ZenonT(60), SMTT(30) DEF LeaseInv, FlockHeld, OneValidLease, Leased, PathMatches
  <1> QED BY <1>1, LeaseInvariant, PTL

\* The epochs of committed transactions never go back.
THEOREM LeaseCommitOrder == LeaseSpec => CommitsInEpochOrder
  <1>1. LeaseInv /\ [LeaseNext]_leaseVars => [commit <= commit']_leaseVars
    <2> SUFFICES ASSUME LeaseInv, LeaseNext PROVE commit <= commit'
      BY DEF leaseVars
    <2>1. ASSUME NEW d \in Daemons, FinishHandler(d) PROVE commit <= commit'
      BY <2>1 DEF FinishHandler, FenceCurrent, LeaseInv, LeaseTypeOK, EpochBounded
    <2>2. ASSUME commit' = commit PROVE commit <= commit'
      BY <2>2 DEF LeaseInv, LeaseTypeOK
    <2> QED BY <2>1, <2>2 DEF LeaseNext, ReplacePath, OpenFile, Flock, WriteMetadata, Checked,
            AcquireReturn, ValidateFirst, ValidateAgain, AcquireLeader, Recover,
            BeginHandler, CloseLease, Released
  <1> QED BY <1>1, LeaseInvariant, PTL DEF LeaseSpec, CommitsInEpochOrder

-----------------------------------------------------------------------------
(* The runtime control of a ticket *)

\* Identities held in memory or in the row are not newer than the ticket, and a
\* stop of the current version is a stop of the current runner.
Behind ==
    /\ fence.v > 0
    /\ allowed.v <= fence.v /\ snap.v <= fence.v
    /\ act.id.v <= fence.v /\ op.cap.v <= fence.v
    /\ snap # None => snap.v > 0
    /\ act.at # "none" => act.id.v > 0
    /\ row.st # "none" => row.auth.v > 0
    /\ row.stop.v <= fence.v
    /\ row.stop.v = fence.v => row.stop.r = fence.r

\* A dead daemon left nothing in memory.
Gone ==
    ~up => /\ allowed = None /\ snap = None /\ act = NoAct /\ op = Idle

Stopping == {"seal", "stop", "sealact", "cancel", "join", "proof", "complete"}
Ending == {"terminal", "retire", "retirestore"}
Starting == {"load", "stop", "sealact", "cancel", "join", "rearm", "activate",
             "install", "reserve", "begin", "deciding"}

\* A request is at a step of its kind and the ticket is in the phase the
\* request put it in: runtimeMu admits one request at a time.
Phased ==
    /\ op.kind = "none" => op.at = "idle"
    /\ op.kind = "pause" =>
         /\ op.at \in Stopping /\ phase \in {"stopping", "held"}
         /\ op.at = "complete" => phase = "stopping"
    /\ op.kind = "recover" => op.at \in Stopping /\ phase \in {"blocked", "held"}
    /\ op.kind = "cancel" =>
         \/ op.at \in Stopping /\ phase = "cancelling"
         \/ op.at \in Ending /\ phase = "cancelled"
    /\ op.kind \in {"resume", "decide"} =>
         /\ op.at \in Starting /\ phase \in {"active", "blocked", "held"}
         /\ row.st \in {"sealed", "armed"} => phase = "active"

\* What a request that has passed a step can still rely on.
Held ==
    /\ op.at \in {"stop", "sealact", "cancel", "join", "proof", "complete"} =>
         row.st = "sealed"
    /\ op.at \in {"proof", "complete"} => act.at # "running"
    /\ op.at = "complete" => writer = None
    /\ op.at \in {"sealact", "activate", "install", "reserve", "begin"} => op.cap.v > 0
    /\ op.at = "activate" => row.stop.v < op.cap.v
    /\ op.at = "install" =>
         row.st = "armed" /\ row.auth = op.cap /\ allowed # fence

\* A Begin of the current identity that waits for openStore still has the
\* permission it was admitted with.
Backed == act.at = "opening" /\ act.id = fence => allowed = fence

\* Whoever still has the ticket's identity finds it in its phase: a running
\* activity under an open gate, a Begin under the row it opened, a permission.
Current ==
    /\ act.at = "running" /\ act.id = fence =>
         phase = "active" /\ row.st \in {"none", "open"}
    /\ act.at = "opened" /\ row.st = "open" /\ row.auth = act.id =>
         act.id = fence /\ phase = "active"
    /\ allowed = fence => phase = "active"

ControlInv ==
    /\ TypeOK /\ Behind /\ Gone /\ Phased /\ Held /\ Backed /\ Current
    /\ LatchMirrorsRow /\ AuthorityIsCurrent /\ PermissionIsBacked /\ StoppedIsQuiet

-----------------------------------------------------------------------------
(* Values *)

\* A fence of naturals is one, and keeps its fields.
LEMMA FenceIs ==
  ASSUME NEW v \in Nat, NEW l \in Nat, NEW r \in Nat
  PROVE  /\ Fence(v, l, r) \in Fences
         /\ Fence(v, l, r).v = v /\ Fence(v, l, r).l = l /\ Fence(v, l, r).r = r
  BY DEF Fence, Fences

\* Fences have natural fields, and none is the fence of version 0.
LEMMA FenceFields ==
  /\ \A f \in Fences : f.v \in Nat /\ f.l \in Nat /\ f.r \in Nat
  /\ None \in Fences /\ None.v = 0
  BY DEF Fence, Fences, None

\* What a control row is made of.
LEMMA RowIs ==
  ASSUME NEW st \in RowStates, NEW stop \in Fences, NEW auth \in Fences
  PROVE  /\ Row(st, stop, auth) \in [st : RowStates, stop : Fences, auth : Fences]
         /\ Row(st, stop, auth).st = st /\ Row(st, stop, auth).stop = stop
         /\ Row(st, stop, auth).auth = auth
  BY DEF Row

\* What a registered activity is made of.
LEMMA ActIs ==
  ASSUME NEW step \in ActStages, NEW id \in Fences, NEW by \in {"loop", "decision"},
         NEW sealer \in BOOLEAN, NEW cancelled \in BOOLEAN
  PROVE  LET a == Act(step, id, by, sealer, cancelled)
         IN  /\ a \in [at : ActStages, id : Fences, by : {"loop", "decision"},
                       sealer : BOOLEAN, cancelled : BOOLEAN]
             /\ a.at = step /\ a.id = id /\ a.by = by
  BY Zenon DEF Act

\* What a request is made of.
LEMMA OpIs ==
  ASSUME NEW kind \in Kinds, NEW step \in Steps, NEW cap \in Fences, NEW stop \in Fences
  PROVE  LET o == Op(kind, step, cap, stop)
         IN  /\ o \in [kind : Kinds, at : Steps, cap : Fences, stop : Fences]
             /\ o.kind = kind /\ o.at = step /\ o.cap = cap /\ o.stop = stop
  BY DEF Op

\* No activity, and no request.
LEMMA Nothing ==
  /\ NoAct \in [at : ActStages, id : Fences, by : {"loop", "decision"},
                sealer : BOOLEAN, cancelled : BOOLEAN]
  /\ NoAct.at = "none" /\ NoAct.id = None /\ NoAct.by = "loop"
  /\ Idle \in [kind : Kinds, at : Steps, cap : Fences, stop : Fences]
  /\ Idle.kind = "none" /\ Idle.at = "idle" /\ Idle.cap = None
<1>1. /\ None \in Fences /\ FALSE \in BOOLEAN
      /\ "none" \in ActStages /\ "loop" \in {"loop", "decision"}
      /\ "none" \in Kinds /\ "idle" \in Steps
  BY FenceFields DEF ActStages, Kinds, Steps
<1>2. /\ NoAct \in [at : ActStages, id : Fences, by : {"loop", "decision"},
                    sealer : BOOLEAN, cancelled : BOOLEAN]
      /\ NoAct.at = "none" /\ NoAct.id = None /\ NoAct.by = "loop"
  BY <1>1 DEF NoAct, Act
<1>3. /\ Idle \in [kind : Kinds, at : Steps, cap : Fences, stop : Fences]
      /\ Idle.kind = "none" /\ Idle.at = "idle" /\ Idle.cap = None
  BY <1>1 DEF Idle, Op
<1> QED
  BY <1>2, <1>3

-----------------------------------------------------------------------------
(* Steps *)

\* A listing reads the current identity.
LEMMA ListTicketsKeeps ==
  ASSUME ControlInv, ListTickets
  PROVE  ControlInv'
<1> USE FenceFields, Nothing DEF ControlInv, TypeOK, durable, admission
<1>1. TypeOK'
  BY DEF ListTickets
<1>2. Behind'
  BY DEF Behind, Phased, Held, ListTickets
<1>3. Gone'
  BY DEF Gone, ListTickets, NoAct, Idle
<1>4. /\ Phased' /\ Held' /\ Backed' /\ LatchMirrorsRow'
      /\ AuthorityIsCurrent' /\ PermissionIsBacked' /\ StoppedIsQuiet'
  BY DEF Phased, Held, Backed, LatchMirrorsRow, AuthorityIsCurrent,
         PermissionIsBacked, StoppedIsQuiet, ListTickets
<1>5. Current'
  BY DEF Behind, Gone, Phased, Held, Backed, Current, LatchMirrorsRow,
         AuthorityIsCurrent, PermissionIsBacked, Stopping, Ending, Starting,
         Kinds, ListTickets
<1> QED
  BY <1>1, <1>2, <1>3, <1>4, <1>5

\* A loop registers: with a stop its identity is the permission.
LEMMA BeginKeeps ==
  ASSUME ControlInv, Begin
  PROVE  ControlInv'
<1> USE FenceFields, Nothing DEF ControlInv, TypeOK, durable, admission
<1>1. TypeOK'
  BY DEF Begin, CanBegin, EntryStage, Act, ActStages
<1>2. Behind'
  BY DEF Behind, Phased, Held, Begin, CanBegin, EntryStage, Act
<1>3. Gone'
  BY DEF Gone, Begin, CanBegin, EntryStage, Act, NoAct, Idle
<1>4. Held'
  BY DEF Current, Behind, Gone, Phased, Held, Backed, LatchMirrorsRow,
         AuthorityIsCurrent, PermissionIsBacked, Stopping, Ending, Starting,
         Kinds, Begin, CanBegin, EntryStage, Act
<1>5. Backed'
  BY DEF Behind, Gone, Held, Backed, PermissionIsBacked, Begin, CanBegin,
         EntryStage, Act
<1>6. StoppedIsQuiet'
  BY DEF Current, Gone, Phased, Held, LatchMirrorsRow, AuthorityIsCurrent,
         StoppedIsQuiet, Stopping, Ending, Starting, Kinds, Begin, CanBegin,
         EntryStage, Act
<1>7. /\ Phased' /\ LatchMirrorsRow' /\ AuthorityIsCurrent' /\ PermissionIsBacked'
  BY DEF Phased, LatchMirrorsRow, AuthorityIsCurrent, PermissionIsBacked,
         Begin, CanBegin, EntryStage
<1>8. Current'
  BY DEF Behind, Gone, Phased, Held, Backed, Current, LatchMirrorsRow,
         AuthorityIsCurrent, PermissionIsBacked, Stopping, Ending, Starting,
         Kinds, Begin, CanBegin, EntryStage, Act
<1> QED
  BY <1>1, <1>2, <1>3, <1>4, <1>5, <1>6, <1>7, <1>8

\* A cancelled decision keeps its place.
LEMMA CallerGoneKeeps ==
  ASSUME ControlInv, CallerGone
  PROVE  ControlInv'
<1> USE FenceFields, Nothing DEF ControlInv, TypeOK, durable, admission
<1>1. TypeOK'
  BY DEF CallerGone, Act, ActStages
<1>2. Behind'
  BY DEF Behind, Phased, Held, CallerGone, Act
<1>3. Gone'
  BY DEF Gone, CallerGone, Act, NoAct, Idle
<1>4. Held'
  BY DEF Current, Behind, Gone, Phased, Held, Backed, LatchMirrorsRow,
         AuthorityIsCurrent, PermissionIsBacked, Stopping, Ending, Starting,
         Kinds, CallerGone, Act
<1>5. Backed'
  BY DEF Behind, Gone, Held, Backed, PermissionIsBacked, CallerGone, Act
<1>6. StoppedIsQuiet'
  BY DEF Current, Gone, Phased, Held, LatchMirrorsRow, AuthorityIsCurrent,
         StoppedIsQuiet, Stopping, Ending, Starting, Kinds, CallerGone, Act
<1>7. /\ Phased' /\ LatchMirrorsRow' /\ AuthorityIsCurrent' /\ PermissionIsBacked'
  BY DEF Phased, LatchMirrorsRow, AuthorityIsCurrent, PermissionIsBacked,
         CallerGone
<1>8. Current'
  BY DEF Behind, Gone, Phased, Held, Backed, Current, LatchMirrorsRow,
         AuthorityIsCurrent, PermissionIsBacked, Stopping, Ending, Starting,
         Kinds, CallerGone, Act
<1> QED
  BY <1>1, <1>2, <1>3, <1>4, <1>5, <1>6, <1>7, <1>8

\* Row and latch open together, for the current identity.
LEMMA OpenKeeps ==
  ASSUME ControlInv, Open
  PROVE  ControlInv'
<1> USE FenceFields, Nothing DEF ControlInv, TypeOK, durable, admission
<1>1. TypeOK'
  BY DEF Open, CanOpen, Row, RowStates, Fence, Fences, Act, ActStages
<1>2. Behind'
  BY DEF Behind, Phased, Held, Open, CanOpen, Row, Fence, Fences, Act
<1>3. Gone'
  BY DEF Gone, Open, CanOpen, Row, Fence, Fences, Act, NoAct, Idle
<1>4. Held'
  BY DEF Current, Behind, Gone, Phased, Held, Backed, LatchMirrorsRow,
         AuthorityIsCurrent, PermissionIsBacked, Stopping, Ending, Starting,
         Kinds, Open, CanOpen, Row, Fence, Fences, Act
<1>5. Backed'
  BY DEF Behind, Gone, Held, Backed, PermissionIsBacked, Open, CanOpen, Row,
         Fence, Fences, Act
<1>6. LatchMirrorsRow'
  BY DEF Current, Behind, Held, LatchMirrorsRow, Open, CanOpen, Row, Fence,
         Fences, Act
<1>7. AuthorityIsCurrent'
  BY DEF Current, Behind, Gone, Phased, Held, AuthorityIsCurrent, Stopping,
         Ending, Starting, Kinds, Open, CanOpen, Row, Fence, Fences, Act
<1>8. PermissionIsBacked'
  BY DEF Current, Behind, Gone, Phased, Held, AuthorityIsCurrent,
         PermissionIsBacked, Stopping, Ending, Starting, Kinds, Open, CanOpen,
         Row, Fence, Fences, Act
<1>9. StoppedIsQuiet'
  BY DEF Current, Gone, Phased, Held, LatchMirrorsRow, AuthorityIsCurrent,
         StoppedIsQuiet, Stopping, Ending, Starting, Kinds, Open, CanOpen, Row,
         Fence, Fences, Act
<1>10. /\ Phased'
  BY DEF Phased, Open, CanOpen
<1>11. Current'
  BY DEF Behind, Gone, Phased, Held, Backed, Current, LatchMirrorsRow,
         AuthorityIsCurrent, PermissionIsBacked, Stopping, Ending, Starting,
         Kinds, Open, CanOpen, Row, Fence, Fences, Act
<1> QED
  BY <1>1, <1>2, <1>3, <1>4, <1>5, <1>6, <1>7, <1>8, <1>9, <1>10, <1>11

\* A refused openStore takes the entry back.
LEMMA OpenFailsKeeps ==
  ASSUME ControlInv, OpenFails
  PROVE  ControlInv'
<1> USE FenceFields, Nothing DEF ControlInv, TypeOK, durable, admission
<1>1. TypeOK'
  BY DEF OpenFails, Release, DecisionEnds, Act, ActStages, Op, Kinds, Steps
<1>2. Behind'
  BY DEF Behind, Phased, Held, OpenFails, Release, DecisionEnds, Act, Op
<1>3. Gone'
  BY DEF Gone, OpenFails, Release, DecisionEnds, Act, Op, NoAct, Idle
<1>4. Phased'
  BY DEF Current, Gone, Phased, Stopping, Ending, Starting, Kinds, OpenFails,
         Release, DecisionEnds, Act, Op
<1>5. Held'
  BY DEF Current, Behind, Gone, Phased, Held, Backed, LatchMirrorsRow,
         AuthorityIsCurrent, PermissionIsBacked, Stopping, Ending, Starting,
         Kinds, OpenFails, Release, DecisionEnds, Act, Op
<1>6. Backed'
  BY DEF Behind, Gone, Held, Backed, PermissionIsBacked, OpenFails, Release,
         DecisionEnds, Act, Op
<1>7. StoppedIsQuiet'
  BY DEF Current, Gone, Phased, Held, LatchMirrorsRow, AuthorityIsCurrent,
         StoppedIsQuiet, Stopping, Ending, Starting, Kinds, OpenFails, Release,
         DecisionEnds, Act, Op
<1>8. /\ LatchMirrorsRow' /\ AuthorityIsCurrent' /\ PermissionIsBacked'
  BY DEF LatchMirrorsRow, AuthorityIsCurrent, PermissionIsBacked, OpenFails,
         Release, DecisionEnds
<1>9. Current'
  BY DEF Behind, Gone, Phased, Held, Backed, Current, LatchMirrorsRow,
         AuthorityIsCurrent, PermissionIsBacked, Stopping, Ending, Starting,
         Kinds, OpenFails, Release, DecisionEnds, Act, Op
<1> QED
  BY <1>1, <1>2, <1>3, <1>4, <1>5, <1>6, <1>7, <1>8, <1>9

\* The permission is consumed.
LEMMA CommitKeeps ==
  ASSUME ControlInv, Commit
  PROVE  ControlInv'
<1> USE FenceFields, Nothing DEF ControlInv, TypeOK, durable, admission
<1>1. TypeOK'
  BY DEF Commit, Release, Act, ActStages
<1>2. Behind'
  BY DEF Behind, Phased, Held, Commit, Release, Act
<1>3. Gone'
  BY DEF Gone, Commit, Release, Act, NoAct, Idle
<1>4. Held'
  BY DEF Current, Behind, Gone, Phased, Held, Backed, LatchMirrorsRow,
         AuthorityIsCurrent, PermissionIsBacked, Stopping, Ending, Starting,
         Kinds, Commit, Release, Act
<1>5. Backed'
  BY DEF Behind, Gone, Held, Backed, PermissionIsBacked, Commit, Release, Act
<1>6. PermissionIsBacked'
  BY DEF Current, Behind, Gone, Phased, Held, AuthorityIsCurrent,
         PermissionIsBacked, Stopping, Ending, Starting, Kinds, Commit,
         Release, Act
<1>7. StoppedIsQuiet'
  BY DEF Current, Gone, Phased, Held, LatchMirrorsRow, AuthorityIsCurrent,
         StoppedIsQuiet, Stopping, Ending, Starting, Kinds, Commit, Release,
         Act
<1>8. /\ Phased' /\ LatchMirrorsRow' /\ AuthorityIsCurrent'
  BY DEF Phased, LatchMirrorsRow, AuthorityIsCurrent, Commit, Release
<1>9. Current'
  BY DEF Behind, Gone, Phased, Held, Backed, Current, LatchMirrorsRow,
         AuthorityIsCurrent, PermissionIsBacked, Stopping, Ending, Starting,
         Kinds, Commit, Release, Act
<1> QED
  BY <1>1, <1>2, <1>3, <1>4, <1>5, <1>6, <1>7, <1>8, <1>9

\* A compensating close arms only the row that the same identity opened.
LEMMA SuspendKeeps ==
  ASSUME ControlInv, Suspend
  PROVE  ControlInv'
<1> USE FenceFields, Nothing DEF ControlInv, TypeOK, durable, admission
<1>1. TypeOK'
  BY DEF Suspend, SuspendOutcome, Row, RowStates, Fence, Fences, Act, ActStages
<1>2. Behind'
  BY DEF Behind, Phased, Held, Suspend, SuspendOutcome, Row, Fence, Fences, Act
<1>3. Gone'
  BY DEF Gone, Suspend, SuspendOutcome, Row, Fence, Fences, Act, NoAct, Idle
<1>4. Held'
  BY DEF Current, Behind, Gone, Phased, Held, Backed, LatchMirrorsRow,
         AuthorityIsCurrent, PermissionIsBacked, Stopping, Ending, Starting,
         Kinds, Suspend, SuspendOutcome, Row, Fence, Fences, Act
<1>5. Backed'
  BY DEF Behind, Gone, Held, Backed, PermissionIsBacked, Suspend,
         SuspendOutcome, Row, Fence, Fences, Act
<1>6. LatchMirrorsRow'
  BY DEF Current, Behind, Held, LatchMirrorsRow, Suspend, SuspendOutcome, Row,
         Fence, Fences, Act
<1>7. AuthorityIsCurrent'
  BY DEF Current, Behind, Gone, Phased, Held, AuthorityIsCurrent, Stopping,
         Ending, Starting, Kinds, Suspend, SuspendOutcome, Row, Fence, Fences,
         Act
<1>8. PermissionIsBacked'
  BY DEF Current, Behind, Gone, Phased, Held, AuthorityIsCurrent,
         PermissionIsBacked, Stopping, Ending, Starting, Kinds, Suspend,
         SuspendOutcome, Row, Fence, Fences, Act
<1>9. StoppedIsQuiet'
  BY DEF Current, Gone, Phased, Held, LatchMirrorsRow, AuthorityIsCurrent,
         StoppedIsQuiet, Stopping, Ending, Starting, Kinds, Suspend,
         SuspendOutcome, Row, Fence, Fences, Act
<1>10. /\ Phased'
  BY DEF Phased, Current, AuthorityIsCurrent, Suspend, SuspendOutcome, Row
<1>11. Current'
  BY DEF Behind, Gone, Phased, Held, Backed, Current, LatchMirrorsRow,
         AuthorityIsCurrent, PermissionIsBacked, Stopping, Ending, Starting,
         Kinds, Suspend, SuspendOutcome, Row, Fence, Fences, Act
<1> QED
  BY <1>1, <1>2, <1>3, <1>4, <1>5, <1>6, <1>7, <1>8, <1>9, <1>10, <1>11

\* A lost commit drops the permission, or keeps it with the armed row.
LEMMA CommitLostKeeps ==
  ASSUME ControlInv, CommitLost
  PROVE  ControlInv'
<1> USE FenceFields, Nothing DEF ControlInv, TypeOK, durable, admission
<1>1. TypeOK'
  BY DEF CommitLost, Release, DecisionEnds, Act, ActStages, Op, Kinds, Steps
<1>2. Behind'
  BY DEF Behind, Phased, Held, CommitLost, Release, DecisionEnds, Act, Op
<1>3. Gone'
  BY DEF Gone, CommitLost, Release, DecisionEnds, Act, Op, NoAct, Idle
<1>4. Phased'
  BY DEF Current, Gone, Phased, Stopping, Ending, Starting, Kinds, CommitLost,
         Release, DecisionEnds, Act, Op
<1>5. Held'
  BY DEF Current, Behind, Gone, Phased, Held, Backed, LatchMirrorsRow,
         AuthorityIsCurrent, PermissionIsBacked, Stopping, Ending, Starting,
         Kinds, CommitLost, Release, DecisionEnds, Act, Op
<1>6. Backed'
  BY DEF Behind, Gone, Held, Backed, PermissionIsBacked, CommitLost, Release,
         DecisionEnds, Act, Op
<1>7. PermissionIsBacked'
  BY DEF Current, Behind, Gone, Phased, Held, AuthorityIsCurrent,
         PermissionIsBacked, Stopping, Ending, Starting, Kinds, CommitLost,
         Release, DecisionEnds, Act, Op
<1>8. StoppedIsQuiet'
  BY DEF Current, Gone, Phased, Held, LatchMirrorsRow, AuthorityIsCurrent,
         StoppedIsQuiet, Stopping, Ending, Starting, Kinds, CommitLost,
         Release, DecisionEnds, Act, Op
<1>9. /\ LatchMirrorsRow' /\ AuthorityIsCurrent'
  BY DEF LatchMirrorsRow, AuthorityIsCurrent, CommitLost, Release, DecisionEnds
<1>10. Current'
  BY DEF Behind, Gone, Phased, Held, Backed, Current, LatchMirrorsRow,
         AuthorityIsCurrent, PermissionIsBacked, Stopping, Ending, Starting,
         Kinds, CommitLost, Release, DecisionEnds, Act, Op
<1> QED
  BY <1>1, <1>2, <1>3, <1>4, <1>5, <1>6, <1>7, <1>8, <1>9, <1>10

\* Store admits only under an open gate, in an active phase.
LEMMA AdmitKeeps ==
  ASSUME ControlInv, Admit
  PROVE  ControlInv'
<1> USE FenceFields, Nothing DEF ControlInv, TypeOK, durable, admission
<1>1. TypeOK'
  BY DEF Admit, RuntimeAdmissionReady, Act, ActStages
<1>2. Behind'
  BY DEF Behind, Phased, Held, Admit, RuntimeAdmissionReady, Act
<1>3. Gone'
  BY DEF Gone, Admit, RuntimeAdmissionReady, Act, NoAct, Idle
<1>4. Held'
  BY DEF Current, Behind, Gone, Phased, Held, Backed, LatchMirrorsRow,
         AuthorityIsCurrent, PermissionIsBacked, Stopping, Ending, Starting,
         Kinds, Admit, RuntimeAdmissionReady, Act
<1>5. Backed'
  BY DEF Behind, Gone, Held, Backed, PermissionIsBacked, Admit,
         RuntimeAdmissionReady, Act
<1>6. StoppedIsQuiet'
  BY DEF Current, Gone, Phased, Held, LatchMirrorsRow, AuthorityIsCurrent,
         StoppedIsQuiet, Stopping, Ending, Starting, Kinds, Admit,
         RuntimeAdmissionReady, Act
<1>7. /\ Phased' /\ LatchMirrorsRow' /\ AuthorityIsCurrent' /\ PermissionIsBacked'
  BY DEF Phased, LatchMirrorsRow, AuthorityIsCurrent, PermissionIsBacked,
         Admit, RuntimeAdmissionReady
<1>8. Current'
  BY DEF Behind, Gone, Phased, Held, Backed, Current, LatchMirrorsRow,
         AuthorityIsCurrent, PermissionIsBacked, Stopping, Ending, Starting,
         Kinds, Admit, RuntimeAdmissionReady, Act
<1> QED
  BY <1>1, <1>2, <1>3, <1>4, <1>5, <1>6, <1>7, <1>8

\* An activity returns.
LEMMA EndKeeps ==
  ASSUME ControlInv, End
  PROVE  ControlInv'
<1> USE FenceFields, Nothing DEF ControlInv, TypeOK, durable, admission
<1>1. TypeOK'
  BY DEF End, DecisionEnds, Act, ActStages, Op, Kinds, Steps
<1>2. Behind'
  BY DEF Behind, Phased, Held, End, DecisionEnds, Act, Op
<1>3. Gone'
  BY DEF Gone, End, DecisionEnds, Act, Op, NoAct, Idle
<1>4. Phased'
  BY DEF Current, Gone, Phased, Stopping, Ending, Starting, Kinds, End,
         DecisionEnds, Act, Op
<1>5. Held'
  BY DEF Current, Behind, Gone, Phased, Held, Backed, LatchMirrorsRow,
         AuthorityIsCurrent, PermissionIsBacked, Stopping, Ending, Starting,
         Kinds, End, DecisionEnds, Act, Op
<1>6. Backed'
  BY DEF Behind, Gone, Held, Backed, PermissionIsBacked, End, DecisionEnds,
         Act, Op
<1>7. StoppedIsQuiet'
  BY DEF Current, Gone, Phased, Held, LatchMirrorsRow, AuthorityIsCurrent,
         StoppedIsQuiet, Stopping, Ending, Starting, Kinds, End, DecisionEnds,
         Act, Op
<1>8. /\ LatchMirrorsRow' /\ AuthorityIsCurrent' /\ PermissionIsBacked'
  BY DEF LatchMirrorsRow, AuthorityIsCurrent, PermissionIsBacked, End,
         DecisionEnds
<1>9. Current'
  BY DEF Behind, Gone, Phased, Held, Backed, Current, LatchMirrorsRow,
         AuthorityIsCurrent, PermissionIsBacked, Stopping, Ending, Starting,
         Kinds, End, DecisionEnds, Act, Op
<1> QED
  BY <1>1, <1>2, <1>3, <1>4, <1>5, <1>6, <1>7, <1>8, <1>9

\* A writer needs a running activity, which no stopped ticket has.
LEMMA BeginWriterKeeps ==
  ASSUME ControlInv, BeginWriter
  PROVE  ControlInv'
<1> USE FenceFields, Nothing DEF ControlInv, TypeOK, durable, admission
<1>1. TypeOK'
  BY DEF BeginWriter, TicketFence
<1>2. Held'
  BY DEF Current, Behind, Gone, Phased, Held, Backed, LatchMirrorsRow,
         AuthorityIsCurrent, PermissionIsBacked, Stopping, Ending, Starting,
         Kinds, BeginWriter, TicketFence
<1>3. StoppedIsQuiet'
  BY DEF Current, Gone, Phased, Held, LatchMirrorsRow, AuthorityIsCurrent,
         StoppedIsQuiet, Stopping, Ending, Starting, Kinds, BeginWriter,
         TicketFence
<1>4. /\ Behind' /\ Gone' /\ Phased' /\ Backed'
      /\ LatchMirrorsRow' /\ AuthorityIsCurrent' /\ PermissionIsBacked'
  BY DEF Behind, Gone, Phased, Backed, LatchMirrorsRow, AuthorityIsCurrent,
         PermissionIsBacked, BeginWriter, TicketFence
<1>5. Current'
  BY DEF Behind, Gone, Phased, Held, Backed, Current, LatchMirrorsRow,
         AuthorityIsCurrent, PermissionIsBacked, Stopping, Ending, Starting,
         Kinds, BeginWriter, TicketFence
<1> QED
  BY <1>1, <1>2, <1>3, <1>4, <1>5

\* A writer leaves.
LEMMA FinishWriterKeeps ==
  ASSUME ControlInv, FinishWriter
  PROVE  ControlInv'
<1> USE FenceFields, Nothing DEF ControlInv, TypeOK, durable, admission
<1>1. TypeOK'
  BY DEF FinishWriter
<1>2. Held'
  BY DEF Current, Behind, Gone, Phased, Held, Backed, LatchMirrorsRow,
         AuthorityIsCurrent, PermissionIsBacked, Stopping, Ending, Starting,
         Kinds, FinishWriter
<1>3. StoppedIsQuiet'
  BY DEF Current, Gone, Phased, Held, LatchMirrorsRow, AuthorityIsCurrent,
         StoppedIsQuiet, Stopping, Ending, Starting, Kinds, FinishWriter
<1>4. /\ Behind' /\ Gone' /\ Phased' /\ Backed'
      /\ LatchMirrorsRow' /\ AuthorityIsCurrent' /\ PermissionIsBacked'
  BY DEF Behind, Gone, Phased, Backed, LatchMirrorsRow, AuthorityIsCurrent,
         PermissionIsBacked, FinishWriter
<1>5. Current'
  BY DEF Behind, Gone, Phased, Held, Backed, Current, LatchMirrorsRow,
         AuthorityIsCurrent, PermissionIsBacked, Stopping, Ending, Starting,
         Kinds, FinishWriter
<1> QED
  BY <1>1, <1>2, <1>3, <1>4, <1>5

\* The ticket moves on by its running activity, under a row that is absent or
\* open: whatever the row keeps of its authority stays at or behind the version.
LEMMA TransitKeeps ==
  ASSUME ControlInv, CanTransit, NextVersion,
         phase' \in {"active", "blocked", "held"},
         row' \in [st : RowStates, stop : Fences, auth : Fences],
         row'.st = row.st, row'.stop = row.stop,
         row'.auth # row.auth => row.st = "open" /\ row'.auth = fence',
         UNCHANGED <<up, writer, latch, admission, memo, snap, op>>
  PROVE  ControlInv'
<1> USE FenceFields, Nothing DEF ControlInv, TypeOK, durable, admission
<1>1. /\ fence' \in Fences /\ fence'.v = fence.v + 1
      /\ fence'.l = fence.l /\ fence'.r = fence.r
  BY DEF NextVersion, Fence, Fences
<1>2. /\ up /\ act.at = "running" /\ writer = None
      /\ phase = "active" /\ row.st \in {"none", "open"}
      /\ latch = None
  BY DEF CanTransit, Current, Gone, LatchMirrorsRow
<1>3. TypeOK'
  BY <1>1
<1>4. Behind'
  BY <1>1, <1>2 DEF Behind, AuthorityIsCurrent
<1>5. Gone' /\ Backed' /\ LatchMirrorsRow' /\ StoppedIsQuiet'
  BY <1>2 DEF Gone, Backed, LatchMirrorsRow, StoppedIsQuiet
<1>6. Phased' /\ Held'
  <2>1. op.kind \in {"none", "resume", "decide"}
    BY <1>2 DEF Phased, Kinds
  <2>2. Phased'
    BY <1>2, <2>1 DEF Phased
  <2>3. op.at \notin {"stop", "sealact", "cancel", "join", "proof", "complete", "install"}
    BY <1>2 DEF Held
  <2>4. Held'
    BY <1>1, <1>2, <2>3 DEF Held
  <2> QED
    BY <2>2, <2>4
<1>7. allowed # fence' /\ act.id # fence'
  BY <1>1 DEF Behind
<1>8. AuthorityIsCurrent' /\ PermissionIsBacked' /\ Current'
  BY <1>1, <1>2, <1>7 DEF Behind, AuthorityIsCurrent, PermissionIsBacked, Current
<1> QED
  BY <1>3, <1>4, <1>5, <1>6, <1>8

\* The open authority follows the version.
LEMMA AdvanceKeeps ==
  ASSUME ControlInv, Advance
  PROVE  ControlInv'
<1>1. fence' = Fence(fence.v + 1, fence.l, fence.r) /\ fence' \in Fences
  BY FenceIs, FenceFields DEF ControlInv, TypeOK, Advance, NextVersion
<1>2. \/ row' = row
      \/ row.st = "open" /\ row' = Row("open", row.stop, fence')
  BY <1>1 DEF Advance, Advanced
<1>3. /\ row' \in [st : RowStates, stop : Fences, auth : Fences]
      /\ row'.st = row.st /\ row'.stop = row.stop
      /\ row'.auth # row.auth => row.st = "open" /\ row'.auth = fence'
  <2>1. row \in [st : RowStates, stop : Fences, auth : Fences]
    BY DEF ControlInv, TypeOK
  <2>2. CASE row' = row
    BY <2>1, <2>2
  <2>3. CASE row.st = "open" /\ row' = Row("open", row.stop, fence')
    BY <1>1, <2>1, <2>3, RowIs
  <2> QED
    BY <1>2, <2>2, <2>3
<1> QED
  BY <1>3, TransitKeeps DEF Advance

\* The open authority stays at its version.
LEMMA TransitionKeeps ==
  ASSUME ControlInv, Transition
  PROVE  ControlInv'
  BY TransitKeeps DEF Transition, ControlInv, TypeOK

\* A stop of the current identity; the phase is not active, so nothing is
\* armed.
LEMMA SealRuntimeControlKeeps ==
  ASSUME ControlInv, SealRuntimeControl
  PROVE  ControlInv'
<1> USE FenceFields, Nothing DEF ControlInv, TypeOK, durable, admission
<1>1. TypeOK'
  BY DEF SealRuntimeControl, Seal, Row, RowStates, Fence, Fences, Op, Kinds,
         Steps
<1>2. Behind'
  BY DEF Behind, Phased, Held, SealRuntimeControl, Seal, Row, Fence, Fences, Op
<1>3. Gone'
  BY DEF Gone, SealRuntimeControl, Seal, Row, Fence, Fences, Op, NoAct, Idle
<1>4. Phased'
  BY DEF Current, Gone, Phased, Stopping, Ending, Starting, Kinds,
         SealRuntimeControl, Seal, Row, Fence, Fences, Op
<1>5. Held'
  BY DEF Current, Behind, Gone, Phased, Held, Backed, LatchMirrorsRow,
         AuthorityIsCurrent, PermissionIsBacked, Stopping, Ending, Starting,
         Kinds, SealRuntimeControl, Seal, Row, Fence, Fences, Op
<1>6. LatchMirrorsRow'
  BY DEF Current, Behind, Held, LatchMirrorsRow, SealRuntimeControl, Seal,
         Row, Fence, Fences, Op
<1>7. AuthorityIsCurrent'
  BY DEF Current, Behind, Gone, Phased, Held, AuthorityIsCurrent, Stopping,
         Ending, Starting, Kinds, SealRuntimeControl, Seal, Row, Fence,
         Fences, Op
<1>8. PermissionIsBacked'
  BY DEF Current, Behind, Gone, Phased, Held, AuthorityIsCurrent,
         PermissionIsBacked, Stopping, Ending, Starting, Kinds,
         SealRuntimeControl, Seal, Row, Fence, Fences, Op
<1>9. StoppedIsQuiet'
  BY DEF Current, Gone, Phased, Held, LatchMirrorsRow, AuthorityIsCurrent,
         StoppedIsQuiet, Stopping, Ending, Starting, Kinds, SealRuntimeControl,
         Seal, Row, Fence, Fences, Op
<1>10. /\ Backed'
  BY DEF Backed, SealRuntimeControl, Seal
<1>11. Current'
  BY DEF Behind, Gone, Phased, Held, Backed, Current, LatchMirrorsRow,
         AuthorityIsCurrent, PermissionIsBacked, Stopping, Ending, Starting,
         Kinds, SealRuntimeControl, Seal, Row, Fence, Fences, Op
<1> QED
  BY <1>1, <1>2, <1>3, <1>4, <1>5, <1>6, <1>7, <1>8, <1>9, <1>10, <1>11

\* The permission is dropped; the row is sealed, so no Begin of the current
\* identity waits.
LEMMA StopKeeps ==
  ASSUME ControlInv, Stop
  PROVE  ControlInv'
<1> USE FenceFields, Nothing DEF ControlInv, TypeOK, durable, admission
<1>1. TypeOK'
  BY DEF Stop, Op, Kinds, Steps
<1>2. Behind'
  BY DEF Behind, Phased, Held, Stop, Op
<1>3. Gone'
  BY DEF Gone, Stop, Op, NoAct, Idle
<1>4. Phased'
  BY DEF Current, Gone, Phased, Stopping, Ending, Starting, Kinds, Stop, Op
<1>5. Held'
  BY DEF Current, Behind, Gone, Phased, Held, Backed, LatchMirrorsRow,
         AuthorityIsCurrent, PermissionIsBacked, Stopping, Ending, Starting,
         Kinds, Stop, Op
<1>6. Backed'
  BY DEF Behind, Gone, Held, Backed, PermissionIsBacked, Stop, Op
<1>7. PermissionIsBacked'
  BY DEF Current, Behind, Gone, Phased, Held, AuthorityIsCurrent,
         PermissionIsBacked, Stopping, Ending, Starting, Kinds, Stop, Op
<1>8. /\ LatchMirrorsRow' /\ AuthorityIsCurrent' /\ StoppedIsQuiet'
  BY DEF LatchMirrorsRow, AuthorityIsCurrent, StoppedIsQuiet, Stop
<1>9. Current'
  BY DEF Behind, Gone, Phased, Held, Backed, Current, LatchMirrorsRow,
         AuthorityIsCurrent, PermissionIsBacked, Stopping, Ending, Starting,
         Kinds, Stop, Op
<1> QED
  BY <1>1, <1>2, <1>3, <1>4, <1>5, <1>6, <1>7, <1>8, <1>9

\* The row stays sealed under either form of the seal.
LEMMA SealActivityKeeps ==
  ASSUME ControlInv, SealActivity
  PROVE  ControlInv'
<1> USE FenceFields, Nothing DEF ControlInv, TypeOK, durable, admission
<1>1. TypeOK'
  <2>1. op' \in [kind : Kinds, at : Steps, cap : Fences, stop : Fences]
    BY DEF SealActivity, Op, Kinds, Steps
  <2>2. row' \in [st : RowStates, stop : Fences, auth : Fences] /\ latch' \in Fences
    BY DEF SealActivity, SealAdmission, Row, RowStates
  <2>3. opened' \in BOOLEAN /\ fault' \in BOOLEAN
    BY Zenon DEF SealActivity
  <2> QED
    BY <2>1, <2>2, <2>3 DEF SealActivity
<1>2. Behind'
  BY DEF Behind, Phased, Held, SealActivity, CanSealAdmission, SealAdmission,
         SealedSuccessor, Row, Fence, Fences, Op
<1>3. Gone'
  BY DEF Gone, SealActivity, CanSealAdmission, SealAdmission, SealedSuccessor,
         Row, Fence, Fences, Op, NoAct, Idle
<1>4. Phased'
  <2>1. op.at = "sealact" /\ row.st = "sealed" /\ phase' = phase
    BY DEF Held, SealActivity
  <2>2. \/ op' = Op(op.kind, "cancel", None, op.stop)
        \/ op' = Idle
    BY Zenon DEF SealActivity
  <2>3. \/ op'.kind = op.kind /\ op'.at = "cancel"
        \/ op'.kind = "none" /\ op'.at = "idle"
    BY <2>2 DEF Op
  <2>4. CASE op'.kind = op.kind /\ op'.at = "cancel"
    BY <2>1, <2>4 DEF Phased, Stopping, Ending, Starting
  <2>5. CASE op'.kind = "none" /\ op'.at = "idle"
    BY <2>5 DEF Phased
  <2> QED
    BY <2>3, <2>4, <2>5
<1>5. Held'
  BY DEF Current, Behind, Gone, Phased, Held, Backed, LatchMirrorsRow,
         AuthorityIsCurrent, PermissionIsBacked, Stopping, Ending, Starting,
         Kinds, SealActivity, CanSealAdmission, SealAdmission, SealedSuccessor,
         Row, Fence, Fences, Op
<1>6. LatchMirrorsRow'
  BY DEF Current, Behind, Held, LatchMirrorsRow, SealActivity, CanSealAdmission,
         SealAdmission, SealedSuccessor, Row, Fence, Fences, Op
<1>7. AuthorityIsCurrent'
  BY DEF Current, Behind, Gone, Phased, Held, AuthorityIsCurrent, Stopping,
         Ending, Starting, Kinds, SealActivity, CanSealAdmission,
         SealAdmission, SealedSuccessor, Row, Fence, Fences, Op
<1>8. PermissionIsBacked'
  BY DEF Current, Behind, Gone, Phased, Held, AuthorityIsCurrent,
         PermissionIsBacked, Stopping, Ending, Starting, Kinds, SealActivity,
         CanSealAdmission, SealAdmission, SealedSuccessor, Row, Fence, Fences,
         Op
<1>9. StoppedIsQuiet'
  BY DEF Current, Gone, Phased, Held, LatchMirrorsRow, AuthorityIsCurrent,
         StoppedIsQuiet, Stopping, Ending, Starting, Kinds, SealActivity,
         CanSealAdmission, SealAdmission, SealedSuccessor, Row, Fence, Fences,
         Op
<1>10. /\ Backed'
  BY DEF Backed, SealActivity, CanSealAdmission, SealAdmission, SealedSuccessor
<1>11. Current'
  BY DEF Behind, Gone, Phased, Held, Backed, Current, LatchMirrorsRow,
         AuthorityIsCurrent, PermissionIsBacked, Stopping, Ending, Starting,
         Kinds, SealActivity, CanSealAdmission, SealAdmission,
         SealedSuccessor, Row, Fence, Fences, Op
<1> QED
  BY <1>1, <1>2, <1>3, <1>4, <1>5, <1>6, <1>7, <1>8, <1>9, <1>10, <1>11

\* Whatever is registered is cancelled.
LEMMA StopCancelsKeeps ==
  ASSUME ControlInv, StopCancels
  PROVE  ControlInv'
<1> USE FenceFields, Nothing DEF ControlInv, TypeOK, durable, admission
<1>1. TypeOK'
  BY DEF StopCancels, Act, ActStages, Op, Kinds, Steps
<1>2. Behind'
  BY DEF Behind, Phased, Held, StopCancels, Act, Op
<1>3. Gone'
  BY DEF Gone, StopCancels, Act, Op, NoAct, Idle
<1>4. Phased'
  BY DEF Current, Gone, Phased, Stopping, Ending, Starting, Kinds,
         StopCancels, Act, Op
<1>5. Held'
  BY DEF Current, Behind, Gone, Phased, Held, Backed, LatchMirrorsRow,
         AuthorityIsCurrent, PermissionIsBacked, Stopping, Ending, Starting,
         Kinds, StopCancels, Act, Op
<1>6. Backed'
  BY DEF Behind, Gone, Held, Backed, PermissionIsBacked, StopCancels, Act, Op
<1>7. StoppedIsQuiet'
  BY DEF Current, Gone, Phased, Held, LatchMirrorsRow, AuthorityIsCurrent,
         StoppedIsQuiet, Stopping, Ending, Starting, Kinds, StopCancels, Act,
         Op
<1>8. /\ LatchMirrorsRow' /\ AuthorityIsCurrent' /\ PermissionIsBacked'
  BY DEF LatchMirrorsRow, AuthorityIsCurrent, PermissionIsBacked, StopCancels
<1>9. Current'
  BY DEF Behind, Gone, Phased, Held, Backed, Current, LatchMirrorsRow,
         AuthorityIsCurrent, PermissionIsBacked, Stopping, Ending, Starting,
         Kinds, StopCancels, Act, Op
<1> QED
  BY <1>1, <1>2, <1>3, <1>4, <1>5, <1>6, <1>7, <1>8, <1>9

\* The activity has returned, and the sealed row admits no other.
LEMMA JoinKeeps ==
  ASSUME ControlInv, Join
  PROVE  ControlInv'
<1> USE FenceFields, Nothing DEF ControlInv, TypeOK, durable, admission
<1>1. TypeOK'
  BY DEF Join, AfterStop, Op, Kinds, Steps
<1>2. Behind'
  BY DEF Behind, Phased, Held, Join, AfterStop, Op
<1>3. Gone'
  BY DEF Gone, Join, AfterStop, Op, NoAct, Idle
<1>4. Phased'
  BY DEF Current, Gone, Phased, Stopping, Ending, Starting, Kinds, Join,
         AfterStop, Op
<1>5. Held'
  BY DEF Current, Behind, Gone, Phased, Held, Backed, LatchMirrorsRow,
         AuthorityIsCurrent, PermissionIsBacked, Stopping, Ending, Starting,
         Kinds, Join, AfterStop, Op
<1>6. /\ Backed' /\ LatchMirrorsRow' /\ AuthorityIsCurrent' /\ PermissionIsBacked'
      /\ StoppedIsQuiet'
  BY DEF Backed, LatchMirrorsRow, AuthorityIsCurrent, PermissionIsBacked,
         StoppedIsQuiet, Join, AfterStop
<1>7. Current'
  BY DEF Behind, Gone, Phased, Held, Backed, Current, LatchMirrorsRow,
         AuthorityIsCurrent, PermissionIsBacked, Stopping, Ending, Starting,
         Kinds, Join, AfterStop, Op
<1> QED
  BY <1>1, <1>2, <1>3, <1>4, <1>5, <1>6, <1>7

\* The count of writers is taken with the seal.
LEMMA ControlProofKeeps ==
  ASSUME ControlInv, ControlProof
  PROVE  ControlInv'
<1> USE FenceFields, Nothing DEF ControlInv, TypeOK, durable, admission
<1>1. TypeOK'
  BY DEF ControlProof, Seal, Row, RowStates, Fence, Fences, Op, Kinds, Steps
<1>2. Behind'
  BY DEF Behind, Phased, Held, ControlProof, Seal, Row, Fence, Fences, Op
<1>3. Gone'
  BY DEF Gone, ControlProof, Seal, Row, Fence, Fences, Op, NoAct, Idle
<1>4. Phased'
  BY DEF Current, Gone, Phased, Stopping, Ending, Starting, Kinds,
         ControlProof, Seal, Row, Fence, Fences, Op
<1>5. Held'
  BY DEF Current, Behind, Gone, Phased, Held, Backed, LatchMirrorsRow,
         AuthorityIsCurrent, PermissionIsBacked, Stopping, Ending, Starting,
         Kinds, ControlProof, Seal, Row, Fence, Fences, Op
<1>6. LatchMirrorsRow'
  BY DEF Current, Behind, Held, LatchMirrorsRow, ControlProof, Seal, Row,
         Fence, Fences, Op
<1>7. AuthorityIsCurrent'
  BY DEF Current, Behind, Gone, Phased, Held, AuthorityIsCurrent, Stopping,
         Ending, Starting, Kinds, ControlProof, Seal, Row, Fence, Fences, Op
<1>8. PermissionIsBacked'
  BY DEF Current, Behind, Gone, Phased, Held, AuthorityIsCurrent,
         PermissionIsBacked, Stopping, Ending, Starting, Kinds, ControlProof,
         Seal, Row, Fence, Fences, Op
<1>9. StoppedIsQuiet'
  BY DEF Current, Gone, Phased, Held, LatchMirrorsRow, AuthorityIsCurrent,
         StoppedIsQuiet, Stopping, Ending, Starting, Kinds, ControlProof, Seal,
         Row, Fence, Fences, Op
<1>10. /\ Backed'
  BY DEF Backed, ControlProof, Seal
<1>11. Current'
  BY DEF Behind, Gone, Phased, Held, Backed, Current, LatchMirrorsRow,
         AuthorityIsCurrent, PermissionIsBacked, Stopping, Ending, Starting,
         Kinds, ControlProof, Seal, Row, Fence, Fences, Op
<1> QED
  BY <1>1, <1>2, <1>3, <1>4, <1>5, <1>6, <1>7, <1>8, <1>9, <1>10, <1>11

\* The proved ticket stops: no writer, nothing running, a sealed row.
LEMMA CompleteControlTransitionKeeps ==
  ASSUME ControlInv, CompleteControlTransition
  PROVE  ControlInv'
<1> USE FenceFields, Nothing DEF ControlInv, TypeOK, durable, admission
<1>1. TypeOK'
  BY DEF CompleteControlTransition, Fence, Fences, Op, Kinds, Steps
<1>2. Behind'
  BY DEF Behind, Phased, Held, CompleteControlTransition, Fence, Fences, Op
<1>3. Gone'
  BY DEF Gone, CompleteControlTransition, Fence, Fences, Op, NoAct, Idle
<1>4. Phased'
  BY DEF Current, Gone, Phased, Stopping, Ending, Starting, Kinds,
         CompleteControlTransition, Fence, Fences, Op
<1>5. Held'
  BY DEF Current, Behind, Gone, Phased, Held, Backed, LatchMirrorsRow,
         AuthorityIsCurrent, PermissionIsBacked, Stopping, Ending, Starting,
         Kinds, CompleteControlTransition, Fence, Fences, Op
<1>6. Backed'
  BY DEF Behind, Gone, Held, Backed, PermissionIsBacked,
         CompleteControlTransition, Fence, Fences, Op
<1>7. AuthorityIsCurrent'
  BY DEF Current, Behind, Gone, Phased, Held, AuthorityIsCurrent, Stopping,
         Ending, Starting, Kinds, CompleteControlTransition, Fence, Fences, Op
<1>8. PermissionIsBacked'
  BY DEF Current, Behind, Gone, Phased, Held, AuthorityIsCurrent,
         PermissionIsBacked, Stopping, Ending, Starting, Kinds,
         CompleteControlTransition, Fence, Fences, Op
<1>9. StoppedIsQuiet'
  BY DEF Current, Gone, Phased, Held, LatchMirrorsRow, AuthorityIsCurrent,
         StoppedIsQuiet, Stopping, Ending, Starting, Kinds,
         CompleteControlTransition, Fence, Fences, Op
<1>10. /\ LatchMirrorsRow'
  BY DEF LatchMirrorsRow, CompleteControlTransition
<1>11. Current'
  BY DEF Behind, Gone, Phased, Held, Backed, Current, LatchMirrorsRow,
         AuthorityIsCurrent, PermissionIsBacked, Stopping, Ending, Starting,
         Kinds, CompleteControlTransition, Fence, Fences, Op
<1> QED
  BY <1>1, <1>2, <1>3, <1>4, <1>5, <1>6, <1>7, <1>8, <1>9, <1>10, <1>11

\* A cancelled ticket is sealed again.
LEMMA TerminalControlProofKeeps ==
  ASSUME ControlInv, TerminalControlProof
  PROVE  ControlInv'
<1> USE FenceFields, Nothing DEF ControlInv, TypeOK, durable, admission
<1>1. TypeOK'
  BY DEF TerminalControlProof, Seal, Row, RowStates, Fence, Fences, Op, Kinds,
         Steps
<1>2. Behind'
  BY DEF Behind, Phased, Held, TerminalControlProof, Seal, Row, Fence, Fences,
         Op
<1>3. Gone'
  BY DEF Gone, TerminalControlProof, Seal, Row, Fence, Fences, Op, NoAct, Idle
<1>4. Phased'
  BY DEF Current, Gone, Phased, Stopping, Ending, Starting, Kinds,
         TerminalControlProof, Seal, Row, Fence, Fences, Op
<1>5. Held'
  BY DEF Current, Behind, Gone, Phased, Held, Backed, LatchMirrorsRow,
         AuthorityIsCurrent, PermissionIsBacked, Stopping, Ending, Starting,
         Kinds, TerminalControlProof, Seal, Row, Fence, Fences, Op
<1>6. LatchMirrorsRow'
  BY DEF Current, Behind, Held, LatchMirrorsRow, TerminalControlProof, Seal,
         Row, Fence, Fences, Op
<1>7. AuthorityIsCurrent'
  BY DEF Current, Behind, Gone, Phased, Held, AuthorityIsCurrent, Stopping,
         Ending, Starting, Kinds, TerminalControlProof, Seal, Row, Fence,
         Fences, Op
<1>8. PermissionIsBacked'
  BY DEF Current, Behind, Gone, Phased, Held, AuthorityIsCurrent,
         PermissionIsBacked, Stopping, Ending, Starting, Kinds,
         TerminalControlProof, Seal, Row, Fence, Fences, Op
<1>9. StoppedIsQuiet'
  BY DEF Current, Gone, Phased, Held, LatchMirrorsRow, AuthorityIsCurrent,
         StoppedIsQuiet, Stopping, Ending, Starting, Kinds,
         TerminalControlProof, Seal, Row, Fence, Fences, Op
<1>10. /\ Backed'
  BY DEF Backed, TerminalControlProof, Seal
<1>11. Current'
  BY DEF Behind, Gone, Phased, Held, Backed, Current, LatchMirrorsRow,
         AuthorityIsCurrent, PermissionIsBacked, Stopping, Ending, Starting,
         Kinds, TerminalControlProof, Seal, Row, Fence, Fences, Op
<1> QED
  BY <1>1, <1>2, <1>3, <1>4, <1>5, <1>6, <1>7, <1>8, <1>9, <1>10, <1>11

\* The runtime forgets a ticket that has nothing registered.
LEMMA RetireKeeps ==
  ASSUME ControlInv, Retire
  PROVE  ControlInv'
<1> USE FenceFields, Nothing DEF ControlInv, TypeOK, durable, admission
<1>1. TypeOK'
  BY DEF Retire, Op, Kinds, Steps
<1>2. Behind'
  BY DEF Behind, Phased, Held, Retire, Op
<1>3. Gone'
  BY DEF Gone, Retire, Op, NoAct, Idle
<1>4. Phased'
  BY DEF Current, Gone, Phased, Stopping, Ending, Starting, Kinds, Retire, Op
<1>5. Held'
  BY DEF Current, Behind, Gone, Phased, Held, Backed, LatchMirrorsRow,
         AuthorityIsCurrent, PermissionIsBacked, Stopping, Ending, Starting,
         Kinds, Retire, Op
<1>6. Backed'
  BY DEF Behind, Gone, Held, Backed, PermissionIsBacked, Retire, Op
<1>7. PermissionIsBacked'
  BY DEF Current, Behind, Gone, Phased, Held, AuthorityIsCurrent,
         PermissionIsBacked, Stopping, Ending, Starting, Kinds, Retire, Op
<1>8. /\ LatchMirrorsRow' /\ AuthorityIsCurrent' /\ StoppedIsQuiet'
  BY DEF LatchMirrorsRow, AuthorityIsCurrent, StoppedIsQuiet, Retire
<1>9. Current'
  BY DEF Behind, Gone, Phased, Held, Backed, Current, LatchMirrorsRow,
         AuthorityIsCurrent, PermissionIsBacked, Stopping, Ending, Starting,
         Kinds, Retire, Op
<1> QED
  BY <1>1, <1>2, <1>3, <1>4, <1>5, <1>6, <1>7, <1>8, <1>9

\* Row and latch are deleted together.
LEMMA RetireRuntimeControlKeeps ==
  ASSUME ControlInv, RetireRuntimeControl
  PROVE  ControlInv'
<1> USE FenceFields, Nothing DEF ControlInv, TypeOK, durable, admission
<1>1. TypeOK'
  BY DEF RetireRuntimeControl, Row, RowStates, Fence, Fences, Op, Kinds, Steps
<1>2. Behind'
  BY DEF Behind, Phased, Held, RetireRuntimeControl, Row, Fence, Fences, Op
<1>3. Gone'
  BY DEF Gone, RetireRuntimeControl, Row, Fence, Fences, Op, NoAct, Idle
<1>4. Phased'
  BY DEF Current, Gone, Phased, Stopping, Ending, Starting, Kinds,
         RetireRuntimeControl, Row, Fence, Fences, Op
<1>5. Held'
  BY DEF Current, Behind, Gone, Phased, Held, Backed, LatchMirrorsRow,
         AuthorityIsCurrent, PermissionIsBacked, Stopping, Ending, Starting,
         Kinds, RetireRuntimeControl, Row, Fence, Fences, Op
<1>6. LatchMirrorsRow'
  BY DEF Current, Behind, Held, LatchMirrorsRow, RetireRuntimeControl, Row,
         Fence, Fences, Op
<1>7. AuthorityIsCurrent'
  BY DEF Current, Behind, Gone, Phased, Held, AuthorityIsCurrent, Stopping,
         Ending, Starting, Kinds, RetireRuntimeControl, Row, Fence, Fences, Op
<1>8. PermissionIsBacked'
  BY DEF Current, Behind, Gone, Phased, Held, AuthorityIsCurrent,
         PermissionIsBacked, Stopping, Ending, Starting, Kinds,
         RetireRuntimeControl, Row, Fence, Fences, Op
<1>9. StoppedIsQuiet'
  BY DEF Current, Gone, Phased, Held, LatchMirrorsRow, AuthorityIsCurrent,
         StoppedIsQuiet, Stopping, Ending, Starting, Kinds,
         RetireRuntimeControl, Row, Fence, Fences, Op
<1>10. /\ Backed'
  BY DEF Backed, RetireRuntimeControl
<1>11. Current'
  BY DEF Behind, Gone, Phased, Held, Backed, Current, LatchMirrorsRow,
         AuthorityIsCurrent, PermissionIsBacked, Stopping, Ending, Starting,
         Kinds, RetireRuntimeControl, Row, Fence, Fences, Op
<1> QED
  BY <1>1, <1>2, <1>3, <1>4, <1>5, <1>6, <1>7, <1>8, <1>9, <1>10, <1>11

\* A drained ticket becomes active under the row that stopped it.
LEMMA RecoverTicketKeeps ==
  ASSUME ControlInv, RecoverTicket
  PROVE  ControlInv'
<1> USE FenceFields, Nothing DEF ControlInv, TypeOK, durable, admission
<1>1. /\ op.kind = "recover" /\ op.at = "complete"
      /\ row = Row("sealed", fence, fence) /\ phase' = "active"
      /\ op' = Op("resume", "load", None, None)
      /\ UNCHANGED <<up, row, writer, latch, admission, memo, snap>>
  BY DEF RecoverTicket
<1>2. /\ fence' \in Fences /\ fence'.v = fence.v + 1
      /\ fence'.l = fence.l /\ fence'.r = fence.r
  BY DEF RecoverTicket, NextVersion, Fence, Fences
<1>3. row.st = "sealed" /\ act.at # "running" /\ writer = None
  BY <1>1 DEF Held
<1>4. /\ op' \in [kind : Kinds, at : Steps, cap : Fences, stop : Fences]
      /\ op'.kind = "resume" /\ op'.at = "load" /\ op'.cap = None
  BY <1>1 DEF Op, Kinds, Steps
<1>5. TypeOK'
  BY <1>1, <1>2, <1>4
<1>6. Behind'
  BY <1>1, <1>2, <1>4 DEF Behind
<1>7. Gone' /\ LatchMirrorsRow' /\ StoppedIsQuiet'
  BY <1>1, <1>3 DEF Gone, LatchMirrorsRow, StoppedIsQuiet
<1>8. Phased'
  BY <1>1, <1>4 DEF Phased, Starting
<1>9. Held'
  BY <1>4 DEF Held
<1>10. allowed # fence' /\ act.id # fence'
  BY <1>2 DEF Behind
<1>11. AuthorityIsCurrent' /\ PermissionIsBacked' /\ Current' /\ Backed'
  BY <1>1, <1>3, <1>10 DEF AuthorityIsCurrent, PermissionIsBacked, Current, Backed
<1> QED
  BY <1>5, <1>6, <1>7, <1>8, <1>9, <1>11

\* A paused ticket becomes active; a row that is sealed stays so.
LEMMA RequestResumeKeeps ==
  ASSUME ControlInv, RequestResume
  PROVE  ControlInv'
<1> USE FenceFields, Nothing DEF ControlInv, TypeOK, durable, admission
<1>1. TypeOK'
  BY DEF RequestResume, NextVersion, Fence, Fences, Op, Kinds, Steps
<1>2. Behind'
  BY DEF Behind, Phased, Held, RequestResume, NextVersion, Fence, Fences, Op
<1>3. Gone'
  BY DEF Gone, RequestResume, NextVersion, Fence, Fences, Op, NoAct, Idle
<1>4. Phased'
  BY DEF Current, Gone, Phased, Stopping, Ending, Starting, Kinds,
         RequestResume, NextVersion, Fence, Fences, Op
<1>5. Held'
  BY DEF Current, Behind, Gone, Phased, Held, Backed, LatchMirrorsRow,
         AuthorityIsCurrent, PermissionIsBacked, Stopping, Ending, Starting,
         Kinds, RequestResume, NextVersion, Fence, Fences, Op
<1>6. Backed'
  BY DEF Behind, Gone, Held, Backed, PermissionIsBacked, RequestResume,
         NextVersion, Fence, Fences, Op
<1>7. AuthorityIsCurrent'
  BY DEF Current, Behind, Gone, Phased, Held, AuthorityIsCurrent, Stopping,
         Ending, Starting, Kinds, RequestResume, NextVersion, Fence, Fences,
         Op
<1>8. PermissionIsBacked'
  BY DEF Current, Behind, Gone, Phased, Held, AuthorityIsCurrent,
         PermissionIsBacked, Stopping, Ending, Starting, Kinds, RequestResume,
         NextVersion, Fence, Fences, Op
<1>9. StoppedIsQuiet'
  BY DEF Current, Gone, Phased, Held, LatchMirrorsRow, AuthorityIsCurrent,
         StoppedIsQuiet, Stopping, Ending, Starting, Kinds, RequestResume,
         NextVersion, Fence, Fences, Op
<1>10. /\ LatchMirrorsRow'
  BY DEF LatchMirrorsRow, RequestResume, NextVersion
<1>11. Current'
  BY DEF Behind, Gone, Phased, Held, Backed, Current, LatchMirrorsRow,
         AuthorityIsCurrent, PermissionIsBacked, Stopping, Ending, Starting,
         Kinds, RequestResume, NextVersion, Fence, Fences, Op
<1> QED
  BY <1>1, <1>2, <1>3, <1>4, <1>5, <1>6, <1>7, <1>8, <1>9, <1>10, <1>11

\* A decision is for the current identity.
LEMMA RequestDecisionKeeps ==
  ASSUME ControlInv, RequestDecision
  PROVE  ControlInv'
<1> USE FenceFields, Nothing DEF ControlInv, TypeOK, durable, admission
<1>1. TypeOK'
  BY DEF RequestDecision, Op, Kinds, Steps
<1>2. Behind'
  BY DEF Behind, Phased, Held, RequestDecision, Op
<1>3. Gone'
  BY DEF Gone, RequestDecision, Op, NoAct, Idle
<1>4. Phased'
  BY DEF Current, Gone, Phased, Stopping, Ending, Starting, Kinds,
         RequestDecision, Op
<1>5. Held'
  BY DEF Current, Behind, Gone, Phased, Held, Backed, LatchMirrorsRow,
         AuthorityIsCurrent, PermissionIsBacked, Stopping, Ending, Starting,
         Kinds, RequestDecision, Op
<1>6. /\ Backed' /\ LatchMirrorsRow' /\ AuthorityIsCurrent' /\ PermissionIsBacked'
      /\ StoppedIsQuiet'
  BY DEF Backed, LatchMirrorsRow, AuthorityIsCurrent, PermissionIsBacked,
         StoppedIsQuiet, RequestDecision
<1>7. Current'
  BY DEF Behind, Gone, Phased, Held, Backed, Current, LatchMirrorsRow,
         AuthorityIsCurrent, PermissionIsBacked, Stopping, Ending, Starting,
         Kinds, RequestDecision, Op
<1> QED
  BY <1>1, <1>2, <1>3, <1>4, <1>5, <1>6, <1>7

\* A restored stop is that of a sealed row.
LEMMA LoadStopKeeps ==
  ASSUME ControlInv, LoadStop
  PROVE  ControlInv'
<1> USE FenceFields, Nothing DEF ControlInv, TypeOK, durable, admission
<1>1. TypeOK'
  BY DEF LoadStop, Op, Kinds, Steps
<1>2. Behind'
  BY DEF Behind, Phased, Held, LoadStop, Op
<1>3. Gone'
  BY DEF Gone, LoadStop, Op, NoAct, Idle
<1>4. Phased'
  BY DEF Current, Gone, Phased, Stopping, Ending, Starting, Kinds, LoadStop, Op
<1>5. Held'
  BY DEF Current, Behind, Gone, Phased, Held, Backed, LatchMirrorsRow,
         AuthorityIsCurrent, PermissionIsBacked, Stopping, Ending, Starting,
         Kinds, LoadStop, Op
<1>6. /\ Backed' /\ LatchMirrorsRow' /\ AuthorityIsCurrent' /\ PermissionIsBacked'
      /\ StoppedIsQuiet'
  BY DEF Backed, LatchMirrorsRow, AuthorityIsCurrent, PermissionIsBacked,
         StoppedIsQuiet, LoadStop
<1>7. Current'
  BY DEF Behind, Gone, Phased, Held, Backed, Current, LatchMirrorsRow,
         AuthorityIsCurrent, PermissionIsBacked, Stopping, Ending, Starting,
         Kinds, LoadStop, Op
<1> QED
  BY <1>1, <1>2, <1>3, <1>4, <1>5, <1>6, <1>7

\* The proved identity is a successor of the stop, in version as well.
LEMMA RearmProofKeeps ==
  ASSUME ControlInv, RearmProof
  PROVE  ControlInv'
<1> USE FenceFields, Nothing DEF ControlInv, TypeOK, durable, admission
<1>1. TypeOK'
  BY DEF RearmProof, CanRearm, Op, Kinds, Steps
<1>2. Behind'
  BY DEF Behind, Phased, Held, RearmProof, CanRearm, Op
<1>3. Gone'
  BY DEF Gone, RearmProof, CanRearm, Op, NoAct, Idle
<1>4. Phased'
  BY DEF Current, Gone, Phased, Stopping, Ending, Starting, Kinds, RearmProof,
         CanRearm, Op
<1>5. Held'
  BY DEF Current, Behind, Gone, Phased, Held, Backed, LatchMirrorsRow,
         AuthorityIsCurrent, PermissionIsBacked, Stopping, Ending, Starting,
         Kinds, RearmProof, CanRearm, Op
<1>6. LatchMirrorsRow'
  BY DEF Current, Behind, Held, LatchMirrorsRow, RearmProof, CanRearm, Op
<1>7. /\ Backed' /\ AuthorityIsCurrent' /\ PermissionIsBacked' /\ StoppedIsQuiet'
  BY DEF Backed, AuthorityIsCurrent, PermissionIsBacked, StoppedIsQuiet,
         RearmProof, CanRearm
<1>8. Current'
  BY DEF Behind, Gone, Phased, Held, Backed, Current, LatchMirrorsRow,
         AuthorityIsCurrent, PermissionIsBacked, Stopping, Ending, Starting,
         Kinds, RearmProof, CanRearm, Op
<1> QED
  BY <1>1, <1>2, <1>3, <1>4, <1>5, <1>6, <1>7, <1>8

\* The row is armed for the identity that was proved and is still current.
LEMMA ActivateRearmKeeps ==
  ASSUME ControlInv, ActivateRearm
  PROVE  ControlInv'
<1> USE FenceFields, Nothing DEF ControlInv, TypeOK, durable, admission
<1>1. TypeOK'
  BY DEF ActivateRearm, Row, RowStates, Fence, Fences, Op, Kinds, Steps
<1>2. Behind'
  BY DEF Behind, Phased, Held, ActivateRearm, Row, Fence, Fences, Op
<1>3. Gone'
  BY DEF Gone, ActivateRearm, Row, Fence, Fences, Op, NoAct, Idle
<1>4. Phased'
  BY DEF Current, Gone, Phased, Stopping, Ending, Starting, Kinds,
         ActivateRearm, Row, Fence, Fences, Op
<1>5. Held'
  BY DEF Current, Behind, Gone, Phased, Held, Backed, LatchMirrorsRow,
         AuthorityIsCurrent, PermissionIsBacked, Stopping, Ending, Starting,
         Kinds, ActivateRearm, Row, Fence, Fences, Op
<1>6. LatchMirrorsRow'
  BY DEF Current, Behind, Held, LatchMirrorsRow, ActivateRearm, Row, Fence,
         Fences, Op
<1>7. AuthorityIsCurrent'
  BY DEF Current, Behind, Gone, Phased, Held, AuthorityIsCurrent, Stopping,
         Ending, Starting, Kinds, ActivateRearm, Row, Fence, Fences, Op
<1>8. PermissionIsBacked'
  BY DEF Current, Behind, Gone, Phased, Held, AuthorityIsCurrent,
         PermissionIsBacked, Stopping, Ending, Starting, Kinds, ActivateRearm,
         Row, Fence, Fences, Op
<1>9. StoppedIsQuiet'
  BY DEF Current, Gone, Phased, Held, LatchMirrorsRow, AuthorityIsCurrent,
         StoppedIsQuiet, Stopping, Ending, Starting, Kinds, ActivateRearm, Row,
         Fence, Fences, Op
<1>10. /\ Backed'
  BY DEF Backed, ActivateRearm
<1>11. Current'
  BY DEF Behind, Gone, Phased, Held, Backed, Current, LatchMirrorsRow,
         AuthorityIsCurrent, PermissionIsBacked, Stopping, Ending, Starting,
         Kinds, ActivateRearm, Row, Fence, Fences, Op
<1> QED
  BY <1>1, <1>2, <1>3, <1>4, <1>5, <1>6, <1>7, <1>8, <1>9, <1>10, <1>11

\* The permission is that of the armed row; a refused one seals it again.
LEMMA InstallKeeps ==
  ASSUME ControlInv, Install
  PROVE  ControlInv'
<1> USE FenceFields, Nothing DEF ControlInv, TypeOK, durable, admission
<1>1. TypeOK'
  <2>1. op' \in [kind : Kinds, at : Steps, cap : Fences, stop : Fences]
    BY DEF Install, Op, Kinds, Steps
  <2>2. row' \in [st : RowStates, stop : Fences, auth : Fences] /\ latch' \in Fences
    BY DEF Install, SealAdmission, Row, RowStates
  <2>3. opened' \in BOOLEAN /\ allowed' \in Fences
    BY Zenon DEF Install
  <2> QED
    BY <2>1, <2>2, <2>3 DEF Install
<1>2. Behind'
  BY DEF Behind, Phased, Held, Install, CanInstall, CanSealAdmission,
         SealAdmission, SealedSuccessor, Row, Fence, Fences, Op
<1>3. Gone'
  BY DEF Gone, Install, CanInstall, CanSealAdmission, SealAdmission,
         SealedSuccessor, Row, Fence, Fences, Op, NoAct, Idle
<1>4. Phased'
  BY DEF Current, Gone, Phased, Stopping, Ending, Starting, Kinds, Install,
         CanInstall, CanSealAdmission, SealAdmission, SealedSuccessor, Row,
         Fence, Fences, Op
<1>5. Held'
  BY DEF Current, Behind, Gone, Phased, Held, Backed, LatchMirrorsRow,
         AuthorityIsCurrent, PermissionIsBacked, Stopping, Ending, Starting,
         Kinds, Install, CanInstall, CanSealAdmission, SealAdmission,
         SealedSuccessor, Row, Fence, Fences, Op
<1>6. Backed'
  BY DEF Behind, Gone, Held, Backed, PermissionIsBacked, Install, CanInstall,
         CanSealAdmission, SealAdmission, SealedSuccessor, Row, Fence, Fences,
         Op
<1>7. LatchMirrorsRow'
  BY DEF Current, Behind, Held, LatchMirrorsRow, Install, CanInstall,
         CanSealAdmission, SealAdmission, SealedSuccessor, Row, Fence, Fences,
         Op
<1>8. AuthorityIsCurrent'
  BY DEF Current, Behind, Gone, Phased, Held, AuthorityIsCurrent, Stopping,
         Ending, Starting, Kinds, Install, CanInstall, CanSealAdmission,
         SealAdmission, SealedSuccessor, Row, Fence, Fences, Op
<1>9. PermissionIsBacked'
  BY DEF Current, Behind, Gone, Phased, Held, AuthorityIsCurrent,
         PermissionIsBacked, Stopping, Ending, Starting, Kinds, Install,
         CanInstall, CanSealAdmission, SealAdmission, SealedSuccessor, Row,
         Fence, Fences, Op
<1>10. StoppedIsQuiet'
  BY DEF Current, Gone, Phased, Held, LatchMirrorsRow, AuthorityIsCurrent,
         StoppedIsQuiet, Stopping, Ending, Starting, Kinds, Install,
         CanInstall, CanSealAdmission, SealAdmission, SealedSuccessor, Row,
         Fence, Fences, Op
<1>11. Current'
  BY DEF Behind, Gone, Phased, Held, Backed, Current, LatchMirrorsRow,
         AuthorityIsCurrent, PermissionIsBacked, Stopping, Ending, Starting,
         Kinds, Install, CanInstall, CanSealAdmission, SealAdmission,
         SealedSuccessor, Row, Fence, Fences, Op
<1> QED
  BY <1>1, <1>2, <1>3, <1>4, <1>5, <1>6, <1>7, <1>8, <1>9, <1>10, <1>11

\* A reservation keeps the identity.
LEMMA ReserveKeeps ==
  ASSUME ControlInv, Reserve
  PROVE  ControlInv'
<1> USE FenceFields, Nothing DEF ControlInv, TypeOK, durable, admission
<1>1. TypeOK'
  BY DEF Reserve, Op, Kinds, Steps
<1>2. Behind'
  BY DEF Behind, Phased, Held, Reserve, Op
<1>3. Gone'
  BY DEF Gone, Reserve, Op, NoAct, Idle
<1>4. Phased'
  BY DEF Current, Gone, Phased, Stopping, Ending, Starting, Kinds, Reserve, Op
<1>5. Held'
  BY DEF Current, Behind, Gone, Phased, Held, Backed, LatchMirrorsRow,
         AuthorityIsCurrent, PermissionIsBacked, Stopping, Ending, Starting,
         Kinds, Reserve, Op
<1>6. /\ Backed' /\ LatchMirrorsRow' /\ AuthorityIsCurrent' /\ PermissionIsBacked'
      /\ StoppedIsQuiet'
  BY DEF Backed, LatchMirrorsRow, AuthorityIsCurrent, PermissionIsBacked,
         StoppedIsQuiet, Reserve
<1>7. Current'
  BY DEF Behind, Gone, Phased, Held, Backed, Current, LatchMirrorsRow,
         AuthorityIsCurrent, PermissionIsBacked, Stopping, Ending, Starting,
         Kinds, Reserve, Op
<1> QED
  BY <1>1, <1>2, <1>3, <1>4, <1>5, <1>6, <1>7

\* A decision registers like a loop, under the identity it reserved.
LEMMA BeginDecisionKeeps ==
  ASSUME ControlInv, BeginDecision
  PROVE  ControlInv'
<1> USE FenceFields, Nothing DEF ControlInv, TypeOK, durable, admission
<1>1. TypeOK'
  <2>0. \/ /\ act' = Act(EntryStage, op.cap, "decision", FALSE, FALSE)
           /\ op' = Op(op.kind, "deciding", None, None)
        \/ act' = act /\ op' = Idle
    BY Zenon DEF BeginDecision
  <2>1. op' \in [kind : Kinds, at : Steps, cap : Fences, stop : Fences]
    <3>1. op.kind \in Kinds /\ "deciding" \in Steps /\ None \in Fences
      BY DEF Steps
    <3>2. /\ Idle \in [kind : Kinds, at : Steps, cap : Fences, stop : Fences]
          /\ Op(op.kind, "deciding", None, None)
               \in [kind : Kinds, at : Steps, cap : Fences, stop : Fences]
      BY <3>1, OpIs, Zenon
    <3> QED
      BY <2>0, <3>2, Zenon
  <2>2. /\ op.cap \in Fences /\ EntryStage \in ActStages
        /\ "decision" \in {"loop", "decision"} /\ FALSE \in BOOLEAN
    BY DEF EntryStage, ActStages
  <2>3. act' \in [at : ActStages, id : Fences, by : {"loop", "decision"},
                  sealer : BOOLEAN, cancelled : BOOLEAN]
    <3>1. Act(EntryStage, op.cap, "decision", FALSE, FALSE)
            \in [at : ActStages, id : Fences, by : {"loop", "decision"},
                 sealer : BOOLEAN, cancelled : BOOLEAN]
      BY <2>2, ActIs, Zenon
    <3> QED
      BY <2>0, <3>1, Zenon
  <2>4. reserved' \in BOOLEAN
    BY Zenon DEF BeginDecision
  <2> QED
    BY <2>1, <2>3, <2>4 DEF BeginDecision
<1>2. Behind'
  BY DEF Behind, Phased, Held, BeginDecision, CanBegin, EntryStage, Act, Op
<1>3. Gone'
  BY DEF Gone, BeginDecision, CanBegin, EntryStage, Act, Op, NoAct, Idle
<1>4. Phased'
  BY DEF Current, Gone, Phased, Stopping, Ending, Starting, Kinds,
         BeginDecision, CanBegin, EntryStage, Act, Op
<1>5. Held'
  BY DEF Current, Behind, Gone, Phased, Held, Backed, LatchMirrorsRow,
         AuthorityIsCurrent, PermissionIsBacked, Stopping, Ending, Starting,
         Kinds, BeginDecision, CanBegin, EntryStage, Act, Op
<1>6. Backed'
  BY DEF Behind, Gone, Held, Backed, PermissionIsBacked, BeginDecision,
         CanBegin, EntryStage, Act, Op
<1>7. StoppedIsQuiet'
  BY DEF Current, Gone, Phased, Held, LatchMirrorsRow, AuthorityIsCurrent,
         StoppedIsQuiet, Stopping, Ending, Starting, Kinds, BeginDecision,
         CanBegin, EntryStage, Act, Op
<1>8. /\ LatchMirrorsRow' /\ AuthorityIsCurrent' /\ PermissionIsBacked'
  BY DEF LatchMirrorsRow, AuthorityIsCurrent, PermissionIsBacked,
         BeginDecision, CanBegin, EntryStage
<1>9. Current'
  BY DEF Behind, Gone, Phased, Held, Backed, Current, LatchMirrorsRow,
         AuthorityIsCurrent, PermissionIsBacked, Stopping, Ending, Starting,
         Kinds, BeginDecision, CanBegin, EntryStage, Act, Op
<1> QED
  BY <1>1, <1>2, <1>3, <1>4, <1>5, <1>6, <1>7, <1>8, <1>9

\* A request that goes away leaves no obligation.
LEMMA AbortKeeps ==
  ASSUME ControlInv, Abort
  PROVE  ControlInv'
<1> USE FenceFields, Nothing DEF ControlInv, TypeOK, durable, admission
<1>1. TypeOK'
  BY ZenonT(60), SMTT(30) DEF Abort, Op, Kinds, Steps
<1>2. Behind'
  BY DEF Behind, Phased, Held, Abort, Op
<1>3. Gone'
  BY DEF Gone, Abort, Op, NoAct, Idle
<1>4. Phased'
  BY DEF Current, Gone, Phased, Stopping, Ending, Starting, Kinds, Abort, Op
<1>5. Held'
  BY DEF Current, Behind, Gone, Phased, Held, Backed, LatchMirrorsRow,
         AuthorityIsCurrent, PermissionIsBacked, Stopping, Ending, Starting,
         Kinds, Abort, Op
<1>6. /\ Backed' /\ LatchMirrorsRow' /\ AuthorityIsCurrent' /\ PermissionIsBacked'
      /\ StoppedIsQuiet'
  BY DEF Backed, LatchMirrorsRow, AuthorityIsCurrent, PermissionIsBacked,
         StoppedIsQuiet, Abort
<1>7. Current'
  BY DEF Behind, Gone, Phased, Held, Backed, Current, LatchMirrorsRow,
         AuthorityIsCurrent, PermissionIsBacked, Stopping, Ending, Starting,
         Kinds, Abort, Op
<1> QED
  BY <1>1, <1>2, <1>3, <1>4, <1>5, <1>6, <1>7

\* A crash empties the memory; the rows stay.
LEMMA CrashKeeps ==
  ASSUME ControlInv, Crash
  PROVE  ControlInv'
<1> USE FenceFields, Nothing DEF ControlInv, TypeOK, durable, admission
<1>1. TypeOK'
  BY DEF Crash, Act, ActStages, Op, Kinds, Steps
<1>2. Behind'
  BY DEF Behind, Phased, Held, Crash, Act, Op
<1>3. Gone'
  BY DEF Gone, Crash, Act, Op
<1>4. Phased'
  BY DEF Current, Gone, Phased, Stopping, Ending, Starting, Kinds, Crash, Act,
         Op
<1>5. Held'
  BY DEF Current, Behind, Gone, Phased, Held, Backed, LatchMirrorsRow,
         AuthorityIsCurrent, PermissionIsBacked, Stopping, Ending, Starting,
         Kinds, Crash, Act, Op
<1>6. Backed'
  BY DEF Behind, Gone, Held, Backed, PermissionIsBacked, Crash, Act, Op
<1>7. LatchMirrorsRow'
  BY DEF Current, Behind, Held, LatchMirrorsRow, Crash, Act, Op
<1>8. AuthorityIsCurrent'
  BY DEF Current, Behind, Gone, Phased, Held, AuthorityIsCurrent, Stopping,
         Ending, Starting, Kinds, Crash, Act, Op
<1>9. PermissionIsBacked'
  BY DEF Current, Behind, Gone, Phased, Held, AuthorityIsCurrent,
         PermissionIsBacked, Stopping, Ending, Starting, Kinds, Crash, Act, Op
<1>10. StoppedIsQuiet'
  BY DEF Current, Gone, Phased, Held, LatchMirrorsRow, AuthorityIsCurrent,
         StoppedIsQuiet, Stopping, Ending, Starting, Kinds, Crash, Act, Op
<1>11. Current'
  BY DEF Behind, Gone, Phased, Held, Backed, Current, LatchMirrorsRow,
         AuthorityIsCurrent, PermissionIsBacked, Stopping, Ending, Starting,
         Kinds, Crash, Act, Op
<1> QED
  BY <1>1, <1>2, <1>3, <1>4, <1>5, <1>6, <1>7, <1>8, <1>9, <1>10, <1>11

\* A new daemon finds every row sealed and takes a new epoch.
LEMMA StartKeeps ==
  ASSUME ControlInv, Start
  PROVE  ControlInv'
<1> USE FenceFields, Nothing DEF ControlInv, TypeOK, durable, admission
<1>1. TypeOK'
  BY DEF Start, Restored, Row, RowStates, Fence, Fences
<1>2. Behind'
  BY DEF Behind, Phased, Held, Start, Restored, Row, Fence, Fences
<1>3. Gone'
  BY DEF Gone, Start, Restored, Row, Fence, Fences, NoAct, Idle
<1>4. Held'
  BY DEF Current, Behind, Gone, Phased, Held, Backed, LatchMirrorsRow,
         AuthorityIsCurrent, PermissionIsBacked, Stopping, Ending, Starting,
         Kinds, Start, Restored, Row, Fence, Fences
<1>5. Backed'
  BY DEF Behind, Gone, Held, Backed, PermissionIsBacked, Start, Restored, Row,
         Fence, Fences
<1>6. LatchMirrorsRow'
  BY DEF Current, Behind, Held, LatchMirrorsRow, Start, Restored, Row, Fence,
         Fences
<1>7. AuthorityIsCurrent'
  BY DEF Current, Behind, Gone, Phased, Held, AuthorityIsCurrent, Stopping,
         Ending, Starting, Kinds, Start, Restored, Row, Fence, Fences
<1>8. PermissionIsBacked'
  BY DEF Current, Behind, Gone, Phased, Held, AuthorityIsCurrent,
         PermissionIsBacked, Stopping, Ending, Starting, Kinds, Start,
         Restored, Row, Fence, Fences
<1>9. StoppedIsQuiet'
  BY DEF Current, Gone, Phased, Held, LatchMirrorsRow, AuthorityIsCurrent,
         StoppedIsQuiet, Stopping, Ending, Starting, Kinds, Start, Restored,
         Row, Fence, Fences
<1>10. /\ Phased'
  BY DEF Gone, Phased, Start, Restored, Idle, Op
<1>11. Current'
  BY DEF Behind, Gone, Phased, Held, Backed, Current, LatchMirrorsRow,
         AuthorityIsCurrent, PermissionIsBacked, Stopping, Ending, Starting,
         Kinds, Start, Restored, Row, Fence, Fences
<1> QED
  BY <1>1, <1>2, <1>3, <1>4, <1>5, <1>6, <1>7, <1>8, <1>9, <1>10, <1>11

\* The transition to stopping or cancelling: the ticket's version passes every
\* identity in use, and the row is sealed for the new one.
LEMMA InvalidateKeeps ==
  ASSUME ControlInv, up, op = Idle, NEW kind \in {"pause", "cancel"},
         NEW to \in {"stopping", "cancelling"},
         kind = "pause" <=> to = "stopping", Invalidate(kind, to)
  PROVE  ControlInv'
<1> USE FenceFields, Nothing DEF ControlInv, TypeOK, durable, admission
<1>1. /\ fence' = Fence(fence.v + 1, fence.l, fence.r + 1)
      /\ row' = Row("sealed", fence', fence') /\ latch' = fence'
      /\ phase' = to /\ op' = Op(kind, "seal", None, None)
      /\ UNCHANGED <<up, writer, stopped, allowed, opened, act, reserved, fault,
                     memo, snap>>
  BY DEF Invalidate, Seal
<1>2. fence' \in Fences /\ fence'.v = fence.v + 1
  BY <1>1 DEF Fence, Fences
<1>3. /\ row' \in [st : RowStates, stop : Fences, auth : Fences]
      /\ row'.st = "sealed" /\ row'.stop = fence' /\ row'.auth = fence'
  BY <1>1, <1>2, RowIs DEF RowStates
<1>4. /\ op' \in [kind : Kinds, at : Steps, cap : Fences, stop : Fences]
      /\ op'.kind = kind /\ op'.at = "seal" /\ op'.cap = None
  BY <1>1 DEF Op, Kinds, Steps
<1>5. TypeOK'
  BY <1>1, <1>2, <1>3, <1>4
<1>6. Behind' /\ Gone' /\ Held' /\ Backed'
  BY <1>1, <1>2, <1>3, <1>4 DEF Behind, Gone, Held, Backed
<1>7. Phased'
  BY <1>1, <1>4 DEF Phased, Stopping
<1>8. /\ LatchMirrorsRow' /\ AuthorityIsCurrent'
      /\ PermissionIsBacked' /\ StoppedIsQuiet' /\ Current'
  BY <1>1, <1>2, <1>3
     DEF Behind, LatchMirrorsRow, AuthorityIsCurrent, PermissionIsBacked,
         StoppedIsQuiet, Current
<1> QED
  BY <1>5, <1>6, <1>7, <1>8

\* A repeated request only finishes, and a recovery or a drain only stops what
\* may still run: the ticket is already in its phase.
LEMMA RepeatKeeps ==
  ASSUME ControlInv, up, op = Idle,
         NEW kind \in {"pause", "cancel", "recover"}, NEW step \in {"seal", "terminal"},
         op' = Op(kind, step, None, None),
         \/ phase \in {"stopping", "held"} /\ kind = "pause" /\ step = "seal"
         \/ phase \in {"blocked", "held"} /\ kind = "recover" /\ step = "seal"
         \/ phase = "cancelling" /\ kind = "cancel" /\ step = "seal"
         \/ phase = "cancelled" /\ kind = "cancel" /\ step = "terminal",
         UNCHANGED <<up, durable, latch, admission, memo, snap>>
  PROVE  ControlInv'
<1> USE FenceFields, Nothing DEF ControlInv, TypeOK, durable, admission
<1>1. /\ op' \in [kind : Kinds, at : Steps, cap : Fences, stop : Fences]
      /\ op'.kind = kind /\ op'.at = step /\ op'.cap = None
  BY DEF Op, Kinds, Steps
<1>2. TypeOK'
  BY <1>1
<1>3. Behind' /\ Gone' /\ Held' /\ Backed'
  BY <1>1 DEF Behind, Gone, Held, Backed
<1>4. Phased'
  BY <1>1 DEF Phased, Stopping, Ending
<1>5. /\ LatchMirrorsRow' /\ AuthorityIsCurrent'
      /\ PermissionIsBacked' /\ StoppedIsQuiet' /\ Current'
  BY DEF LatchMirrorsRow, AuthorityIsCurrent, PermissionIsBacked,
         StoppedIsQuiet, Current
<1> QED
  BY <1>2, <1>3, <1>4, <1>5

\* controlTicket "pause" or "take".
LEMMA RequestPauseKeeps ==
  ASSUME ControlInv, RequestPause
  PROVE  ControlInv'
<1>1. CASE Invalidate("pause", "stopping")
  BY <1>1, InvalidateKeeps DEF RequestPause
<1>2. CASE /\ phase \in {"stopping", "held"} /\ op' = Op("pause", "seal", None, None)
           /\ UNCHANGED <<up, durable, latch, admission, memo, snap>>
  BY <1>2, RepeatKeeps DEF RequestPause
<1> QED
  BY <1>1, <1>2, Zenon DEF RequestPause

\* controlTicket "cancel".
LEMMA RequestCancelKeeps ==
  ASSUME ControlInv, RequestCancel
  PROVE  ControlInv'
<1>1. CASE Invalidate("cancel", "cancelling")
  BY <1>1, InvalidateKeeps DEF RequestCancel
<1>2. CASE /\ phase \in {"cancelling", "cancelled"}
           /\ op' = Op("cancel", IF phase = "cancelled" THEN "terminal" ELSE "seal",
                       None, None)
           /\ UNCHANGED <<up, durable, latch, admission, memo, snap>>
  <2>1. CASE phase = "cancelling"
    BY <1>2, <2>1, RepeatKeeps DEF RequestCancel
  <2>2. CASE phase = "cancelled"
    BY <1>2, <2>2, RepeatKeeps DEF RequestCancel
  <2> QED
    BY <1>2, <2>1, <2>2
<1> QED
  BY <1>1, <1>2, Zenon DEF RequestCancel

\* recoverTicket, retryTicket.
LEMMA RequestRecoverKeeps ==
  ASSUME ControlInv, RequestRecover
  PROVE  ControlInv'
  BY RepeatKeeps DEF RequestRecover

-----------------------------------------------------------------------------
(* The theorem *)

\* The first state.
LEMMA ControlInitInv == Init => ControlInv
<1> SUFFICES ASSUME Init PROVE ControlInv
  OBVIOUS
<1> USE FenceFields, Nothing DEF Init
<1>1. /\ fence \in Fences /\ fence.v = 1
      /\ row \in [st : RowStates, stop : Fences, auth : Fences]
      /\ row.st = "none" /\ row.stop = None /\ row.auth = None
  BY FenceIs, RowIs DEF RowStates
<1>2. TypeOK
  BY <1>1 DEF TypeOK
<1>3. Behind /\ Gone /\ Phased /\ Held /\ Backed /\ Current
  BY <1>1 DEF Behind, Gone, Phased, Held, Backed, Current
<1>4. LatchMirrorsRow /\ AuthorityIsCurrent /\ PermissionIsBacked /\ StoppedIsQuiet
  BY <1>1 DEF LatchMirrorsRow, AuthorityIsCurrent, PermissionIsBacked, StoppedIsQuiet
<1> QED
  BY <1>2, <1>3, <1>4 DEF ControlInv

\* A step of anyone, or of nobody.
LEMMA ControlNextInv == ControlInv /\ [Next]_vars => ControlInv'
<1> SUFFICES ASSUME ControlInv, [Next]_vars PROVE ControlInv'
  OBVIOUS
<1>1. CASE Loop
  BY <1>1, ListTicketsKeeps, BeginKeeps, OpenKeeps, OpenFailsKeeps, CommitKeeps,
     SuspendKeeps, CommitLostKeeps, AdmitKeeps, EndKeeps, BeginWriterKeeps,
     FinishWriterKeeps, AdvanceKeeps, TransitionKeeps DEF Loop
<1>2. CASE Request
  BY <1>2, SealRuntimeControlKeeps, StopKeeps, SealActivityKeeps, StopCancelsKeeps,
     JoinKeeps, ControlProofKeeps, CompleteControlTransitionKeeps,
     RecoverTicketKeeps,
     TerminalControlProofKeeps, RetireKeeps, RetireRuntimeControlKeeps,
     LoadStopKeeps, RearmProofKeeps, ActivateRearmKeeps, InstallKeeps,
     ReserveKeeps, BeginDecisionKeeps DEF Request
<1>3. CASE RequestPause \/ RequestCancel \/ RequestRecover \/ RequestResume
           \/ RequestDecision
  BY <1>3, RequestPauseKeeps, RequestCancelKeeps, RequestRecoverKeeps,
     RequestResumeKeeps, RequestDecisionKeeps
<1>4. CASE CallerGone \/ Abort \/ Crash \/ Start
  BY <1>4, CallerGoneKeeps, AbortKeeps, CrashKeeps, StartKeeps
<1>5. CASE UNCHANGED vars
  BY <1>5 DEF vars, durable, admission, ControlInv, TypeOK, Behind, Gone, Phased, Held,
              Backed, Current, LatchMirrorsRow, AuthorityIsCurrent,
              PermissionIsBacked, StoppedIsQuiet
<1> QED
  BY <1>1, <1>2, <1>3, <1>4, <1>5 DEF Next

\* In every reachable state the latch is that of the row, an armed row is of
\* exactly the active ticket's identity, an open one of its leader, its runner
\* and no later version, and newer than any stop, and the scheduler's permission
\* is that of the row; a ticket that an operator paused or cancelled has no
\* writer and nothing running, and one that blocked or paused itself has no
\* writer: runtime_control.go, admission.go, the controller and the transitions
\* of store.go, under any order of loops, requests, crashes and restarts.
THEOREM ControlRowsAgree == Spec => []RowsAgree
<1>1. ControlInv => RowsAgree
  BY DEF ControlInv, RowsAgree
<1> QED
  BY <1>1, ControlInitInv, ControlNextInv, PTL DEF Spec

=============================================================================
