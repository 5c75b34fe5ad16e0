----------------------------- MODULE HostProofs -----------------------------
(***************************************************************************)
(* Theorems about components that MCHost sums, for every value of their    *)
(* bounds.  A behaviour of the sum is a behaviour of one component, so     *)
(* each proof is about the component's own actions; the sum only says      *)
(* which of them moves.                                                    *)
(***************************************************************************)
EXTENDS MCHost, Sequences, FiniteSetTheorems, SequenceTheorems, TLAPS

-----------------------------------------------------------------------------
(* The sum *)

\* A component starts in its own initial state.
LEMMA HostInit ==
    ASSUME Init
    PROVE  /\ which = "capacity" => Capacity!Init
           /\ which = "refresh" => Refresh!Init
           /\ which = "worktree" => Worktree!Init
           /\ which = "checkpoint" => Checkpoint!Init
           /\ which = "source" => Source!Init
           /\ which = "gh" => Gh!Init
           /\ which = "retry" => Retry!Init
           /\ which = "repair" => Repair!Init
  BY DEF Init

\* A step of the sum is one of the component, or leaves it as it is.
LEMMA HostStep ==
    ASSUME [Next]_<<which, all>>
    PROVE  /\ which' = which
           /\ which = "capacity" => Capacity!Next \/ UNCHANGED Capacity!vars
           /\ which = "refresh" => Refresh!Next \/ UNCHANGED Refresh!vars
           /\ which = "worktree" => Worktree!Next \/ UNCHANGED Worktree!vars
           /\ which = "checkpoint" => Checkpoint!Next \/ UNCHANGED Checkpoint!vars
           /\ which = "source" => Source!Next \/ UNCHANGED Source!vars
           /\ which = "gh" => Gh!Next \/ UNCHANGED Gh!vars
           /\ which = "retry" => Retry!Next \/ UNCHANGED Retry!vars
           /\ which = "repair" => Repair!Next \/ UNCHANGED Repair!vars
  <1>1. CASE Next
    BY <1>1 DEF Next
  <1>2. CASE UNCHANGED <<which, all>>
    BY <1>2 DEF all, Capacity!vars, Refresh!vars, Refresh!world,
                Refresh!store, Refresh!disk, Worktree!vars, Checkpoint!vars,
                Source!vars, Gh!vars, Gh!own, Retry!vars, Retry!evidence, Retry!memory,
                Repair!vars
  <1> QED
    BY <1>1, <1>2

(***************************************************************************)
(* The gh runner releases a command only when it is drained, for every     *)
(* number of commands.                                                     *)
(*                                                                         *)
(* DrainIsProved alone does not say why the last check of Cleanup may rely *)
(* on the earlier ones: GhInv adds where Cleanup may stand (the run has    *)
(* finished, its proof is claimed and not yet given), what each of its     *)
(* checks has established so far, and that this cannot be undone: without  *)
(* a leader nothing forks, and a process only leaves the launch group.     *)
(***************************************************************************)
GhJobs    == {"idle", "identity", "grace", "handoff", "wait", "terminate", "term", "kill",
            "store", "reap", "streams", "owe", "finish"}
\* Cleanup has seen the run finished; it has seen the owner gone; it has read the flags.
CleanProving == {"owner", "flags", "leader", "group", "streams"}
CleanOwned   == {"flags", "leader", "group", "streams"}
CleanClear   == {"leader", "group", "streams"}

\* The fields of Runner and of its last run.
GhRunners == [active : BOOLEAN, needsCleanup : BOOLEAN, pending : BOOLEAN, used : BOOLEAN,
            closing : BOOLEAN, closed : BOOLEAN, snapshot : BOOLEAN]
GhRecords == [ownerDone : BOOLEAN, streamsUncertain : BOOLEAN, identityUncertain : BOOLEAN,
            start : BOOLEAN, readers : BOOLEAN, finished : BOOLEAN, cleaned : BOOLEAN,
            claimed : BOOLEAN]

GhTyped ==
    /\ runner \in GhRunners
    /\ rec \in GhRecords
    /\ life \in [Gh!Procs -> {"none", "alive", "zombie", "gone"}]
    /\ group \in [Gh!Procs -> {"run", "other"}]
    /\ pipes \subseteq Gh!Procs
    /\ job \in GhJobs
    /\ terminated \in BOOLEAN
    /\ clean \in {"idle", "finished"} \cup CleanProving
    /\ closer \in {"idle", "remove"}
    /\ proofs \in Nat

\* A proof is owed for exactly the last run or for a failure before one, and not both.
GhOwing ==
    /\ runner.active => runner.needsCleanup
    /\ runner.pending => runner.needsCleanup /\ ~runner.active
    /\ runner.needsCleanup => runner.active \/ runner.pending
    /\ job # "idle" => runner.active /\ ~rec.finished
    /\ job = "idle" /\ runner.active => rec.finished

\* What Run has recorded of the owner and of the streams is so.
GhRecorded ==
    /\ rec.ownerDone => life["leader"] = "gone"
    /\ ~rec.readers /\ ~rec.streamsUncertain => pipes = {}
    /\ rec.finished \/ job \in {"owe", "finish"} => ~rec.readers

\* How far Cleanup has come, and what it knows there.
GhProgress ==
    /\ clean # "idle" => runner.active /\ rec.claimed /\ ~rec.cleaned
    /\ clean \in CleanProving => rec.finished
    /\ clean \in CleanOwned => rec.ownerDone
    /\ clean \in CleanClear => ~rec.streamsUncertain
    /\ clean = "streams" => Gh!Members = {}
    /\ runner.active /\ ~rec.cleaned => proofs = 0
    /\ rec.claimed => ~rec.cleaned

GhDrained == life["leader"] \in {"none", "gone"} /\ Gh!Members = {} /\ pipes = {}

GhReleased ==
    /\ ~runner.active => GhDrained
    /\ proofs <= 1
    /\ runner.closing \/ runner.closed => ~runner.needsCleanup /\ ~runner.active
    /\ closer = "remove" => runner.closing

GhInv == GhTyped /\ GhOwing /\ GhRecorded /\ GhProgress /\ GhReleased

\* The world, and the steps of Run, Cleanup and Close, each with what they share.
GhOutside == Gh!Forks \/ Gh!Reap \/ Gh!Expires \/ Gh!Replaced \/ (\E p \in Gh!Procs : Gh!Moves(p) \/ Gh!Lets(p))
         \/ Gh!MonitorReads \/ Gh!MonitorStores

\* The initial runner has run nothing and owes nothing.
LEMMA GhInit == Gh!Init => GhInv
  <1> SUFFICES ASSUME Gh!Init PROVE GhInv
    OBVIOUS
  <1>1. GhTyped
    BY DEF Gh!Init, GhTyped, GhRunners, GhRecords, GhJobs, Gh!Procs
  <1>2. Gh!Members = {}
    BY DEF Gh!Init, Gh!Members, Gh!Procs
  <1>3. GhOwing /\ GhRecorded /\ GhProgress /\ GhReleased
    BY <1>2 DEF Gh!Init, GhOwing, GhRecorded, GhProgress, GhReleased, GhDrained, CleanProving, CleanOwned, CleanClear, Gh!Procs
  <1>4. QED
    BY <1>1, <1>3 DEF GhInv

\* Who is in the launch group depends on the processes alone.
LEMMA SameMembers == ASSUME UNCHANGED <<life, group>> PROVE Gh!Members' = Gh!Members
  BY DEF Gh!Members

\* A step of the world leaves Run, Cleanup and Close where they are; once the leader is gone it
\* can only empty the launch group and the pipes (Forks, Moves, Lets, Reap).
LEMMA GhWorld == ASSUME GhInv, GhOutside PROVE GhInv'
  <1> USE DEF GhInv, Gh!Procs
  <1>1. CASE Gh!Forks
    <2>1. life["leader"] = "alive" /\ runner.active /\ ~rec.ownerDone /\ clean # "streams"
      BY <1>1 DEF Gh!Forks, GhReleased, GhDrained, GhRecorded, GhProgress, CleanOwned
    <2>2. GhTyped'
      BY <1>1 DEF Gh!Forks, GhTyped, Gh!world
    <2>3. (~rec.readers /\ ~rec.streamsUncertain => pipes = {})'
      BY <1>1 DEF Gh!Forks, GhRecorded, Gh!world
    <2>4. QED
      BY <1>1, <2>1, <2>2, <2>3 DEF Gh!Forks, Gh!world, GhOwing, GhRecorded, GhProgress, GhReleased, CleanOwned
  <1>2. CASE Gh!Reap
    <2>1. Gh!Members' \subseteq Gh!Members
      BY <1>2 DEF Gh!Reap, Gh!Members, GhTyped
    <2>2. GhTyped'
      BY <1>2 DEF Gh!Reap, GhTyped, Gh!world
    <2>3. QED
      BY <1>2, <2>1, <2>2 DEF Gh!Reap, Gh!world, GhOwing, GhRecorded, GhProgress, GhReleased, GhDrained, GhTyped
  <1>3. CASE Gh!Expires \/ Gh!Replaced
    <2>1. UNCHANGED <<Gh!world, life, group, pipes>>
      BY <1>3 DEF Gh!Expires, Gh!Replaced
    <2>2. QED
      BY <2>1, SameMembers DEF Gh!world, GhTyped, GhOwing, GhRecorded, GhProgress, GhReleased, GhDrained
  <1>4. ASSUME NEW p \in Gh!Procs, Gh!Moves(p) PROVE GhInv'
    <2>1. Gh!Members' \subseteq Gh!Members
      BY <1>4 DEF Gh!Moves, Gh!Members, GhTyped
    <2>2. GhTyped'
      BY <1>4 DEF Gh!Moves, GhTyped, Gh!world
    <2>3. QED
      BY <1>4, <2>1, <2>2 DEF Gh!Moves, Gh!world, GhOwing, GhRecorded, GhProgress, GhReleased, GhDrained, GhTyped
  <1>5. ASSUME NEW p \in Gh!Procs, Gh!Lets(p) PROVE GhInv'
    <2>1. Gh!Members' \subseteq Gh!Members /\ pipes' \subseteq pipes
      BY <1>5 DEF Gh!Lets, Gh!Members, GhTyped
    <2>2. GhTyped'
      BY <1>5 DEF Gh!Lets, GhTyped, Gh!world
    <2>3. life["leader"]' = life["leader"] \/ life["leader"] = "alive"
      BY <1>5 DEF Gh!Lets, GhTyped
    <2>4. QED
      BY <1>5, <2>1, <2>2, <2>3
         DEF Gh!Lets, Gh!world, GhOwing, GhRecorded, GhProgress, GhReleased, GhDrained, GhTyped
  <1>6. CASE Gh!MonitorReads
    BY <1>6, SameMembers
       DEF Gh!MonitorReads, Gh!world, GhTyped, GhOwing, GhRecorded, GhProgress, GhReleased, GhDrained
  <1>7. CASE Gh!MonitorStores
    <2>1. GhTyped'
      BY <1>7 DEF Gh!MonitorStores, GhTyped, GhRecords
    <2>2. /\ rec'.ownerDone = rec.ownerDone /\ rec'.streamsUncertain = rec.streamsUncertain
          /\ rec'.readers = rec.readers /\ rec'.finished = rec.finished
          /\ rec'.cleaned = rec.cleaned /\ rec'.claimed = rec.claimed
      BY <1>7 DEF Gh!MonitorStores, GhTyped, GhRecords
    <2>3. QED
      BY <1>7, <2>1, <2>2, SameMembers
         DEF Gh!MonitorStores, GhOwing, GhRecorded, GhProgress, GhReleased, GhDrained
  <1>8. QED
    BY <1>1, <1>2, <1>3, <1>4, <1>5, <1>6, <1>7 DEF GhOutside

\* SIGKILL empties the launch group; it hits nothing that was gone.
LEMMA GhKill ==
    ASSUME GhTyped, Gh!Kill
    PROVE  /\ life' \in [Gh!Procs -> {"none", "alive", "zombie", "gone"}] /\ pipes' \subseteq pipes
           /\ life["leader"] \in {"none", "gone"} => life'["leader"] = life["leader"]
  <1> USE DEF Gh!Procs
  <1>1. life' = [p \in Gh!Procs |-> IF p \notin Gh!Members THEN life[p]
                                 ELSE IF p = "leader" THEN "zombie" ELSE "gone"]
    BY DEF Gh!Kill
  <1>2. life["leader"] \in {"none", "gone"} => "leader" \notin Gh!Members
    BY DEF Gh!Members
  <1>3. \A p \in Gh!Procs : life[p] \in {"none", "alive", "zombie", "gone"}
    BY DEF GhTyped
  <1>4. life' \in [Gh!Procs -> {"none", "alive", "zombie", "gone"}]
    BY <1>1, <1>3
  <1>5. QED
    BY <1>1, <1>2, <1>4 DEF Gh!Kill

\* While Run is under way Cleanup has proved nothing: it waits for the run to be finished. So a
\* step of Run has to keep only what Run itself records (Run before its last statement).
LEMMA GhRunning ==
    ASSUME GhInv, job # "idle", job' \in GhJobs \ {"idle"}, GhTyped',
           UNCHANGED <<clean, closer, runs, proofs>>,
           runner' = [runner EXCEPT !.needsCleanup = TRUE] \/ runner' = runner,
           rec'.finished = rec.finished, rec'.cleaned = rec.cleaned, rec'.claimed = rec.claimed,
           rec'.ownerDone => life'["leader"] = "gone",
           ~rec'.readers /\ ~rec'.streamsUncertain => pipes' = {},
           job' \in {"owe", "finish"} => ~rec'.readers
    PROVE  GhInv'
  <1> USE DEF GhInv
  <1>1. /\ runner'.active = runner.active /\ runner'.needsCleanup = runner.needsCleanup
        /\ runner'.pending = runner.pending /\ runner'.closing = runner.closing
        /\ runner'.closed = runner.closed
    BY DEF GhTyped, GhRunners, GhOwing
  <1>2. runner.active /\ ~rec.finished /\ clean \notin CleanProving
    BY DEF GhOwing, GhProgress
  <1>3. GhOwing' /\ GhRecorded'
    BY <1>1, <1>2 DEF GhOwing, GhRecorded, GhJobs
  <1>4. GhProgress' /\ GhReleased'
    BY <1>1, <1>2 DEF GhProgress, GhReleased, CleanProving, CleanOwned, CleanClear
  <1>5. QED
    BY <1>3, <1>4

\* Run: a failure before the child, the launch, and every step to its end.
LEMMA GhRun == ASSUME GhInv, Gh!RunStep PROVE GhInv'
  <1> USE DEF GhInv, Gh!Procs
  <1>1. CASE Gh!Prelaunch
    <2>0. runner' \in GhRunners /\ rec' \in GhRecords
      BY ZenonT(60), <1>1 DEF Gh!Prelaunch, Gh!Admits, Gh!own, GhTyped, GhRunners, GhRecords
    <2>1. GhTyped'
      BY <1>1, <2>0 DEF Gh!Prelaunch, Gh!Admits, Gh!own, GhTyped
    <2>2. /\ runner'.active = runner.active /\ runner'.needsCleanup /\ runner'.pending
          /\ runner'.closing = runner.closing /\ runner'.closed = runner.closed
      BY <1>1 DEF Gh!Prelaunch, Gh!Admits, Gh!own, GhTyped, GhRunners, GhRecords
    <2>3. QED
      BY <1>1, <2>1, <2>2, SameMembers
         DEF Gh!Prelaunch, Gh!Admits, Gh!own, GhOwing, GhRecorded, GhProgress, GhReleased, GhDrained
  <1>2. CASE Gh!Launch
    <2>0. runner' \in GhRunners /\ rec' \in GhRecords
      BY <1>2 DEF Gh!Launch, GhTyped, GhRunners, GhRecords
    <2>1. GhTyped'
      BY <1>2, <2>0 DEF Gh!Launch, GhTyped, GhJobs
    <2>2. /\ runner'.active /\ runner'.needsCleanup /\ runner'.pending = runner.pending
          /\ runner'.closing = runner.closing /\ runner'.closed = runner.closed
      BY <1>2 DEF Gh!Launch, GhTyped, GhRunners, GhRecords
    <2>3. ~runner.active /\ ~runner.pending /\ clean = "idle" /\ ~runner.closing /\ ~runner.closed
      BY <1>2 DEF Gh!Launch, Gh!Admits, GhOwing, GhProgress
    <2>4. /\ ~rec'.ownerDone /\ rec'.readers /\ ~rec'.finished /\ ~rec'.cleaned /\ ~rec'.claimed
          /\ job' = "identity" /\ proofs' = 0 /\ UNCHANGED <<clean, closer>>
      BY <1>2 DEF Gh!Launch
    <2>5. GhOwing' /\ GhRecorded'
      BY <2>2, <2>3, <2>4 DEF GhOwing, GhRecorded
    <2>6. GhProgress'
      BY <2>2, <2>3, <2>4 DEF GhProgress, CleanProving, CleanOwned, CleanClear
    <2>7. GhReleased'
      BY <2>2, <2>3, <2>4 DEF GhReleased
    <2>8. QED
      BY <2>1, <2>5, <2>6, <2>7 DEF GhInv
  <1>3. CASE Gh!IdentitySampled \/ Gh!GraceForgives \/ Gh!Handoff \/ Gh!Waited \/ Gh!WaitEnds
    <2>a. rec' = rec \/ (\E b \in BOOLEAN : \/ rec' = [rec EXCEPT !.start = b]
                                           \/ rec' = [rec EXCEPT !.ownerDone = b])
      BY <1>3 DEF Gh!IdentitySampled, Gh!GraceForgives, Gh!Handoff, Gh!Waited, Gh!WaitEnds, Gh!OwnerGone
    <2>0. runner' \in GhRunners /\ rec' \in GhRecords
      BY <1>3, <2>a DEF Gh!IdentitySampled, Gh!GraceForgives, Gh!Handoff, Gh!Waited, Gh!WaitEnds, Gh!still, Gh!others,
                        GhTyped, GhRecords
    <2>1. GhTyped'
      BY <1>3, <2>0 DEF Gh!IdentitySampled, Gh!GraceForgives, Gh!Handoff, Gh!Waited, Gh!WaitEnds, Gh!still, Gh!others,
                  GhTyped, GhJobs, Gh!OwnerGone
    <2>2. /\ rec'.finished = rec.finished /\ rec'.cleaned = rec.cleaned
          /\ rec'.claimed = rec.claimed /\ rec'.readers = rec.readers
          /\ rec'.streamsUncertain = rec.streamsUncertain
          /\ rec'.ownerDone => rec.ownerDone \/ Gh!OwnerGone
      BY <1>3 DEF Gh!IdentitySampled, Gh!GraceForgives, Gh!Handoff, Gh!Waited, Gh!WaitEnds, Gh!still, GhTyped, GhRunners, GhRecords
    <2>3. job # "idle" /\ job' \in GhJobs \ {"idle", "owe", "finish"} /\ UNCHANGED Gh!still
      BY <1>3 DEF Gh!IdentitySampled, Gh!GraceForgives, Gh!Handoff, Gh!Waited, Gh!WaitEnds, GhJobs
    <2>4. QED
      BY <2>1, <2>2, <2>3, GhRunning DEF Gh!still, Gh!others, Gh!OwnerGone, GhRecorded
  <1>4. CASE Gh!IdentityFailed \/ Gh!TerminateNow \/ Gh!TerminateObserves \/ Gh!TerminateWaits
    <2>1. /\ job # "idle" /\ job' \in GhJobs \ {"idle", "owe", "finish"}
          /\ UNCHANGED <<Gh!others, group>>
          /\ Gh!Kill \/ UNCHANGED <<life, pipes>>
          /\ rec' = rec \/ rec' = [rec EXCEPT !.identityUncertain = TRUE]
          /\ terminated' \in BOOLEAN
      BY <1>4 DEF Gh!IdentityFailed, Gh!TerminateNow, Gh!TerminateObserves, Gh!TerminateWaits, GhJobs, GhTyped
    <2>2. /\ rec'.finished = rec.finished /\ rec'.cleaned = rec.cleaned
          /\ rec'.claimed = rec.claimed /\ rec'.readers = rec.readers
          /\ rec'.streamsUncertain = rec.streamsUncertain /\ rec'.ownerDone = rec.ownerDone
      BY <2>1 DEF GhTyped, GhRunners, GhRecords
    <2>3. /\ life' \in [Gh!Procs -> {"none", "alive", "zombie", "gone"}] /\ pipes' \subseteq pipes
          /\ life["leader"] = "gone" => life'["leader"] = "gone"
      BY <2>1, GhKill DEF GhTyped
    <2>4. rec' \in GhRecords
      BY <2>1 DEF GhTyped, GhRecords
    <2>5. GhTyped'
      BY <2>1, <2>3, <2>4 DEF GhTyped, Gh!others
    <2>6. QED
      BY <2>1, <2>2, <2>3, <2>5, GhRunning DEF Gh!others, GhRecorded
  <1>5. CASE Gh!StoreTerminated \/ Gh!ReapWaits \/ Gh!StreamWaits
    <2>0. runner' \in GhRunners /\ rec' \in GhRecords
      BY ZenonT(60), <1>5 DEF Gh!StoreTerminated, Gh!ReapWaits, Gh!StreamWaits, Gh!still, Gh!others, GhTyped, GhRunners,
                  GhRecords
    <2>1. GhTyped'
      BY <1>5, <2>0 DEF Gh!StoreTerminated, Gh!ReapWaits, Gh!StreamWaits, Gh!still, Gh!others, GhTyped, GhJobs
    <2>2. /\ rec'.finished = rec.finished /\ rec'.cleaned = rec.cleaned
          /\ rec'.claimed = rec.claimed
          /\ rec'.ownerDone => rec.ownerDone \/ Gh!OwnerGone
          /\ ~rec'.readers /\ ~rec'.streamsUncertain =>
                 pipes = {} \/ (~rec.readers /\ ~rec.streamsUncertain)
      BY ZenonT(60), <1>5 DEF Gh!StoreTerminated, Gh!ReapWaits, Gh!StreamWaits, Gh!StreamsDone, GhTyped, GhRunners, GhRecords
    <2>3. /\ job # "idle" /\ job' \in GhJobs \ {"idle"} /\ UNCHANGED Gh!still
          /\ job' \in {"owe", "finish"} => ~rec'.readers
      BY <1>5 DEF Gh!StoreTerminated, Gh!ReapWaits, Gh!StreamWaits, GhJobs, GhTyped, GhRunners, GhRecords
    <2>4. QED
      BY <2>1, <2>2, <2>3, GhRunning DEF Gh!still, Gh!others, Gh!OwnerGone, GhRecorded
  <1>6. CASE Gh!Owes
    <2>0. runner' \in GhRunners /\ rec' \in GhRecords
      BY <1>6 DEF Gh!Owes, GhTyped, GhRunners, GhRecords
    <2>1. GhTyped'
      BY <1>6, <2>0 DEF Gh!Owes, GhTyped, GhJobs
    <2>2. job # "idle" /\ job' \in GhJobs \ {"idle"}
      BY <1>6 DEF Gh!Owes, GhJobs
    <2>3. QED
      BY <1>6, <2>1, <2>2, GhRunning DEF Gh!Owes, GhRecorded
  <1>7. CASE Gh!Finishes
    <2>0. runner' \in GhRunners /\ rec' \in GhRecords
      BY <1>7 DEF Gh!Finishes, Gh!still, Gh!others, GhTyped, GhRunners, GhRecords
    <2>1. GhTyped'
      BY <1>7, <2>0 DEF Gh!Finishes, Gh!still, Gh!others, GhTyped, GhJobs
    <2>2. /\ rec'.finished /\ rec'.cleaned = rec.cleaned
          /\ rec'.claimed = rec.claimed /\ rec'.readers = rec.readers
          /\ rec'.streamsUncertain = rec.streamsUncertain /\ rec'.ownerDone = rec.ownerDone
      BY <1>7 DEF Gh!Finishes, GhTyped, GhRunners, GhRecords
    <2>3. QED
      BY <1>7, <2>1, <2>2, SameMembers
         DEF Gh!Finishes, Gh!still, Gh!others, GhOwing, GhRecorded, GhProgress, GhReleased, GhDrained
  <1>8. QED
    BY <1>1, <1>2, <1>3, <1>4, <1>5, <1>6, <1>7 DEF Gh!RunStep

\* Cleanup: each check passes only on what it is about, and the last one releases a run that
\* is drained.
LEMMA GhClean == ASSUME GhInv, Gh!CleanStep PROVE GhInv'
  <1> USE DEF GhInv
  <1>1. UNCHANGED Gh!outside /\ Gh!Members' = Gh!Members
    BY SameMembers
       DEF Gh!CleanStep, Gh!CleanPrelaunch, Gh!CleanClaims, Gh!CleanWaits, Gh!CleanReleases, Gh!CleanOwner, Gh!CleanFlags,
           Gh!CleanLeader, Gh!CleanGroup, Gh!CleanDrained, Gh!CleanQuarantines, Gh!outside
  <1>2. CASE Gh!CleanPrelaunch
    <2>0. runner' \in GhRunners /\ rec' \in GhRecords
      BY ZenonT(60), <1>1, <1>2 DEF Gh!CleanPrelaunch, Gh!outside, GhTyped, GhRunners, GhRecords
    <2>1. GhTyped'
      BY <1>1, <1>2, <2>0 DEF Gh!CleanPrelaunch, Gh!outside, GhTyped
    <2>2. /\ runner'.active = runner.active /\ ~runner'.needsCleanup /\ ~runner'.pending
          /\ runner'.closing = runner.closing /\ runner'.closed = runner.closed
      BY <1>2 DEF Gh!CleanPrelaunch, GhTyped, GhRunners, GhRecords
    <2>3. QED
      BY <1>1, <1>2, <2>1, <2>2
         DEF Gh!CleanPrelaunch, Gh!outside, GhOwing, GhRecorded, GhProgress, GhReleased, GhDrained
  <1>3. CASE Gh!CleanClaims
    <2>1. rec' \in GhRecords
      BY <1>3 DEF Gh!CleanClaims, GhTyped, GhRecords
    <2>2. GhTyped'
      BY <1>1, <1>3, <2>1 DEF Gh!CleanClaims, Gh!outside, GhTyped, CleanProving
    <2>3. /\ rec'.finished = rec.finished /\ rec'.cleaned = rec.cleaned
          /\ rec'.readers = rec.readers /\ rec'.streamsUncertain = rec.streamsUncertain
          /\ rec'.claimed /\ rec'.ownerDone = rec.ownerDone
      BY <1>3 DEF Gh!CleanClaims, GhTyped, GhRecords
    <2>4. QED
      BY <1>1, <1>3, <2>2, <2>3
         DEF Gh!CleanClaims, Gh!outside, Gh!OwnerGone, GhOwing, GhRecorded, GhProgress, GhReleased, GhDrained, CleanProving,
             CleanOwned, CleanClear
  <1>8. CASE Gh!CleanReleases
    <2>1. rec' \in GhRecords
      BY <1>8 DEF Gh!CleanReleases, GhTyped, GhRecords
    <2>2. GhTyped'
      BY <1>1, <1>8, <2>1 DEF Gh!CleanReleases, Gh!outside, GhTyped, CleanProving
    <2>3. /\ rec'.finished = rec.finished /\ rec'.cleaned = rec.cleaned
          /\ rec'.readers = rec.readers /\ rec'.streamsUncertain = rec.streamsUncertain
          /\ ~rec'.claimed /\ rec'.ownerDone = rec.ownerDone
      BY <1>8 DEF Gh!CleanReleases, GhTyped, GhRecords
    <2>4. QED
      BY <1>1, <1>8, <2>2, <2>3
         DEF Gh!CleanReleases, Gh!outside, Gh!OwnerGone, GhOwing, GhRecorded, GhProgress, GhReleased, GhDrained, CleanProving,
             CleanOwned, CleanClear
  <1>9. CASE Gh!CleanOwner
    <2>1. rec' \in GhRecords
      BY <1>9 DEF Gh!CleanOwner, GhTyped, GhRecords
    <2>2. GhTyped'
      BY <1>1, <1>9, <2>1 DEF Gh!CleanOwner, Gh!outside, GhTyped, CleanProving
    <2>3. /\ rec'.finished = rec.finished /\ rec'.cleaned = rec.cleaned
          /\ rec'.readers = rec.readers /\ rec'.streamsUncertain = rec.streamsUncertain
          /\ rec'.claimed = rec.claimed /\ rec'.ownerDone
      BY <1>9 DEF Gh!CleanOwner, GhTyped, GhRecords
    <2>4. QED
      BY <1>1, <1>9, <2>2, <2>3
         DEF Gh!CleanOwner, Gh!outside, Gh!OwnerGone, GhOwing, GhRecorded, GhProgress, GhReleased, GhDrained, CleanProving,
             CleanOwned, CleanClear
  <1>4. CASE Gh!CleanWaits \/ Gh!CleanFlags \/ Gh!CleanLeader \/ Gh!CleanGroup
    <2>1. /\ rec' = rec /\ runner' = runner /\ proofs' = proofs
          /\ clean' \in CleanProving /\ clean # "idle"
          /\ clean' = "owner" => rec.finished
          /\ clean' # "owner" => clean \in CleanOwned
          /\ clean' \in CleanClear => clean \in CleanClear \/ ~rec.streamsUncertain
          /\ clean' = "streams" => Gh!Members = {}
      BY <1>4 DEF Gh!CleanWaits, Gh!CleanFlags, Gh!CleanLeader, Gh!CleanGroup, CleanProving, CleanOwned, CleanClear
    <2>2. GhTyped'
      BY <1>1, <2>1 DEF Gh!outside, GhTyped
    <2>3. QED
      BY <1>1, <2>1, <2>2
         DEF Gh!outside, GhOwing, GhRecorded, GhProgress, GhReleased, GhDrained, CleanProving, CleanOwned, CleanClear
  <1>5. CASE Gh!CleanDrained
    <2>1. GhDrained
      BY <1>5 DEF Gh!CleanDrained, Gh!StreamsDone, GhDrained, GhProgress, GhRecorded, CleanProving, CleanOwned, CleanClear
    <2>0. runner' \in GhRunners /\ rec' \in GhRecords
      BY <1>5 DEF Gh!CleanDrained, GhTyped, GhRunners, GhRecords
    <2>2. GhTyped'
      BY <1>1, <1>5, <2>0 DEF Gh!CleanDrained, Gh!outside, GhTyped
    <2>3. /\ ~runner'.active /\ ~runner'.needsCleanup /\ runner'.pending = runner.pending
          /\ runner'.closing = runner.closing /\ runner'.closed = runner.closed
          /\ rec'.finished = rec.finished /\ rec'.cleaned /\ ~rec'.claimed
          /\ rec'.readers = rec.readers /\ rec'.streamsUncertain = rec.streamsUncertain
          /\ rec'.ownerDone = rec.ownerDone
      BY <1>5 DEF Gh!CleanDrained, GhTyped, GhRunners, GhRecords
    <2>4. runner.active /\ proofs = 0 /\ rec.finished /\ job = "idle"
      BY <1>5 DEF Gh!CleanDrained, GhProgress, CleanProving, GhOwing
    <2>5. QED
      BY <1>1, <1>5, <2>1, <2>2, <2>3, <2>4
         DEF Gh!CleanDrained, Gh!outside, GhOwing, GhRecorded, GhProgress, GhReleased, GhDrained, CleanProving, CleanOwned,
             CleanClear
  <1>6. CASE Gh!CleanQuarantines
    <2>0. runner' \in GhRunners /\ rec' \in GhRecords
      BY <1>1, <1>6 DEF Gh!CleanQuarantines, Gh!outside, GhTyped, GhRunners, GhRecords
    <2>1. GhTyped'
      BY <1>1, <1>6, <2>0 DEF Gh!CleanQuarantines, Gh!outside, GhTyped
    <2>2. /\ runner'.active = runner.active /\ runner'.needsCleanup = runner.needsCleanup
          /\ runner'.pending = runner.pending
          /\ runner'.closing = runner.closing /\ runner'.closed = runner.closed
          /\ rec'.finished = rec.finished /\ rec'.cleaned /\ ~rec'.claimed
          /\ rec'.readers = rec.readers /\ rec'.streamsUncertain = rec.streamsUncertain
          /\ rec'.ownerDone = rec.ownerDone
      BY <1>6 DEF Gh!CleanQuarantines, GhTyped, GhRunners, GhRecords
    <2>3. runner.active /\ proofs = 0 /\ clean' = "idle" /\ proofs' = proofs + 1
      BY <1>6 DEF Gh!CleanQuarantines, GhProgress, CleanProving
    <2>4. QED
      BY <1>1, <2>1, <2>2, <2>3
         DEF Gh!outside, GhOwing, GhRecorded, GhProgress, GhReleased, GhDrained, CleanProving, CleanOwned, CleanClear
  <1>7. QED
    BY <1>2, <1>3, <1>4, <1>5, <1>6, <1>8, <1>9 DEF Gh!CleanStep

\* Close enters over nothing that is owed, and nothing starts while it removes the snapshot.
LEMMA GhClose == ASSUME GhInv, Gh!CloseBegins \/ Gh!CloseFails \/ Gh!CloseEnds PROVE GhInv'
  <1> USE DEF GhInv
  <1>1. UNCHANGED Gh!beside /\ Gh!Members' = Gh!Members
    BY SameMembers DEF Gh!CloseBegins, Gh!CloseFails, Gh!CloseEnds, Gh!beside, Gh!own
  <1>2. /\ runner'.active = runner.active /\ runner'.needsCleanup = runner.needsCleanup
        /\ runner'.pending = runner.pending
        /\ runner'.closing = (closer' = "remove")
        /\ runner'.closed = runner.closed \/ (runner'.closed /\ closer = "remove")
        /\ closer = "idle" => Gh!Admits
    BY DEF Gh!CloseBegins, Gh!CloseFails, Gh!CloseEnds, Gh!Admits, GhTyped, GhRunners, GhReleased
  <1>3. runner' \in GhRunners
    BY ZenonT(60), SMTT(30) DEF Gh!CloseBegins, Gh!CloseFails, Gh!CloseEnds, GhTyped, GhRunners
  <1>4. GhTyped'
    BY <1>1, <1>3 DEF Gh!CloseBegins, Gh!CloseFails, Gh!CloseEnds, Gh!beside, Gh!own, GhTyped
  <1>5. QED
    BY <1>1, <1>2, <1>4
       DEF Gh!beside, Gh!own, Gh!Admits, GhOwing, GhRecorded, GhProgress, GhReleased, GhDrained, GhTyped

\* The runner takes another command, or is closed, only when the last one is drained as far as its
\* launch group and its pipes show it: the leader reaped, the group empty, the pipes closed, and
\* one proof given; a process that left the group is not seen (Run, Cleanup, Close).
THEOREM GhDrainIsProved == Spec => []DrainIsProved
  <1> DEFINE I == which = "gh" => GhInv
  <1>1. Init => I
    BY HostInit, GhInit
  <1>2. I /\ [Next]_<<which, all>> => I'
    <2> SUFFICES ASSUME GhInv, Gh!Next \/ UNCHANGED Gh!vars PROVE GhInv'
      BY HostStep
    <2>1. CASE Gh!RunStep
      BY <2>1, GhRun
    <2>2. CASE Gh!CleanStep
      BY <2>2, GhClean
    <2>3. CASE Gh!Outside
      BY <2>3, GhWorld DEF Gh!Outside, GhOutside
    <2>4. CASE Gh!CloseBegins \/ Gh!CloseFails \/ Gh!CloseEnds
      BY <2>4, GhClose
    <2>5. CASE UNCHANGED Gh!vars
      BY <2>5, SameMembers
         DEF Gh!vars, Gh!own, GhInv, GhTyped, GhOwing, GhRecorded, GhProgress, GhReleased, GhDrained
    <2>6. QED
      BY <2>1, <2>2, <2>3, <2>4, <2>5 DEF Gh!Next
  <1>3. I => DrainIsProved
    BY DEF GhInv, GhTyped, GhOwing, GhReleased, GhDrained, DrainIsProved, Gh!DrainIsProved
  <1> QED
    BY <1>1, <1>2, <1>3, PTL DEF Spec
(***************************************************************************)
(* A retry is spent, and served, only over a worktree found pristine       *)
(* behind the seal, for every number of daemons and edits.                 *)
(*                                                                         *)
(* RetryIsAuthenticated says nothing of the steps between the checks:      *)
(* RetryInv adds which row may stand beside which ticket and activity      *)
(* (RowHeld), and what each stage of the request rests on: the pause is    *)
(* still there, or the row is still sealed, so nobody was admitted since   *)
(* the worktree was seen (Staged).                                         *)
(***************************************************************************)
Fences == [v : Nat, l : Nat, r : Nat]
RetryStages == {"idle", "drain", "join", "preflight", "commit", "load", "authenticate",
                "prove", "activate"}

RetryTyped ==
    /\ up \in BOOLEAN /\ starts \in Nat
    /\ ticket \in [st : {"active", "paused", "left"}, v : Nat \ {0}, r : Nat]
    /\ ctl \in [st : {"none", "sealed", "armed", "open"}, stop : Fences, auth : Fences]
    /\ latch \in Fences /\ allowed \in Fences /\ run \in Fences /\ memo \in Fences
    /\ req \in [at : RetryStages, f : Fences]
    /\ epoch \in [ex : Fences, re : Fences]

RowHeld ==
    /\ ~up => /\ latch = Retry!NoFence /\ allowed = Retry!NoFence
              /\ run = Retry!NoFence /\ req = Retry!Idle
    /\ ctl.st # "none" => ctl.auth # Retry!NoFence
    /\ up /\ ctl.st \in {"sealed", "armed"} => latch # Retry!NoFence
    /\ ctl.st \in {"sealed", "armed"} /\ ticket.st = "active" => run = Retry!NoFence
    /\ ctl.st = "armed" => ticket.st = "active"
    /\ epoch = Retry!NoEpoch => ctl.st \in {"none", "sealed"}
    /\ epoch # Retry!NoEpoch => ctl.st # "none"
    /\ ctl.st = "open" /\ ticket.st = "active" =>
         ctl.auth = Retry!Current /\ Retry!Current \in authed
    /\ run # Retry!NoFence => /\ run.v <= ticket.v
                              /\ ticket.st = "paused" => run.v < ticket.v

Staged ==
    /\ req.at \in {"drain", "join", "preflight", "commit"} => ticket.st = "paused"
    /\ req.at \in {"preflight", "commit"} => run = Retry!NoFence
    /\ req.at = "commit" => req.f \in authed
    /\ req.at \in {"load", "authenticate", "prove", "activate"} =>
         ticket.st = "active" /\ ctl.st = "sealed"
    /\ req.at = "prove" => req.f = Retry!Current /\ req.f \in authed
    /\ req.at = "activate" => /\ req.f \in authed
                              /\ ctl.stop = epoch.ex /\ epoch # Retry!NoEpoch

RetryInv == RetryTyped /\ RowHeld /\ Staged /\ Retry!RetryIsAuthenticated

\* The invariant and the small records it speaks of.
LEMMA RetryInit == Retry!Init => RetryInv
  BY DEF Retry!Init, Retry!Row, Retry!Fence, Retry!NoFence, Retry!NoEpoch, Retry!Idle,
         RetryInv, RetryTyped, RetryStages, Fences, RowHeld, Staged,
         Retry!RetryIsAuthenticated

\* An activity is admitted under an open row of this very fence, or before any
\* row; when it passes or exhausts the phase it leaves the ticket behind.
LEMMA RetryRuns ==
    ASSUME RetryInv, Retry!Begin \/ Retry!RunEnds \/ Retry!BeginProviderAttempt
                     \/ Retry!AttemptFails \/ Retry!AttemptPasses \/ Retry!TransitionProviderExhausted
    PROVE  RetryInv'
  <1> USE DEF RetryInv, RetryTyped, RetryStages, Fences, RowHeld, Staged,
              Retry!RetryIsAuthenticated, Retry!Current, Retry!Row, Retry!Fence,
              Retry!NoFence, Retry!NoEpoch, Retry!Idle, Retry!Go, Retry!evidence,
              Retry!memory
  <1>1. CASE Retry!Begin
    BY <1>1 DEF Retry!Begin, Retry!Ready
  <1>2. CASE Retry!RunEnds
    BY <1>2 DEF Retry!RunEnds
  <1>3. CASE Retry!BeginProviderAttempt
    BY <1>3 DEF Retry!BeginProviderAttempt
  <1>4. CASE Retry!AttemptFails
    BY <1>4 DEF Retry!AttemptFails
  <1>5. CASE Retry!AttemptPasses
    BY <1>5 DEF Retry!AttemptPasses
  <1>6. CASE Retry!TransitionProviderExhausted
    <2>1. /\ ticket' = [st |-> "paused", v |-> ticket.v + 1, r |-> ticket.r]
          /\ UNCHANGED <<up, starts, epoch, ctl, latch, allowed, run, memo, req, authed>>
          /\ run # Retry!NoFence /\ run = Retry!Current /\ ticket.st = "active"
      BY <1>6 DEF Retry!TransitionProviderExhausted
    <2>2. /\ ticket'.st = "paused" /\ ticket'.v = ticket.v + 1
          /\ ticket' \in [st : {"active", "paused", "left"}, v : Nat \ {0}, r : Nat]
      BY <2>1
    <2>3. run.v < ticket'.v /\ ctl.st \in {"none", "open"} /\ req.at = "idle"
      BY <2>1, <2>2
    <2>4. QED
      BY <2>1, <2>2, <2>3
  <1>7. QED
    BY <1>1, <1>2, <1>3, <1>4, <1>5, <1>6

\* Whoever edits the worktree touches nothing else.
LEMMA RetryTree ==
    ASSUME RetryInv, Retry!Edit \/ Retry!Restore
    PROVE  RetryInv'
  <1> USE DEF RetryInv, RetryTyped, RetryStages, Fences, RowHeld, Staged,
              Retry!RetryIsAuthenticated, Retry!Current, Retry!Row, Retry!Fence,
              Retry!NoFence, Retry!NoEpoch, Retry!Idle, Retry!Go, Retry!evidence,
              Retry!memory
  <1>1. CASE Retry!Edit
    BY <1>1 DEF Retry!Edit
  <1>2. CASE Retry!Restore
    BY <1>2 DEF Retry!Restore
  <1>3. QED
    BY <1>1, <1>2

\* Up to the commit the ticket stays paused and the row is sealed under it: the
\* worktree's answer at preflight is still the answer the commit uses.
LEMMA RetryDrains ==
    ASSUME RetryInv, Retry!RequestRetry \/ Retry!SealRuntimeControl \/ Retry!Drained
                     \/ Retry!Preflight \/ Retry!TransitionProviderRetry
    PROVE  RetryInv'
  <1> USE DEF RetryInv, RetryTyped, RetryStages, Fences, RowHeld, Staged,
              Retry!RetryIsAuthenticated, Retry!Current, Retry!Row, Retry!Fence,
              Retry!NoFence, Retry!NoEpoch, Retry!Idle, Retry!Go, Retry!evidence,
              Retry!memory
  <1>1. CASE Retry!RequestRetry
    BY <1>1 DEF Retry!RequestRetry, Retry!Disposition, Retry!Authentic
  <1>2. CASE Retry!SealRuntimeControl
    BY <1>2 DEF Retry!SealRuntimeControl
  <1>3. CASE Retry!Drained
    BY <1>3 DEF Retry!Drained
  <1>4. CASE Retry!Preflight
    BY <1>4 DEF Retry!Preflight, Retry!Authentic, Retry!WorktreeProof
  <1>5. CASE Retry!TransitionProviderRetry
    BY <1>5 DEF Retry!TransitionProviderRetry, Retry!CanRetry
  <1>6. QED
    BY <1>1, <1>2, <1>3, <1>4, <1>5

\* From the commit to the permission the row stays sealed, so nobody runs between
\* the last look at the worktree and the row that lets somebody run.
LEMMA RetryRearms ==
    ASSUME RetryInv, Retry!RequestReplay \/ Retry!LoadStop \/ Retry!Reauthenticate
                     \/ Retry!RearmProof \/ Retry!ActivateRearm \/ Retry!RequestFails
    PROVE  RetryInv'
  <1> USE DEF RetryInv, RetryTyped, RetryStages, Fences, RowHeld, Staged,
              Retry!RetryIsAuthenticated, Retry!Current, Retry!Row, Retry!Fence,
              Retry!NoFence, Retry!NoEpoch, Retry!Idle, Retry!Go, Retry!evidence,
              Retry!memory
  <1>1. CASE Retry!RequestReplay
    BY <1>1 DEF Retry!RequestReplay, Retry!Replay
  <1>2. CASE Retry!LoadStop
    BY <1>2 DEF Retry!LoadStop
  <1>3. CASE Retry!Reauthenticate
    BY <1>3 DEF Retry!Reauthenticate, Retry!Authentic, Retry!WorktreeProof
  <1>4. CASE Retry!RearmProof
    BY <1>4 DEF Retry!RearmProof, Retry!CanRearm, Retry!RetryControl, Retry!WorktreeProof
  <1>5. CASE Retry!ActivateRearm
    BY <1>5 DEF Retry!ActivateRearm
  <1>6. CASE Retry!RequestFails
    BY <1>6 DEF Retry!RequestFails
  <1>7. QED
    BY <1>1, <1>2, <1>3, <1>4, <1>5, <1>6

\* A restart forgets every permission, and seals whatever row it finds.
LEMMA RetryRestarts ==
    ASSUME RetryInv, Retry!Crash \/ Retry!Start
    PROVE  RetryInv'
  <1> USE DEF RetryInv, RetryTyped, RetryStages, Fences, RowHeld, Staged,
              Retry!RetryIsAuthenticated, Retry!Current, Retry!Row, Retry!Fence,
              Retry!NoFence, Retry!NoEpoch, Retry!Idle, Retry!Go, Retry!evidence,
              Retry!memory
  <1>1. CASE Retry!Crash
    BY <1>1 DEF Retry!Crash
  <1>2. CASE Retry!Start
    <2>1. /\ up' = TRUE /\ starts' = starts + 1
          /\ ctl'.st = (IF ctl.st = "none" THEN "none" ELSE "sealed")
          /\ ctl'.stop = ctl.stop /\ ctl'.auth = ctl.auth
          /\ ctl' \in [st : {"none", "sealed", "armed", "open"}, stop : Fences, auth : Fences]
          /\ latch' = IF ctl.st = "none" THEN Retry!NoFence ELSE ctl.auth
          /\ UNCHANGED <<epoch, allowed, run, memo, req, authed>>
          /\ ~up
      BY <1>2 DEF Retry!Start, Retry!Restored
    <2>2. /\ ticket'.st = ticket.st
          /\ ticket' \in [st : {"active", "paused", "left"}, v : Nat \ {0}, r : Nat]
      <3>1. CASE ticket.st = "active"
        <4>1. ticket' = [st |-> "active", v |-> ticket.v + 1, r |-> ticket.r + 1]
          BY <1>2, <3>1 DEF Retry!Start
        <4>2. QED
          BY <3>1, <4>1
      <3>2. CASE ticket.st # "active"
        BY <1>2, <3>2 DEF Retry!Start
      <3>3. QED
        BY <3>1, <3>2
    <2>3. run = Retry!NoFence /\ req.at = "idle" /\ allowed = Retry!NoFence
      BY <2>1
    <2>4. RetryTyped'
      BY <2>1, <2>2
    <2>5. RowHeld' /\ Staged' /\ Retry!RetryIsAuthenticated'
      BY <2>1, <2>2, <2>3
    <2>6. QED
      BY <2>4, <2>5
  <1>3. QED
    BY <1>1, <1>2

\* The retry is consumed, and an activity admitted for it, only at an endpoint
\* where the retained worktree was pristine behind the seal (resumeWithTrigger,
\* RearmProviderRetry, TransitionProviderRetry).
THEOREM RetryStartsAuthenticated == Spec => []RetryIsAuthenticated
  <1> DEFINE I == which = "retry" => RetryInv
  <1>1. Init => I
    BY HostInit, RetryInit
  <1>2. I /\ [Next]_<<which, all>> => I'
    <2> SUFFICES ASSUME RetryInv, Retry!Next \/ UNCHANGED Retry!vars PROVE RetryInv'
      BY HostStep
    <2>1. CASE Retry!Next
      BY <2>1, RetryRuns, RetryTree, RetryDrains, RetryRearms, RetryRestarts DEF Retry!Next
    <2>2. CASE UNCHANGED Retry!vars
      BY <2>2 DEF Retry!vars, Retry!evidence, Retry!memory, Retry!Current, Retry!Fence,
                  Retry!Idle, RetryInv, RetryTyped, RowHeld, Staged,
                  Retry!RetryIsAuthenticated
    <2>3. QED
      BY <2>1, <2>2
  <1>3. I => RetryIsAuthenticated
    BY DEF RetryInv, RetryIsAuthenticated
  <1> QED
    BY <1>1, <1>2, <1>3, PTL DEF Spec
(***************************************************************************)
(* A ticket holds exactly the slots its state calls for, whatever pauses,  *)
(* cancellations, configurations and restarts come between, for every      *)
(* set of projects, tickets and configurations.                            *)
(*                                                                         *)
(* SlotsMatchTickets speaks of a daemon that serves; CapHeld says it in    *)
(* every state, and adds why a release or a new start never splits a pair: *)
(* the two slots of a ticket are of one runner.  CapTyped keeps what was   *)
(* read before the start's transaction within the configurations.          *)
(***************************************************************************)
CapStates == {"absent", "queued", "active", "paused", "blocked", "stopping", "cancelling",
              "cancelled", "done"}
CapTickets == [p : Projects \cup {"none"}, src : Sources \cup {"none"}, st : CapStates,
               r : Nat, cfg : Configs \cup {"none"}]
CapSlots == [k : Projects \cup {"machine"}, n : Nat, t : Tickets, r : Nat]

CapTyped ==
    /\ project \in [Projects -> [life : {"absent", "active", "removed"}, reg : Nat,
                                 gens : Seq(Configs)]]
    /\ \A p \in Projects : project[p].life = "active" => Len(project[p].gens) > 0
    /\ ticket \in [Tickets -> CapTickets]
    /\ \A t \in Tickets : ticket[t].st # "absent" => ticket[t].p \in Projects
    /\ \A t \in Tickets : ticket[t].st \in {"active", "paused", "blocked", "stopping"} =>
          ticket[t].cfg \in Configs
    /\ slots \subseteq CapSlots
    /\ writer \in [Tickets -> Capacity!Unclear \cup {"none"}]
    /\ begun \subseteq [t : Tickets, r : Nat, cfg : Configs]

\* A slot of the ticket in the scope.
Holds(t, k) == \E s \in slots : s.t = t /\ s.k = k

CapHeld ==
    /\ \A s \in slots : Capacity!WithinFrozenLimits(s)
    /\ \A s, u \in slots : s.t = u.t => s.r = u.r /\ (s.k = u.k => s = u)
    /\ \A s \in slots : Holds(s.t, "machine") /\ Holds(s.t, ticket[s.t].p)
    /\ \A s \in slots : ticket[s.t].st \notin {"absent", "queued", "cancelled", "done"}
    /\ \A t \in Tickets : ticket[t].st \in {"active", "blocked"} => Holds(t, "machine")

CapRemoved ==
    \A t \in Tickets : ticket[t].p \in Projects /\ project[ticket[t].p].life = "removed" =>
        ticket[t].st \in {"cancelled", "done"} /\ writer[t] = "none"

CapInv == CapTyped /\ CapHeld /\ CapRemoved

\* Nothing is held before the first start.
LEMMA CapInit == Capacity!Init => CapInv
  BY DEF Capacity!Init, Capacity!NoTicket, CapInv, CapTyped, CapTickets, CapStates, CapHeld,
         CapRemoved

\* Both limits of a configuration are the same small number here.
LEMMA CapLimit ==
    ASSUME NEW p, NEW c \in Configs, NEW q \in Capacity!LeaseRequests(p, c)
    PROVE  /\ q.cap \in {1, 2} /\ q.k \in {"machine", p}
           /\ \A x \in Capacity!LeaseRequests(p, c) : x.k = q.k => x = q
  BY DEF Capacity!LeaseRequests, Limit

\* acquireLease takes a slot that nobody has, within the limit.
LEMMA CapAcquire ==
    ASSUME NEW p, NEW c \in Configs, NEW q \in Capacity!LeaseRequests(p, c),
           Capacity!FreeSlots(q) # {}, NEW t, NEW r
    PROVE  LET s == Capacity!AcquireLease(q, t, r)
           IN  s = [k |-> q.k, n |-> s.n, t |-> t, r |-> r] /\ s.n \in Nat /\ s.n < q.cap
  <1>1. q.cap \in {1, 2}
    BY CapLimit
  <1>2. Capacity!FreeSlots(q) \subseteq {0, 1}
    BY <1>1 DEF Capacity!FreeSlots
  <1>3. \E n \in Capacity!FreeSlots(q) : \A m \in Capacity!FreeSlots(q) : n <= m
    BY <1>2
  <1> DEFINE n == CHOOSE n \in Capacity!FreeSlots(q) : \A m \in Capacity!FreeSlots(q) : n <= m
  <1>4. n \in Capacity!FreeSlots(q)
    BY <1>3
  <1>5. n \in Nat /\ n < q.cap
    BY <1>1, <1>4 DEF Capacity!FreeSlots
  <1> QED
    BY <1>5 DEF Capacity!AcquireLease

\* Projects come, change and go; a removal finds nothing to run.
LEMMA CapProjects ==
    ASSUME CapInv, NEW p \in Projects, NEW c,
           \/ /\ c \in Configs
              /\ Capacity!RegisterProject(p, c) \/ Capacity!ApplyProjectConfiguration(p, c)
           \/ Capacity!Preview(p) \/ Capacity!RemoveProject(p)
    PROVE  CapInv'
  <1> USE DEF CapInv, CapTyped
  <1>1. UNCHANGED <<ticket, slots, writer, begun>>
    BY DEF Capacity!RegisterProject, Capacity!ApplyProjectConfiguration, Capacity!Preview,
           Capacity!RemoveProject
  <1>2. /\ project' \in [Projects -> [life : {"absent", "active", "removed"}, reg : Nat,
                                      gens : Seq(Configs)]]
        /\ \A x \in Projects : project'[x].life = "active" => Len(project'[x].gens) > 0
    <2>1. CASE c \in Configs /\ Capacity!RegisterProject(p, c)
      <3> DEFINE g == IF c \in Capacity!ToSet(project[p].gens) THEN project[p].gens
                      ELSE Append(project[p].gens, c)
                 row == [life |-> "active", reg |-> project[p].reg + 1, gens |-> g]
      <3>1. project[p].gens \in Seq(Configs) /\ project[p].reg \in Nat
        OBVIOUS
      <3>2. g \in Seq(Configs) /\ Len(g) > 0
        BY <2>1, <3>1 DEF Capacity!ToSet
      <3>3. row \in [life : {"absent", "active", "removed"}, reg : Nat, gens : Seq(Configs)]
        BY <3>1, <3>2
      <3>4. project' = [project EXCEPT ![p] = row]
        BY <2>1 DEF Capacity!RegisterProject
      <3>5. row.gens = g
        OBVIOUS
      <3> HIDE DEF row, g
      <3>6. QED
        BY <3>2, <3>3, <3>4, <3>5
    <2>2. CASE c \in Configs /\ Capacity!ApplyProjectConfiguration(p, c)
      <3> DEFINE g == Append(project[p].gens, c)
                 R == [life : {"absent", "active", "removed"}, reg : Nat, gens : Seq(Configs)]
      <3>1. g \in Seq(Configs) /\ Len(g) > 0
        BY <2>2
      <3>2. PICK n \in Nat : n = project[p].reg + 1
        OBVIOUS
      <3>3. project' = [project EXCEPT ![p] = [@ EXCEPT !.gens = g, !.reg = n]]
        BY <2>2, <3>2 DEF Capacity!ApplyProjectConfiguration
      <3> HIDE DEF g
      <3>4. /\ [project[p] EXCEPT !.gens = g, !.reg = n] \in R
            /\ [project[p] EXCEPT !.gens = g, !.reg = n].gens = g
        BY <3>1
      <3>5. QED
        BY <3>1, <3>3, <3>4
    <2>3. CASE Capacity!Preview(p)
      BY <2>3 DEF Capacity!Preview
    <2>4. CASE Capacity!RemoveProject(p)
      <3> DEFINE R == [life : {"absent", "active", "removed"}, reg : Nat, gens : Seq(Configs)]
      <3>1. project[p].reg + 1 \in Nat
        OBVIOUS
      <3>2. PICK n \in Nat : n = project[p].reg + 1
        BY <3>1
      <3>3. project' = [project EXCEPT ![p] = [@ EXCEPT !.life = "removed", !.reg = n]]
        BY <2>4, <3>2 DEF Capacity!RemoveProject
      <3>4. /\ [project[p] EXCEPT !.life = "removed", !.reg = n] \in R
            /\ [project[p] EXCEPT !.life = "removed", !.reg = n].life = "removed"
        OBVIOUS
      <3>5. QED
        BY <3>3, <3>4
    <2>5. QED
      BY <2>1, <2>2, <2>3, <2>4
  <1>3. CapTyped'
    BY <1>1, <1>2
  <1>4. CapHeld'
    BY <1>1 DEF CapHeld, Holds, Capacity!WithinFrozenLimits, Capacity!LeaseRequests
  <1>5. CapRemoved'
    <2>1. \A x \in Projects : project'[x].life = "removed" =>
            project[x].life = "removed" \/ (x = p /\ Capacity!CanRemove(p))
      BY DEF Capacity!RegisterProject, Capacity!ApplyProjectConfiguration, Capacity!Preview,
             Capacity!RemoveProject
    <2>2. QED
      BY <1>1, <2>1 DEF CapRemoved, Capacity!CanRemove, Capacity!Of, Capacity!Terminal
  <1> QED
    BY <1>3, <1>4, <1>5

\* States in which a ticket has no slots.
CapIdle == {"absent", "queued", "cancelled", "done"}

\* A step that moves tickets on and leaves the slots alone.
LEMMA CapKeeps ==
    ASSUME CapInv, slots' = slots,
           \A u \in Tickets :
               /\ ticket[u].st \notin CapIdle =>
                     ticket'[u].p = ticket[u].p /\ ticket'[u].cfg = ticket[u].cfg
               /\ ticket'[u].st \in CapIdle => ticket[u].st \in CapIdle
               /\ ticket'[u].st \in {"active", "blocked"} => Holds(u, "machine")
    PROVE  CapHeld'
  <1>1. \A s \in slots : /\ s.t \in Tickets /\ ticket[s.t].st \notin CapIdle
                        /\ ticket'[s.t].p = ticket[s.t].p /\ ticket'[s.t].cfg = ticket[s.t].cfg
                        /\ ticket'[s.t].st \notin CapIdle
    BY DEF CapInv, CapTyped, CapSlots, CapHeld, CapIdle
  <1>2. \A s \in slots : Capacity!WithinFrozenLimits(s)'
    BY <1>1 DEF CapInv, CapHeld, Capacity!WithinFrozenLimits, Capacity!LeaseRequests
  <1>3. \A s \in slots : Holds(s.t, "machine")' /\ Holds(s.t, ticket[s.t].p)'
    <2> SUFFICES ASSUME NEW s \in slots PROVE Holds(s.t, "machine")' /\ Holds(s.t, ticket[s.t].p)'
      OBVIOUS
    <2>1. Holds(s.t, "machine") /\ Holds(s.t, ticket[s.t].p)
      BY DEF CapInv, CapHeld
    <2>2. QED
      BY <1>1, <2>1 DEF Holds
  <1>4. \A u \in Tickets : ticket'[u].st \in {"active", "blocked"} => Holds(u, "machine")'
    BY DEF Holds
  <1> QED
    BY <1>1, <1>2, <1>3, <1>4 DEF CapInv, CapHeld, CapIdle

\* A step that gives up all slots of one ticket.
LEMMA CapDrops ==
    ASSUME CapInv, NEW t \in Tickets, slots' = slots \ Capacity!Held(t),
           ticket'[t].st \notin {"active", "blocked"},
           \A u \in Tickets \ {t} : ticket'[u] = ticket[u]
    PROVE  CapHeld'
  <1>1. \A s \in slots' : s \in slots /\ s.t \in Tickets \ {t}
    BY DEF CapInv, CapTyped, CapSlots, Capacity!Held
  <1>2. \A s \in slots : s.t # t => s \in slots'
    BY DEF Capacity!Held
  <1>3. \A s \in slots' : Capacity!WithinFrozenLimits(s)'
    BY <1>1 DEF CapInv, CapHeld, Capacity!WithinFrozenLimits, Capacity!LeaseRequests
  <1>4. \A s \in slots' : Holds(s.t, "machine")' /\ Holds(s.t, ticket[s.t].p)'
    <2> SUFFICES ASSUME NEW s \in slots' PROVE Holds(s.t, "machine")' /\ Holds(s.t, ticket[s.t].p)'
      OBVIOUS
    <2>1. Holds(s.t, "machine") /\ Holds(s.t, ticket[s.t].p)
      BY <1>1 DEF CapInv, CapHeld
    <2>2. QED
      BY <1>1, <1>2, <2>1 DEF Holds
  <1>5. \A u \in Tickets : ticket'[u].st \in {"active", "blocked"} => Holds(u, "machine")'
    <2> SUFFICES ASSUME NEW u \in Tickets, ticket'[u].st \in {"active", "blocked"}
                 PROVE  Holds(u, "machine")'
      OBVIOUS
    <2>1. u # t /\ Holds(u, "machine")
      BY DEF CapInv, CapHeld
    <2>2. QED
      BY <1>2, <2>1 DEF Holds
  <1>6. \A s \in slots' : ticket'[s.t].st \notin {"absent", "queued", "cancelled", "done"}
    BY <1>1 DEF CapInv, CapHeld
  <1>7. \A s, u \in slots' : s.t = u.t => s.r = u.r /\ (s.k = u.k => s = u)
    BY <1>1 DEF CapInv, CapHeld
  <1> QED
    BY <1>3, <1>4, <1>5, <1>6, <1>7 DEF CapHeld

\* A step that takes both slots of a ticket that has none.
LEMMA CapAdds ==
    ASSUME CapInv, NEW t \in Tickets, NEW r \in Nat, NEW c \in Configs,
           Capacity!Held(t) = {},
           \A q \in Capacity!LeaseRequests(ticket[t].p, c) : Capacity!FreeSlots(q) # {},
           slots' = slots \cup {Capacity!AcquireLease(q, t, r) :
                                   q \in Capacity!LeaseRequests(ticket[t].p, c)},
           ticket[t].p \in Projects,
           ticket'[t].p = ticket[t].p, ticket'[t].cfg = c, ticket'[t].st \in {"active", "blocked"},
           \A u \in Tickets \ {t} : ticket'[u] = ticket[u]
    PROVE  CapHeld' /\ slots' \subseteq CapSlots
  <1> DEFINE qs == Capacity!LeaseRequests(ticket[t].p, c)
             L(q) == Capacity!AcquireLease(q, t, r)
  <1>1. \A q \in qs : /\ L(q).k = q.k /\ L(q).t = t /\ L(q).r = r /\ L(q).n < q.cap
                      /\ L(q) \in CapSlots
    <2> SUFFICES ASSUME NEW q \in qs
                 PROVE  /\ L(q).k = q.k /\ L(q).t = t /\ L(q).r = r /\ L(q).n < q.cap
                        /\ L(q) \in CapSlots
      OBVIOUS
    <2>1. L(q) = [k |-> q.k, n |-> L(q).n, t |-> t, r |-> r] /\ L(q).n \in Nat /\ L(q).n < q.cap
      BY CapAcquire
    <2>2. q.k \in Projects \cup {"machine"}
      BY CapLimit
    <2> HIDE DEF L
    <2>3. QED
      BY <2>1, <2>2 DEF CapSlots
  <1>2. \A q, x \in qs : x.k = q.k => x = q
    BY CapLimit
  <1>3. \E q \in qs : q.k = "machine"
    BY DEF Capacity!LeaseRequests
  <1>4. \E q \in qs : q.k = ticket[t].p
    BY DEF Capacity!LeaseRequests
  <1>5. qs = Capacity!LeaseRequests(ticket'[t].p, ticket'[t].cfg)
    OBVIOUS
  <1>6. \A s \in slots : s.t # t
    BY DEF Capacity!Held
  <1>7. \A s \in slots' : (s \in slots /\ s.t # t) \/ (s.t = t /\ \E q \in qs : s = L(q))
    BY <1>1, <1>6
  <1>8. \A q \in qs : L(q) \in slots'
    OBVIOUS
  <1> HIDE DEF qs, L
  <1>9. slots' \subseteq CapSlots
    BY <1>1, <1>7 DEF CapInv, CapTyped
  <1>10. \A s \in slots' : Capacity!WithinFrozenLimits(s)'
    <2> SUFFICES ASSUME NEW s \in slots' PROVE Capacity!WithinFrozenLimits(s)'
      OBVIOUS
    <2>1. CASE s \in slots /\ s.t # t
      BY <2>1, <1>9 DEF CapInv, CapHeld, CapSlots, Capacity!WithinFrozenLimits,
                        Capacity!LeaseRequests
    <2>2. CASE s.t = t /\ \E q \in qs : s = L(q)
      BY <2>2, <1>1, <1>5 DEF Capacity!WithinFrozenLimits, Capacity!LeaseRequests
    <2>3. QED
      BY <1>7, <2>1, <2>2
  <1>11. \A s, u \in slots' : s.t = u.t => s.r = u.r /\ (s.k = u.k => s = u)
    BY <1>1, <1>2, <1>7 DEF CapInv, CapHeld
  <1>12. Holds(t, "machine")' /\ Holds(t, ticket[t].p)'
    BY <1>1, <1>3, <1>4, <1>8 DEF Holds
  <1>13. \A s \in slots' : Holds(s.t, "machine")' /\ Holds(s.t, ticket[s.t].p)'
    <2> SUFFICES ASSUME NEW s \in slots' PROVE Holds(s.t, "machine")' /\ Holds(s.t, ticket[s.t].p)'
      OBVIOUS
    <2>1. CASE s.t = t
      BY <1>12, <2>1
    <2>2. CASE s \in slots /\ s.t # t
      <3>1. Holds(s.t, "machine") /\ Holds(s.t, ticket[s.t].p) /\ s.t \in Tickets
        BY <2>2, <1>9 DEF CapInv, CapHeld, CapSlots
      <3>2. QED
        BY <2>2, <3>1 DEF Holds
    <2>3. QED
      BY <1>7, <2>1, <2>2
  <1>14. \A s \in slots' : ticket'[s.t].st \notin {"absent", "queued", "cancelled", "done"}
    BY <1>7, <1>9 DEF CapInv, CapHeld, CapSlots
  <1>15. \A u \in Tickets : ticket'[u].st \in {"active", "blocked"} => Holds(u, "machine")'
    BY <1>12 DEF CapInv, CapHeld, Holds
  <1> QED
    BY <1>9, <1>10, <1>11, <1>13, <1>14, <1>15 DEF CapHeld

\* A removed project stays without work.
LEMMA CapQuiet ==
    ASSUME CapInv, project' = project,
           \A u \in Tickets :
               /\ ticket'[u].p = ticket[u].p
               /\ ticket[u].st \in {"cancelled", "done"} =>
                     ticket'[u].st = ticket[u].st /\ (writer[u] = "none" => writer'[u] = "none")
    PROVE  CapRemoved'
  BY DEF CapInv, CapRemoved

\* A step of one ticket that keeps its project and configuration.
LEMMA CapTypes ==
    ASSUME CapInv, NEW t \in Tickets, NEW st \in CapStates \ {"absent"}, NEW r \in Nat,
           ticket' = [ticket EXCEPT ![t].st = st] \/ ticket' = [ticket EXCEPT ![t].st = st, ![t].r = r],
           ticket[t].st # "absent",
           st \in {"active", "paused", "blocked", "stopping"} => ticket[t].cfg \in Configs,
           UNCHANGED <<project, writer, begun>>, slots' \subseteq CapSlots
    PROVE  /\ CapTyped' /\ ticket'[t].st = st
           /\ ticket'[t].p = ticket[t].p /\ ticket'[t].cfg = ticket[t].cfg
           /\ \A u \in Tickets \ {t} : ticket'[u] = ticket[u]
  <1> USE DEF CapInv, CapTyped
  <1>1. \A u \in Tickets \ {t} : ticket'[u] = ticket[u]
    OBVIOUS
  <1>2. ticket[t] \in CapTickets
    OBVIOUS
  <1>3. ticket'[t].st = st /\ ticket'[t].p = ticket[t].p /\ ticket'[t].cfg = ticket[t].cfg
    BY <1>2 DEF CapTickets
  <1>4. ticket'[t] \in CapTickets
    <2>1. CASE ticket' = [ticket EXCEPT ![t].st = st]
      BY <1>2, <2>1 DEF CapTickets
    <2>2. CASE ticket' = [ticket EXCEPT ![t].st = st, ![t].r = r]
      <3>1. ticket'[t] = [ticket[t] EXCEPT !.st = st, !.r = r]
        BY <2>2
      <3>2. QED
        BY <1>2, <3>1 DEF CapTickets
    <2>3. QED
      BY <2>1, <2>2
  <1>5. ticket' \in [Tickets -> CapTickets]
    BY <1>1, <1>4
  <1> QED
    BY <1>1, <1>3, <1>5

\* Rests and recovery of a ticket, and an operator's control of it: the slots stay.
LEMMA CapRests ==
    ASSUME CapInv, NEW t \in Tickets,
           \/ Capacity!Rests(t) \/ Capacity!Recovers(t) \/ Capacity!Stop(t) \/ Capacity!Cancel(t)
    PROVE  CapInv'
  <1>1. /\ UNCHANGED <<project, slots, writer, begun>>
        /\ ticket[t].st \in {"queued", "active", "paused", "blocked", "stopping"}
        /\ ticket[t].r \in Nat
    BY DEF Capacity!Rests, Capacity!Recovers, Capacity!Stop, Capacity!Cancel, Capacity!Control,
           CapInv, CapTyped, CapTickets
  <1>2. PICK st \in {"paused", "blocked", "active", "stopping", "cancelling"}, r \in Nat :
          /\ ticket' = [ticket EXCEPT ![t].st = st] \/ ticket' = [ticket EXCEPT ![t].st = st, ![t].r = r]
          /\ st # "cancelling" => ticket[t].st \in {"active", "blocked"}
    <2>1. CASE Capacity!Rests(t)
      BY <2>1, <1>1 DEF Capacity!Rests, Capacity!Move
    <2>2. CASE Capacity!Recovers(t)
      BY <2>2, <1>1 DEF Capacity!Recovers, Capacity!Move
    <2>3. CASE Capacity!Stop(t)
      <3>1. ticket' = [ticket EXCEPT ![t].st = "stopping", ![t].r = ticket[t].r + 1]
        BY <2>3 DEF Capacity!Stop, Capacity!Control
      <3>2. ticket[t].r + 1 \in Nat
        BY <1>1
      <3>3. QED
        BY <2>3, <3>1, <3>2 DEF Capacity!Stop, Capacity!Control
    <2>4. CASE Capacity!Cancel(t)
      <3>1. ticket' = [ticket EXCEPT ![t].st = "cancelling", ![t].r = ticket[t].r + 1]
        BY <2>4 DEF Capacity!Cancel, Capacity!Control
      <3>2. ticket[t].r + 1 \in Nat
        BY <1>1
      <3>3. QED
        BY <2>4, <3>1, <3>2 DEF Capacity!Cancel, Capacity!Control
    <2>5. QED
      BY <2>1, <2>2, <2>3, <2>4
  <1>3. ticket[t].cfg \in Configs \/ st = "cancelling"
    BY <1>2 DEF CapInv, CapTyped
  <1>4. slots' \subseteq CapSlots
    BY <1>1 DEF CapInv, CapTyped
  <1>5. /\ CapTyped' /\ ticket'[t].st = st
        /\ ticket'[t].p = ticket[t].p /\ ticket'[t].cfg = ticket[t].cfg
        /\ \A u \in Tickets \ {t} : ticket'[u] = ticket[u]
    BY <1>1, <1>2, <1>3, <1>4, CapTypes DEF CapStates
  <1>6. \A u \in Tickets : ticket[u].st \in {"active", "blocked"} => Holds(u, "machine")
    BY DEF CapInv, CapHeld
  <1>7. CapHeld'
    BY <1>1, <1>2, <1>5, <1>6, CapKeeps DEF CapIdle
  <1>8. CapRemoved'
    BY <1>1, <1>5, CapQuiet
  <1> QED
    BY <1>5, <1>7, <1>8 DEF CapInv

\* Writers and daemons come and go: neither the slots nor the tickets' states move.
LEMMA CapDaemon ==
    ASSUME CapInv,
           \/ \E t \in Tickets : \/ Capacity!WriterBegins(t) \/ Capacity!WriterEnds(t)
                               \/ Capacity!DrainProvider(t)
           \/ \E b \in begun : Capacity!StartRefused(b)
           \/ Capacity!Crash \/ Capacity!FenceRecoveredRunners \/ Capacity!RecoverChannel
    PROVE  CapInv'
  <1>1. UNCHANGED <<project, slots>> /\ begun' \in {begun, {}}
    BY DEF Capacity!WriterBegins, Capacity!WriterEnds, Capacity!DrainProvider,
           Capacity!StartRefused, Capacity!Crash, Capacity!FenceRecoveredRunners,
           Capacity!RecoverChannel
  <1>2. /\ ticket' \in [Tickets -> CapTickets]
        /\ \A u \in Tickets : /\ ticket'[u].p = ticket[u].p /\ ticket'[u].cfg = ticket[u].cfg
                              /\ ticket'[u].st = ticket[u].st
    <2>1. CASE Capacity!FenceRecoveredRunners
      <3>1. ticket' = [t \in Tickets |->
                         IF ticket[t].st \in Capacity!Running THEN [ticket[t] EXCEPT !.r = @ + 1]
                         ELSE ticket[t]]
        BY <2>1 DEF Capacity!FenceRecoveredRunners
      <3>2. \A u \in Tickets : ticket[u] \in CapTickets
        BY DEF CapInv, CapTyped
      <3>3. \A u \in Tickets : [ticket[u] EXCEPT !.r = @ + 1] \in CapTickets
        BY <3>2 DEF CapTickets
      <3>4. \A u \in Tickets : LET x == [ticket[u] EXCEPT !.r = @ + 1]
                               IN  x.p = ticket[u].p /\ x.cfg = ticket[u].cfg /\ x.st = ticket[u].st
        BY <3>2 DEF CapTickets
      <3>5. QED
        BY <3>1, <3>2, <3>3, <3>4
    <2>2. CASE ~Capacity!FenceRecoveredRunners
      <3>1. ticket' = ticket
        BY <2>2 DEF Capacity!WriterBegins, Capacity!WriterEnds, Capacity!DrainProvider,
             Capacity!StartRefused, Capacity!Crash, Capacity!RecoverChannel
      <3>2. QED
        BY <3>1 DEF CapInv, CapTyped
    <2>3. QED
      BY <2>1, <2>2
  <1>3. /\ writer' \in [Tickets -> Capacity!Unclear \cup {"none"}]
        /\ \A u \in Tickets : ticket[u].st \in {"cancelled", "done"} /\ writer[u] = "none" =>
                              writer'[u] = "none"
    <2> USE DEF CapInv, CapTyped, Capacity!Unclear, Capacity!Kinds
    <2>1. CASE Capacity!FenceRecoveredRunners
      BY <2>1 DEF Capacity!FenceRecoveredRunners
    <2>2. CASE \E t \in Tickets : Capacity!WriterBegins(t)
      BY <2>2 DEF Capacity!WriterBegins
    <2>3. CASE \E t \in Tickets : Capacity!WriterEnds(t)
      <3>1. PICK t \in Tickets, w \in Capacity!Unclear \cup {"none"} :
              writer' = [writer EXCEPT ![t] = w] /\ writer[t] # "none"
        BY <2>3 DEF Capacity!WriterEnds
      <3>2. QED
        BY <3>1
    <2>4. CASE \E t \in Tickets : Capacity!DrainProvider(t)
      BY <2>4 DEF Capacity!DrainProvider
    <2>5. CASE (\E b \in begun : Capacity!StartRefused(b)) \/ Capacity!Crash \/ Capacity!RecoverChannel
      BY <2>5 DEF Capacity!StartRefused, Capacity!Crash, Capacity!RecoverChannel
    <2>6. QED
      BY <2>1, <2>2, <2>3, <2>4, <2>5
  <1>4. CapTyped'
    BY <1>1, <1>2, <1>3 DEF CapInv, CapTyped
  <1>5. \A u \in Tickets : ticket[u].st \in {"active", "blocked"} => Holds(u, "machine")
    BY DEF CapInv, CapHeld
  <1>6. CapHeld'
    BY <1>1, <1>2, <1>5, CapKeeps
  <1>7. CapRemoved'
    BY <1>1, <1>2, <1>3, CapQuiet
  <1> QED
    BY <1>4, <1>6, <1>7 DEF CapInv

\* A submission takes a ticket nobody had, of a project that is active.
LEMMA CapSubmit ==
    ASSUME CapInv, NEW p \in Projects, NEW src \in Sources, Capacity!SubmitTicket(p, src)
    PROVE  CapInv'
  <1>1. PICK t \in Tickets : /\ ticket[t].st = "absent"
                             /\ ticket' = [ticket EXCEPT ![t] = [Capacity!NoTicket EXCEPT
                                    !.p = p, !.src = src, !.st = "queued", !.r = 1]]
    BY DEF Capacity!SubmitTicket
  <1> DEFINE x == [Capacity!NoTicket EXCEPT !.p = p, !.src = src, !.st = "queued", !.r = 1]
  <1>2. x \in CapTickets /\ x.st = "queued" /\ x.p = p
    BY DEF Capacity!NoTicket, CapTickets, CapStates
  <1> HIDE DEF x
  <1>3. UNCHANGED <<project, slots, writer, begun>> /\ project[p].life = "active"
    BY DEF Capacity!SubmitTicket
  <1>4. ticket'[t] = x /\ \A u \in Tickets \ {t} : ticket'[u] = ticket[u]
    BY <1>1 DEF CapInv, CapTyped, x
  <1>5. ticket' \in [Tickets -> CapTickets]
    BY <1>1, <1>2 DEF CapInv, CapTyped, x
  <1>6. CapTyped'
    BY <1>2, <1>3, <1>4, <1>5 DEF CapInv, CapTyped
  <1>7. \A u \in Tickets : ticket[u].st \in {"active", "blocked"} => Holds(u, "machine")
    BY DEF CapInv, CapHeld
  <1>8. CapHeld'
    BY <1>1, <1>2, <1>3, <1>4, <1>7, CapKeeps DEF CapIdle
  <1>9. CapRemoved'
    BY <1>2, <1>3, <1>4 DEF CapInv, CapRemoved
  <1> QED
    BY <1>6, <1>8, <1>9 DEF CapInv

\* What a start reads first is a configuration of the project, whatever comes after.
LEMMA CapPreflight ==
    ASSUME CapInv, NEW t \in Tickets, Capacity!StartPreflight(t)
    PROVE  CapInv'
  <1>1. /\ UNCHANGED <<project, ticket, slots, writer>> /\ ticket[t].st = "queued"
        /\ project[ticket[t].p].life = "active"
        /\ begun' = {[t |-> t, r |-> ticket[t].r, cfg |-> Capacity!Current(ticket[t].p)]}
    BY DEF Capacity!StartPreflight
  <1>2. ticket[t].p \in Projects /\ ticket[t].r \in Nat
    BY <1>1 DEF CapInv, CapTyped, CapTickets
  <1>3. project[ticket[t].p].gens \in Seq(Configs) /\ Len(project[ticket[t].p].gens) > 0
    BY <1>1, <1>2 DEF CapInv, CapTyped
  <1>4. Capacity!Current(ticket[t].p) \in Configs
    BY <1>3 DEF Capacity!Current, Capacity!Last
  <1>5. CapTyped'
    BY <1>1, <1>2, <1>4 DEF CapInv, CapTyped
  <1>6. CapHeld'
    BY <1>1, CapKeeps DEF CapInv, CapHeld, Holds
  <1>7. CapRemoved'
    BY <1>1, CapQuiet
  <1> QED
    BY <1>5, <1>6, <1>7 DEF CapInv

\* The start's transaction looks again and takes both slots.
LEMMA CapStart ==
    ASSUME CapInv, NEW b \in begun, Capacity!StartWithOwnership(b)
    PROVE  CapInv'
  <1>1. b.t \in Tickets /\ b.r \in Nat /\ b.cfg \in Configs
    BY DEF CapInv, CapTyped
  <1> DEFINE t == b.t
             qs == Capacity!LeaseRequests(ticket[t].p, b.cfg)
             new == [ticket[t] EXCEPT !.st = "active", !.cfg = b.cfg]
  <1>2. /\ UNCHANGED <<project, writer>> /\ begun' = {} /\ ticket[t].st = "queued"
        /\ \A q \in qs : Capacity!FreeSlots(q) # {}
        /\ slots' = slots \cup {Capacity!AcquireLease(q, t, b.r) : q \in qs}
        /\ project[ticket[t].p].life = "active"
    BY DEF Capacity!StartWithOwnership
  <1>3. ticket' = [ticket EXCEPT ![t] = new]
    BY DEF Capacity!StartWithOwnership
  <1>4. ticket[t] \in CapTickets /\ ticket[t].p \in Projects
    BY <1>1, <1>2 DEF CapInv, CapTyped
  <1>5. new \in CapTickets /\ new.st = "active" /\ new.cfg = b.cfg /\ new.p = ticket[t].p
    BY <1>1, <1>4 DEF CapTickets, CapStates
  <1> HIDE DEF new
  <1>6. /\ ticket' \in [Tickets -> CapTickets] /\ ticket'[t] = new
        /\ \A u \in Tickets \ {t} : ticket'[u] = ticket[u]
    BY <1>1, <1>3, <1>5 DEF CapInv, CapTyped
  <1>7. Capacity!Held(t) = {}
    BY <1>1, <1>2 DEF CapInv, CapHeld, Capacity!Held
  <1>8. CapHeld' /\ slots' \subseteq CapSlots
    BY <1>1, <1>2, <1>4, <1>5, <1>6, <1>7, CapAdds
  <1>9. CapTyped'
    BY <1>1, <1>2, <1>4, <1>5, <1>6, <1>8 DEF CapInv, CapTyped
  <1>10. CapRemoved'
    BY <1>2, <1>5, <1>6 DEF CapInv, CapRemoved
  <1> QED
    BY <1>8, <1>9, <1>10 DEF CapInv

\* A release of the current runner's slots gives up both or neither.
LEMMA CapRelease ==
    ASSUME CapInv, NEW t \in Tickets, Capacity!ReleaseLeases(t)
    PROVE  CapInv'
  <1>1. /\ UNCHANGED <<project, ticket, writer, begun>> /\ ticket[t].st = "paused"
        /\ slots' = slots \ {s \in Capacity!Held(t) : s.r = ticket[t].r}
    BY DEF Capacity!ReleaseLeases
  <1>2. slots' \in {slots, slots \ Capacity!Held(t)}
    <2>1. \A s, u \in Capacity!Held(t) : s.r = u.r
      BY DEF CapInv, CapHeld, Capacity!Held
    <2>2. QED
      BY <1>1, <2>1
  <1>3. CapHeld'
    <2>1. CASE slots' = slots
      BY <1>1, <2>1, CapKeeps DEF CapInv, CapHeld, Holds
    <2>2. CASE slots' = slots \ Capacity!Held(t)
      BY <1>1, <2>2, CapDrops
    <2>3. QED
      BY <1>2, <2>1, <2>2
  <1>4. CapTyped'
    BY <1>1, <1>2 DEF CapInv, CapTyped
  <1>5. CapRemoved'
    BY <1>1, CapQuiet
  <1> QED
    BY <1>3, <1>4, <1>5 DEF CapInv

\* The end of a stop, of a cancellation and of the work gives up every slot.
LEMMA CapEnds ==
    ASSUME CapInv, NEW t \in Tickets, Capacity!CompleteControl(t) \/ Capacity!Finishes(t)
    PROVE  CapInv'
  <1>1. /\ UNCHANGED <<project, writer, begun>>
        /\ ticket[t].st \in {"active", "stopping", "cancelling"}
        /\ slots' = slots \ Capacity!Held(t)
    BY DEF Capacity!CompleteControl, Capacity!Finishes, Capacity!ReleaseTerminal
  <1>2. PICK st \in {"paused", "cancelled", "done"} :
          /\ ticket' = [ticket EXCEPT ![t].st = st]
          /\ st = "paused" => ticket[t].st = "stopping"
    BY DEF Capacity!CompleteControl, Capacity!Finishes, Capacity!Move
  <1>3. st = "paused" => ticket[t].cfg \in Configs
    BY <1>2 DEF CapInv, CapTyped
  <1>4. slots' \subseteq CapSlots
    BY <1>1 DEF CapInv, CapTyped
  <1>5. /\ CapTyped' /\ ticket'[t].st = st
        /\ ticket'[t].p = ticket[t].p /\ ticket'[t].cfg = ticket[t].cfg
        /\ \A u \in Tickets \ {t} : ticket'[u] = ticket[u]
    <2>1. 0 \in Nat /\ st \in CapStates \ {"absent"} /\ ticket[t].st # "absent"
      BY <1>1, <1>2 DEF CapStates
    <2>2. QED
      BY <1>1, <1>2, <1>3, <1>4, <2>1, CapTypes
  <1>6. CapHeld'
    BY <1>1, <1>2, <1>5, CapDrops
  <1>7. CapRemoved'
    BY <1>1, <1>5, CapQuiet
  <1> QED
    BY <1>5, <1>6, <1>7 DEF CapInv

\* A resume finds both slots of its runner and keeps them, or none and takes both.
LEMMA CapResumes ==
    ASSUME CapInv, NEW t \in Tickets, Capacity!Resumes(t)
    PROVE  CapInv'
  <1> DEFINE c == ticket[t].cfg
             qs == Capacity!LeaseRequests(ticket[t].p, c)
             own(q) == {s \in Capacity!Held(t) : s.k = q.k}
             r == ticket[t].r
  <1>1. /\ UNCHANGED <<project, writer, begun>> /\ ticket[t].st = "paused"
        /\ \A q \in qs : own(q) = {} => Capacity!FreeSlots(q) # {}
        /\ slots' = slots \cup {Capacity!AcquireLease(q, t, r) : q \in {x \in qs : own(x) = {}}}
    BY DEF Capacity!Resumes, Capacity!Reacquire
  <1>2. PICK st \in {"active", "blocked"} : ticket' = [ticket EXCEPT ![t].st = st]
    BY DEF Capacity!Resumes, Capacity!Move
  <1>3. c \in Configs /\ ticket[t].p \in Projects /\ r \in Nat
    BY <1>1 DEF CapInv, CapTyped, CapTickets
  <1>4. \A u \in Tickets \ {t} : ticket'[u] = ticket[u]
    BY <1>2 DEF CapInv, CapTyped
  <1>5. ticket'[t].st = st /\ ticket'[t].p = ticket[t].p /\ ticket'[t].cfg = c
    BY <1>2 DEF CapInv, CapTyped, CapTickets
  <1>6. CapHeld' /\ slots' \subseteq CapSlots
    <2>1. CASE Capacity!Held(t) = {}
      <3>1. {x \in qs : own(x) = {}} = qs
        BY <2>1
      <3>2. \A q \in qs : Capacity!FreeSlots(q) # {}
        BY <1>1, <3>1
      <3>3. slots' = slots \cup {Capacity!AcquireLease(q, t, r) : q \in qs}
        BY <1>1, <3>1
      <3> HIDE DEF c, r
      <3>4. QED
        BY <1>3, <1>4, <1>5, <2>1, <3>2, <3>3, CapAdds
    <2>2. CASE Capacity!Held(t) # {}
      <3>1. Holds(t, "machine") /\ Holds(t, ticket[t].p)
        BY <2>2 DEF CapInv, CapHeld, Capacity!Held
      <3>2. \A q \in qs : q.k \in {"machine", ticket[t].p}
        BY DEF Capacity!LeaseRequests
      <3>3. \A q \in qs : own(q) # {}
        BY <3>1, <3>2 DEF Holds, Capacity!Held
      <3>4. slots' = slots
        BY <1>1, <3>3
      <3>5. \A u \in Tickets : ticket'[u].st \in {"active", "blocked"} => Holds(u, "machine")
        BY <1>4, <3>1 DEF CapInv, CapHeld
      <3>6. QED
        BY <1>1, <1>4, <1>5, <3>4, <3>5, CapKeeps DEF CapIdle, CapInv, CapTyped
    <2>3. QED
      BY <2>1, <2>2
  <1>7. CapTyped'
    <2>1. st \in CapStates \ {"absent"} /\ ticket[t].st # "absent"
      BY <1>1 DEF CapStates
    <2>2. QED
      BY <1>1, <1>2, <1>3, <1>6, <2>1, CapTypes
  <1>8. CapRemoved'
    BY <1>1, <1>4, <1>5, CapQuiet
  <1> QED
    BY <1>6, <1>7, <1>8 DEF CapInv

\* An adoption moves the whole group of a ticket to its new runner.
LEMMA CapAdopts ==
    ASSUME CapInv, NEW t \in Tickets, Capacity!AdoptInvalidatedLeases(t)
    PROVE  CapInv'
  <1> DEFINE A(s) == IF s.t = t THEN [s EXCEPT !.r = ticket[t].r] ELSE s
  <1>1. UNCHANGED <<project, ticket, writer, begun>> /\ slots' = {A(s) : s \in slots}
    BY DEF Capacity!AdoptInvalidatedLeases
  <1>2. \A s \in slots : /\ A(s) \in CapSlots /\ A(s).k = s.k /\ A(s).n = s.n /\ A(s).t = s.t
                         /\ A(s).r = IF s.t = t THEN ticket[t].r ELSE s.r
    <2> SUFFICES ASSUME NEW s \in CapSlots
                 PROVE  /\ A(s) \in CapSlots /\ A(s).k = s.k /\ A(s).n = s.n /\ A(s).t = s.t
                        /\ A(s).r = IF s.t = t THEN ticket[t].r ELSE s.r
      BY DEF CapInv, CapTyped
    <2>1. ticket[t].r \in Nat
      BY DEF CapInv, CapTyped, CapTickets
    <2>2. QED
      BY <2>1 DEF CapSlots
  <1> HIDE DEF A
  <1>3. slots' \subseteq CapSlots
    BY <1>1, <1>2
  <1>4. \A x \in slots' : \E s \in slots : x = A(s)
    BY <1>1
  <1>5. \A s \in slots : Capacity!WithinFrozenLimits(A(s))
    BY <1>2 DEF CapInv, CapHeld, Capacity!WithinFrozenLimits
  <1>6. \A x \in slots' : Capacity!WithinFrozenLimits(x)'
    BY <1>1, <1>5 DEF Capacity!WithinFrozenLimits, Capacity!LeaseRequests
  <1>7. \A x, y \in slots' : x.t = y.t => x.r = y.r /\ (x.k = y.k => x = y)
    BY <1>2, <1>4 DEF CapInv, CapHeld
  <1>8. \A u, k : Holds(u, k) => Holds(u, k)'
    BY <1>1, <1>2 DEF Holds
  <1>9. \A x \in slots' : Holds(x.t, "machine")' /\ Holds(x.t, ticket[x.t].p)'
    <2> SUFFICES ASSUME NEW x \in slots' PROVE Holds(x.t, "machine")' /\ Holds(x.t, ticket[x.t].p)'
      OBVIOUS
    <2>1. PICK s \in slots : x = A(s)
      BY <1>4
    <2>2. Holds(x.t, "machine") /\ Holds(x.t, ticket[x.t].p)
      BY <1>2, <2>1 DEF CapInv, CapHeld
    <2>3. QED
      BY <1>1, <1>8, <2>2
  <1>10. /\ \A x \in slots' : ticket'[x.t].st \notin {"absent", "queued", "cancelled", "done"}
         /\ \A u \in Tickets : ticket'[u].st \in {"active", "blocked"} => Holds(u, "machine")'
    BY <1>1, <1>2, <1>4, <1>8 DEF CapInv, CapHeld
  <1>11. CapHeld'
    BY <1>6, <1>7, <1>9, <1>10 DEF CapHeld
  <1>12. CapTyped'
    BY <1>1, <1>3 DEF CapInv, CapTyped
  <1>13. CapRemoved'
    BY <1>1, CapQuiet
  <1> QED
    BY <1>11, <1>12, <1>13 DEF CapInv

\* Two different things make a set of two.
LEMMA PairHasTwo == \A x, y : x # y => Cardinality({x, y}) = 2
  <1> SUFFICES ASSUME NEW x, NEW y, x # y PROVE Cardinality({x, y}) = 2
    OBVIOUS
  <1> DEFINE S == {x}
  <1>1. IsFiniteSet(S) /\ Cardinality(S) = 1
    BY FS_Singleton
  <1>2. y \notin S
    OBVIOUS
  <1>3. {x, y} = S \cup {y}
    OBVIOUS
  <1> HIDE DEF S
  <1>4. Cardinality(S \cup {y}) = Cardinality(S) + 1
    BY <1>1, <1>2, FS_AddElement, SMTT(30)
  <1>5. QED
    BY <1>1, <1>3, <1>4

\* The invariant of every state says what SlotsMatchTickets asks of a serving daemon.
LEMMA CapMatches == CapInv => Capacity!SlotsMatchTickets
  <1> SUFFICES ASSUME CapInv PROVE Capacity!SlotsMatchTickets
    OBVIOUS
  <1>1. \A s \in slots : s.k \in {"machine", ticket[s.t].p}
    BY DEF CapInv, CapHeld, Capacity!WithinFrozenLimits, Capacity!LeaseRequests
  <1>2. ASSUME NEW t \in Tickets
        PROVE  /\ Capacity!Cardinality(Capacity!Held(t)) =
                     Capacity!Cardinality({s.k : s \in Capacity!Held(t)})
               /\ ticket[t].st \in {"active", "blocked"} =>
                     {s.k : s \in Capacity!Held(t)} = {"machine", ticket[t].p}
               /\ ticket[t].st \in {"absent", "queued", "cancelled", "done"} =>
                     Capacity!Held(t) = {}
               /\ {s.k : s \in Capacity!Held(t)} \in {{}, {"machine", ticket[t].p}}
    <2> DEFINE H == Capacity!Held(t)
               K == {s.k : s \in H}
    <2>1. \A s \in H : s \in slots /\ s.t = t
      BY DEF Capacity!Held
    <2>2. \A s \in slots : s.t = t => s \in H
      BY DEF Capacity!Held
    <2> HIDE DEF H
    <2>3. ticket[t].st \in {"absent", "queued", "cancelled", "done"} => H = {}
      BY <2>1 DEF CapInv, CapHeld
    <2>4. CASE H = {}
      <3>1. K = {}
        BY <2>4
      <3>2. ticket[t].st \notin {"active", "blocked"}
        BY <2>2, <2>4 DEF CapInv, CapHeld, Holds
      <3>3. QED
        BY <2>4, <3>1, <3>2 DEF H
    <2>5. CASE H # {}
      <3>1. Holds(t, "machine") /\ Holds(t, ticket[t].p)
        BY <2>1, <2>5 DEF CapInv, CapHeld
      <3>2. PICK a \in H : a.k = "machine"
        BY <2>2, <3>1 DEF Holds
      <3>3. PICK b \in H : b.k = ticket[t].p
        BY <2>2, <3>1 DEF Holds
      <3>4. \A s, u \in H : s.k = u.k => s = u
        BY <2>1 DEF CapInv, CapHeld
      <3>5. H = {a, b}
        BY <1>1, <2>1, <3>2, <3>3, <3>4
      <3>6. K = {a.k, b.k}
        BY <3>5
      <3>7. Cardinality(H) = Cardinality(K)
        <4>1. CASE a = b
          <5>1. H = {a} /\ K = {a.k}
            BY <3>5, <3>6, <4>1
          <5>2. QED
            BY <5>1, FS_Singleton
        <4>2. CASE a # b
          <5>1. a.k # b.k
            BY <3>4, <4>2
          <5>2. \A x, y : x # y => Cardinality({x, y}) = 2
            BY PairHasTwo
          <5>3. Cardinality({a, b}) = 2 /\ Cardinality({a.k, b.k}) = 2
            BY <4>2, <5>1, <5>2
          <5>4. QED
            BY <3>5, <3>6, <5>3
        <4>3. QED
          BY <4>1, <4>2
      <3>8. Capacity!Cardinality(H) = Capacity!Cardinality(K)
        BY <3>7 DEF Capacity!Cardinality, Cardinality
      <3>9. QED
        BY <2>3, <2>5, <3>2, <3>3, <3>6, <3>8 DEF H
    <2>6. QED
      BY <2>4, <2>5
  <1>3. \A p \in Projects : project[p].life = "removed" =>
          \A t \in Capacity!Of(p) : /\ ticket[t].st \in {"cancelled", "done"}
                                    /\ Capacity!Held(t) = {} /\ writer[t] = "none"
    BY <1>2 DEF CapInv, CapRemoved, Capacity!Of
  <1> QED
    BY <1>2, <1>3 DEF CapInv, CapHeld, Capacity!SlotsMatchTickets, Capacity!Terminal

\* Slots are within the limits of the ticket's own start, a ticket that runs has both of its
\* slots and one that waits or is finished none, and of a removed project nothing is left to
\* run (lease.go, resume_capacity.go, project_lifecycle.go).
THEOREM CapacitySlotsMatch == Spec => []SlotsMatchTickets
  <1> DEFINE I == which = "capacity" => CapInv
  <1>1. Init => I
    BY HostInit, CapInit
  <1>2. I /\ [Next]_<<which, all>> => I'
    <2> SUFFICES ASSUME CapInv, Capacity!Next \/ UNCHANGED Capacity!vars PROVE CapInv'
      BY HostStep
    <2>1. CASE Capacity!Next
      <3>1. CASE \E p \in Projects, c \in Configs : \/ Capacity!RegisterProject(p, c)
                                                  \/ Capacity!ApplyProjectConfiguration(p, c)
        BY <3>1, CapProjects
      <3>2. CASE \E p \in Projects : Capacity!Preview(p) \/ Capacity!RemoveProject(p)
        BY <3>2, CapProjects
      <3>3. CASE \E p \in Projects, src \in Sources : Capacity!SubmitTicket(p, src)
        BY <3>3, CapSubmit
      <3>4. CASE \E b \in begun : Capacity!StartWithOwnership(b) \/ Capacity!StartRefused(b)
        BY <3>4, CapStart, CapDaemon
      <3>5. ASSUME NEW t \in Tickets,
                   \/ Capacity!StartPreflight(t) \/ Capacity!WriterBegins(t)
                   \/ Capacity!WriterEnds(t) \/ Capacity!Rests(t) \/ Capacity!Recovers(t)
                   \/ Capacity!ReleaseLeases(t) \/ Capacity!Resumes(t) \/ Capacity!Stop(t)
                   \/ Capacity!Cancel(t) \/ Capacity!CompleteControl(t) \/ Capacity!Finishes(t)
                   \/ Capacity!DrainProvider(t) \/ Capacity!AdoptInvalidatedLeases(t)
            PROVE  CapInv'
        BY <3>5, CapPreflight, CapRests, CapDaemon, CapRelease, CapResumes, CapEnds, CapAdopts
      <3>6. CASE Capacity!Crash \/ Capacity!FenceRecoveredRunners \/ Capacity!RecoverChannel
        BY <3>6, CapDaemon
      <3>7. QED
        BY <2>1, <3>1, <3>2, <3>3, <3>4, <3>5, <3>6 DEF Capacity!Next
    <2>2. CASE UNCHANGED Capacity!vars
      <3>1. CapTyped'
        BY <2>2 DEF Capacity!vars, CapInv, CapTyped
      <3>2. CapHeld'
        BY <2>2, CapKeeps DEF Capacity!vars, CapInv, CapHeld, Holds
      <3>3. CapRemoved'
        BY <2>2, CapQuiet DEF Capacity!vars
      <3>4. QED
        BY <3>1, <3>2, <3>3 DEF CapInv
    <2>3. QED
      BY <2>1, <2>2
  <1>3. I => SlotsMatchTickets
    BY CapMatches DEF SlotsMatchTickets
  <1> QED
    BY <1>1, <1>2, <1>3, PTL DEF Spec
(***************************************************************************)
(* The checkout of a refreshed ticket is what the store says it is, for    *)
(* every number of tips, starts, versions and reclaims.                    *)
(*                                                                         *)
(* CheckoutIsAccounted says nothing of the worker: RefInv adds what each   *)
(* of its steps may rely on, that a reservation precedes everything it     *)
(* does to the checkout and a confirmed proof precedes the reservation.    *)
(***************************************************************************)
RefStages == {"idle", "claim", "step", "proof", "fetch", "reserve", "prepare", "read", "cas",
              "confirm", "complete"}
RefPoints == [v : Nat, r : Nat, l : Nat]

RefTickets == [st : Refresh!Open \cup {"building"}, v : Nat, r : Nat]

RefTyped ==
    /\ ticket \in RefTickets /\ ticket.v > 0
    /\ job \in [pc : RefStages, base : Nat, at : RefPoints]
    /\ res \in [at : RefPoints, base : Nat]
    /\ tip \in Nat /\ leader \in Nat

\* What is registered, on disk and reserved, together.
RefRows ==
    /\ res = Refresh!NoRes => done = Refresh!None
    /\ reg = IF done = Refresh!None THEN Refresh!Old ELSE Refresh!New
    /\ ~prepared => refs = Refresh!Old /\ tree = "old"
    /\ prepared => res # Refresh!NoRes
    /\ refs # reg \/ tree = "partial" => Refresh!Pending
    /\ done # Refresh!None => refs = Refresh!New /\ tree = "prepared"
    /\ res # Refresh!NoRes => \E p \in proofs : p.state = "confirmed" /\ p.key = res

\* Where the worker stands.
RefWorker ==
    /\ job.pc = "fetch" => res = Refresh!NoRes
    /\ job.pc \in {"claim", "prepare", "read", "cas", "confirm", "complete"} => Refresh!Pending
    /\ job.pc \in {"read", "cas", "confirm", "complete"} => prepared
    /\ job.pc \in {"confirm", "complete"} => refs = Refresh!New /\ tree = "prepared"

RefInv == RefTyped /\ RefRows /\ RefWorker

\* Before the first reservation everything is as registered.
LEMMA RefInit == Refresh!Init => RefInv
  BY DEF Refresh!Init, Refresh!Old, Refresh!NoRes, Refresh!None, Refresh!Rest, Refresh!Open,
         Refresh!Phases, Refresh!Pending, RefInv, RefTyped, RefTickets, RefStages, RefPoints,
         RefRows, RefWorker

\* A ticket that moves on, or is fenced by a new daemon.
LEMMA RefTicket ==
    ASSUME NEW x \in RefTickets, NEW st \in Refresh!Open \cup {"building"}
    PROVE  LET moved_on == [x EXCEPT !.st = st, !.v = @ + 1]
               fenced   == [x EXCEPT !.v = @ + 1, !.r = @ + 1]
           IN  /\ moved_on \in RefTickets /\ moved_on.v > 0
               /\ fenced \in RefTickets /\ fenced.v > 0
  <1>1. PICK v \in Nat, r \in Nat : v = x.v + 1 /\ r = x.r + 1
    BY DEF RefTickets
  <1>2. [x EXCEPT !.st = st, !.v = v] \in RefTickets /\ [x EXCEPT !.v = v, !.r = r] \in RefTickets
    BY DEF RefTickets
  <1>3. [x EXCEPT !.st = st, !.v = v].v = v /\ [x EXCEPT !.v = v, !.r = r].v = v /\ v > 0
    BY <1>1 DEF RefTickets
  <1> QED
    BY <1>1, <1>2, <1>3

\* No step of the refresh, of the world or of the daemon breaks it.
LEMMA RefStep == ASSUME RefInv, Refresh!Next PROVE RefInv'
  <1> USE DEF RefInv, RefTyped, RefTickets, RefStages, RefPoints, RefRows, RefWorker, Refresh!Old,
              Refresh!New, Refresh!NoRes, Refresh!None, Refresh!Rest, Refresh!Pending,
              Refresh!world, Refresh!store, Refresh!disk, Refresh!To, Refresh!Now
  <1>1. CASE Refresh!BaseMoves
    BY <1>1 DEF Refresh!BaseMoves
  <1>2. CASE Refresh!SomeoneMerges
    BY <1>2 DEF Refresh!SomeoneMerges
  <1>3. CASE Refresh!OtherWriter
    BY <1>3 DEF Refresh!OtherWriter
  <1>4. CASE Refresh!RefreshProtectedBase
    BY <1>4 DEF Refresh!RefreshProtectedBase
  <1>5. CASE Refresh!Step
    <2>1. /\ UNCHANGED <<tip, leader, reg, proofs, res, prepared, done, refs, tree>>
          /\ job' = Refresh!Rest
          /\ \/ ticket' = ticket
             \/ ticket' = [ticket EXCEPT !.st = "waiting_ci", !.v = @ + 1]
             \/ \E i \in 2 .. 3 : ticket' = [ticket EXCEPT !.st = Refresh!Phases[i + 1], !.v = @ + 1]
      BY <1>5 DEF Refresh!Step
    <2>2. /\ "waiting_ci" \in Refresh!Open
          /\ \A i \in 2 .. 3 : Refresh!Phases[i + 1] \in Refresh!Open
      BY DEF Refresh!Open, Refresh!Phases
    <2>3. ticket' \in RefTickets /\ ticket'.v > 0
      <3>1. \A st \in Refresh!Open :
              LET x == [ticket EXCEPT !.st = st, !.v = @ + 1]
              IN  x \in RefTickets /\ x.v > 0
        BY RefTicket
      <3>2. QED
        BY <2>1, <2>2, <3>1
    <2>4. QED
      BY <2>1, <2>3
  <1>6. CASE Refresh!ProofIntent
    <2>1. /\ UNCHANGED <<tip, leader, ticket, reg, res, prepared, done, refs, tree>>
          /\ job' = Refresh!Rest \/ \E pc \in {"proof", "reserve", "fetch"} : job' = [job EXCEPT !.pc = pc]
          /\ job'.pc = "fetch" => res = Refresh!NoRes
          /\ proofs' = proofs \/ res = Refresh!NoRes
      <3>1. CASE ~(Refresh!Context(job.base) /\ Refresh!DrainedExcept(Refresh!Key(job.base), TRUE)
                    /\ res = Refresh!NoRes)
        BY <1>6, <3>1 DEF Refresh!ProofIntent
      <3>2. CASE res = Refresh!NoRes
        <4>1. /\ UNCHANGED <<tip, leader, ticket, reg, res, prepared, done, refs, tree>>
              /\ job' = Refresh!Rest \/ \E pc \in {"proof", "reserve", "fetch"} : job' = [job EXCEPT !.pc = pc]
          BY <1>6 DEF Refresh!ProofIntent
        <4>2. QED
          BY <3>2, <4>1
      <3>3. QED
        BY <3>1, <3>2
    <2>2. job' \in [pc : RefStages, base : Nat, at : RefPoints]
      BY <2>1
    <2>3. job'.pc \in {"idle", "proof", "reserve", "fetch"}
      BY <2>1
    <2>4. QED
      BY <2>1, <2>2, <2>3
  <1>7. CASE Refresh!VerifyExactProtectedBase
    BY <1>7 DEF Refresh!VerifyExactProtectedBase, Refresh!Settle, Refresh!Proof
  <1>8. CASE Refresh!Reserve
    <2>1. /\ UNCHANGED <<tip, leader, ticket, reg, proofs, prepared, done, refs, tree>>
          /\ \/ res' = res /\ job' = Refresh!Rest
             \/ /\ res = Refresh!NoRes /\ res' = Refresh!Key(job.base)
                /\ job' = [job EXCEPT !.pc = "claim"]
                /\ \E p \in proofs : p.state = "confirmed" /\ p.key = Refresh!Key(job.base)
      BY <1>8 DEF Refresh!Reserve, Refresh!Proof, Refresh!Key
    <2>2. CASE res' = res /\ job' = Refresh!Rest
      BY <2>1, <2>2
    <2>3. CASE res = Refresh!NoRes /\ res' = Refresh!Key(job.base)
      <3>1. res' \in [at : RefPoints, base : Nat] /\ res' # Refresh!NoRes
        BY <2>3 DEF Refresh!Key
      <3>2. job' \in [pc : RefStages, base : Nat, at : RefPoints] /\ job'.pc \in {"idle", "claim"}
        BY <2>1
      <3>3. \E p \in proofs' : p.state = "confirmed" /\ p.key = res'
        BY <2>1, <2>3, <3>1
      <3>4. done = Refresh!None /\ ~prepared
        BY <2>3
      <3>5. QED
        BY <2>1, <2>3, <3>1, <3>2, <3>3, <3>4
    <2>4. QED
      BY <2>1, <2>2, <2>3
  <1>9. CASE Refresh!Apply
    BY <1>9 DEF Refresh!Apply
  <1>10. CASE Refresh!ApplyRefused
    BY <1>10 DEF Refresh!ApplyRefused
  <1>11. CASE Refresh!Fails
    BY <1>11 DEF Refresh!Fails, Refresh!LeftByChild
  <1>12. CASE Refresh!Prepare
    BY <1>12 DEF Refresh!Prepare
  <1>13. CASE Refresh!ReadTree
    BY <1>13 DEF Refresh!ReadTree
  <1>14. CASE Refresh!UpdateRefs
    BY <1>14 DEF Refresh!UpdateRefs
  <1>15. CASE Refresh!Confirm
    BY <1>15 DEF Refresh!Confirm
  <1>16. CASE Refresh!Complete
    <2>1. /\ UNCHANGED <<tip, leader, proofs, res, prepared, refs, tree>>
          /\ job.pc = "complete" /\ job' = Refresh!Rest
          /\ \/ UNCHANGED <<reg, ticket, done>>
             \/ /\ reg' = Refresh!New /\ ticket' = [ticket EXCEPT !.st = "building", !.v = @ + 1]
                /\ done' = [Refresh!Now EXCEPT !.v = @ + 1]
      BY <1>16 DEF Refresh!Complete
    <2>2. CASE UNCHANGED <<reg, ticket, done>>
      BY <2>1, <2>2
    <2>3. CASE /\ reg' = Refresh!New /\ ticket' = [ticket EXCEPT !.st = "building", !.v = @ + 1]
               /\ done' = [Refresh!Now EXCEPT !.v = @ + 1]
      <3>1. ticket' \in RefTickets /\ ticket'.v > 0
        BY <2>3, RefTicket
      <3>2. done'.v = ticket.v + 1 /\ done'.v # 0
        BY <2>3
      <3>3. done' # Refresh!None
        BY <3>2
      <3>4. Refresh!Pending /\ refs = Refresh!New /\ tree = "prepared"
        BY <2>1
      <3>5. QED
        BY <2>1, <2>3, <3>1, <3>3, <3>4
    <2>4. QED
      BY <2>1, <2>2, <2>3
  <1>17. CASE Refresh!Crash
    BY <1>17 DEF Refresh!Crash, Refresh!LeftByChild
  <1>18. CASE Refresh!Start
    <2>1. /\ UNCHANGED <<tip, reg, res, prepared, done, refs, tree, job>> /\ leader' = leader + 1
          /\ ticket' = ticket \/ ticket' = [ticket EXCEPT !.v = @ + 1, !.r = @ + 1]
          /\ proofs' = {IF p.state = "executing" THEN [p EXCEPT !.state = "uncertain"] ELSE p : p \in proofs}
      BY <1>18 DEF Refresh!Start
    <2>2. ticket' \in RefTickets /\ ticket'.v > 0
      BY <2>1, RefTicket
    <2>3. \A p \in proofs : p.state = "confirmed" => p \in proofs'
      BY <2>1
    <2>4. QED
      BY <2>1, <2>2, <2>3
  <1>19. QED
    BY <1>1, <1>2, <1>3, <1>4, <1>5, <1>6, <1>7, <1>8, <1>9, <1>10, <1>11, <1>12, <1>13, <1>14, <1>15, <1>16, <1>17, <1>18 DEF Refresh!Next

(***************************************************************************)
(* A ticket gets one worktree, for every number of tips, daemons and       *)
(* claims.                                                                 *)
(*                                                                         *)
(* WtRows says that of all creations one at most is open, and that nothing *)
(* is on disk without one; WtWorker what each stage of the coordinator has *)
(* made sure of: a new creation starts over nothing at all, and only the   *)
(* stages that make something change the disk.                             *)
(***************************************************************************)
WtStages  == {"idle", "plan", "claim", "begin", "fetch", "add", "release", "confirm", "register",
              "failed", "wait", "absence", "look", "absent", "abandon"}
WtPoints  == [v : Nat, r : Nat, l : Nat]
WtEffects == [state : {"none", "planned", "failed", "executing", "uncertain", "confirmed"},
              at : WtPoints, ce : Nat]
WtJobs    == [pc : WtStages, base : Worktree!Bases \cup {0}, ok : BOOLEAN]

WtTyped ==
    /\ ticket \in [v : Nat, r : Nat] /\ ticket.v > 0 /\ leader \in Nat
    /\ tip \in Worktree!Bases
    /\ eff \in [Worktree!Bases -> WtEffects]
    /\ intent \in [Worktree!Bases -> [at : WtPoints, ce : Nat]]
    /\ job \in WtJobs

\* The creation may have left something.
WtOpen(b) == eff[b].state \in {"executing", "uncertain", "confirmed"}
NoneOpen  == \A b \in Worktree!Bases : ~WtOpen(b)

WtRows ==
    /\ \A b \in Worktree!Bases : WtOpen(b) => intent[b] # Worktree!NoClaim
    /\ \A b, c \in Worktree!Bases : WtOpen(b) /\ WtOpen(c) => b = c
    /\ NoneOpen => disk = Worktree!Empty /\ reg = 0
    /\ reg # 0 => /\ reg \in Worktree!Bases /\ eff[reg].state = "confirmed"
                  /\ Worktree!Exact(reg)

WtWorker ==
    /\ job.pc \in {"plan", "claim"} => NoneOpen
    /\ job.pc \notin {"idle", "plan"} => job.base \in Worktree!Bases
    /\ job.pc \in {"begin", "fetch", "add"} => eff[job.base].state = "executing"
    /\ job.pc \notin {"idle", "plan", "claim"} => WtOpen(job.base)
    /\ job.pc \in {"begin", "fetch", "add", "wait", "absence", "look", "absent"} => reg = 0
    /\ job.pc \in {"begin", "absent"} => disk = Worktree!Empty
    /\ job.pc = "register" => eff[job.base].state = "confirmed" /\ Worktree!Exact(job.base)

WtInv == WtTyped /\ WtRows /\ WtWorker

\* The activity died with its daemon.
WtDown == up # "serving" => job.pc = "idle"

\* Before the first claim there is no creation.
LEMMA WtInit == Worktree!Init => WtInv
  BY BaseAssumption DEF Worktree!Init, Worktree!Bases, Worktree!None, Worktree!NoClaim, Worktree!Empty,
         Worktree!Rest, WtInv, WtTyped, WtStages, WtPoints, WtEffects, WtJobs, WtRows,
         WtWorker, WtOpen, NoneOpen

\* The coordinator goes on to a stage, or rests.
LEMMA WtJob ==
    ASSUME WtTyped
    PROVE  /\ Worktree!Rest \in WtJobs /\ Worktree!Rest.pc = "idle"
           /\ \A pc \in WtStages : Worktree!To(pc) =>
                  job' \in WtJobs /\ job'.pc = pc /\ job'.base = job.base
           /\ \A ok \in BOOLEAN : Worktree!Releases(ok) =>
                  job' \in WtJobs /\ job'.pc = "release" /\ job'.base = job.base
           /\ \A pc \in WtStages, b \in Worktree!Bases :
                  job' = [Worktree!Rest EXCEPT !.pc = pc, !.base = b] =>
                      job' \in WtJobs /\ job'.pc = pc /\ job'.base = b
  BY DEF WtTyped, WtJobs, Worktree!Rest, WtStages, Worktree!To, Worktree!Releases

\* A step that only moves the coordinator, or touches nothing of the creation.
LEMMA WtMoves ==
    ASSUME WtInv, UNCHANGED <<eff, intent, reg, disk>>, job' \in WtJobs, WtWorker',
           ticket' = ticket, leader' = leader, tip' = tip
    PROVE  WtInv'
  BY DEF WtInv, WtTyped, WtRows, WtOpen, NoneOpen, Worktree!Exact

\* A new creation is planned only when none is open.
LEMMA WtEnsure == ASSUME WtInv, Worktree!Ensure PROVE WtInv'
  <1>1. /\ UNCHANGED <<eff, intent, reg, disk, ticket, leader, tip>> /\ job' \in WtJobs
        /\ reg = 0
        /\ \/ Worktree!CreationIntents = {} /\ job'.pc = "plan"
           \/ \E x \in Worktree!Bases : x \in Worktree!CreationIntents /\ job'.pc = "wait" /\ job'.base = x
    BY WtJob DEF Worktree!Ensure, Worktree!At, Worktree!CreationIntents, WtInv, WtStages
  <1>2. WtWorker'
    BY <1>1 DEF WtInv, WtWorker, WtRows, WtOpen, NoneOpen, Worktree!Exact, Worktree!CreationIntents
  <1> QED
    BY <1>1, <1>2, WtMoves

\* A lease that is given back leads on, one that is not ends here.
LEMMA WtRelease == ASSUME WtInv, Worktree!Release PROVE WtInv'
  <1>1. /\ UNCHANGED <<eff, intent, reg, disk, ticket, leader, tip>> /\ job' \in WtJobs
        /\ job.pc = "release"
        /\ job'.pc = "idle" \/ (job'.pc \in {"confirm", "failed"} /\ job'.base = job.base)
    BY WtJob DEF Worktree!Release, Worktree!At, WtInv, WtStages
  <1>2. WtWorker'
    BY <1>1 DEF WtInv, WtWorker, WtRows, WtOpen, NoneOpen, Worktree!Exact
  <1> QED
    BY <1>1, <1>2, WtMoves

\* What a creation left is looked at.
LEMMA WtWaitForCreation == ASSUME WtInv, Worktree!WaitForCreation PROVE WtInv'
  <1>1. /\ UNCHANGED <<eff, intent, reg, disk, ticket, leader, tip>> /\ job' \in WtJobs
        /\ job.pc = "wait"
        /\ job'.pc = "idle" \/ (job'.pc \in {"confirm", "absence"} /\ job'.base = job.base)
    BY WtJob DEF Worktree!WaitForCreation, Worktree!At, WtInv, WtStages
  <1>2. WtWorker'
    BY <1>1 DEF WtInv, WtWorker, WtRows, WtOpen, NoneOpen, Worktree!Exact
  <1> QED
    BY <1>1, <1>2, WtMoves

\* Absence is nothing at all.
LEMMA WtLook == ASSUME WtInv, Worktree!Look PROVE WtInv'
  <1>1. /\ UNCHANGED <<eff, intent, reg, disk, ticket, leader, tip>> /\ job' \in WtJobs
        /\ job.pc = "look" /\ job'.base = job.base
        /\ job'.pc = "abandon" \/ (job'.pc = "absent" /\ disk = Worktree!Empty)
    BY WtJob DEF Worktree!Look, Worktree!At, Worktree!Absent, WtInv, WtStages
  <1>2. WtWorker'
    BY <1>1 DEF WtInv, WtWorker, WtRows, WtOpen, NoneOpen, Worktree!Exact
  <1> QED
    BY <1>1, <1>2, WtMoves

\* The proof is given up.
LEMMA WtAbandonAbsence == ASSUME WtInv, Worktree!AbandonAbsence PROVE WtInv'
  <1>1. /\ UNCHANGED <<eff, intent, reg, disk, ticket, leader, tip>> /\ job' \in WtJobs
        /\ job'.pc = "idle"
    BY WtJob DEF Worktree!AbandonAbsence, Worktree!At, WtInv, WtStages
  <1>2. WtWorker'
    BY <1>1 DEF WtInv, WtWorker, WtRows, WtOpen, NoneOpen, Worktree!Exact
  <1> QED
    BY <1>1, <1>2, WtMoves

\* The effect of one creation changes its state.
LEMMA WtState ==
    ASSUME WtTyped, NEW b \in Worktree!Bases, NEW at \in WtPoints,
           NEW st \in {"none", "planned", "failed", "executing", "uncertain", "confirmed"},
           \/ eff' = [eff EXCEPT ![b].state = st]
           \/ eff' = [eff EXCEPT ![b].state = st, ![b].at = at]
    PROVE  /\ eff' \in [Worktree!Bases -> WtEffects]
           /\ eff'[b].state = st
           /\ \A c \in Worktree!Bases \ {b} : eff'[c] = eff[c]
  <1> DEFINE e == eff[b]
             x == [e EXCEPT !.state = st]
             y == [e EXCEPT !.state = st, !.at = at]
  <1>1. /\ x \in WtEffects /\ x.state = st
        /\ y \in WtEffects /\ y.state = st
    <2>1. e \in WtEffects
      BY DEF WtTyped
    <2>2. x \in WtEffects /\ x.state = st
      BY <2>1 DEF WtEffects
    <2>3. y \in WtEffects /\ y.state = st
      BY <2>1 DEF WtEffects
    <2>4. QED
      BY <2>2, <2>3
  <1>2. eff' = [eff EXCEPT ![b] = x] \/ eff' = [eff EXCEPT ![b] = y]
    BY DEF WtTyped
  <1> HIDE DEF x, y
  <1> QED
    BY <1>1, <1>2 DEF WtTyped

\* The effect of one creation is claimed, or claimed anew.
LEMMA WtClaim ==
    ASSUME WtTyped, NEW b \in Worktree!Bases, NEW at \in WtPoints,
           NEW st \in {"none", "planned", "failed", "executing", "uncertain", "confirmed"},
           \/ eff' = [eff EXCEPT ![b].state = st, ![b].ce = @ + 1]
           \/ eff' = [eff EXCEPT ![b].at = at, ![b].ce = @ + 1] /\ st = eff[b].state
    PROVE  /\ eff' \in [Worktree!Bases -> WtEffects]
           /\ eff'[b].state = st
           /\ \A c \in Worktree!Bases \ {b} : eff'[c] = eff[c]
  <1> DEFINE e == eff[b]
  <1>1. PICK n \in Nat : n = e.ce + 1
    BY DEF WtTyped, WtEffects
  <1> DEFINE x == [e EXCEPT !.state = st, !.ce = n]
             y == [e EXCEPT !.at = at, !.ce = n]
  <1>2. x \in WtEffects /\ x.state = st /\ y \in WtEffects /\ y.state = e.state
    BY DEF WtTyped, WtEffects
  <1>3. eff' = [eff EXCEPT ![b] = x] \/ (eff' = [eff EXCEPT ![b] = y] /\ st = e.state)
    BY <1>1 DEF WtTyped
  <1> HIDE DEF x, y
  <1> QED
    BY <1>2, <1>3 DEF WtTyped

\* The world moves, another ticket writes, a new daemon fences the ticket.
LEMMA WtWorld ==
    ASSUME WtInv,
           Worktree!BaseMoves \/ Worktree!OtherWriter \/ Worktree!FenceRecoveredRunners
    PROVE  WtInv'
  <1>1. UNCHANGED <<eff, intent, reg, disk, job, leader>>
    BY DEF Worktree!BaseMoves, Worktree!OtherWriter, Worktree!FenceRecoveredRunners
  <1>2. tip' \in Worktree!Bases
    BY BaseAssumption
       DEF Worktree!BaseMoves, Worktree!OtherWriter, Worktree!FenceRecoveredRunners,
           Worktree!Bases, WtInv, WtTyped
  <1>3. ticket' \in [v : Nat, r : Nat] /\ ticket'.v > 0
    <2>1. PICK v \in Nat, r \in Nat : v = ticket.v + 1 /\ r = ticket.r + 1 /\ v > 0
      BY DEF WtInv, WtTyped
    <2>2. ticket' = ticket \/ ticket' = [v |-> v, r |-> r]
      BY <2>1 DEF Worktree!BaseMoves, Worktree!OtherWriter, Worktree!FenceRecoveredRunners
    <2>3. QED
      BY <2>1, <2>2 DEF WtInv, WtTyped
  <1> QED
    BY <1>1, <1>2, <1>3 DEF WtInv, WtTyped, WtRows, WtWorker, WtOpen, NoneOpen, Worktree!Exact

\* A creation is planned over nothing.
LEMMA WtPlanEffect == ASSUME WtInv, Worktree!PlanEffect PROVE WtInv'
  <1>1. /\ UNCHANGED <<intent, reg, disk, ticket, leader, tip>> /\ NoneOpen /\ job.pc = "plan"
        /\ Worktree!Now \in WtPoints
    BY DEF Worktree!PlanEffect, Worktree!At, Worktree!Now, WtInv, WtTyped, WtPoints, WtWorker
  <1>2. CASE eff' = eff /\ job' = Worktree!Rest
    <2>1. WtWorker'
      BY <1>1, <1>2, WtJob DEF WtInv, WtWorker
    <2>2. QED
      BY <1>1, <1>2, <2>1, WtMoves, WtJob DEF WtInv
  <1>3. CASE /\ eff[tip].state \in {"none", "planned", "failed"}
             /\ eff' = [eff EXCEPT ![tip].state = IF @ = "none" THEN "planned" ELSE @, ![tip].at = Worktree!Now]
             /\ job' = [Worktree!Rest EXCEPT !.pc = "claim", !.base = tip]
    <2>1. PICK st \in {"planned", "failed"} :
            eff' = [eff EXCEPT ![tip].state = st, ![tip].at = Worktree!Now]
      BY <1>3
    <2>2. /\ eff' \in [Worktree!Bases -> WtEffects] /\ eff'[tip].state = st
          /\ \A c \in Worktree!Bases \ {tip} : eff'[c] = eff[c]
      BY <1>1, <2>1, WtState DEF WtInv, WtTyped
    <2>3. job' \in WtJobs /\ job'.pc = "claim" /\ job'.base = tip
      BY <1>3, WtJob DEF WtInv, WtTyped, WtStages
    <2>4. NoneOpen'
      BY <1>1, <2>2 DEF NoneOpen, WtOpen
    <2>5. WtTyped'
      BY <1>1, <2>2, <2>3 DEF WtInv, WtTyped
    <2>6. WtRows'
      BY <1>1, <2>4 DEF WtInv, WtRows, NoneOpen
    <2>7. WtWorker'
      BY <1>1, <2>3, <2>4 DEF WtInv, WtTyped, WtWorker
    <2>8. QED
      BY <2>5, <2>6, <2>7 DEF WtInv
  <1> QED
    BY <1>2, <1>3 DEF Worktree!PlanEffect

\* Claiming a planned creation opens it, alone and with nothing on disk.
LEMMA WtIssue == ASSUME WtInv, Worktree!IssueGitMutationClaim PROVE WtInv'
  <1> DEFINE b == job.base
  <1>1. /\ UNCHANGED <<reg, disk, ticket, leader, tip>> /\ job.pc = "claim" /\ b \in Worktree!Bases
        /\ Worktree!To("begin") /\ NoneOpen
        /\ eff' = [eff EXCEPT ![b].state = "executing", ![b].ce = @ + 1]
        /\ intent' = [intent EXCEPT ![b] = [at |-> Worktree!Now, ce |-> eff[b].ce + 1]]
    BY DEF Worktree!IssueGitMutationClaim, Worktree!At, WtInv, WtWorker
  <1>2. /\ eff' \in [Worktree!Bases -> WtEffects] /\ eff'[b].state = "executing"
        /\ \A c \in Worktree!Bases \ {b} : eff'[c] = eff[c]
    BY <1>1, WtClaim DEF WtInv, WtTyped, Worktree!Now, WtPoints
  <1>3. /\ [at |-> Worktree!Now, ce |-> eff[b].ce + 1] \in [at : WtPoints, ce : Nat]
        /\ [at |-> Worktree!Now, ce |-> eff[b].ce + 1] # Worktree!NoClaim
    BY <1>1 DEF WtInv, WtTyped, WtEffects, WtPoints, Worktree!Now, Worktree!NoClaim, Worktree!None
  <1>4. /\ intent' \in [Worktree!Bases -> [at : WtPoints, ce : Nat]]
        /\ intent'[b] # Worktree!NoClaim
        /\ \A c \in Worktree!Bases \ {b} : intent'[c] = intent[c]
    BY <1>1, <1>3 DEF WtInv, WtTyped
  <1>5. job' \in WtJobs /\ job'.pc = "begin" /\ job'.base = b
    BY <1>1, WtJob DEF WtInv, WtStages
  <1>6. \A c \in Worktree!Bases : WtOpen(c)' <=> c = b
    BY <1>1, <1>2 DEF NoneOpen, WtOpen
  <1>7. disk = Worktree!Empty /\ reg = 0
    BY <1>1 DEF WtInv, WtRows
  <1> HIDE DEF b
  <1>8. WtTyped'
    BY <1>1, <1>2, <1>4, <1>5 DEF WtInv, WtTyped
  <1>9. WtRows'
    BY <1>1, <1>4, <1>6, <1>7 DEF WtRows, NoneOpen
  <1>10. WtWorker'
    BY <1>1, <1>2, <1>5, <1>6, <1>7 DEF WtWorker
  <1> QED
    BY <1>8, <1>9, <1>10 DEF WtInv

\* Whatever happens between the claim and its outcome, one creation stays open: a step that
\* leaves the claims alone, and moves the disk only under a creation that is executing.
LEMMA WtKeeps ==
    ASSUME WtInv, UNCHANGED <<intent, ticket, leader, tip>>,
           eff' \in [Worktree!Bases -> WtEffects], job' \in WtJobs, WtWorker',
           \A c \in Worktree!Bases : WtOpen(c)' <=> WtOpen(c),
           \/ disk' = disk /\ UNCHANGED reg
           \/ disk' = disk /\ job.pc = "register" /\ reg' = job.base
           \/ ~NoneOpen /\ reg = 0 /\ reg' = 0,
           reg' # 0 => eff'[reg'].state = "confirmed"
    PROVE  WtInv'
  <1>1. WtTyped'
    BY DEF WtInv, WtTyped
  <1>2. NoneOpen' <=> NoneOpen
    BY DEF NoneOpen
  <1>3. /\ \A c \in Worktree!Bases : WtOpen(c)' => intent'[c] # Worktree!NoClaim
        /\ \A c, d \in Worktree!Bases : WtOpen(c)' /\ WtOpen(d)' => c = d
    BY DEF WtInv, WtRows
  <1>4. job.pc = "register" => /\ job.base \in Worktree!Bases /\ WtOpen(job.base)
                              /\ eff[job.base].state = "confirmed" /\ Worktree!Exact(job.base)
    BY DEF WtInv, WtWorker
  <1>5. NoneOpen' => disk' = Worktree!Empty /\ reg' = 0
    BY <1>2, <1>4 DEF WtInv, WtRows, NoneOpen
  <1>6. reg' # 0 => reg' \in Worktree!Bases /\ Worktree!Exact(reg)'
    <2>1. reg # 0 => reg \in Worktree!Bases /\ Worktree!Exact(reg)
      BY DEF WtInv, WtRows
    <2>2. QED
      BY <1>4, <2>1 DEF Worktree!Exact
  <1>7. WtRows'
    BY <1>3, <1>5, <1>6 DEF WtRows
  <1> QED
    BY <1>1, <1>7 DEF WtInv

\* The claim is taken back before anything was made, or Git begins.
LEMMA WtCreate == ASSUME WtInv, Worktree!CreateWorktree PROVE WtInv'
  <1> DEFINE b == job.base
  <1>1. /\ UNCHANGED <<intent, reg, disk, ticket, leader, tip>> /\ b \in Worktree!Bases
        /\ eff[b].state = "executing" /\ reg = 0 /\ disk = Worktree!Empty /\ WtOpen(b)
        /\ \/ eff' = eff /\ \E pc \in {"fetch", "failed"} : Worktree!To(pc)
           \/ Worktree!Settle(b, "failed") /\ job' = Worktree!Rest
    BY DEF Worktree!CreateWorktree, Worktree!At, WtInv, WtWorker
  <1>2. CASE eff' = eff /\ \E pc \in {"fetch", "failed"} : Worktree!To(pc)
    <2>1. job' \in WtJobs /\ job'.pc \in {"fetch", "failed"} /\ job'.base = b
      BY <1>2, WtJob DEF WtInv, WtStages
    <2>2. WtWorker'
      BY <1>1, <1>2, <2>1 DEF WtWorker, WtOpen
    <2>3. QED
      BY <1>1, <1>2, <2>1, <2>2, WtMoves
  <1>3. CASE Worktree!Settle(b, "failed") /\ job' = Worktree!Rest
    <2>1. Worktree!Now \in WtPoints
      BY DEF WtInv, WtTyped, Worktree!Now, WtPoints
    <2>2. /\ eff' \in [Worktree!Bases -> WtEffects] /\ eff'[b].state = "failed"
          /\ \A c \in Worktree!Bases \ {b} : eff'[c] = eff[c]
      BY <1>1, <1>3, <2>1, WtState DEF WtInv, Worktree!Settle
    <2>3. job' \in WtJobs /\ job'.pc = "idle"
      BY <1>3, WtJob DEF WtInv
    <2> HIDE DEF b
    <2>4. NoneOpen'
      BY <1>1, <2>2 DEF WtInv, WtRows, NoneOpen, WtOpen
    <2>5. WtTyped'
      BY <1>1, <2>2, <2>3 DEF WtInv, WtTyped
    <2>6. WtRows'
      BY <1>1, <2>4 DEF WtRows, NoneOpen
    <2>7. WtWorker'
      BY <2>3 DEF WtWorker
    <2>8. QED
      BY <2>5, <2>6, <2>7 DEF WtInv
  <1> QED
    BY <1>1, <1>2, <1>3

\* Git's children write under the open creation, to their end or not.
LEMMA WtChildren ==
    ASSUME WtInv, Worktree!FetchBase \/ Worktree!AddWorktree
    PROVE  WtInv'
  <1>1. /\ UNCHANGED <<eff, intent, reg, ticket, leader, tip>> /\ job.base \in Worktree!Bases
        /\ eff[job.base].state = "executing" /\ reg = 0 /\ WtOpen(job.base)
        /\ Worktree!To("add") \/ \E ok \in BOOLEAN : Worktree!Releases(ok)
    BY DEF Worktree!FetchBase, Worktree!AddWorktree, Worktree!At, WtInv, WtWorker
  <1>2. job' \in WtJobs /\ job'.pc \in {"add", "release"} /\ job'.base = job.base
    BY <1>1, WtJob DEF WtInv, WtStages
  <1>3. WtWorker'
    BY <1>1, <1>2 DEF WtWorker, WtOpen
  <1>4. \A c \in Worktree!Bases : WtOpen(c)' <=> WtOpen(c)
    BY <1>1 DEF WtOpen
  <1>5. ~NoneOpen
    BY <1>1 DEF NoneOpen
  <1> QED
    BY <1>1, <1>2, <1>3, <1>4, <1>5, WtKeeps DEF WtInv, WtTyped

\* Only an exact worktree is confirmed, and it stays what it is.
LEMMA WtConfirm == ASSUME WtInv, Worktree!Confirm PROVE WtInv'
  <1> DEFINE b == job.base
  <1>1. /\ UNCHANGED <<intent, reg, disk, ticket, leader, tip>> /\ b \in Worktree!Bases
        /\ WtOpen(b)
        /\ \/ /\ Worktree!Exact(b) /\ Worktree!To("register")
              /\ eff' = IF eff[b].state = "confirmed" THEN eff
                        ELSE [eff EXCEPT ![b].state = "confirmed",
                                         ![b].at = [Worktree!Now EXCEPT !.l = eff[b].at.l]]
           \/ eff' = eff /\ Worktree!To("failed")
    BY DEF Worktree!Confirm, Worktree!At, WtInv, WtWorker
  <1>2. [Worktree!Now EXCEPT !.l = eff[b].at.l] \in WtPoints
    BY <1>1 DEF WtInv, WtTyped, WtEffects, WtPoints, Worktree!Now
  <1>3. /\ eff' \in [Worktree!Bases -> WtEffects]
        /\ eff' = eff \/ eff'[b].state = "confirmed"
        /\ \A c \in Worktree!Bases \ {b} : eff'[c] = eff[c]
    BY <1>1, <1>2, WtState DEF WtInv, WtTyped
  <1>4. job' \in WtJobs /\ job'.pc \in {"register", "failed"} /\ job'.base = b
    BY <1>1, WtJob DEF WtInv, WtStages
  <1>5. job'.pc = "register" => Worktree!Exact(b) /\ eff'[b].state = "confirmed"
    <2>1. CASE Worktree!To("failed")
      BY <2>1, WtJob DEF WtInv, WtStages
    <2>2. CASE Worktree!Exact(b) /\ eff' = IF eff[b].state = "confirmed" THEN eff
                        ELSE [eff EXCEPT ![b].state = "confirmed",
                                         ![b].at = [Worktree!Now EXCEPT !.l = eff[b].at.l]]
      BY <1>1, <1>2, <2>2, WtState DEF WtInv, WtTyped
    <2>3. QED
      BY <1>1, <2>1, <2>2
  <1>6. \A c \in Worktree!Bases : WtOpen(c)' <=> WtOpen(c)
    BY <1>1, <1>3 DEF WtOpen
  <1> HIDE DEF b
  <1>7. WtWorker'
    BY <1>1, <1>4, <1>5, <1>6 DEF WtWorker, Worktree!Exact
  <1>8. reg' # 0 => eff'[reg'].state = "confirmed"
    BY <1>1, <1>3 DEF WtInv, WtRows
  <1> QED
    BY <1>1, <1>3, <1>4, <1>6, <1>7, <1>8, WtKeeps

\* The row that is registered is the confirmed creation.
LEMMA WtRegister == ASSUME WtInv, Worktree!Register PROVE WtInv'
  <1>1. /\ UNCHANGED <<eff, intent, disk, ticket, leader, tip>> /\ job.pc = "register"
        /\ job.base \in Worktree!Bases /\ WtOpen(job.base) /\ eff[job.base].state = "confirmed"
        /\ reg' = job.base \/ reg' = reg
        /\ job' = Worktree!Rest \/ Worktree!To("failed")
    BY DEF Worktree!Register, Worktree!At, Worktree!To, WtInv, WtWorker
  <1>2. job' \in WtJobs /\ (job'.pc = "idle" \/ (job'.pc = "failed" /\ job'.base = job.base))
    BY <1>1, WtJob DEF WtInv, WtStages
  <1>3. WtWorker'
    BY <1>1, <1>2 DEF WtWorker, WtOpen
  <1>4. \A c \in Worktree!Bases : WtOpen(c)' <=> WtOpen(c)
    BY <1>1 DEF WtOpen
  <1>5. reg' # 0 => eff'[reg'].state = "confirmed"
    BY <1>1 DEF WtInv, WtRows
  <1> QED
    BY <1>1, <1>2, <1>3, <1>4, <1>5, WtKeeps DEF WtInv, WtTyped

\* A failure leaves the creation open: executing, uncertain or taken as it is.
LEMMA WtFailure == ASSUME WtInv, Worktree!PostClaimFailure PROVE WtInv'
  <1> DEFINE b == job.base
  <1>1. /\ UNCHANGED <<intent, reg, disk, ticket, leader, tip>> /\ b \in Worktree!Bases
        /\ WtOpen(b) /\ Worktree!Now \in WtPoints
        /\ \/ eff' = eff /\ Worktree!To("confirm")
           \/ /\ job' = Worktree!Rest
              /\ eff' \in {eff, [eff EXCEPT ![b].state = IF @ = "executing" THEN "uncertain" ELSE @]}
    BY DEF Worktree!PostClaimFailure, Worktree!At, WtInv, WtTyped, WtWorker, Worktree!Now, WtPoints
  <1>2. PICK st \in {"none", "planned", "failed", "executing", "uncertain", "confirmed"} :
          st = IF eff[b].state = "executing" THEN "uncertain" ELSE eff[b].state
    BY <1>1 DEF WtInv, WtTyped, WtEffects
  <1>3. /\ eff' \in [Worktree!Bases -> WtEffects]
        /\ eff' = eff \/ eff'[b].state = st
        /\ \A c \in Worktree!Bases \ {b} : eff'[c] = eff[c]
    <2>1. eff' = eff \/ eff' = [eff EXCEPT ![b].state = st]
      BY <1>1, <1>2
    <2>2. QED
      BY <1>1, <2>1, WtState DEF WtInv, WtTyped
  <1>4. job' \in WtJobs /\ (job'.pc = "idle" \/ (job'.pc = "confirm" /\ job'.base = b))
    BY <1>1, WtJob DEF WtInv, WtStages
  <1>5. \A c \in Worktree!Bases : WtOpen(c)' <=> WtOpen(c)
    BY <1>1, <1>2, <1>3 DEF WtOpen
  <1> HIDE DEF b
  <1>6. WtWorker'
    BY <1>1, <1>4, <1>5 DEF WtWorker
  <1>7. reg' # 0 => eff'[reg'].state = "confirmed"
    BY <1>1, <1>2, <1>3 DEF WtInv, WtRows
  <1> QED
    BY <1>1, <1>3, <1>4, <1>5, <1>6, <1>7, WtKeeps

\* The old claim is revoked; the creation stays open until its absence is proved.
LEMMA WtBeginAbsence == ASSUME WtInv, Worktree!BeginAbsence PROVE WtInv'
  <1> DEFINE b == job.base
  <1>1. /\ UNCHANGED <<intent, reg, disk, ticket, leader, tip>> /\ b \in Worktree!Bases
        /\ WtOpen(b) /\ reg = 0 /\ Worktree!Now \in WtPoints
        /\ \/ /\ eff' = [eff EXCEPT ![b].at = Worktree!Now, ![b].ce = @ + 1]
              /\ Worktree!To("look")
           \/ eff' = eff /\ job' = Worktree!Rest
    BY DEF Worktree!BeginAbsence, Worktree!At, WtInv, WtTyped, WtWorker, Worktree!Now, WtPoints
  <1>2. PICK st \in {"none", "planned", "failed", "executing", "uncertain", "confirmed"} :
          st = eff[b].state
    BY <1>1 DEF WtInv, WtTyped, WtEffects
  <1>3. /\ eff' \in [Worktree!Bases -> WtEffects]
        /\ eff'[b].state = eff[b].state
        /\ \A c \in Worktree!Bases \ {b} : eff'[c] = eff[c]
    BY <1>1, <1>2, WtClaim DEF WtInv, WtTyped
  <1>4. job' \in WtJobs /\ (job'.pc = "idle" \/ (job'.pc = "look" /\ job'.base = b))
    BY <1>1, WtJob DEF WtInv, WtStages
  <1>5. \A c \in Worktree!Bases : WtOpen(c)' <=> WtOpen(c)
    BY <1>1, <1>3 DEF WtOpen
  <1> HIDE DEF b
  <1>6. WtWorker'
    BY <1>1, <1>4, <1>5 DEF WtWorker
  <1> QED
    BY <1>1, <1>3, <1>4, <1>5, <1>6, WtKeeps

\* What left nothing on disk is declared failed, and nothing is open any more.
LEMMA WtAbsent == ASSUME WtInv, Worktree!CompleteAbsent PROVE WtInv'
  <1> DEFINE b == job.base
  <1>1. /\ UNCHANGED <<intent, reg, disk, ticket, leader, tip>> /\ b \in Worktree!Bases
        /\ WtOpen(b) /\ reg = 0 /\ disk = Worktree!Empty /\ Worktree!Now \in WtPoints
        /\ \/ Worktree!Settle(b, "failed") /\ job' = Worktree!Rest
           \/ eff' = eff /\ Worktree!To("abandon")
    BY DEF Worktree!CompleteAbsent, Worktree!At, WtInv, WtTyped, WtWorker, Worktree!Now, WtPoints
  <1>2. CASE eff' = eff /\ Worktree!To("abandon")
    <2>1. job' \in WtJobs /\ job'.pc = "abandon" /\ job'.base = b
      BY <1>2, WtJob DEF WtInv, WtStages
    <2>2. WtWorker'
      BY <1>1, <1>2, <2>1 DEF WtWorker, WtOpen
    <2>3. QED
      BY <1>1, <1>2, <2>1, <2>2, WtMoves
  <1>3. CASE Worktree!Settle(b, "failed") /\ job' = Worktree!Rest
    <2>1. /\ eff' \in [Worktree!Bases -> WtEffects] /\ eff'[b].state = "failed"
          /\ \A c \in Worktree!Bases \ {b} : eff'[c] = eff[c]
      BY <1>1, <1>3, WtState DEF WtInv, Worktree!Settle
    <2>2. job' \in WtJobs /\ job'.pc = "idle"
      BY <1>3, WtJob DEF WtInv
    <2> HIDE DEF b
    <2>3. NoneOpen'
      BY <1>1, <2>1 DEF WtInv, WtRows, NoneOpen, WtOpen
    <2>4. WtTyped'
      BY <1>1, <2>1, <2>2 DEF WtInv, WtTyped
    <2>5. WtRows'
      BY <1>1, <2>3 DEF WtRows, NoneOpen
    <2>6. WtWorker'
      BY <2>2 DEF WtWorker
    <2>7. QED
      BY <2>4, <2>5, <2>6 DEF WtInv
  <1> QED
    BY <1>1, <1>2, <1>3

\* A crash leaves what a child of the open creation made; the next daemon makes it uncertain.
LEMMA WtDaemon == ASSUME WtInv, WtDown, Worktree!Crash \/ Worktree!Recover PROVE WtInv'
  <1>1. CASE Worktree!Crash
    <2>1. /\ UNCHANGED <<eff, intent, reg, ticket, leader, tip>> /\ job' = Worktree!Rest
          /\ disk' = disk \/ job.pc \in {"fetch", "add"}
      BY <1>1 DEF Worktree!Crash
    <2>2. job' \in WtJobs /\ job'.pc = "idle"
      BY <2>1, WtJob DEF WtInv
    <2>3. WtWorker'
      BY <2>2 DEF WtWorker
    <2>4. job.pc \in {"fetch", "add"} => ~NoneOpen /\ reg = 0
      BY DEF WtInv, WtWorker, NoneOpen
    <2>5. \A c \in Worktree!Bases : WtOpen(c)' <=> WtOpen(c)
      BY <2>1 DEF WtOpen
    <2>6. eff' \in [Worktree!Bases -> WtEffects] /\ (reg' # 0 => eff'[reg'].state = "confirmed")
      BY <2>1 DEF WtInv, WtTyped, WtRows
    <2>7. QED
      BY <2>1, <2>2, <2>3, <2>4, <2>5, <2>6, WtKeeps
  <1>2. CASE Worktree!Recover
    <2>1. /\ UNCHANGED <<intent, reg, disk, ticket, tip, job>> /\ leader' = leader + 1
          /\ eff' = [b \in Worktree!Bases |->
                IF eff[b].state \in {"executing", "uncertain"}
                THEN [eff[b] EXCEPT !.state = "uncertain", !.at.l = leader + 1, !.ce = @ + 1]
                ELSE eff[b]]
          /\ up = "down"
      BY <1>2 DEF Worktree!Recover
    <2>2. PICK l \in Nat : l = leader + 1
      BY DEF WtInv, WtTyped
    <2>3. ASSUME NEW b \in Worktree!Bases
          PROVE  LET x == [eff[b] EXCEPT !.state = "uncertain", !.at.l = leader + 1, !.ce = @ + 1]
                 IN  x \in WtEffects /\ x.state = "uncertain"
      <3>1. eff[b] \in WtEffects /\ eff[b].at \in WtPoints
        BY DEF WtInv, WtTyped, WtEffects
      <3>2. PICK n \in Nat : n = eff[b].ce + 1
        BY <3>1 DEF WtEffects
      <3>3. PICK p \in WtPoints : p = [eff[b].at EXCEPT !.l = l]
        BY <3>1 DEF WtPoints
      <3>4. LET x == [eff[b] EXCEPT !.state = "uncertain", !.at = p, !.ce = n]
            IN  x \in WtEffects /\ x.state = "uncertain"
        BY <3>1 DEF WtEffects
      <3>5. QED
        BY <2>2, <3>2, <3>3, <3>4
    <2>4. /\ eff' \in [Worktree!Bases -> WtEffects]
          /\ \A b \in Worktree!Bases : WtOpen(b)' <=> WtOpen(b)
          /\ \A b \in Worktree!Bases : eff[b].state = "confirmed" => eff'[b] = eff[b]
      BY <2>1, <2>3 DEF WtInv, WtTyped, WtOpen
    <2>5. WtTyped'
      BY <2>1, <2>2, <2>4 DEF WtInv, WtTyped
    <2>6. WtRows'
      BY <2>1, <2>4 DEF WtInv, WtRows, NoneOpen, Worktree!Exact
    <2>7. WtWorker'
      BY <2>1 DEF WtDown, WtWorker
    <2>8. QED
      BY <2>5, <2>6, <2>7 DEF WtInv
  <1> QED
    BY <1>1, <1>2

\* Only a serving daemon's activity goes on.
LEMMA WtActivity == ASSUME WtDown, Worktree!Next PROVE WtDown'
  <1>1. CASE Worktree!BaseMoves \/ Worktree!OtherWriter \/ Worktree!FenceRecoveredRunners
             \/ Worktree!Recover
    BY <1>1 DEF WtDown, Worktree!BaseMoves, Worktree!OtherWriter, Worktree!FenceRecoveredRunners,
                Worktree!Recover
  <1>2. CASE Worktree!Crash
    BY <1>2 DEF WtDown, Worktree!Crash, Worktree!Rest
  <1>3. CASE \/ Worktree!Ensure \/ Worktree!PlanEffect \/ Worktree!IssueGitMutationClaim
             \/ Worktree!CreateWorktree \/ Worktree!FetchBase \/ Worktree!AddWorktree
             \/ Worktree!Release \/ Worktree!Confirm \/ Worktree!Register
             \/ Worktree!PostClaimFailure \/ Worktree!WaitForCreation \/ Worktree!BeginAbsence
             \/ Worktree!Look \/ Worktree!CompleteAbsent \/ Worktree!AbandonAbsence
    <2>1. up = "serving" /\ up' = up
      BY <1>3 DEF Worktree!Ensure, Worktree!PlanEffect, Worktree!IssueGitMutationClaim,
         Worktree!CreateWorktree, Worktree!FetchBase, Worktree!AddWorktree, Worktree!Release,
         Worktree!Confirm, Worktree!Register, Worktree!PostClaimFailure, Worktree!WaitForCreation,
         Worktree!BeginAbsence, Worktree!Look, Worktree!CompleteAbsent, Worktree!AbandonAbsence,
         Worktree!At
    <2>2. QED
      BY <2>1 DEF WtDown
  <1> QED
    BY <1>1, <1>2, <1>3 DEF Worktree!Next

\* Every step of a worktree keeps the invariant.
LEMMA WtStep ==
    ASSUME WtInv, WtDown, Worktree!Next \/ UNCHANGED Worktree!vars
    PROVE  WtInv' /\ WtDown'
  <1>1. CASE Worktree!Next
    BY <1>1, WtWorld, WtEnsure, WtPlanEffect, WtIssue, WtCreate, WtChildren, WtRelease, WtConfirm,
       WtRegister, WtFailure, WtWaitForCreation, WtBeginAbsence, WtLook, WtAbsent,
       WtAbandonAbsence, WtDaemon, WtActivity DEF Worktree!Next
  <1>2. CASE UNCHANGED Worktree!vars
    BY <1>2 DEF Worktree!vars, WtInv, WtTyped, WtRows, WtWorker, WtOpen, NoneOpen, Worktree!Exact,
       WtDown
  <1> QED
    BY <1>1, <1>2

\* One creation is open at most, and what is registered is that one.
LEMMA WtOne == WtInv => Worktree!OneCreation
  <1> SUFFICES ASSUME WtInv PROVE Worktree!OneCreation
    OBVIOUS
  <1> DEFINE C == Worktree!CreationIntents
  <1>1. \A b : b \in C <=> b \in Worktree!Bases /\ WtOpen(b)
    BY DEF WtInv, WtRows, WtOpen, Worktree!CreationIntents
  <1>2. \A b, c \in C : b = c
    BY <1>1 DEF WtInv, WtRows
  <1> HIDE DEF C
  <1>3. Cardinality(C) <= 1
    <2>1. CASE C = {}
      BY <2>1, FS_EmptySet
    <2>2. CASE C # {}
      <3>1. PICK b : C = {b}
        BY <1>2, <2>2
      <3>2. Cardinality({b}) = 1
        BY FS_Singleton
      <3>3. QED
        BY <3>1, <3>2
    <2>3. QED
      BY <2>1, <2>2
  <1>4. Worktree!Cardinality(C) <= 1
    BY <1>3 DEF Worktree!Cardinality, Cardinality
  <1>5. C = {} => disk = Worktree!Empty /\ reg = 0
    BY <1>1 DEF WtInv, WtRows, NoneOpen
  <1>6. reg # 0 => /\ Worktree!Exact(reg) /\ eff[reg].state = "confirmed"
                   /\ reg \in C
    BY <1>1 DEF WtInv, WtRows, WtOpen
  <1>7. reg # 0 => C = {reg}
    BY <1>2, <1>6
  <1> QED
    BY <1>4, <1>5, <1>6, <1>7 DEF C, Worktree!OneCreation

\* A refreshed checkout that is not what is registered has its reservation and its recorded
\* commit, a completed one lies on disk as registered on the tip that was proved, and a
\* ticket's worktree is created once, whatever is retried, lost or adopted
\* (baserefresh/coordinator.go, git/base_refresh_apply.go, worktreecoord/coordinator.go).
THEOREM HostCheckoutIsAccounted == Spec => []CheckoutIsAccounted
  <1> DEFINE R == which = "refresh" => RefInv
             W == which = "worktree" => WtInv /\ WtDown
  <1>1. Init => R /\ W
    BY HostInit, RefInit, WtInit DEF WtDown, Worktree!Init, Worktree!Rest
  <1>2. R /\ W /\ [Next]_<<which, all>> => R' /\ W'
    <2>1. ASSUME RefInv, Refresh!Next \/ UNCHANGED Refresh!vars
          PROVE  RefInv'
      <3>1. CASE UNCHANGED Refresh!vars
        BY <2>1, <3>1 DEF Refresh!vars, Refresh!world, Refresh!store, Refresh!disk,
           Refresh!Pending, Refresh!New, RefInv, RefTyped, RefRows, RefWorker
      <3>2. QED
        BY <2>1, <3>1, RefStep
    <2>2. QED
      BY <2>1, HostStep, WtStep
  <1>3. R /\ W => CheckoutIsAccounted
    <2>1. RefInv => Refresh!CheckoutIsAccounted
      BY DEF RefInv, RefRows, Refresh!CheckoutIsAccounted, Refresh!Pending
    <2>2. QED
      BY <2>1, WtOne DEF CheckoutIsAccounted
  <1> QED
    BY <1>1, <1>2, <1>3, PTL DEF Spec

(***************************************************************************)
(* The branch moves only to reviewed tests, and a confirmed checkpoint is  *)
(* synced, for every number of daemons, edits, faults and reclaims.        *)
(*                                                                         *)
(* CheckpointIsReviewed looks at the branch after it moved; CkJob says     *)
(* what each step of the commit rests on before: which rows stand behind   *)
(* it, and that the tests in the private index are those of the receipt    *)
(* wherever the worktree is, since an edit writes bytes nobody had.        *)
(***************************************************************************)
CkStages == {"idle", "review", "reviewing", "resolve", "materialize", "command", "inspect", "plan",
             "issue", "reclaim", "lease", "add", "again", "update", "readd", "reset", "final",
             "confirm", "record", "signal"}
CkPoints == [i : Nat, l : Nat]
CkTrees == [head : Nat, impl : Nat, prot : Nat, idx : Nat]
CkStates == {"none", "planned", "executing", "uncertain", "failed", "confirmed"}
CkEffects == [st : CkStates, at : CkPoints, ce : Nat]
CkIntents == [at : CkPoints, ce : Nat, prep : Nat]
CkJobs == [pc : CkStages, built : Nat, replay : BOOLEAN, found : BOOLEAN]
CkMarks == [edits : Nat, faults : Nat, dirty : BOOLEAN, undone : BOOLEAN]

CkTyped ==
    /\ leader \in Nat /\ owner \in Seq(Nat)
    /\ tree \in CkTrees /\ eff \in CkEffects /\ intent \in CkIntents
    /\ job \in CkJobs /\ touched \in CkMarks
    /\ rev \in {"none", "running", "accepted", "rejected"}

\* The receipt is the accepted Reviewer's, and no later edit has its tests.
CkRows ==
    /\ tree.prot < touched.edits + 3
    /\ rev = "accepted" => tree.prot > 0
    /\ receipt # Checkpoint!None =>
          rev = "accepted" /\ receipt.full[3] \in Nat /\ receipt.full[3] > 0 /\ receipt.full[3] < touched.edits + 3
    /\ eff.st = "confirmed" => intent.prep # 0

CkJob ==
    /\ up # "serving" => job = Checkpoint!Rest
    /\ job.pc = "review" => rev \notin {"accepted", "rejected"}
    /\ job.pc = "reviewing" => rev = "running"
    /\ job.pc = "resolve" => rev \in {"accepted", "rejected"}
    /\ job.pc \notin {"idle", "review", "reviewing", "resolve"} => rev = "accepted"
    /\ job.pc \in Checkpoint!Commits \cup {"plan", "issue"} => receipt # Checkpoint!None
    /\ job.pc = "plan" => eff.st = "none"
    /\ job.pc = "issue" => eff.st = "planned"
    /\ job.pc \in Checkpoint!Commits => eff.st = "executing"
    /\ job.pc \in {"record", "signal"} => eff.st = "confirmed"
    /\ job.pc \in {"again", "update", "readd", "reset", "final"} => job.built > 0
    /\ job.pc = "again" /\ tree.prot = receipt.full[3] => job.built = tree.prot \/ touched.undone
    /\ job.pc = "update" /\ job.replay => job.built = tree.head
    /\ job.pc = "update" /\ ~job.replay => job.built = receipt.full[3] \/ touched.undone
    /\ job.pc = "confirm" => tree.head # 0 /\ tree.idx = tree.head

CkInv == CkTyped /\ CkRows /\ CkJob /\ Checkpoint!CheckpointIsReviewed

\* The checkpoint starts as the retained one.
LEMMA CkInit == Checkpoint!Init => CkInv
  BY DEF Checkpoint!Init, Checkpoint!NoFence, Checkpoint!None, Checkpoint!NoIntent, Checkpoint!Rest,
         Checkpoint!Commits, Checkpoint!CheckpointIsReviewed, CkInv, CkTyped, CkStages, CkPoints,
         CkTrees, CkStates, CkEffects, CkIntents, CkJobs, CkMarks, CkRows, CkJob

\* The activity goes on to a stage, or rests.
LEMMA CkGoes ==
    ASSUME job \in CkJobs
    PROVE  /\ Checkpoint!Rest \in CkJobs /\ Checkpoint!Rest.pc = "idle"
           /\ \A pc \in CkStages : Checkpoint!To(pc) =>
                 job' \in CkJobs /\ job'.pc = pc /\ job'.built = job.built /\ job'.replay = job.replay
           /\ \A pc \in CkStages : job' = [job EXCEPT !.pc = pc, !.found = TRUE] =>
                 job' \in CkJobs /\ job'.pc = pc
           /\ \A pc \in CkStages, b \in Nat : job' = [job EXCEPT !.pc = pc, !.built = b] =>
                 job' \in CkJobs /\ job'.pc = pc /\ job'.built = b /\ job'.replay = job.replay
           /\ \A pc \in CkStages, b \in BOOLEAN : job' = [job EXCEPT !.pc = pc, !.replay = b] =>
                 job' \in CkJobs /\ job'.pc = pc /\ job'.replay = b
  <1>1. Checkpoint!Rest \in CkJobs /\ Checkpoint!Rest.pc = "idle"
    BY DEF CkJobs, CkStages, Checkpoint!Rest
  <1>2. ASSUME NEW pc \in CkStages, Checkpoint!To(pc)
        PROVE  job' \in CkJobs /\ job'.pc = pc /\ job'.built = job.built /\ job'.replay = job.replay
    BY <1>2 DEF CkJobs, Checkpoint!To
  <1>3. ASSUME NEW pc \in CkStages, job' = [job EXCEPT !.pc = pc, !.found = TRUE]
        PROVE  job' \in CkJobs /\ job'.pc = pc
    BY <1>3 DEF CkJobs
  <1>4. ASSUME NEW pc \in CkStages, NEW b \in Nat, job' = [job EXCEPT !.pc = pc, !.built = b]
        PROVE  job' \in CkJobs /\ job'.pc = pc /\ job'.built = b /\ job'.replay = job.replay
    BY <1>4 DEF CkJobs
  <1>5. ASSUME NEW pc \in CkStages, NEW b \in BOOLEAN, job' = [job EXCEPT !.pc = pc, !.replay = b]
        PROVE  job' \in CkJobs /\ job'.pc = pc /\ job'.replay = b
    BY <1>5 DEF CkJobs
  <1> QED
    BY <1>1, <1>2, <1>3, <1>4, <1>5

\* The fence of the daemon that serves is a fence.
LEMMA CkLive ==
    ASSUME CkTyped
    PROVE  Checkpoint!Live \in CkPoints /\ Checkpoint!NoFence \in CkPoints
  BY DEF CkTyped, CkPoints, Checkpoint!Live, Checkpoint!NoFence

\* A step that moves only the activity.
LEMMA CkMoves ==
    ASSUME CkInv, UNCHANGED <<leader, owner, tree, rev, receipt, eff, intent, touched, outcome, up>>,
           job' \in CkJobs, CkJob'
    PROVE  CkInv'
  BY DEF CkInv, CkTyped, CkRows, Checkpoint!CheckpointIsReviewed, Checkpoint!Snapshot

\* The scheduler admits the ticket; a materialization looks where it stands.
LEMMA CkAdmits ==
    ASSUME CkInv, Checkpoint!Tick \/ Checkpoint!Materialize \/ Checkpoint!RunCommand
    PROVE  CkInv'
  <1>1. /\ UNCHANGED <<leader, owner, tree, rev, receipt, eff, intent, touched, outcome, up>>
        /\ up = "serving"
        /\ job' \in CkJobs
        /\ \/ job'.pc = "idle"
           \/ job'.pc = "materialize" /\ rev = "accepted"
           \/ job'.pc = "resolve" /\ rev \in {"accepted", "rejected"}
           \/ job'.pc = "review" /\ rev \notin {"accepted", "rejected"}
           \/ job'.pc \in {"command", "inspect", "reclaim"} /\ rev = "accepted"
           \/ job'.pc = "record" /\ rev = "accepted" /\ eff.st = "confirmed"
    <2>1. CASE Checkpoint!Tick
      BY <2>1, CkGoes DEF Checkpoint!Tick, Checkpoint!At, Checkpoint!durable, Checkpoint!AuthenticatePrepared,
         Checkpoint!PreparedCheckpoint, Checkpoint!SnapshotAuthentic, CkInv, CkTyped, CkStages
    <2>2. CASE Checkpoint!Materialize
      <3>1. UNCHANGED <<leader, owner, tree, rev, receipt, eff, intent, touched, outcome, up>> /\ up = "serving"
            /\ rev = "accepted"
        BY <2>2 DEF Checkpoint!Materialize, Checkpoint!At, Checkpoint!durable, CkInv, CkJob
      <3>2. \/ job' = Checkpoint!Rest
            \/ \E pc \in {"command", "inspect"} : Checkpoint!To(pc)
            \/ eff.st = "confirmed" /\ job' = [job EXCEPT !.pc = "record"]
            \/ job' = [job EXCEPT !.pc = "reclaim", !.found = TRUE]
        BY <2>2 DEF Checkpoint!Materialize
      <3>3. eff.st = "confirmed" /\ job' = [job EXCEPT !.pc = "record"] => eff.st = "confirmed" /\ Checkpoint!To("record")
        BY DEF Checkpoint!To
      <3>4. QED
        BY <3>1, <3>2, <3>3, CkGoes DEF CkInv, CkTyped, CkStages
    <2>3. CASE Checkpoint!RunCommand
      BY <2>3, CkGoes DEF Checkpoint!RunCommand, Checkpoint!At, CkInv, CkTyped, CkStages, CkJob
    <2>4. QED
      BY <2>1, <2>2, <2>3
  <1>2. CkJob'
    BY <1>1 DEF CkJob, Checkpoint!Commits
  <1> QED
    BY <1>1, <1>2, CkMoves

\* One fresh Reviewer, before there is any receipt, writes the tests or leaves them.
LEMMA CkReviews ==
    ASSUME CkInv, Checkpoint!LaunchReviewer \/ Checkpoint!ReviewerEnds \/ Checkpoint!Resolve
    PROVE  CkInv'
  <1>1. /\ UNCHANGED <<leader, owner, receipt, eff, intent, touched, up>> /\ up = "serving"
        /\ job' \in CkJobs
        /\ \/ /\ tree' = tree /\ outcome' = outcome /\ receipt = Checkpoint!None
              /\ job'.pc = "reviewing" /\ rev' = "running"
           \/ /\ tree' = [tree EXCEPT !.prot = 1] /\ outcome' = outcome /\ receipt = Checkpoint!None
              /\ job'.pc = "resolve" /\ rev' = "accepted"
           \/ /\ tree' = tree /\ outcome' = outcome /\ receipt = Checkpoint!None
              /\ job'.pc = "resolve" /\ rev' = "rejected"
           \/ /\ tree' = tree /\ outcome' = outcome /\ receipt = Checkpoint!None
              /\ job'.pc = "idle" /\ rev' = "none"
           \/ /\ tree' = tree /\ outcome' = "stopped" /\ job'.pc = "idle" /\ rev' = rev
           \/ /\ tree' = tree /\ outcome' = outcome /\ job'.pc = "materialize" /\ rev' = rev
              /\ rev = "accepted"
    BY CkGoes DEF Checkpoint!LaunchReviewer, Checkpoint!ReviewerEnds, Checkpoint!Resolve, Checkpoint!At,
       CkInv, CkTyped, CkStages, CkJob, CkRows
  <1>2. tree' \in CkTrees /\ UNCHANGED <<tree.head, tree.idx>> /\ (tree' = tree \/ tree'.prot = 1)
    BY <1>1 DEF CkInv, CkTyped, CkTrees
  <1>3. CkTyped'
    BY <1>1, <1>2 DEF CkInv, CkTyped
  <1>4. CkRows'
    BY <1>1, <1>2 DEF CkInv, CkTyped, CkTrees, CkMarks, CkRows
  <1>5. CkJob'
    BY <1>1 DEF CkJob, Checkpoint!Commits
  <1>6. Checkpoint!CheckpointIsReviewed'
    BY <1>1, <1>2 DEF CkInv, Checkpoint!CheckpointIsReviewed, Checkpoint!Snapshot
  <1> QED
    BY <1>3, <1>4, <1>5, <1>6 DEF CkInv

\* The receipt is written once, of the worktree as it stands at the original head.
LEMMA CkSnapshot == ASSUME CkInv, Checkpoint!RecordSnapshot PROVE CkInv'
  <1>1. /\ UNCHANGED <<leader, owner, tree, rev, eff, intent, touched, outcome, up>>
        /\ up = "serving" /\ rev = "accepted"
        /\ job' \in CkJobs
        /\ \/ receipt' = receipt /\ job'.pc = "idle"
           \/ /\ receipt' = receipt \/ (/\ receipt = Checkpoint!None /\ tree.head = 0
                                        /\ receipt' = [at |-> Checkpoint!Live,
                                                       full |-> Checkpoint!InspectRetainedWorktree])
              /\ receipt' # Checkpoint!None
              /\ job'.pc = "idle" \/ job'.pc = "reclaim" \/ (job'.pc = "plan" /\ eff.st = "none")
    <2>1. /\ UNCHANGED <<leader, owner, tree, rev, eff, intent, touched, outcome, up>>
          /\ up = "serving" /\ rev = "accepted"
      BY DEF Checkpoint!RecordSnapshot, Checkpoint!At, CkInv, CkJob
    <2>2. [at |-> Checkpoint!Live, full |-> Checkpoint!InspectRetainedWorktree] # Checkpoint!None
      BY DEF Checkpoint!None, Checkpoint!InspectRetainedWorktree
    <2>3. \/ receipt' = receipt /\ job' = Checkpoint!Rest
          \/ /\ receipt' = receipt \/ (/\ receipt = Checkpoint!None /\ tree.head = 0
                                        /\ receipt' = [at |-> Checkpoint!Live,
                                                       full |-> Checkpoint!InspectRetainedWorktree])
             /\ receipt' # Checkpoint!None
             /\ \/ job' = Checkpoint!Rest
                \/ eff.st = "none" /\ job' = [job EXCEPT !.pc = "plan"]
                \/ job' = [job EXCEPT !.pc = "reclaim"]
      BY <2>2 DEF Checkpoint!RecordSnapshot
    <2>4. /\ job' = [job EXCEPT !.pc = "plan"] <=> Checkpoint!To("plan")
          /\ job' = [job EXCEPT !.pc = "reclaim"] <=> Checkpoint!To("reclaim")
      BY DEF Checkpoint!To
    <2>5. QED
      BY <2>1, <2>3, <2>4, CkGoes DEF CkInv, CkTyped, CkStages
  <1>2. CkTyped'
    BY <1>1 DEF CkInv, CkTyped
  <1>3. CkRows'
    BY <1>1 DEF CkInv, CkTyped, CkTrees, CkMarks, CkRows, Checkpoint!InspectRetainedWorktree
  <1>4. CkJob'
    BY <1>1 DEF CkJob, Checkpoint!Commits
  <1>5. Checkpoint!CheckpointIsReviewed'
    BY <1>1 DEF CkInv, Checkpoint!CheckpointIsReviewed, Checkpoint!Snapshot
  <1> QED
    BY <1>2, <1>3, <1>4, <1>5 DEF CkInv

\* The effect and its claim, planned, issued or taken over, are never more than executing.
LEMMA CkClaims ==
    ASSUME CkInv, Checkpoint!PlanEffect \/ Checkpoint!IssueGitMutationClaim \/ Checkpoint!Reclaim
    PROVE  CkInv'
  <1>1. /\ UNCHANGED <<leader, owner, tree, rev, receipt, outcome, touched, up>>
        /\ up = "serving" /\ rev = "accepted"
        /\ Checkpoint!Live \in CkPoints
    BY CkLive DEF Checkpoint!PlanEffect, Checkpoint!IssueGitMutationClaim, Checkpoint!Reclaim,
       Checkpoint!At, CkInv, CkJob
  <1>2. /\ eff' \in CkEffects /\ intent' \in CkIntents /\ job' \in CkJobs
        /\ \/ /\ UNCHANGED <<eff, intent>> /\ job'.pc = "idle"
           \/ /\ eff.st # "confirmed" /\ receipt # Checkpoint!None
              /\ \/ eff'.st = "planned" /\ job'.pc = "issue"
                 \/ eff'.st = "executing" /\ job'.pc = "lease"
                 \/ eff'.st = "executing" /\ job'.pc = "confirm" /\ intent'.prep # 0 /\ Checkpoint!Synced(intent'.prep)
    <2>1. CASE Checkpoint!PlanEffect
      BY <1>1, <2>1, CkGoes DEF Checkpoint!PlanEffect, Checkpoint!At, CkInv, CkTyped, CkStages, CkJob,
         CkEffects, CkStates
    <2>2. CASE Checkpoint!IssueGitMutationClaim
      <3>1. eff' \in CkEffects /\ eff'.st = "executing" /\ intent' \in CkIntents
        BY <1>1, <2>2 DEF Checkpoint!IssueGitMutationClaim, CkInv, CkTyped, CkEffects, CkStates, CkIntents
      <3>2. QED
        BY <2>2, <3>1, CkGoes DEF Checkpoint!IssueGitMutationClaim, Checkpoint!At, CkInv, CkTyped,
           CkStages, CkJob
    <2>3. CASE Checkpoint!Reclaim
      <3>1. PICK n \in Nat : n = eff.ce + 1
        BY DEF CkInv, CkTyped, CkEffects
      <3>2. CASE ~Checkpoint!Reclaimable \/ (~Checkpoint!SameFence /\ reclaims >= MaxCheckpointReclaims)
        BY <2>3, <3>2, CkGoes DEF Checkpoint!Reclaim, CkInv, CkTyped
      <3>3. CASE Checkpoint!Reclaimable /\ ~(~Checkpoint!SameFence /\ reclaims >= MaxCheckpointReclaims)
        <4>1. receipt # Checkpoint!None /\ eff.st # "confirmed"
          BY <3>3 DEF Checkpoint!Reclaimable, Checkpoint!SnapshotAuthentic
        <4>2. eff' \in CkEffects /\ eff'.st = "executing" /\ intent' \in CkIntents /\ intent'.prep = intent.prep
          <5>1. CASE Checkpoint!SameFence
            BY <2>3, <3>3, <5>1 DEF Checkpoint!Reclaim, Checkpoint!SameFence, CkInv, CkTyped
          <5>2. CASE ~Checkpoint!SameFence
            <6>1. /\ eff' = [st |-> "executing", at |-> Checkpoint!Live, ce |-> n]
                  /\ intent' = [intent EXCEPT !.at = Checkpoint!Live, !.ce = n]
              BY <2>3, <3>1, <3>3, <5>2 DEF Checkpoint!Reclaim
            <6>2. QED
              BY <1>1, <6>1 DEF CkInv, CkTyped, CkEffects, CkStates, CkIntents
          <5>3. QED
            BY <5>1, <5>2
        <4>3. \/ Checkpoint!To("lease")
              \/ Checkpoint!To("confirm") /\ intent.prep # 0 /\ Checkpoint!Synced(intent.prep)
          BY <2>3, <3>3 DEF Checkpoint!Reclaim
        <4>4. QED
          BY <4>1, <4>2, <4>3, CkGoes DEF CkInv, CkTyped, CkStages
      <3>4. QED
        BY <3>2, <3>3
    <2>4. QED
      BY <2>1, <2>2, <2>3
  <1>3. CkTyped'
    BY <1>1, <1>2 DEF CkInv, CkTyped
  <1>4. CkRows'
    BY <1>1, <1>2 DEF CkInv, CkRows
  <1>5. CkJob'
    BY <1>1, <1>2 DEF CkJob, Checkpoint!Commits, Checkpoint!Synced
  <1>6. Checkpoint!CheckpointIsReviewed'
    BY <1>1, <1>2 DEF CkInv, Checkpoint!CheckpointIsReviewed, Checkpoint!Snapshot
  <1> QED
    BY <1>3, <1>4, <1>5, <1>6 DEF CkInv

\* A commit that ends early leaves the worktree as it is, and its effect unconfirmed.
LEMMA CkSettles ==
    ASSUME CkInv, up = "serving", job.pc \in Checkpoint!Commits, Checkpoint!Settle,
           UNCHANGED <<leader, owner, tree, rev, receipt, outcome, up>>,
           touched' \in CkMarks, touched'.edits = touched.edits, touched'.undone = touched.undone
    PROVE  CkInv'
  <1>1. eff.st = "executing"
    BY DEF CkInv, CkJob
  <1>2. /\ eff' \in CkEffects /\ eff'.st # "confirmed"
        /\ intent' \in CkIntents
    <2>1. Checkpoint!NoIntent \in CkIntents
      BY CkLive DEF Checkpoint!NoIntent, CkInv, CkIntents
    <2>2. \/ eff' = eff \/ eff' = [eff EXCEPT !.st = "failed"] \/ eff' = [eff EXCEPT !.st = "uncertain"]
      BY DEF Checkpoint!Settle, Checkpoint!Retire
    <2>3. intent' = intent \/ intent' = Checkpoint!NoIntent
      BY DEF Checkpoint!Settle, Checkpoint!Retire
    <2>4. QED
      BY <1>1, <2>1, <2>2, <2>3 DEF CkInv, CkTyped, CkEffects, CkStates
  <1>3. job' \in CkJobs /\ job' = Checkpoint!Rest /\ job'.pc = "idle"
    BY CkGoes DEF Checkpoint!Settle, CkInv, CkTyped
  <1>4. CkTyped'
    BY <1>2, <1>3 DEF CkInv, CkTyped
  <1>5. CkRows'
    BY <1>2 DEF CkInv, CkRows
  <1>6. CkJob'
    BY <1>3 DEF CkInv, CkJob, Checkpoint!Commits
  <1>7. Checkpoint!CheckpointIsReviewed'
    BY <1>1, <1>2 DEF CkInv, Checkpoint!CheckpointIsReviewed, Checkpoint!Snapshot
  <1> QED
    BY <1>4, <1>5, <1>6, <1>7 DEF CkInv

\* A step of the commit that passes leaves head and index alone, or sets them as it has prepared.
LEMMA CkPasses ==
    ASSUME CkInv, up = "serving", job.pc \in Checkpoint!Commits, rev = "accepted",
           UNCHANGED <<leader, owner, rev, receipt, outcome, up, eff, touched>>,
           job' \in CkJobs, intent' \in CkIntents, tree' \in CkTrees, tree'.prot = tree.prot, CkJob',
           tree'.head # 0 => /\ receipt # Checkpoint!None /\ receipt.full[2] = Checkpoint!Snapshot.impl
                             /\ tree'.head = receipt.full[3] \/ touched.undone
    PROVE  CkInv'
  <1>1. eff.st = "executing"
    BY DEF CkInv, CkJob
  <1>2. CkTyped'
    BY DEF CkInv, CkTyped
  <1>3. CkRows'
    BY <1>1 DEF CkInv, CkRows
  <1>4. Checkpoint!CheckpointIsReviewed'
    BY <1>1 DEF CkInv, Checkpoint!CheckpointIsReviewed, Checkpoint!Snapshot
  <1> QED
    BY <1>2, <1>3, <1>4 DEF CkInv

\* The tests are taken into the private index and read again before anything is recorded: what
\* is recorded as prepared is the receipt's, or what the branch has already.
LEMMA CkPrepares ==
    ASSUME CkInv,
           Checkpoint!ReconcileCommit \/ Checkpoint!AddProtected \/ Checkpoint!RecordPrepared
    PROVE  CkInv'
  <1>1. /\ UNCHANGED <<leader, owner, tree, rev, receipt, outcome, up, touched>> /\ up = "serving"
        /\ job.pc \in Checkpoint!Commits /\ rev = "accepted" /\ receipt # Checkpoint!None
        /\ eff.st = "executing"
    BY DEF Checkpoint!ReconcileCommit, Checkpoint!AddProtected, Checkpoint!RecordPrepared,
       Checkpoint!Check, Checkpoint!At, Checkpoint!Settle, Checkpoint!Commits, CkInv, CkJob
  <1>2. CASE Checkpoint!Settle
    BY <1>1, <1>2, CkSettles DEF CkInv, CkTyped
  <1>3. CASE /\ Checkpoint!ReconcileCommit
             /\ eff' = eff /\ intent' = intent
             /\ job' = [job EXCEPT !.pc = "add", !.replay = tree.head # 0]
    <2>1. PICK b \in BOOLEAN : b = (tree.head # 0)
      OBVIOUS
    <2>2. job' \in CkJobs /\ job'.pc = "add"
      BY <1>3, <2>1, CkGoes DEF CkInv, CkTyped, CkStages
    <2>3. CkJob'
      BY <1>1, <1>3, <2>2 DEF CkJob, Checkpoint!Commits
    <2>4. QED
      BY <1>1, <1>3, <2>2, <2>3, CkPasses DEF CkInv, CkTyped, Checkpoint!CheckpointIsReviewed
  <1>4. CASE /\ Checkpoint!AddProtected
             /\ eff' = eff /\ intent' = intent
             /\ job' = [job EXCEPT !.pc = "again", !.built = tree.prot]
    <2>1. job' \in CkJobs /\ job'.pc = "again" /\ job'.built = tree.prot /\ tree.prot > 0
      BY <1>1, <1>4, CkGoes DEF CkInv, CkTyped, CkStages, CkTrees, CkRows
    <2>2. CkJob'
      BY <1>1, <1>4, <2>1 DEF CkJob, Checkpoint!Commits
    <2>3. QED
      BY <1>1, <1>4, <2>1, <2>2, CkPasses DEF CkInv, CkTyped, Checkpoint!CheckpointIsReviewed
  <1>5. CASE /\ Checkpoint!RecordPrepared
             /\ eff' = eff /\ intent' = [intent EXCEPT !.prep = job.built] /\ Checkpoint!To("update")
             /\ Checkpoint!Full /\ (job.replay => job.built = tree.head)
    <2>1. /\ job' \in CkJobs /\ job'.pc = "update" /\ job'.built = job.built /\ job'.replay = job.replay
          /\ job.pc = "again" /\ job.built \in Nat
      BY <1>5, CkGoes DEF Checkpoint!RecordPrepared, Checkpoint!At, CkInv, CkTyped, CkStages, CkJobs
    <2>2. intent' \in CkIntents
      BY <1>5, <2>1 DEF CkInv, CkTyped, CkIntents
    <2>3. ~job.replay => tree.prot = receipt.full[3]
      BY <1>5 DEF Checkpoint!Full, Checkpoint!InspectRetainedWorktree
    <2>4. CkJob'
      BY <1>1, <1>5, <2>1, <2>3 DEF CkInv, CkJob, Checkpoint!Commits
    <2>5. QED
      BY <1>1, <1>5, <2>1, <2>2, <2>4, CkPasses DEF CkInv, CkTyped, Checkpoint!CheckpointIsReviewed
  <1> QED
    BY <1>2, <1>3, <1>4, <1>5 DEF Checkpoint!ReconcileCommit, Checkpoint!AddProtected,
       Checkpoint!RecordPrepared, Checkpoint!Check

\* The branch moves to what was prepared, over the worktree of the receipt.
LEMMA CkUpdates == ASSUME CkInv, Checkpoint!UpdateRef PROVE CkInv'
  <1>1. /\ UNCHANGED <<leader, owner, rev, receipt, outcome, up, touched>> /\ up = "serving"
        /\ job.pc = "update" /\ job.pc \in Checkpoint!Commits /\ rev = "accepted" /\ receipt # Checkpoint!None
        /\ eff.st = "executing" /\ job.built > 0 /\ job.built \in Nat
    BY DEF Checkpoint!UpdateRef, Checkpoint!Check, Checkpoint!At, Checkpoint!Commits, CkInv, CkTyped, CkJobs, CkJob
  <1>2. CASE Checkpoint!Settle /\ tree' = tree
    BY <1>1, <1>2, CkSettles DEF CkInv, CkTyped
  <1>3. CASE /\ Checkpoint!Implementation /\ Checkpoint!Full
             /\ eff' = eff /\ intent' = intent
             /\ tree' = [tree EXCEPT !.head = job.built] /\ Checkpoint!To("readd")
    <2>1. /\ tree' \in CkTrees /\ tree'.head = job.built
          /\ UNCHANGED <<tree.impl, tree.prot, tree.idx>>
      BY <1>1, <1>3 DEF CkInv, CkTyped, CkTrees
    <2>2. job' \in CkJobs /\ job'.pc = "readd" /\ job'.built = job.built
      BY <1>3, CkGoes DEF CkInv, CkTyped, CkStages
    <2>3. CkJob'
      BY <1>1, <1>3, <2>2 DEF CkJob, Checkpoint!Commits
    <2>4. receipt.full[2] = Checkpoint!Snapshot.impl /\ (job.built = receipt.full[3] \/ touched.undone)
      <3>1. CASE job.replay
        BY <1>1, <3>1 DEF CkInv, CkJob, Checkpoint!CheckpointIsReviewed
      <3>2. CASE ~job.replay
        BY <1>1, <1>3, <3>2 DEF CkInv, CkJob, Checkpoint!Full, Checkpoint!Implementation,
           Checkpoint!InspectRetainedWorktree, Checkpoint!InspectRetainedImplementation
      <3>3. QED
        BY <3>1, <3>2
    <2>5. QED
      BY <1>1, <1>3, <2>1, <2>2, <2>3, <2>4, CkPasses DEF CkInv, CkTyped
  <1> QED
    BY <1>2, <1>3 DEF Checkpoint!UpdateRef, Checkpoint!Check

\* The index follows the branch, and both are looked at once more.
LEMMA CkSyncs ==
    ASSUME CkInv, Checkpoint!CheckTree \/ Checkpoint!ResetIndex \/ Checkpoint!CheckSynced
    PROVE  CkInv'
  <1>1. /\ UNCHANGED <<leader, owner, rev, receipt, outcome, up, touched>> /\ up = "serving"
        /\ job.pc \in Checkpoint!Commits /\ rev = "accepted" /\ receipt # Checkpoint!None
        /\ eff.st = "executing" /\ job.built > 0 /\ job.built \in Nat
    BY DEF Checkpoint!CheckTree, Checkpoint!ResetIndex, Checkpoint!CheckSynced, Checkpoint!Check,
       Checkpoint!At, Checkpoint!Commits, CkInv, CkTyped, CkJobs, CkJob
  <1>2. CASE Checkpoint!Settle /\ tree' = tree
    BY <1>1, <1>2, CkSettles DEF CkInv, CkTyped
  <1>3. CASE /\ eff' = eff /\ intent' = intent
             /\ \/ tree' = tree /\ Checkpoint!To("reset")
                \/ tree' = [tree EXCEPT !.idx = job.built] /\ Checkpoint!To("final")
                \/ tree' = tree /\ Checkpoint!Synced(job.built) /\ Checkpoint!To("confirm")
    <2>1. tree' \in CkTrees /\ tree'.prot = tree.prot /\ tree'.head = tree.head
      BY <1>1, <1>3 DEF CkInv, CkTyped, CkTrees
    <2>2. /\ job' \in CkJobs /\ job'.built = job.built
          /\ \/ job'.pc \in {"reset", "final"}
             \/ job'.pc = "confirm" /\ tree' = tree /\ Checkpoint!Synced(job.built)
      BY <1>3, CkGoes DEF CkInv, CkTyped, CkStages
    <2>3. CkJob'
      BY <1>1, <1>3, <2>1, <2>2 DEF CkJob, Checkpoint!Commits, Checkpoint!Synced
    <2>4. QED
      BY <1>1, <1>3, <2>1, <2>2, <2>3, CkPasses DEF CkInv, CkTyped, Checkpoint!CheckpointIsReviewed
  <1> QED
    BY <1>2, <1>3 DEF Checkpoint!CheckTree, Checkpoint!ResetIndex, Checkpoint!CheckSynced, Checkpoint!Check

\* What is confirmed was seen in head and index, and nothing moves them afterwards.
LEMMA CkConfirms ==
    ASSUME CkInv,
           Checkpoint!ConfirmPreparedCommit \/ Checkpoint!RecordVerification \/ Checkpoint!SignalAccepted
    PROVE  CkInv'
  <1>1. /\ UNCHANGED <<leader, owner, tree, rev, receipt, touched, up>> /\ up = "serving"
        /\ rev = "accepted"
    BY DEF Checkpoint!ConfirmPreparedCommit, Checkpoint!RecordVerification, Checkpoint!SignalAccepted,
       Checkpoint!At, CkInv, CkJob
  <1>2. CASE Checkpoint!Settle /\ Checkpoint!ConfirmPreparedCommit
    <2>1. outcome' = outcome /\ job.pc \in Checkpoint!Commits
      BY <1>2 DEF Checkpoint!ConfirmPreparedCommit, Checkpoint!At, Checkpoint!Commits
    <2>2. QED
      BY <1>1, <1>2, <2>1, CkSettles DEF CkInv, CkTyped
  <1>3. CASE /\ Checkpoint!ConfirmPreparedCommit /\ tree.head = intent.prep
             /\ eff' = [eff EXCEPT !.st = "confirmed"] /\ Checkpoint!To("record") /\ intent' = intent
    <2>1. job.pc = "confirm" /\ outcome' = outcome
      BY <1>3 DEF Checkpoint!ConfirmPreparedCommit, Checkpoint!At
    <2>2. eff' \in CkEffects /\ eff'.st = "confirmed"
      BY <1>3 DEF CkInv, CkTyped, CkEffects, CkStates
    <2>3. job' \in CkJobs /\ job'.pc = "record"
      BY <1>3, CkGoes DEF CkInv, CkTyped, CkStages
    <2>4. tree.head # 0 /\ tree.idx = tree.head
      BY <2>1 DEF CkInv, CkJob
    <2>5. CkTyped'
      BY <1>1, <1>3, <2>2, <2>3 DEF CkInv, CkTyped
    <2>6. CkRows'
      BY <1>1, <1>3, <2>4 DEF CkInv, CkRows
    <2>7. CkJob'
      BY <1>1, <2>2, <2>3 DEF CkJob, Checkpoint!Commits
    <2>8. Checkpoint!CheckpointIsReviewed'
      BY <1>1, <2>1, <2>2, <2>4 DEF CkInv, Checkpoint!CheckpointIsReviewed, Checkpoint!Snapshot
    <2>9. QED
      BY <2>5, <2>6, <2>7, <2>8 DEF CkInv
  <1>4. CASE Checkpoint!RecordVerification \/ Checkpoint!SignalAccepted
    <2>1. /\ UNCHANGED <<eff, intent>> /\ eff.st = "confirmed"
          /\ job' \in CkJobs /\ job'.pc \in {"idle", "signal"}
      BY <1>4, CkGoes DEF Checkpoint!RecordVerification, Checkpoint!SignalAccepted, Checkpoint!At,
         CkInv, CkTyped, CkStages, CkJob
    <2>2. CkTyped'
      BY <1>1, <2>1 DEF CkInv, CkTyped
    <2>3. CkRows'
      BY <1>1, <2>1 DEF CkInv, CkRows
    <2>4. CkJob'
      BY <1>1, <2>1 DEF CkJob, Checkpoint!Commits
    <2>5. Checkpoint!CheckpointIsReviewed'
      BY <1>1, <2>1 DEF CkInv, Checkpoint!CheckpointIsReviewed, Checkpoint!Snapshot
    <2>6. QED
      BY <2>2, <2>3, <2>4, <2>5 DEF CkInv
  <1> QED
    BY <1>2, <1>3, <1>4 DEF Checkpoint!ConfirmPreparedCommit

\* A step that fails by itself ends the activity.
LEMMA CkFaults == ASSUME CkInv, Checkpoint!Fault PROVE CkInv'
  <1>1. UNCHANGED <<leader, owner, tree, rev, receipt, outcome, up>> /\ up = "serving"
    BY DEF Checkpoint!Fault
  <1>2. /\ touched' \in CkMarks /\ touched'.edits = touched.edits /\ touched'.undone = touched.undone
    <2>1. PICK n \in Nat : n = touched.faults + 1
      BY DEF CkInv, CkTyped, CkMarks
    <2>2. touched' = [touched EXCEPT !.faults = n]
      BY <2>1 DEF Checkpoint!Fault
    <2>3. QED
      BY <2>2, ZenonT(60) DEF CkInv, CkTyped, CkMarks
  <1>3. CASE job.pc \in Checkpoint!Commits /\ Checkpoint!Settle
    BY <1>1, <1>2, <1>3, CkSettles
  <1>4. CASE job' = Checkpoint!Rest /\ UNCHANGED <<eff, intent>>
    <2>1. job' \in CkJobs /\ job'.pc = "idle"
      BY <1>4, CkGoes DEF CkInv, CkTyped
    <2>2. CkTyped'
      BY <1>1, <1>2, <1>4, <2>1 DEF CkInv, CkTyped
    <2>3. CkRows'
      BY <1>1, <1>2, <1>4 DEF CkInv, CkRows
    <2>4. CkJob'
      BY <1>1, <2>1 DEF CkJob, Checkpoint!Commits
    <2>5. Checkpoint!CheckpointIsReviewed'
      BY <1>1, <1>2, <1>4 DEF CkInv, Checkpoint!CheckpointIsReviewed, Checkpoint!Snapshot
    <2>6. QED
      BY <2>2, <2>3, <2>4, <2>5 DEF CkInv
  <1> QED
    BY <1>3, <1>4 DEF Checkpoint!Fault

\* Whoever edits the worktree writes bytes nobody had, or puts the receipt's back; the latter is
\* marked when the private index holds others.
LEMMA CkEdits == ASSUME CkInv, Checkpoint!Edit \/ Checkpoint!Restore PROVE CkInv'
  <1>1. UNCHANGED <<leader, owner, rev, receipt, eff, intent, outcome, job, up>>
    BY DEF Checkpoint!Edit, Checkpoint!Restore, Checkpoint!durable
  <1>2. /\ tree' \in CkTrees /\ tree'.head = tree.head /\ tree'.idx = tree.idx
        /\ touched' \in CkMarks /\ touched'.edits >= touched.edits
        /\ touched.undone => touched'.undone
        /\ \/ tree'.prot = tree.prot
           \/ tree'.prot = touched.edits + 3 /\ touched'.edits = touched.edits + 1
           \/ /\ receipt # Checkpoint!None /\ tree'.prot = receipt.full[3]
              /\ job.pc = "again" /\ job.built # receipt.full[3] => touched'.undone
    <2>1. CASE Checkpoint!Edit
      <3>1. PICK n \in Nat, k \in Nat : n = touched.edits + 3 /\ k = touched.edits + 1
        BY DEF CkInv, CkTyped, CkMarks
      <3>2. /\ tree' \in {[tree EXCEPT !.impl = n], [tree EXCEPT !.prot = n]}
            /\ touched' = [touched EXCEPT !.edits = k, !.dirty = TRUE]
        BY <2>1, <3>1 DEF Checkpoint!Edit
      <3>3. touched' \in CkMarks /\ touched'.edits = k /\ touched'.undone = touched.undone
        BY <3>2, ZenonT(60) DEF CkInv, CkTyped, CkMarks
      <3>4. /\ tree' \in CkTrees /\ tree'.head = tree.head /\ tree'.idx = tree.idx
            /\ tree'.prot = tree.prot \/ tree'.prot = n
        BY <3>2 DEF CkInv, CkTyped, CkTrees
      <3>5. touched.edits \in Nat
        BY DEF CkInv, CkTyped, CkMarks
      <3>6. QED
        BY <3>1, <3>3, <3>4, <3>5
    <2>2. CASE Checkpoint!Restore
      <3>1. PICK u \in BOOLEAN : u = (touched.undone \/ (job.pc = "again" /\ job.built # receipt.full[3]))
        OBVIOUS
      <3>2. touched' = [touched EXCEPT !.undone = u]
        BY <2>2, <3>1 DEF Checkpoint!Restore
      <3>3. touched' \in CkMarks /\ touched'.edits = touched.edits /\ touched'.undone = u
        BY <3>2, ZenonT(60) DEF CkInv, CkTyped, CkMarks
      <3>4. /\ receipt # Checkpoint!None /\ receipt.full[3] \in Nat
            /\ tree' = [tree EXCEPT !.impl = 1, !.prot = receipt.full[3]]
        BY <2>2 DEF Checkpoint!Restore, Checkpoint!Snapshot, CkInv, CkRows
      <3>5. /\ tree' \in CkTrees /\ tree'.head = tree.head /\ tree'.idx = tree.idx
            /\ tree'.prot = receipt.full[3]
        BY <3>4 DEF CkInv, CkTyped, CkTrees
      <3>6. touched.edits \in Nat
        BY DEF CkInv, CkTyped, CkMarks
      <3>7. /\ touched.undone => touched'.undone
            /\ job.pc = "again" /\ job.built # receipt.full[3] => touched'.undone
        BY <3>1, <3>3, Zenon
      <3>8. touched'.edits >= touched.edits
        BY <3>3, <3>6
      <3>9. QED
        BY <3>3, <3>4, <3>5, <3>7, <3>8
    <2>3. QED
      BY <2>1, <2>2
  <1>3. touched.edits \in Nat /\ touched'.edits \in Nat /\ tree.prot \in Nat
    BY <1>2 DEF CkInv, CkTyped, CkMarks, CkTrees
  <1>4. CkTyped'
    BY <1>1, <1>2 DEF CkInv, CkTyped
  <1>5. CkRows'
    BY <1>1, <1>2, <1>3 DEF CkInv, CkRows
  <1>6. CkJob'
    <2>1. job.pc = "again" => receipt # Checkpoint!None
      BY DEF CkInv, CkJob, Checkpoint!Commits
    <2>2. job.pc = "again" /\ tree'.prot = receipt.full[3] => job.built = tree'.prot \/ touched'.undone
      BY <1>1, <1>2, <1>3, <2>1 DEF CkInv, CkRows, CkJob
    <2>3. QED
      BY <1>1, <1>2, <2>2 DEF CkInv, CkJob
  <1>7. Checkpoint!CheckpointIsReviewed'
    BY <1>1, <1>2 DEF CkInv, Checkpoint!CheckpointIsReviewed, Checkpoint!Snapshot
  <1> QED
    BY <1>4, <1>5, <1>6, <1>7 DEF CkInv

\* A daemon dies with its activity; a new one confirms nothing by itself.
LEMMA CkRestarts ==
    ASSUME CkInv, Checkpoint!Crash \/ Checkpoint!Start \/ Checkpoint!Recover
    PROVE  CkInv'
  <1>1. CASE Checkpoint!Crash
    <2>1. /\ UNCHANGED <<leader, owner, receipt, eff, intent, outcome>>
          /\ job' = Checkpoint!Rest /\ job' \in CkJobs /\ job'.pc = "idle"
          /\ rev' \in {rev, "none"} /\ (rev' # rev => rev = "running")
          /\ \/ UNCHANGED <<tree, touched>>
             \/ /\ rev = "running" /\ tree' = [tree EXCEPT !.prot = 2]
                /\ touched' = [touched EXCEPT !.dirty = TRUE]
      BY <1>1, CkGoes DEF Checkpoint!Crash, CkInv, CkTyped
    <2>2. touched' \in CkMarks /\ touched'.edits = touched.edits /\ touched'.undone = touched.undone
      BY <2>1, ZenonT(60) DEF CkInv, CkTyped, CkMarks
    <2>3. /\ tree' \in CkTrees /\ tree'.head = tree.head /\ tree'.idx = tree.idx
          /\ tree'.prot = tree.prot \/ tree'.prot = 2
      BY <2>1 DEF CkInv, CkTyped, CkTrees
    <2>4. touched.edits \in Nat
      BY DEF CkInv, CkTyped, CkMarks
    <2>5. CkTyped'
      BY <2>1, <2>2, <2>3 DEF CkInv, CkTyped
    <2>6. CkRows'
      BY <2>1, <2>2, <2>3, <2>4 DEF CkInv, CkRows
    <2>7. CkJob'
      BY <2>1 DEF CkJob, Checkpoint!Commits
    <2>8. Checkpoint!CheckpointIsReviewed'
      BY <2>1, <2>2, <2>3 DEF CkInv, Checkpoint!CheckpointIsReviewed, Checkpoint!Snapshot
    <2>9. QED
      BY <2>5, <2>6, <2>7, <2>8 DEF CkInv
  <1>2. CASE Checkpoint!Start \/ Checkpoint!Recover
    <2>1. /\ UNCHANGED <<tree, rev, receipt, intent, outcome, job, touched>>
          /\ job = Checkpoint!Rest /\ job.pc = "idle"
      <3>1. /\ UNCHANGED <<tree, rev, receipt, intent, outcome, job, touched>>
            /\ up # "serving"
        BY <1>2 DEF Checkpoint!Start, Checkpoint!Recover
      <3>2. QED
        BY <3>1 DEF CkInv, CkJob, Checkpoint!Rest
    <2>2. leader' \in Nat /\ owner' \in Seq(Nat)
      <3>1. leader' = leader \/ leader' = leader + 1
        BY <1>2 DEF Checkpoint!Start, Checkpoint!Recover
      <3>2. owner' = owner \/ owner' = Append(owner, leader)
        BY <1>2 DEF Checkpoint!Start, Checkpoint!Recover
      <3>3. leader \in Nat /\ owner \in Seq(Nat)
        BY DEF CkInv, CkTyped
      <3>4. leader' \in Nat
        BY <3>1, <3>3
      <3>5. owner' \in Seq(Nat)
        BY <3>2, <3>3
      <3>6. QED
        BY <3>4, <3>5
    <2>3. eff' \in CkEffects /\ (eff'.st = "confirmed" <=> eff.st = "confirmed")
      <3>1. CASE eff' = eff
        BY <3>1 DEF CkInv, CkTyped
      <3>2. CASE /\ eff.st \in {"executing", "uncertain"}
                 /\ eff' = [st |-> "uncertain", at |-> [eff.at EXCEPT !.l = leader + 1], ce |-> eff.ce + 1]
        <4>1. [eff.at EXCEPT !.l = leader + 1] \in CkPoints /\ eff.ce + 1 \in Nat
          <5>1. PICK n \in Nat : n = leader + 1
            BY DEF CkInv, CkTyped
          <5>2. QED
            BY <5>1 DEF CkInv, CkTyped, CkEffects, CkPoints
        <4>2. QED
          BY <3>2, <4>1 DEF CkEffects, CkStates
      <3>3. QED
        BY <1>2, <3>1, <3>2 DEF Checkpoint!Start, Checkpoint!Recover
    <2>4. CkTyped'
      BY <2>1, <2>2, <2>3 DEF CkInv, CkTyped
    <2>5. CkRows'
      BY <2>1, <2>3 DEF CkInv, CkRows
    <2>6. CkJob'
      BY <2>1 DEF CkJob, Checkpoint!Commits
    <2>7. Checkpoint!CheckpointIsReviewed'
      BY <2>1, <2>3 DEF CkInv, Checkpoint!CheckpointIsReviewed, Checkpoint!Snapshot
    <2>8. QED
      BY <2>4, <2>5, <2>6, <2>7 DEF CkInv
  <1> QED
    BY <1>1, <1>2

\* The branch leaves the original checkpoint only over the requested implementation, and, unless
\* an edit was undone between `git add` and the check behind it (touched.undone: the files are
\* compared again and not the tree that was built), only for the receipt's tests; a confirmed
\* checkpoint is in branch and index.  Through every other edit, every fault, reclaim and restart
\* (CommitProtectedCheckpoint, ConfirmPreparedCommit, reclaim).
THEOREM CheckpointStaysReviewed == Spec => []CheckpointIsReviewed
  <1> DEFINE Inv == which = "checkpoint" => CkInv
  <1>1. Init => Inv
    BY HostInit, CkInit
  <1>2. Inv /\ [Next]_<<which, all>> => Inv'
    <2>1. ASSUME CkInv, Checkpoint!Next \/ UNCHANGED Checkpoint!vars
          PROVE  CkInv'
      <3>1. CASE UNCHANGED Checkpoint!vars
        BY <2>1, <3>1 DEF Checkpoint!vars, CkInv, CkTyped, CkRows, CkJob,
           Checkpoint!CheckpointIsReviewed, Checkpoint!Snapshot
      <3>2. QED
        BY <2>1, <3>1, CkAdmits, CkReviews, CkSnapshot, CkClaims, CkPrepares, CkUpdates, CkSyncs,
           CkConfirms, CkFaults, CkEdits, CkRestarts DEF Checkpoint!Next
    <2>2. QED
      BY <2>1, HostStep
  <1>3. Inv => CheckpointIsReviewed
    BY DEF CkInv, CheckpointIsReviewed
  <1> QED
    BY <1>1, <1>2, <1>3, PTL DEF Spec

(***************************************************************************)
(* An operator's commit is carried on only under a fresh review of it, for *)
(* every number of starts, attempts and fences.                            *)
(*                                                                         *)
(* SourceIsReviewed speaks of what is recorded.  Why a record can be       *)
(* trusted across a crash is in the rest of SrInv: a commit of the phase's *)
(* own is in the ledger only for a provider that finished and a command    *)
(* that passed at its own fence (SrMade); what each stage of the phase in  *)
(* hand has established so far, which no other step can take back (SrJob); *)
(* and the order of the attempts: nothing built since the resume is older  *)
(* than the review it rests on (SrOrder).                                  *)
(***************************************************************************)

\* The sets the parts of the state range over.
SrStates   == {"stopping", "paused", "verifying", "building", "publishing", "blocked"}
SrStages   == {"idle", "provider", "command", "commit", "update", "confirm", "record", "signal", "build"}
SrPoints   == [i : Nat, l : Nat]
SrVersions == [t : {"verify", "pass", "row", "take", "drain", "resume"}, l : Nat, pl : Nat]
SrAttempts == [role : {"reviewer", "builder"}, at : SrPoints, st : {"running", "failed", "done"}]
SrResults  == [a : Nat, at : SrPoints, ok : BOOLEAN]
SrCommits  == [st : {"none", "claimed", "visible", "confirmed"}, a : Nat, at : SrPoints, run : SrPoints]
SrLogs     == {<<"C">>, <<"C", "S">>, <<"C", "S", "F">>, <<"C", "S", "F", "G">>}
SrJobs     == [pc : SrStages, a : Nat, run : SrPoints]

\* The types of the state.
SrTyped ==
    /\ leader \in Nat /\ hist \in Seq(SrVersions) /\ Len(hist) > 0
    /\ state \in SrStates
    /\ ctl \in [st : {"sealed", "open"}, stop : SrPoints, auth : SrPoints]
    /\ att \in Seq(SrAttempts) /\ cmd \subseteq SrResults
    /\ eff \in [{"F", "G"} -> SrCommits]
    /\ rev \in [a : Nat, at : SrPoints]
    /\ cand \in [a : Nat, snap : SrPoints, at : SrPoints]
    /\ tree \in [log : SrLogs, dirty : BOOLEAN]
    /\ job \in SrJobs

\* Attempt a finished; its repository command passed at fence r; what the branch holds.
SrDone(a)      == a \in DOMAIN att /\ att[a].st = "done"
SrResult(a, r) == [a |-> a, at |-> r, ok |-> TRUE]
SrPassed(a, r) == SrDone(a) /\ SrResult(a, r) \in cmd
SrBranch       == {tree.log[i] : i \in DOMAIN tree.log}

\* A commit in the ledger was made for a finished attempt whose command passed, and one that
\* is visible or confirmed is in the branch.
SrMade ==
    \A c \in {"F", "G"} : eff[c] # Source!NoEff =>
        /\ SrPassed(eff[c].a, eff[c].run)
        /\ eff[c].st \in {"visible", "confirmed"} => c \in SrBranch

\* What each stage of the phase in hand has established.
SrJob ==
    /\ up # "serving" \/ state \notin {"verifying", "building"} => job = Source!Idle
    /\ job.pc = "provider" => job.a \in DOMAIN att /\ att[job.a].st = "running"
    /\ job.pc \in {"command", "commit", "update", "confirm", "record"} => SrDone(job.a)
    /\ job.pc = "commit" => SrPassed(job.a, job.run)
    /\ job.pc = "update" => eff[Source!Commits].st = "claimed" /\ eff[Source!Commits].a = job.a /\ Source!Tip = Source!Parent
    /\ job.pc = "confirm" => eff[Source!Commits].st = "visible" /\ eff[Source!Commits].a = job.a
    /\ job.pc = "record" => eff[Source!Commits].st = "confirmed" /\ eff[Source!Commits].a = job.a
    /\ job.pc = "signal" /\ state = "verifying" => rev # Source!NoRev
    /\ job.pc = "build" => state = "building"

\* The retained review is first, attempts are of past fences, no Builder is of after the resume
\* before a fresh review is recorded, and the recorded review is older than the building fence.
SrOrder ==
    /\ 1 \in DOMAIN att /\ att[1].role = "reviewer" /\ att[1].st = "done"
    /\ \A a \in DOMAIN att : att[a].at.i <= Len(hist)
    /\ state \in {"stopping", "paused", "verifying"} =>
           \A a \in DOMAIN att : att[a].role = "builder" => att[a].at.i < Source!Endpoint.i
    /\ state = "building" => rev # Source!NoRev /\ att[rev.a].at.i < Len(hist)

\* SourceIsReviewed, without the branch's shape.
SrReviewed ==
    /\ rev # Source!NoRev => rev.a \in DOMAIN att /\ Source!Authored("F", rev.a)
    /\ cand # Source!NoCand => cand.a \in DOMAIN att /\ Source!Authored("G", cand.a)
    /\ \A a \in DOMAIN att :
          att[a].role = "builder" /\ att[a].at.i >= Source!Endpoint.i =>
              rev # Source!NoRev /\ att[rev.a].at.i < att[a].at.i

SrInv == SrTyped /\ SrMade /\ SrJob /\ SrOrder /\ SrReviewed

\* What the types say of the live fence, the newest version and the attempts.
LEMMA SrReads ==
    ASSUME SrTyped
    PROVE  /\ Len(hist) \in Nat /\ Source!Live \in SrPoints /\ Source!Live.i = Len(hist)
           /\ hist[Len(hist)] \in SrVersions
           /\ Source!Endpoint.i = ctl.stop.i + 2 /\ ctl.stop.i \in Nat
           /\ Len(att) \in Nat /\ DOMAIN att = 1 .. Len(att)
           /\ \A a \in DOMAIN att : att[a] \in SrAttempts /\ att[a].at \in SrPoints
                                    /\ att[a].at.i \in Nat /\ a \in Nat /\ a > 0
           /\ job.a \in Nat /\ job.run \in SrPoints /\ rev.a \in Nat /\ cand.a \in Nat
  <1>1. leader \in Nat /\ hist \in Seq(SrVersions) /\ Len(hist) > 0 /\ att \in Seq(SrAttempts)
    BY DEF SrTyped
  <1>2. Len(hist) \in Nat /\ hist[Len(hist)] \in SrVersions
    BY <1>1
  <1>3. Source!Live \in SrPoints /\ Source!Live.i = Len(hist)
    BY <1>1, <1>2 DEF Source!Live, SrPoints
  <1>4. Source!Endpoint.i = ctl.stop.i + 2 /\ ctl.stop.i \in Nat
    BY DEF Source!Endpoint, SrTyped, SrPoints
  <1>5. Len(att) \in Nat /\ DOMAIN att = 1 .. Len(att)
    BY <1>1
  <1>6. \A a \in DOMAIN att : att[a] \in SrAttempts
    BY <1>1
  <1>7. \A a \in DOMAIN att : att[a].at \in SrPoints /\ att[a].at.i \in Nat /\ a \in Nat /\ a > 0
    BY <1>5, <1>6 DEF SrAttempts, SrPoints
  <1>8. job.a \in Nat /\ job.run \in SrPoints /\ rev.a \in Nat /\ cand.a \in Nat
    BY DEF SrTyped, SrJobs
  <1> QED
    BY <1>2, <1>3, <1>4, <1>5, <1>6, <1>7, <1>8

\* What a step may do without hurting what is already accounted for: attempts only end,
\* results are only added, a commit that is confirmed stays.
SrGrows ==
    /\ \A a \in DOMAIN att : /\ a \in DOMAIN att' /\ att'[a].role = att[a].role
                             /\ att'[a].at = att[a].at /\ (SrDone(a) => att'[a].st = "done")
    /\ cmd \subseteq cmd' /\ ctl'.stop = ctl.stop
    /\ \A c \in SrBranch : c \in SrBranch'

\* Such a step keeps what the ledger rests on.
LEMMA SrKeepsMade ==
    ASSUME SrMade, SrGrows, eff' = eff
    PROVE  SrMade'
  <1>1. \A a, r : SrPassed(a, r) => a \in DOMAIN att' /\ att'[a].st = "done" /\ SrResult(a, r) \in cmd'
    BY DEF SrGrows, SrPassed, SrDone
  <1>2. \A c \in {"F", "G"} : eff'[c] # Source!NoEff =>
           /\ SrPassed(eff[c].a, eff[c].run)
           /\ eff'[c].st \in {"visible", "confirmed"} => c \in SrBranch'
    BY DEF SrMade, SrGrows
  <1>3. \A c \in {"F", "G"} : eff'[c] # Source!NoEff =>
           /\ eff'[c].a \in DOMAIN att' /\ att'[eff'[c].a].st = "done"
           /\ SrResult(eff'[c].a, eff'[c].run) \in cmd'
    BY <1>1, <1>2
  <1> QED
    BY <1>2, <1>3 DEF SrMade, SrPassed, SrDone, SrResult, Source!NoEff, Source!NoFence

\* It keeps what was reviewed, when it records nothing and a Builder it adds is younger than the
\* recorded review.
LEMMA SrKeepsReviewed ==
    ASSUME SrTyped, SrReviewed, SrGrows, UNCHANGED <<rev, cand>>,
           \A c \in {"F", "G"} : eff[c].st = "confirmed" => eff'[c] = eff[c],
           \A a \in DOMAIN att' :
               a \in DOMAIN att
               \/ (att'[a].role = "builder" => rev # Source!NoRev /\ att[rev.a].at.i < att'[a].at.i)
    PROVE  SrReviewed'
  <1>1. Source!Endpoint'.i = Source!Endpoint.i
    BY DEF Source!Endpoint, SrGrows
  <1>2. \A c \in {"F", "G"} : \A a \in DOMAIN att : Source!Authored(c, a) => Source!Authored(c, a)'
    <2> SUFFICES ASSUME NEW c \in {"F", "G"}, NEW a \in DOMAIN att, Source!Authored(c, a)
                 PROVE  Source!Authored(c, a)'
      OBVIOUS
    <2>1. att'[a].st = "done" /\ att'[a].at.i >= Source!Endpoint'.i
      BY <1>1 DEF Source!Authored, SrGrows, SrDone
    <2>2. eff'[c] = eff[c]
      BY DEF Source!Authored
    <2>3. c \in {tree.log[i] : i \in DOMAIN tree.log}' /\ [a |-> a, at |-> eff[c].run, ok |-> TRUE] \in cmd'
      BY DEF Source!Authored, SrGrows, SrBranch
    <2> QED
      BY <2>1, <2>2, <2>3 DEF Source!Authored
  <1>3. (rev # Source!NoRev => rev.a \in DOMAIN att /\ Source!Authored("F", rev.a))'
    BY <1>2 DEF SrReviewed, SrGrows, Source!NoRev, Source!NoFence
  <1>4. (cand # Source!NoCand => cand.a \in DOMAIN att /\ Source!Authored("G", cand.a))'
    BY <1>2 DEF SrReviewed, SrGrows, Source!NoCand, Source!NoFence
  <1>5. (\A a \in DOMAIN att :
          att[a].role = "builder" /\ att[a].at.i >= Source!Endpoint.i =>
              rev # Source!NoRev /\ att[rev.a].at.i < att[a].at.i)'
    BY <1>1 DEF SrReviewed, SrGrows, Source!NoRev, Source!NoFence
  <1> QED
    BY <1>3, <1>4, <1>5 DEF SrReviewed

\* It keeps the order of the attempts, when the ticket's state allows what it did.
LEMMA SrKeepsOrder ==
    ASSUME SrTyped, SrOrder, SrReviewed, SrGrows, rev' = rev, Len(hist') \in Nat, Len(hist') >= Len(hist),
           \A a \in DOMAIN att' :
               a \in DOMAIN att
               \/ (att'[a].at.i <= Len(hist') /\ (state' = "building" \/ att'[a].role # "builder")),
           state' \in {"stopping", "paused", "verifying"} => state \in {"stopping", "paused", "verifying"},
           state' = "building" => state = "building" \/ (rev # Source!NoRev /\ Len(hist') > Len(hist))
    PROVE  SrOrder'
  <1>1. Source!Endpoint'.i = Source!Endpoint.i
    BY DEF Source!Endpoint, SrGrows
  <1>2. 1 \in DOMAIN att' /\ att'[1].role = "reviewer" /\ att'[1].st = "done"
    BY DEF SrOrder, SrGrows, SrDone
  <1>3. \A a \in DOMAIN att' : att'[a].at.i <= Len(hist')
    BY SrReads DEF SrOrder, SrGrows
  <1>4. state' \in {"stopping", "paused", "verifying"} =>
           \A a \in DOMAIN att' : att'[a].role = "builder" => att'[a].at.i < Source!Endpoint'.i
    BY <1>1 DEF SrOrder, SrGrows
  <1>5. state' = "building" => rev' # Source!NoRev' /\ att'[rev'.a].at.i < Len(hist')
    <2>1. SUFFICES ASSUME state' = "building" PROVE rev # Source!NoRev /\ att'[rev.a].at.i < Len(hist')
      BY DEF Source!NoRev, Source!NoFence
    <2>2. rev # Source!NoRev /\ rev.a \in DOMAIN att
      BY <2>1 DEF SrOrder, SrReviewed
    <2>3. att[rev.a].at.i < Len(hist')
      <3>1. att[rev.a].at.i \in Nat /\ att[rev.a].at.i <= Len(hist) /\ Len(hist) \in Nat
        BY <2>2, SrReads DEF SrOrder
      <3>2. att[rev.a].at.i < Len(hist) \/ Len(hist') > Len(hist)
        BY <2>1 DEF SrOrder
      <3> QED
        BY <3>1, <3>2
    <2> QED
      BY <2>2, <2>3 DEF SrGrows
  <1> QED
    BY <1>2, <1>3, <1>4, <1>5 DEF SrOrder

\* Nothing under way needs nothing.
LEMMA SrRests == ASSUME job' = Source!Idle PROVE SrJob'
  BY DEF SrJob, Source!Idle, Source!NoFence

\* A number of a bounded set is its greatest.
LEMMA LatestIs ==
    ASSUME NEW n \in Nat, NEW S \in SUBSET (0 .. n), S # {}
    PROVE  Source!Latest(S) \in S /\ \A y \in S : y <= Source!Latest(S)
  <1> DEFINE Up(x) == {y \in S : x < y}
             F == SUBSET (0 .. n)
             R == StrictSubsetOrdering(0 .. n)
             T == {Up(x) : x \in S}
  <1>1. IsFiniteSet(0 .. n) /\ IsWellFoundedOn(R, FiniteSubsetsOf(0 .. n))
    BY FS_Interval, FS_StrictSubsetOrderingWellFounded
  <1>2. FiniteSubsetsOf(0 .. n) = F
    BY <1>1, FS_Subset DEF FiniteSubsetsOf
  <1>3. IsWellFoundedOn(R, F)
    BY <1>1, <1>2
  <1>4. T \subseteq F /\ T # {}
    OBVIOUS
  <1>5. \E t \in T : \A u \in T : ~(<<u, t>> \in R)
    <2> HIDE DEF R, F, T
    <2> QED
      BY ZenonT(60), <1>3, <1>4, WFMin
  <1>6. PICK x \in S : \A y \in S : ~(<<Up(y), Up(x)>> \in R)
    BY <1>5
  <1>7. \A y \in S : y <= x
    <2>1. SUFFICES ASSUME NEW y \in S, x < y PROVE FALSE
      OBVIOUS
    <2>2. x \in Nat /\ y \in Nat /\ ~(y < y) /\ \A z \in S : z \in Nat
      OBVIOUS
    <2>3. Up(y) \subseteq Up(x) /\ y \in Up(x) /\ y \notin Up(y)
      <3>1. \A z \in Nat : y < z => x < z
        BY <2>1, <2>2
      <3>2. Up(y) \subseteq Up(x)
        BY <2>2, <3>1
      <3>3. y \in Up(x)
        BY <2>1
      <3> QED
        BY <2>2, <3>2, <3>3
    <2>4. <<Up(y), Up(x)>> \in R
      BY <2>3 DEF StrictSubsetOrdering
    <2> QED
      BY <1>6, <2>4
  <1> QED
    BY <1>7 DEF Source!Latest

\* The newest result of a role is a finished attempt, and a Reviewer's always is there.
LEMMA SrNewest ==
    ASSUME SrTyped, SrOrder
    PROVE  /\ SrDone(Source!Newest("reviewer"))
           /\ Source!Newest("builder") # 0 => SrDone(Source!Newest("builder"))
  <1> DEFINE D(role) == {a \in DOMAIN att : att[a].role = role /\ att[a].st = "done"}
  <1>1. \A role \in {"reviewer", "builder"} : D(role) # {} => Source!Newest(role) \in D(role)
    <2> SUFFICES ASSUME NEW role \in {"reviewer", "builder"}, D(role) # {}
                 PROVE  Source!Newest(role) \in D(role)
      OBVIOUS
    <2>1. D(role) \in SUBSET (0 .. Len(att)) /\ Len(att) \in Nat
      BY SrReads
    <2>2. Source!Latest(D(role)) \in D(role)
      <3> HIDE DEF D
      <3> QED
        BY <2>1, LatestIs
    <2> QED
      BY <2>2 DEF Source!Newest
  <1>2. 1 \in D("reviewer")
    BY DEF SrOrder
  <1>3. D("builder") = {} => Source!Newest("builder") = 0
    BY DEF Source!Newest
  <1> QED
    BY <1>1, <1>2, <1>3 DEF SrDone

\* A step that touches neither attempts, results, commits nor revisions.
LEMMA SrQuiet ==
    ASSUME SrInv, UNCHANGED <<att, cmd, eff, rev, cand>>, ctl'.stop = ctl.stop,
           \A c \in SrBranch : c \in SrBranch'
    PROVE  SrGrows /\ SrMade' /\ SrReviewed'
  <1>1. SrGrows
    BY DEF SrGrows, SrDone
  <1>2. SrMade'
    BY <1>1, SrKeepsMade DEF SrInv
  <1>3. SrReviewed'
    BY <1>1, SrKeepsReviewed DEF SrInv
  <1> QED
    BY <1>1, <1>2, <1>3

\* The activity stands where it stood.
LEMMA SrStands ==
    ASSUME SrJob, UNCHANGED <<up, state, job, att, cmd, eff, rev>>, tree'.log = tree.log
    PROVE  SrJob'
  BY DEF SrJob, SrDone, SrPassed, SrResult, Source!Commits, Source!Parent, Source!Tip,
         Source!Idle, Source!NoRev, Source!NoFence

\* The next stage is a stage.
LEMMA SrGoes ==
    /\ \A pc \in SrStages, a \in Nat : Source!To(pc, a) =>
           job' \in SrJobs /\ job'.pc = pc /\ job'.a = a
    /\ Source!Idle \in SrJobs /\ Source!Idle.pc = "idle"
  BY DEF Source!To, Source!Idle, Source!NoFence, SrJobs, SrPoints, SrStages

\* A version more is a version more.
LEMMA SrAppends ==
    ASSUME SrTyped, NEW t \in {"pass", "take", "drain", "resume"}, Source!Append1(t)
    PROVE  hist' \in Seq(SrVersions) /\ Len(hist') = Len(hist) + 1
  <1> DEFINE v == [t |-> t, l |-> leader, pl |-> 0]
  <1>1. v \in SrVersions
    BY DEF SrTyped, SrVersions
  <1>2. hist \in Seq(SrVersions) /\ hist' = Append(hist, v)
    BY DEF SrTyped, Source!Append1
  <1> HIDE DEF v
  <1> QED
    BY <1>1, <1>2

\* The drain and the resume only add a version; nobody is built yet.
LEMMA SrDrains == ASSUME SrInv, Source!Drain \/ Source!TransitionOperatorSourceResume PROVE SrInv'
  <1>1. /\ UNCHANGED <<leader, ctl, att, cmd, eff, rev, cand, tree, job>>
        /\ state \in {"stopping", "paused"} /\ state' \in {"paused", "verifying"}
        /\ job = Source!Idle
        /\ \E t \in {"drain", "resume"} : Source!Append1(t)
    BY DEF Source!Drain, Source!TransitionOperatorSourceResume, Source!MayResume, Source!TakenOver, SrInv, SrJob
  <1>2. hist' \in Seq(SrVersions) /\ Len(hist') = Len(hist) + 1 /\ Len(hist) \in Nat /\ Len(hist) > 0
    BY <1>1, SrAppends, SrReads DEF SrInv, SrTyped
  <1>3. SrGrows /\ SrMade' /\ SrReviewed'
    BY <1>1, SrQuiet DEF SrBranch
  <1>4. SrTyped'
    BY <1>1, <1>2 DEF SrInv, SrTyped, SrStates
  <1>5. SrOrder'
    <2>1. Len(hist') \in Nat /\ Len(hist') >= Len(hist) /\ Len(hist') > 0
      BY <1>2
    <2> QED
      BY <1>1, <1>3, <2>1, SrKeepsOrder DEF SrInv
  <1>6. SrJob'
    BY <1>1, SrRests
  <1> QED
    BY <1>3, <1>4, <1>5, <1>6 DEF SrInv

\* What the operator, the remote and a provider that writes do to the outside.
LEMMA SrOutside ==
    ASSUME SrInv, Source!OperatorEdits \/ Source!RemoteMoves \/ Source!Rearm \/ Source!ProviderWrites
    PROVE  SrInv'
  <1>1. /\ UNCHANGED <<leader, state, hist, up, att, cmd, eff, rev, cand, job>>
        /\ \/ UNCHANGED <<tree, ctl>>
           \/ tree' = [tree EXCEPT !.dirty = TRUE] /\ UNCHANGED ctl
           \/ /\ state = "paused" /\ tree.log = <<"C">>
              /\ tree' = [tree EXCEPT !.log = <<"C", "S">>] /\ UNCHANGED ctl
           \/ ctl' = [ctl EXCEPT !.st = "open", !.auth = Source!Live] /\ UNCHANGED tree
    BY DEF Source!OperatorEdits, Source!RemoteMoves, Source!Rearm, Source!ProviderWrites
  <1>2. /\ tree' \in [log : SrLogs, dirty : BOOLEAN]
        /\ tree'.log = tree.log \/ (state = "paused" /\ tree.log = <<"C">> /\ tree'.log = <<"C", "S">>)
    BY <1>1 DEF SrInv, SrTyped, SrLogs
  <1>3. ctl' \in [st : {"sealed", "open"}, stop : SrPoints, auth : SrPoints] /\ ctl'.stop = ctl.stop
    BY <1>1, SrReads DEF SrInv, SrTyped
  <1>4. \A c \in SrBranch : c \in SrBranch'
    <2>1. CASE tree'.log = tree.log
      BY <2>1 DEF SrBranch
    <2>2. CASE tree.log = <<"C">> /\ tree'.log = <<"C", "S">>
      BY <2>2 DEF SrBranch
    <2> QED
      BY <1>2, <2>1, <2>2
  <1>5. SrGrows /\ SrMade' /\ SrReviewed'
    BY <1>1, <1>3, <1>4, SrQuiet
  <1>6. SrTyped'
    BY <1>1, <1>2, <1>3 DEF SrInv, SrTyped
  <1>7. SrOrder'
    <2>1. Len(hist') \in Nat /\ Len(hist') >= Len(hist)
      BY <1>1, SrReads DEF SrInv
    <2> QED
      BY <1>1, <1>5, <2>1, SrKeepsOrder DEF SrInv
  <1>8. SrJob'
    <2>1. CASE tree'.log = tree.log
      BY <1>1, <2>1, SrStands DEF SrInv
    <2>2. CASE state = "paused"
      BY <1>1, <2>2, SrRests DEF SrInv, SrJob
    <2> QED
      BY <1>2, <2>1, <2>2
  <1> QED
    BY <1>5, <1>6, <1>7, <1>8 DEF SrInv

\* The phase that is under way, and the commit it makes.
LEMMA SrPhase ==
    ASSUME SrInv, job.pc # "idle"
    PROVE  /\ up = "serving" /\ state \in {"verifying", "building"}
           /\ Source!Commits \in {"F", "G"}
           /\ state' = state => Source!Commits' = Source!Commits /\ Source!Parent' = Source!Parent
  <1>1. up = "serving" /\ state \in {"verifying", "building"}
    BY DEF SrInv, SrJob, Source!Idle
  <1>2. Source!Commits \in {"F", "G"}
    BY DEF Source!Commits
  <1>3. state' = state => Source!Commits' = Source!Commits /\ Source!Parent' = Source!Parent
    BY DEF Source!Commits, Source!Parent
  <1> QED
    BY <1>1, <1>2, <1>3

\* What the tick found to do.
LEMMA SrWork ==
    /\ Source!BuilderWork \in {"launch", "exhausted", "persist", "none"}
    /\ Source!BuilderWork = "persist" => Source!Newest("builder") # 0
    /\ Source!Work = "persist" /\ state = "building" => Source!BuilderWork = "persist"
    /\ Source!Work \in {"signal", "rebind"} /\ state = "verifying" => rev # Source!NoRev
    /\ Source!Work = "rebind" /\ state # "verifying" => cand # Source!NoCand
    /\ Source!Work = "review" => state # "verifying"
  <1>1. /\ Source!BuilderWork \in {"launch", "exhausted", "persist", "none"}
        /\ Source!BuilderWork = "persist" => Source!Newest("builder") # 0
    BY DEF Source!BuilderWork, Source!Launch
  <1>2. /\ Source!VerifyingWork \in {"signal", "rebind"} => rev # Source!NoRev
        /\ Source!VerifyingWork # "review"
    BY DEF Source!VerifyingWork, Source!Launch
  <1>3. /\ Source!BuildingWork = "rebind" => cand # Source!NoCand
        /\ Source!BuildingWork = "persist" => Source!BuilderWork = "persist"
    BY <1>1 DEF Source!BuildingWork
  <1> QED
    BY <1>1, <1>2, <1>3 DEF Source!Work

\* A tick works on a ticket that verifies or builds.
LEMMA SrDoes ==
    ASSUME SrInv, NEW w, Source!Does(w)
    PROVE  /\ up = "serving" /\ state \in {"verifying", "building"}
           /\ w = "persist" /\ state = "building" => Source!Newest("builder") # 0
  <1>1. CASE Source!Resting /\ Source!Work = w
    BY <1>1, SrWork DEF Source!Resting
  <1>2. CASE Source!In("build") /\ Source!BuilderWork = w
    BY <1>2, SrWork, SrPhase DEF Source!In
  <1> QED
    BY <1>1, <1>2 DEF Source!Does

\* A launch is the youngest attempt, and a Builder's is under the review of the revision.
LEMMA SrLaunches == ASSUME SrInv, Source!LaunchProvider PROVE SrInv'
  <1> DEFINE r == [role |-> IF state = "verifying" THEN "reviewer" ELSE "builder",
                   at |-> Source!Live, st |-> "running"]
             n == Len(att) + 1
  <1>1. /\ up = "serving" /\ state \in {"verifying", "building"} /\ att' = Append(att, r)
        /\ Source!To("provider", n)
        /\ UNCHANGED <<up, leader, state, hist, ctl, cmd, eff, rev, cand, tree>>
    BY SrDoes DEF Source!LaunchProvider
  <1>2. /\ r \in SrAttempts /\ r.at.i = Len(hist) /\ r.st = "running"
        /\ r.role = "builder" => state = "building"
    BY <1>1, SrReads DEF SrInv, SrAttempts
  <1>3. Len(att) \in Nat /\ n \in Nat /\ n = Len(att) + 1 /\ DOMAIN att = 1 .. Len(att) /\ att \in Seq(SrAttempts)
    BY SrReads DEF SrInv, SrTyped
  <1> HIDE DEF r, n
  <1>4. /\ att' \in Seq(SrAttempts) /\ DOMAIN att' = 1 .. n /\ att'[n] = r
        /\ \A a \in DOMAIN att : att'[a] = att[a]
    BY <1>1, <1>2, <1>3
  <1>5. SrGrows
    BY <1>1, <1>3, <1>4 DEF SrGrows, SrDone, SrBranch
  <1>6. \A a \in DOMAIN att' : a \in DOMAIN att \/ att'[a] = r
    BY <1>3, <1>4
  <1>7. SrMade'
    BY <1>1, <1>5, SrKeepsMade DEF SrInv
  <1>8. state = "building" => rev # Source!NoRev /\ att[rev.a].at.i < r.at.i
    BY <1>2 DEF SrInv, SrOrder
  <1>9. SrReviewed'
    BY <1>1, <1>2, <1>5, <1>6, <1>8, SrKeepsReviewed DEF SrInv
  <1>10. SrOrder'
    <2>1. Len(hist') \in Nat /\ Len(hist') >= Len(hist) /\ r.at.i <= Len(hist')
      BY <1>1, <1>2, SrReads DEF SrInv
    <2> QED
      BY <1>1, <1>2, <1>5, <1>6, <2>1, SrKeepsOrder DEF SrInv
  <1>11. job' \in SrJobs /\ job'.pc = "provider" /\ job'.a = n
    BY <1>1, <1>3, SrGoes DEF SrStages
  <1>12. SrTyped'
    BY <1>1, <1>4, <1>11 DEF SrInv, SrTyped
  <1>13. SrJob'
    <2>1. n \in DOMAIN att' /\ att'[n].st = "running"
      BY <1>2, <1>3, <1>4
    <2> QED
      BY <1>1, <1>11, <2>1 DEF SrJob
  <1> QED
    BY <1>7, <1>9, <1>10, <1>12, <1>13 DEF SrInv

\* A phase that is out of attempts blocks.
LEMMA SrExhausts == ASSUME SrInv, Source!Exhausted PROVE SrInv'
  <1>1. /\ UNCHANGED <<leader, hist, ctl, att, cmd, eff, rev, cand, tree>>
        /\ job' = Source!Idle /\ state' = "blocked"
    BY DEF Source!Exhausted
  <1>2. SrGrows /\ SrMade' /\ SrReviewed'
    BY <1>1, SrQuiet DEF SrBranch
  <1>3. SrTyped'
    BY <1>1, SrGoes DEF SrInv, SrTyped, SrStates
  <1>4. SrOrder'
    <2>1. Len(hist') \in Nat /\ Len(hist') >= Len(hist)
      BY <1>1, SrReads DEF SrInv
    <2> QED
      BY <1>1, <1>2, <2>1, SrKeepsOrder DEF SrInv
  <1>5. SrJob'
    BY <1>1, SrRests
  <1> QED
    BY <1>2, <1>3, <1>4, <1>5 DEF SrInv

\* A step of the activity alone: what is left to show is where it goes.
LEMMA SrActs ==
    ASSUME SrInv, job' \in SrJobs,
           UNCHANGED <<up, leader, state, hist, ctl, att, cmd, eff, rev, cand, tree>>,
           SrJob'
    PROVE  SrInv'
  <1>1. SrGrows /\ SrMade' /\ SrReviewed'
    BY SrQuiet DEF SrBranch
  <1>2. SrTyped'
    BY DEF SrInv, SrTyped
  <1>3. SrOrder'
    <2>1. Len(hist') \in Nat /\ Len(hist') >= Len(hist)
      BY SrReads DEF SrInv
    <2> QED
      BY <1>1, <2>1, SrKeepsOrder DEF SrInv
  <1> QED
    BY <1>1, <1>2, <1>3 DEF SrInv

\* A finished result is taken up, or a prepared candidate is read again.
LEMMA SrReuses == ASSUME SrInv, Source!ReuseProvider \/ Source!RecoverCandidate PROVE SrInv'
  <1>1. UNCHANGED <<up, leader, state, hist, ctl, att, cmd, eff, rev, cand, tree>>
    BY DEF Source!ReuseProvider, Source!RecoverCandidate
  <1>2. CASE Source!ReuseProvider
    <2>1. PICK a \in Nat : Source!To("command", a) /\ SrDone(a)
      <3> DEFINE a == Source!Newest(IF state = "verifying" THEN "reviewer" ELSE "builder")
      <3>1. SrDone(a)
        BY <1>2, SrNewest, SrDoes DEF Source!ReuseProvider, SrInv
      <3>2. a \in Nat
        BY <3>1, SrReads DEF SrDone, SrInv
      <3> QED
        BY <1>2, <3>1, <3>2 DEF Source!ReuseProvider
    <2>2. job' \in SrJobs /\ job'.pc = "command" /\ job'.a = a
      BY <2>1, SrGoes DEF SrStages
    <2>3. up = "serving" /\ state \in {"verifying", "building"}
      BY <1>2, SrDoes DEF Source!ReuseProvider
    <2>4. SrJob'
      BY <1>1, <2>1, <2>2, <2>3 DEF SrJob, SrDone
    <2> QED
      BY <1>1, <2>2, <2>4, SrActs
  <1>3. CASE Source!RecoverCandidate
    <2>1. /\ up = "serving" /\ state = "building" /\ job.pc = "command"
          /\ \/ Source!To("record", job.a) /\ eff["G"].a = job.a /\ eff["G"].st = "confirmed"
             \/ job' = Source!Idle
      BY <1>3 DEF Source!RecoverCandidate, Source!In, Source!PreparedCandidate
    <2>2. CASE job' = Source!Idle
      BY <1>1, <2>2, SrRests, SrGoes, SrActs
    <2>3. CASE Source!To("record", job.a) /\ eff["G"].a = job.a /\ eff["G"].st = "confirmed"
      <3>1. job' \in SrJobs /\ job'.pc = "record" /\ job'.a = job.a
        BY <2>3, SrGoes, SrReads DEF SrInv, SrStages
      <3>2. SrDone(job.a) /\ Source!Commits = "G"
        BY <2>1 DEF SrInv, SrJob, Source!Commits
      <3>3. Source!Commits' = "G"
        BY <1>1, <2>1 DEF Source!Commits
      <3>4. SrJob'
        BY <1>1, <2>1, <2>3, <3>1, <3>2, <3>3 DEF SrJob, SrDone
      <3> QED
        BY <1>1, <3>1, <3>4, SrActs
    <2> QED
      BY <2>1, <2>2, <2>3
  <1> QED
    BY <1>2, <1>3

\* The phase's pass: a build follows a review that is recorded.
LEMMA SrSignals == ASSUME SrInv, Source!Signal PROVE SrInv'
  <1>1. /\ UNCHANGED <<up, leader, att, cmd, eff, rev, cand, tree>> /\ Source!Append1("pass")
        /\ ctl' = [ctl EXCEPT !.auth = [i |-> Len(hist) + 1, l |-> leader]]
        /\ job' = Source!Idle
        /\ state' = (IF state = "verifying" THEN "building" ELSE "publishing")
        /\ Source!In("signal") \/ (Source!Resting /\ Source!Work = "signal")
    BY DEF Source!Signal
  <1>2. state = "verifying" => rev # Source!NoRev
    BY <1>1, SrWork DEF Source!In, SrInv, SrJob
  <1>3. hist' \in Seq(SrVersions) /\ Len(hist') = Len(hist) + 1 /\ Len(hist) \in Nat
    BY <1>1, SrAppends, SrReads DEF SrInv
  <1>4. /\ ctl' \in [st : {"sealed", "open"}, stop : SrPoints, auth : SrPoints]
        /\ ctl'.stop = ctl.stop
    <2>1. [i |-> Len(hist) + 1, l |-> leader] \in SrPoints
      BY <1>3 DEF SrPoints, SrInv, SrTyped
    <2> QED
      BY <1>1, <2>1 DEF SrInv, SrTyped
  <1>5. SrGrows /\ SrMade' /\ SrReviewed'
    BY <1>1, <1>4, SrQuiet DEF SrBranch
  <1>6. Len(hist') \in Nat /\ Len(hist') >= Len(hist) /\ Len(hist') > Len(hist) /\ Len(hist') > 0
    BY <1>3
  <1>7. SrTyped'
    BY <1>1, <1>3, <1>4, <1>6, SrGoes DEF SrInv, SrTyped, SrStates
  <1>8. SrOrder'
    BY <1>1, <1>2, <1>5, <1>6, SrKeepsOrder DEF SrInv
  <1>9. SrJob'
    BY <1>1, SrRests
  <1> QED
    BY <1>5, <1>7, <1>8, <1>9 DEF SrInv

\* The tick ends with nothing changed.
LEMMA SrGivesUp == ASSUME SrInv, Source!GiveUp PROVE SrInv'
  BY SrRests, SrGoes, SrActs DEF Source!GiveUp

\* The revision or the candidate is bound to the live fence, and stays whose it was.
LEMMA SrRebinds == ASSUME SrInv, Source!Rebind \/ Source!RebindReview PROVE SrInv'
  <1>1. /\ UNCHANGED <<up, leader, state, hist, ctl, att, cmd, eff, tree>>
        /\ up = "serving" /\ state \in {"verifying", "building"}
        /\ Source!To("signal", 0) \/ (state = "building" /\ Source!To("build", 0))
        /\ \/ rev' = [rev EXCEPT !.at = Source!Live] /\ cand' = cand
           \/ cand # Source!NoCand /\ cand' = [cand EXCEPT !.at = Source!Live] /\ rev' = rev
        /\ rev # Source!NoRev
    <2>1. state = "building" => rev # Source!NoRev
      BY DEF SrInv, SrOrder
    <2> QED
      BY <2>1, SrWork DEF Source!Rebind, Source!RebindReview, Source!Resting
  <1>2. /\ rev' \in [a : Nat, at : SrPoints] /\ rev'.a = rev.a
        /\ cand' \in [a : Nat, snap : SrPoints, at : SrPoints] /\ cand'.a = cand.a
    BY <1>1, SrReads DEF SrInv, SrTyped
  <1>3. rev # Source!NoRev => rev.a \in DOMAIN att /\ rev.a > 0
    BY SrReads DEF SrInv, SrReviewed
  <1>4. rev # Source!NoRev <=> rev' # Source!NoRev
    BY <1>1, <1>2, <1>3 DEF Source!NoRev
  <1>5. cand' # Source!NoCand => cand # Source!NoCand
    BY <1>1
  <1>6. SrMade' /\ SrGrows
    <2>1. SrGrows
      BY <1>1 DEF SrGrows, SrDone, SrBranch
    <2> QED
      BY <1>1, <2>1, SrKeepsMade DEF SrInv
  <1>7. SrReviewed'
    BY <1>1, <1>2, <1>4, <1>5 DEF SrInv, SrReviewed, Source!Authored, Source!Endpoint, Source!NoRev, Source!NoCand, Source!NoFence
  <1>8. SrOrder'
    BY <1>1, <1>2, <1>4 DEF SrInv, SrOrder, Source!Endpoint, Source!NoRev, Source!NoFence
  <1>9. job' \in SrJobs /\ (job'.pc = "signal" \/ (job'.pc = "build" /\ state = "building"))
    BY <1>1, SrGoes DEF SrStages
  <1>10. SrTyped'
    BY <1>1, <1>2, <1>9 DEF SrInv, SrTyped
  <1>11. SrJob'
    <2>1. state = "verifying" => rev' # Source!NoRev'
      BY <1>1, <1>4 DEF Source!NoRev, Source!NoFence
    <2> QED
      BY <1>1, <1>9, <2>1 DEF SrJob
  <1> QED
    BY <1>6, <1>7, <1>8, <1>10, <1>11 DEF SrInv

\* A provider ends: nothing finished depends on one that runs.
LEMMA SrEnds == ASSUME SrInv, Source!ProviderEnds PROVE SrInv'
  <1>1. /\ UNCHANGED <<up, leader, state, hist, ctl, cmd, eff, rev, cand, tree>>
        /\ up = "serving" /\ job.pc = "provider"
        /\ \E st \in {"done", "failed"} :
              /\ att' = [att EXCEPT ![job.a].st = st]
              /\ \/ st = "done" /\ Source!To("command", job.a)
                 \/ job' = Source!Idle
    BY DEF Source!ProviderEnds, Source!In
  <1>2. job.a \in DOMAIN att /\ att[job.a].st = "running" /\ att \in Seq(SrAttempts)
    BY <1>1 DEF SrInv, SrJob, SrTyped
  <1>3. PICK st \in {"done", "failed"} :
              /\ att' = [att EXCEPT ![job.a].st = st]
              /\ \/ st = "done" /\ Source!To("command", job.a)
                 \/ job' = Source!Idle
    BY <1>1
  <1>4. /\ att' \in Seq(SrAttempts) /\ DOMAIN att' = DOMAIN att /\ att'[job.a].st = st
        /\ \A a \in DOMAIN att : /\ att'[a].role = att[a].role /\ att'[a].at = att[a].at
                                 /\ a # job.a => att'[a] = att[a]
    <2> DEFINE r == [att[job.a] EXCEPT !.st = st]
    <2>1. r \in SrAttempts /\ r.role = att[job.a].role /\ r.at = att[job.a].at /\ r.st = st
      BY <1>2, SrReads DEF SrInv, SrAttempts
    <2>2. att' = [att EXCEPT ![job.a] = r]
      BY <1>3
    <2> HIDE DEF r
    <2> QED
      BY <1>2, <2>1, <2>2
  <1>5. SrGrows
    BY <1>1, <1>2, <1>4 DEF SrGrows, SrDone, SrBranch
  <1>6. SrMade' /\ SrReviewed'
    BY <1>1, <1>4, <1>5, SrKeepsMade, SrKeepsReviewed DEF SrInv
  <1>7. SrOrder'
    <2>1. Len(hist') \in Nat /\ Len(hist') >= Len(hist)
      BY <1>1, SrReads DEF SrInv
    <2> QED
      BY <1>1, <1>4, <1>5, <2>1, SrKeepsOrder DEF SrInv
  <1>8. CASE job' = Source!Idle
    <2>1. SrTyped'
      BY <1>1, <1>4, <1>8, SrGoes DEF SrInv, SrTyped
    <2> QED
      BY <1>6, <1>7, <1>8, <2>1, SrRests DEF SrInv
  <1>9. CASE st = "done" /\ Source!To("command", job.a)
    <2>1. job' \in SrJobs /\ job'.pc = "command" /\ job'.a = job.a
      BY <1>9, SrGoes, SrReads DEF SrInv, SrStages
    <2>2. SrTyped'
      BY <1>1, <1>4, <2>1 DEF SrInv, SrTyped
    <2>3. state \in {"verifying", "building"}
      BY <1>1 DEF SrInv, SrJob, Source!Idle
    <2>4. SrJob'
      BY <1>1, <1>2, <1>4, <1>9, <2>1, <2>3 DEF SrJob, SrDone
    <2> QED
      BY <1>6, <1>7, <2>2, <2>4 DEF SrInv
  <1> QED
    BY <1>3, <1>8, <1>9

\* The command's result is kept with its attempt and fence.
LEMMA SrRuns == ASSUME SrInv, Source!RunCommand PROVE SrInv'
  <1> DEFINE at == Source!StableFence(job.a)
  <1>1. /\ UNCHANGED <<up, leader, hist, ctl, att, eff, rev, cand, tree>>
        /\ up = "serving" /\ job.pc = "command" /\ SrDone(job.a)
    BY DEF Source!RunCommand, Source!In, SrInv, SrJob
  <1>2. at \in SrPoints
    BY <1>1, SrReads DEF Source!StableFence, SrDone, SrInv
  <1>3. PICK c \in SrResults :
          /\ c.a = job.a /\ c.at = at
          /\ cmd' = cmd \cup {c}
          /\ job' = IF c.ok THEN [pc |-> "commit", a |-> job.a, run |-> at] ELSE Source!Idle
          /\ state' = IF state = "building" /\ ~c.ok THEN "blocked" ELSE state
    <2> DEFINE old == {c \in cmd : c.a = job.a /\ c.at = at}
    <2>1. PICK c \in IF old # {} THEN old ELSE [a : {job.a}, at : {at}, ok : BOOLEAN] :
          /\ cmd' = cmd \cup {c}
          /\ job' = IF c.ok THEN [pc |-> "commit", a |-> job.a, run |-> at] ELSE Source!Idle
          /\ state' = IF state = "building" /\ ~c.ok THEN "blocked" ELSE state
      BY DEF Source!RunCommand
    <2>2. c \in SrResults /\ c.a = job.a /\ c.at = at
      <3> HIDE DEF at
      <3>1. CASE c \in old
        BY <3>1 DEF SrInv, SrTyped
      <3>2. CASE c \in [a : {job.a}, at : {at}, ok : BOOLEAN]
        BY <1>2, <3>2, SrReads DEF SrInv, SrResults
      <3> QED
        BY <2>1, <3>1, <3>2
    <2> QED
      BY <2>1, <2>2
  <1> HIDE DEF at
  <1>4. SrGrows
    BY <1>1, <1>3 DEF SrGrows, SrDone, SrBranch
  <1>5. SrMade' /\ SrReviewed'
    BY <1>1, <1>4, SrKeepsMade, SrKeepsReviewed DEF SrInv
  <1>6. SrOrder'
    <2>1. Len(hist') \in Nat /\ Len(hist') >= Len(hist)
      BY <1>1, SrReads DEF SrInv
    <2> QED
      BY <1>1, <1>3, <1>4, <2>1, SrKeepsOrder DEF SrInv
  <1>7. cmd' \subseteq SrResults
    BY <1>3 DEF SrInv, SrTyped
  <1>8. CASE job' = Source!Idle
    <2>1. SrTyped'
      BY <1>1, <1>3, <1>7, <1>8, SrGoes DEF SrInv, SrTyped, SrStates
    <2> QED
      BY <1>5, <1>6, <1>8, <2>1, SrRests DEF SrInv
  <1>9. CASE c.ok /\ job' = [pc |-> "commit", a |-> job.a, run |-> at]
    <2>1. job' \in SrJobs /\ job'.pc = "commit" /\ job'.a = job.a /\ job'.run = at
      BY <1>2, <1>9, SrReads DEF SrInv, SrJobs, SrStages
    <2>3. state \in {"verifying", "building"} /\ state' = state
      BY <1>1, <1>3, <1>9 DEF SrInv, SrJob, Source!Idle
    <2>2. SrTyped'
      BY <1>1, <1>7, <2>1, <2>3 DEF SrInv, SrTyped
    <2>4. c = SrResult(job.a, at)
      BY <1>3, <1>9, ZenonT(60) DEF SrResults, SrResult
    <2>5. SrResult(job'.a, job'.run) \in cmd'
      BY <1>3, <2>1, <2>4
    <2>6. SrJob'
      BY <1>1, <2>1, <2>3, <2>5 DEF SrJob, SrDone, SrPassed, SrResult
    <2> QED
      BY <1>5, <1>6, <2>2, <2>6 DEF SrInv
  <1> QED
    BY <1>3, <1>8, <1>9

\* A commit of the phase moves on: no attempt, result or revision changes with it.
LEMMA SrCommitting ==
    ASSUME SrInv, UNCHANGED <<up, leader, state, hist, ctl, att, cmd, rev, cand>>,
           job' \in SrJobs, tree' \in [log : SrLogs, dirty : BOOLEAN],
           \A c \in SrBranch : c \in SrBranch',
           eff' \in [{"F", "G"} -> SrCommits],
           \A c \in {"F", "G"} : eff[c].st = "confirmed" => eff'[c] = eff[c],
           SrMade', SrJob'
    PROVE  SrInv'
  <1>1. SrGrows
    BY DEF SrGrows, SrDone
  <1>2. SrReviewed'
    BY <1>1, SrKeepsReviewed DEF SrInv
  <1>3. SrOrder'
    <2>1. Len(hist') \in Nat /\ Len(hist') >= Len(hist)
      BY SrReads DEF SrInv
    <2> QED
      BY <1>1, <2>1, SrKeepsOrder DEF SrInv
  <1>4. SrTyped'
    BY DEF SrInv, SrTyped
  <1> QED
    BY <1>2, <1>3, <1>4 DEF SrInv

\* The commit is claimed for the provider and the command that just passed.
LEMMA SrCommit == ASSUME SrInv, Source!Commit PROVE SrInv'
  <1> DEFINE k == Source!Commits
             row == [st |-> "claimed", a |-> job.a, at |-> Source!Live, run |-> job.run]
  <1>1. /\ UNCHANGED <<up, leader, state, hist, ctl, att, cmd, rev, cand, tree>>
        /\ job.pc = "commit"
        /\ \/ /\ eff[k].a = job.a /\ eff[k].st = "confirmed"
              /\ Source!To("record", job.a) /\ eff' = eff
           \/ /\ eff[k] = Source!NoEff /\ Source!Tip = Source!Parent
              /\ eff' = [eff EXCEPT ![k] = row] /\ Source!To("update", job.a)
           \/ job' = Source!Idle /\ eff' = eff
    BY DEF Source!Commit, Source!In
  <1>2. /\ up = "serving" /\ state \in {"verifying", "building"} /\ k \in {"F", "G"}
        /\ Source!Commits' = k /\ Source!Parent' = Source!Parent
    BY <1>1, SrPhase
  <1>3. SrPassed(job.a, job.run) /\ SrDone(job.a)
    BY <1>1 DEF SrInv, SrJob
  <1>4. row \in SrCommits /\ row.st = "claimed" /\ row.a = job.a /\ row.run = job.run
    BY SrReads DEF SrInv, SrCommits
  <1>5. SrGrows /\ \A c \in SrBranch : c \in SrBranch'
    BY <1>1 DEF SrGrows, SrDone, SrBranch
  <1>6. tree' \in [log : SrLogs, dirty : BOOLEAN] /\ eff \in [{"F", "G"} -> SrCommits]
    BY <1>1 DEF SrInv, SrTyped
  <1> HIDE DEF k, row
  <1>7. CASE job' = Source!Idle /\ eff' = eff
    <2>1. SrMade'
      BY <1>5, <1>7, SrKeepsMade DEF SrInv
    <2> QED
      BY <1>1, <1>5, <1>6, <1>7, <2>1, SrRests, SrGoes, SrCommitting
  <1>8. CASE /\ eff[k].a = job.a /\ eff[k].st = "confirmed"
             /\ Source!To("record", job.a) /\ eff' = eff
    <2>1. SrMade'
      BY <1>5, <1>8, SrKeepsMade DEF SrInv
    <2>2. job' \in SrJobs /\ job'.pc = "record" /\ job'.a = job.a
      BY <1>8, SrGoes, SrReads DEF SrInv, SrStages
    <2>3. SrJob'
      BY <1>1, <1>2, <1>3, <1>8, <2>2 DEF SrJob, SrDone
    <2> QED
      BY <1>1, <1>5, <1>6, <1>8, <2>1, <2>2, <2>3, SrCommitting
  <1>9. CASE /\ eff[k] = Source!NoEff /\ Source!Tip = Source!Parent
             /\ eff' = [eff EXCEPT ![k] = row] /\ Source!To("update", job.a)
    <2>1. /\ eff' \in [{"F", "G"} -> SrCommits] /\ eff'[k] = row
          /\ \A c \in {"F", "G"} : c # k => eff'[c] = eff[c]
          /\ \A c \in {"F", "G"} : eff[c].st = "confirmed" => eff'[c] = eff[c]
      BY <1>2, <1>4, <1>6, <1>9 DEF Source!NoEff
    <2>2. job' \in SrJobs /\ job'.pc = "update" /\ job'.a = job.a
      BY <1>9, SrGoes, SrReads DEF SrInv, SrStages
    <2>3. SrMade'
      <3>1. \A a, r : SrPassed(a, r) => a \in DOMAIN att' /\ att'[a].st = "done" /\ SrResult(a, r) \in cmd'
        BY <1>1 DEF SrPassed, SrDone
      <3>2. \A c \in {"F", "G"} : eff'[c] # Source!NoEff =>
               /\ SrPassed(eff'[c].a, eff'[c].run)
               /\ eff'[c].st \in {"visible", "confirmed"} => c \in SrBranch
        BY <1>3, <1>4, <2>1 DEF SrInv, SrMade
      <3>3. \A c \in {"F", "G"} : eff'[c] # Source!NoEff =>
               /\ eff'[c].a \in DOMAIN att' /\ att'[eff'[c].a].st = "done"
               /\ SrResult(eff'[c].a, eff'[c].run) \in cmd'
        BY <3>1, <3>2
      <3> QED
        BY <1>5, <3>2, <3>3 DEF SrMade, SrPassed, SrDone, SrResult, Source!NoEff, Source!NoFence
    <2>4. SrJob'
      <3>1. Source!Tip' = Source!Parent'
        BY <1>1, <1>2, <1>9 DEF Source!Tip
      <3> QED
        BY <1>1, <1>2, <1>3, <1>4, <2>1, <2>2, <3>1 DEF SrJob, SrDone
    <2> QED
      BY <1>1, <1>5, <1>6, <2>1, <2>2, <2>3, <2>4, SrCommitting
  <1> QED
    BY <1>1, <1>7, <1>8, <1>9

\* A branch is known by its tip.
LEMMA SrTips ==
    \A log \in SrLogs : /\ log[Len(log)] = "S" => log = <<"C", "S">>
                        /\ log[Len(log)] = "F" => log = <<"C", "S", "F">>
  <1> DEFINE a == <<"C">>
             b == <<"C", "S">>
             c == <<"C", "S", "F">>
             d == <<"C", "S", "F", "G">>
  <1>1. /\ Len(a) = 1 /\ Len(b) = 2 /\ Len(c) = 3 /\ Len(d) = 4
        /\ a[1] = "C" /\ b[2] = "S" /\ c[3] = "F" /\ d[4] = "G"
    OBVIOUS
  <1> SUFFICES ASSUME NEW log \in SrLogs
               PROVE  (log[Len(log)] = "S" => log = b) /\ (log[Len(log)] = "F" => log = c)
    OBVIOUS
  <1>2. log = a \/ log = b \/ log = c \/ log = d
    BY DEF SrLogs
  <1> HIDE DEF a, b, c, d
  <1> QED
    BY <1>1, <1>2

\* It grows by the next commit.
LEMMA SrNextF == Append(<<"C", "S">>, "F") = <<"C", "S", "F">>
  <1> DEFINE T == {"C", "S", "F"}
             t == <<"C", "S", "F">>
             u == Append(<<"C", "S">>, "F")
  <1>1. t \in Seq(T) /\ u \in Seq(T) /\ Len(u) = 3 /\ Len(t) = 3
    OBVIOUS
  <1>2. \A i \in 1 .. 3 : u[i] = t[i]
    OBVIOUS
  <1>3. \A i \in 1 .. Len(u) : u[i] = t[i]
    BY <1>1, <1>2
  <1>4. Len(u) = Len(t)
    BY <1>1
  <1> SUFFICES u = t
    OBVIOUS
  <1> HIDE DEF T, t, u
  <1> QED
    BY <1>1, <1>3, <1>4, SeqEqual

\* The branch after the Builder's commit.
LEMMA SrNextG == Append(<<"C", "S", "F">>, "G") = <<"C", "S", "F", "G">>
  <1> DEFINE T == {"C", "S", "F", "G"}
             t == <<"C", "S", "F", "G">>
             u == Append(<<"C", "S", "F">>, "G")
  <1>1. t \in Seq(T) /\ u \in Seq(T) /\ Len(u) = 4 /\ Len(t) = 4
    OBVIOUS
  <1>2. \A i \in 1 .. 4 : u[i] = t[i]
    OBVIOUS
  <1>3. \A i \in 1 .. Len(u) : u[i] = t[i]
    BY <1>1, <1>2
  <1>4. Len(u) = Len(t)
    BY <1>1
  <1> SUFFICES u = t
    OBVIOUS
  <1> HIDE DEF T, t, u
  <1> QED
    BY <1>1, <1>3, <1>4, SeqEqual

\* The branch gets the commit on its parent: the log is the next of the four.
LEMMA SrPublishes == ASSUME SrInv, Source!UpdateRef PROVE SrInv'
  <1> DEFINE k == Source!Commits
             row == [eff[k] EXCEPT !.st = "visible"]
  <1>0. CASE job' = Source!Idle /\ UNCHANGED <<eff, tree>>
    <2>1. UNCHANGED <<up, leader, state, hist, ctl, att, cmd, eff, rev, cand, tree>>
      BY <1>0 DEF Source!UpdateRef
    <2> QED
      BY <1>0, <2>1, SrRests, SrGoes, SrActs
  <1> SUFFICES ASSUME ~(job' = Source!Idle /\ UNCHANGED <<eff, tree>>) PROVE SrInv'
    BY <1>0
  <1>1. /\ UNCHANGED <<up, leader, state, hist, ctl, att, cmd, rev, cand>>
        /\ job.pc = "update" /\ Source!To("confirm", job.a)
        /\ eff' = [eff EXCEPT ![k] = row]
        /\ tree' = [log |-> Append(tree.log, k), dirty |-> FALSE]
    BY DEF Source!UpdateRef, Source!In
  <1>2. /\ up = "serving" /\ state \in {"verifying", "building"} /\ k \in {"F", "G"}
        /\ Source!Commits' = k
    BY <1>1, SrPhase
  <1>3. eff[k].st = "claimed" /\ eff[k].a = job.a /\ Source!Tip = Source!Parent /\ SrDone(job.a)
    BY <1>1 DEF SrInv, SrJob
  <1>4. tree.log \in SrLogs /\ eff \in [{"F", "G"} -> SrCommits]
    BY DEF SrInv, SrTyped
  <1>5. \/ state = "verifying" /\ k = "F" /\ Source!Tip = "S"
        \/ state = "building" /\ k = "G" /\ Source!Tip = "F"
    BY <1>2, <1>3 DEF Source!Commits, Source!Parent
  <1>6. /\ row \in SrCommits /\ row.st = "visible" /\ row.a = job.a /\ row.run = eff[k].run
    BY <1>2, <1>3, <1>4 DEF SrCommits
  <1>7. \/ k = "F" /\ tree.log = <<"C", "S">>
        \/ k = "G" /\ tree.log = <<"C", "S", "F">>
    BY <1>4, <1>5, SrTips DEF Source!Tip
  <1> HIDE DEF k, row
  <1>8. /\ tree' \in [log : SrLogs, dirty : BOOLEAN] /\ k \in SrBranch'
        /\ \A c \in SrBranch : c \in SrBranch'
    <2>1. CASE k = "F" /\ tree.log = <<"C", "S">>
      <3>1. tree'.log = <<"C", "S", "F">> /\ tree'.dirty = FALSE
        BY <1>1, <2>1, SrNextF
      <3> QED
        BY <1>1, <2>1, <3>1 DEF SrBranch, SrLogs
    <2>2. CASE k = "G" /\ tree.log = <<"C", "S", "F">>
      <3>1. tree'.log = <<"C", "S", "F", "G">> /\ tree'.dirty = FALSE
        BY <1>1, <2>2, SrNextG
      <3> QED
        BY <1>1, <2>2, <3>1 DEF SrBranch, SrLogs
    <2> QED
      BY <1>7, <2>1, <2>2
  <1>9. /\ eff' \in [{"F", "G"} -> SrCommits] /\ eff'[k] = row
        /\ \A c \in {"F", "G"} : c # k => eff'[c] = eff[c]
        /\ \A c \in {"F", "G"} : eff[c].st = "confirmed" => eff'[c] = eff[c]
    BY <1>1, <1>2, <1>3, <1>4, <1>6
  <1>10. job' \in SrJobs /\ job'.pc = "confirm" /\ job'.a = job.a
    BY <1>1, SrGoes, SrReads DEF SrInv, SrStages
  <1>11. SrMade'
    <2>1. \A a, r : SrPassed(a, r) => a \in DOMAIN att' /\ att'[a].st = "done" /\ SrResult(a, r) \in cmd'
      BY <1>1 DEF SrPassed, SrDone
    <2>2. SrPassed(eff[k].a, eff[k].run)
      BY <1>2, <1>3 DEF SrInv, SrMade, Source!NoEff
    <2>3. \A c \in {"F", "G"} : eff'[c] # Source!NoEff =>
             /\ SrPassed(eff'[c].a, eff'[c].run)
             /\ eff'[c].st \in {"visible", "confirmed"} => c \in SrBranch'
      BY <1>3, <1>6, <1>8, <1>9, <2>2 DEF SrInv, SrMade
    <2>4. \A c \in {"F", "G"} : eff'[c] # Source!NoEff =>
             /\ eff'[c].a \in DOMAIN att' /\ att'[eff'[c].a].st = "done"
             /\ SrResult(eff'[c].a, eff'[c].run) \in cmd'
      BY <2>1, <2>3
    <2> QED
      BY <2>3, <2>4 DEF SrMade, SrPassed, SrDone, SrResult, Source!NoEff, Source!NoFence
  <1>12. SrJob'
    BY <1>1, <1>2, <1>3, <1>6, <1>9, <1>10 DEF SrJob, SrDone
  <1> QED
    BY <1>1, <1>8, <1>9, <1>10, <1>11, <1>12, SrCommitting

\* The commit is observed, or the observation is lost.
LEMMA SrConfirms == ASSUME SrInv, Source!Confirm PROVE SrInv'
  <1> DEFINE k == Source!Commits
             row == [eff[k] EXCEPT !.st = "confirmed"]
  <1>1. /\ UNCHANGED <<up, leader, state, hist, ctl, att, cmd, rev, cand, tree>>
        /\ job.pc = "confirm"
        /\ \/ eff' = [eff EXCEPT ![k] = row] /\ Source!To("record", job.a)
           \/ job' = Source!Idle /\ eff' = eff
    BY DEF Source!Confirm, Source!In
  <1>2. /\ up = "serving" /\ state \in {"verifying", "building"} /\ k \in {"F", "G"}
        /\ Source!Commits' = k
    BY <1>1, SrPhase
  <1>3. eff[k].st = "visible" /\ eff[k].a = job.a /\ SrDone(job.a)
    BY <1>1 DEF SrInv, SrJob
  <1>4. tree' \in [log : SrLogs, dirty : BOOLEAN] /\ eff \in [{"F", "G"} -> SrCommits]
    BY <1>1 DEF SrInv, SrTyped
  <1>5. row \in SrCommits /\ row.st = "confirmed" /\ row.a = eff[k].a /\ row.run = eff[k].run
    BY <1>2, <1>3, <1>4 DEF SrCommits
  <1>6. SrGrows /\ \A c \in SrBranch : c \in SrBranch'
    BY <1>1 DEF SrGrows, SrDone, SrBranch
  <1> HIDE DEF k, row
  <1>7. CASE job' = Source!Idle /\ eff' = eff
    <2>1. SrMade'
      BY <1>6, <1>7, SrKeepsMade DEF SrInv
    <2> QED
      BY <1>1, <1>4, <1>6, <1>7, <2>1, SrRests, SrGoes, SrCommitting
  <1>8. CASE eff' = [eff EXCEPT ![k] = row] /\ Source!To("record", job.a)
    <2>1. /\ eff' \in [{"F", "G"} -> SrCommits] /\ eff'[k] = row
          /\ \A c \in {"F", "G"} : c # k => eff'[c] = eff[c]
          /\ \A c \in {"F", "G"} : eff[c].st = "confirmed" => eff'[c] = eff[c]
      BY <1>2, <1>3, <1>4, <1>5, <1>8
    <2>2. job' \in SrJobs /\ job'.pc = "record" /\ job'.a = job.a
      BY <1>8, SrGoes, SrReads DEF SrInv, SrStages
    <2>3. SrMade'
      <3>1. \A a, r : SrPassed(a, r) => a \in DOMAIN att' /\ att'[a].st = "done" /\ SrResult(a, r) \in cmd'
        BY <1>1 DEF SrPassed, SrDone
      <3>2. SrPassed(eff[k].a, eff[k].run) /\ k \in SrBranch
        BY <1>2, <1>3 DEF SrInv, SrMade, Source!NoEff
      <3>3. \A c \in {"F", "G"} : eff'[c] # Source!NoEff =>
               /\ SrPassed(eff'[c].a, eff'[c].run)
               /\ eff'[c].st \in {"visible", "confirmed"} => c \in SrBranch'
        BY <1>5, <1>6, <2>1, <3>2 DEF SrInv, SrMade
      <3>4. \A c \in {"F", "G"} : eff'[c] # Source!NoEff =>
               /\ eff'[c].a \in DOMAIN att' /\ att'[eff'[c].a].st = "done"
               /\ SrResult(eff'[c].a, eff'[c].run) \in cmd'
        BY <3>1, <3>3
      <3> QED
        BY <3>3, <3>4 DEF SrMade, SrPassed, SrDone, SrResult, Source!NoEff, Source!NoFence
    <2>4. SrJob'
      BY <1>1, <1>2, <1>3, <1>5, <2>1, <2>2 DEF SrJob, SrDone
    <2> QED
      BY <1>1, <1>4, <1>6, <2>1, <2>2, <2>3, <2>4, SrCommitting
  <1> QED
    BY <1>1, <1>7, <1>8

\* A result that the source resume accepts was claimed at or after the resume.
LEMMA SrReaches ==
    ASSUME SrTyped, NEW a \in DOMAIN att, Source!SourceReaches(a)
    PROVE  att[a].at.i >= Source!Endpoint.i
  <1>1. Source!SuffixState(att[a].at) # "none"
    BY DEF Source!SourceReaches
  <1>2. Source!Chained(Source!Endpoint, att[a].at)
    BY <1>1 DEF Source!SuffixState
  <1>3. Source!Endpoint.i <= att[a].at.i
    BY <1>2 DEF Source!Chained
  <1>4. Source!Endpoint.i \in Nat /\ att[a].at.i \in Nat
    BY SrReads
  <1> QED
    BY <1>3, <1>4

\* What is recorded is the confirmed commit of the activity's own provider.
LEMMA SrRecords == ASSUME SrInv, Source!Record PROVE SrInv'
  <1> DEFINE k == Source!Commits
  <1>1. /\ UNCHANGED <<up, leader, state, hist, ctl, att, cmd, eff, tree>> /\ job.pc = "record"
        /\ \/ job' = Source!Idle /\ UNCHANGED <<rev, cand>>
           \/ /\ Source!SourceReaches(eff[k].a) /\ Source!To("signal", job.a)
              /\ \/ /\ state = "verifying" /\ cand' = cand
                    /\ rev' = [a |-> job.a, at |-> Source!Live]
                 \/ /\ state # "verifying" /\ rev' = rev
                    /\ cand' = [a |-> job.a, snap |-> Source!Live, at |-> Source!Live]
    BY DEF Source!Record, Source!In, Source!ReviewBinds, Source!CandidateBinds, Source!PreparedCheckpoint,
           Source!PreparedCandidate, Source!Commits
  <1>2. up = "serving" /\ state \in {"verifying", "building"} /\ k \in {"F", "G"}
    BY <1>1, SrPhase
  <1>3. eff[k].st = "confirmed" /\ eff[k].a = job.a /\ SrDone(job.a)
    BY <1>1 DEF SrInv, SrJob
  <1>4. SrGrows
    BY <1>1 DEF SrGrows, SrDone, SrBranch
  <1>5. SrMade'
    BY <1>1, <1>4, SrKeepsMade DEF SrInv
  <1>6. CASE job' = Source!Idle /\ UNCHANGED <<rev, cand>>
    BY <1>1, <1>6, SrRests, SrGoes, SrActs
  <1>7. CASE /\ Source!SourceReaches(eff[k].a) /\ Source!To("signal", job.a)
             /\ \/ /\ state = "verifying" /\ cand' = cand
                   /\ rev' = [a |-> job.a, at |-> Source!Live]
                \/ /\ state # "verifying" /\ rev' = rev
                   /\ cand' = [a |-> job.a, snap |-> Source!Live, at |-> Source!Live]
    <2>1. /\ rev' \in [a : Nat, at : SrPoints]
          /\ cand' \in [a : Nat, snap : SrPoints, at : SrPoints]
      BY <1>7, SrReads DEF SrInv, SrTyped
    <2>2. job' \in SrJobs /\ job'.pc = "signal"
      BY <1>7, SrGoes, SrReads DEF SrInv, SrStages
    <2>3. job.a \in DOMAIN att /\ job.a > 0
      BY <1>3, SrReads DEF SrInv, SrDone
    <2>4. SrTyped'
      BY <1>1, <2>1, <2>2 DEF SrInv, SrTyped
    <2>5. state = "verifying" => rev' # Source!NoRev
      BY <1>7, <2>3 DEF Source!NoRev
    <2>6. SrJob'
      <3>1. state = "verifying" => rev' # Source!NoRev'
        BY <2>5 DEF Source!NoRev, Source!NoFence
      <3> QED
        BY <1>1, <1>2, <2>2, <3>1 DEF SrJob
    <2>7. Source!Authored(k, job.a)
      <3>1. Source!SourceReaches(eff[k].a)
        BY <1>7
      <3>2. att[job.a].at.i >= Source!Endpoint.i
        BY <1>3, <2>3, <3>1, SrReaches DEF SrInv
      <3>3. SrPassed(job.a, eff[k].run) /\ k \in SrBranch
        BY <1>2, <1>3 DEF SrInv, SrMade, Source!NoEff
      <3> QED
        BY <1>3, <3>2, <3>3 DEF Source!Authored, SrDone, SrPassed, SrResult, SrBranch
    <2>8. \A c \in {"F", "G"} : \A a \in DOMAIN att : Source!Authored(c, a) => Source!Authored(c, a)'
      BY <1>1 DEF Source!Authored, Source!Endpoint
    <2>9. SrReviewed' /\ SrOrder'
      <3>1. Source!Endpoint'.i = Source!Endpoint.i
        BY <1>1 DEF Source!Endpoint
      <3>2. CASE /\ state = "verifying" /\ cand' = cand
                 /\ rev' = [a |-> job.a, at |-> Source!Live]
        <4>1. Source!Authored("F", rev'.a) /\ rev'.a \in DOMAIN att
          BY <2>3, <2>7, <3>2 DEF Source!Commits
        <4>2. cand # Source!NoCand => cand.a \in DOMAIN att /\ Source!Authored("G", cand.a)
          BY DEF SrInv, SrReviewed
        <4>3. \A a \in DOMAIN att : att[a].role = "builder" => att[a].at.i < Source!Endpoint.i
          BY <3>2 DEF SrInv, SrOrder
        <4>4. \A a \in DOMAIN att : att[a].role = "builder" => ~(att[a].at.i >= Source!Endpoint.i)
          <5>1. \A a \in DOMAIN att : att[a].at.i \in Nat /\ Source!Endpoint.i \in Nat
            BY SrReads DEF SrInv
          <5> QED
            BY <4>3, <5>1
        <4>5. SrReviewed'
          <5>1. PICK x \in DOMAIN att : x = rev'.a /\ Source!Authored("F", x)
            BY <4>1
          <5>4. Source!Authored("F", x)'
            BY <2>8, <5>1
          <5>2. (cand # Source!NoCand => cand.a \in DOMAIN att /\ Source!Authored("G", cand.a))'
            BY <1>1, <2>8, <3>2, <4>2 DEF Source!NoCand, Source!NoFence
          <5>3. (rev # Source!NoRev => rev.a \in DOMAIN att /\ Source!Authored("F", rev.a))'
            BY <1>1, <5>1, <5>4
          <5> QED
            BY <1>1, <3>1, <4>4, <5>2, <5>3 DEF SrReviewed
        <4>6. SrOrder'
          BY <1>1, <3>1, <3>2, <4>3 DEF SrInv, SrOrder
        <4> QED
          BY <4>5, <4>6
      <3>3. CASE /\ state # "verifying" /\ rev' = rev
                 /\ cand' = [a |-> job.a, snap |-> Source!Live, at |-> Source!Live]
        <4>1. PICK x \in DOMAIN att : x = cand'.a /\ Source!Authored("G", x)
          BY <2>3, <2>7, <3>3 DEF Source!Commits
        <4>6. Source!Authored("G", x)'
          BY <2>8, <4>1
        <4>2. (cand # Source!NoCand => cand.a \in DOMAIN att /\ Source!Authored("G", cand.a))'
          BY <1>1, <4>1, <4>6
        <4>3. (rev # Source!NoRev => rev.a \in DOMAIN att /\ Source!Authored("F", rev.a))'
          BY <1>1, <2>8, <3>3 DEF SrInv, SrReviewed, Source!NoRev, Source!NoFence
        <4>4. SrReviewed'
          BY <1>1, <3>1, <3>3, <4>2, <4>3 DEF SrInv, SrReviewed, Source!NoRev, Source!NoFence
        <4>5. SrOrder'
          BY <1>1, <3>1, <3>3 DEF SrInv, SrOrder, Source!NoRev, Source!NoFence
        <4> QED
          BY <4>4, <4>5
      <3> QED
        BY <1>7, <3>2, <3>3
    <2> QED
      BY <1>5, <2>4, <2>6, <2>9 DEF SrInv
  <1> QED
    BY <1>1, <1>6, <1>7

\* A crash fails what runs, and nothing that is finished.
LEMMA SrCrashes == ASSUME SrInv, Source!Crash PROVE SrInv'
  <1>1. /\ UNCHANGED <<leader, state, hist, ctl, cmd, eff, rev, cand, tree>> /\ job' = Source!Idle
        /\ att' = [a \in DOMAIN att |->
                      IF att[a].st = "running" THEN [att[a] EXCEPT !.st = "failed"] ELSE att[a]]
    BY DEF Source!Crash
  <1>2. DOMAIN att' = DOMAIN att
    BY <1>1
  <1>3. \A a \in DOMAIN att : /\ att'[a] \in SrAttempts /\ att'[a].role = att[a].role
                              /\ att'[a].at = att[a].at /\ (att[a].st = "done" => att'[a] = att[a])
    <2> SUFFICES ASSUME NEW a \in DOMAIN att
                 PROVE  /\ att'[a] \in SrAttempts /\ att'[a].role = att[a].role
                        /\ att'[a].at = att[a].at /\ (att[a].st = "done" => att'[a] = att[a])
      OBVIOUS
    <2>1. att'[a] = IF att[a].st = "running" THEN [att[a] EXCEPT !.st = "failed"] ELSE att[a]
      BY <1>1
    <2> QED
      BY <2>1, SrReads DEF SrInv, SrAttempts
  <1>4. att' \in Seq(SrAttempts)
    <2>1. DOMAIN att = 1 .. Len(att) /\ Len(att) \in Nat
      BY SrReads DEF SrInv
    <2>2. att' \in [1 .. Len(att) -> SrAttempts]
      BY <1>1, <1>2, <1>3, <2>1
    <2> QED
      BY <2>1, <2>2, SeqDef
  <1>5. SrGrows
    BY <1>1, <1>2, <1>3 DEF SrGrows, SrDone, SrBranch
  <1>6. SrMade' /\ SrReviewed'
    BY <1>1, <1>2, <1>5, SrKeepsMade, SrKeepsReviewed DEF SrInv
  <1>7. SrOrder'
    <2>1. Len(hist') \in Nat /\ Len(hist') >= Len(hist)
      BY <1>1, SrReads DEF SrInv
    <2> QED
      BY <1>1, <1>2, <1>5, <2>1, SrKeepsOrder DEF SrInv
  <1>8. SrTyped'
    BY <1>1, <1>4, SrGoes DEF SrInv, SrTyped
  <1> QED
    BY <1>1, <1>6, <1>7, <1>8, SrRests DEF SrInv

\* A start names the leader of the newest version, or none.
LEMMA SrPredecessor ==
    ASSUME SrInv, state \notin {"paused", "blocked"}
    PROVE  Source!Predecessor \in Nat
  <1>1. hist[Len(hist)].l \in Nat
    BY SrReads DEF SrInv, SrVersions
  <1>2. Source!Predecessor \in {0, hist[Len(hist)].l}
    <2>1. state \in {"stopping", "verifying", "building", "publishing"}
      BY DEF SrInv, SrTyped, SrStates
    <2>2. CASE state = "stopping"
      BY <2>2 DEF Source!Predecessor
    <2>3. CASE state = "verifying"
      BY <2>3 DEF Source!Predecessor, Source!VerifyingPredecessor, Source!Names
    <2>4. CASE state = "building"
      BY <2>4 DEF Source!Predecessor, Source!BuildingPredecessor, Source!Names, Source!At
    <2>5. CASE state = "publishing"
      BY <2>5 DEF Source!Predecessor, Source!PublishingPredecessor, Source!Names, Source!At
    <2> QED
      BY <2>1, <2>2, <2>3, <2>4, <2>5
  <1> QED
    BY <1>1, <1>2

\* A start seals the control, may add a row, and confirms a commit that is on the branch.
LEMMA SrStarts == ASSUME SrInv, Source!Start PROVE SrInv'
  <1> DEFINE v == [t |-> "row", l |-> leader + 1, pl |-> Source!Predecessor]
  <1>1. /\ up = "down" /\ leader' = leader + 1 /\ ctl' = [ctl EXCEPT !.st = "sealed"]
        /\ UNCHANGED <<state, att, cmd, rev, cand, tree, job>> /\ state # "blocked"
        /\ \/ UNCHANGED <<hist, eff>>
           \/ /\ state # "paused" /\ hist' = Append(hist, v)
              /\ eff' = [c \in DOMAIN eff |->
                            IF eff[c].st = "visible" THEN [eff[c] EXCEPT !.st = "confirmed"] ELSE eff[c]]
    BY DEF Source!Start
  <1>2. job' = Source!Idle
    BY <1>1 DEF SrInv, SrJob
  <1>3. leader' \in Nat /\ leader \in Nat /\ hist \in Seq(SrVersions) /\ eff \in [{"F", "G"} -> SrCommits]
    BY <1>1 DEF SrInv, SrTyped
  <1>4. state # "paused" => v \in SrVersions
    BY <1>1, <1>3, SrPredecessor DEF SrVersions
  <1> HIDE DEF v
  <1>5. hist' \in Seq(SrVersions) /\ Len(hist') \in Nat /\ Len(hist') >= Len(hist) /\ Len(hist') > 0
    <2>1. CASE hist' = hist
      BY <2>1, SrReads DEF SrInv, SrTyped
    <2>2. CASE state # "paused" /\ hist' = Append(hist, v)
      <3>1. hist' \in Seq(SrVersions) /\ Len(hist') = Len(hist) + 1 /\ Len(hist) \in Nat
        BY <1>3, <1>4, <2>2
      <3> QED
        BY <3>1
    <2> QED
      BY <1>1, <2>1, <2>2
  <1>6. /\ eff' \in [{"F", "G"} -> SrCommits]
        /\ \A c \in {"F", "G"} : /\ eff'[c].a = eff[c].a /\ eff'[c].run = eff[c].run
                                 /\ eff[c].st # "visible" => eff'[c] = eff[c]
                                 /\ eff'[c].st \in {"visible", "confirmed"} => eff[c].st \in {"visible", "confirmed"}
    <2>1. CASE eff' = eff
      BY <1>3, <2>1
    <2>2. CASE eff' = [c \in DOMAIN eff |->
                          IF eff[c].st = "visible" THEN [eff[c] EXCEPT !.st = "confirmed"] ELSE eff[c]]
      <3>1. DOMAIN eff = {"F", "G"} /\ \A c \in {"F", "G"} : eff[c] \in SrCommits
        BY <1>3
      <3>2. \A c \in {"F", "G"} :
               eff'[c] = IF eff[c].st = "visible" THEN [eff[c] EXCEPT !.st = "confirmed"] ELSE eff[c]
        BY <2>2, <3>1
      <3>3. \A c \in {"F", "G"} : /\ eff'[c] \in SrCommits
                                  /\ eff'[c].a = eff[c].a /\ eff'[c].run = eff[c].run
                                  /\ eff[c].st # "visible" => eff'[c] = eff[c]
                                  /\ eff'[c].st \in {"visible", "confirmed"} => eff[c].st \in {"visible", "confirmed"}
        BY <3>1, <3>2 DEF SrCommits
      <3>4. eff' \in [{"F", "G"} -> SrCommits]
        BY <2>2, <3>1, <3>3
      <3> QED
        BY <3>3, <3>4
    <2> QED
      BY <1>1, <2>1, <2>2
  <1>7. SrGrows
    BY <1>1 DEF SrGrows, SrDone, SrBranch, SrInv, SrTyped
  <1>8. SrMade'
    <2>1. \A a, r : SrPassed(a, r) => a \in DOMAIN att' /\ att'[a].st = "done" /\ SrResult(a, r) \in cmd'
      BY <1>1 DEF SrPassed, SrDone
    <2>2. \A c \in {"F", "G"} : eff'[c] # Source!NoEff =>
             /\ SrPassed(eff'[c].a, eff'[c].run)
             /\ eff'[c].st \in {"visible", "confirmed"} => c \in SrBranch'
      BY <1>6, <1>7 DEF SrInv, SrMade, SrGrows, Source!NoEff
    <2>3. \A c \in {"F", "G"} : eff'[c] # Source!NoEff =>
             /\ eff'[c].a \in DOMAIN att' /\ att'[eff'[c].a].st = "done"
             /\ SrResult(eff'[c].a, eff'[c].run) \in cmd'
      BY <2>1, <2>2
    <2> QED
      BY <2>2, <2>3 DEF SrMade, SrPassed, SrDone, SrResult, Source!NoEff, Source!NoFence
  <1>9. SrReviewed'
    BY <1>1, <1>6, <1>7, SrKeepsReviewed DEF SrInv
  <1>10. SrOrder'
    BY <1>1, <1>5, <1>7, SrKeepsOrder DEF SrInv
  <1>11. SrTyped'
    BY <1>1, <1>3, <1>5, <1>6 DEF SrInv, SrTyped
  <1> QED
    BY <1>2, <1>8, <1>9, <1>10, <1>11, SrRests DEF SrInv

\* The take finds the retained review and maybe a Builder of before it.
LEMMA SrInit == Source!Init => SrInv
  <1> SUFFICES ASSUME Source!Init PROVE SrInv
    OBVIOUS
  <1>1. PICK early \in BOOLEAN, old \in {"none", "failed", "done"} :
           LET l == IF early THEN 2 ELSE 1
               row == IF early THEN <<[t |-> "row", l |-> 2, pl |-> 1]>> ELSE <<>> IN
           /\ up = "serving" /\ leader = l /\ state = "stopping"
           /\ hist = <<[t |-> "verify", l |-> 1, pl |-> 0], [t |-> "pass", l |-> 1, pl |-> 0]>>
                     \o row \o <<[t |-> "take", l |-> l, pl |-> 0]>>
           /\ ctl = [st |-> "sealed", stop |-> Source!At(Len(hist)), auth |-> Source!At(Len(hist))]
           /\ remote = "same" /\ cmd = {} /\ rev = Source!NoRev /\ cand = Source!NoCand
           /\ att = <<[role |-> "reviewer", at |-> Source!At(1), st |-> "done"]>>
                    \o IF old = "none" THEN <<>>
                       ELSE <<[role |-> "builder", at |-> Source!At(Len(hist) - 1), st |-> old]>>
           /\ eff = [c \in {"F", "G"} |-> Source!NoEff]
           /\ tree = [log |-> <<"C">>, dirty |-> FALSE] /\ job = Source!Idle
    BY DEF Source!Init
  <1> DEFINE l == IF early THEN 2 ELSE 1
             v == <<[t |-> "verify", l |-> 1, pl |-> 0], [t |-> "pass", l |-> 1, pl |-> 0]>>
             w == IF early THEN <<[t |-> "row", l |-> 2, pl |-> 1]>> ELSE <<>>
             x == <<[t |-> "take", l |-> l, pl |-> 0]>>
  <1>2. hist \in Seq(SrVersions) /\ Len(hist) \in {3, 4}
    <2>1. v \in Seq(SrVersions) /\ Len(v) = 2
      BY DEF SrVersions
    <2>2. w \in Seq(SrVersions) /\ Len(w) \in {0, 1}
      <3>1. CASE early
        <4>1. w = <<[t |-> "row", l |-> 2, pl |-> 1]>>
          BY <3>1
        <4> HIDE DEF w
        <4> QED
          BY <4>1 DEF SrVersions
      <3>2. CASE ~ early
        <4>1. w = << >>
          BY <3>2
        <4> HIDE DEF w
        <4> QED
          BY <4>1
      <3> QED
        BY <3>1, <3>2
    <2>3. x \in Seq(SrVersions) /\ Len(x) = 1
      BY DEF SrVersions
    <2>4. hist = v \o w \o x
      BY <1>1
    <2> HIDE DEF v, w, x
    <2> DEFINE y == v \o w
    <2>5. y \in Seq(SrVersions) /\ Len(y) = Len(v) + Len(w)
      BY <2>1, <2>2, ConcatProperties
    <2>6. hist = y \o x
      BY <2>4
    <2> HIDE DEF y
    <2>7. hist \in Seq(SrVersions) /\ Len(hist) = Len(y) + Len(x)
      BY <2>3, <2>5, <2>6, ConcatProperties
    <2>8. Len(hist) = 2 + Len(w) + 1
      BY <2>1, <2>3, <2>5, <2>7
    <2> DEFINE k == Len(w)
    <2>9. k \in {0, 1} /\ Len(hist) = 2 + k + 1
      BY <2>2, <2>8
    <2> HIDE DEF k
    <2>10. Len(hist) \in {3, 4}
      BY <2>9
    <2> QED
      BY <2>7, <2>10
  <1> HIDE DEF v, w, x, l
  <1> DEFINE n == Len(hist)
  <1>3. n \in Nat /\ n > 2 /\ \A i \in 1 .. n : Source!At(i) \in SrPoints /\ Source!At(i).i = i
    <2>1. n \in {3, 4}
      BY <1>2
    <2>2. \A i \in 1 .. n : hist[i] \in SrVersions /\ i \in Nat
      BY <1>2, ElementOfSeq, LenProperties
    <2>3. n \in Nat /\ n > 2
      <3> HIDE DEF n
      <3> QED
        BY <2>1
    <2> QED
      BY <2>2, <2>3 DEF Source!At, SrPoints, SrVersions
  <1>4. /\ Source!At(1) \in SrPoints /\ Source!At(1).i = 1
        /\ Source!At(n - 1) \in SrPoints /\ Source!At(n - 1).i = n - 1
        /\ Source!At(n) \in SrPoints /\ Source!At(n).i = n
    BY <1>2, <1>3
  <1>5. leader \in Nat /\ state = "stopping" /\ cmd = {} /\ job = Source!Idle
        /\ rev = Source!NoRev /\ cand = Source!NoCand /\ tree = [log |-> <<"C">>, dirty |-> FALSE]
        /\ eff = [c \in {"F", "G"} |-> Source!NoEff]
        /\ ctl = [st |-> "sealed", stop |-> Source!At(n), auth |-> Source!At(n)]
    BY <1>1
  <1>6. /\ att \in Seq(SrAttempts) /\ 1 \in DOMAIN att /\ att[1].role = "reviewer" /\ att[1].st = "done"
        /\ \A a \in DOMAIN att : att[a].at.i \in {1, n - 1}
    <2> DEFINE r == [role |-> "reviewer", at |-> Source!At(1), st |-> "done"]
               b == [role |-> "builder", at |-> Source!At(n - 1), st |-> old]
    <2>1. r \in SrAttempts /\ r.role = "reviewer" /\ r.st = "done" /\ r.at.i = 1
      BY <1>4 DEF SrAttempts
    <2>2. old # "none" => b \in SrAttempts /\ b.at.i = n - 1
      BY <1>4 DEF SrAttempts
    <2>3. att = <<r>> \o (IF old = "none" THEN <<>> ELSE <<b>>)
      BY <1>1
    <2> HIDE DEF r, b, n
    <2> DEFINE p == <<r>>
               q == IF old = "none" THEN <<>> ELSE <<b>>
    <2>4. p \in Seq(SrAttempts) /\ Len(p) = 1 /\ p[1] = r
      BY <2>1
    <2>5. q \in Seq(SrAttempts) /\ Len(q) \in {0, 1} /\ (Len(q) = 1 => old # "none" /\ q[1] = b)
      BY <2>2
    <2>6. att = p \o q
      BY <2>3
    <2> HIDE DEF p, q
    <2>7. /\ att \in Seq(SrAttempts) /\ Len(att) = Len(p) + Len(q)
          /\ \A i \in 1 .. Len(att) : att[i] = IF i <= Len(p) THEN p[i] ELSE q[i - Len(p)]
      BY <2>4, <2>5, <2>6, ConcatProperties
    <2>8. DOMAIN att = 1 .. Len(att)
      BY <2>7, LenProperties
    <2>9. CASE Len(q) = 0
      <3>1. Len(att) = 1 /\ att[1] = r
        BY <2>4, <2>7, <2>9
      <3>2. DOMAIN att = {1}
        BY <2>8, <3>1
      <3> QED
        BY <2>1, <2>7, <3>1, <3>2
    <2>10. CASE Len(q) = 1
      <3>1. Len(att) = 2
        BY <2>4, <2>7, <2>10
      <3>2. att[1] = r
        BY <2>4, <2>7, <3>1
      <3>3. att[2] = b
        BY <2>4, <2>5, <2>7, <2>10, <3>1
      <3>4. DOMAIN att = {1, 2}
        BY <2>8, <3>1
      <3>5. b.at.i = n - 1
        BY <2>2, <2>5, <2>10
      <3> QED
        BY <2>1, <2>7, <3>2, <3>3, <3>4, <3>5
    <2> QED
      BY <2>5, <2>9, <2>10
  <1>7. SrTyped
    <2>1. /\ rev \in [a : Nat, at : SrPoints] /\ cand \in [a : Nat, snap : SrPoints, at : SrPoints]
          /\ eff \in [{"F", "G"} -> SrCommits]
      BY <1>5 DEF SrCommits, SrPoints, Source!NoRev, Source!NoCand, Source!NoEff, Source!NoFence
    <2>2. ctl \in [st : {"sealed", "open"}, stop : SrPoints, auth : SrPoints]
      BY <1>4, <1>5
    <2>3. tree \in [log : SrLogs, dirty : BOOLEAN]
      BY <1>5 DEF SrLogs
    <2> QED
      BY <1>2, <1>3, <1>5, <1>6, <2>1, <2>2, <2>3, SrGoes DEF SrTyped, SrStates
  <1>8. SrMade
    BY <1>5 DEF SrMade
  <1>9. SrJob
    BY <1>5 DEF SrJob, Source!Idle
  <1>10. Source!Endpoint.i = n + 2
    BY <1>4, <1>5 DEF Source!Endpoint
  <1>11. \A a \in DOMAIN att : att[a].at.i <= n /\ att[a].at.i < Source!Endpoint.i /\ ~(att[a].at.i >= Source!Endpoint.i)
    <2>1. \A i \in {1, n - 1} : i <= n /\ i < n + 2 /\ ~(i >= n + 2)
      BY <1>3
    <2> HIDE DEF n
    <2> QED
      BY <1>6, <1>10, <2>1
  <1>12. SrOrder
    BY <1>5, <1>6, <1>11 DEF SrOrder
  <1>13. SrReviewed
    BY <1>5, <1>11 DEF SrReviewed
  <1> QED
    BY <1>7, <1>8, <1>9, <1>12, <1>13 DEF SrInv

\* The four branches are the prefixes of the one the ticket may have.
LEMMA SrPrefixes == ASSUME NEW log \in SrLogs PROVE \E n \in 1 .. 4 : log = SubSeq(Source!Branch, 1, n)
  <1> DEFINE T == {"C", "S", "F", "G"}
             B == <<"C", "S", "F", "G">>
  <1>1. B \in Seq(T) /\ Len(B) = 4
    OBVIOUS
  <1>2. \A n \in 1 .. 4 : /\ SubSeq(B, 1, n) \in Seq(T) /\ Len(SubSeq(B, 1, n)) = n
                          /\ \A i \in 1 .. n : SubSeq(B, 1, n)[i] = B[i]
    BY <1>1
  <1>3. /\ log \in Seq(T) /\ Len(log) \in 1 .. 4 /\ \A i \in 1 .. Len(log) : log[i] = B[i]
    <2>1. CASE log = <<"C">>
      BY <2>1
    <2>2. CASE log = <<"C", "S">>
      BY <2>2
    <2>3. CASE log = <<"C", "S", "F">>
      BY <2>3
    <2>4. CASE log = <<"C", "S", "F", "G">>
      BY <2>4
    <2> QED
      BY <2>1, <2>2, <2>3, <2>4 DEF SrLogs
  <1>4. B = Source!Branch
    BY DEF Source!Branch
  <1> HIDE DEF B, T
  <1> DEFINE s == SubSeq(B, 1, Len(log))
  <1>5. s \in Seq(T) /\ Len(s) = Len(log) /\ \A i \in 1 .. Len(log) : log[i] = s[i]
    BY <1>2, <1>3
  <1> HIDE DEF s
  <1>6. log = s
    BY <1>3, <1>5, SeqEqual
  <1> QED
    BY <1>3, <1>4, <1>6 DEF s

\* What the invariant says of the branch, the revision and the candidate.
LEMMA SrSays == SrInv => Source!SourceIsReviewed
  <1> SUFFICES ASSUME SrInv PROVE Source!SourceIsReviewed
    OBVIOUS
  <1>1. \E n \in 1 .. 4 : tree.log = SubSeq(Source!Branch, 1, n)
    BY SrPrefixes DEF SrInv, SrTyped
  <1> QED
    BY <1>1 DEF SrInv, SrReviewed, Source!SourceIsReviewed

\* Every step keeps it.
LEMMA SrStep == ASSUME SrInv, Source!Next \/ UNCHANGED Source!vars PROVE SrInv'
  <1>1. CASE UNCHANGED Source!vars
    <2>1. UNCHANGED <<up, leader, state, hist, ctl, remote, att, cmd, eff, rev, cand, tree, job>>
      BY <1>1 DEF Source!vars
    <2>2. SrJob'
      BY <2>1, SrStands DEF SrInv
    <2> QED
      BY <2>1, <2>2, SrActs DEF SrInv, SrTyped
  <1> QED
    BY <1>1, SrDrains, SrOutside, SrLaunches, SrExhausts, SrReuses, SrRebinds, SrGivesUp, SrSignals, SrEnds, SrRuns,
       SrCommit, SrPublishes, SrConfirms, SrRecords, SrCrashes, SrStarts
    DEF Source!Next, Source!Operator, Source!Tick

\* Whatever the crashes, the operator's commit is carried on only under a fresh review of it: the
\* revision, every Builder since the resume and the candidate are accounted for, and the branch
\* holds nothing else (operator_source_resume.go, worker.go verifying and building).
THEOREM SourceStaysReviewed == Spec => []SourceIsReviewed
  <1> DEFINE Inv == which = "source" => SrInv
  <1>1. Init => Inv
    BY HostInit, SrInit
  <1>2. Inv /\ [Next]_<<which, all>> => Inv'
    BY HostStep, SrStep
  <1>3. Inv => SourceIsReviewed
    BY SrSays DEF SourceIsReviewed
  <1> QED
    BY <1>1, <1>2, <1>3, PTL DEF Spec

(***************************************************************************)
(* A candidate is the work of a Builder of the newest building entry,      *)
(* whatever was repaired, amended and replayed, for every number of        *)
(* starts, corrections and attempts.                                       *)
(*                                                                         *)
(* Every action finds its lane from the history alone, so the invariant    *)
(* says what the history tells: which versions open an entry (PbHistory),  *)
(* that an attempt belongs to the entry that was newest when it was        *)
(* claimed (PbAttempted), and that from the claim of a commit on its       *)
(* Builder stays the newest finished one, so that no other is launched and *)
(* neither a repair nor a request can follow (PbCommitted).  PbJob is what *)
(* each stage of the activity has established.                             *)
(***************************************************************************)

\* The sets the parts of the state range over.
PbKinds    == {"built", "row", "repair", "request", "accepted", "rejected"}
PbStages   == {"idle", "builder", "materialize", "request", "commit", "repair", "update",
               "confirm", "record", "signal"}
PbPoints   == [i : Nat, l : Nat]
PbVersions == [t : PbKinds, l : Nat, pl : Nat]
PbAttempts == [at : PbPoints, e : Nat, rev : Nat, st : {"running", "done", "amend", "failed"}]
PbResults  == [b : Nat, at : PbPoints, ok : BOOLEAN]
PbCommits  == [st : {"none", "claimed", "visible", "confirmed"}, at : PbPoints, b : Nat]
PbTrees    == [head : Nat, b : Nat, whole : BOOLEAN]
PbRepairs  == [e : Nat, at : PbPoints, b : Nat, rev : Nat, tree : PbTrees]
PbRequests == [v : Nat, at : PbPoints, b : Nat, bound : BOOLEAN, r : Nat, tree : PbTrees]
PbJobs     == [pc : PbStages, b : Nat]

\* The types of the state.
PbTyped ==
    /\ leader \in Nat /\ hist \in Seq(PbVersions) /\ Len(hist) > 0 /\ hist[1].t = "built"
    /\ att \in Seq(PbAttempts) /\ Len(att) > 0 /\ cmd \subseteq PbResults
    /\ repairs \in Seq(PbRepairs) /\ reqs \in Seq(PbRequests)
    /\ rev \in Nat \ {0} /\ eff \in PbCommits /\ cand \in [b : Nat, at : PbPoints]
    /\ tree \in PbTrees /\ job \in PbJobs

\* A Builder of the newest entry; the newest finished Builder; its command passed at the fence f.
PbOurs(b)      == b \in DOMAIN att /\ att[b].e = Repair!Entry
PbNewest(b)    == b \in Repair!Finished /\ \A c \in Repair!Finished : c <= b
PbResult(b, f) == [b |-> b, at |-> f, ok |-> TRUE]
PbPassed(b, f) == PbResult(b, f) \in cmd

\* Only the first version is of the first build; the repairs are those the history holds, each
\* of another finished Builder of an older entry; nothing was decided without a snapshot.
PbHistory ==
    /\ \A i \in DOMAIN hist : hist[i].t = "built" => i = 1
    /\ \A i \in DOMAIN hist : hist[i].t = "repair" => Repair!Repaired /\ i <= Repair!LastRepair.e
    /\ \A k \in DOMAIN repairs :
          /\ repairs[k].e \in DOMAIN hist /\ hist[repairs[k].e].t = "repair"
          /\ repairs[k].b \in DOMAIN att /\ att[repairs[k].b].st = "done"
          /\ att[repairs[k].b].e < repairs[k].e
    /\ \A j, k \in DOMAIN repairs : repairs[j].b = repairs[k].b => j = k
    /\ Repair!Bound = {} => state # "verifying" /\ Repair!Decisions = {}
    /\ Repair!Bound # {} => Repair!Repaired

\* An attempt is of the entry that was newest at its claim, and made under the proof of its time.
PbAttempted ==
    /\ \A b \in DOMAIN att :
          /\ att[b].e \in Repair!Entries /\ att[b].e <= att[b].at.i /\ att[b].at.i <= Len(hist)
          /\ \A i \in Repair!Entries : i <= att[b].at.i => i <= att[b].e
          /\ att[b].e = Repair!Entry => att[b].rev = rev
          /\ att[b].st = "running" => job.pc = "builder" /\ job.b = b /\ b = Len(att)
    /\ ~Repair!Repaired => \A b \in DOMAIN att : b = 1 /\ att[b].st = "done"

\* What each stage of the activity has established.
PbJob ==
    /\ job.pc = "idle" \/ (up = "serving" /\ state = "building" /\ PbOurs(job.b))
    /\ job.pc = "builder" => job.b = Len(att) /\ att[job.b].st = "running" /\ eff = Repair!NoEff
    /\ job.pc = "request" => att[job.b].st = "amend" /\ eff = Repair!NoEff
    /\ job.pc \in {"materialize", "commit", "repair"} => PbNewest(job.b) /\ att[job.b].st = "done"
    /\ job.pc = "commit" => PbPassed(job.b, Repair!Live)
    /\ job.pc = "update" => eff.st = "claimed"
    /\ job.pc = "confirm" => eff.st = "visible"
    /\ job.pc = "record" => eff.st = "confirmed"
    /\ job.pc \in {"update", "confirm", "record"} => eff.b = job.b

\* A commit is of the newest finished Builder, no entry or request follows it, and a visible one
\* has moved the branch; a candidate is of the commit.
PbCommitted ==
    /\ eff.st = "none" => eff = Repair!NoEff
    /\ eff # Repair!NoEff =>
          /\ state # "verifying" /\ PbOurs(eff.b) /\ PbNewest(eff.b) /\ att[eff.b].st = "done"
          /\ PbPassed(eff.b, eff.at)
          /\ \A i \in DOMAIN hist : i > eff.at.i => hist[i].t = "row"
    /\ eff.st \in {"visible", "confirmed"} => tree.head = 0
    /\ cand # Repair!NoCand => eff.st = "confirmed" /\ eff.b = cand.b

PbInv == PbTyped /\ PbHistory /\ PbAttempted /\ PbJob /\ PbCommitted

\* What the types say of the parts of the state.
LEMMA PbReads ==
    ASSUME PbTyped
    PROVE  /\ Len(hist) \in Nat /\ Len(hist) > 0 /\ DOMAIN hist = 1 .. Len(hist)
           /\ \A i \in DOMAIN hist : hist[i] \in PbVersions /\ hist[i].t \in PbKinds /\ hist[i].l \in Nat
           /\ Len(att) \in Nat /\ Len(att) > 0 /\ DOMAIN att = 1 .. Len(att)
           /\ \A b \in DOMAIN att : att[b] \in PbAttempts /\ att[b].at \in PbPoints
                                    /\ att[b].at.i \in Nat /\ att[b].e \in Nat /\ b \in Nat
           /\ Len(repairs) \in Nat /\ DOMAIN repairs = 1 .. Len(repairs)
           /\ \A k \in DOMAIN repairs : repairs[k] \in PbRepairs /\ repairs[k].e \in Nat
                                        /\ repairs[k].b \in Nat /\ repairs[k].at.l \in Nat
           /\ Len(reqs) \in Nat /\ DOMAIN reqs = 1 .. Len(reqs)
           /\ \A k \in DOMAIN reqs : reqs[k] \in PbRequests /\ reqs[k].at.l \in Nat
           /\ Repair!Live \in PbPoints /\ Repair!Live.i = Len(hist)
  <1>1. hist \in Seq(PbVersions) /\ att \in Seq(PbAttempts) /\ repairs \in Seq(PbRepairs)
        /\ reqs \in Seq(PbRequests) /\ leader \in Nat /\ Len(hist) > 0 /\ Len(att) > 0
    BY DEF PbTyped
  <1>2. /\ Len(hist) \in Nat /\ DOMAIN hist = 1 .. Len(hist)
        /\ Len(att) \in Nat /\ DOMAIN att = 1 .. Len(att)
        /\ Len(repairs) \in Nat /\ DOMAIN repairs = 1 .. Len(repairs)
        /\ Len(reqs) \in Nat /\ DOMAIN reqs = 1 .. Len(reqs)
    BY <1>1
  <1>3. \A i \in DOMAIN hist : hist[i] \in PbVersions
    BY <1>1
  <1>4. \A b \in DOMAIN att : att[b] \in PbAttempts
    BY <1>1
  <1>5. \A k \in DOMAIN repairs : repairs[k] \in PbRepairs
    BY <1>1
  <1>6. \A k \in DOMAIN reqs : reqs[k] \in PbRequests
    BY <1>1
  <1>7. \A i \in DOMAIN hist : hist[i].t \in PbKinds /\ hist[i].l \in Nat
    BY <1>3 DEF PbVersions
  <1>8. \A b \in DOMAIN att : att[b].at \in PbPoints /\ att[b].at.i \in Nat /\ att[b].e \in Nat /\ b \in Nat
    BY <1>2, <1>4 DEF PbAttempts, PbPoints
  <1>9. \A k \in DOMAIN repairs : repairs[k].e \in Nat /\ repairs[k].b \in Nat /\ repairs[k].at.l \in Nat
    BY <1>5 DEF PbRepairs, PbPoints
  <1>10. \A k \in DOMAIN reqs : reqs[k].at.l \in Nat
    BY <1>6 DEF PbRequests, PbPoints
  <1>11. Repair!Live \in PbPoints /\ Repair!Live.i = Len(hist)
    BY <1>1, <1>2 DEF Repair!Live, PbPoints
  <1> QED
    BY <1>1, <1>2, <1>3, <1>4, <1>5, <1>6, <1>7, <1>8, <1>9, <1>10, <1>11

\* The greatest of a bounded set of numbers bounds it.
LEMMA PbLatest ==
    ASSUME NEW n \in Nat, NEW S \in SUBSET (0 .. n), S # {}
    PROVE  Repair!Latest(S) \in S /\ \A y \in S : y <= Repair!Latest(S)
  BY LatestIs DEF Repair!Latest, Source!Latest

\* The newest entry is an entry, and none is newer.
LEMMA PbEntry ==
    ASSUME PbTyped
    PROVE  /\ Repair!Entry \in Repair!Entries /\ Repair!Entry \in Nat /\ Repair!Entry <= Len(hist)
           /\ \A i \in Repair!Entries : i <= Repair!Entry /\ i \in Nat /\ i <= Len(hist)
  <1>1. Repair!Entries \in SUBSET (0 .. Len(hist)) /\ Len(hist) \in Nat
    BY PbReads DEF Repair!Entries, Repair!Decisions
  <1>2. 1 \in Repair!Entries
    BY PbReads DEF Repair!Entries, PbTyped
  <1>3. Repair!Entry \in Repair!Entries /\ \A y \in Repair!Entries : y <= Repair!Entry
    BY <1>1, <1>2, PbLatest DEF Repair!Entry
  <1> QED
    BY <1>1, <1>3

\* The history and the attempts stand where they stood, and no Builder that runs loses its job.
PbStill == /\ UNCHANGED <<hist, att, repairs, reqs, rev>>
           /\ job' = job \/ job.pc # "builder"
           /\ state' = state \/ state' # "verifying"

LEMMA PbReading ==
    ASSUME UNCHANGED <<hist, att, repairs, reqs>>
    PROVE  UNCHANGED <<Repair!Rows, Repair!Decisions, Repair!Entries, Repair!Entry, Repair!Bound,
                       Repair!Repaired, Repair!LastRepair, Repair!Finished>>
  <1>1. UNCHANGED <<Repair!Rows, Repair!Decisions, Repair!Bound, Repair!Repaired,
                    Repair!LastRepair, Repair!Finished>>
    BY DEF Repair!Rows, Repair!Decisions, Repair!Bound, Repair!Repaired, Repair!LastRepair,
           Repair!Finished
  <1>2. UNCHANGED Repair!Entries
    BY <1>1 DEF Repair!Entries
  <1>3. UNCHANGED Repair!Entry
    BY <1>2 DEF Repair!Entry
  <1> QED
    BY <1>1, <1>2, <1>3

LEMMA PbKeeps == ASSUME PbInv, PbStill PROVE PbHistory' /\ PbAttempted'
  <1>1. UNCHANGED <<Repair!Decisions, Repair!Entries, Repair!Entry, Repair!Bound,
                    Repair!Repaired, Repair!LastRepair>>
    BY PbReading DEF PbStill
  <1>2. PbHistory'
    BY <1>1 DEF PbStill, PbInv, PbHistory
  <1>3. PbAttempted'
    <2>1. \A b \in DOMAIN att : att[b].st = "running" => job'.pc = "builder" /\ job'.b = b /\ b = Len(att)
      BY DEF PbStill, PbInv, PbAttempted
    <2> QED
      BY <1>1, <2>1 DEF PbStill, PbInv, PbAttempted
  <1> QED
    BY <1>2, <1>3

\* A commit and a candidate that nobody touches; results are only added.
LEMMA PbKeepsCommit ==
    ASSUME PbInv, PbStill, UNCHANGED <<eff, cand>>, tree'.head = tree.head, cmd \subseteq cmd'
    PROVE  PbCommitted'
  <1>1. UNCHANGED <<Repair!Entry, Repair!Finished>>
    BY PbReading DEF PbStill
  <1>2. \A b : UNCHANGED <<PbOurs(b), PbNewest(b)>>
    BY <1>1 DEF PbStill, PbOurs, PbNewest
  <1>3. \A b, f : PbPassed(b, f) => PbPassed(b, f)'
    BY DEF PbPassed, PbResult
  <1> QED
    BY <1>2, <1>3 DEF PbInv, PbCommitted, PbStill, PbOurs, PbNewest, PbPassed, PbResult, Repair!NoEff, Repair!NoCand, Repair!NoFence, Repair!Finished

\* Nothing under way needs nothing.
LEMMA PbRests == ASSUME job'.pc = "idle" PROVE PbJob'
  BY DEF PbJob

\* The next stage is a stage.
LEMMA PbGoes ==
    /\ \A pc \in PbStages, b \in Nat : Repair!To(pc, b) => job' \in PbJobs /\ job'.pc = pc /\ job'.b = b
    /\ Repair!Idle \in PbJobs /\ Repair!Idle.pc = "idle"
  BY DEF Repair!To, Repair!Idle, PbJobs, PbStages

\* A ticket that is done, or that waits for the operator, rests.
LEMMA PbStops ==
    ASSUME PbInv, Repair!StopRejected \/ Repair!Exhausted \/ Repair!SignalCandidate
    PROVE  PbInv'
  <1>1. /\ UNCHANGED <<leader, hist, att, cmd, repairs, reqs, rev, eff, cand, tree>>
        /\ state' \in {"blocked", "publishing"} /\ job' \in {job, Repair!Idle}
        /\ job.pc # "builder"
    BY DEF Repair!StopRejected, Repair!Exhausted, Repair!SignalCandidate, Repair!Resting,
           Repair!In, Repair!Idle
  <1>2. job'.pc = "idle" /\ job' \in PbJobs
    BY PbGoes DEF Repair!StopRejected, Repair!Exhausted, Repair!SignalCandidate, Repair!Resting,
                  Repair!Idle
  <1>3. PbStill /\ PbTyped'
    BY <1>1, <1>2 DEF PbStill, PbInv, PbTyped
  <1> QED
    BY <1>1, <1>2, <1>3, PbKeeps, PbKeepsCommit, PbRests DEF PbInv

\* A Builder that writes leaves the branch alone.
LEMMA PbWrites == ASSUME PbInv, Repair!BuilderWrites PROVE PbInv'
  <1>1. /\ UNCHANGED <<up, leader, state, hist, att, cmd, repairs, reqs, rev, eff, cand, job>>
        /\ tree' = [tree EXCEPT !.b = job.b, !.whole = FALSE]
    BY DEF Repair!BuilderWrites
  <1>2. tree' \in PbTrees /\ tree'.head = tree.head
    BY <1>1 DEF PbInv, PbTyped, PbTrees, PbJobs
  <1>3. PbStill /\ PbTyped'
    BY <1>1, <1>2 DEF PbStill, PbInv, PbTyped
  <1>4. PbJob'
    <2>1. UNCHANGED <<Repair!Entry, Repair!Finished, Repair!Live>>
      BY <1>1, PbReading DEF Repair!Live
    <2> QED
      BY <1>1, <2>1 DEF PbInv, PbJob, PbOurs, PbNewest, PbPassed, PbResult, Repair!NoEff, Repair!NoFence
  <1> QED
    BY <1>1, <1>2, <1>3, <1>4, PbKeeps, PbKeepsCommit DEF PbInv

\* A lane that works is of a ticket that builds, and of an entry that was not rejected.
LEMMA PbLane ==
    ASSUME PbInv, Repair!Resting, Repair!Lane = "run"
    PROVE  /\ state = "building" /\ job.pc = "idle"
           /\ hist[Repair!Entry].t = "accepted" \/ Repair!Decisions = {}
  <1>1. state \in {"building", "verifying"} /\ job.pc = "idle"
    BY DEF Repair!Resting, Repair!Idle
  <1>2. Repair!AmendmentContext \notin {"conflict", "rejected", "pending"}
    BY DEF Repair!Lane
  <1>3. CASE Repair!Bound = {}
    BY <1>1, <1>3 DEF PbInv, PbHistory
  <1>4. CASE Repair!Bound # {}
    <2>1. state # "verifying"
      BY <1>2, <1>4 DEF Repair!AmendmentContext
    <2>2. Repair!Entry = Repair!Latest(Repair!Decisions) /\ hist[Repair!Entry].t # "rejected"
      BY <1>2, <1>4, <2>1 DEF Repair!AmendmentContext
    <2>3. CASE Repair!Decisions # {}
      <3>1. Repair!Decisions \in SUBSET (0 .. Len(hist)) /\ Len(hist) \in Nat
        BY PbReads DEF PbInv, Repair!Decisions
      <3>2. Repair!Entry \in Repair!Decisions
        BY <2>2, <2>3, <3>1, PbLatest
      <3> QED
        BY <1>1, <2>1, <2>2, <3>2 DEF Repair!Decisions
    <2> QED
      BY <1>1, <2>1, <2>3
  <1> QED
    BY <1>3, <1>4

\* The entry of a ticket that was repaired and is not under a decision is its last repair.
LEMMA PbRepaired ==
    ASSUME PbInv, Repair!Repaired
    PROVE  /\ Repair!LastRepair.e \in Repair!Entries /\ Repair!LastRepair.e <= Repair!Entry
           /\ Repair!LastRepair.b \in Repair!Finished
           /\ att[Repair!LastRepair.b].e < Repair!LastRepair.e
           /\ hist[Repair!Entry].t \notin {"accepted", "rejected"} => Repair!Entry = Repair!LastRepair.e
  <1>1. Len(repairs) \in DOMAIN repairs /\ Repair!LastRepair = repairs[Len(repairs)]
    BY PbReads DEF PbInv, Repair!Repaired, Repair!LastRepair
  <1>2. /\ Repair!LastRepair.e \in DOMAIN hist /\ hist[Repair!LastRepair.e].t = "repair"
        /\ Repair!LastRepair.b \in DOMAIN att /\ att[Repair!LastRepair.b].st = "done"
        /\ att[Repair!LastRepair.b].e < Repair!LastRepair.e
    BY <1>1 DEF PbInv, PbHistory
  <1>3. Repair!LastRepair.e \in Repair!Entries /\ Repair!LastRepair.e <= Repair!Entry
    BY <1>2, PbEntry DEF PbInv, Repair!Entries
  <1>4. Repair!LastRepair.b \in Repair!Finished
    BY <1>2 DEF Repair!Finished
  <1>5. ASSUME hist[Repair!Entry].t \notin {"accepted", "rejected"} PROVE Repair!Entry = Repair!LastRepair.e
    <2>1. Repair!Entry \in DOMAIN hist /\ hist[Repair!Entry].t \in {"built", "repair"}
      BY <1>5, PbEntry DEF PbInv, Repair!Entries, Repair!Decisions
    <2>2. Repair!Entry \in Nat /\ Repair!LastRepair.e \in Nat /\ Repair!LastRepair.e > 0
      BY <1>2, <2>1, PbReads, PbEntry DEF PbInv
    <2>3. CASE hist[Repair!Entry].t = "built"
      <3>1. Repair!Entry = 1
        BY <2>1, <2>3 DEF PbInv, PbHistory
      <3> QED
        BY <1>3, <2>2, <3>1
    <2>4. CASE hist[Repair!Entry].t = "repair"
      <3>1. Repair!Entry <= Repair!LastRepair.e
        BY <2>1, <2>4 DEF PbInv, PbHistory
      <3> QED
        BY <1>3, <2>2, <3>1
    <2> QED
      BY <2>1, <2>3, <2>4
  <1> QED
    BY <1>2, <1>3, <1>4, <1>5

\* A result that a working lane reuses is of the newest entry, and the newest.
LEMMA PbReusable ==
    ASSUME PbInv, Repair!Resting, Repair!Lane = "run", NEW b \in Repair!Reusable
    PROVE  PbOurs(b) /\ PbNewest(b)
  <1>1. b \in Repair!Finished /\ PbNewest(b) /\ Repair!AfterRepair(b) /\ b \in DOMAIN att
        /\ (Repair!Repaired /\ hist[Repair!Entry].t = "accepted" => att[b].at.i >= Repair!Entry)
    BY DEF Repair!Reusable, PbNewest, Repair!Finished
  <1>2. /\ att[b].e \in Repair!Entries /\ att[b].e <= Repair!Entry /\ Repair!Entry \in Nat
        /\ Repair!Entry \in Repair!Entries /\ att[b].e \in Nat /\ att[b].at.i \in Nat
        /\ \A i \in Repair!Entries : i <= att[b].at.i => i <= att[b].e
    BY <1>1, PbReads, PbEntry DEF PbInv, PbAttempted
  <1>3. CASE Repair!Repaired
    <2>1. att[b].at.i >= Repair!LastRepair.e
      BY <1>1, <1>3 DEF Repair!AfterRepair
    <2>2. hist[Repair!Entry].t = "accepted" \/ Repair!Entry = Repair!LastRepair.e
      <3>1. hist[Repair!Entry].t = "accepted" \/ Repair!Entry \notin Repair!Decisions
        BY PbLane
      <3>2. Repair!Entry \in DOMAIN hist
        BY <1>2, PbEntry DEF PbInv, Repair!Entries, Repair!Decisions
      <3> QED
        BY <1>3, <3>1, <3>2, PbRepaired DEF Repair!Decisions
    <2>3. Repair!Entry <= att[b].at.i
      BY <1>1, <1>2, <1>3, <2>1, <2>2
    <2>4. Repair!Entry <= att[b].e
      BY <1>2, <2>3
    <2> QED
      BY <1>1, <1>2, <2>4 DEF PbOurs
  <1>4. CASE ~Repair!Repaired
    <2>1. Repair!Decisions = {}
      BY <1>4 DEF PbInv, PbHistory
    <2>2. Repair!Entry \in DOMAIN hist /\ hist[Repair!Entry].t \in {"built", "repair"}
      BY <1>2, <2>1 DEF Repair!Entries
    <2>3. Repair!Entry = 1
      BY <1>4, <2>2 DEF PbInv, PbHistory
    <2>4. att[b].e > 0
      BY <1>2, PbReads DEF PbInv, Repair!Entries, Repair!Decisions
    <2> QED
      BY <1>1, <1>2, <2>3, <2>4 DEF PbOurs
  <1> QED
    BY <1>3, <1>4

\* While there is a commit, its Builder is the one that a working lane reuses.
LEMMA PbOneBuilder ==
    ASSUME PbInv, eff # Repair!NoEff
    PROVE  eff.b \in Repair!Reusable
  <1>1. /\ eff.b \in DOMAIN att /\ att[eff.b].e = Repair!Entry /\ eff.b \in Repair!Finished
        /\ \A c \in Repair!Finished : c <= eff.b
    BY DEF PbInv, PbCommitted, PbOurs, PbNewest
  <1>2. att[eff.b].at.i >= Repair!Entry /\ att[eff.b].at.i \in Nat /\ Repair!Entry \in Nat
    BY <1>1, PbReads DEF PbInv, PbAttempted
  <1>3. Repair!AfterRepair(eff.b)
    <2>1. SUFFICES ASSUME Repair!Repaired
                   PROVE  att[eff.b].at.i >= Repair!LastRepair.e /\ eff.b > Repair!LastRepair.b
      BY DEF Repair!AfterRepair
    <2>2. /\ Repair!LastRepair.e <= Repair!Entry /\ Repair!LastRepair.e \in Nat
          /\ Repair!LastRepair.b \in Repair!Finished /\ Repair!LastRepair.b \in Nat
          /\ att[Repair!LastRepair.b].e < Repair!LastRepair.e /\ att[Repair!LastRepair.b].e \in Nat
      BY <2>1, PbRepaired, PbReads, PbEntry DEF PbInv, Repair!Finished
    <2>3. Repair!LastRepair.b # eff.b /\ Repair!LastRepair.b <= eff.b /\ eff.b \in Nat
      BY <1>1, <1>2, <2>2, PbReads DEF PbInv
    <2> QED
      BY <1>2, <2>2, <2>3
  <1> QED
    BY <1>1, <1>2, <1>3 DEF Repair!Reusable

\* A lane that launches has no commit; one that materializes has a result to go on with.
LEMMA PbWork ==
    ASSUME PbInv, Repair!Resting
    PROVE  /\ Repair!Work \in {"launch", "materialize"} => Repair!Lane = "run"
           /\ Repair!Work = "launch" => Repair!Reusable = {} /\ eff = Repair!NoEff
  <1>1. Repair!Work \in {"launch", "materialize"} => Repair!Lane = "run"
    <2>1. Repair!Lane # "run" => Repair!Work = Repair!Lane
      BY DEF Repair!Work
    <2>2. Repair!Lane \in {"none", "stop", "review", "run", "dispatch"}
      BY DEF Repair!Lane, Repair!RepairLane
    <2> QED
      BY <2>1, <2>2
  <1>2. Repair!Work = "launch" => Repair!Reusable = {}
    BY <1>1 DEF Repair!Work
  <1> QED
    BY <1>1, <1>2, PbOneBuilder

\* Only a repaired ticket has a Builder that did not finish its work.
LEMMA PbFirst ==
    ASSUME PbInv, NEW b \in DOMAIN att, att[b].st # "done"
    PROVE  Repair!Repaired
  BY DEF PbInv, PbAttempted

LEMMA PbReuses == ASSUME PbInv, Repair!ReuseBuilder PROVE PbInv'
  <1>1. PICK b \in Repair!Reusable :
           Repair!To(IF att[b].st = "done" THEN "materialize" ELSE "request", b)
    BY DEF Repair!ReuseBuilder
  <1>2. /\ Repair!Resting /\ Repair!Work = "materialize" /\ up = "serving"
        /\ UNCHANGED <<up, leader, state, hist, att, cmd, repairs, reqs, rev, eff, cand, tree>>
    BY DEF Repair!ReuseBuilder, Repair!Resting
  <1>3. Repair!Lane = "run" /\ state = "building" /\ job.pc = "idle"
    BY <1>2, PbWork, PbLane
  <1>4. PbOurs(b) /\ PbNewest(b) /\ b \in Nat /\ att[b].st \in {"done", "amend"}
    BY <1>2, <1>3, PbReusable, PbReads DEF PbInv, PbOurs, PbNewest, Repair!Finished
  <1>5. /\ job' \in PbJobs /\ job'.b = b
        /\ job'.pc = IF att[b].st = "done" THEN "materialize" ELSE "request"
    BY <1>1, <1>4, PbGoes DEF PbStages
  <1>6. PbStill /\ PbTyped'
    BY <1>2, <1>3, <1>5 DEF PbStill, PbInv, PbTyped
  <1>7. att[b].st = "amend" => eff = Repair!NoEff
    <2>1. SUFFICES ASSUME att[b].st = "amend", eff # Repair!NoEff PROVE FALSE
      OBVIOUS
    <2>2. eff.b \in Repair!Finished /\ att[eff.b].st = "done" /\ eff.b \in Nat
      BY <2>1, PbReads DEF PbInv, PbCommitted, PbNewest, Repair!Finished
    <2>3. b <= eff.b /\ eff.b <= b
      BY <1>4, <2>1, <2>2 DEF PbInv, PbCommitted, PbNewest
    <2> QED
      BY <1>4, <2>1, <2>2, <2>3
  <1>8. PbJob'
    <2>1. UNCHANGED <<Repair!Entry, Repair!Finished>>
      BY <1>2, PbReading
    <2> QED
      BY <1>2, <1>3, <1>4, <1>5, <1>7, <2>1 DEF PbJob, PbOurs, PbNewest, Repair!NoEff, Repair!NoFence
  <1> QED
    BY <1>2, <1>6, <1>8, PbKeeps, PbKeepsCommit DEF PbInv

\* The activity is at a stage of its Builder's: what the stages past the Builder share.
LEMMA PbWorking ==
    ASSUME PbInv, NEW pc \in PbStages, Repair!In(pc), pc # "idle"
    PROVE  /\ up = "serving" /\ state = "building" /\ job.pc = pc /\ job.b \in Nat /\ PbOurs(job.b)
           /\ job.b \in DOMAIN att
           /\ pc \in {"materialize", "commit"} /\ eff # Repair!NoEff => eff.b = job.b
  <1>1. up = "serving" /\ state = "building" /\ job.pc = pc /\ PbOurs(job.b) /\ job.b \in Nat
    BY DEF Repair!In, PbInv, PbJob, PbTyped, PbJobs
  <1>2. ASSUME pc \in {"materialize", "commit"}, eff # Repair!NoEff PROVE eff.b = job.b
    <2>1. PbNewest(job.b) /\ PbNewest(eff.b)
      BY <1>1, <1>2 DEF PbInv, PbJob, PbCommitted
    <2>2. job.b <= eff.b /\ eff.b <= job.b /\ eff.b \in Nat
      BY <2>1 DEF PbNewest, PbInv, PbTyped, PbCommits
    <2> QED
      BY <1>1, <2>2
  <1> QED
    BY <1>1, <1>2 DEF PbOurs

\* The command of the fence passes or fails, and its result is of its Builder.
LEMMA PbRuns == ASSUME PbInv, Repair!RunCommand PROVE PbInv'
  <1>1. PICK ok \in BOOLEAN :
           /\ Repair!Results(job.b) # {} => \E c \in Repair!Results(job.b) : c.ok = ok
           /\ cmd' = IF Repair!Results(job.b) = {}
                     THEN cmd \cup {[b |-> job.b, at |-> Repair!Live, ok |-> ok]} ELSE cmd
           /\ Repair!To(IF ok THEN "commit" ELSE "repair", job.b)
    BY DEF Repair!RunCommand
  <1>2. /\ Repair!In("materialize")
        /\ UNCHANGED <<up, leader, state, hist, att, repairs, reqs, rev, eff, cand, tree>>
    BY DEF Repair!RunCommand
  <1>3. /\ up = "serving" /\ state = "building" /\ job.pc = "materialize" /\ job.b \in Nat
        /\ PbOurs(job.b) /\ PbNewest(job.b) /\ att[job.b].st = "done"
    BY <1>2, PbWorking DEF PbStages, PbInv, PbJob
  <1>4. job' \in PbJobs /\ job'.b = job.b /\ job'.pc = IF ok THEN "commit" ELSE "repair"
    BY <1>1, <1>3, PbGoes DEF PbStages
  <1>5. cmd \subseteq cmd' /\ cmd' \subseteq PbResults
    BY <1>1, <1>3, PbReads DEF PbInv, PbTyped, PbResults
  <1>6. PbStill /\ PbTyped'
    BY <1>2, <1>3, <1>4, <1>5 DEF PbStill, PbInv, PbTyped
  <1>7. ok => PbResult(job.b, Repair!Live) \in cmd'
    <2>1. CASE Repair!Results(job.b) = {}
      BY <1>1, <2>1 DEF PbResult
    <2>2. CASE Repair!Results(job.b) # {}
      <3>1. PICK c \in Repair!Results(job.b) : c.ok = ok
        BY <1>1, <2>2
      <3>2. c \in cmd /\ c.b = job.b /\ c.at = Repair!Live /\ c \in PbResults
        BY <3>1 DEF Repair!Results, PbInv, PbTyped
      <3>3. ok => c = PbResult(job.b, Repair!Live)
        BY <3>1, <3>2 DEF PbResults, PbResult
      <3> QED
        BY <1>5, <3>2, <3>3
    <2> QED
      BY <2>1, <2>2
  <1>8. PbJob'
    <2>1. UNCHANGED <<Repair!Entry, Repair!Finished, Repair!Live>>
      BY <1>2, PbReading DEF Repair!Live
    <2> QED
      BY <1>2, <1>3, <1>4, <1>7, <2>1 DEF PbJob, PbOurs, PbNewest, PbPassed, PbResult
  <1> QED
    BY <1>2, <1>5, <1>6, <1>8, PbKeeps, PbKeepsCommit DEF PbInv

\* A commit that stands for the same work, only further.
LEMMA PbAdvances ==
    ASSUME PbInv, PbStill, UNCHANGED <<cmd, cand, state>>, tree'.head = tree.head,
           eff # Repair!NoEff, eff'.b = eff.b, eff'.at = eff.at, eff'.st = "confirmed",
           eff.st \in {"visible", "confirmed"}
    PROVE  PbCommitted'
  <1>1. UNCHANGED <<Repair!Entry, Repair!Finished>>
    BY PbReading DEF PbStill
  <1>2. eff' # Repair!NoEff
    BY DEF Repair!NoEff
  <1> QED
    BY <1>1, <1>2 DEF PbInv, PbCommitted, PbStill, PbOurs, PbNewest, PbPassed, PbResult,
                      Repair!NoEff, Repair!NoCand, Repair!NoFence

\* A commit is recorded once it is confirmed (ReplayCandidate, Commit, Confirm).
LEMMA PbConfirms ==
    ASSUME PbInv, PbStill, UNCHANGED <<up, leader, state, cmd, cand, tree>>, state = "building",
           up = "serving", PbOurs(job.b),
           eff # Repair!NoEff, eff.b = job.b, eff.st \in {"visible", "confirmed"},
           eff' = [eff EXCEPT !.st = "confirmed"], Repair!To("record", job.b)
    PROVE  PbInv'
  <1>1. job' \in PbJobs /\ job'.pc = "record" /\ job'.b = job.b
    BY PbGoes DEF PbStages, PbInv, PbTyped, PbJobs
  <1>2. eff' \in PbCommits /\ eff'.b = eff.b /\ eff'.at = eff.at /\ eff'.st = "confirmed"
    BY DEF PbInv, PbTyped, PbCommits
  <1>3. PbTyped'
    BY <1>1, <1>2 DEF PbStill, PbInv, PbTyped
  <1>4. UNCHANGED <<Repair!Entry, Repair!Finished>>
    BY PbReading DEF PbStill
  <1>5. PbJob'
    BY <1>1, <1>2, <1>4 DEF PbJob, PbOurs, PbStill
  <1> QED
    BY <1>2, <1>3, <1>5, PbKeeps, PbAdvances DEF PbInv

\* Giving up leaves everything as it is.
LEMMA PbGivesUp ==
    ASSUME PbInv, UNCHANGED <<up, leader, state, hist, att, cmd, repairs, reqs, rev, eff, cand, tree>>,
           job.pc # "builder", job' = Repair!Idle
    PROVE  PbInv'
  <1>1. job'.pc = "idle" /\ job' \in PbJobs
    BY PbGoes
  <1>2. PbStill /\ PbTyped'
    BY <1>1 DEF PbStill, PbInv, PbTyped
  <1> QED
    BY <1>1, <1>2, PbKeeps, PbKeepsCommit, PbRests DEF PbInv

LEMMA PbReplays == ASSUME PbInv, Repair!ReplayCandidate PROVE PbInv'
  <1>1. /\ Repair!In("materialize") /\ Repair!Committed(Repair!Entry)
        /\ UNCHANGED <<up, leader, state, hist, att, cmd, repairs, reqs, rev, cand, tree>>
        /\ \/ /\ Repair!PreparedCandidate(Repair!Entry, job.b)
              /\ eff' = [eff EXCEPT !.st = "confirmed"] /\ Repair!To("record", job.b)
           \/ job' = Repair!Idle /\ UNCHANGED eff
    BY DEF Repair!ReplayCandidate
  <1>2. /\ up = "serving" /\ state = "building" /\ job.pc = "materialize" /\ job.b \in Nat
        /\ PbOurs(job.b) /\ eff # Repair!NoEff /\ eff.b = job.b
    BY <1>1, PbWorking DEF PbStages, Repair!Committed
  <1>3. CASE /\ Repair!PreparedCandidate(Repair!Entry, job.b)
             /\ eff' = [eff EXCEPT !.st = "confirmed"] /\ Repair!To("record", job.b)
    <2>1. eff.st \in {"visible", "confirmed"}
      BY <1>3 DEF Repair!PreparedCandidate
    <2>2. PbStill
      BY <1>1, <1>2 DEF PbStill
    <2> QED
      BY <1>1, <1>2, <1>3, <2>1, <2>2, PbConfirms
  <1>4. CASE job' = Repair!Idle /\ UNCHANGED eff
    BY <1>1, <1>2, <1>4, PbGivesUp
  <1> QED
    BY <1>1, <1>3, <1>4

\* A commit is claimed by the newest finished Builder, whose command passed at this fence.
LEMMA PbClaims ==
    ASSUME PbInv, Repair!In("commit"), eff = Repair!NoEff,
           UNCHANGED <<up, leader, state, hist, att, cmd, repairs, reqs, rev, cand, tree>>,
           eff' = [st |-> "claimed", at |-> Repair!Live, b |-> job.b], Repair!To("update", job.b)
    PROVE  PbInv'
  <1>1. /\ up = "serving" /\ state = "building" /\ job.pc = "commit" /\ job.b \in Nat
        /\ PbOurs(job.b) /\ PbNewest(job.b) /\ att[job.b].st = "done" /\ PbPassed(job.b, Repair!Live)
    BY PbWorking DEF PbStages, PbInv, PbJob
  <1>2. job' \in PbJobs /\ job'.pc = "update" /\ job'.b = job.b
    BY <1>1, PbGoes DEF PbStages
  <1>3. PbStill
    BY <1>1 DEF PbStill
  <1>4. eff'.st = "claimed" /\ eff'.at = Repair!Live /\ eff'.b = job.b /\ eff' \in PbCommits
    BY <1>1, PbReads DEF PbInv, PbCommits
  <1>5. PbTyped'
    BY <1>2, <1>4 DEF PbInv, PbTyped
  <1>6. UNCHANGED <<Repair!Entry, Repair!Finished>>
    BY PbReading
  <1>7. PbJob'
    BY <1>1, <1>2, <1>4, <1>6 DEF PbJob, PbOurs
  <1>8. \A i \in DOMAIN hist : ~(i > eff'.at.i)
    BY <1>4, PbReads DEF PbInv
  <1>9. cand = Repair!NoCand
    BY DEF PbInv, PbCommitted, Repair!NoEff
  <1>10. PbCommitted'
    BY <1>1, <1>4, <1>6, <1>8, <1>9 DEF PbCommitted, PbOurs, PbNewest, PbPassed, PbResult,
       Repair!NoCand, Repair!NoFence
  <1> QED
    BY <1>3, <1>5, <1>7, <1>10, PbKeeps DEF PbInv

LEMMA PbCommitsWork == ASSUME PbInv, Repair!Commit PROVE PbInv'
  <1>1. /\ Repair!In("commit")
        /\ UNCHANGED <<up, leader, state, hist, att, cmd, repairs, reqs, rev, cand, tree>>
        /\ \/ /\ eff = Repair!NoEff /\ Repair!To("update", job.b)
              /\ eff' = [st |-> "claimed", at |-> Repair!Live, b |-> job.b]
           \/ /\ eff.st \in {"visible", "confirmed"} /\ eff' = [eff EXCEPT !.st = "confirmed"]
              /\ Repair!To("record", job.b)
           \/ job' = Repair!Idle /\ UNCHANGED eff
    BY DEF Repair!Commit
  <1>2. up = "serving" /\ state = "building" /\ job.pc = "commit" /\ PbOurs(job.b)
    BY <1>1, PbWorking DEF PbStages
  <1>3. CASE /\ eff = Repair!NoEff /\ Repair!To("update", job.b)
             /\ eff' = [st |-> "claimed", at |-> Repair!Live, b |-> job.b]
    BY <1>1, <1>3, PbClaims
  <1>4. CASE /\ eff.st \in {"visible", "confirmed"} /\ eff' = [eff EXCEPT !.st = "confirmed"]
             /\ Repair!To("record", job.b)
    <2>1. eff # Repair!NoEff
      BY <1>4 DEF Repair!NoEff
    <2>2. eff.b = job.b
      BY <1>1, <2>1, PbWorking DEF PbStages
    <2>3. PbStill
      BY <1>1, <1>2 DEF PbStill
    <2> QED
      BY <1>1, <1>2, <1>4, <2>1, <2>2, <2>3, PbConfirms
  <1>5. CASE job' = Repair!Idle /\ UNCHANGED eff
    BY <1>1, <1>2, <1>5, PbGivesUp
  <1> QED
    BY <1>1, <1>3, <1>4, <1>5

\* The branch moves with the claim; no candidate is there yet.
LEMMA PbUpdates == ASSUME PbInv, Repair!UpdateRef PROVE PbInv'
  <1>1. /\ Repair!In("update") /\ eff' = [eff EXCEPT !.st = "visible"]
        /\ tree' = [tree EXCEPT !.head = 0] /\ Repair!To("confirm", job.b)
        /\ UNCHANGED <<up, leader, state, hist, att, cmd, repairs, reqs, rev, cand>>
    BY DEF Repair!UpdateRef
  <1>2. /\ up = "serving" /\ state = "building" /\ job.pc = "update" /\ PbOurs(job.b) /\ job.b \in Nat
        /\ eff.st = "claimed" /\ eff.b = job.b
    BY <1>1, PbWorking DEF PbStages, PbInv, PbJob
  <1>3. job' \in PbJobs /\ job'.pc = "confirm" /\ job'.b = job.b
    BY <1>1, <1>2, PbGoes DEF PbStages
  <1>4. /\ eff' \in PbCommits /\ eff'.st = "visible" /\ eff'.at = eff.at /\ eff'.b = eff.b
        /\ tree' \in PbTrees /\ tree'.head = 0
    BY <1>1 DEF PbInv, PbTyped, PbCommits, PbTrees
  <1>5. PbStill /\ PbTyped'
    BY <1>1, <1>2, <1>3, <1>4 DEF PbStill, PbInv, PbTyped
  <1>6. UNCHANGED <<Repair!Entry, Repair!Finished>>
    BY <1>1, PbReading
  <1>7. PbJob'
    BY <1>1, <1>2, <1>3, <1>4, <1>6 DEF PbJob, PbOurs
  <1>8. eff # Repair!NoEff /\ cand = Repair!NoCand
    BY <1>2 DEF PbInv, PbCommitted, Repair!NoEff
  <1>9. PbCommitted'
    BY <1>1, <1>4, <1>6, <1>8 DEF PbInv, PbCommitted, PbOurs, PbNewest, PbPassed, PbResult,
       Repair!NoCand, Repair!NoFence
  <1> QED
    BY <1>5, <1>7, <1>9, PbKeeps DEF PbInv

LEMMA PbSettles == ASSUME PbInv, Repair!Confirm PROVE PbInv'
  <1>1. /\ Repair!In("confirm")
        /\ UNCHANGED <<up, leader, state, hist, att, cmd, repairs, reqs, rev, cand, tree>>
        /\ \/ eff' = [eff EXCEPT !.st = "confirmed"] /\ Repair!To("record", job.b)
           \/ job' = Repair!Idle /\ UNCHANGED eff
    BY DEF Repair!Confirm
  <1>2. /\ up = "serving" /\ state = "building" /\ job.pc = "confirm" /\ PbOurs(job.b)
        /\ eff.st = "visible" /\ eff.b = job.b /\ eff # Repair!NoEff
    BY <1>1, PbWorking DEF PbStages, PbInv, PbJob, Repair!NoEff
  <1>3. CASE eff' = [eff EXCEPT !.st = "confirmed"] /\ Repair!To("record", job.b)
    <2>1. PbStill
      BY <1>1, <1>2 DEF PbStill
    <2> QED
      BY <1>1, <1>2, <1>3, <2>1, PbConfirms
  <1>4. CASE job' = Repair!Idle /\ UNCHANGED eff
    BY <1>1, <1>2, <1>4, PbGivesUp
  <1> QED
    BY <1>1, <1>3, <1>4

\* A candidate is recorded of the confirmed commit, or bound again as it is.
LEMMA PbRecords ==
    ASSUME PbInv, Repair!RecordCandidate \/ Repair!RebindCandidate
    PROVE  PbInv'
  <1>1. /\ UNCHANGED <<up, leader, state, hist, att, cmd, repairs, reqs, rev, eff, tree>>
        /\ cand' = [b |-> eff.b, at |-> Repair!Live] /\ eff.st = "confirmed"
        /\ Repair!To("signal", eff.b) /\ up = "serving" /\ state = "building" /\ job.pc # "builder"
        /\ PbOurs(eff.b)
    <2>1. CASE Repair!RecordCandidate
      <3>1. Repair!In("record") /\ eff.st = "confirmed" /\ eff.b = job.b
        BY <2>1 DEF Repair!RecordCandidate, Repair!In, PbInv, PbJob
      <3>2. up = "serving" /\ state = "building" /\ PbOurs(job.b) /\ job.pc = "record"
        BY <3>1, PbWorking DEF PbStages
      <3> QED
        BY <2>1, <3>1, <3>2 DEF Repair!RecordCandidate
    <2>2. CASE Repair!RebindCandidate
      <3>1. Repair!Resting /\ Repair!Work = "rebind" /\ up = "serving" /\ job.pc = "idle"
        BY <2>2 DEF Repair!RebindCandidate, Repair!Resting, Repair!Idle
      <3>2. Repair!Lane = "run" /\ cand # Repair!NoCand
        <4>1. Repair!Lane \in {"none", "stop", "review", "run", "dispatch"}
          BY DEF Repair!Lane, Repair!RepairLane
        <4> QED
          BY <3>1, <4>1 DEF Repair!Work
      <3>3. state = "building"
        BY <3>1, <3>2, PbLane
      <3>4. eff.st = "confirmed" /\ eff.b = cand.b /\ eff # Repair!NoEff
        BY <3>2 DEF PbInv, PbCommitted, Repair!NoEff
      <3>5. PbOurs(eff.b)
        BY <3>4 DEF PbInv, PbCommitted
      <3>6. cand' = [cand EXCEPT !.at = Repair!Live] /\ Repair!To("signal", cand.b)
            /\ UNCHANGED <<up, leader, state, hist, att, cmd, repairs, reqs, rev, eff, tree>>
        BY <2>2 DEF Repair!RebindCandidate
      <3>7. cand' = [b |-> eff.b, at |-> Repair!Live]
        BY <3>4, <3>6 DEF PbInv, PbTyped
      <3> QED
        BY <3>1, <3>3, <3>4, <3>5, <3>6, <3>7
    <2> QED
      BY <2>1, <2>2
  <1>2. job' \in PbJobs /\ job'.pc = "signal" /\ job'.b = eff.b
    BY <1>1, PbGoes DEF PbStages, PbInv, PbTyped, PbCommits
  <1>3. PbStill
    BY <1>1 DEF PbStill
  <1>4. PbTyped'
    BY <1>1, <1>2, PbReads DEF PbInv, PbTyped, PbCommits
  <1>5. UNCHANGED <<Repair!Entry, Repair!Finished>>
    BY <1>1, PbReading
  <1>6. PbJob'
    BY <1>1, <1>2, <1>5 DEF PbJob, PbOurs
  <1>7. PbCommitted'
    BY <1>1, <1>5 DEF PbInv, PbCommitted, PbOurs, PbNewest, PbPassed, PbResult, Repair!NoEff,
       Repair!NoFence
  <1> QED
    BY <1>3, <1>4, <1>6, <1>7, PbKeeps DEF PbInv

\* A step that only lets a Builder begin or end, while there is no commit.
LEMMA PbNoCommit ==
    ASSUME PbInv, eff = Repair!NoEff, eff' = eff, cand' = cand
    PROVE  PbCommitted'
  <1>1. cand = Repair!NoCand
    BY DEF PbInv, PbCommitted, Repair!NoEff
  <1> QED
    BY <1>1 DEF PbCommitted, Repair!NoEff, Repair!NoCand, Repair!NoFence

\* A Builder is launched for the newest entry, when no result of it can be reused.
LEMMA PbLaunches == ASSUME PbInv, Repair!LaunchBuilder PROVE PbInv'
  <1> DEFINE new == [at |-> Repair!Live, e |-> Repair!Entry, rev |-> rev, st |-> "running"]
             n == Len(att) + 1
  <1>1. /\ Repair!Resting /\ Repair!Work = "launch" /\ up = "serving" /\ job.pc = "idle"
        /\ att' = Append(att, new) /\ Repair!To("builder", n)
        /\ UNCHANGED <<up, leader, state, hist, cmd, repairs, reqs, rev, eff, cand, tree>>
    BY DEF Repair!LaunchBuilder, Repair!Resting, Repair!Idle
  <1>2. /\ Repair!Lane = "run" /\ state = "building" /\ Repair!Reusable = {} /\ eff = Repair!NoEff
    BY <1>1, PbWork, PbLane
  <1>3. /\ new \in PbAttempts /\ new.e = Repair!Entry /\ new.at.i = Len(hist) /\ new.rev = rev
        /\ new.st = "running"
    BY PbReads, PbEntry DEF PbInv, PbTyped, PbAttempts
  <1> HIDE DEF new
  <1>4. /\ att' \in Seq(PbAttempts) /\ Len(att') = n /\ DOMAIN att' = 1 .. n
        /\ \A b \in DOMAIN att : b \in DOMAIN att' /\ att'[b] = att[b] /\ b < n
        /\ att'[n] = new /\ n \in Nat /\ n > 0
        /\ \A b \in DOMAIN att' : b \in DOMAIN att \/ b = n
    <2>1. att \in Seq(PbAttempts) /\ Len(att) \in Nat /\ DOMAIN att = 1 .. Len(att)
      BY PbReads DEF PbInv, PbTyped
    <2> QED
      BY <1>1, <1>3, <2>1, AppendProperties
  <1> HIDE DEF n
  <1>5. job' \in PbJobs /\ job'.pc = "builder" /\ job'.b = n
    BY <1>1, <1>4, PbGoes DEF PbStages
  <1>6. /\ UNCHANGED <<Repair!Entries, Repair!Entry, Repair!Decisions, Repair!Bound,
                       Repair!Repaired, Repair!LastRepair>>
    <2>1. UNCHANGED <<Repair!Decisions, Repair!Bound, Repair!Repaired, Repair!LastRepair>>
      BY <1>1 DEF Repair!Decisions, Repair!Bound, Repair!Repaired, Repair!LastRepair
    <2>2. UNCHANGED Repair!Entries
      BY <1>1, <2>1 DEF Repair!Entries
    <2> QED
      BY <2>1, <2>2 DEF Repair!Entry
  <1>7. Repair!Repaired
    <2>1. SUFFICES ASSUME ~Repair!Repaired PROVE 1 \in Repair!Reusable
      BY <1>2
    <2>2. Repair!Finished = {1} /\ 1 \in DOMAIN att
      BY <2>1, PbReads DEF PbInv, PbAttempted, Repair!Finished
    <2> QED
      BY <2>1, <2>2 DEF Repair!Reusable, Repair!AfterRepair
  <1>8. PbHistory'
    BY <1>1, <1>4, <1>6 DEF PbInv, PbHistory
  <1>9. PbAttempted'
    <2>1. \A b \in DOMAIN att : att[b].st # "running"
      BY <1>1 DEF PbInv, PbAttempted
    <2>2. ASSUME NEW b \in DOMAIN att'
          PROVE  /\ att'[b].e \in Repair!Entries /\ att'[b].e <= att'[b].at.i /\ att'[b].at.i <= Len(hist)
                 /\ \A i \in Repair!Entries : i <= att'[b].at.i => i <= att'[b].e
                 /\ att'[b].e = Repair!Entry => att'[b].rev = rev
                 /\ att'[b].st = "running" => job'.pc = "builder" /\ job'.b = b /\ b = Len(att')
      <3>1. CASE b \in DOMAIN att
        BY <1>4, <2>1, <3>1 DEF PbInv, PbAttempted
      <3>2. CASE b = n
        BY <1>3, <1>4, <1>5, <3>2, PbEntry, PbReads DEF PbInv
      <3> QED
        BY <1>4, <3>1, <3>2
    <2> QED
      BY <1>1, <1>6, <1>7, <2>2 DEF PbAttempted
  <1>10. PbJob'
    BY <1>1, <1>2, <1>3, <1>4, <1>5, <1>6 DEF PbJob, PbOurs, Repair!NoEff, Repair!NoFence
  <1>11. PbTyped'
    BY <1>1, <1>4, <1>5 DEF PbInv, PbTyped
  <1> QED
    BY <1>1, <1>2, <1>8, <1>9, <1>10, <1>11, PbNoCommit DEF PbInv

\* Its end says what it did; whatever that is, it is the newest attempt.
LEMMA PbEnds == ASSUME PbInv, Repair!BuilderEnds PROVE PbInv'
  <1>1. PICK st \in {"done", "amend", "failed"} :
           /\ att' = [att EXCEPT ![job.b].st = st]
           /\ tree' = IF st = "failed" THEN tree ELSE [tree EXCEPT !.b = job.b, !.whole = TRUE]
           /\ CASE st = "done"  -> Repair!To("materialize", job.b)
                [] st = "amend" -> Repair!To("request", job.b)
                [] OTHER        -> job' = Repair!Idle
    BY DEF Repair!BuilderEnds
  <1>2. /\ Repair!In("builder")
        /\ UNCHANGED <<up, leader, state, hist, cmd, repairs, reqs, rev, eff, cand>>
    BY DEF Repair!BuilderEnds
  <1>3. /\ up = "serving" /\ state = "building" /\ job.pc = "builder" /\ PbOurs(job.b) /\ job.b \in Nat
        /\ job.b = Len(att) /\ att[job.b].st = "running" /\ eff = Repair!NoEff /\ job.b \in DOMAIN att
    BY <1>2, PbWorking DEF PbStages, PbInv, PbJob
  <1>4. /\ job' \in PbJobs /\ job'.pc \in {"materialize", "request", "idle"}
        /\ job'.pc # "idle" => job'.b = job.b
        /\ job'.pc = "materialize" => st = "done"
        /\ job'.pc = "request" => st = "amend"
    BY <1>1, <1>3, PbGoes DEF PbStages
  <1>5. tree' \in PbTrees
    BY <1>1, <1>3 DEF PbInv, PbTyped, PbTrees
  <1>6. /\ att' \in Seq(PbAttempts) /\ Len(att') = Len(att) /\ DOMAIN att' = DOMAIN att
        /\ att'[job.b].st = st
        /\ \A b \in DOMAIN att : /\ att'[b].e = att[b].e /\ att'[b].at = att[b].at /\ att'[b].rev = att[b].rev
                                 /\ b # job.b => att'[b] = att[b]
    <2>1. att \in Seq(PbAttempts) /\ att[job.b] \in PbAttempts
      BY <1>3, PbReads DEF PbInv, PbTyped
    <2>2. [att[job.b] EXCEPT !.st = st] \in PbAttempts
      BY <2>1 DEF PbAttempts
    <2>3. att' = [att EXCEPT ![job.b] = [att[job.b] EXCEPT !.st = st]]
      BY <1>1
    <2>4. att'[job.b] = [att[job.b] EXCEPT !.st = st] /\ \A b \in DOMAIN att : b # job.b => att'[b] = att[b]
      BY <1>3, <2>3
    <2>5. att' \in Seq(PbAttempts) /\ Len(att') = Len(att) /\ DOMAIN att' = DOMAIN att
      BY <1>3, <2>1, <2>2, <2>3
    <2>6. /\ att'[job.b].st = st /\ att'[job.b].e = att[job.b].e /\ att'[job.b].at = att[job.b].at
          /\ att'[job.b].rev = att[job.b].rev
      BY <2>1, <2>4 DEF PbAttempts
    <2> QED
      BY <2>4, <2>5, <2>6
  <1>7. /\ UNCHANGED <<Repair!Entries, Repair!Entry, Repair!Decisions, Repair!Bound,
                       Repair!Repaired, Repair!LastRepair>>
    <2>1. UNCHANGED <<Repair!Decisions, Repair!Bound, Repair!Repaired, Repair!LastRepair>>
      BY <1>2 DEF Repair!Decisions, Repair!Bound, Repair!Repaired, Repair!LastRepair
    <2>2. UNCHANGED Repair!Entries
      BY <1>2, <2>1 DEF Repair!Entries
    <2> QED
      BY <2>1, <2>2 DEF Repair!Entry
  <1>8. Repair!Repaired
    BY <1>3, PbFirst
  <1>9. PbHistory'
    <2>1. \A k \in DOMAIN repairs : /\ repairs[k].b \in DOMAIN att' /\ att'[repairs[k].b].st = "done"
                                    /\ att'[repairs[k].b].e < repairs[k].e
      <3>1. \A k \in DOMAIN repairs : /\ repairs[k].b \in DOMAIN att /\ att[repairs[k].b].st = "done"
                                      /\ att[repairs[k].b].e < repairs[k].e
        BY DEF PbInv, PbHistory
      <3> QED
        BY <1>3, <1>6, <3>1
    <2> QED
      BY <1>2, <1>7, <2>1 DEF PbInv, PbHistory
  <1>10. PbAttempted'
    <2>1. \A b \in DOMAIN att : att'[b].st # "running"
      BY <1>1, <1>3, <1>6 DEF PbInv, PbAttempted
    <2> QED
      BY <1>2, <1>6, <1>7, <1>8, <2>1 DEF PbInv, PbAttempted
  <1>11. PbJob'
    <2>1. ASSUME job'.pc = "materialize" PROVE PbNewest(job.b)'
      <3>1. job'.b = job.b /\ att'[job.b].st = "done" /\ job.b \in DOMAIN att'
        BY <1>3, <1>4, <1>6, <2>1
      <3>2. \A c \in Repair!Finished' : c \in DOMAIN att
        BY <1>6 DEF Repair!Finished
      <3>3. \A c \in DOMAIN att : c <= job.b
        BY <1>3, PbReads DEF PbInv
      <3> QED
        BY <3>1, <3>2, <3>3 DEF PbNewest, Repair!Finished
    <2> QED
      BY <1>2, <1>3, <1>4, <1>6, <1>7, <2>1 DEF PbJob, PbOurs, PbNewest, Repair!NoEff, Repair!NoFence
  <1>12. PbTyped'
    BY <1>2, <1>4, <1>5, <1>6 DEF PbInv, PbTyped
  <1> QED
    BY <1>2, <1>3, <1>9, <1>10, <1>11, <1>12, PbNoCommit DEF PbInv

\* A version is added; those that were there stay.
LEMMA PbAppends ==
    ASSUME PbTyped, NEW v \in PbVersions, hist' = Append(hist, v)
    PROVE  /\ hist' \in Seq(PbVersions) /\ Len(hist') = Len(hist) + 1
           /\ hist'[1] = hist[1] /\ hist'[Len(hist) + 1] = v
           /\ \A i \in DOMAIN hist : i \in DOMAIN hist' /\ hist'[i] = hist[i] /\ i < Len(hist) + 1
           /\ \A i \in DOMAIN hist' : i \in DOMAIN hist \/ i = Len(hist) + 1
           /\ Len(hist) + 1 \in DOMAIN hist'
  <1>1. hist \in Seq(PbVersions) /\ Len(hist) \in Nat /\ Len(hist) > 0 /\ DOMAIN hist = 1 .. Len(hist)
    BY PbReads DEF PbTyped
  <1>2. /\ hist' \in Seq(PbVersions) /\ Len(hist') = Len(hist) + 1
        /\ \A i \in 1 .. Len(hist) : hist'[i] = hist[i]
        /\ hist'[Len(hist) + 1] = v
    BY <1>1, AppendProperties
  <1>3. DOMAIN hist' = 1 .. Len(hist) + 1
    BY <1>1, <1>2
  <1> QED
    BY <1>1, <1>2, <1>3

\* A version that opens no entry leaves every attempt where it belongs.
LEMMA PbSameEntry ==
    ASSUME PbInv, NEW v \in PbVersions, v.t \in {"row", "request"}, hist' = Append(hist, v),
           UNCHANGED <<att, rev, repairs>>, job.pc # "builder"
    PROVE  /\ UNCHANGED <<Repair!Decisions, Repair!Entries, Repair!Entry, Repair!Finished,
                          Repair!Repaired, Repair!LastRepair>>
           /\ PbAttempted'
  <1> DEFINE n == Len(hist) + 1
  <1>1. /\ \A i \in DOMAIN hist : i \in DOMAIN hist' /\ hist'[i] = hist[i]
        /\ \A i \in DOMAIN hist' : i \in DOMAIN hist \/ i = n
        /\ hist'[n] = v /\ Len(hist') = n /\ Len(hist) \in Nat
    BY PbAppends, PbReads DEF PbInv
  <1> HIDE DEF n
  <1>2. UNCHANGED Repair!Decisions
    <2>1. \A i \in DOMAIN hist' : hist'[i].t \in {"accepted", "rejected"} => i \in Repair!Decisions
      BY <1>1 DEF Repair!Decisions
    <2> QED
      BY <1>1, <2>1 DEF Repair!Decisions
  <1>3. UNCHANGED Repair!Entries
    <2>1. \A i \in DOMAIN hist' : hist'[i].t \in {"built", "repair"} => i \in Repair!Entries
      BY <1>1 DEF Repair!Entries
    <2> QED
      BY <1>1, <1>2, <2>1 DEF Repair!Entries
  <1>4. UNCHANGED <<Repair!Entry, Repair!Finished, Repair!Repaired, Repair!LastRepair>>
    BY <1>3 DEF Repair!Entry, Repair!Finished, Repair!Repaired, Repair!LastRepair
  <1>5. PbAttempted'
    <2>1. \A b \in DOMAIN att : att[b].st # "running"
      BY DEF PbInv, PbAttempted
    <2>2. \A b \in DOMAIN att : att[b].at.i <= n
      BY <1>1, PbReads DEF PbInv, PbAttempted, n
    <2> QED
      BY <1>1, <1>3, <1>4, <2>1, <2>2 DEF PbInv, PbAttempted
  <1> QED
    BY <1>2, <1>3, <1>4, <1>5

\* A version that opens an entry leaves every attempt behind.
LEMMA PbNewEntry ==
    ASSUME PbInv, NEW v \in PbVersions, v.t \in {"repair", "accepted", "rejected"},
           hist' = Append(hist, v), UNCHANGED att, job.pc # "builder", Repair!Repaired'
    PROVE  /\ Repair!Entry' = Len(hist) + 1
           /\ PbAttempted'
  <1> DEFINE n == Len(hist) + 1
  <1>1. /\ \A i \in DOMAIN hist : i \in DOMAIN hist' /\ hist'[i] = hist[i] /\ i < n
        /\ \A i \in DOMAIN hist' : i \in DOMAIN hist \/ i = n
        /\ hist'[n] = v /\ Len(hist') = n /\ n \in DOMAIN hist' /\ n \in Nat
        /\ \A i \in DOMAIN hist : i \in Nat
    BY PbAppends, PbReads DEF PbInv
  <1> HIDE DEF n
  <1>2. Repair!Entries' = Repair!Entries \cup {n}
    BY <1>1 DEF Repair!Entries, Repair!Decisions
  <1>3. \A i \in Repair!Entries : i \in Nat /\ i < n
    BY <1>1 DEF Repair!Entries, Repair!Decisions
  <1>4. Repair!Entry' = n
    <2>1. Repair!Entries' \in SUBSET (0 .. n) /\ Repair!Entries' # {}
      BY <1>1, <1>2, <1>3
    <2>2. /\ Repair!Latest(Repair!Entries') \in Repair!Entries'
          /\ \A y \in Repair!Entries' : y <= Repair!Latest(Repair!Entries')
      BY <1>1, <2>1, PbLatest
    <2> DEFINE e == Repair!Latest(Repair!Entries')
    <2>3. Repair!Entry' = e
      BY DEF Repair!Entry, Repair!Latest
    <2>4. e \in Repair!Entries \cup {n} /\ n <= e
      BY <1>2, <2>2
    <2> HIDE DEF e
    <2>5. e = n
      BY <1>1, <1>3, <2>4
    <2> QED
      BY <2>3, <2>5
  <1>5. PbAttempted'
    <2>1. \A b \in DOMAIN att : att[b].st # "running"
      BY DEF PbInv, PbAttempted
    <2>2. ASSUME NEW b \in DOMAIN att
          PROVE  /\ att[b].e \in Repair!Entries' /\ att[b].e <= att[b].at.i /\ att[b].at.i <= n
                 /\ \A i \in Repair!Entries' : i <= att[b].at.i => i <= att[b].e
                 /\ att[b].e # n
      <3>1. /\ att[b].e \in Repair!Entries /\ att[b].e <= att[b].at.i /\ att[b].at.i < n
            /\ att[b].at.i \in Nat /\ att[b].e \in Nat
            /\ \A i \in Repair!Entries : i <= att[b].at.i => i <= att[b].e
        BY PbReads DEF PbInv, PbAttempted, n
      <3> QED
        BY <1>1, <1>2, <1>3, <3>1
    <2> QED
      BY <1>1, <1>4, <2>1, <2>2 DEF PbAttempted
  <1> QED
    BY <1>4, <1>5 DEF n

\* A ticket that gives up waits for the operator.
LEMMA PbBlocks ==
    ASSUME PbInv, UNCHANGED <<leader, hist, att, cmd, repairs, reqs, rev, eff, cand, tree>>,
           job.pc # "builder", state' = "blocked", job' = Repair!Idle
    PROVE  PbInv'
  <1>1. job'.pc = "idle" /\ job' \in PbJobs
    BY PbGoes
  <1>2. PbStill /\ PbTyped'
    BY <1>1 DEF PbStill, PbInv, PbTyped
  <1> QED
    BY <1>1, <1>2, PbKeeps, PbKeepsCommit, PbRests DEF PbInv

\* A repair answers one failed command of the newest entry, while nothing is committed.
LEMMA PbFixes ==
    ASSUME PbInv, Repair!In("repair"), Repair!AuthenticFailure(job.b), tree.head = rev,
           Repair!Append1("repair"),
           repairs' = Append(repairs, [e |-> Len(hist) + 1, at |-> Repair!Live, b |-> job.b,
                                       rev |-> rev, tree |-> tree]),
           job' = Repair!Idle,
           UNCHANGED <<state, leader, att, cmd, reqs, rev, eff, cand, tree>>
    PROVE  PbInv'
  <1> DEFINE r == [e |-> Len(hist) + 1, at |-> Repair!Live, b |-> job.b, rev |-> rev, tree |-> tree]
             v == [t |-> "repair", l |-> leader, pl |-> 0]
             m == Len(repairs) + 1
             n == Len(hist) + 1
  <1>1. /\ state = "building" /\ job.pc = "repair" /\ job.b \in Nat /\ job.b \in DOMAIN att
        /\ att[job.b].e = Repair!Entry /\ att[job.b].st = "done"
    BY PbWorking DEF PbStages, PbInv, PbJob, PbOurs
  <1>2. eff = Repair!NoEff
    <2>1. eff.st \notin {"claimed", "visible", "confirmed"}
      <3>1. tree.head # 0
        BY DEF PbInv, PbTyped
      <3> QED
        BY <3>1 DEF Repair!AuthenticFailure, PbInv, PbCommitted
    <2> QED
      BY <2>1 DEF PbInv, PbTyped, PbCommits, PbCommitted
  <1>3. v \in PbVersions /\ v.t = "repair" /\ hist' = Append(hist, v)
    BY DEF PbInv, PbTyped, PbVersions, PbKinds, Repair!Append1
  <1>4. r \in PbRepairs /\ r.e = n /\ r.b = job.b
    BY <1>1, PbReads DEF PbInv, PbTyped, PbRepairs
  <1> HIDE DEF v, r
  <1>5. /\ hist' \in Seq(PbVersions) /\ Len(hist') = n /\ hist'[1] = hist[1] /\ hist'[n] = v
        /\ \A i \in DOMAIN hist : i \in DOMAIN hist' /\ hist'[i] = hist[i] /\ i < n
        /\ \A i \in DOMAIN hist' : i \in DOMAIN hist \/ i = n
        /\ n \in DOMAIN hist' /\ n \in Nat /\ \A i \in DOMAIN hist : i \in Nat
    BY <1>3, PbAppends, PbReads DEF PbInv
  <1>6. /\ repairs' \in Seq(PbRepairs) /\ Len(repairs') = m /\ DOMAIN repairs' = 1 .. m
        /\ \A k \in DOMAIN repairs : repairs'[k] = repairs[k]
        /\ \A k \in DOMAIN repairs' : k \in DOMAIN repairs \/ k = m
        /\ repairs'[m] = r /\ m \in Nat /\ m > 0
    <2>1. repairs \in Seq(PbRepairs) /\ Len(repairs) \in Nat /\ DOMAIN repairs = 1 .. Len(repairs)
      BY PbReads DEF PbInv, PbTyped
    <2>2. repairs' = Append(repairs, r)
      BY DEF r
    <2> QED
      BY <1>4, <2>1, <2>2, AppendProperties
  <1> HIDE DEF m
  <1>7. Repair!Repaired' /\ Repair!LastRepair' = r
    BY <1>6 DEF Repair!Repaired, Repair!LastRepair
  <1>8. PbAttempted'
    BY <1>1, <1>3, <1>7, PbNewEntry
  <1>9. \A k \in DOMAIN repairs : /\ repairs[k].e \in DOMAIN hist /\ hist[repairs[k].e].t = "repair"
                                  /\ repairs[k].b \in DOMAIN att /\ att[repairs[k].b].st = "done"
                                  /\ att[repairs[k].b].e < repairs[k].e /\ repairs[k].b # job.b
    <2> SUFFICES ASSUME NEW k \in DOMAIN repairs
                 PROVE  /\ repairs[k].e \in DOMAIN hist /\ hist[repairs[k].e].t = "repair"
                        /\ repairs[k].b \in DOMAIN att /\ att[repairs[k].b].st = "done"
                        /\ att[repairs[k].b].e < repairs[k].e /\ repairs[k].b # job.b
      OBVIOUS
    <2>1. /\ repairs[k].e \in DOMAIN hist /\ hist[repairs[k].e].t = "repair"
          /\ repairs[k].b \in DOMAIN att /\ att[repairs[k].b].st = "done"
          /\ att[repairs[k].b].e < repairs[k].e
      BY DEF PbInv, PbHistory
    <2>2. repairs[k].e <= Repair!Entry /\ repairs[k].e \in Nat /\ Repair!Entry \in Nat
      BY <2>1, PbEntry, PbReads DEF PbInv, Repair!Entries
    <2>3. repairs[k].b # job.b
      BY <1>1, <2>1, <2>2
    <2> QED
      BY <2>1, <2>3
  <1>10. PbHistory'
    <2>1. \A i \in DOMAIN hist' : hist'[i].t = "built" => i = 1
      BY <1>3, <1>5 DEF PbInv, PbHistory
    <2>2. \A i \in DOMAIN hist' : i <= n
      BY <1>5
    <2>3. \A k \in DOMAIN repairs' :
             /\ repairs'[k].e \in DOMAIN hist' /\ hist'[repairs'[k].e].t = "repair"
             /\ repairs'[k].b \in DOMAIN att /\ att[repairs'[k].b].st = "done"
             /\ att[repairs'[k].b].e < repairs'[k].e
      <3>1. att[job.b].e < n
        BY <1>1, PbEntry, PbReads DEF PbInv
      <3>2. \A k \in DOMAIN repairs :
               /\ repairs'[k].e \in DOMAIN hist' /\ hist'[repairs'[k].e].t = "repair"
               /\ repairs'[k].b \in DOMAIN att /\ att[repairs'[k].b].st = "done"
               /\ att[repairs'[k].b].e < repairs'[k].e
        BY <1>5, <1>6, <1>9
      <3>3. /\ repairs'[m].e \in DOMAIN hist' /\ hist'[repairs'[m].e].t = "repair"
            /\ repairs'[m].b \in DOMAIN att /\ att[repairs'[m].b].st = "done"
            /\ att[repairs'[m].b].e < repairs'[m].e
        BY <1>1, <1>3, <1>4, <1>5, <1>6, <3>1
      <3> QED
        BY <1>6, <3>2, <3>3
    <2>4. \A j, k \in DOMAIN repairs' : repairs'[j].b = repairs'[k].b => j = k
      <3>1. \A j, k \in DOMAIN repairs : repairs[j].b = repairs[k].b => j = k
        BY DEF PbInv, PbHistory
      <3> QED
        BY <1>4, <1>6, <1>9, <3>1
    <2>5. Repair!Bound' = Repair!Bound
      BY DEF Repair!Bound
    <2>6. Repair!Decisions' = Repair!Decisions
      <3>1. \A i \in DOMAIN hist' : hist'[i].t \in {"accepted", "rejected"} => i \in DOMAIN hist
        BY <1>3, <1>5
      <3> QED
        BY <1>5, <3>1 DEF Repair!Decisions
    <2> QED
      BY <1>4, <1>7, <2>1, <2>2, <2>3, <2>4, <2>5, <2>6 DEF PbInv, PbHistory
  <1>11. job'.pc = "idle" /\ job' \in PbJobs
    BY PbGoes
  <1>12. PbTyped'
    BY <1>5, <1>6, <1>11 DEF PbInv, PbTyped
  <1> QED
    BY <1>2, <1>8, <1>10, <1>11, <1>12, PbNoCommit, PbRests DEF PbInv

LEMMA PbTransits == ASSUME PbInv, Repair!TransitionPostbuildRepair PROVE PbInv'
  <1>1. /\ Repair!In("repair") /\ job.pc # "builder" /\ job' = Repair!Idle
        /\ UNCHANGED <<leader, att, cmd, reqs, rev, eff, cand, tree>>
    BY DEF Repair!TransitionPostbuildRepair, Repair!In
  <1>2. CASE /\ Repair!AuthenticFailure(job.b) /\ tree.head = rev
             /\ Repair!Append1("repair") /\ UNCHANGED state
             /\ repairs' = Append(repairs, [e |-> Len(hist) + 1, at |-> Repair!Live, b |-> job.b,
                                            rev |-> rev, tree |-> tree])
    BY <1>1, <1>2, PbFixes
  <1>3. CASE state' = "blocked" /\ UNCHANGED <<hist, repairs>>
    BY <1>1, <1>3, PbBlocks
  <1> QED
    BY <1>2, <1>3 DEF Repair!TransitionPostbuildRepair

\* A request under a repair is bound to it, so a repaired ticket that verifies has a snapshot.
LEMMA PbAsks ==
    ASSUME PbInv, NEW b \in Nat, Repair!Request(b), eff = Repair!NoEff, Repair!Repaired,
           job.pc # "builder"
    PROVE  PbInv'
  <1> DEFINE bound == Repair!Repaired /\ Repair!Entry = Repair!LastRepair.e
             q == [v |-> Len(hist) + 1, at |-> Repair!Live, b |-> b, bound |-> bound,
                   r |-> IF bound THEN Repair!LastRepair.e ELSE 0, tree |-> tree]
             v == [t |-> "request", l |-> leader, pl |-> 0]
             m == Len(reqs) + 1
             n == Len(hist) + 1
  <1>1. /\ job' = Repair!Idle /\ UNCHANGED <<up, leader, att, cmd, repairs, rev, eff, cand, tree>>
        /\ \/ hist' = Append(hist, v) /\ state' = "verifying" /\ reqs' = Append(reqs, q)
           \/ state' = "blocked" /\ UNCHANGED <<hist, reqs>>
    BY DEF Repair!Request, Repair!Append1
  <1>2. CASE state' = "blocked" /\ UNCHANGED <<hist, reqs>>
    BY <1>1, <1>2, PbBlocks
  <1>3. CASE hist' = Append(hist, v) /\ state' = "verifying" /\ reqs' = Append(reqs, q)
    <2>1. v \in PbVersions /\ v.t = "request"
      BY DEF PbInv, PbTyped, PbVersions, PbKinds
    <2>2. q \in PbRequests /\ q.bound = bound
      <3>1. Repair!LastRepair.e \in Nat
        BY PbRepaired, PbEntry DEF PbInv
      <3>2. bound \in BOOLEAN
        OBVIOUS
      <3> HIDE DEF bound
      <3> QED
        BY <3>1, <3>2, PbReads DEF PbInv, PbTyped, PbRequests
    <2> HIDE DEF v, q
    <2>3. /\ hist' \in Seq(PbVersions) /\ Len(hist') = n /\ hist'[1] = hist[1] /\ hist'[n] = v
          /\ \A i \in DOMAIN hist : i \in DOMAIN hist' /\ hist'[i] = hist[i] /\ i < n
          /\ \A i \in DOMAIN hist' : i \in DOMAIN hist \/ i = n
          /\ n \in DOMAIN hist' /\ n \in Nat
      BY <1>3, <2>1, PbAppends, PbReads DEF PbInv
    <2>4. /\ reqs' \in Seq(PbRequests) /\ \A k \in DOMAIN reqs : k \in DOMAIN reqs' /\ reqs'[k] = reqs[k]
          /\ reqs'[m] = q /\ m \in DOMAIN reqs'
      <3>1. reqs \in Seq(PbRequests) /\ Len(reqs) \in Nat /\ DOMAIN reqs = 1 .. Len(reqs)
        BY PbReads DEF PbInv, PbTyped
      <3>2. /\ reqs' \in Seq(PbRequests) /\ Len(reqs') = m /\ reqs'[m] = q
            /\ \A k \in 1 .. Len(reqs) : reqs'[k] = reqs[k]
        BY <1>3, <2>2, <3>1, AppendProperties
      <3>3. DOMAIN reqs' = 1 .. m
        BY <3>1, <3>2
      <3> QED
        BY <3>1, <3>2, <3>3
    <2> HIDE DEF m, n
    <2>5. /\ UNCHANGED <<Repair!Decisions, Repair!Repaired, Repair!LastRepair>> /\ PbAttempted'
      BY <1>1, <1>3, <2>1, PbSameEntry
    <2>6. Repair!Bound' # {}
      <3>1. CASE bound
        BY <2>2, <2>4, <3>1 DEF Repair!Bound
      <3>2. CASE ~bound
        <4>1. Repair!Bound # {}
          <5>1. SUFFICES ASSUME Repair!Bound = {} PROVE bound
            BY <3>2
          <5>2. Repair!Decisions = {} /\ Repair!Entry \in DOMAIN hist
            BY <5>1, PbEntry DEF PbInv, PbHistory, Repair!Entries, Repair!Decisions
          <5>3. hist[Repair!Entry].t \notin {"accepted", "rejected"}
            BY <5>2 DEF Repair!Decisions
          <5> QED
            BY <5>3, PbRepaired
        <4> QED
          BY <2>4, <4>1 DEF Repair!Bound
      <3> QED
        BY <3>1, <3>2
    <2>7. PbHistory'
      <3>1. \A i \in DOMAIN hist' : hist'[i].t \in {"built", "repair"} => i \in DOMAIN hist
        BY <2>1, <2>3
      <3> QED
        BY <1>1, <2>3, <2>5, <2>6, <3>1 DEF PbInv, PbHistory
    <2>8. job'.pc = "idle" /\ job' \in PbJobs
      BY <1>1, PbGoes
    <2>9. PbTyped'
      BY <1>1, <2>3, <2>4, <2>8 DEF PbInv, PbTyped
    <2> QED
      BY <1>1, <2>5, <2>7, <2>8, <2>9, PbNoCommit, PbRests DEF PbInv
  <1> QED
    BY <1>1, <1>2, <1>3

LEMMA PbRequestsIt ==
    ASSUME PbInv, Repair!RequestAmendment \/ Repair!DispatchAmendment PROVE PbInv'
  <1>1. CASE Repair!RequestAmendment
    <2>1. Repair!In("request") /\ Repair!Request(job.b)
      BY <1>1 DEF Repair!RequestAmendment
    <2>2. /\ job.pc = "request" /\ job.b \in Nat /\ job.b \in DOMAIN att /\ att[job.b].st = "amend"
          /\ eff = Repair!NoEff
      BY <2>1, PbWorking DEF PbStages, PbInv, PbJob
    <2> QED
      BY <2>1, <2>2, PbFirst, PbAsks
  <1>2. CASE Repair!DispatchAmendment
    <2> DEFINE n == Len(att)
    <2>1. Repair!Resting /\ Repair!Work = "dispatch" /\ Repair!Request(n) /\ job.pc = "idle"
      BY <1>2 DEF Repair!DispatchAmendment, Repair!Resting, Repair!Idle
    <2>2. Repair!Lane = "dispatch"
      BY <2>1 DEF Repair!Work
    <2>3. Repair!RepairLane = "dispatch"
      BY <2>2 DEF Repair!Lane
    <2>4. n \in Repair!Finished /\ att[n].st = "amend"
      BY <2>3 DEF Repair!RepairLane
    <2>5. n \in DOMAIN att /\ n \in Nat /\ \A b \in DOMAIN att : b \in Nat /\ b <= n
      BY PbReads DEF PbInv
    <2>6. eff = Repair!NoEff
      <3>1. SUFFICES ASSUME eff # Repair!NoEff PROVE FALSE
        OBVIOUS
      <3>2. eff.b \in DOMAIN att /\ n <= eff.b /\ att[eff.b].st = "done"
        BY <2>4, <3>1 DEF PbInv, PbCommitted, PbNewest, Repair!Finished
      <3>3. eff.b = n
        BY <2>5, <3>2
      <3> QED
        BY <2>4, <3>2, <3>3
    <2> HIDE DEF n
    <2> QED
      BY <2>1, <2>4, <2>5, <2>6, PbFirst, PbAsks
  <1> QED
    BY <1>1, <1>2

\* A decision opens an entry under the proof it leaves; while a ticket verifies nothing is committed.
LEMMA PbDecides == ASSUME PbInv, Repair!Decide PROVE PbInv'
  <1>1. PICK t \in {"accepted", "rejected"} :
           /\ Repair!Append1(t) /\ rev' = IF t = "accepted" THEN rev + 1 ELSE rev
           /\ tree' = [tree EXCEPT !.head = rev']
    BY DEF Repair!Decide
  <1>2. /\ Repair!Resting /\ Repair!Work = "review" /\ job.pc = "idle" /\ state' = "building"
        /\ UNCHANGED <<up, leader, att, cmd, repairs, reqs, eff, cand, job>>
    BY DEF Repair!Decide, Repair!Resting, Repair!Idle
  <1>3. Repair!Lane = "review"
    BY <1>2 DEF Repair!Work
  <1>4. Repair!AmendmentContext = "pending"
    BY <1>3 DEF Repair!Lane, Repair!RepairLane
  <1>5. Repair!Bound # {} /\ state = "verifying"
    BY <1>4 DEF Repair!AmendmentContext
  <1>6. eff = Repair!NoEff /\ Repair!Repaired
    BY <1>5 DEF PbInv, PbCommitted, PbHistory
  <1> DEFINE v == [t |-> t, l |-> leader, pl |-> 0]
             n == Len(hist) + 1
  <1>7. v \in PbVersions /\ v.t = t /\ hist' = Append(hist, v)
    BY <1>1 DEF PbInv, PbTyped, PbVersions, PbKinds, Repair!Append1
  <1> HIDE DEF v
  <1>8. /\ hist' \in Seq(PbVersions) /\ Len(hist') = n /\ hist'[1] = hist[1] /\ hist'[n] = v
        /\ \A i \in DOMAIN hist : i \in DOMAIN hist' /\ hist'[i] = hist[i] /\ i < n
        /\ \A i \in DOMAIN hist' : i \in DOMAIN hist \/ i = n
        /\ n \in DOMAIN hist' /\ n \in Nat
    BY <1>7, PbAppends, PbReads DEF PbInv
  <1>9. /\ Repair!Repaired' /\ Repair!LastRepair' = Repair!LastRepair /\ Repair!Bound' = Repair!Bound
    BY <1>2, <1>6 DEF Repair!Repaired, Repair!LastRepair, Repair!Bound
  <1>10. PbAttempted'
    BY <1>2, <1>7, <1>9, PbNewEntry
  <1>11. PbHistory'
    <2>1. \A i \in DOMAIN hist' : hist'[i].t \in {"built", "repair"} => i \in DOMAIN hist
      BY <1>7, <1>8
    <2> QED
      BY <1>2, <1>5, <1>8, <1>9, <2>1 DEF PbInv, PbHistory
  <1>12. rev' \in Nat \ {0} /\ tree' \in PbTrees
    <2>1. rev' \in Nat \ {0}
      BY <1>1 DEF PbInv, PbTyped
    <2> QED
      BY <1>1, <2>1 DEF PbInv, PbTyped, PbTrees
  <1>13. PbTyped'
    BY <1>2, <1>8, <1>12 DEF PbInv, PbTyped
  <1> QED
    BY <1>2, <1>6, <1>10, <1>11, <1>13, PbNoCommit, PbRests DEF PbInv

\* The death of the daemon ends the Builder that ran; every finished one stays what it was.
LEMMA PbCrashes == ASSUME PbInv, Repair!Crash PROVE PbInv'
  <1>1. /\ UNCHANGED <<leader, state, hist, cmd, repairs, reqs, rev, eff, cand, tree>>
        /\ job' = Repair!Idle
        /\ att' = [b \in DOMAIN att |->
                      IF att[b].st = "running" THEN [att[b] EXCEPT !.st = "failed"] ELSE att[b]]
    BY DEF Repair!Crash
  <1>2. DOMAIN att' = DOMAIN att
    BY <1>1
  <1>3. \A b \in DOMAIN att :
           /\ att'[b] \in PbAttempts /\ att'[b].e = att[b].e /\ att'[b].at = att[b].at
           /\ att'[b].rev = att[b].rev /\ att'[b].st # "running"
           /\ att[b].st # "running" => att'[b].st = att[b].st
           /\ att'[b].st \in {"done", "amend"} <=> att[b].st \in {"done", "amend"}
    <2> SUFFICES ASSUME NEW b \in DOMAIN att
                 PROVE  /\ att'[b] \in PbAttempts /\ att'[b].e = att[b].e /\ att'[b].at = att[b].at
                        /\ att'[b].rev = att[b].rev /\ att'[b].st # "running"
                        /\ att[b].st # "running" => att'[b].st = att[b].st
                        /\ att'[b].st \in {"done", "amend"} <=> att[b].st \in {"done", "amend"}
      OBVIOUS
    <2>1. att'[b] = IF att[b].st = "running" THEN [att[b] EXCEPT !.st = "failed"] ELSE att[b]
      BY <1>1
    <2>2. att[b] \in PbAttempts
      BY PbReads DEF PbInv
    <2> QED
      BY <2>1, <2>2 DEF PbAttempts
  <1>4. att' \in Seq(PbAttempts) /\ Len(att') = Len(att)
    <2>1. DOMAIN att = 1 .. Len(att) /\ Len(att) \in Nat
      BY PbReads DEF PbInv
    <2>2. att' \in [1 .. Len(att) -> PbAttempts]
      BY <1>1, <1>2, <1>3, <2>1
    <2>3. att' \in Seq(PbAttempts)
      BY <2>1, <2>2, SeqDef
    <2> QED
      BY <1>2, <2>1, <2>3
  <1>5. UNCHANGED <<Repair!Decisions, Repair!Entries, Repair!Entry, Repair!Bound,
                    Repair!Repaired, Repair!LastRepair, Repair!Finished>>
    <2>1. UNCHANGED <<Repair!Decisions, Repair!Bound, Repair!Repaired, Repair!LastRepair>>
      BY <1>1 DEF Repair!Decisions, Repair!Bound, Repair!Repaired, Repair!LastRepair
    <2>2. UNCHANGED Repair!Entries
      BY <1>1, <2>1 DEF Repair!Entries
    <2>3. UNCHANGED Repair!Finished
      BY <1>2, <1>3 DEF Repair!Finished
    <2> QED
      BY <2>1, <2>2, <2>3 DEF Repair!Entry
  <1>6. PbHistory'
    <2>1. \A k \in DOMAIN repairs : /\ repairs[k].b \in DOMAIN att' /\ att'[repairs[k].b].st = "done"
                                    /\ att'[repairs[k].b].e < repairs[k].e
      BY <1>2, <1>3 DEF PbInv, PbHistory
    <2> QED
      BY <1>1, <1>5, <2>1 DEF PbInv, PbHistory
  <1>7. PbAttempted'
    BY <1>1, <1>2, <1>3, <1>4, <1>5 DEF PbInv, PbAttempted
  <1>8. PbCommitted'
    <2>1. \A b : PbNewest(b)' = PbNewest(b)
      BY <1>5 DEF PbNewest
    <2> QED
      BY <1>1, <1>2, <1>3, <1>5, <2>1 DEF PbInv, PbCommitted, PbOurs, PbNewest, PbPassed, PbResult,
         Repair!NoEff, Repair!NoCand, Repair!NoFence
  <1>9. job'.pc = "idle" /\ job' \in PbJobs
    BY <1>1, PbGoes
  <1>10. PbTyped'
    BY <1>1, <1>4, <1>9 DEF PbInv, PbTyped
  <1> QED
    BY <1>6, <1>7, <1>8, <1>9, <1>10, PbRests DEF PbInv

\* A start names a leader of the history, or of a request, or none.
LEMMA PbPredecessor == ASSUME PbInv PROVE Repair!Predecessor \in Nat
  <1>1. \A ok : \A l \in Nat : Repair!Names(l, ok) \in Nat
    BY DEF Repair!Names
  <1>2. hist[Len(hist)].l \in Nat
    BY PbReads DEF PbInv
  <1>3. Repair!RepairPredecessor \in Nat /\ Repair!BaselinePredecessor \in Nat
    <2>1. Repair!At(Len(hist)).l \in Nat
      BY <1>2 DEF Repair!At
    <2> QED
      BY <1>2, <2>1 DEF Repair!RepairPredecessor, Repair!BaselinePredecessor, Repair!Names
  <1>4. Repair!Bound # {} => Repair!AmendmentPredecessor \in Nat
    <2>1. SUFFICES ASSUME Repair!Bound # {} PROVE Repair!AmendmentPredecessor \in Nat
      OBVIOUS
    <2>2. Repair!Bound \in SUBSET (0 .. Len(reqs)) /\ Len(reqs) \in Nat
      BY PbReads DEF PbInv, Repair!Bound
    <2>3. Repair!Latest(Repair!Bound) \in Repair!Bound
      BY <2>1, <2>2, PbLatest
    <2>4. reqs[Repair!Latest(Repair!Bound)].at.l \in Nat
      BY <2>3, PbReads DEF PbInv, Repair!Bound
    <2> QED
      BY <1>2, <2>4 DEF Repair!AmendmentPredecessor, Repair!Names
  <1> QED
    BY <1>2, <1>3, <1>4 DEF Repair!Predecessor

\* A start that goes on adds its row, which opens no entry, and confirms a commit it sees.
LEMMA PbStarts == ASSUME PbInv, Repair!Start PROVE PbInv'
  <1> DEFINE v == [t |-> "row", l |-> leader + 1, pl |-> Repair!Predecessor]
             n == Len(hist) + 1
  <1>1. /\ up = "down" /\ leader' = leader + 1
        /\ UNCHANGED <<state, att, cmd, repairs, reqs, rev, cand, tree, job>>
        /\ \/ /\ eff.st # "claimed" /\ hist' = Append(hist, v)
              /\ eff' = IF eff.st = "visible" THEN [eff EXCEPT !.st = "confirmed"] ELSE eff
           \/ UNCHANGED <<hist, eff>>
    BY DEF Repair!Start
  <1>2. job.pc = "idle" /\ job'.pc = "idle" /\ leader' \in Nat
    BY <1>1 DEF PbInv, PbJob, PbTyped
  <1>3. CASE UNCHANGED <<hist, eff>>
    <2>1. PbStill /\ PbTyped'
      BY <1>1, <1>2, <1>3 DEF PbStill, PbInv, PbTyped
    <2> QED
      BY <1>1, <1>2, <1>3, <2>1, PbKeeps, PbKeepsCommit, PbRests DEF PbInv
  <1>4. CASE /\ eff.st # "claimed" /\ hist' = Append(hist, v)
             /\ eff' = IF eff.st = "visible" THEN [eff EXCEPT !.st = "confirmed"] ELSE eff
    <2>1. v \in PbVersions /\ v.t = "row"
      BY <1>1, <1>2, PbPredecessor DEF PbVersions, PbKinds
    <2> HIDE DEF v
    <2>2. /\ hist' \in Seq(PbVersions) /\ Len(hist') = n /\ hist'[1] = hist[1] /\ hist'[n] = v
          /\ \A i \in DOMAIN hist : i \in DOMAIN hist' /\ hist'[i] = hist[i] /\ i < n
          /\ \A i \in DOMAIN hist' : i \in DOMAIN hist \/ i = n
          /\ n \in DOMAIN hist' /\ n \in Nat
      BY <1>4, <2>1, PbAppends, PbReads DEF PbInv
    <2> HIDE DEF n
    <2>3. /\ UNCHANGED <<Repair!Decisions, Repair!Entries, Repair!Entry, Repair!Finished,
                         Repair!Repaired, Repair!LastRepair>>
          /\ PbAttempted'
      BY <1>1, <1>2, <1>4, <2>1, PbSameEntry
    <2>4. Repair!Bound' = Repair!Bound
      BY <1>1 DEF Repair!Bound
    <2>5. \A i \in DOMAIN hist' : hist'[i].t # "row" => i \in DOMAIN hist
      BY <2>1, <2>2
    <2>6. PbHistory'
      BY <1>1, <2>2, <2>3, <2>4, <2>5 DEF PbInv, PbHistory
    <2>7. /\ eff' \in PbCommits /\ eff'.at = eff.at /\ eff'.b = eff.b
          /\ eff = Repair!NoEff => eff' = eff
          /\ eff'.st = eff.st \/ (eff.st = "visible" /\ eff'.st = "confirmed")
      <3>1. eff \in PbCommits /\ Repair!NoEff.st = "none"
        BY DEF PbInv, PbTyped, Repair!NoEff
      <3>2. CASE eff.st = "visible"
        BY <1>4, <3>1, <3>2 DEF PbCommits
      <3>3. CASE eff.st # "visible"
        BY <1>4, <3>1, <3>3
      <3> QED
        BY <3>2, <3>3
    <2>8. PbCommitted'
      <3>1. eff'.st = "none" => eff' = Repair!NoEff
        BY <2>7 DEF PbInv, PbCommitted
      <3>2. ASSUME eff' # Repair!NoEff
            PROVE  /\ state # "verifying" /\ PbOurs(eff.b) /\ PbNewest(eff.b)
                   /\ att[eff.b].st = "done" /\ PbPassed(eff.b, eff.at)
                   /\ \A i \in DOMAIN hist' : i > eff.at.i => hist'[i].t = "row"
        <4>1. eff # Repair!NoEff
          BY <2>7, <3>2
        <4>2. /\ state # "verifying" /\ PbOurs(eff.b) /\ PbNewest(eff.b)
              /\ att[eff.b].st = "done" /\ PbPassed(eff.b, eff.at)
              /\ \A i \in DOMAIN hist : i > eff.at.i => hist[i].t = "row"
          BY <4>1 DEF PbInv, PbCommitted
        <4>3. \A i \in DOMAIN hist' : i > eff.at.i => hist'[i].t = "row"
          BY <2>2, <2>5, <4>2
        <4> QED
          BY <4>2, <4>3
      <3>3. eff'.st \in {"visible", "confirmed"} => tree'.head = 0
        BY <1>1, <2>7 DEF PbInv, PbCommitted
      <3>4. cand # Repair!NoCand => eff'.st = "confirmed" /\ eff'.b = cand.b
        BY <2>7 DEF PbInv, PbCommitted
      <3>5. \A b, f : (PbOurs(b) => PbOurs(b)') /\ (PbNewest(b) => PbNewest(b)') /\ (PbPassed(b, f) => PbPassed(b, f)')
        BY <1>1, <2>3 DEF PbOurs, PbNewest, PbPassed, PbResult
      <3> QED
        BY <1>1, <2>7, <3>1, <3>2, <3>3, <3>4, <3>5 DEF PbCommitted, PbOurs, PbNewest, PbPassed, PbResult,
           Repair!NoEff, Repair!NoCand, Repair!NoFence, Repair!Finished
    <2>9. PbTyped'
      BY <1>1, <1>2, <2>2, <2>7 DEF PbInv, PbTyped
    <2> QED
      BY <1>2, <2>3, <2>6, <2>8, <2>9, PbRests DEF PbInv
  <1> QED
    BY <1>1, <1>3, <1>4

LEMMA PbInit == ASSUME Repair!Init PROVE PbInv
  <1> DEFINE v == [t |-> "built", l |-> 1, pl |-> 0]
             a == [at |-> [i |-> 1, l |-> 1], e |-> 1, rev |-> 1, st |-> "done"]
  <1>1. /\ hist = <<v>> /\ att = <<a>> /\ leader = 1 /\ state = "building" /\ cmd = {} /\ rev = 1
        /\ repairs = <<>> /\ reqs = <<>> /\ eff = Repair!NoEff /\ cand = Repair!NoCand
        /\ tree = [head |-> 1, b |-> 1, whole |-> TRUE] /\ job = Repair!Idle
    BY DEF Repair!Init
  <1>2. v \in PbVersions /\ v.t = "built" /\ a \in PbAttempts /\ a.e = 1 /\ a.at.i = 1 /\ a.st = "done" /\ a.rev = 1
    BY DEF PbVersions, PbKinds, PbAttempts, PbPoints
  <1> HIDE DEF v, a
  <1>3. /\ hist \in Seq(PbVersions) /\ Len(hist) = 1 /\ DOMAIN hist = {1} /\ hist[1] = v
        /\ att \in Seq(PbAttempts) /\ Len(att) = 1 /\ DOMAIN att = {1} /\ att[1] = a
        /\ repairs \in Seq(PbRepairs) /\ DOMAIN repairs = {} /\ Len(repairs) = 0
        /\ reqs \in Seq(PbRequests) /\ DOMAIN reqs = {}
    BY <1>1, <1>2
  <1>4. PbTyped
    <2>1. eff \in PbCommits /\ cand \in [b : Nat, at : PbPoints] /\ tree \in PbTrees
      BY <1>1 DEF PbCommits, PbPoints, PbTrees, Repair!NoEff, Repair!NoCand, Repair!NoFence
    <2> QED
      BY <1>1, <1>2, <1>3, <2>1, PbGoes DEF PbTyped
  <1>5. /\ Repair!Decisions = {} /\ Repair!Entries = {1} /\ ~Repair!Repaired
    BY <1>2, <1>3 DEF Repair!Decisions, Repair!Entries, Repair!Repaired
  <1>6. Repair!Entry = 1
    BY <1>4, <1>5, PbEntry
  <1>7. PbHistory
    <2>1. Repair!Bound = {}
      BY <1>3 DEF Repair!Bound
    <2> QED
      BY <1>1, <1>2, <1>3, <1>5, <2>1 DEF PbHistory
  <1>8. PbAttempted
    <2>1. \A b \in DOMAIN att : b = 1
      BY <1>3
    <2> QED
      BY <1>1, <1>2, <1>3, <1>5, <1>6, <2>1 DEF PbAttempted
  <1>9. PbJob /\ PbCommitted
    BY <1>1, PbGoes DEF PbJob, PbCommitted, Repair!Idle, Repair!NoEff
  <1> QED
    BY <1>4, <1>7, <1>8, <1>9 DEF PbInv

\* What the invariant says of the candidate, the repairs and the commit.
LEMMA PbSays == PbInv => Repair!CandidateIsCurrent
  <1> SUFFICES ASSUME PbInv PROVE Repair!CandidateIsCurrent
    OBVIOUS
  <1>1. ASSUME cand # Repair!NoCand
        PROVE  /\ att[cand.b].st = "done" /\ att[cand.b].e = Repair!Entry /\ att[cand.b].rev = rev
               /\ eff.st = "confirmed" /\ eff.b = cand.b
               /\ [b |-> cand.b, at |-> eff.at, ok |-> TRUE] \in cmd
    <2>1. eff.st = "confirmed" /\ eff.b = cand.b /\ eff # Repair!NoEff
      BY <1>1 DEF PbInv, PbCommitted, Repair!NoEff
    <2>2. PbOurs(cand.b) /\ att[cand.b].st = "done" /\ PbPassed(cand.b, eff.at)
      BY <2>1 DEF PbInv, PbCommitted
    <2> QED
      BY <2>1, <2>2 DEF PbInv, PbAttempted, PbOurs, PbPassed, PbResult
  <1>2. eff # Repair!NoEff => \A i \in DOMAIN hist : i > eff.at.i => i \in Repair!Rows
    BY DEF PbInv, PbCommitted, Repair!Rows
  <1>3. \A j, k \in DOMAIN repairs : repairs[j].b = repairs[k].b => j = k
    BY DEF PbInv, PbHistory
  <1> QED
    BY <1>1, <1>2, <1>3 DEF Repair!CandidateIsCurrent

\* Every step keeps it.
LEMMA PbStep == ASSUME PbInv, Repair!Next \/ UNCHANGED Repair!vars PROVE PbInv'
  <1>1. CASE UNCHANGED Repair!vars
    <2>1. UNCHANGED <<up, leader, state, hist, att, cmd, repairs, reqs, rev, eff, cand, tree, job>>
      BY <1>1 DEF Repair!vars
    <2>2. PbStill /\ PbTyped'
      BY <2>1 DEF PbStill, PbInv, PbTyped
    <2>3. PbJob'
      <3>1. UNCHANGED <<Repair!Entry, Repair!Finished, Repair!Live>>
        BY <2>1, PbReading DEF Repair!Live
      <3> QED
        BY <2>1, <3>1 DEF PbInv, PbJob, PbOurs, PbNewest, PbPassed, PbResult, Repair!NoEff, Repair!NoFence
    <2> QED
      BY <2>1, <2>2, <2>3, PbKeeps, PbKeepsCommit DEF PbInv
  <1> QED
    BY <1>1, PbStops, PbWrites, PbReuses, PbRuns, PbReplays, PbCommitsWork, PbUpdates, PbSettles,
       PbRecords, PbLaunches, PbEnds, PbTransits, PbRequestsIt, PbDecides, PbCrashes, PbStarts
    DEF Repair!Next, Repair!Tick

\* Whatever was repaired, amended and replayed, and wherever the daemon died, a candidate is the
\* work of a Builder of the newest building entry under the current proof, and of a commit made at
\* a fence where the command passed; no repair or amendment follows a commit, and no failed command
\* is answered twice (worker.go building, postbuild_amendment_prepared_candidate.go).
THEOREM CandidateStaysCurrent == Spec => []CandidateIsCurrent
  <1> DEFINE Inv == which = "repair" => PbInv
  <1>1. Init => Inv
    BY HostInit, PbInit
  <1>2. Inv /\ [Next]_<<which, all>> => Inv'
    BY HostStep, PbStep
  <1>3. Inv => CandidateIsCurrent
    BY PbSays DEF CandidateIsCurrent
  <1> QED
    BY <1>1, <1>2, <1>3, PTL DEF Spec
=============================================================================
