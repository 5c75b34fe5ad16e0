---------------------------- MODULE LeaderLease ----------------------------
(***************************************************************************)
(* The channel leader lease: internal/leader and the part of daemon.Start  *)
(* that turns the file lock into a durable leader epoch.                   *)
(*                                                                         *)
(* A daemon opens the lock path, takes a non-blocking flock on the INODE   *)
(* it opened, checks twice that the path still names that inode, and only  *)
(* then increments the epoch in the database.  The path can be replaced    *)
(* under it (the lock protects an inode, the path names another one), so   *)
(* every check is check-then-act; the epoch that a transaction compares    *)
(* is the fence that remains.                                              *)
(***************************************************************************)
EXTENDS Naturals

CONSTANTS Daemons,     \* processes that call daemon.Start
          MaxInode,    \* bound: inodes the lock path may name over time
          MaxEpoch,    \* bound: durable leader epochs
          NoDaemon     \* "nobody holds the flock"

ASSUME LeaseAssumption ==
    /\ MaxInode \in Nat \ {0}
    /\ MaxEpoch \in Nat
    /\ NoDaemon \notin Daemons

VARIABLES
    path,      \* inode the lock path names, 0 when the path is absent
    inodes,    \* inodes allocated so far: 1..inodes
    flock,     \* flock[i]: daemon that holds the flock of inode i
    meta,      \* meta[i]: daemon whose metadata inode i holds
    at,        \* where each daemon is in Start / Serve
    fd,        \* inode each daemon has open, 0 when closed
    taken,     \* epoch AcquireLeader returned to the daemon
    leader,    \* daemon_instances.leader_epoch
    commit     \* epoch the last committed transaction ran under, 0 before

leaseVars == <<path, inodes, flock, meta, at, fd, taken, leader, commit>>

Inodes == 1 .. MaxInode

Phases == {"idle", "opened", "flocked", "written", "leased", "storeOpen",
           "validated", "elected", "serving", "handling"}

\* A daemon that has returned from leader.Acquire and not closed its Lease.
Leased(d) == at[d] \in {"leased", "storeOpen", "validated", "elected",
                        "serving", "handling"}

LeaseTypeOK ==
    /\ path \in 0 .. MaxInode
    /\ inodes \in 0 .. MaxInode
    /\ flock \in [Inodes -> Daemons \cup {NoDaemon}]
    /\ meta \in [Inodes -> Daemons \cup {NoDaemon}]
    /\ at \in [Daemons -> Phases]
    /\ fd \in [Daemons -> 0 .. MaxInode]
    /\ taken \in [Daemons -> 0 .. MaxEpoch]
    /\ leader \in 0 .. MaxEpoch
    /\ commit \in 0 .. MaxEpoch
    /\ \A d \in Daemons : fd[d] = 0 <=> at[d] = "idle"

LeaseInit ==
    /\ path = 0
    /\ inodes = 0
    /\ flock = [i \in Inodes |-> NoDaemon]
    /\ meta = [i \in Inodes |-> NoDaemon]
    /\ at = [d \in Daemons |-> "idle"]
    /\ fd = [d \in Daemons |-> 0]
    /\ taken = [d \in Daemons |-> 0]
    /\ leader = 0
    /\ commit = 0

-----------------------------------------------------------------------------
(* leader.Acquire *)

\* O_RDWR|O_CREAT: opens the inode the path names, or creates one.
OpenFile(d) ==
    /\ at[d] = "idle"
    /\ at' = [at EXCEPT ![d] = "opened"]
    /\ \/ /\ path # 0
          /\ fd' = [fd EXCEPT ![d] = path]
          /\ UNCHANGED <<path, inodes>>
       \/ /\ path = 0
          /\ inodes < MaxInode
          /\ inodes' = inodes + 1
          /\ path' = inodes + 1
          /\ fd' = [fd EXCEPT ![d] = inodes + 1]
    /\ UNCHANGED <<flock, meta, taken, leader, commit>>

\* Every way out: the descriptor is closed, and with it the flock.
Released(d) ==
    /\ flock' = [i \in Inodes |-> IF flock[i] = d THEN NoDaemon ELSE flock[i]]
    /\ fd' = [fd EXCEPT ![d] = 0]
    /\ at' = [at EXCEPT ![d] = "idle"]
    /\ taken' = [taken EXCEPT ![d] = 0]
    /\ UNCHANGED <<path, inodes, meta, leader, commit>>

\* Fault: a contended lock is not reported, the file counts as locked.
FlockMutant(d) ==
    /\ at[d] = "opened"
    /\ flock' = [flock EXCEPT ![fd[d]] = d]
    /\ at' = [at EXCEPT ![d] = "flocked"]
    /\ UNCHANGED <<path, inodes, meta, fd, taken, leader, commit>>

\* LOCK_EX|LOCK_NB on the opened inode; EWOULDBLOCK is ErrLeaderExists.
Flock(d) ==
    /\ at[d] = "opened"
    /\ \/ /\ flock[fd[d]] = NoDaemon
          /\ flock' = [flock EXCEPT ![fd[d]] = d]
          /\ at' = [at EXCEPT ![d] = "flocked"]
          /\ UNCHANGED <<path, inodes, meta, fd, taken, leader, commit>>
       \/ /\ flock[fd[d]] # NoDaemon
          /\ Released(d)

\* The path still names the opened inode (pathIdentity = fileIdentity).
PathMatches(d) == path = fd[d]

\* First identity check, then the metadata is written into the inode.
WriteMetadata(d) ==
    /\ at[d] = "flocked"
    /\ \/ /\ PathMatches(d)
          /\ meta' = [meta EXCEPT ![fd[d]] = d]
          /\ at' = [at EXCEPT ![d] = "written"]
          /\ UNCHANGED <<path, inodes, flock, fd, taken, leader, commit>>
       \/ /\ ~PathMatches(d)
          /\ Released(d)

\* One identity check that either lets the daemon go on or ends it.
Checked(d, from, to) ==
    /\ at[d] = from
    /\ \/ /\ PathMatches(d)
          /\ at' = [at EXCEPT ![d] = to]
          /\ UNCHANGED <<path, inodes, flock, meta, fd, taken, leader, commit>>
       \/ /\ ~PathMatches(d)
          /\ Released(d)

\* Second identity check of Acquire: the Lease is returned.
AcquireReturn(d) == Checked(d, "written", "leased")

-----------------------------------------------------------------------------
(* daemon.Start *)

\* lease.Validate, then the store is opened.
ValidateFirst(d) == Checked(d, "leased", "storeOpen")

\* lease.Validate again, directly before the epoch is taken.
ValidateAgain(d) == Checked(d, "storeOpen", "validated")

\* Store.AcquireLeader: leader_epoch + 1 in one transaction.
AcquireLeader(d) ==
    /\ at[d] = "validated"
    /\ leader < MaxEpoch
    /\ leader' = leader + 1
    /\ taken' = [taken EXCEPT ![d] = leader + 1]
    /\ at' = [at EXCEPT ![d] = "elected"]
    /\ UNCHANGED <<path, inodes, flock, meta, fd, commit>>

\* daemon.Recover validates the lease first; only then the socket listens.
Recover(d) == Checked(d, "elected", "serving")

-----------------------------------------------------------------------------
(* A serving daemon *)

\* A handler validates the lease before it touches the store; a replaced
\* path fails the request and leaves the daemon as it is.
BeginHandler(d) ==
    /\ at[d] = "serving"
    /\ PathMatches(d)
    /\ at' = [at EXCEPT ![d] = "handling"]
    /\ UNCHANGED <<path, inodes, flock, meta, fd, taken, leader, commit>>

\* currentFence: the transaction commits only under the current epoch.
FenceCurrent(d) == taken[d] = leader

\* The handler's transaction: it commits, or it is refused as stale.
FinishHandler(d) ==
    /\ at[d] = "handling"
    /\ at' = [at EXCEPT ![d] = "serving"]
    /\ \/ /\ FenceCurrent(d)
          /\ commit' = taken[d]
       \/ /\ ~FenceCurrent(d)
          /\ UNCHANGED commit
    /\ UNCHANGED <<path, inodes, flock, meta, fd, taken, leader>>

\* Daemon.Close, a failed Start, or the death of the process: the kernel
\* drops the flock with the descriptor.  What was committed stays.
CloseLease(d) ==
    /\ at[d] # "idle"
    /\ Released(d)

-----------------------------------------------------------------------------
(* Environment: something outside the daemons replaces or removes the path. *)

ReplacePath ==
    /\ path # 0
    /\ inodes < MaxInode
    /\ \/ /\ inodes' = inodes + 1
          /\ path' = inodes + 1
       \/ /\ path' = 0
          /\ UNCHANGED inodes
    /\ UNCHANGED <<flock, meta, at, fd, taken, leader, commit>>

-----------------------------------------------------------------------------
LeaseNext ==
    \/ ReplacePath
    \/ \E d \in Daemons :
        \/ OpenFile(d)
        \/ Flock(d)
        \/ WriteMetadata(d)
        \/ AcquireReturn(d)
        \/ ValidateFirst(d)
        \/ ValidateAgain(d)
        \/ AcquireLeader(d)
        \/ Recover(d)
        \/ BeginHandler(d)
        \/ FinishHandler(d)
        \/ CloseLease(d)

LeaseSpec == LeaseInit /\ [][LeaseNext]_leaseVars

-----------------------------------------------------------------------------
(* Properties *)

\* Transactions commit under epochs that never go back, however the lock
\* path was replaced: once a newer daemon has taken an epoch, nothing an
\* older one validated earlier can still be written.
CommitsInEpochOrder == [][commit <= commit']_leaseVars

\* Two daemons never hold the same epoch.
EpochsExclusive ==
    \A d, e \in Daemons : (d # e /\ taken[d] # 0) => taken[d] # taken[e]

\* Of the daemons whose lease the path still names there is at most one:
\* two leases can only coexist on two inodes, and a path names one of them.
OneValidLease ==
    \A d, e \in Daemons :
        (Leased(d) /\ Leased(e) /\ PathMatches(d) /\ PathMatches(e)) => d = e
=============================================================================
