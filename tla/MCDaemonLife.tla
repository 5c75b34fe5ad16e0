---------------------------- MODULE MCDaemonLife ----------------------------
(* One daemon process from its start to its exit, and two that race for the *)
(* lease: the modules share no state, and a behaviour is of one of them.     *)
EXTENDS DaemonLife, LeaderLease, TLC

VARIABLE which

InitEither == DaemonInit /\ LeaseInit /\ which \in {"life", "lease"}

NextEither ==
    \/ which = "life" /\ DaemonNext /\ UNCHANGED <<leaseVars, which>>
    \/ which = "lease" /\ LeaseNext /\ UNCHANGED <<daemonVars, which>>

SpecEither == InitEither /\ [][NextEither]_<<daemonVars, leaseVars, which>>

Alike == Permutations(Keys) \cup Permutations(Sessions)

MCScopes == {[starts |-> 3, qualify |-> TRUE, sessions |-> 0],
             [starts |-> 2, qualify |-> FALSE, sessions |-> 2],
             [starts |-> 1, qualify |-> TRUE, sessions |-> 1]}
=============================================================================
