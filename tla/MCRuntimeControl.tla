-------------------------- MODULE MCRuntimeControl --------------------------
(* The admission of one ticket and the choice among several: they share no  *)
(* state, and a behaviour is of one of them; the other one stands still.    *)
EXTENDS RuntimeControl

CONSTANTS Loops, N, MaxMoves

VARIABLES which, kind, sealed, active, after, loop, moves, fresh

S == INSTANCE Scheduler

scheduler == <<kind, sealed, active, after, loop, moves, fresh>>

NoTickets ==
    /\ kind = [t \in 1 .. N |-> "rest"] /\ sealed = {}
    /\ active = [t \in 1 .. N |-> "none"] /\ after = 0
    /\ loop = [l \in Loops |-> S!Idle] /\ moves = 0 /\ fresh = [l \in Loops |-> {}]

InitEither ==
    /\ Init
    /\ \/ which = "control" /\ NoTickets
       \/ which = "scheduler" /\ S!Init

NextEither ==
    \/ which = "control" /\ Next /\ UNCHANGED <<which, scheduler>>
    \/ which = "scheduler" /\ S!Next /\ UNCHANGED <<which, vars>>

SpecEither ==
    /\ InitEither /\ [][NextEither]_<<which, vars, scheduler>>
    /\ which = "control" => Fairness
    /\ which = "scheduler" => S!Fairness

ReadyIsPicked == which = "scheduler" => S!ReadyIsPicked
=============================================================================
