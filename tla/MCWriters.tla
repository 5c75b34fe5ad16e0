---------------------------- MODULE MCWriters ----------------------------
(* Small instances of Writers: one command and one commit share a           *)
(* repository, or one commit alone.                                         *)
EXTENDS Writers

CONSTANTS command, commit   \* tickets, named for what they run

KindDef == [t \in Tickets |-> IF t = command THEN "command" ELSE "commit"]
=============================================================================
