------------------------------ MODULE MCSQLite ------------------------------
(***************************************************************************)
(* Two threads, each with a connection of its own.                         *)
(***************************************************************************)
EXTENDS SQLiteTransaction

CONSTANTS t1, t2
Call(m, o) == [mode |-> m, operation |-> o]
OwnConn == [t \in Threads |-> t]
Calls == {Call("IMMEDIATE", <<"read", "write">>), Call("EXCLUSIVE", <<"write", "throw">>),
          Call("DEFERRED", <<"read", "write">>), Call("DEFERRED", <<"read", "read">>)}
=============================================================================
