------------------------- MODULE SQLiteTransaction -------------------------
(***************************************************************************)
(* SQLiteConnection: connections to one database file, and the threads     *)
(* that run transaction(operation, mode) on them.  execute() tries a       *)
(* statement again for as long as the engine is busy, so a busy statement  *)
(* is one that cannot end yet.                                             *)
(*                                                                         *)
(* The engine's locks are those of the default configuration: a rollback   *)
(* journal (JournalMode::DELETE_MODE) and LockingMode::NORMAL.  No         *)
(* compiled file includes the header; of the members it declares twice     *)
(* there is one, and config is read as *m_config.                          *)
(***************************************************************************)
EXTENDS Integers, FiniteSets, Sequences, Functions

CONSTANTS
    Threads,
    Connections,        \* objects of the class
    Conn,               \* the connection a thread uses
    Programs,           \* what a call does: [mode, operation]
    MaxCalls,           \* bound on the calls of all threads together
    MaxHandles,         \* bound on the handles the engine gives out
    MaxDisconnects,     \* bound on the calls of disconnect
    MaxSqlFaults           \* bound on the statements the engine fails

ASSUME ConnAssumption == Conn \in [Threads -> Connections]
ASSUME ProgramsAssumption ==
    Programs \subseteq [mode : {"DEFERRED", "IMMEDIATE", "EXCLUSIVE"},
                        operation : Seq({"read", "write", "throw"})]
ASSUME SQLiteBoundAssumption ==
    /\ MaxCalls \in Nat /\ MaxDisconnects \in Nat /\ MaxSqlFaults \in Nat
    /\ MaxHandles \in Nat /\ Cardinality(Connections) <= MaxHandles

VARIABLES
    handle,     \* m_sqlite_ptr of a connection, 0 when it is null
    bound,      \* the handle its prepared statements belong to, or 0
    handles,    \* how many the engine has given out
    lock,       \* the lock a handle has on the file
    open,       \* handles with a transaction: not in autocommit mode
    dirty,      \* what a handle has written and not committed
    stored,     \* what the database holds
    pc,         \* the part of transaction() a thread is in, or how it was left
    using,      \* the handle execute() was entered with, 0 outside of it
    program,    \* the call of a thread
    position,   \* how many statements of the operation it has run
    seen,       \* the databases those have read
    calls,      \* calls of a thread so far
    disconnects, sqlFaults
engine == <<handles, lock, open, dirty, stored>>
objects == <<handle, bound, disconnects>>
threads == <<pc, using, program, position, seen, calls>>
sqlVars == <<handle, bound, handles, lock, open, dirty, stored, pc, using, program,
             position, seen, calls, disconnects, sqlFaults>>

Handles == 1..MaxHandles
NONE == 0
SHARED == 1
RESERVED == 2
PENDING == 3
EXCLUSIVE == 4
Raised(h, level) == IF lock[h] < level THEN level ELSE lock[h]

\* What the locks of the other handles leave to h.
Others(h, level) == \E o \in Handles \ {h} : lock[o] >= level
MayShare(h) == lock[h] >= SHARED \/ ~Others(h, PENDING)
MayReserve(h) == MayShare(h) /\ ~Others(h, RESERVED)
MayExclude(h) == MayReserve(h) /\ ~Others(h, SHARED)

NoCall == [mode |-> "DEFERRED", operation |-> <<>>]
Parts == {"begin", "operation", "commit", "rollback"}
Busy(t) == pc[t] \in Parts
InCall(c) == \E t \in Threads : Conn[t] = c /\ Busy(t)
Writes == Threads \X Nat \X Nat
Write(t, k) == <<t, calls[t], k>>
WritesOf(t) == {Write(t, k) : k \in {n \in DOMAIN program[t].operation : program[t].operation[n] = "write"}}
Ended(h) == /\ lock' = [lock EXCEPT ![h] = NONE]
            /\ open' = open \ {h} /\ dirty' = [dirty EXCEPT ![h] = {}]

SQLiteInit ==
    /\ handle = [c \in Connections |-> 0] /\ bound = handle /\ handles = 0
    /\ lock = [h \in Handles |-> NONE] /\ open = {} /\ dirty = [h \in Handles |-> {}]
    /\ stored = {}
    /\ pc = [t \in Threads |-> "idle"] /\ using = [t \in Threads |-> 0]
    /\ program = [t \in Threads |-> NoCall]
    /\ position = [t \in Threads |-> 0] /\ seen = [t \in Threads |-> {}]
    /\ calls = [t \in Threads |-> 0] /\ disconnects = 0 /\ sqlFaults = 0

-----------------------------------------------------------------------------
\* configure_db reads the schema, and waits with the mutex held until it may.
\* The statements prepared for an earlier handle are not finalized.
connect(c) ==
    /\ handle[c] = 0 /\ ~InCall(c) /\ handles < MaxHandles
    /\ ~Others(handles + 1, PENDING)
    /\ handles' = handles + 1
    /\ handle' = [handle EXCEPT ![c] = handles'] /\ bound' = [bound EXCEPT ![c] = handles']
    /\ UNCHANGED <<lock, open, dirty, stored, threads, disconnects, sqlFaults>>

\* open_db or configure_db throws, and the handle is closed.  When statements
\* were prepared for it, they are in the place of those of an earlier handle.
connect_fails(c) ==
    /\ handle[c] = 0 /\ ~InCall(c)
    /\ sqlFaults < MaxSqlFaults /\ sqlFaults' = sqlFaults + 1
    /\ \/ UNCHANGED <<handles, bound>>
       \/ /\ handles < MaxHandles /\ ~Others(handles + 1, PENDING)
          /\ handles' = handles + 1 /\ bound' = [bound EXCEPT ![c] = handles']
    /\ UNCHANGED <<handle, lock, open, dirty, stored, threads, disconnects>>

\* sqlite3_close_v2 leaves the handle as it is until its last prepared
\* statement is finalized, with its transaction and its lock.
disconnect(c) ==
    /\ handle[c] # 0 /\ disconnects < MaxDisconnects /\ disconnects' = disconnects + 1
    /\ handle' = [handle EXCEPT ![c] = 0]
    /\ UNCHANGED <<bound, engine, threads, sqlFaults>>

\* The destructor, and a new object: the statements are finalized.
destruct(c) ==
    /\ bound[c] # 0 /\ ~InCall(c)
    /\ handle' = [handle EXCEPT ![c] = 0] /\ bound' = [bound EXCEPT ![c] = 0]
    /\ Ended(bound[c])
    /\ UNCHANGED <<handles, stored, threads, disconnects, sqlFaults>>

-----------------------------------------------------------------------------
transaction(t) ==
    /\ ~Busy(t) /\ FoldFunction(+, 0, calls) < MaxCalls
    /\ \E p \in Programs : program' = [program EXCEPT ![t] = p]
    /\ pc' = [pc EXCEPT ![t] = "begin"] /\ calls' = [calls EXCEPT ![t] = @ + 1]
    /\ UNCHANGED <<using, position, seen, engine, objects, sqlFaults>>

Proceed(t, part) == pc' = [pc EXCEPT ![t] = part] /\ using' = [using EXCEPT ![t] = 0]
Leaves(t, how) ==
    /\ Proceed(t, how)
    /\ program' = [program EXCEPT ![t] = NoCall] /\ position' = [position EXCEPT ![t] = 0]
    /\ seen' = [seen EXCEPT ![t] = {}] /\ UNCHANGED calls

\* Mutant of Caught: the exception leaves the call at once.
CaughtNowhere(t) == Leaves(t, "threw")

\* An exception leads to ROLLBACK, one there leaves the call.
Caught(t) ==
    IF pc[t] = "rollback" THEN Leaves(t, "threw")
    ELSE Proceed(t, "rollback") /\ UNCHANGED <<program, position, seen, calls>>

NextIs(t, what) ==
    /\ pc[t] = "operation" /\ position[t] < Len(program[t].operation)
    /\ program[t].operation[position[t] + 1] = what
Advances(t) ==
    /\ position' = [position EXCEPT ![t] = @ + 1]
    /\ Proceed(t, IF position'[t] = Len(program[t].operation) THEN "commit" ELSE "operation")

\* execute(): the pointers are looked at once, before the loop.
enter(t) ==
    /\ Busy(t) /\ using[t] = 0 /\ ~NextIs(t, "throw")
    /\ IF handle[Conn[t]] = 0
       THEN Caught(t)
       ELSE /\ using' = [using EXCEPT ![t] = handle[Conn[t]]]
            /\ UNCHANGED <<pc, program, position, seen, calls>>
    /\ UNCHANGED <<engine, objects, sqlFaults>>

\* The operation throws of its own.
operation_throws(t) ==
    /\ using[t] = 0 /\ NextIs(t, "throw")
    /\ Caught(t) /\ UNCHANGED <<engine, objects, sqlFaults>>

\* A statement ends in SQLITE_FULL, SQLITE_IOERR or another error; the engine
\* may have rolled the transaction back.
fails(t) ==
    LET h == using[t]
    IN  /\ h # 0 /\ pc[t] # "rollback"
        /\ sqlFaults < MaxSqlFaults /\ sqlFaults' = sqlFaults + 1
        /\ \/ Ended(h)
           \/ UNCHANGED <<lock, open, dirty>>
        /\ Caught(t)
        /\ UNCHANGED <<handles, stored, objects>>

\* BEGIN in a transaction, COMMIT and ROLLBACK outside of one are errors.
misplaced(t) ==
    /\ using[t] # 0
    /\ CASE pc[t] = "begin" -> using[t] \in open
         [] pc[t] \in {"commit", "rollback"} -> using[t] \notin open
         [] OTHER -> FALSE
    /\ Caught(t) /\ UNCHANGED <<engine, objects, sqlFaults>>

\* Mutant of Level: the mode is not looked at.
DeferredLevel(mode) == NONE

\* The lock BEGIN takes; DEFERRED takes none.
Level(mode) == CASE mode = "DEFERRED" -> NONE [] mode = "IMMEDIATE" -> RESERVED [] OTHER -> EXCLUSIVE
begin(t) ==
    LET h == using[t]
        level == Level(program[t].mode)
    IN  /\ pc[t] = "begin" /\ h # 0 /\ h \notin open
        /\ level >= RESERVED => MayReserve(h)
        /\ level = EXCLUSIVE => MayExclude(h)
        /\ open' = open \cup {h} /\ lock' = [lock EXCEPT ![h] = level]
        /\ Proceed(t, IF program[t].operation = <<>> THEN "commit" ELSE "operation")
        /\ UNCHANGED <<handles, dirty, stored, program, position, seen, calls, objects, sqlFaults>>

\* A SELECT of the operation.  In autocommit mode the lock goes with it.
reads(t) ==
    LET h == using[t]
    IN  /\ h # 0 /\ NextIs(t, "read") /\ MayShare(h)
        /\ lock' = IF h \in open THEN [lock EXCEPT ![h] = Raised(h, SHARED)] ELSE lock
        /\ seen' = [seen EXCEPT ![t] = @ \cup {stored}]
        /\ Advances(t)
        /\ UNCHANGED <<handles, open, dirty, stored, program, calls, objects, sqlFaults>>

\* A change of the operation.  In autocommit mode it is committed by itself.
writes(t) ==
    LET h == using[t]
        w == Write(t, position[t] + 1)
    IN  /\ h # 0 /\ NextIs(t, "write") /\ MayReserve(h)
        /\ h \notin open => MayExclude(h)
        /\ lock' = IF h \in open THEN [lock EXCEPT ![h] = Raised(h, RESERVED)] ELSE lock
        /\ dirty' = IF h \in open THEN [dirty EXCEPT ![h] = @ \cup {w}] ELSE dirty
        /\ stored' = IF h \in open THEN stored ELSE stored \cup {w}
        /\ Advances(t)
        /\ UNCHANGED <<handles, open, program, seen, calls, objects, sqlFaults>>

\* COMMIT of changes waits for the readers, and lets no new ones in.
waits_for_readers(t) ==
    LET h == using[t]
    IN  /\ pc[t] = "commit" /\ h \in open /\ dirty[h] # {} /\ lock[h] = RESERVED
        /\ Others(h, SHARED)
        /\ lock' = [lock EXCEPT ![h] = PENDING]
        /\ UNCHANGED <<handles, open, dirty, stored, threads, objects, sqlFaults>>

commit(t) ==
    LET h == using[t]
    IN  /\ pc[t] = "commit" /\ h \in open
        /\ dirty[h] # {} => MayExclude(h)
        /\ stored' = stored \cup dirty[h]
        /\ Ended(h) /\ Leaves(t, "returned")
        /\ UNCHANGED <<handles, objects, sqlFaults>>

\* Mutant of rollback: the statement was prepared as COMMIT.
rollback_commits(t) ==
    LET h == using[t]
    IN  /\ pc[t] = "rollback" /\ h \in open
        /\ stored' = stored \cup dirty[h]
        /\ Ended(h) /\ Leaves(t, "threw")
        /\ UNCHANGED <<handles, objects, sqlFaults>>

rollback(t) ==
    LET h == using[t]
    IN  /\ pc[t] = "rollback" /\ h \in open
        /\ Ended(h) /\ Leaves(t, "threw")
        /\ UNCHANGED <<handles, stored, objects, sqlFaults>>

Statement(t) == \/ begin(t) \/ reads(t) \/ writes(t) \/ waits_for_readers(t)
                \/ commit(t) \/ rollback(t) \/ misplaced(t)
Step(t) == enter(t) \/ operation_throws(t) \/ Statement(t)

SQLiteNext == \/ \E t \in Threads : transaction(t) \/ Step(t) \/ fails(t)
              \/ \E c \in Connections : connect(c) \/ connect_fails(c) \/ disconnect(c) \/ destruct(c)
SQLiteSpec == SQLiteInit /\ [][SQLiteNext]_sqlVars
\* A thread goes on with its call: its loop tries the statement again.
FairSQLiteSpec == SQLiteSpec /\ \A t \in Threads : WF_sqlVars(Step(t))

-----------------------------------------------------------------------------
(* The inductive invariants                                                *)

SQLiteTypes ==
    /\ handle \in [Connections -> 0..MaxHandles]
    /\ bound \in [Connections -> 0..MaxHandles]
    /\ handles \in 0..MaxHandles
    /\ lock \in [Handles -> NONE..EXCLUSIVE]
    /\ open \subseteq Handles
    /\ dirty \in [Handles -> SUBSET Writes]
    /\ stored \subseteq Writes
    /\ pc \in [Threads -> Parts \cup {"idle", "returned", "threw"}]
    /\ using \in [Threads -> 0..MaxHandles]
    /\ program \in [Threads -> Programs \cup {NoCall}]
    /\ position \in [Threads -> Nat]
    /\ seen \in [Threads -> SUBSET SUBSET Writes]
    /\ calls \in [Threads -> Nat]

\* A handle is one connection's, and outside of a transaction holds nothing; a
\* statement runs on the handle of its thread's connection; a handle that is
\* in use and in a transaction is in the call of some thread.
HandlesInv ==
    /\ \A c \in Connections : handle[c] \in {0, bound[c]} /\ bound[c] <= handles
    /\ \A c, d \in Connections : bound[c] # 0 /\ bound[c] = bound[d] => c = d
    /\ \A h \in Handles : h \in open => h <= handles
    /\ \A h \in Handles \ open : lock[h] = NONE /\ dirty[h] = {}
    /\ \A t \in Threads : using[t] # 0 => Busy(t) /\ using[t] = bound[Conn[t]]
    /\ \A c \in Connections : handle[c] # 0 /\ handle[c] \in open => InCall(c)

\* No two threads use one connection.
OwnConnections == \A t, u \in Threads : Conn[t] = Conn[u] => t = u

\* The transaction of a call is open from BEGIN to COMMIT and has changed what
\* the operation has written so far; what it has read it keeps others from
\* changing.
CallInv(t) ==
    LET h == bound[Conn[t]]
    IN  /\ ~Busy(t) => program[t] = NoCall
        /\ pc[t] \notin {"operation", "commit", "rollback"} => position[t] = 0 /\ seen[t] = {}
        /\ pc[t] = "commit" => position[t] = Len(program[t].operation)
        /\ pc[t] \in {"operation", "commit"} =>
            /\ h \in open
            /\ dirty[h] = {w \in WritesOf(t) : w[3] <= position[t]}
            /\ seen[t] # {} => lock[h] >= SHARED /\ seen[t] = {stored}
CallsInv == \A t \in Threads : CallInv(t)

-----------------------------------------------------------------------------
\* Between two calls the handle of a connection has no transaction, no lock and
\* no change of its own, however the calls before have ended.
IdleHoldsNothing ==
    \A c \in Connections :
        handle[c] # 0 /\ ~InCall(c) =>
            handle[c] \notin open /\ lock[handle[c]] = NONE /\ dirty[handle[c]] = {}

\* transaction() stores all a call writes in the step it returns in, on the
\* database the call read, and nothing of a call that throws.
Atomic == INSTANCE AtomicCalls WITH
    outcome <- [t \in Threads |-> IF Busy(t) THEN "running" ELSE pc[t]],
    intends <- [t \in Threads |-> WritesOf(t)]
CallsAreAtomic == Atomic!AtomicSpec

\* A handle that is disconnected and still has a lock.
Orphaned == \E h \in Handles : lock[h] # NONE /\ \A c \in Connections : handle[c] # h

\* A DEFERRED call that has read asks for the write lock, which another one
\* has: COMMIT of that one waits for the readers, so neither goes on.
Standoff ==
    \E t \in Threads : /\ NextIs(t, "write") /\ program[t].mode = "DEFERRED"
                       /\ using[t] # 0 /\ lock[using[t]] = SHARED /\ Others(using[t], RESERVED)

\* Every call of transaction() ends, whatever fails: only a handle that was
\* disconnected with its lock, or a DEFERRED call that writes after a read,
\* can keep execute() in its loop (execution_utils.hpp:50).
EveryCallEnds == \A t \in Threads : []<>~Busy(t) \/ <>[](Orphaned \/ Standoff)
=============================================================================
