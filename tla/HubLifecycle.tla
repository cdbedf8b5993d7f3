---------------------------- MODULE HubLifecycle ----------------------------
(***************************************************************************)
(* MarketDataStorageHub::start and stop over MDBXConnection, MetadataBD    *)
(* and BarBD: connections are opened, table handles are opened in one      *)
(* write transaction over all backends, and the way back.  Every iteration *)
(* over the backends is a step and may leave the call by an exception,     *)
(* after which the program may call start() or stop() again on the same    *)
(* hub.  Between calls a client may hold one writable guard.               *)
(*                                                                         *)
(* MDBX is external.  What the code relies on: a handle opened in a write  *)
(* transaction is closed when that transaction aborts and stays open for   *)
(* the environment when it commits; opening a table that is open gives its *)
(* handle; a closed handle is refused (MDBX_BAD_DBI) by every call; a      *)
(* transaction cannot begin without an environment.                        *)
(***************************************************************************)
EXTENDS Naturals

CONSTANTS
    N,              \* backends the program adds to the hub at most
    MaxFaults       \* bound on failures of the engine

ASSUME NAssumption     == N \in Nat \ {0}
ASSUME FaultAssumption == MaxFaults \in Nat

Backend == 1..N

\* m_dbi_metadata of MetadataBD; m_dbi_bars and m_dbi_metadata of BarBD.
Table == {"storage", "bars"}

VARIABLES
    size,           \* m_storage_list.size()
    m_started,
    call,           \* the call that runs, if any
    at, idx,        \* where it is, and the counter of its loop
    env,            \* m_env of each backend
    dbi,            \* the handles of each backend
    prepared,       \* m_prepare_metadata, of a cache that is not empty
    writer,         \* who holds the write locks of the environments
    excused,        \* the engine has refused something to the running call
    faults

vars == <<size, m_started, call, at, idx, env, dbi, prepared, writer, excused, faults>>

hub == <<size, m_started>>

\* "broken": the environment could not be closed, m_env is not reset.
EnvStates == {"closed", "open", "broken"}

\* "zero": never opened; "private": opened in the transaction of start(), not
\* yet committed; "closed": the number of a handle that is closed.
DbiStates == {"zero", "private", "open", "closed"}

Places == {"idle", "connect", "begin", "tables", "commit", "disconnect"}

TypeOK ==
    /\ size \in 0..N /\ m_started \in BOOLEAN
    /\ call \in {"none", "start", "stop", "destroyed"}
    /\ at \in Places /\ idx \in 1..(N + 1)
    /\ env \in [Backend -> EnvStates]
    /\ dbi \in [Backend -> [Table -> DbiStates]]
    /\ prepared \in [Backend -> BOOLEAN]
    /\ writer \in {"none", "call", "client"}
    /\ excused \in BOOLEAN /\ faults \in 0..MaxFaults

Listed == 1..size

\* A connection handed to create_storage may be connected before start().
Init ==
    /\ size = 0 /\ m_started = FALSE
    /\ call = "none" /\ at = "idle" /\ idx = 1
    /\ env \in [Backend -> {"closed", "open"}]
    /\ dbi = [b \in Backend |-> [t \in Table |-> "zero"]]
    /\ prepared = [b \in Backend |-> FALSE]
    /\ writer = "none" /\ excused = FALSE /\ faults = 0

-----------------------------------------------------------------------------
(* Control                                                                 *)

At(c, place) == call = c /\ at = place

Loop(c, place, b) == At(c, place) /\ idx = b /\ b \in Listed

Goto(place) == at' = place /\ idx' = 1 /\ UNCHANGED call

\* Mutant of Advance: the body counts as well as the loop.
AdvanceTwice == idx' = idx + 2 /\ UNCHANGED <<call, at>>

Advance == idx' = idx + 1 /\ UNCHANGED <<call, at>>

Return == call' = "none" /\ at' = "idle" /\ idx' = 1

\* The engine fails, or refuses what it cannot do at the moment.
Refused == excused' = TRUE
Fault == faults < MaxFaults /\ faults' = faults + 1 /\ Refused
NoFault == UNCHANGED <<faults, excused>>

\* Handles when the transaction of the call ends: the backends in committed
\* keep what they have opened in it.
Settled(handles, committed) ==
    [b \in Backend |-> [t \in Table |->
        IF handles[b][t] # "private" THEN handles[b][t]
        ELSE IF b \in committed THEN "open" ELSE "closed"]]

\* The exception leaves start() or stop(); its guard rolls back.
ThrowWith(handles) ==
    /\ Return /\ UNCHANGED hub
    /\ dbi' = Settled(handles, {})
    /\ writer' = IF writer = "call" THEN "none" ELSE writer

Throw == ThrowWith(dbi)

-----------------------------------------------------------------------------
(* start()                                                                 *)

add_storage ==
    /\ call = "none" /\ ~m_started
    /\ size < N /\ size' = size + 1
    /\ UNCHANGED <<m_started, call, at, idx, env, dbi, prepared, writer, excused, faults>>

start ==
    /\ call = "none" /\ ~m_started
    /\ call' = "start" /\ at' = "connect" /\ idx' = 1
    /\ excused' = FALSE
    /\ UNCHANGED <<hub, env, dbi, prepared, writer, faults>>

\* Mutant of Connect: a backend that is connected already is an error
\* (MDBXConnection::connect throws).
ConnectAlways(b) ==
    /\ Loop("start", "connect", b)
    /\ \/ env[b] = "closed" /\ env' = [env EXCEPT ![b] = "open"] /\ Advance /\ UNCHANGED <<dbi, writer>>
       \/ env[b] # "closed" /\ Throw /\ UNCHANGED env
    /\ NoFault /\ UNCHANGED <<hub, prepared>>

\* is_connected() only asks whether m_env is set.
Connect(b) ==
    /\ Loop("start", "connect", b)
    /\ env' = [env EXCEPT ![b] = IF @ = "closed" THEN "open" ELSE @]
    /\ Advance
    /\ NoFault /\ UNCHANGED <<hub, dbi, prepared, writer>>

\* connect() closes what it has created, and when that fails too leaves it.
ConnectFails(b) ==
    /\ Loop("start", "connect", b) /\ env[b] = "closed"
    /\ env' \in {env, [env EXCEPT ![b] = "broken"]}
    /\ Throw /\ Fault /\ UNCHANGED prepared

\* Mutant of LoopEnds: a loop over the backends ends before the last.
LoopEndsEarly(c, place, next) ==
    /\ At(c, place) /\ idx >= size
    /\ Goto(next)
    /\ NoFault /\ UNCHANGED <<hub, env, dbi, prepared, writer>>

LoopEnds(c, place, next) ==
    /\ At(c, place) /\ idx > size
    /\ Goto(next)
    /\ NoFault /\ UNCHANGED <<hub, env, dbi, prepared, writer>>

\* begin() over all backends (TransactionGuard treats them one by one).
Begin(c) ==
    /\ At(c, "begin") /\ writer = "none"
    /\ \A b \in Listed : env[b] = "open"
    /\ writer' = "call"
    /\ Goto("tables")
    /\ NoFault /\ UNCHANGED <<hub, env, dbi, prepared>>

\* Without an environment there is no transaction.
BeginThrows(c) ==
    /\ At(c, "begin")
    /\ \E b \in Listed : env[b] # "open"
    /\ Throw /\ NoFault /\ UNCHANGED <<env, prepared>>

\* A call waits for a guard of another thread; with a guard of its own thread
\* the engine refuses the transaction.
BeginFails(c) ==
    /\ At(c, "begin")
    /\ Throw
    /\ Fault \/ (writer = "client" /\ Refused /\ UNCHANGED faults)
    /\ UNCHANGED <<env, prepared>>

Opened(handle) == IF handle = "open" THEN "open" ELSE "private"

StartBackend(b) ==
    /\ Loop("start", "tables", b)
    /\ dbi' = [dbi EXCEPT ![b] = [t \in Table |-> Opened(@[t])]]
    /\ Advance
    /\ NoFault /\ UNCHANGED <<hub, env, prepared, writer>>

\* One of the tables cannot be opened: its handle stays, or is zeroed.
StartBackendFails(b) ==
    /\ Loop("start", "tables", b)
    /\ \E t \in Table : \E h \in {"zero", dbi[b][t]} :
            ThrowWith([dbi EXCEPT ![b] = [u \in Table |->
                IF u = t THEN h ELSE IF t = "bars" THEN Opened(@[u]) ELSE @[u]]])
    /\ Fault /\ UNCHANGED <<env, prepared>>

\* refresh_metadata, then commit(), whose hooks write the prepared caches.
StartCommit ==
    /\ At("start", "commit")
    /\ dbi' = Settled(dbi, Listed)
    /\ prepared' = [b \in Backend |-> prepared[b] /\ b \notin Listed]
    /\ m_started' = TRUE /\ writer' = "none"
    /\ Return
    /\ NoFault /\ UNCHANGED <<size, env>>

\* Some of the backends may have committed before one fails.
StartCommitFails ==
    /\ At("start", "commit")
    /\ \E n \in 0..size : ThrowWith(Settled(dbi, 1..n))
    /\ \E n \in 0..size : prepared' = [b \in Backend |-> prepared[b] /\ b > n]
    /\ Fault /\ UNCHANGED env

-----------------------------------------------------------------------------
(* stop()                                                                  *)

stop ==
    /\ call = "none" /\ m_started
    /\ call' = "stop" /\ at' = "begin" /\ idx' = 1
    /\ excused' = FALSE
    /\ UNCHANGED <<hub, env, dbi, prepared, writer, faults>>

Closed(handle) == IF handle = "zero" THEN "zero" ELSE "closed"

\* The handles that are not zero are closed, and keep their numbers.
StopBackend(b) ==
    /\ Loop("stop", "tables", b)
    /\ \A t \in Table : dbi[b][t] # "closed"
    /\ dbi' = [dbi EXCEPT ![b] = [t \in Table |-> Closed(@[t])]]
    /\ Advance
    /\ NoFault /\ UNCHANGED <<hub, env, prepared, writer>>

\* Handles after a stop that throws at table t of backend b: MetadataBD::stop
\* comes first, BarBD::stop tries all its handles before it throws.
StoppedAt(b, t, bars) ==
    IF t = "storage" THEN dbi
    ELSE [dbi EXCEPT ![b] = [storage |-> Closed(@["storage"]), bars |-> bars]]

\* mdbx_dbi_close refuses a handle that is closed.
StopBackendThrows(b) ==
    /\ Loop("stop", "tables", b)
    /\ \E t \in Table :
        /\ dbi[b][t] = "closed"
        /\ t = "bars" => dbi[b]["storage"] # "closed"
        /\ ThrowWith(StoppedAt(b, t, "closed"))
    /\ NoFault /\ UNCHANGED <<env, prepared>>

StopBackendFails(b) ==
    /\ Loop("stop", "tables", b)
    /\ \E t \in Table, bars \in {dbi[b]["bars"], "closed"} :
        /\ dbi[b][t] = "open" /\ (t = "bars" => dbi[b]["storage"] # "closed")
        /\ ThrowWith(StoppedAt(b, t, bars))
    /\ Fault /\ UNCHANGED <<env, prepared>>

\* Mutant of StopCommit: m_started is reset before the connections are closed.
StopCommitResets ==
    /\ At("stop", "commit")
    /\ \A b \in Listed : ~prepared[b]
    /\ writer' = "none" /\ m_started' = FALSE
    /\ Goto("disconnect")
    /\ NoFault /\ UNCHANGED <<size, env, dbi, prepared>>

StopCommit ==
    /\ At("stop", "commit")
    /\ \A b \in Listed : ~prepared[b]
    /\ writer' = "none"
    /\ Goto("disconnect")
    /\ NoFault /\ UNCHANGED <<hub, env, dbi, prepared>>

\* A cache prepared by a transaction that was rolled back is written now, to
\* a table whose handle stop() has closed.
StopCommitThrows ==
    /\ At("stop", "commit")
    /\ \E b \in Listed : prepared[b]
    /\ Throw /\ NoFault /\ UNCHANGED <<env, prepared>>

StopCommitFails == At("stop", "commit") /\ Throw /\ Fault /\ UNCHANGED <<env, prepared>>

Disconnect(b) ==
    /\ Loop("stop", "disconnect", b)
    /\ env' = [env EXCEPT ![b] = "closed"]
    /\ Advance
    /\ NoFault /\ UNCHANGED <<hub, dbi, prepared, writer>>

DisconnectFails(b) ==
    /\ Loop("stop", "disconnect", b) /\ env[b] # "closed"
    /\ env' \in {env, [env EXCEPT ![b] = "broken"]}
    /\ Throw /\ Fault /\ UNCHANGED prepared

StopReturns ==
    /\ At("stop", "disconnect") /\ idx > size
    /\ m_started' = FALSE
    /\ Return
    /\ NoFault /\ UNCHANGED <<size, env, dbi, prepared, writer>>

(* ~MarketDataStorageHub tries stop() and ignores what becomes of it; the  *)
(* backends it owns then close handles and environments.                   *)
Destroy ==
    /\ call = "none" /\ writer = "none"
    /\ call' = "destroyed" /\ m_started' = FALSE
    /\ env' = [b \in Backend |-> IF b \in Listed THEN "closed" ELSE env[b]]
    /\ dbi' = [b \in Backend |-> [t \in Table |-> Closed(dbi[b][t])]]
    /\ UNCHANGED <<size, at, idx, prepared, writer, excused, faults>>

-----------------------------------------------------------------------------
(* The client                                                              *)

\* transaction() and begin() of a writable guard.
ClientBegin ==
    /\ call = "none" /\ m_started /\ writer = "none"
    /\ \A b \in Listed : env[b] = "open"
    /\ writer' = "client"
    /\ UNCHANGED <<hub, call, at, idx, env, dbi, prepared, excused, faults>>

\* prepare() needs the handles; where the table is empty it leaves nothing.
ClientPrepare ==
    /\ call = "none" /\ writer = "client"
    /\ \A b \in Listed : dbi[b]["bars"] = "open"
    /\ \E B \in SUBSET Listed : prepared' = [b \in Backend |-> b \in B]
    /\ UNCHANGED <<hub, call, at, idx, env, dbi, writer, excused, faults>>

\* Mutant of ClientEnd: a guard that is dropped keeps its locks.
ClientEndsByCommitOnly ==
    /\ writer = "client" /\ writer' = "none"
    /\ \A b \in Listed : prepared[b] /\ dbi[b]["bars"] = "open"
    /\ prepared' = [b \in Backend |-> FALSE]
    /\ UNCHANGED <<hub, call, at, idx, env, dbi, excused, faults>>

\* The guard commits, which clears the flags, or is rolled back or dropped,
\* which leaves them.
ClientEnd ==
    /\ writer = "client" /\ writer' = "none"
    /\ \/ UNCHANGED prepared
       \/ /\ \A b \in Listed : prepared[b] => dbi[b]["bars"] = "open"
          /\ prepared' = [b \in Backend |-> FALSE]
    /\ UNCHANGED <<hub, call, at, idx, env, dbi, excused, faults>>

-----------------------------------------------------------------------------
\* What a call does when the engine does not fail, exceptions included.
CallStep ==
    \/ \E b \in Backend : \/ Connect(b) \/ StartBackend(b)
                          \/ StopBackend(b) \/ StopBackendThrows(b) \/ Disconnect(b)
    \/ \E c \in {"start", "stop"} : Begin(c) \/ BeginThrows(c) \/ LoopEnds(c, "tables", "commit")
    \/ LoopEnds("start", "connect", "begin") \/ StartCommit \/ StopCommit \/ StopCommitThrows \/ StopReturns

FailingStep ==
    \/ \E b \in Backend : \/ ConnectFails(b) \/ StartBackendFails(b)
                          \/ StopBackendFails(b) \/ DisconnectFails(b)
    \/ \E c \in {"start", "stop"} : BeginFails(c)
    \/ StartCommitFails \/ StopCommitFails

ClientStep == ClientBegin \/ ClientPrepare \/ ClientEnd

Next ==
    \/ add_storage \/ start \/ stop \/ Destroy
    \/ CallStep \/ FailingStep \/ ClientStep
    \/ call = "destroyed" /\ UNCHANGED vars

Spec == Init /\ [][Next]_vars

(* A call that runs goes on, and a client's guard goes out of scope.       *)
Fairness == WF_vars(CallStep) /\ WF_vars(ClientEnd)

FairSpec == Spec /\ Fairness

-----------------------------------------------------------------------------
(* Properties                                                              *)

Ready(b) == env[b] = "open" /\ \A t \in Table : dbi[b][t] = "open"

\* When start() returns, however many calls failed before and wherever, every
\* backend in the list is connected and all its tables are open.
StartMeansReady == [][~m_started /\ m_started' => \A b \in Listed : Ready(b)']_vars

\* start() throws only when the engine refuses something to this very call,
\* or an environment could not be closed before: a call that failed half-way
\* never stands in the way of the next.
StartCanBeRetried ==
    [][call = "start" /\ call' = "none" /\ ~excused' =>
        m_started' \/ \E b \in Listed : env[b] = "broken"]_vars

\* When stop() returns no environment is connected and no handle is open, so
\* that the next start() begins from nothing.
StopMeansClosed ==
    [][m_started /\ ~m_started' =>
        \A b \in Listed : env'[b] = "closed" /\ \A t \in Table : dbi'[b][t] \in {"zero", "closed"}]_vars

\* start() and stop() return or throw, whatever guards clients hold.
CallsReturn == call \in {"start", "stop"} ~> call \notin {"start", "stop"}

-----------------------------------------------------------------------------
(* The inductive invariant behind the safety properties                    *)

CallsAreInPlace ==
    /\ call \in {"none", "destroyed"} => at = "idle"
    /\ call = "start" => ~m_started /\ at \in {"connect", "begin", "tables", "commit"}
    /\ call = "stop" => m_started /\ at \in {"begin", "tables", "commit", "disconnect"}

\* What a start() that got this far has done to a backend: the loops before
\* have treated all of them, the running one those below its counter.
StartLoop ==
    call = "start" => \A b \in Listed :
        /\ (at = "connect" /\ b < idx) \/ at = "begin" => env[b] # "closed"
        /\ at \in {"tables", "commit"} => env[b] = "open"
        /\ (at = "tables" /\ b < idx) \/ at = "commit" =>
                \A t \in Table : dbi[b][t] \in {"private", "open"}

StopLoop ==
    call = "stop" => \A b \in Listed :
        /\ (at = "tables" /\ b < idx) \/ at \in {"commit", "disconnect"} =>
                \A t \in Table : dbi[b][t] \in {"zero", "closed"}
        /\ at = "disconnect" /\ b < idx => env[b] = "closed"

IInv == TypeOK /\ CallsAreInPlace /\ StartLoop /\ StopLoop

-----------------------------------------------------------------------------
(* What a comment says and the code does not do                            *)

\* "Stops all active storage backends." (stop): unless the engine refuses
\* something to this very call, the hub is stopped after it.
StopStops == [][call = "stop" /\ call' = "none" /\ ~excused' => ~m_started']_vars
=============================================================================
