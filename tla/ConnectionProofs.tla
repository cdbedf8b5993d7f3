-------------------------- MODULE ConnectionProofs --------------------------
(***************************************************************************)
(* Proofs about what opens, closes and uses connections.  HubLifecycle:    *)
(* for any number of backends and of failures, start() returns only with   *)
(* every backend ready, can be repeated after it has failed, and stop()    *)
(* returns only with every backend closed.  SQLiteTransaction: for any     *)
(* threads, connections and programs, calls are atomic and leave nothing.  *)
(***************************************************************************)
EXTENDS HubLifecycle, SQLiteTransaction, TLAPS

-----------------------------------------------------------------------------
(* HubLifecycle                                                            *)

DbiHandles == [Backend -> [Table -> DbiStates]]

\* The end of a transaction leaves every handle in one of its states.
LEMMA SettledType ==
    ASSUME NEW hs \in DbiHandles, NEW committed
    PROVE  Settled(hs, committed) \in DbiHandles
  BY DEF DbiHandles, Settled, DbiStates

\* Opening and closing a backend's tables does too.
LEMMA HandleTypes ==
    ASSUME NEW h \in DbiStates
    PROVE  Opened(h) \in {"private", "open"} /\ Opened(h) \in DbiStates
        /\ Closed(h) \in {"zero", "closed"} /\ Closed(h) \in DbiStates
  BY DEF Opened, Closed, DbiStates

\* A call that throws leaves nothing to be said of its loops.
LEMMA ThrowIInv ==
    ASSUME IInv, NEW hs \in DbiHandles, ThrowWith(hs),
           env' \in [Backend -> EnvStates], prepared' \in [Backend -> BOOLEAN],
           excused' \in BOOLEAN, faults' \in 0..MaxFaults
    PROVE  IInv'
  <1>1. /\ size' = size /\ m_started' = m_started
        /\ call' = "none" /\ at' = "idle" /\ idx' = 1
        /\ dbi' \in DbiHandles /\ writer' \in {"none", "call", "client"}
    BY SettledType DEF ThrowWith, Return, hub, IInv, TypeOK
  <1>2. TypeOK'
    BY <1>1, NAssumption DEF IInv, TypeOK, DbiHandles, Places
  <1>3. CallsAreInPlace' /\ StartLoop' /\ StopLoop'
    BY <1>1 DEF CallsAreInPlace, StartLoop, StopLoop
  <1> QED BY <1>2, <1>3 DEF IInv

\* Bookkeeping of refusals keeps its type.
LEMMA FaultTypes ==
    ASSUME IInv, NoFault \/ Fault \/ (Refused /\ UNCHANGED faults)
    PROVE  excused' \in BOOLEAN /\ faults' \in 0..MaxFaults
  <1>1. excused' \in BOOLEAN
    BY Zenon DEF IInv, TypeOK, NoFault, Fault, Refused
  <1>2. faults' \in 0..MaxFaults
    BY FaultAssumption DEF IInv, TypeOK, NoFault, Fault, Refused
  <1> QED BY <1>1, <1>2

\* Every action that throws.
LEMMA ThrowingIInv ==
    ASSUME IInv, NEW b \in Backend, NEW c \in {"start", "stop"},
           \/ ConnectFails(b) \/ StartBackendFails(b) \/ BeginThrows(c) \/ BeginFails(c)
           \/ StartCommitFails \/ StopBackendThrows(b) \/ StopBackendFails(b)
           \/ StopCommitThrows \/ StopCommitFails \/ DisconnectFails(b)
    PROVE  IInv'
  <1>1. dbi \in DbiHandles /\ env \in [Backend -> EnvStates] /\ prepared \in [Backend -> BOOLEAN]
    BY DEF IInv, TypeOK, DbiHandles
  <1>2. ASSUME NEW t \in Table, NEW bars \in DbiStates
        PROVE  StoppedAt(b, t, bars) \in DbiHandles
    BY <1>1, HandleTypes DEF StoppedAt, DbiHandles, Table
  <1>3. [env EXCEPT ![b] = "broken"] \in [Backend -> EnvStates]
    BY <1>1 DEF EnvStates
  <1>4. CASE ConnectFails(b) \/ DisconnectFails(b)
    BY <1>1, <1>3, <1>4, ThrowIInv, FaultTypes DEF ConnectFails, DisconnectFails, Throw
  <1>5. CASE StartBackendFails(b)
    <2>1. PICK t \in Table : \E h \in {"zero", dbi[b][t]} :
            ThrowWith([dbi EXCEPT ![b] = [u \in Table |->
                IF u = t THEN h ELSE IF t = "bars" THEN Opened(@[u]) ELSE @[u]]])
      BY <1>5 DEF StartBackendFails
    <2>2. PICK h \in {"zero", dbi[b][t]} :
            ThrowWith([dbi EXCEPT ![b] = [u \in Table |->
                IF u = t THEN h ELSE IF t = "bars" THEN Opened(@[u]) ELSE @[u]]])
      BY <2>1
    <2>3. h \in DbiStates
      BY <1>1, <2>2 DEF DbiHandles, DbiStates
    <2>4. [dbi EXCEPT ![b] = [u \in Table |->
              IF u = t THEN h ELSE IF t = "bars" THEN Opened(@[u]) ELSE @[u]]] \in DbiHandles
      BY <1>1, <2>3, HandleTypes DEF DbiHandles
    <2> QED BY <1>1, <1>5, <2>2, <2>4, ThrowIInv, FaultTypes DEF StartBackendFails
  <1>6. CASE BeginThrows(c) \/ BeginFails(c) \/ StopCommitThrows \/ StopCommitFails
    BY <1>1, <1>6, ThrowIInv, FaultTypes
       DEF BeginThrows, BeginFails, StopCommitThrows, StopCommitFails, Throw
  <1>7. CASE StartCommitFails
    <2>1. PICK n \in 0..size : ThrowWith(Settled(dbi, 1..n))
      BY <1>7 DEF StartCommitFails
    <2>2. prepared' \in [Backend -> BOOLEAN]
      BY <1>1, <1>7 DEF StartCommitFails
    <2> QED BY <1>1, <1>7, <2>1, <2>2, SettledType, ThrowIInv, FaultTypes DEF StartCommitFails
  <1>8. CASE StopBackendThrows(b)
    BY <1>1, <1>2, <1>8, ThrowIInv, FaultTypes DEF StopBackendThrows, DbiStates
  <1>9. CASE StopBackendFails(b)
    <2>1. \A h \in {dbi[b]["bars"], "closed"} : h \in DbiStates
      BY <1>1 DEF DbiHandles, Table, DbiStates
    <2> QED BY <1>1, <1>2, <1>9, <2>1, ThrowIInv, FaultTypes DEF StopBackendFails
  <1> QED BY <1>4, <1>5, <1>6, <1>7, <1>8, <1>9

-----------------------------------------------------------------------------
\* The steps of start() that do not throw.
LEMMA StartIInv ==
    ASSUME IInv, NEW b \in Backend,
           \/ start \/ Connect(b) \/ LoopEnds("start", "connect", "begin") \/ Begin("start")
           \/ StartBackend(b) \/ LoopEnds("start", "tables", "commit") \/ StartCommit
    PROVE  IInv'
  <1>1. /\ dbi \in DbiHandles /\ env \in [Backend -> EnvStates]
        /\ prepared \in [Backend -> BOOLEAN] /\ size \in Nat /\ size <= N /\ idx \in Nat
    BY NAssumption DEF IInv, TypeOK, DbiHandles
  <1>2. CASE start
    <2>1. /\ call = "none" /\ ~m_started /\ call' = "start" /\ at' = "connect" /\ idx' = 1
          /\ excused' = FALSE
          /\ UNCHANGED <<size, m_started, env, dbi, prepared, writer, faults>>
      BY <1>2 DEF start, hub
    <2>2. TypeOK'
      <3>1. m_started' \in BOOLEAN /\ excused' \in BOOLEAN
        BY <2>1, Zenon DEF IInv, TypeOK
      <3>2. /\ size' \in 0..N /\ idx' \in 1..(N + 1) /\ at' \in Places
            /\ call' \in {"none", "start", "stop", "destroyed"}
        BY <2>1, NAssumption DEF IInv, TypeOK, Places
      <3> QED BY <2>1, <3>1, <3>2, Zenon DEF IInv, TypeOK
    <2>3. CallsAreInPlace'
      BY <2>1, Zenon DEF IInv, CallsAreInPlace
    <2>4. StartLoop' /\ StopLoop'
      BY <2>1 DEF StartLoop, StopLoop, Listed
    <2> QED BY <2>2, <2>3, <2>4 DEF IInv
  <1>3. CASE Connect(b)
    <2>1. /\ call = "start" /\ at = "connect" /\ idx = b /\ b \in Listed
          /\ env' = [env EXCEPT ![b] = IF @ = "closed" THEN "open" ELSE @]
          /\ idx' = idx + 1
          /\ UNCHANGED <<size, m_started, call, at, dbi, prepared, writer, excused, faults>>
      BY <1>3 DEF Connect, Loop, At, Advance, NoFault, hub
    <2>2. TypeOK'
      BY <1>1, <2>1, NAssumption DEF IInv, TypeOK, EnvStates, Backend
    <2>3. StartLoop'
      BY <1>1, <2>1 DEF IInv, TypeOK, StartLoop, Listed, Backend, EnvStates
    <2> QED BY <2>1, <2>2, <2>3 DEF IInv, CallsAreInPlace, StopLoop
  <1>4. CASE LoopEnds("start", "connect", "begin")
    BY <1>1, <1>4, NAssumption
       DEF LoopEnds, At, Goto, NoFault, hub, IInv, TypeOK, Places, CallsAreInPlace,
           StartLoop, StopLoop, Listed
  <1>5. CASE Begin("start")
    BY <1>1, <1>5, NAssumption
       DEF Begin, At, Goto, NoFault, hub, IInv, TypeOK, Places, CallsAreInPlace,
           StartLoop, StopLoop, Listed
  <1>6. CASE StartBackend(b)
    <2>1. /\ call = "start" /\ at = "tables" /\ idx = b /\ b \in Listed
          /\ dbi' = [dbi EXCEPT ![b] = [t \in Table |-> Opened(dbi[b][t])]]
          /\ idx' = idx + 1
          /\ UNCHANGED <<size, m_started, call, at, env, prepared, writer, excused, faults>>
      BY <1>1, <1>6 DEF StartBackend, Loop, At, Advance, NoFault, hub, DbiHandles
    <2>2. /\ dbi' \in DbiHandles
          /\ \A t \in Table : dbi'[b][t] \in {"private", "open"}
          /\ \A d \in Backend \ {b} : dbi'[d] = dbi[d]
      BY <1>1, <2>1, HandleTypes DEF DbiHandles
    <2>3. TypeOK'
      BY <1>1, <2>1, <2>2, NAssumption DEF IInv, TypeOK, Backend, DbiHandles
    <2>4. StartLoop'
      BY <1>1, <2>1, <2>2 DEF IInv, TypeOK, StartLoop, Listed, Backend
    <2> QED BY <2>1, <2>3, <2>4 DEF IInv, CallsAreInPlace, StopLoop
  <1>7. CASE LoopEnds("start", "tables", "commit")
    BY <1>1, <1>7, NAssumption
       DEF LoopEnds, At, Goto, NoFault, hub, IInv, TypeOK, Places, CallsAreInPlace,
           StartLoop, StopLoop, Listed
  <1>8. CASE StartCommit
    <2>1. dbi' \in DbiHandles
      BY <1>1, <1>8, SettledType DEF StartCommit
    <2>2. prepared' \in [Backend -> BOOLEAN]
      BY <1>1, <1>8 DEF StartCommit
    <2>3. TypeOK'
      BY <1>1, <1>8, <2>1, <2>2, NAssumption
         DEF StartCommit, Return, NoFault, IInv, TypeOK, DbiHandles, Places
    <2> QED BY <1>8, <2>3 DEF StartCommit, Return, IInv, CallsAreInPlace, StartLoop, StopLoop
  <1> QED BY <1>2, <1>3, <1>4, <1>5, <1>6, <1>7, <1>8

\* The steps of stop() that do not throw.
LEMMA StopIInv ==
    ASSUME IInv, NEW b \in Backend,
           \/ stop \/ Begin("stop") \/ StopBackend(b) \/ LoopEnds("stop", "tables", "commit")
           \/ StopCommit \/ Disconnect(b) \/ StopReturns
    PROVE  IInv'
  <1>1. /\ dbi \in DbiHandles /\ env \in [Backend -> EnvStates]
        /\ prepared \in [Backend -> BOOLEAN] /\ size \in Nat /\ size <= N /\ idx \in Nat
    BY NAssumption DEF IInv, TypeOK, DbiHandles
  <1>2. CASE stop
    <2>1. /\ call = "none" /\ m_started /\ call' = "stop" /\ at' = "begin" /\ idx' = 1
          /\ excused' = FALSE
          /\ UNCHANGED <<size, m_started, env, dbi, prepared, writer, faults>>
      BY <1>2 DEF stop, hub
    <2>2. TypeOK'
      <3>1. m_started' \in BOOLEAN /\ excused' \in BOOLEAN
        BY <2>1, Zenon DEF IInv, TypeOK
      <3>2. /\ size' \in 0..N /\ idx' \in 1..(N + 1) /\ at' \in Places
            /\ call' \in {"none", "start", "stop", "destroyed"}
        BY <2>1, NAssumption DEF IInv, TypeOK, Places
      <3> QED BY <2>1, <3>1, <3>2, Zenon DEF IInv, TypeOK
    <2>3. CallsAreInPlace'
      BY <2>1, Zenon DEF IInv, CallsAreInPlace
    <2>4. StartLoop' /\ StopLoop'
      BY <2>1 DEF StartLoop, StopLoop, Listed
    <2> QED BY <2>2, <2>3, <2>4 DEF IInv
  <1>3. CASE Begin("stop")
    BY <1>1, <1>3, NAssumption
       DEF Begin, At, Goto, NoFault, hub, IInv, TypeOK, Places, CallsAreInPlace,
           StartLoop, StopLoop, Listed
  <1>4. CASE StopBackend(b)
    <2>1. /\ call = "stop" /\ at = "tables" /\ idx = b /\ b \in Listed
          /\ dbi' = [dbi EXCEPT ![b] = [t \in Table |-> Closed(dbi[b][t])]]
          /\ idx' = idx + 1
          /\ UNCHANGED <<size, m_started, call, at, env, prepared, writer, excused, faults>>
      BY <1>1, <1>4 DEF StopBackend, Loop, At, Advance, NoFault, hub, DbiHandles
    <2>2. /\ dbi' \in DbiHandles
          /\ \A t \in Table : dbi'[b][t] \in {"zero", "closed"}
          /\ \A d \in Backend \ {b} : dbi'[d] = dbi[d]
      BY <1>1, <2>1, HandleTypes DEF DbiHandles
    <2>3. TypeOK'
      BY <1>1, <2>1, <2>2, NAssumption DEF IInv, TypeOK, Backend, DbiHandles
    <2>4. StopLoop'
      BY <1>1, <2>1, <2>2 DEF IInv, TypeOK, StopLoop, Listed, Backend
    <2> QED BY <2>1, <2>3, <2>4 DEF IInv, CallsAreInPlace, StartLoop
  <1>5. CASE LoopEnds("stop", "tables", "commit")
    BY <1>1, <1>5, NAssumption
       DEF LoopEnds, At, Goto, NoFault, hub, IInv, TypeOK, Places, CallsAreInPlace,
           StartLoop, StopLoop, Listed
  <1>6. CASE StopCommit
    BY <1>1, <1>6, NAssumption
       DEF StopCommit, At, Goto, NoFault, hub, IInv, TypeOK, Places, CallsAreInPlace,
           StartLoop, StopLoop, Listed
  <1>7. CASE Disconnect(b)
    <2>1. /\ call = "stop" /\ at = "disconnect" /\ idx = b /\ b \in Listed
          /\ env' = [env EXCEPT ![b] = "closed"]
          /\ idx' = idx + 1
          /\ UNCHANGED <<size, m_started, call, at, dbi, prepared, writer, excused, faults>>
      BY <1>7 DEF Disconnect, Loop, At, Advance, NoFault, hub
    <2>2. TypeOK'
      BY <1>1, <2>1, NAssumption DEF IInv, TypeOK, EnvStates, Backend
    <2>3. StopLoop'
      BY <1>1, <2>1 DEF IInv, TypeOK, StopLoop, Listed, Backend
    <2> QED BY <2>1, <2>2, <2>3 DEF IInv, CallsAreInPlace, StartLoop
  <1>8. CASE StopReturns
    <2>1. /\ call' = "none" /\ at' = "idle" /\ idx' = 1 /\ m_started' = FALSE
          /\ UNCHANGED <<size, env, dbi, prepared, writer, excused, faults>>
      BY <1>8 DEF StopReturns, Return, NoFault
    <2>2. TypeOK'
      <3>1. m_started' \in BOOLEAN /\ excused' \in BOOLEAN
        BY <2>1, Zenon DEF IInv, TypeOK
      <3>2. /\ size' \in 0..N /\ idx' \in 1..(N + 1) /\ at' \in Places
            /\ call' \in {"none", "start", "stop", "destroyed"}
        BY <2>1, NAssumption DEF IInv, TypeOK, Places
      <3> QED BY <2>1, <3>1, <3>2, Zenon DEF IInv, TypeOK
    <2>3. CallsAreInPlace'
      BY <2>1, Zenon DEF IInv, CallsAreInPlace
    <2>4. StartLoop' /\ StopLoop'
      BY <2>1 DEF StartLoop, StopLoop, Listed
    <2> QED BY <2>2, <2>3, <2>4 DEF IInv
  <1> QED BY <1>2, <1>3, <1>4, <1>5, <1>6, <1>7, <1>8

\* What the program does between its calls.
LEMMA ProgramIInv ==
    ASSUME IInv, add_storage \/ Destroy \/ ClientStep
    PROVE  IInv'
  <1>1. /\ dbi \in DbiHandles /\ env \in [Backend -> EnvStates] /\ prepared \in [Backend -> BOOLEAN]
    BY DEF IInv, TypeOK, DbiHandles
  <1>2. CASE add_storage
    BY <1>2, NAssumption
       DEF add_storage, IInv, TypeOK, CallsAreInPlace, StartLoop, StopLoop
  <1>3. CASE Destroy
    <2>1. dbi' \in DbiHandles /\ env' \in [Backend -> EnvStates]
      BY <1>1, <1>3, HandleTypes DEF Destroy, DbiHandles, EnvStates
    <2>2. TypeOK'
      BY <1>3, <2>1 DEF Destroy, IInv, TypeOK, DbiHandles
    <2> QED BY <1>3, <2>2 DEF Destroy, IInv, CallsAreInPlace, StartLoop, StopLoop
  <1>4. CASE ClientStep
    <2>1. UNCHANGED <<size, m_started, call, at, idx, env, dbi, excused, faults>>
      BY <1>4 DEF ClientStep, ClientBegin, ClientPrepare, ClientEnd, hub
    <2>2. writer' \in {"none", "call", "client"}
      BY <1>4 DEF ClientStep, ClientBegin, ClientPrepare, ClientEnd, IInv, TypeOK
    <2>3. prepared' \in [Backend -> BOOLEAN]
      <3>1. CASE ClientBegin
        BY <1>1, <3>1 DEF ClientBegin
      <3>2. CASE ClientPrepare
        BY <3>2 DEF ClientPrepare
      <3>3. CASE ClientEnd
        BY <1>1, <3>3 DEF ClientEnd
      <3> QED BY <1>4, <3>1, <3>2, <3>3 DEF ClientStep
    <2> QED BY <2>1, <2>2, <2>3 DEF IInv, TypeOK, CallsAreInPlace, StartLoop, StopLoop, Listed
  <1> QED BY <1>2, <1>3, <1>4

\* The invariant behind the theorems below: in every reachable state the loops
\* of the running call have done what their counters say.
THEOREM Inductive == Spec => []IInv
  <1>1. Init => IInv
    <2> SUFFICES ASSUME Init PROVE IInv
      OBVIOUS
    <2>1. env \in [Backend -> EnvStates] /\ dbi \in [Backend -> [Table -> DbiStates]]
      BY DEF Init, EnvStates, DbiStates
    <2>2. prepared \in [Backend -> BOOLEAN]
      BY DEF Init
    <2>3. /\ size \in 0..N /\ idx \in 1..(N + 1) /\ at \in Places /\ faults \in 0..MaxFaults
          /\ call \in {"none", "start", "stop", "destroyed"} /\ writer \in {"none", "call", "client"}
      BY NAssumption, FaultAssumption DEF Init, Places
    <2>4. m_started \in BOOLEAN /\ excused \in BOOLEAN
      BY Zenon DEF Init
    <2>5. TypeOK
      BY <2>1, <2>2, <2>3, <2>4, Zenon DEF TypeOK
    <2> QED BY <2>5 DEF Init, IInv, CallsAreInPlace, StartLoop, StopLoop
  <1>2. IInv /\ [Next]_vars => IInv'
    <2> SUFFICES ASSUME IInv, [Next]_vars PROVE IInv'
      OBVIOUS
    <2>1. CASE Next
      <3>1. 1 \in Backend
        BY NAssumption DEF Backend
      <3>2. CASE CallStep
        BY <3>1, <3>2, StartIInv, StopIInv, ThrowingIInv DEF CallStep
      <3>3. CASE FailingStep
        BY <3>1, <3>3, ThrowingIInv DEF FailingStep
      <3>4. CASE call = "destroyed" /\ UNCHANGED vars
        BY <3>4 DEF vars, IInv, TypeOK, CallsAreInPlace, StartLoop, StopLoop, Listed
      <3> QED BY <2>1, <3>1, <3>2, <3>3, <3>4, StartIInv, StopIInv, ProgramIInv DEF Next
    <2>2. CASE UNCHANGED vars
      BY <2>2 DEF vars, IInv, TypeOK, CallsAreInPlace, StartLoop, StopLoop, Listed
    <2> QED BY <2>1, <2>2
  <1> QED BY <1>1, <1>2, PTL DEF Spec

\* Every variable keeps its type.
THEOREM TypeCorrect == Spec => []TypeOK
  <1>1. IInv => TypeOK
    BY DEF IInv
  <1> QED BY <1>1, Inductive, PTL

-----------------------------------------------------------------------------
\* No other step starts the hub than StartCommit, which finds every backend
\* connected and its tables opened in the transaction it commits.
LEMMA StartCommitReady ==
    ASSUME IInv, StartCommit
    PROVE  \A b \in Listed : Ready(b)'
  <1>1. /\ env' = env /\ dbi' = Settled(dbi, Listed) /\ Listed \subseteq Backend
        /\ \A b \in Listed : env[b] = "open" /\ \A t \in Table : dbi[b][t] \in {"private", "open"}
    BY NAssumption DEF StartCommit, At, IInv, TypeOK, StartLoop, Listed, Backend
  <1>2. ASSUME NEW b \in Listed, NEW t \in Table
        PROVE  dbi'[b][t] = "open"
    BY <1>1 DEF Settled
  <1> QED BY <1>1, <1>2 DEF Ready

\* start() returns only when every backend is connected and has its tables
\* open (StartMeansReady), whatever failed before.
THEOREM StartMeansReadyHolds == Spec => StartMeansReady
  <1>1. IInv /\ [Next]_vars => [~m_started /\ m_started' => \A b \in Listed : Ready(b)']_vars
    <2> SUFFICES ASSUME IInv, Next, ~m_started, m_started'
                 PROVE  \A b \in Listed : Ready(b)'
      BY DEF vars
    <2>1. StartCommit
      BY DEF Next, add_storage, start, stop, Destroy, CallStep, FailingStep, ClientStep,
             Connect, StartBackend, StopBackend, StopBackendThrows, Disconnect, Begin,
             BeginThrows, LoopEnds, StopCommit, StopCommitThrows, StopReturns, ConnectFails,
             StartBackendFails, StopBackendFails, DisconnectFails, BeginFails,
             StartCommitFails, StopCommitFails, ClientBegin, ClientPrepare, ClientEnd,
             ThrowWith, Throw, hub, vars
    <2> QED BY <2>1, StartCommitReady
  <1> QED BY <1>1, Inductive, PTL DEF Spec, StartMeansReady

\* stop() returns, and the hub is destroyed, only with every environment and
\* every handle closed (StopMeansClosed).
THEOREM StopMeansClosedHolds == Spec => StopMeansClosed
  <1>1. IInv /\ [Next]_vars =>
            [m_started /\ ~m_started' => \A b \in Listed : env'[b] = "closed"
                /\ \A t \in Table : dbi'[b][t] \in {"zero", "closed"}]_vars
    <2> SUFFICES ASSUME IInv, Next, m_started, ~m_started', NEW b \in Listed
                 PROVE  env'[b] = "closed" /\ \A t \in Table : dbi'[b][t] \in {"zero", "closed"}
      BY DEF vars
    <2>1. b \in Backend /\ b \in Nat /\ size \in Nat /\ idx \in Nat /\ b <= size
      BY NAssumption DEF IInv, TypeOK, Listed, Backend
    <2>2. StopReturns \/ Destroy
      BY DEF Next, add_storage, start, stop, CallStep, FailingStep, ClientStep,
             Connect, StartBackend, StopBackend, StopBackendThrows, Disconnect, Begin,
             BeginThrows, LoopEnds, StartCommit, StopCommit, StopCommitThrows, ConnectFails,
             StartBackendFails, StopBackendFails, DisconnectFails, BeginFails,
             StartCommitFails, StopCommitFails, ClientBegin, ClientPrepare, ClientEnd,
             ThrowWith, Throw, hub, vars
    <2>3. CASE StopReturns
      BY <2>1, <2>3 DEF StopReturns, At, IInv, StopLoop
    <2>4. CASE Destroy
      BY <2>1, <2>4 DEF Destroy, Closed, IInv, TypeOK, DbiStates
    <2> QED BY <2>2, <2>3, <2>4
  <1> QED BY <1>1, Inductive, PTL DEF Spec, StopMeansClosed

\* A start() that the engine refuses nothing succeeds, whatever an earlier
\* start() or stop() has left, unless an environment could not be closed
\* (StartCanBeRetried).
THEOREM StartCanBeRetriedHolds == Spec => StartCanBeRetried
  <1>1. IInv /\ [Next]_vars =>
            [call = "start" /\ call' = "none" /\ ~excused' =>
                m_started' \/ \E b \in Listed : env[b] = "broken"]_vars
    <2> SUFFICES ASSUME IInv, Next, call = "start", call' = "none", ~excused'
                 PROVE  m_started' \/ \E b \in Listed : env[b] = "broken"
      BY DEF vars
    <2>1. StartCommit \/ BeginThrows("start")
      BY DEF Next, add_storage, start, stop, Destroy, CallStep, FailingStep, ClientStep,
             Connect, StartBackend, StopBackend, StopBackendThrows, Disconnect, Begin,
             BeginThrows, LoopEnds, StopCommit, StopCommitThrows, StopReturns, ConnectFails,
             StartBackendFails, StopBackendFails, DisconnectFails, BeginFails,
             StartCommitFails, StopCommitFails, ClientBegin, ClientPrepare, ClientEnd,
             At, Loop, Goto, Advance, Fault, Refused, vars
    <2>2. CASE StartCommit
      BY <2>2 DEF StartCommit
    <2>3. CASE BeginThrows("start")
      BY <2>3, NAssumption DEF BeginThrows, At, IInv, TypeOK, StartLoop, Listed, Backend, EnvStates
    <2> QED BY <2>1, <2>2, <2>3
  <1> QED BY <1>1, Inductive, PTL DEF Spec, StartCanBeRetried

-----------------------------------------------------------------------------
(* Types                                                                   *)

\* SQLiteTypes in four parts.
PcTypes == pc \in [Threads -> Parts \cup {"idle", "returned", "threw"}] /\ using \in [Threads -> 0..MaxHandles]
CallTypes == /\ program \in [Threads -> Programs \cup {NoCall}] /\ position \in [Threads -> Nat]
             /\ seen \in [Threads -> SUBSET SUBSET Writes] /\ calls \in [Threads -> Nat]
EngineTypes == /\ lock \in [Handles -> NONE..EXCLUSIVE] /\ open \subseteq Handles
               /\ dirty \in [Handles -> SUBSET Writes] /\ stored \subseteq Writes
ObjectTypes == /\ handle \in [Connections -> 0..MaxHandles] /\ bound \in [Connections -> 0..MaxHandles]
               /\ handles \in 0..MaxHandles

\* SQLiteTypes is these parts.
LEMMA TypesParts == SQLiteTypes <=> PcTypes /\ CallTypes /\ EngineTypes /\ ObjectTypes
  BY DEF SQLiteTypes, PcTypes, CallTypes, EngineTypes, ObjectTypes

\* The initial state satisfies the invariants.
LEMMA SQLiteInitInv == SQLiteInit => SQLiteTypes /\ HandlesInv /\ CallsInv
  <1> SUFFICES ASSUME SQLiteInit PROVE SQLiteTypes /\ HandlesInv /\ CallsInv
    OBVIOUS
  <1>1. SQLiteTypes
    BY SQLiteBoundAssumption DEF SQLiteInit, SQLiteTypes, Handles, NONE, EXCLUSIVE
  <1>2. HandlesInv
    BY ConnAssumption DEF SQLiteInit, HandlesInv
  <1>3. CallsInv
    BY DEF SQLiteInit, CallsInv, CallInv, Busy, Parts
  <1> QED BY <1>1, <1>2, <1>3

\* The end of a transaction keeps the types.
LEMMA EndedTypes ==
    ASSUME EngineTypes, NEW h, Ended(h), stored' \subseteq Writes
    PROVE  EngineTypes'
  <1>1. NONE \in NONE..EXCLUSIVE /\ {} \in SUBSET Writes
    BY DEF NONE, EXCLUSIVE
  <1>2. lock' \in [Handles -> NONE..EXCLUSIVE]
    BY <1>1 DEF EngineTypes, Ended
  <1>3. dirty' \in [Handles -> SUBSET Writes]
    BY <1>1 DEF EngineTypes, Ended
  <1> QED BY <1>2, <1>3 DEF EngineTypes, Ended

\* So does a call that goes on,
LEMMA NextTypes ==
    ASSUME PcTypes, NEW t \in Threads, NEW part \in Parts \cup {"idle", "returned", "threw"}, Proceed(t, part)
    PROVE  PcTypes'
  BY SQLiteBoundAssumption DEF PcTypes, Proceed

\* a call that ends,
LEMMA LeavesTypes ==
    ASSUME PcTypes, CallTypes, NEW t \in Threads, NEW how \in {"returned", "threw"}, Leaves(t, how)
    PROVE  PcTypes' /\ CallTypes'
  BY NextTypes DEF Leaves, CallTypes

\* an exception in a call,
LEMMA CaughtTypes ==
    ASSUME PcTypes, CallTypes, NEW t \in Threads, Caught(t)
    PROVE  PcTypes' /\ CallTypes'
  <1>1. CASE pc[t] = "rollback"
    BY <1>1, LeavesTypes DEF Caught
  <1>2. CASE pc[t] # "rollback"
    <2>1. Proceed(t, "rollback") /\ UNCHANGED <<program, position, seen, calls>>
      BY <1>2 DEF Caught
    <2> QED BY <2>1, NextTypes DEF CallTypes, Parts
  <1> QED BY <1>1, <1>2

\* and a statement of the operation.
LEMMA AdvancesTypes ==
    ASSUME PcTypes, CallTypes, NEW t \in Threads, Advances(t)
    PROVE  PcTypes' /\ position' \in [Threads -> Nat]
  <1> DEFINE part == IF position'[t] = Len(program[t].operation) THEN "commit" ELSE "operation"
  <1>1. part \in Parts /\ Proceed(t, part)
    BY DEF Advances, Parts
  <1> HIDE DEF part
  <1>2. PcTypes'
    BY <1>1, NextTypes
  <1> QED BY <1>2 DEF CallTypes, Advances

\* Every step keeps the types.
LEMMA TypesStep == ASSUME SQLiteTypes, [SQLiteNext]_sqlVars PROVE SQLiteTypes'
  <1>0. PcTypes /\ CallTypes /\ EngineTypes /\ ObjectTypes
    BY TypesParts
  <1>a. MaxHandles \in Nat
    BY SQLiteBoundAssumption
  <1> SUFFICES PcTypes' /\ CallTypes' /\ EngineTypes' /\ ObjectTypes'
    BY DEF SQLiteTypes, PcTypes, CallTypes, EngineTypes, ObjectTypes
  <1> DEFINE Goal == PcTypes' /\ CallTypes' /\ EngineTypes' /\ ObjectTypes'
  <1>b. (UNCHANGED objects /\ UNCHANGED handles => ObjectTypes') /\ (UNCHANGED engine => EngineTypes') /\ (UNCHANGED threads => PcTypes' /\ CallTypes')
    BY <1>0 DEF PcTypes, CallTypes, EngineTypes, ObjectTypes, objects, engine, threads
  <1>1. ASSUME NEW c \in Connections, connect(c) PROVE Goal
    <2>1. ObjectTypes'
      BY <1>0, <1>1, <1>a DEF ObjectTypes, connect
    <2>2. EngineTypes' /\ UNCHANGED threads
      BY <1>0, <1>1 DEF EngineTypes, connect
    <2> QED BY <1>b, <2>1, <2>2
  <1>1a. ASSUME NEW c \in Connections, connect_fails(c) PROVE Goal
    <2>1. ObjectTypes'
      BY <1>0, <1>1a, <1>a DEF ObjectTypes, connect_fails
    <2>2. EngineTypes' /\ UNCHANGED threads
      BY <1>0, <1>1a DEF EngineTypes, connect_fails
    <2> QED BY <1>b, <2>1, <2>2
  <1>2. ASSUME NEW c \in Connections, disconnect(c) PROVE Goal
    <2>1. ObjectTypes'
      BY <1>0, <1>2, <1>a DEF ObjectTypes, disconnect, engine
    <2> QED BY <1>2, <1>b, <2>1 DEF disconnect
  <1>3. ASSUME NEW c \in Connections, destruct(c) PROVE Goal
    <2>1. ObjectTypes'
      BY <1>0, <1>3, <1>a DEF ObjectTypes, destruct
    <2>2. EngineTypes'
      BY <1>0, <1>3, EndedTypes DEF destruct, EngineTypes
    <2> QED BY <1>3, <1>b, <2>1, <2>2 DEF destruct
  <1>4. ASSUME NEW t \in Threads, transaction(t) PROVE Goal
    <2>1. PcTypes'
      BY <1>0, <1>4 DEF PcTypes, transaction, Parts
    <2>2. CallTypes'
      <3>1. /\ \E p \in Programs : program' = [program EXCEPT ![t] = p]
            /\ calls' = [calls EXCEPT ![t] = @ + 1] /\ UNCHANGED <<position, seen>>
        BY <1>4 DEF transaction
      <3> QED BY <1>0, <3>1 DEF CallTypes
    <2>3. UNCHANGED <<engine, objects>> /\ UNCHANGED handles
      BY <1>4 DEF transaction, engine
    <2> QED BY <1>b, <2>1, <2>2, <2>3
  <1>5. ASSUME NEW t \in Threads, enter(t) PROVE Goal
    <2>1. UNCHANGED <<engine, objects>> /\ UNCHANGED handles
      BY <1>5 DEF enter, engine
    <2>2. CASE handle[Conn[t]] = 0
      BY <1>0, <1>5, <1>b, <2>1, <2>2, CaughtTypes DEF enter
    <2>3. CASE handle[Conn[t]] # 0
      <3>1. using' = [using EXCEPT ![t] = handle[Conn[t]]] /\ UNCHANGED <<pc, program, position, seen, calls>>
        BY <1>5, <2>3 DEF enter
      <3>2. PcTypes' /\ CallTypes'
        BY <1>0, <3>1, ConnAssumption DEF PcTypes, CallTypes, ObjectTypes
      <3> QED BY <1>b, <2>1, <3>2
    <2> QED BY <2>2, <2>3
  <1>6. ASSUME NEW t \in Threads, operation_throws(t) \/ misplaced(t) PROVE Goal
    <2>1. Caught(t) /\ UNCHANGED <<engine, objects>> /\ UNCHANGED handles
      BY <1>6 DEF operation_throws, misplaced, engine
    <2> QED BY <1>0, <1>b, <2>1, CaughtTypes
  <1>7. ASSUME NEW t \in Threads, fails(t) PROVE Goal
    <2>1. Caught(t) /\ UNCHANGED <<handles, stored, objects>> /\ (Ended(using[t]) \/ UNCHANGED <<lock, open, dirty>>)
      BY <1>7 DEF fails
    <2>2. EngineTypes'
      BY <1>0, <2>1, EndedTypes DEF EngineTypes
    <2> QED BY <1>0, <1>b, <2>1, <2>2, CaughtTypes
  <1>8. ASSUME NEW t \in Threads, begin(t) PROVE Goal
    <2> DEFINE part == IF program[t].operation = <<>> THEN "commit" ELSE "operation"
    <2>1. /\ part \in Parts /\ Proceed(t, part)
          /\ UNCHANGED <<handles, dirty, stored, program, position, seen, calls, objects>>
      BY <1>8 DEF begin, Parts
    <2> HIDE DEF part
    <2>2. PcTypes' /\ CallTypes'
      BY <1>0, <2>1, NextTypes DEF CallTypes
    <2>3. Level(program[t].mode) \in NONE..EXCLUSIVE /\ using[t] \in Handles
      BY <1>0, <1>8 DEF Level, NONE, RESERVED, EXCLUSIVE, begin, PcTypes, Handles
    <2>4. EngineTypes'
      BY <1>0, <1>8, <2>1, <2>3 DEF EngineTypes, begin
    <2> QED BY <1>b, <2>1, <2>2, <2>4
  <1>9. ASSUME NEW t \in Threads, reads(t) PROVE Goal
    <2>1. /\ PcTypes' /\ position' \in [Threads -> Nat]
          /\ UNCHANGED <<handles, open, dirty, stored, program, calls, objects>>
      BY <1>0, <1>9, AdvancesTypes DEF reads
    <2>2. CallTypes'
      BY <1>0, <1>9, <2>1 DEF CallTypes, EngineTypes, reads
    <2>3. lock' \in [Handles -> NONE..EXCLUSIVE]
      BY <1>0, <1>9 DEF reads, EngineTypes, Raised, NONE, SHARED, EXCLUSIVE
    <2> QED BY <1>0, <1>b, <2>1, <2>2, <2>3 DEF EngineTypes
  <1>10. ASSUME NEW t \in Threads, writes(t) PROVE Goal
    <2>1. /\ PcTypes' /\ position' \in [Threads -> Nat]
          /\ UNCHANGED <<handles, open, program, seen, calls, objects>>
      BY <1>0, <1>10, AdvancesTypes DEF writes
    <2>2. CallTypes'
      BY <1>0, <1>10, <2>1 DEF CallTypes
    <2>3. Write(t, position[t] + 1) \in Writes
      BY <1>0 DEF CallTypes, Write, Writes
    <2>4. lock' \in [Handles -> NONE..EXCLUSIVE]
      BY <1>0, <1>10 DEF writes, EngineTypes, Raised, NONE, RESERVED, EXCLUSIVE
    <2>5. dirty' \in [Handles -> SUBSET Writes] /\ stored' \subseteq Writes
      BY <1>0, <1>10, <2>3 DEF writes, EngineTypes
    <2> QED BY <1>0, <1>b, <2>1, <2>2, <2>4, <2>5 DEF EngineTypes
  <1>11. ASSUME NEW t \in Threads, waits_for_readers(t) PROVE Goal
    <2>1. EngineTypes'
      BY <1>0, <1>11 DEF EngineTypes, waits_for_readers, NONE, PENDING, EXCLUSIVE
    <2> QED BY <1>11, <1>b, <2>1 DEF waits_for_readers
  <1>12. ASSUME NEW t \in Threads, commit(t) \/ rollback(t) PROVE Goal
    <2>1. Ended(using[t]) /\ UNCHANGED <<handles, objects>> /\ (Leaves(t, "returned") \/ Leaves(t, "threw"))
      BY <1>12 DEF commit, rollback
    <2>2. stored' \subseteq Writes
      BY <1>0, <1>12 DEF commit, rollback, EngineTypes
    <2>3. EngineTypes'
      BY <1>0, <2>1, <2>2, EndedTypes
    <2> QED BY <1>0, <1>b, <2>1, <2>3, LeavesTypes
  <1>13. CASE UNCHANGED sqlVars
    <2>1. UNCHANGED <<engine, objects, threads>> /\ UNCHANGED handles
      BY <1>13 DEF sqlVars, engine, objects, threads
    <2> QED BY <1>b, <2>1
  <1> QED BY <1>1, <1>1a, <1>2, <1>3, <1>4, <1>5, <1>6, <1>7, <1>8, <1>9, <1>10, <1>11, <1>12, <1>13
          DEF SQLiteNext, Step, Statement

-----------------------------------------------------------------------------
(* Handles                                                                 *)

\* A step of a thread t in its call changes only what its own handle h holds.
LEMMA CallKeepsHandles ==
    ASSUME SQLiteTypes, HandlesInv, NEW t \in Threads, NEW h, h = bound[Conn[t]],
           UNCHANGED <<handle, bound, handles>>,
           pc' = [pc EXCEPT ![t] = pc'[t]], using' = [using EXCEPT ![t] = using'[t]],
           using'[t] # 0 => Busy(t)' /\ using'[t] = h,
           open' \subseteq Handles,
           \A o \in Handles \ {h} : (o \in open' <=> o \in open) /\ lock'[o] = lock[o] /\ dirty'[o] = dirty[o],
           h \in Handles \ open' => lock'[h] = NONE /\ dirty'[h] = {},
           Busy(t)' \/ handle[Conn[t]] = 0 \/ h \notin open'
    PROVE  HandlesInv'
  <1>1. /\ pc \in [Threads -> Parts \cup {"idle", "returned", "threw"}]
        /\ using \in [Threads -> 0..MaxHandles] /\ Conn[t] \in Connections
    BY ConnAssumption DEF SQLiteTypes
  <1>2. \A u \in Threads \ {t} : (Busy(u)' <=> Busy(u)) /\ using'[u] = using[u]
    BY <1>1 DEF Busy
  <1>3. \A c \in Connections : handle[c] \in {0, bound[c]} /\ bound[c] <= handles
    BY DEF HandlesInv
  <1>4. \A c, d \in Connections : bound[c] # 0 /\ bound[c] = bound[d] => c = d
    BY DEF HandlesInv
  <1>5. \A o \in Handles : o \in open' => o <= handles
    BY <1>1, <1>3 DEF HandlesInv
  <1>6. \A o \in Handles \ open' : lock'[o] = NONE /\ dirty'[o] = {}
    BY DEF HandlesInv
  <1>7. \A u \in Threads : using'[u] # 0 => Busy(u)' /\ using'[u] = bound[Conn[u]]
    BY <1>2 DEF HandlesInv
  <1>8. ASSUME NEW c \in Connections, handle[c] # 0, handle[c] \in open' PROVE InCall(c)'
    <2>1. handle[c] = bound[c]
      BY <1>3, <1>8
    <2>2. CASE c = Conn[t]
      <3>1. Busy(t)'
        BY <1>8, <2>1, <2>2
      <3> QED BY <2>2, <3>1 DEF InCall
    <2>3. CASE c # Conn[t]
      <3>1. handle[c] # h
        BY <1>1, <1>4, <1>8, <2>1, <2>3
      <3>2. handle[c] \in open
        BY <1>8, <3>1
      <3>3. PICK u \in Threads : Conn[u] = c /\ Busy(u)
        BY <1>8, <3>2 DEF HandlesInv, InCall
      <3>4. Busy(u)'
        BY <1>2, <2>3, <3>3
      <3> QED BY <3>3, <3>4 DEF InCall
    <2> QED BY <2>2, <2>3
  <1> QED BY <1>3, <1>4, <1>5, <1>6, <1>7, <1>8 DEF HandlesInv

\* A call that goes on is in no statement, and only its thread changes.
LEMMA NextCall ==
    ASSUME SQLiteTypes, NEW t \in Threads, NEW part, Proceed(t, part)
    PROVE  /\ pc' = [pc EXCEPT ![t] = pc'[t]] /\ using' = [using EXCEPT ![t] = using'[t]]
           /\ pc'[t] = part /\ using'[t] = 0
  BY DEF Proceed, SQLiteTypes

\* An exception leads to ROLLBACK, one there out of the call.
LEMMA CaughtCall ==
    ASSUME SQLiteTypes, NEW t \in Threads, Caught(t)
    PROVE  /\ pc' = [pc EXCEPT ![t] = pc'[t]] /\ using' = [using EXCEPT ![t] = using'[t]]
           /\ using'[t] = 0
           /\ pc'[t] = IF pc[t] = "rollback" THEN "threw" ELSE "rollback"
  <1>1. CASE pc[t] = "rollback"
    BY <1>1, NextCall DEF Caught, Leaves
  <1>2. CASE pc[t] # "rollback"
    BY <1>2, NextCall DEF Caught
  <1> QED BY <1>1, <1>2

\* A handle whose transaction ends holds nothing, and others what they did.
LEMMA EndedHandle ==
    ASSUME SQLiteTypes, NEW h \in Handles, Ended(h)
    PROVE  /\ open' \subseteq Handles /\ h \notin open' /\ lock'[h] = NONE /\ dirty'[h] = {}
           /\ \A o \in Handles \ {h} : (o \in open' <=> o \in open) /\ lock'[o] = lock[o] /\ dirty'[o] = dirty[o]
  BY DEF Ended, SQLiteTypes

\* The steps of a call that leave the engine alone.
LEMMA QuietCall ==
    ASSUME SQLiteTypes, HandlesInv, NEW t \in Threads, UNCHANGED <<engine, objects>>,
           pc' = [pc EXCEPT ![t] = pc'[t]], using' = [using EXCEPT ![t] = using'[t]],
           using'[t] # 0 => Busy(t)' /\ using'[t] = bound[Conn[t]],
           Busy(t)' \/ handle[Conn[t]] = 0 \/ bound[Conn[t]] \notin open
    PROVE  HandlesInv'
  <1>1. UNCHANGED <<handle, bound, handles, open, lock, dirty>> /\ open \subseteq Handles
    BY DEF engine, objects, SQLiteTypes
  <1>2. \A o \in Handles \ open : lock[o] = NONE /\ dirty[o] = {}
    BY DEF HandlesInv
  <1> QED BY <1>1, <1>2, CallKeepsHandles

\* Every step keeps the invariant of the handles.
LEMMA HandlesStep == ASSUME SQLiteTypes, HandlesInv, [SQLiteNext]_sqlVars PROVE HandlesInv'
  <1>a. /\ handle \in [Connections -> 0..MaxHandles] /\ bound \in [Connections -> 0..MaxHandles]
        /\ pc \in [Threads -> Parts \cup {"idle", "returned", "threw"}] /\ using \in [Threads -> 0..MaxHandles]
        /\ handles \in Nat /\ open \subseteq Handles
        /\ Conn \in [Threads -> Connections] /\ MaxHandles \in Nat
    BY ConnAssumption, SQLiteBoundAssumption DEF SQLiteTypes
  <1>b. ASSUME NEW t \in Threads, using[t] # 0
        PROVE  using[t] = bound[Conn[t]] /\ using[t] \in Handles /\ Busy(t)
    BY <1>a, <1>b DEF HandlesInv, Handles
  <1>1. ASSUME NEW c \in Connections, connect(c) PROVE HandlesInv'
    <2>1. /\ handle[c] = 0 /\ ~InCall(c) /\ handles < MaxHandles
          /\ handles' = handles + 1
          /\ handle' = [handle EXCEPT ![c] = handles + 1] /\ bound' = [bound EXCEPT ![c] = handles + 1]
          /\ UNCHANGED <<lock, open, dirty, pc, using>>
      BY <1>1 DEF connect, threads
    <2>2. \A d \in Connections : handle'[d] \in {0, bound'[d]} /\ bound'[d] <= handles'
      BY <1>a, <2>1 DEF HandlesInv
    <2>3. \A d, e \in Connections : bound'[d] # 0 /\ bound'[d] = bound'[e] => d = e
      BY <1>a, <2>1 DEF HandlesInv
    <2>4. \A h \in Handles : h \in open => h <= handles'
      BY <1>a, <2>1 DEF HandlesInv, Handles
    <2>5. \A t \in Threads : using[t] # 0 => Busy(t)' /\ using[t] = bound'[Conn[t]]
      BY <1>a, <2>1 DEF HandlesInv, InCall, Busy
    <2>6. ASSUME NEW d \in Connections, handle'[d] # 0, handle'[d] \in open PROVE InCall(d)'
      <3>1. handles + 1 \notin open
        BY <1>a DEF HandlesInv, Handles
      <3>2. d # c /\ handle'[d] = handle[d]
        BY <1>a, <2>1, <2>6, <3>1
      <3>3. InCall(d)
        BY <2>6, <3>2 DEF HandlesInv
      <3> QED BY <2>1, <3>3 DEF InCall, Busy
    <2> QED BY <2>1, <2>2, <2>3, <2>4, <2>5, <2>6 DEF HandlesInv
  <1>1a. ASSUME NEW c \in Connections, connect_fails(c) PROVE HandlesInv'
    <2>1. /\ handle[c] = 0 /\ ~InCall(c)
          /\ UNCHANGED <<handle, lock, open, dirty, pc, using>>
          /\ \/ UNCHANGED <<handles, bound>>
             \/ /\ handles' = handles + 1 /\ handles < MaxHandles
                /\ bound' = [bound EXCEPT ![c] = handles + 1]
      BY <1>1a DEF connect_fails, threads
    <2>2. \A d \in Connections : handle'[d] \in {0, bound'[d]} /\ bound'[d] <= handles'
      BY <1>a, <2>1 DEF HandlesInv
    <2>3. \A d, e \in Connections : bound'[d] # 0 /\ bound'[d] = bound'[e] => d = e
      BY <1>a, <2>1 DEF HandlesInv
    <2>4. \A h \in Handles : h \in open => h <= handles'
      BY <1>a, <2>1 DEF HandlesInv, Handles
    <2>5. \A t \in Threads : using[t] # 0 => Busy(t)' /\ using[t] = bound'[Conn[t]]
      BY <1>a, <2>1 DEF HandlesInv, InCall, Busy
    <2>6. \A d \in Connections : handle'[d] # 0 /\ handle'[d] \in open => InCall(d)'
      BY <2>1 DEF HandlesInv, InCall, Busy
    <2> QED BY <2>1, <2>2, <2>3, <2>4, <2>5, <2>6 DEF HandlesInv
  <1>2. ASSUME NEW c \in Connections, disconnect(c) PROVE HandlesInv'
    <2>1. handle' = [handle EXCEPT ![c] = 0] /\ UNCHANGED <<bound, handles, lock, open, dirty, pc, using>>
      BY <1>2 DEF disconnect, engine, threads
    <2>2. \A d \in Connections : handle'[d] \in {0, handle[d]}
      BY <1>a, <2>1
    <2> QED BY <2>1, <2>2 DEF HandlesInv, InCall, Busy
  <1>3. ASSUME NEW c \in Connections, destruct(c) PROVE HandlesInv'
    <2>1. /\ bound[c] # 0 /\ ~InCall(c) /\ Ended(bound[c])
          /\ handle' = [handle EXCEPT ![c] = 0] /\ bound' = [bound EXCEPT ![c] = 0]
          /\ UNCHANGED <<handles, pc, using>>
      BY <1>3 DEF destruct, threads
    <2> DEFINE h == bound[c]
    <2>2. h \in Handles
      BY <1>a, <2>1 DEF Handles
    <2>3. /\ open' \subseteq Handles /\ h \notin open' /\ lock'[h] = NONE /\ dirty'[h] = {}
          /\ \A o \in Handles \ {h} : (o \in open' <=> o \in open) /\ lock'[o] = lock[o] /\ dirty'[o] = dirty[o]
      <3> HIDE DEF h
      <3> QED BY <2>1, <2>2, EndedHandle DEF h
    <2>4. \A d \in Connections : handle'[d] \in {0, bound'[d]} /\ bound'[d] <= handles'
      BY <1>a, <2>1 DEF HandlesInv
    <2>5. \A d, e \in Connections : bound'[d] # 0 /\ bound'[d] = bound'[e] => d = e
      BY <1>a, <2>1 DEF HandlesInv
    <2>6. \A o \in Handles : (o \in open' => o <= handles') /\ (o \notin open' => lock'[o] = NONE /\ dirty'[o] = {})
      BY <2>1, <2>3 DEF HandlesInv
    <2>7. \A t \in Threads : using[t] # 0 => Busy(t)' /\ using[t] = bound'[Conn[t]]
      BY <1>a, <2>1 DEF HandlesInv, InCall, Busy
    <2>8. ASSUME NEW d \in Connections, handle'[d] # 0, handle'[d] \in open' PROVE InCall(d)'
      <3>1. d # c /\ handle[d] # 0 /\ handle[d] \in open
        BY <1>a, <2>1, <2>3, <2>8
      <3>2. InCall(d)
        BY <3>1 DEF HandlesInv
      <3> QED BY <2>1, <3>2 DEF InCall, Busy
    <2> QED BY <2>1, <2>4, <2>5, <2>6, <2>7, <2>8 DEF HandlesInv
  <1>4. ASSUME NEW t \in Threads, transaction(t) PROVE HandlesInv'
    <2>1. pc' = [pc EXCEPT ![t] = "begin"] /\ UNCHANGED <<using, engine, objects>>
      BY <1>4 DEF transaction
    <2>2. pc'[t] = "begin" /\ ~Busy(t)
      BY <1>4, <1>a, <2>1 DEF transaction
    <2>3. Busy(t)' /\ using[t] = 0
      BY <1>b, <2>2 DEF Busy, Parts
    <2> QED BY <1>a, <2>1, <2>2, <2>3, QuietCall
  <1>5. ASSUME NEW t \in Threads, enter(t) PROVE HandlesInv'
    <2>1. UNCHANGED <<engine, objects>> /\ Busy(t)
      BY <1>5 DEF enter
    <2>2. CASE handle[Conn[t]] = 0
      <3>1. Caught(t)
        BY <1>5, <2>2 DEF enter
      <3> QED BY <2>1, <2>2, <3>1, CaughtCall, QuietCall
    <2>3. CASE handle[Conn[t]] # 0
      <3>1. using' = [using EXCEPT ![t] = handle[Conn[t]]] /\ pc' = pc
        BY <1>5, <2>3 DEF enter
      <3>2. using'[t] = handle[Conn[t]] /\ handle[Conn[t]] = bound[Conn[t]] /\ Busy(t)'
        BY <1>a, <2>1, <2>3, <3>1 DEF HandlesInv, Busy
      <3> QED BY <1>a, <2>1, <3>1, <3>2, QuietCall
    <2> QED BY <2>2, <2>3
  <1>6. ASSUME NEW t \in Threads, operation_throws(t) PROVE HandlesInv'
    <2>1. Caught(t) /\ UNCHANGED <<engine, objects>> /\ pc[t] = "operation"
      BY <1>6 DEF operation_throws, NextIs
    <2>2. Busy(t)'
      BY <2>1, CaughtCall DEF Busy, Parts
    <2> QED BY <2>1, <2>2, CaughtCall, QuietCall
  <1>7. ASSUME NEW t \in Threads, misplaced(t) PROVE HandlesInv'
    <2>1. Caught(t) /\ UNCHANGED <<engine, objects>> /\ using[t] # 0
      BY <1>7 DEF misplaced
    <2>2. Busy(t)' \/ bound[Conn[t]] \notin open
      <3>1. pc[t] = "rollback" => using[t] \notin open
        BY <1>7 DEF misplaced
      <3>2. pc[t] # "rollback" => Busy(t)'
        BY <2>1, CaughtCall DEF Busy, Parts
      <3> QED BY <1>b, <2>1, <3>1, <3>2
    <2> QED BY <2>1, <2>2, CaughtCall, QuietCall
  <1>8. ASSUME NEW t \in Threads, fails(t) PROVE HandlesInv'
    <2>1. /\ using[t] # 0 /\ pc[t] # "rollback" /\ Caught(t) /\ UNCHANGED <<handles, stored, objects>>
          /\ Ended(using[t]) \/ UNCHANGED <<lock, open, dirty>>
      BY <1>8 DEF fails
    <2>2. Busy(t)' /\ using[t] = bound[Conn[t]] /\ using[t] \in Handles
      BY <1>b, <2>1, CaughtCall DEF Busy, Parts
    <2>3. CASE Ended(using[t])
      BY <2>1, <2>2, <2>3, CaughtCall, EndedHandle, CallKeepsHandles DEF objects
    <2>4. CASE UNCHANGED <<lock, open, dirty>>
      <3>1. UNCHANGED <<engine, objects>>
        BY <2>1, <2>4 DEF engine
      <3> QED BY <2>1, <2>2, <3>1, CaughtCall, QuietCall
    <2> QED BY <2>1, <2>3, <2>4
  <1>9. ASSUME NEW t \in Threads, begin(t) PROVE HandlesInv'
    <2> DEFINE part == IF program[t].operation = <<>> THEN "commit" ELSE "operation"
               level == Level(program[t].mode)
    <2>1. /\ using[t] # 0 /\ part \in Parts /\ Proceed(t, part)
          /\ open' = open \cup {using[t]} /\ lock' = [lock EXCEPT ![using[t]] = level]
          /\ UNCHANGED <<handles, dirty, objects>>
      BY <1>9 DEF begin, Parts
    <2> HIDE DEF part, level
    <2>2. using[t] = bound[Conn[t]] /\ using[t] \in Handles
      BY <1>b, <2>1
    <2>3. /\ open' \subseteq Handles /\ using[t] \in open'
          /\ \A o \in Handles \ {using[t]} : (o \in open' <=> o \in open) /\ lock'[o] = lock[o] /\ dirty'[o] = dirty[o]
      BY <1>a, <2>1, <2>2 DEF SQLiteTypes
    <2>4. Busy(t)' /\ using'[t] = 0 /\ pc' = [pc EXCEPT ![t] = pc'[t]] /\ using' = [using EXCEPT ![t] = using'[t]]
      BY <2>1, NextCall DEF Busy
    <2> QED BY <2>1, <2>2, <2>3, <2>4, CallKeepsHandles DEF objects
  <1>10. ASSUME NEW t \in Threads, reads(t) \/ writes(t) PROVE HandlesInv'
    <2>1. /\ using[t] # 0 /\ Advances(t) /\ UNCHANGED <<handles, open, objects>>
          /\ using[t] \notin open => UNCHANGED <<lock, dirty>>
      BY <1>10 DEF reads, writes
    <2>2. using[t] = bound[Conn[t]] /\ using[t] \in Handles
      BY <1>b, <2>1
    <2>3. \A o \in Handles \ {using[t]} : lock'[o] = lock[o] /\ dirty'[o] = dirty[o]
      BY <1>10 DEF reads, writes, SQLiteTypes
    <2>4. using[t] \in Handles \ open' => lock'[using[t]] = NONE /\ dirty'[using[t]] = {}
      BY <2>1, <2>2 DEF HandlesInv
    <2>5. Busy(t)' /\ using'[t] = 0 /\ pc' = [pc EXCEPT ![t] = pc'[t]] /\ using' = [using EXCEPT ![t] = using'[t]]
      <3> DEFINE part == IF position'[t] = Len(program[t].operation) THEN "commit" ELSE "operation"
      <3>1. part \in Parts /\ Proceed(t, part)
        BY <2>1 DEF Advances, Parts
      <3> HIDE DEF part
      <3> QED BY <3>1, NextCall DEF Busy
    <2> QED BY <1>a, <2>1, <2>2, <2>3, <2>4, <2>5, CallKeepsHandles DEF objects
  <1>11. ASSUME NEW t \in Threads, waits_for_readers(t) PROVE HandlesInv'
    <2>1. /\ using[t] \in open /\ lock' = [lock EXCEPT ![using[t]] = PENDING]
          /\ UNCHANGED <<handles, open, dirty, pc, using, objects>>
      BY <1>11 DEF waits_for_readers, threads
    <2>2. using[t] # 0
      BY <1>a, <2>1 DEF Handles
    <2>3. using[t] = bound[Conn[t]] /\ using[t] \in Handles /\ Busy(t) /\ Busy(t)'
      BY <1>b, <2>1, <2>2 DEF Busy
    <2>4. \A o \in Handles \ {using[t]} : lock'[o] = lock[o]
      BY <2>1 DEF SQLiteTypes
    <2>5. pc' = [pc EXCEPT ![t] = pc'[t]] /\ using' = [using EXCEPT ![t] = using'[t]]
      BY <1>a, <2>1
    <2> QED BY <1>a, <2>1, <2>3, <2>4, <2>5, CallKeepsHandles DEF objects
  <1>12. ASSUME NEW t \in Threads, commit(t) \/ rollback(t) PROVE HandlesInv'
    <2>1. /\ using[t] \in open /\ Ended(using[t]) /\ UNCHANGED <<handles, objects>>
          /\ Proceed(t, "returned") \/ Proceed(t, "threw")
      BY <1>12 DEF commit, rollback, Leaves
    <2>2. using[t] # 0
      BY <1>a, <2>1 DEF Handles
    <2>3. using[t] = bound[Conn[t]] /\ using[t] \in Handles
      BY <1>b, <2>2
    <2>4. using'[t] = 0 /\ pc' = [pc EXCEPT ![t] = pc'[t]] /\ using' = [using EXCEPT ![t] = using'[t]]
      BY <2>1, NextCall
    <2> QED BY <2>1, <2>3, <2>4, EndedHandle, CallKeepsHandles DEF objects
  <1>13. CASE UNCHANGED sqlVars
    BY <1>13 DEF sqlVars, HandlesInv, InCall, Busy
  <1> QED BY <1>1, <1>1a, <1>2, <1>3, <1>4, <1>5, <1>6, <1>7, <1>8, <1>9, <1>10, <1>11, <1>12, <1>13
          DEF SQLiteNext, Step, Statement

\* Between two calls a connection's handle has no transaction, no lock and no
\* change, for any number of threads that share connections in any way.
THEOREM IdleHoldsNothingHolds == SQLiteSpec => []IdleHoldsNothing
  <1>1. SQLiteTypes /\ HandlesInv => IdleHoldsNothing
    BY DEF SQLiteTypes, HandlesInv, IdleHoldsNothing, Handles
  <1>2. SQLiteTypes /\ HandlesInv /\ [SQLiteNext]_sqlVars => (SQLiteTypes /\ HandlesInv)'
    BY TypesStep, HandlesStep
  <1> QED BY <1>1, <1>2, SQLiteInitInv, PTL DEF SQLiteSpec

-----------------------------------------------------------------------------
(* Calls                                                                   *)

\* What a call has written after n statements of its operation.
Written(t, n) == {w \in WritesOf(t) : w[3] <= n}

\* It grows with the statements that write, from nothing to all the call writes.
LEMMA WrittenSoFar ==
    ASSUME SQLiteTypes, NEW t \in Threads, NEW n \in Nat
    PROVE  /\ Written(t, 0) = {}
           /\ Written(t, Len(program[t].operation)) = WritesOf(t)
           /\ n < Len(program[t].operation) /\ program[t].operation[n + 1] # "write" =>
                Written(t, n + 1) = Written(t, n)
           /\ n < Len(program[t].operation) /\ program[t].operation[n + 1] = "write" =>
                Written(t, n + 1) = Written(t, n) \cup {Write(t, n + 1)}
  <1> DEFINE op == program[t].operation
  <1>1. op \in Seq({"read", "write", "throw"})
    <2>1. program[t] \in Programs \cup {NoCall}
      BY DEF SQLiteTypes
    <2>2. CASE program[t] \in Programs
      BY <2>2, ProgramsAssumption
    <2>3. CASE program[t] = NoCall
      <3>1. op = <<>>
        BY <2>3 DEF NoCall
      <3> QED BY <3>1
    <2> QED BY <2>1, <2>2, <2>3
  <1> HIDE DEF op
  <1>2. DOMAIN op = 1..Len(op) /\ Len(op) \in Nat
    BY <1>1
  <1>3. \A w : \A m \in Int : w \in Written(t, m) <=> \E k \in 1..Len(op) : op[k] = "write" /\ k <= m /\ w = <<t, calls[t], k>>
    BY <1>2 DEF Written, WritesOf, Write, op
  <1>4. Written(t, 0) = {}
    BY <1>2, <1>3
  <1>5. Written(t, Len(op)) = WritesOf(t)
    <2>1. \A w : w \in WritesOf(t) <=> \E k \in 1..Len(op) : op[k] = "write" /\ w = <<t, calls[t], k>>
      BY <1>2 DEF WritesOf, Write, op
    <2>2. \A w : w \in Written(t, Len(op)) <=> w \in WritesOf(t)
      BY <1>2, <1>3, <2>1
    <2> QED BY <2>2
  <1>6. ASSUME n < Len(op), op[n + 1] # "write" PROVE Written(t, n + 1) = Written(t, n)
    <2>1. \A k \in 1..Len(op) : op[k] = "write" => (k <= n + 1 <=> k <= n)
      BY <1>2, <1>6
    <2>2. \A w : w \in Written(t, n + 1) <=> w \in Written(t, n)
      BY <1>3, <2>1
    <2> QED BY <2>2
  <1>7. ASSUME n < Len(op), op[n + 1] = "write" PROVE Written(t, n + 1) = Written(t, n) \cup {Write(t, n + 1)}
    <2>1. \A k \in 1..Len(op) : k <= n + 1 <=> k <= n \/ k = n + 1
      BY <1>2
    <2>2. n + 1 \in 1..Len(op)
      BY <1>2, <1>7
    <2>3. \A w : w \in Written(t, n + 1) <=> w \in Written(t, n) \/ w = <<t, calls[t], n + 1>>
      BY <1>3, <1>7, <2>1, <2>2
    <2>4. \A w : w \in Written(t, n + 1) <=> w \in Written(t, n) \cup {Write(t, n + 1)}
      BY <2>3 DEF Write
    <2> QED BY <2>4
  <1> QED BY <1>4, <1>5, <1>6, <1>7 DEF op

\* The statements of a thread run on a handle no other thread uses.
LEMMA HandlesApart ==
    ASSUME OwnConnections, HandlesInv, NEW t \in Threads, NEW u \in Threads \ {t}, using[t] # 0
    PROVE  bound[Conn[u]] # using[t]
  <1>1. Conn[t] \in Connections /\ Conn[u] \in Connections /\ Conn[t] # Conn[u]
    BY ConnAssumption DEF OwnConnections
  <1> QED BY <1>1 DEF HandlesInv

\* A call is as it was when its variables, its handle and, if it has read it,
\* the database are.
LEMMA CallKept ==
    ASSUME NEW u \in Threads, CallInv(u),
           pc'[u] = pc[u], program'[u] = program[u], position'[u] = position[u],
           seen'[u] = seen[u], calls'[u] = calls[u],
           pc[u] \in {"operation", "commit"} /\ bound[Conn[u]] \in open =>
                /\ bound'[Conn[u]] = bound[Conn[u]] /\ bound[Conn[u]] \in open'
                /\ dirty'[bound[Conn[u]]] = dirty[bound[Conn[u]]]
                /\ seen[u] # {} /\ lock[bound[Conn[u]]] >= SHARED =>
                        stored' = stored /\ lock'[bound[Conn[u]]] >= SHARED
    PROVE  CallInv(u)'
  <1>1. (Busy(u)' <=> Busy(u)) /\ WritesOf(u)' = WritesOf(u)
    BY DEF Busy, WritesOf, Write
  <1> QED BY <1>1 DEF CallInv

\* A step of another thread on its own handle leaves a call as it was, if it
\* changes the database only when no other handle has a lock.
LEMMA OtherCalls ==
    ASSUME OwnConnections, SQLiteTypes, HandlesInv, CallsInv, NEW t \in Threads, bound' = bound,
           \A u \in Threads \ {t} : /\ pc'[u] = pc[u] /\ program'[u] = program[u] /\ position'[u] = position[u]
                                    /\ seen'[u] = seen[u] /\ calls'[u] = calls[u],
           \/ UNCHANGED engine
           \/ /\ using[t] # 0
              /\ \A o \in Handles \ {using[t]} : (o \in open' <=> o \in open) /\ lock'[o] = lock[o] /\ dirty'[o] = dirty[o]
              /\ stored' = stored \/ MayExclude(using[t])
    PROVE  \A u \in Threads \ {t} : CallInv(u)'
  <1> SUFFICES ASSUME NEW u \in Threads \ {t} PROVE CallInv(u)'
    OBVIOUS
  <1> DEFINE h == bound[Conn[u]]
  <1>1. CallInv(u)
    BY DEF CallsInv
  <1>2. CASE UNCHANGED engine
    <2>1. UNCHANGED <<open, dirty, lock, stored>>
      BY <1>2 DEF engine
    <2> QED BY <1>1, <2>1, CallKept
  <1>3. CASE /\ using[t] # 0
             /\ \A o \in Handles \ {using[t]} : (o \in open' <=> o \in open) /\ lock'[o] = lock[o] /\ dirty'[o] = dirty[o]
             /\ stored' = stored \/ MayExclude(using[t])
    <2>1. h # using[t]
      BY <1>3, HandlesApart
    <2>2. ASSUME h \in open PROVE h \in open' /\ dirty'[h] = dirty[h] /\ lock'[h] = lock[h] /\ (lock[h] >= SHARED => stored' = stored)
      <3>1. h \in Handles
        BY <2>2 DEF SQLiteTypes
      <3>2. MayExclude(using[t]) => ~(lock[h] >= SHARED)
        BY <2>1, <3>1 DEF MayExclude, Others
      <3> QED BY <1>3, <2>1, <2>2, <3>1, <3>2
    <2> HIDE DEF h
    <2> QED BY <1>1, <2>2, CallKept DEF h
  <1> QED BY <1>2, <1>3

\* How a call ends or goes on, with the other calls left alone.
LEMMA LeavesCalls ==
    ASSUME SQLiteTypes, NEW t \in Threads, NEW how \in {"returned", "threw"}, Leaves(t, how)
    PROVE  /\ \A u \in Threads \ {t} : /\ pc'[u] = pc[u] /\ program'[u] = program[u] /\ position'[u] = position[u]
                                       /\ seen'[u] = seen[u] /\ calls'[u] = calls[u]
           /\ CallInv(t)'
  <1>1. /\ pc' = [pc EXCEPT ![t] = how] /\ program' = [program EXCEPT ![t] = NoCall]
        /\ position' = [position EXCEPT ![t] = 0] /\ seen' = [seen EXCEPT ![t] = {}] /\ UNCHANGED calls
    BY DEF Leaves, Proceed
  <1>2. pc'[t] = how /\ program'[t] = NoCall /\ position'[t] = 0 /\ seen'[t] = {}
    BY <1>1 DEF SQLiteTypes
  <1>3. CallInv(t)'
    BY <1>2 DEF CallInv, Busy, Parts
  <1> QED BY <1>1, <1>3 DEF SQLiteTypes

\* The same after an exception.
LEMMA CaughtCalls ==
    ASSUME SQLiteTypes, NEW t \in Threads, Caught(t)
    PROVE  /\ \A u \in Threads \ {t} : /\ pc'[u] = pc[u] /\ program'[u] = program[u] /\ position'[u] = position[u]
                                       /\ seen'[u] = seen[u] /\ calls'[u] = calls[u]
           /\ CallInv(t)'
  <1>1. CASE pc[t] = "rollback"
    <2>1. Leaves(t, "threw")
      BY <1>1 DEF Caught
    <2> QED BY <2>1, LeavesCalls
  <1>2. CASE pc[t] # "rollback"
    <2>1. Proceed(t, "rollback") /\ UNCHANGED <<program, position, seen, calls>>
      BY <1>2 DEF Caught
    <2> QED BY <2>1 DEF Proceed, SQLiteTypes, CallInv, Busy, Parts
  <1> QED BY <1>1, <1>2

\* Every step keeps the invariant of the calls.
LEMMA CallsStep ==
    ASSUME OwnConnections, SQLiteTypes, HandlesInv, CallsInv, [SQLiteNext]_sqlVars
    PROVE  CallsInv'
  <1>a. /\ bound \in [Connections -> 0..MaxHandles]
        /\ pc \in [Threads -> Parts \cup {"idle", "returned", "threw"}] /\ using \in [Threads -> 0..MaxHandles]
        /\ open \subseteq Handles
        /\ Conn \in [Threads -> Connections] /\ MaxHandles \in Nat
    BY ConnAssumption, SQLiteBoundAssumption DEF SQLiteTypes
  <1>b. ASSUME NEW t \in Threads, using[t] # 0
        PROVE  using[t] = bound[Conn[t]] /\ using[t] \in Handles /\ Busy(t)
    BY <1>a, <1>b DEF HandlesInv, Handles
  <1>c. ASSUME NEW t \in Threads, CallInv(t)', \A u \in Threads \ {t} : CallInv(u)' PROVE CallsInv'
    BY <1>c DEF CallsInv
  <1>1. ASSUME NEW c \in Connections, connect(c) \/ connect_fails(c) \/ disconnect(c) \/ destruct(c)
        PROVE  CallsInv'
    <2>1. UNCHANGED <<threads, stored>>
      BY <1>1 DEF connect, connect_fails, disconnect, destruct, engine
    <2>2. UNCHANGED <<pc, program, position, seen, calls>>
      BY <2>1 DEF threads
    <2> SUFFICES ASSUME NEW u \in Threads PROVE CallInv(u)'
      BY DEF CallsInv
    <2> DEFINE h == bound[Conn[u]]
    <2>3. ASSUME pc[u] \in {"operation", "commit"}, h \in open
          PROVE  bound'[Conn[u]] = h /\ h \in open' /\ dirty'[h] = dirty[h] /\ lock'[h] = lock[h]
      <3>1. InCall(Conn[u]) /\ h \in Handles
        BY <1>a, <2>3 DEF InCall, Busy, Parts
      <3>2. CASE disconnect(c)
        BY <2>3, <3>2 DEF disconnect, engine
      <3>3. CASE connect(c)
        <4>1. c # Conn[u] /\ bound' = [bound EXCEPT ![c] = handles'] /\ UNCHANGED <<open, dirty, lock>>
          BY <3>1, <3>3 DEF connect
        <4> QED BY <1>a, <2>3, <4>1
      <3>3a. CASE connect_fails(c)
        <4>1. c # Conn[u] /\ (bound' = bound \/ bound' = [bound EXCEPT ![c] = handles']) /\ UNCHANGED <<open, dirty, lock>>
          BY <3>1, <3>3a DEF connect_fails
        <4> QED BY <1>a, <2>3, <4>1
      <3>4. CASE destruct(c)
        <4>1. /\ c # Conn[u] /\ bound' = [bound EXCEPT ![c] = 0] /\ Ended(bound[c]) /\ bound[c] # 0
          BY <3>1, <3>4 DEF destruct
        <4>2. h # bound[c] /\ bound[c] \in Handles
          BY <1>a, <4>1 DEF HandlesInv, Handles
        <4>3. (h \in open' <=> h \in open) /\ dirty'[h] = dirty[h] /\ lock'[h] = lock[h]
          <5> HIDE DEF h
          <5> QED BY <3>1, <4>1, <4>2, EndedHandle
        <4> QED BY <1>a, <2>3, <4>1, <4>3
      <3> QED BY <1>1, <3>2, <3>3, <3>3a, <3>4
    <2>4. CallInv(u)
      BY DEF CallsInv
    <2> QED BY <2>1, <2>2, <2>3, <2>4, CallKept
  <1>4. ASSUME NEW t \in Threads, transaction(t) PROVE CallsInv'
    <2>1. /\ pc' = [pc EXCEPT ![t] = "begin"] /\ UNCHANGED <<position, seen, engine, objects>> /\ ~Busy(t)
          /\ \E p \in Programs : program' = [program EXCEPT ![t] = p]
          /\ calls' = [calls EXCEPT ![t] = @ + 1]
      BY <1>4 DEF transaction
    <2>2. CallInv(t)'
      <3>1. position[t] = 0 /\ seen[t] = {}
        BY <2>1 DEF CallsInv, CallInv, Busy, Parts
      <3>2. pc'[t] = "begin" /\ position'[t] = 0 /\ seen'[t] = {}
        BY <1>a, <2>1, <3>1
      <3> QED BY <3>2 DEF CallInv, Busy, Parts
    <2>3. \A u \in Threads \ {t} : CallInv(u)'
      <3>1. \A u \in Threads \ {t} : /\ pc'[u] = pc[u] /\ program'[u] = program[u] /\ position'[u] = position[u]
                                     /\ seen'[u] = seen[u] /\ calls'[u] = calls[u]
        BY <2>1 DEF SQLiteTypes
      <3> QED BY <2>1, <3>1, OtherCalls DEF objects
    <2> QED BY <1>c, <2>2, <2>3
  <1>5. ASSUME NEW t \in Threads, Caught(t), UNCHANGED <<engine, objects>> PROVE CallsInv'
    <2>1. \A u \in Threads \ {t} : CallInv(u)'
      BY <1>5, CaughtCalls, OtherCalls DEF objects
    <2> QED BY <1>5, <1>c, <2>1, CaughtCalls
  <1>6. ASSUME NEW t \in Threads, enter(t) PROVE CallsInv'
    <2>1. UNCHANGED <<engine, objects>>
      BY <1>6 DEF enter
    <2>2. CASE UNCHANGED <<pc, program, position, seen, calls>>
      <3>1. UNCHANGED <<bound, open, dirty, lock, stored>>
        BY <2>1 DEF engine, objects
      <3> QED BY <2>2, <3>1, CallKept DEF CallsInv
    <2>3. CASE Caught(t)
      BY <1>5, <2>1, <2>3
    <2> QED BY <1>6, <2>2, <2>3 DEF enter
  <1>7. ASSUME NEW t \in Threads, operation_throws(t) \/ misplaced(t) PROVE CallsInv'
    BY <1>5, <1>7 DEF operation_throws, misplaced
  <1>8. ASSUME NEW t \in Threads, fails(t) PROVE CallsInv'
    <2>1. /\ using[t] # 0 /\ Caught(t) /\ UNCHANGED <<handles, stored, objects>>
          /\ Ended(using[t]) \/ UNCHANGED <<lock, open, dirty>>
      BY <1>8 DEF fails
    <2>2. \A o \in Handles \ {using[t]} : (o \in open' <=> o \in open) /\ lock'[o] = lock[o] /\ dirty'[o] = dirty[o]
      <3>1. CASE Ended(using[t])
        BY <1>b, <2>1, <3>1, EndedHandle
      <3>2. CASE UNCHANGED <<lock, open, dirty>>
        BY <3>2
      <3> QED BY <2>1, <3>1, <3>2
    <2>3. \A u \in Threads \ {t} : CallInv(u)'
      BY <2>1, <2>2, CaughtCalls, OtherCalls DEF objects
    <2> QED BY <1>c, <2>1, <2>3, CaughtCalls
  <1>9. ASSUME NEW t \in Threads, begin(t) PROVE CallsInv'
    <2> DEFINE part == IF program[t].operation = <<>> THEN "commit" ELSE "operation"
               level == Level(program[t].mode)
               h == using[t]
    <2>1. /\ pc[t] = "begin" /\ h # 0 /\ h \notin open /\ Proceed(t, part)
          /\ open' = open \cup {h} /\ lock' = [lock EXCEPT ![h] = level]
          /\ UNCHANGED <<handles, dirty, stored, program, position, seen, calls, objects>>
      BY <1>9 DEF begin
    <2> HIDE DEF level
    <2>2. h = bound[Conn[t]] /\ h \in Handles
      BY <1>b, <2>1
    <2>3. pc' = [pc EXCEPT ![t] = part] /\ pc'[t] = part
      BY <1>a, <2>1 DEF Proceed
    <2>4. \A u \in Threads \ {t} : CallInv(u)'
      <3>1. \A o \in Handles \ {h} : (o \in open' <=> o \in open) /\ lock'[o] = lock[o]
        BY <2>1 DEF SQLiteTypes
      <3>2. \A u \in Threads \ {t} : pc'[u] = pc[u]
        BY <1>a, <2>3
      <3> QED BY <2>1, <3>1, <3>2, OtherCalls DEF objects
    <2>5. CallInv(t)'
      <3>1. position[t] = 0 /\ seen[t] = {} /\ dirty[h] = {}
        BY <2>1, <2>2 DEF CallsInv, CallInv, HandlesInv
      <3>2. WritesOf(t)' = WritesOf(t) /\ bound' = bound
        BY <2>1 DEF WritesOf, Write, objects
      <3>3. {w \in WritesOf(t) : w[3] <= 0} = {}
        BY WrittenSoFar DEF Written
      <3>4. part = "commit" => Len(program[t].operation) = 0
        OBVIOUS
      <3>5. Busy(t)'
        BY <2>3 DEF Busy, Parts
      <3>6. pc'[t] \in {"operation", "commit"} /\ (pc'[t] = "commit" => Len(program'[t].operation) = 0)
        BY <2>1, <2>3, <3>4
      <3> HIDE DEF part
      <3> QED BY <2>1, <2>2, <3>1, <3>2, <3>3, <3>5, <3>6 DEF CallInv
    <2> QED BY <1>c, <2>4, <2>5
  <1>10. ASSUME NEW t \in Threads, reads(t) \/ writes(t) PROVE CallsInv'
    <2> DEFINE h == using[t]
               n == position[t] + 1
               op == program[t].operation
               part == IF n = Len(op) THEN "commit" ELSE "operation"
    <2>1. /\ pc[t] = "operation" /\ h # 0 /\ UNCHANGED <<handles, open, program, calls, objects>>
          /\ position[t] < Len(op)
      BY <1>10 DEF reads, writes, NextIs
    <2>2. h = bound[Conn[t]] /\ h \in Handles /\ h \in open
      BY <1>b, <2>1 DEF CallsInv, CallInv
    <2>3. /\ position' = [position EXCEPT ![t] = n] /\ position'[t] = n
          /\ pc' = [pc EXCEPT ![t] = part] /\ pc'[t] = part /\ part \in {"operation", "commit"}
      <3>1. position' = [position EXCEPT ![t] = n] /\ position'[t] = n
        BY <1>10 DEF reads, writes, Advances, SQLiteTypes
      <3>2. pc' = [pc EXCEPT ![t] = part]
        BY <1>10, <3>1 DEF reads, writes, Advances, Proceed
      <3> QED BY <1>a, <3>1, <3>2
    <2>4. stored' = stored /\ lock'[h] >= SHARED
          /\ \A o \in Handles \ {h} : lock'[o] = lock[o] /\ dirty'[o] = dirty[o]
      <3>1. lock \in [Handles -> NONE..EXCLUSIVE] /\ dirty \in [Handles -> SUBSET Writes]
        BY DEF SQLiteTypes
      <3>2. Raised(h, SHARED) >= SHARED /\ Raised(h, RESERVED) >= SHARED
        BY <2>2, <3>1 DEF Raised, SHARED, RESERVED, NONE, EXCLUSIVE
      <3>3. CASE reads(t)
        <4>1. lock' = [lock EXCEPT ![h] = Raised(h, SHARED)] /\ UNCHANGED <<stored, dirty>>
          BY <2>2, <3>3 DEF reads
        <4> QED BY <2>2, <3>1, <3>2, <4>1
      <3>4. CASE writes(t)
        <4>1. /\ lock' = [lock EXCEPT ![h] = Raised(h, RESERVED)] /\ stored' = stored
              /\ dirty' = [dirty EXCEPT ![h] = @ \cup {Write(t, n)}]
          BY <2>2, <3>4 DEF writes
        <4> QED BY <2>2, <3>1, <3>2, <4>1
      <3> QED BY <1>10, <3>3, <3>4
    <2>5. \A u \in Threads \ {t} : seen'[u] = seen[u]
      BY <1>10 DEF reads, writes, SQLiteTypes
    <2>6. seen'[t] # {} => seen'[t] = {stored}
      <3>1. seen[t] # {} => seen[t] = {stored}
        BY <2>1 DEF CallsInv, CallInv
      <3>2. seen'[t] \in {seen[t], seen[t] \cup {stored}}
        BY <1>10 DEF reads, writes, SQLiteTypes
      <3> QED BY <3>1, <3>2
    <2>7. dirty'[h] = Written(t, n)
      <3>1. dirty[h] = Written(t, position[t])
        BY <2>1, <2>2 DEF CallsInv, CallInv, Written
      <3>2. CASE reads(t)
        <4>1. op[n] # "write" /\ dirty' = dirty
          BY <3>2 DEF reads, NextIs
        <4>2. position[t] \in Nat
          BY DEF SQLiteTypes
        <4> QED BY <2>1, <3>1, <4>1, <4>2, WrittenSoFar
      <3>3. CASE writes(t)
        <4>1. op[n] = "write" /\ dirty' = [dirty EXCEPT ![h] = @ \cup {Write(t, n)}]
          BY <2>2, <3>3 DEF writes, NextIs
        <4>2. position[t] \in Nat /\ dirty \in [Handles -> SUBSET Writes]
          BY DEF SQLiteTypes
        <4>3. dirty'[h] = Written(t, position[t]) \cup {Write(t, n)}
          BY <2>2, <3>1, <4>1, <4>2
        <4> QED BY <2>1, <4>1, <4>2, <4>3, WrittenSoFar
      <3> QED BY <1>10, <3>2, <3>3
    <2>8. \A u \in Threads \ {t} : CallInv(u)'
      <3>1. \A u \in Threads \ {t} : pc'[u] = pc[u] /\ position'[u] = position[u]
        BY <1>a, <2>3 DEF SQLiteTypes
      <3> QED BY <2>1, <2>4, <2>5, <3>1, OtherCalls DEF objects
    <2>9. CallInv(t)'
      <3>1. WritesOf(t)' = WritesOf(t) /\ bound' = bound
        BY <2>1 DEF WritesOf, Write, objects
      <3>2. Busy(t)'
        BY <2>3 DEF Busy, Parts
      <3>3. pc'[t] = "commit" => position'[t] = Len(program'[t].operation)
        BY <2>1, <2>3
      <3> HIDE DEF part, n, op
      <3> QED BY <2>1, <2>2, <2>3, <2>4, <2>6, <2>7, <3>1, <3>2, <3>3 DEF CallInv, Written
    <2> QED BY <1>c, <2>8, <2>9
  <1>11. ASSUME NEW t \in Threads, waits_for_readers(t) PROVE CallsInv'
    <2>1. /\ using[t] \in open /\ lock' = [lock EXCEPT ![using[t]] = PENDING]
          /\ UNCHANGED <<bound, open, dirty, stored, pc, program, position, seen, calls>>
      BY <1>11 DEF waits_for_readers, threads, objects
    <2>2. \A o \in Handles : lock[o] >= SHARED => lock'[o] >= SHARED
      BY <2>1 DEF SQLiteTypes, SHARED, PENDING
    <2>3. ASSUME NEW u \in Threads PROVE CallInv(u)'
      <3>1. CallInv(u)
        BY DEF CallsInv
      <3> QED BY <1>a, <2>1, <2>2, <3>1, CallKept
    <2> QED BY <2>3 DEF CallsInv
  <1>12. ASSUME NEW t \in Threads, commit(t) \/ rollback(t) PROVE CallsInv'
    <2>1. /\ using[t] \in open /\ Ended(using[t]) /\ UNCHANGED <<handles, objects>>
          /\ Leaves(t, "returned") \/ Leaves(t, "threw")
          /\ stored' = stored \/ (dirty[using[t]] # {} /\ MayExclude(using[t]))
      BY <1>12 DEF commit, rollback
    <2>2. using[t] # 0 /\ using[t] \in Handles
      BY <1>a, <2>1 DEF Handles
    <2>3. /\ \A u \in Threads \ {t} : /\ pc'[u] = pc[u] /\ program'[u] = program[u] /\ position'[u] = position[u]
                                      /\ seen'[u] = seen[u] /\ calls'[u] = calls[u]
          /\ CallInv(t)'
      <3>1. PICK how \in {"returned", "threw"} : Leaves(t, how)
        BY <2>1
      <3> QED BY <3>1, LeavesCalls
    <2>4. \A u \in Threads \ {t} : CallInv(u)'
      BY <2>1, <2>2, <2>3, EndedHandle, OtherCalls DEF objects
    <2> QED BY <1>c, <2>3, <2>4
  <1>13. CASE UNCHANGED sqlVars
    <2>1. UNCHANGED <<bound, open, dirty, lock, stored, pc, program, position, seen, calls>>
      BY <1>13 DEF sqlVars
    <2> QED BY <2>1, CallKept DEF CallsInv
  <1> QED BY <1>1, <1>4, <1>6, <1>7, <1>8, <1>9, <1>10, <1>11, <1>12, <1>13
          DEF SQLiteNext, Step, Statement

-----------------------------------------------------------------------------
(* Refinement                                                              *)

\* The abstract state.
Outcome == [t \in Threads |-> IF Busy(t) THEN "running" ELSE pc[t]]
Intends == [t \in Threads |-> WritesOf(t)]

\* What the abstract state of a thread depends on.
LEMMA AbstractSame ==
    ASSUME NEW t, pc'[t] = pc[t], program'[t] = program[t], calls'[t] = calls[t]
    PROVE  (Busy(t)' <=> Busy(t)) /\ WritesOf(t)' = WritesOf(t)
  BY DEF Busy, WritesOf, Write

\* A step within a call.
LEMMA WithinCall ==
    ASSUME SQLiteTypes, NEW t \in Threads, NEW part \in Parts, Busy(t),
           pc' = [pc EXCEPT ![t] = part], UNCHANGED <<program, calls>>
    PROVE  Outcome' = Outcome /\ Intends' = Intends
  <1>1. \A u \in Threads : (IF Busy(u) THEN "running" ELSE pc[u])' = IF Busy(u) THEN "running" ELSE pc[u]
    BY DEF Busy, SQLiteTypes
  <1>2. \A u \in Threads : WritesOf(u)' = WritesOf(u)
    BY DEF WritesOf, Write
  <1> QED BY <1>1, <1>2 DEF Outcome, Intends

\* The end of a call.
LEMMA CallLeft ==
    ASSUME SQLiteTypes, NEW t \in Threads, NEW how \in {"returned", "threw"}, Busy(t), Leaves(t, how)
    PROVE  /\ Outcome[t] = "running" /\ Outcome' = [Outcome EXCEPT ![t] = how]
           /\ Intends' = [Intends EXCEPT ![t] = {}] /\ seen' = [seen EXCEPT ![t] = {}]
  <1>1. /\ pc' = [pc EXCEPT ![t] = how] /\ program' = [program EXCEPT ![t] = NoCall]
        /\ seen' = [seen EXCEPT ![t] = {}] /\ UNCHANGED calls
    BY DEF Leaves, Proceed
  <1>2. pc'[t] = how /\ program'[t] = NoCall
    BY <1>1 DEF SQLiteTypes
  <1>3. \A u \in Threads \ {t} : pc'[u] = pc[u] /\ program'[u] = program[u] /\ calls'[u] = calls[u]
    BY <1>1 DEF SQLiteTypes
  <1>4. ~Busy(t)' /\ WritesOf(t)' = {}
    <2>1. DOMAIN NoCall.operation = {}
      BY DEF NoCall
    <2> QED BY <1>2, <2>1 DEF Busy, Parts, WritesOf
  <1>5. \A u \in Threads \ {t} : (Busy(u)' <=> Busy(u)) /\ WritesOf(u)' = WritesOf(u)
    BY <1>3, AbstractSame
  <1>6. Outcome' = [Outcome EXCEPT ![t] = how]
    BY <1>2, <1>3, <1>4, <1>5 DEF Outcome
  <1>7. Intends' = [Intends EXCEPT ![t] = {}]
    BY <1>4, <1>5 DEF Intends
  <1> QED BY <1>1, <1>6, <1>7 DEF Outcome

\* An exception within a call, or out of it.
LEMMA CaughtAbstract ==
    ASSUME SQLiteTypes, NEW t \in Threads, Busy(t), Caught(t), UNCHANGED stored
    PROVE  \/ Outcome' = Outcome /\ Intends' = Intends /\ UNCHANGED seen
           \/ Atomic!ThrowAll(t)
  <1>1. CASE pc[t] = "rollback"
    BY <1>1, CallLeft DEF Caught, Atomic!ThrowAll, Atomic!Ends, Outcome, Intends
  <1>2. CASE pc[t] # "rollback"
    <2>1. Proceed(t, "rollback") /\ UNCHANGED <<program, seen, calls>>
      BY <1>2 DEF Caught
    <2>2. pc' = [pc EXCEPT ![t] = "rollback"] /\ "rollback" \in Parts
      BY <2>1 DEF Proceed, Parts
    <2> QED BY <2>1, <2>2, WithinCall
  <1> QED BY <1>1, <1>2

\* Every step of a state that satisfies the invariants is one of the promise,
\* or none.
LEMMA StepRefines ==
    ASSUME SQLiteTypes, HandlesInv, CallsInv, [SQLiteNext]_sqlVars
    PROVE  [Atomic!AtomicNext]_(Atomic!atomicVars)
  <1>a. pc \in [Threads -> Parts \cup {"idle", "returned", "threw"}] /\ seen \in [Threads -> SUBSET SUBSET Writes]
    BY DEF SQLiteTypes
  <1>b. ASSUME NEW t \in Threads, using[t] # 0 PROVE using[t] = bound[Conn[t]] /\ Busy(t)
    BY <1>b DEF HandlesInv
  <1>c. ASSUME Outcome' = Outcome, Intends' = Intends, UNCHANGED <<stored, seen>>
        PROVE  UNCHANGED Atomic!atomicVars
    BY <1>c DEF Atomic!atomicVars, Outcome, Intends
  <1>d. ASSUME UNCHANGED <<pc, program, seen, calls, stored>> PROVE UNCHANGED Atomic!atomicVars
    <2>1. \A u \in Threads : (Busy(u)' <=> Busy(u)) /\ WritesOf(u)' = WritesOf(u)
      BY <1>d, AbstractSame
    <2>2. Outcome' = Outcome /\ Intends' = Intends
      BY <1>d, <2>1 DEF Outcome, Intends
    <2> QED BY <1>c, <1>d, <2>2
  <1>e. ASSUME NEW t \in Threads, Busy(t), Caught(t), UNCHANGED stored
        PROVE  [Atomic!AtomicNext]_(Atomic!atomicVars)
    <2>1. CASE Outcome' = Outcome /\ Intends' = Intends /\ UNCHANGED seen
      BY <1>c, <1>e, <2>1
    <2>2. CASE Atomic!ThrowAll(t)
      BY <2>2 DEF Atomic!AtomicNext
    <2> QED BY <1>e, <2>1, <2>2, CaughtAbstract
  <1>1. ASSUME NEW c \in Connections, connect(c) \/ connect_fails(c) \/ disconnect(c) \/ destruct(c)
        PROVE  UNCHANGED Atomic!atomicVars
    <2>1. UNCHANGED <<threads, stored>>
      BY <1>1 DEF connect, connect_fails, disconnect, destruct, engine
    <2> QED BY <1>d, <2>1 DEF threads
  <1>2. ASSUME NEW t \in Threads, transaction(t) PROVE Atomic!Invoke(t)
    <2>1. /\ pc' = [pc EXCEPT ![t] = "begin"] /\ UNCHANGED <<seen, stored>> /\ ~Busy(t)
          /\ \E p \in Programs : program' = [program EXCEPT ![t] = p]
          /\ calls' = [calls EXCEPT ![t] = @ + 1]
      BY <1>2 DEF transaction, engine
    <2>2. pc'[t] = "begin" /\ Busy(t)' /\ Outcome[t] # "running"
      <3>1. pc'[t] = "begin" /\ Busy(t)'
        BY <1>a, <2>1 DEF Busy, Parts
      <3>2. pc[t] # "running"
        BY <1>a DEF Parts
      <3> QED BY <2>1, <3>1, <3>2 DEF Outcome
    <2>3. \A u \in Threads \ {t} : pc'[u] = pc[u] /\ program'[u] = program[u] /\ calls'[u] = calls[u]
      BY <2>1 DEF SQLiteTypes
    <2>4. \A u \in Threads \ {t} : (Busy(u)' <=> Busy(u)) /\ WritesOf(u)' = WritesOf(u)
      BY <2>3, AbstractSame
    <2>5. Outcome' = [Outcome EXCEPT ![t] = "running"]
      BY <2>2, <2>3, <2>4 DEF Outcome
    <2>6. Intends' = [Intends EXCEPT ![t] = Intends'[t]]
      BY <2>4 DEF Intends
    <2>7. Intends'[t] \subseteq Writes
      <3>1. calls'[t] \in Nat
        BY <2>1 DEF SQLiteTypes
      <3>2. DOMAIN program'[t].operation \subseteq Nat
        <4>1. program'[t] \in Programs
          BY <2>1 DEF SQLiteTypes
        <4>2. program'[t].operation \in Seq({"read", "write", "throw"})
          BY <4>1, ProgramsAssumption
        <4> QED BY <4>2
      <3> QED BY <3>1, <3>2 DEF Intends, WritesOf, Write, Writes
    <2> QED BY <2>1, <2>2, <2>5, <2>6, <2>7 DEF Atomic!Invoke, Outcome, Intends
  <1>3. ASSUME NEW t \in Threads, enter(t) PROVE [Atomic!AtomicNext]_(Atomic!atomicVars)
    <2>1. Busy(t) /\ UNCHANGED stored
      BY <1>3 DEF enter, engine
    <2>2. CASE Caught(t)
      BY <1>e, <2>1, <2>2
    <2>3. CASE UNCHANGED <<pc, program, position, seen, calls>>
      BY <1>d, <2>1, <2>3
    <2> QED BY <1>3, <2>2, <2>3 DEF enter
  <1>4. ASSUME NEW t \in Threads, operation_throws(t) \/ misplaced(t) \/ fails(t)
        PROVE  [Atomic!AtomicNext]_(Atomic!atomicVars)
    <2>1. Caught(t) /\ UNCHANGED stored
      BY <1>4 DEF operation_throws, misplaced, fails, engine
    <2>2. Busy(t)
      BY <1>4, <1>b DEF operation_throws, misplaced, fails, NextIs, Busy, Parts
    <2> QED BY <1>e, <2>1, <2>2
  <1>5. ASSUME NEW t \in Threads, begin(t) PROVE UNCHANGED Atomic!atomicVars
    <2> DEFINE part == IF program[t].operation = <<>> THEN "commit" ELSE "operation"
    <2>1. pc[t] = "begin" /\ Proceed(t, part) /\ part \in Parts /\ UNCHANGED <<stored, program, seen, calls>>
      BY <1>5 DEF begin, Parts
    <2> HIDE DEF part
    <2>2. pc' = [pc EXCEPT ![t] = part] /\ Busy(t)
      BY <2>1 DEF Proceed, Busy, Parts
    <2> QED BY <1>c, <2>1, <2>2, WithinCall
  <1>6. ASSUME NEW t \in Threads, Advances(t), NextIs(t, "read") \/ NextIs(t, "write"), UNCHANGED <<program, calls>>
        PROVE  Busy(t) /\ Outcome' = Outcome /\ Intends' = Intends
    <2> DEFINE part == IF position'[t] = Len(program[t].operation) THEN "commit" ELSE "operation"
    <2>1. pc' = [pc EXCEPT ![t] = part] /\ part \in Parts
      BY <1>6 DEF Advances, Proceed, Parts
    <2>2. Busy(t)
      BY <1>6 DEF NextIs, Busy, Parts
    <2> HIDE DEF part
    <2> QED BY <1>6, <2>1, <2>2, WithinCall
  <1>7. ASSUME NEW t \in Threads, reads(t) PROVE Atomic!Look(t)
    <2>1. /\ Advances(t) /\ NextIs(t, "read") /\ UNCHANGED <<stored, program, calls>>
          /\ seen' = [seen EXCEPT ![t] = @ \cup {stored}]
      BY <1>7 DEF reads
    <2>2. Busy(t) /\ Outcome' = Outcome /\ Intends' = Intends
      BY <1>6, <2>1
    <2>3. Outcome[t] = "running"
      BY <2>2 DEF Outcome
    <2> QED BY <2>1, <2>2, <2>3 DEF Atomic!Look, Outcome, Intends
  <1>8. ASSUME NEW t \in Threads, writes(t) PROVE UNCHANGED Atomic!atomicVars
    <2>1. Advances(t) /\ NextIs(t, "write") /\ UNCHANGED <<program, seen, calls>> /\ using[t] # 0
      BY <1>8 DEF writes
    <2>2. Outcome' = Outcome /\ Intends' = Intends
      BY <1>6, <2>1
    <2>3. using[t] \in open
      BY <1>b, <2>1 DEF CallsInv, CallInv, NextIs
    <2>4. stored' = stored
      BY <1>8, <2>3 DEF writes
    <2> QED BY <1>c, <2>1, <2>2, <2>4
  <1>9. ASSUME NEW t \in Threads, waits_for_readers(t) PROVE UNCHANGED Atomic!atomicVars
    BY <1>9, <1>d DEF waits_for_readers, threads
  <1>10. ASSUME NEW t \in Threads, commit(t) PROVE Atomic!ReturnAll(t)
    <2>1. pc[t] = "commit" /\ using[t] \in open /\ Leaves(t, "returned") /\ stored' = stored \cup dirty[using[t]]
      BY <1>10 DEF commit
    <2>2. Busy(t) /\ using[t] # 0
      BY <2>1 DEF Busy, Parts, SQLiteTypes, Handles
    <2>3. dirty[using[t]] = Intends[t]
      <3>1. using[t] = bound[Conn[t]]
        BY <1>b, <2>2
      <3>2. dirty[using[t]] = Written(t, Len(program[t].operation))
        BY <2>1, <3>1 DEF CallsInv, CallInv, Written
      <3>3. Written(t, Len(program[t].operation)) = WritesOf(t)
        BY WrittenSoFar
      <3> QED BY <3>2, <3>3 DEF Intends
    <2>4. seen[t] \subseteq {stored}
      <3>1. seen[t] # {} => seen[t] = {stored}
        BY <2>1 DEF CallsInv, CallInv
      <3> QED BY <3>1
    <2>5. /\ Outcome[t] = "running" /\ Outcome' = [Outcome EXCEPT ![t] = "returned"]
          /\ Intends' = [Intends EXCEPT ![t] = {}] /\ seen' = [seen EXCEPT ![t] = {}]
      BY <2>1, <2>2, CallLeft
    <2> QED BY <2>1, <2>3, <2>4, <2>5 DEF Atomic!ReturnAll, Atomic!Ends, Outcome, Intends
  <1>11. ASSUME NEW t \in Threads, rollback(t) PROVE Atomic!ThrowAll(t)
    <2>1. Leaves(t, "threw") /\ stored' = stored /\ Busy(t)
      BY <1>11 DEF rollback, Busy, Parts
    <2>2. /\ Outcome[t] = "running" /\ Outcome' = [Outcome EXCEPT ![t] = "threw"]
          /\ Intends' = [Intends EXCEPT ![t] = {}] /\ seen' = [seen EXCEPT ![t] = {}]
      BY <2>1, CallLeft
    <2> QED BY <2>1, <2>2 DEF Atomic!ThrowAll, Atomic!Ends, Outcome, Intends
  <1>12. CASE UNCHANGED sqlVars
    BY <1>12, <1>d DEF sqlVars
  <1> QED BY <1>1, <1>2, <1>3, <1>4, <1>5, <1>7, <1>8, <1>9, <1>10, <1>11, <1>12
          DEF SQLiteNext, Step, Statement, Atomic!AtomicNext

\* If no two threads use one connection, transaction() stores all a call writes
\* in the step it returns in, on the database it read, and nothing of a call
\* that throws, whatever fails and whoever disconnects.
THEOREM CallsAreAtomicHolds ==
    ASSUME OwnConnections
    PROVE  SQLiteSpec => CallsAreAtomic
  <1> DEFINE Inv == SQLiteTypes /\ HandlesInv /\ CallsInv
  <1>1. SQLiteInit => Inv
    BY SQLiteInitInv
  <1>2. Inv /\ [SQLiteNext]_sqlVars => Inv'
    BY TypesStep, HandlesStep, CallsStep
  <1>3. SQLiteInit => Atomic!AtomicInit
    <2> SUFFICES ASSUME SQLiteInit PROVE Atomic!AtomicInit
      OBVIOUS
    <2>1. \A t \in Threads : pc[t] = "idle" /\ ~Busy(t) /\ WritesOf(t) = {}
      BY DEF SQLiteInit, Busy, Parts, WritesOf, NoCall
    <2> QED BY <2>1 DEF Atomic!AtomicInit, SQLiteInit
  <1>4. Inv /\ [SQLiteNext]_sqlVars => [Atomic!AtomicNext]_(Atomic!atomicVars)
    BY StepRefines
  <1> QED BY <1>1, <1>2, <1>3, <1>4, PTL DEF SQLiteSpec, CallsAreAtomic, Atomic!AtomicSpec
=============================================================================
