---------------------------- MODULE AtomicCalls ----------------------------
(***************************************************************************)
(* What SQLiteConnection::transaction promises: a call that returns stores *)
(* everything it wrote in one step, on the very database it read; a call   *)
(* that throws stores nothing.                                             *)
(***************************************************************************)
EXTENDS Integers

CONSTANTS Threads, Writes
VARIABLES
    stored,     \* the writes the database holds
    outcome,    \* of a thread: "running", or how its last call ended
    intends,    \* what the call of a thread is to write
    seen        \* the databases the call has read
atomicVars == <<stored, outcome, intends, seen>>

AtomicInit ==
    /\ stored = {} /\ outcome = [t \in Threads |-> "idle"]
    /\ intends = [t \in Threads |-> {}] /\ seen = [t \in Threads |-> {}]

Invoke(t) ==
    /\ outcome[t] # "running" /\ outcome' = [outcome EXCEPT ![t] = "running"]
    /\ intends' = [intends EXCEPT ![t] = intends'[t]] /\ intends'[t] \subseteq Writes
    /\ UNCHANGED <<stored, seen>>

Look(t) ==
    /\ outcome[t] = "running" /\ seen' = [seen EXCEPT ![t] = @ \cup {stored}]
    /\ UNCHANGED <<stored, outcome, intends>>

Ends(t, how) ==
    /\ outcome[t] = "running" /\ outcome' = [outcome EXCEPT ![t] = how]
    /\ intends' = [intends EXCEPT ![t] = {}] /\ seen' = [seen EXCEPT ![t] = {}]
ReturnAll(t) ==
    Ends(t, "returned") /\ seen[t] \subseteq {stored} /\ stored' = stored \cup intends[t]
ThrowAll(t) == Ends(t, "threw") /\ UNCHANGED stored

AtomicNext == \E t \in Threads : Invoke(t) \/ Look(t) \/ ReturnAll(t) \/ ThrowAll(t)
AtomicSpec == AtomicInit /\ [][AtomicNext]_atomicVars
=============================================================================
