-------------------------- MODULE TransactionGuard --------------------------
(***************************************************************************)
(* TransactionGuard.hpp over MDBXTransaction.hpp: a guard owns one         *)
(* transaction per storage backend and begins, commits and rolls them back *)
(* in the order of the storage list.  Several guards live at once (one per *)
(* thread, or several in one scope); each call of begin(), commit() and    *)
(* rollback() is a loop over the backends, so every iteration is a step of *)
(* its own and the steps of different guards interleave.                   *)
(*                                                                         *)
(* The MDBX engine is external.  What the code relies on: one write        *)
(* transaction per environment, commit is atomic and durable in one        *)
(* environment, the connection keeps ONE read-only handle that renew takes *)
(* a snapshot on and reset drops it.  A failed mdbx_txn_commit may or may  *)
(* not have ended the transaction; a call on an ended handle is an error.  *)
(***************************************************************************)
EXTENDS Naturals, FiniteSets

CONSTANTS
    Guard,          \* guards ever created
    NoGuard,        \* no writer
    N,              \* number of storage backends
    Modes,          \* the transaction modes clients ask for
    MaxFaults       \* bound on engine failures and process crashes

ASSUME NAssumption      == N \in Nat \ {0}
ASSUME FaultsAssumption == MaxFaults \in Nat
ASSUME NoGuardAssumption == NoGuard \notin Guard
ASSUME ModesAssumption  == Modes \subseteq {"READ_ONLY", "WRITABLE"}

Backend == 1..N

VARIABLES
    phase,      \* where each guard's owner is
    mode,       \* m_mode of the guard's transactions
    idx,        \* loop counter of the running begin/commit/rollback
    outcome,    \* m_completed, and which call completed the guard
    txn,        \* m_txn of the guard's transaction on each backend
    written,    \* backends the open transactions have modified
    writer,     \* MDBX: holder of each environment's write lock
    durable,    \* MDBX: guards whose writes each environment has committed
    rdonly,     \* MDBX: whether the connection's shared read handle is live
    faults      \* failures injected so far

vars == <<phase, mode, idx, outcome, txn, written, writer, durable, rdonly, faults>>

engine == <<writer, durable, rdonly>>

\* "created": constructed, m_started = false; "active": m_started = true and
\* no member function is running.
Phases == {"absent", "created", "beginning", "active", "hooks",
           "committing", "rollback", "gone"}

\* "null": m_txn = nullptr; "live": a running MDBX transaction;
\* "dead": m_txn still holds a handle the engine has ended or never renewed.
TxnStates == {"null", "live", "dead"}

TypeOK ==
    /\ phase   \in [Guard -> Phases]
    /\ mode    \in [Guard -> {"READ_ONLY", "WRITABLE"}]
    /\ idx     \in [Guard -> 1..(N + 1)]
    /\ outcome \in [Guard -> {"none", "commit", "rollback"}]
    /\ txn     \in [Guard -> [Backend -> TxnStates]]
    /\ written \in [Guard -> SUBSET Backend]
    /\ writer  \in [Backend -> Guard \cup {NoGuard}]
    /\ durable \in [Backend -> SUBSET Guard]
    /\ rdonly  \in [Backend -> BOOLEAN]
    /\ faults  \in 0..MaxFaults

NoTxn == [b \in Backend |-> "null"]

Init ==
    /\ phase   = [g \in Guard |-> "absent"]
    /\ mode    = [g \in Guard |-> "READ_ONLY"]
    /\ idx     = [g \in Guard |-> 1]
    /\ outcome = [g \in Guard |-> "none"]
    /\ txn     = [g \in Guard |-> NoTxn]
    /\ written = [g \in Guard |-> {}]
    /\ writer  = [b \in Backend |-> NoGuard]
    /\ durable = [b \in Backend |-> {}]
    /\ rdonly  = [b \in Backend |-> FALSE]
    /\ faults  = 0

m_started(g)   == phase[g] \in {"active", "hooks", "committing", "rollback"}
m_completed(g) == outcome[g] # "none"

-----------------------------------------------------------------------------
(* Steps of a loop: go on with the next backend, or leave by an exception  *)
(* (the flags keep the values they have).                                  *)

Goto(g, p) == phase' = [phase EXCEPT ![g] = p]
Advance(g) == idx' = [idx EXCEPT ![g] = idx[g] + 1] /\ UNCHANGED phase
Throw(g, p) == Goto(g, p) /\ UNCHANGED idx
Fault == faults < MaxFaults /\ faults' = faults + 1

SetTxn(g, b, s) == txn' = [txn EXCEPT ![g][b] = s]
ReleaseWriter(b) == writer' = [writer EXCEPT ![b] = NoGuard]

\* The loop of phase p of guard g is about to treat backend b.
At(g, p, b) == phase[g] = p /\ idx[g] = b

-----------------------------------------------------------------------------
(* Construction: create_guard makes one transaction object per storage.    *)
create_guard(g, m) ==
    /\ phase[g] = "absent"
    /\ Goto(g, "created")
    /\ mode' = [mode EXCEPT ![g] = m]
    /\ UNCHANGED <<idx, outcome, txn, written, engine, faults>>

(* begin(): returns at once on a started guard, so only a guard that is    *)
(* not started enters the loop.                                            *)
begin(g) ==
    /\ phase[g] = "created"
    /\ Goto(g, "beginning")
    /\ idx' = [idx EXCEPT ![g] = 1]
    /\ UNCHANGED <<mode, outcome, txn, written, engine, faults>>

\* MDBXTransaction::begin(), WRITABLE: mdbx_txn_begin waits for the writer.
TxnBeginWritable(g, b) ==
    /\ At(g, "beginning", b) /\ mode[g] = "WRITABLE" /\ txn[g][b] = "null"
    /\ writer[b] = NoGuard
    /\ writer' = [writer EXCEPT ![b] = g]
    /\ SetTxn(g, b, "live")
    /\ Advance(g)
    /\ UNCHANGED <<mode, outcome, written, durable, rdonly, faults>>

\* MDBXTransaction::begin(), READ_ONLY: renew the connection's one handle.
TxnBeginReadOnly(g, b) ==
    /\ At(g, "beginning", b) /\ mode[g] = "READ_ONLY" /\ txn[g][b] = "null"
    /\ rdonly' = [rdonly EXCEPT ![b] = TRUE]
    /\ SetTxn(g, b, "live")
    /\ Advance(g)
    /\ UNCHANGED <<mode, outcome, written, writer, durable, faults>>

\* The engine refuses: an exception leaves begin() with the earlier backends'
\* transactions running.  A read-only m_txn is set before mdbx_txn_renew, and
\* renewing a handle that another guard has live may be refused as well.
TxnBeginFails(g, b) ==
    /\ At(g, "beginning", b) /\ txn[g][b] = "null"
    /\ IF mode[g] = "READ_ONLY" THEN SetTxn(g, b, "dead") ELSE UNCHANGED txn
    /\ Throw(g, "created")
    /\ IF mode[g] = "READ_ONLY" /\ rdonly[b] THEN UNCHANGED faults ELSE Fault
    /\ UNCHANGED <<mode, outcome, written, engine>>

\* "Transaction already started.": begin() again after a failed begin().
TxnBeginAgain(g, b) ==
    /\ At(g, "beginning", b) /\ txn[g][b] # "null"
    /\ Throw(g, "created")
    /\ UNCHANGED <<mode, outcome, txn, written, engine, faults>>

\* before_transaction is empty in MDBXMarketDataStorage; m_started = true.
BeginReturns(g) ==
    /\ At(g, "beginning", N + 1)
    /\ Goto(g, "active")
    /\ UNCHANGED <<mode, idx, outcome, txn, written, engine, faults>>

-----------------------------------------------------------------------------
\* Mutant of Modify: handle() is used without asking whether it is live.
ModifyWithoutTransaction(g, b) ==
    /\ phase[g] = "active" /\ ~m_completed(g)
    /\ mode[g] = "WRITABLE"
    /\ written' = [written EXCEPT ![g] = @ \cup {b}]
    /\ UNCHANGED <<phase, mode, idx, outcome, txn, engine, faults>>

(* A storage operation of the client inside the guard's transaction.       *)
Modify(g, b) ==
    /\ phase[g] = "active" /\ ~m_completed(g)
    /\ mode[g] = "WRITABLE" /\ txn[g][b] = "live"
    /\ written' = [written EXCEPT ![g] = @ \cup {b}]
    /\ UNCHANGED <<phase, mode, idx, outcome, txn, engine, faults>>

-----------------------------------------------------------------------------
(* commit(): after_transaction on every storage, then every commit.        *)
commit(g) ==
    /\ phase[g] = "active" /\ ~m_completed(g)
    /\ Goto(g, "hooks")
    /\ idx' = [idx EXCEPT ![g] = 1]
    /\ UNCHANGED <<mode, outcome, txn, written, engine, faults>>

\* after_transaction may put records into the open transaction.
AfterTransaction(g, b) ==
    /\ At(g, "hooks", b)
    /\ \/ UNCHANGED written
       \/ /\ mode[g] = "WRITABLE" /\ txn[g][b] = "live"
          /\ written' = [written EXCEPT ![g] = @ \cup {b}]
    /\ IF b < N THEN Advance(g)
       ELSE Goto(g, "committing") /\ idx' = [idx EXCEPT ![g] = 1]
    /\ UNCHANGED <<mode, outcome, txn, engine, faults>>

\* It cannot put them without a live write transaction, and may fail with one.
AfterTransactionFails(g, b) ==
    /\ At(g, "hooks", b)
    /\ Throw(g, "active")
    /\ IF mode[g] = "WRITABLE" /\ txn[g][b] = "live" THEN Fault ELSE UNCHANGED faults
    /\ UNCHANGED <<mode, outcome, txn, written, engine>>

\* MDBXTransaction::commit(), WRITABLE.
TxnCommitWritable(g, b) ==
    /\ At(g, "committing", b) /\ mode[g] = "WRITABLE" /\ txn[g][b] = "live"
    /\ durable' = [durable EXCEPT ![b] = IF b \in written[g] THEN @ \cup {g} ELSE @]
    /\ ReleaseWriter(b)
    /\ SetTxn(g, b, "null")
    /\ Advance(g)
    /\ UNCHANGED <<mode, outcome, written, rdonly, faults>>

\* Mutant of TxnCommitFails: m_rc is not examined and the loop goes on.
TxnCommitFailureIgnored(g, b) ==
    /\ At(g, "committing", b) /\ mode[g] = "WRITABLE" /\ txn[g][b] = "live"
    /\ SetTxn(g, b, "null") /\ ReleaseWriter(b)
    /\ Advance(g)
    /\ Fault
    /\ UNCHANGED <<mode, outcome, written, durable, rdonly>>

\* The engine reports a failed commit: it aborted the transaction and m_txn
\* dangles, or it refused the call and the transaction still runs.
TxnCommitFails(g, b) ==
    /\ At(g, "committing", b) /\ mode[g] = "WRITABLE" /\ txn[g][b] = "live"
    /\ \/ SetTxn(g, b, "dead") /\ ReleaseWriter(b)
       \/ UNCHANGED <<txn, writer>>
    /\ Throw(g, "active")
    /\ Fault
    /\ UNCHANGED <<mode, outcome, written, durable, rdonly>>

\* MDBXTransaction::commit()/rollback(), READ_ONLY: reset the shared handle,
\* which another guard may have reset before.
TxnReset(g, b, p) ==
    /\ At(g, p, b) /\ mode[g] = "READ_ONLY" /\ txn[g][b] = "live"
    /\ rdonly' = [rdonly EXCEPT ![b] = FALSE]
    /\ SetTxn(g, b, "null")
    /\ Advance(g)
    /\ UNCHANGED <<mode, outcome, written, writer, durable, faults>>

\* reset fails: an injected fault, or the handle was already reset through
\* another guard that shares it.
TxnResetFails(g, b, p) ==
    /\ At(g, p, b) /\ mode[g] = "READ_ONLY" /\ txn[g][b] = "live"
    /\ IF rdonly[b] THEN Fault ELSE UNCHANGED faults
    /\ Throw(g, "active")
    /\ UNCHANGED <<mode, outcome, txn, written, engine>>

\* Mutant of TxnNotActive: an inactive transaction is skipped, not reported.
TxnNotActiveSkipped(g, b, p) ==
    /\ At(g, p, b) /\ txn[g][b] # "live"
    /\ Advance(g)
    /\ UNCHANGED <<mode, outcome, txn, written, engine, faults>>

\* "No active transaction to commit/rollback.", or the engine rejects a
\* handle it has ended.
TxnNotActive(g, b, p) ==
    /\ At(g, p, b) /\ txn[g][b] # "live"
    /\ Throw(g, "active")
    /\ UNCHANGED <<mode, outcome, txn, written, engine, faults>>

\* Mutant of CommitReturns: the loop runs one element too far.
CommitOverruns(g) ==
    /\ At(g, "committing", N + 1)
    /\ Goto(g, "active")
    /\ idx' = [idx EXCEPT ![g] = N + 2]
    /\ outcome' = [outcome EXCEPT ![g] = "commit"]
    /\ UNCHANGED <<mode, txn, written, engine, faults>>

CommitReturns(g) ==
    /\ At(g, "committing", N + 1)
    /\ Goto(g, "active")
    /\ outcome' = [outcome EXCEPT ![g] = "commit"]
    /\ UNCHANGED <<mode, idx, txn, written, engine, faults>>

-----------------------------------------------------------------------------
(* rollback()                                                              *)
rollback(g) ==
    /\ phase[g] = "active" /\ ~m_completed(g)
    /\ Goto(g, "rollback")
    /\ idx' = [idx EXCEPT ![g] = 1]
    /\ UNCHANGED <<mode, outcome, txn, written, engine, faults>>

\* Mutant of TxnAbort: rollback() commits what the guard has written.
TxnAbortCommits(g, b) ==
    /\ At(g, "rollback", b) /\ mode[g] = "WRITABLE" /\ txn[g][b] = "live"
    /\ durable' = [durable EXCEPT ![b] = IF b \in written[g] THEN @ \cup {g} ELSE @]
    /\ ReleaseWriter(b)
    /\ SetTxn(g, b, "null")
    /\ Advance(g)
    /\ UNCHANGED <<mode, outcome, written, rdonly, faults>>

TxnAbort(g, b) ==
    /\ At(g, "rollback", b) /\ mode[g] = "WRITABLE" /\ txn[g][b] = "live"
    /\ ReleaseWriter(b)
    /\ SetTxn(g, b, "null")
    /\ Advance(g)
    /\ UNCHANGED <<mode, outcome, written, durable, rdonly, faults>>

\* The engine reports a failed abort, which may have ended the transaction.
TxnAbortFails(g, b) ==
    /\ At(g, "rollback", b) /\ mode[g] = "WRITABLE" /\ txn[g][b] = "live"
    /\ \/ SetTxn(g, b, "dead") /\ ReleaseWriter(b)
       \/ UNCHANGED <<txn, writer>>
    /\ Throw(g, "active")
    /\ Fault
    /\ UNCHANGED <<mode, outcome, written, durable, rdonly>>

RollbackReturns(g) ==
    /\ At(g, "rollback", N + 1)
    /\ Goto(g, "active")
    /\ outcome' = [outcome EXCEPT ![g] = "rollback"]
    /\ UNCHANGED <<mode, idx, txn, written, engine, faults>>

-----------------------------------------------------------------------------
\* Mutant of Destroy: ~MDBXTransaction is left out, so that only a started
\* guard ends its transactions.
DestroyStartedOnly(g) ==
    /\ phase[g] \in {"created", "active"}
    /\ Goto(g, "gone")
    /\ IF m_started(g) /\ ~m_completed(g)
       THEN /\ writer' = [b \in Backend |-> IF writer[b] = g THEN NoGuard ELSE writer[b]]
            /\ txn' = [txn EXCEPT ![g] = NoTxn]
       ELSE UNCHANGED <<writer, txn>>
    /\ UNCHANGED <<mode, idx, outcome, written, durable, rdonly, faults>>

(* ~TransactionGuard() followed by ~MDBXTransaction() of every element.    *)
(* The guard rolls back only when it is started and not completed, and     *)
(* swallows the exceptions; the transactions then reset or abort whatever  *)
(* handle they still hold.  A read-only transaction resets the shared      *)
(* handle whether or not its own renew succeeded.                          *)
Destroy(g) ==
    /\ phase[g] \in {"created", "active"}
    /\ Goto(g, "gone")
    /\ writer' = [b \in Backend |->
                    IF txn[g][b] = "live" /\ writer[b] = g THEN NoGuard ELSE writer[b]]
    /\ rdonly' = [b \in Backend |->
                    rdonly[b] /\ ~(mode[g] = "READ_ONLY" /\ txn[g][b] # "null")]
    /\ txn' = [txn EXCEPT ![g] = NoTxn]
    /\ UNCHANGED <<mode, idx, outcome, written, durable, faults>>

(* The process dies: every guard is lost, the engine recovers its lock and *)
(* keeps what it has committed.                                            *)
Crash ==
    /\ Fault
    /\ phase' = [g \in Guard |-> IF phase[g] = "absent" THEN "absent" ELSE "gone"]
    /\ txn' = [g \in Guard |-> NoTxn]
    /\ writer' = [b \in Backend |-> NoGuard]
    /\ rdonly' = [b \in Backend |-> FALSE]
    /\ UNCHANGED <<mode, idx, outcome, written, durable>>

\* Every guard has been used: the system may stop.
Finished == (\A g \in Guard : phase[g] = "gone") /\ UNCHANGED vars

BeginStep(g) ==
    \/ \E b \in Backend : TxnBeginWritable(g, b) \/ TxnBeginReadOnly(g, b)
                            \/ TxnBeginAgain(g, b)
    \/ BeginReturns(g)

CommitStep(g) ==
    \/ \E b \in Backend : \/ AfterTransaction(g, b) \/ TxnCommitWritable(g, b)
                          \/ TxnReset(g, b, "committing")
                          \/ TxnNotActive(g, b, "committing")
    \/ CommitReturns(g)

RollbackStep(g) ==
    \/ \E b \in Backend : \/ TxnAbort(g, b) \/ TxnReset(g, b, "rollback")
                          \/ TxnNotActive(g, b, "rollback")
    \/ RollbackReturns(g)

FailingStep(g) ==
    \E b \in Backend : \/ TxnBeginFails(g, b) \/ AfterTransactionFails(g, b)
                       \/ TxnCommitFails(g, b) \/ TxnAbortFails(g, b)
                       \/ TxnResetFails(g, b, "committing")
                       \/ TxnResetFails(g, b, "rollback")

Next ==
    \/ \E g \in Guard :
        \/ \E m \in Modes : create_guard(g, m)
        \/ begin(g) \/ commit(g) \/ rollback(g) \/ Destroy(g)
        \/ \E b \in Backend : Modify(g, b)
        \/ BeginStep(g) \/ CommitStep(g) \/ RollbackStep(g) \/ FailingStep(g)
    \/ Crash
    \/ Finished

Spec == Init /\ [][Next]_vars

(* A member function that runs takes its next step, and a guard's scope    *)
(* ends sooner or later, which destroys it.                                *)
Fairness ==
    \A g \in Guard : /\ WF_vars(BeginStep(g))
                     /\ WF_vars(CommitStep(g))
                     /\ WF_vars(RollbackStep(g))
                     /\ SF_vars(Destroy(g))

FairSpec == Spec /\ Fairness

-----------------------------------------------------------------------------
(* Safety                                                                  *)

\* The write lock of an environment belongs to a guard that still exists: a
\* guard that is destroyed, after a begin() that failed half-way too, leaves
\* no MDBX transaction behind (~TransactionGuard and ~MDBXTransaction).
NoOrphanedWriter ==
    \A b \in Backend : writer[b] # NoGuard => phase[writer[b]] \notin {"absent", "gone"}

\* Whatever failed and whenever the process died, the backends that hold the
\* writes of a guard are a prefix, in storage-list order, of those it wrote.
CommitIsPrefix ==
    \A g \in Guard : \A b, c \in Backend :
        (g \in durable[b] /\ c \in written[g] /\ c < b) => g \in durable[c]

\* A guard that reports completion is all-or-nothing: commit() returned only
\* after every write became durable, rollback() returned only when none is,
\* even after an earlier commit() of the same guard failed half-way.
CompletedIsAtomic ==
    \A g \in Guard :
        /\ outcome[g] = "commit"   => \A b \in written[g] : g \in durable[b]
        /\ outcome[g] = "rollback" => \A b \in Backend : g \notin durable[b]

(* Action property: durable data is never taken back, and only a guard     *)
(* inside the commit loop adds to it.                                      *)
PublishStep ==
    \A b \in Backend :
        /\ durable[b] \subseteq durable'[b]
        /\ \A g \in durable'[b] \ durable[b] : phase[g] = "committing"

OnlyCommitPublishes == [][PublishStep]_vars

(* Refinement: a guard implements GuardContract.                           *)
verdictOf(g) ==
    CASE outcome[g] = "commit"   -> "committed"
      [] outcome[g] = "rollback" -> "rolledback"
      [] outcome[g] = "none" /\ phase[g] = "gone" -> "dropped"
      [] OTHER -> "open"

Contract == INSTANCE GuardContract WITH
    staged <- written, published <- durable, verdict <- [g \in Guard |-> verdictOf(g)]

\* Every behaviour of the guards is one the contract allows.
ContractSpec == Contract!Spec

(* Liveness: begin() returns or throws.  Every guard begins the backends   *)
(* in the same order, so guards never wait for each other in a circle.     *)
BeginTerminates ==
    \A g \in Guard : phase[g] = "beginning" ~> phase[g] # "beginning"

-----------------------------------------------------------------------------
(* The inductive invariant behind the safety properties                    *)

\* The engine's writer is the guard whose WRITABLE m_txn is live.
WriterIsLive ==
    \A g \in Guard : \A b \in Backend :
        writer[b] = g <=> (mode[g] = "WRITABLE" /\ txn[g][b] = "live")

\* A guard that does not exist holds no handle.
NoGuardNoTxn ==
    \A g \in Guard : \A b \in Backend : phase[g] \in {"absent", "gone"} => txn[g][b] = "null"

\* The commit loop has finished the backends before its counter.
CommitLoop ==
    \A g \in Guard : \A b \in Backend :
        (phase[g] = "committing" /\ b < idx[g])
            => txn[g][b] = "null" /\ (b \in written[g] => g \in durable[b])

\* Once a backend holds the guard's writes, it and all earlier ones are done.
DurableIsDone ==
    \A g \in Guard : \A b, c \in Backend :
        (g \in durable[b] /\ c <= b)
            => txn[g][c] = "null" /\ (c \in written[g] => g \in durable[c])

DurableWasStarted ==
    \A g \in Guard : \A b \in Backend :
        g \in durable[b] => phase[g] \notin {"absent", "created", "beginning"}

\* A rollback loop that got past the first backend found nothing durable.
RollbackLoop ==
    \A g \in Guard : \A b \in Backend :
        (phase[g] = "rollback" /\ idx[g] > 1) => g \notin durable[b]

OnlyWritersWrite ==
    \A g \in Guard : written[g] # {} => mode[g] = "WRITABLE" /\ phase[g] # "absent"

CompletedIsIdle == \A g \in Guard : outcome[g] # "none" => phase[g] \in {"active", "gone"}

IInv ==
    /\ TypeOK /\ WriterIsLive /\ NoGuardNoTxn /\ CommitLoop /\ DurableIsDone
    /\ DurableWasStarted /\ RollbackLoop /\ OnlyWritersWrite /\ CompletedIsIdle
    /\ CompletedIsAtomic

=============================================================================
