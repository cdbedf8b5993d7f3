------------------------------- MODULE BarDB -------------------------------
(***************************************************************************)
(* BarBD.hpp: the bar tables of one MDBX backend.  A series is a symbol in *)
(* a time frame; its bars are stored by segment, and one record of the     *)
(* metadata table describes the series.  The records a write transaction   *)
(* updates live in the map m_metadata, which prepare_metadata() loads and  *)
(* after_transaction() writes back; the map outlives the transaction and   *)
(* is shared by every guard of the process.                                *)
(*                                                                         *)
(* At most one write transaction runs (the environment's write lock) and   *)
(* at most one reader, which works on the snapshot it began with.  Bars    *)
(* are their times; the other columns, and the record's fields that do not *)
(* depend on the bars, are left out.                                       *)
(***************************************************************************)
EXTENDS Integers, FiniteSets

CONSTANTS
    Symbol,         \* (market type, exchange, symbol) triples
    TimeFrame,      \* subset of {"M1", "H4", "D1"}
    Duration,       \* get_segment_duration_ms, in model ticks
    MaxTime,        \* bar times are 0..MaxTime
    Readers,        \* whether read-only guards are used
    MaxCount,       \* bound on the bar count of a record
    MaxFaults       \* bound on failures of the engine and of the process

ASSUME FramesAssumption   == TimeFrame \subseteq {"M1", "H4", "D1"}
ASSUME DurationAssumption == Duration \in [TimeFrame -> Nat \ {0}]
ASSUME TimeAssumption     == MaxTime \in Nat
ASSUME ReadersAssumption  == Readers \in BOOLEAN
ASSUME BoundAssumption    == MaxCount \in Nat /\ MaxFaults \in Nat

VARIABLES
    bars, meta,         \* committed tables: bars_<tf> and bar_metadata
    wbars, wmeta,       \* the same tables as the write transaction sees them
    tx,                 \* "none", "open", or "hooked" inside commit()
    m_metadata,         \* cached records
    m_prepare_metadata, \* the cache is in use
    reader,             \* the metadata table the running reader sees, if any
    calls,              \* what the running write transaction has done
    known,              \* series some committed transaction has upserted
    exposed,            \* a transaction a reader had disturbed has committed
    faults

vars == <<bars, meta, wbars, wmeta, tx, m_metadata, m_prepare_metadata, reader,
          calls, known, exposed, faults>>

disk  == <<bars, meta, known, exposed>>
cache == <<m_metadata, m_prepare_metadata>>

Time == 0..MaxTime
Series == Symbol \X TimeFrame
Frame(k) == k[2]

\* time_ms / duration_ms
SegmentOf(tf, t) == t \div Duration[tf]
Segment == UNION {{SegmentOf(tf, t) : t \in Time} : tf \in TimeFrame}
Span(tf, s) == {t \in Time : SegmentOf(tf, t) = s}

Records == [count : 0..MaxCount, start : Time, end : Time]

\* What has happened in the running write transaction: it has prepared the
\* metadata, which series it has upserted, which call threw last, and whether
\* a reader has changed the cache since.
NewCalls == [prepared |-> FALSE, upserted |-> {}, threw |-> "none", disturbed |-> FALSE]

Calls == [prepared : BOOLEAN, upserted : SUBSET Series,
          threw : {"none", "prepare", "commit", "upsert", "erase", "erase_data"},
          disturbed : BOOLEAN]

NoBars == [k \in Series |-> [s \in Segment |-> {}]]

\* A table of records, and m_metadata, map some of the series to a record.
MetaTables == UNION {[K -> Records] : K \in SUBSET Series}
NoMeta == [k \in {} |-> {}]
Part(m, K) == [k \in K |-> m[k]]
Overlay(m, w) == [k \in DOMAIN m \cup DOMAIN w |-> IF k \in DOMAIN m THEN m[k] ELSE w[k]]
BarTables  == [Series -> [Segment -> SUBSET Time]]

TypeOK ==
    /\ bars \in BarTables /\ wbars \in BarTables
    /\ \A m \in {meta, wmeta, m_metadata} : m \in MetaTables
    /\ tx \in {"none", "open", "hooked"}
    /\ m_prepare_metadata \in BOOLEAN
    /\ reader \subseteq MetaTables /\ Cardinality(reader) <= 1
    /\ calls \in Calls
    /\ known \subseteq Series /\ exposed \in BOOLEAN
    /\ faults \in 0..MaxFaults

Init ==
    /\ bars = NoBars /\ wbars = NoBars
    /\ meta = NoMeta /\ wmeta = NoMeta /\ m_metadata = NoMeta
    /\ tx = "none" /\ m_prepare_metadata = FALSE
    /\ reader = {}
    /\ calls = NewCalls /\ known = {} /\ exposed = FALSE
    /\ faults = 0

Fault == faults < MaxFaults /\ faults' = faults + 1
Threw(op) == calls' = [calls EXCEPT !.threw = op]

-----------------------------------------------------------------------------
(* Write transactions, as TransactionGuard drives them                     *)

\* before_transaction() is empty: the cache is what the last user left.
Begin ==
    /\ tx = "none"
    /\ tx' = "open"
    /\ UNCHANGED <<disk, wbars, wmeta, cache, reader, calls, faults>>

\* Without a write transaction the next one would see the committed tables.
Discard == tx' = "none" /\ wbars' = bars /\ wmeta' = meta /\ calls' = NewCalls

(* The first half of commit(): the cached records go to the table.         *)
after_transaction ==
    /\ tx = "open"
    /\ tx' = "hooked"
    /\ wmeta' = IF m_prepare_metadata THEN Overlay(m_metadata, wmeta) ELSE wmeta
    /\ m_prepare_metadata' = FALSE
    /\ UNCHANGED <<disk, wbars, m_metadata, reader, calls, faults>>

\* A put throws: some records are in the table, and the cache stays in use.
FlushFails ==
    /\ tx = "open" /\ m_prepare_metadata
    /\ \E K \in SUBSET DOMAIN m_metadata :
        K # DOMAIN m_metadata /\ wmeta' = Overlay(Part(m_metadata, K), wmeta)
    /\ Threw("commit") /\ Fault
    /\ UNCHANGED <<disk, wbars, tx, cache, reader>>

Commit ==
    /\ tx = "hooked"
    /\ tx' = "none"
    /\ bars' = wbars /\ meta' = wmeta
    /\ known' = known \cup calls.upserted
    /\ exposed' = (exposed \/ calls.disturbed)
    /\ calls' = NewCalls
    /\ UNCHANGED <<wbars, wmeta, cache, reader, faults>>

\* Another backend's hook or commit fails, or this commit does: commit()
\* throws, and this backend's transaction may still be open.
CommitFails ==
    /\ tx = "hooked"
    /\ Fault
    /\ \/ tx' = "open" /\ Threw("commit") /\ UNCHANGED <<wbars, wmeta>>
       \/ Discard
    /\ UNCHANGED <<disk, cache, reader>>

\* rollback(), or the guard is destroyed.
Rollback ==
    /\ tx = "open"
    /\ Discard
    /\ UNCHANGED <<disk, cache, reader, faults>>

\* The process dies and starts again.
Restart ==
    /\ Fault
    /\ Discard
    /\ reader' = {}
    /\ m_metadata' = NoMeta /\ m_prepare_metadata' = FALSE
    /\ UNCHANGED disk

-----------------------------------------------------------------------------
(* Read-only guards, which share the cache.  They are committed or dropped *)
(* like any other, so their commit() runs after_transaction too.           *)

ReaderBegin ==
    /\ Readers /\ reader = {}
    /\ reader' = {meta}
    /\ UNCHANGED <<disk, wbars, wmeta, tx, cache, calls, faults>>

\* Whether a step changes the cache under a writer that has prepared it.
Disturbs ==
    calls' = [calls EXCEPT !.disturbed =
                @ \/ (tx = "open" /\ calls.prepared /\ cache' # cache)]

\* prepare_metadata with the reader's transaction.
ReaderPrepare ==
    /\ m_metadata' \in reader /\ m_prepare_metadata' = TRUE
    /\ Disturbs
    /\ UNCHANGED <<disk, wbars, wmeta, tx, reader, faults>>

\* Its scan of the table throws: what it has read stays in the cleared map.
ReaderPrepareFails ==
    /\ \E m \in reader : \E K \in SUBSET DOMAIN m : m_metadata' = Part(m, K)
    /\ UNCHANGED m_prepare_metadata
    /\ Disturbs /\ Fault
    /\ UNCHANGED <<disk, wbars, wmeta, tx, reader>>

\* after_transaction puts nothing, or throws because the transaction is
\* read-only; the guard is then dropped.
ReaderCommit ==
    /\ reader # {}
    /\ reader' = {}
    /\ m_prepare_metadata' = (m_prepare_metadata /\ m_metadata # NoMeta)
    /\ UNCHANGED <<disk, wbars, wmeta, tx, m_metadata, faults>>
    /\ Disturbs

ReaderRollback ==
    /\ reader # {}
    /\ reader' = {}
    /\ UNCHANGED <<disk, wbars, wmeta, tx, cache, calls, faults>>

ReaderSteps ==
    ReaderBegin \/ ReaderPrepare \/ ReaderPrepareFails \/ ReaderCommit \/ ReaderRollback

-----------------------------------------------------------------------------
(* Operations of the write transaction                                     *)

\* Mutant of prepare_metadata: m_metadata.clear() is left out; emplace() does
\* not replace a record that is still there.
PrepareWithoutClear ==
    /\ tx = "open"
    /\ m_metadata' = Overlay(m_metadata, wmeta)
    /\ m_prepare_metadata' = TRUE
    /\ calls' = [calls EXCEPT !.prepared = TRUE]
    /\ UNCHANGED <<disk, wbars, wmeta, tx, reader, faults>>

prepare_metadata ==
    /\ tx = "open"
    /\ m_metadata' = wmeta
    /\ m_prepare_metadata' = TRUE
    /\ calls' = [calls EXCEPT !.prepared = TRUE]
    /\ UNCHANGED <<disk, wbars, wmeta, tx, reader, faults>>

\* The scan of the table throws: what it has read stays in the cleared map, and
\* the cache is in use if it was.
PrepareFails ==
    /\ tx = "open"
    /\ \E K \in SUBSET DOMAIN wmeta : m_metadata' = Part(wmeta, K)
    /\ Threw("prepare") /\ Fault
    /\ UNCHANGED <<disk, wbars, wmeta, tx, m_prepare_metadata, reader>>

\* Mutant of UpsertedRecord: an existing record keeps its end.
RecordKeepsEnd(k, s, B, front, back) ==
    LET old == m_metadata[k]
        n == Cardinality(B)
    IN IF k \notin DOMAIN m_metadata THEN [count |-> n, start |-> front, end |-> back]
       ELSE [old EXCEPT !.count = n, !.start = IF front < @ THEN front ELSE @]

\* The cached record of series k once the bars B go to segment s.
UpsertedRecord(k, s, B, front, back) ==
    LET old == m_metadata[k]
        n == Cardinality(B)
        stored == Cardinality(wbars[k][s])
    IN IF k \notin DOMAIN m_metadata THEN [count |-> n, start |-> front, end |-> back]
       ELSE [count |-> IF stored > 0 /\ old.count >= stored THEN (old.count - stored) + n ELSE n,
             start |-> IF front < old.start THEN front ELSE old.start,
             end   |-> IF back > old.end THEN back ELSE old.end]

UpdateCache(k, s, B, front, back) ==
    IF m_prepare_metadata
    THEN /\ UpsertedRecord(k, s, B, front, back).count <= MaxCount
         /\ m_metadata' = Overlay([j \in {k} |-> UpsertedRecord(k, s, B, front, back)], m_metadata)
    ELSE UNCHANGED m_metadata

\* What a call brings: bars in order of time, which a caller may take from
\* more than one segment.
Ordered(B, front, back) == front \in B /\ back \in B /\ \A t \in B : front <= t /\ t <= back

\* Mutant of Crosses: > for >= at the boundary.
CrossesOffByOne(tf, front, back) ==
    back > SegmentOf(tf, front) * Duration[tf] + Duration[tf]

Crosses(tf, front, back) ==
    back >= SegmentOf(tf, front) * Duration[tf] + Duration[tf]

upsert(k, B, front, back) ==
    /\ tx = "open"
    /\ ~Crosses(Frame(k), front, back)
    /\ LET s == SegmentOf(Frame(k), front) IN
        /\ UpdateCache(k, s, B, front, back)
        /\ wbars' = [wbars EXCEPT ![k][s] = B]
    /\ calls' = [calls EXCEPT !.upserted = @ \cup {k}]
    /\ UNCHANGED <<disk, wmeta, tx, m_prepare_metadata, reader, faults>>

UpsertCrosses(k, front, back) ==
    /\ tx = "open"
    /\ Crosses(Frame(k), front, back)
    /\ Threw("upsert")
    /\ UNCHANGED <<disk, wbars, wmeta, tx, cache, reader, faults>>

\* serialize() rejects the configuration, or the put fails: the cached record
\* has been changed already.
UpsertFails(k, B, front, back) ==
    /\ tx = "open"
    /\ ~Crosses(Frame(k), front, back)
    /\ UpdateCache(k, SegmentOf(Frame(k), front), B, front, back)
    /\ Threw("upsert") /\ Fault
    /\ UNCHANGED <<disk, wbars, wmeta, tx, m_prepare_metadata, reader>>

\* Mutant of CountWithout: the count is subtracted without a comparison.
CountUnderflows(c, k, S) ==
    LET after[n \in 0..(MaxTime + 1)] ==
            IF n = 0 THEN c
            ELSE IF n - 1 \notin S THEN after[n - 1]
            ELSE LET stored == Cardinality(wbars[k][n - 1])
                 IN IF stored > 0 THEN after[n - 1] - stored ELSE 0
    IN after[MaxTime + 1]

\* The count c of series k after its segments S are erased one after another;
\* erasing a segment that is not stored resets the count.
CountWithout(c, k, S) ==
    LET after[n \in 0..(MaxTime + 1)] ==
            IF n = 0 THEN c
            ELSE IF n - 1 \notin S THEN after[n - 1]
            ELSE LET stored == Cardinality(wbars[k][n - 1])
                 IN IF stored > 0 /\ after[n - 1] >= stored THEN after[n - 1] - stored ELSE 0
    IN after[MaxTime + 1]

RecordsWithout(m, k, S) ==
    [j \in DOMAIN m |->
        IF j = k
        THEN [count |-> CountWithout(m[k].count, k, S), start |-> m[k].start, end |-> m[k].end]
        ELSE m[j]]

\* erase(symbol, time frame, segment) resets the count of the record, for the
\* segments R, and then deletes the bars, for the segments D.
EraseParts(k, R, D) ==
    /\ IF m_prepare_metadata
       THEN m_metadata' = RecordsWithout(m_metadata, k, R) /\ UNCHANGED wmeta
       ELSE wmeta' = RecordsWithout(wmeta, k, R) /\ UNCHANGED m_metadata
    /\ wbars' = [wbars EXCEPT ![k] = [s \in Segment |-> IF s \in D THEN {} ELSE @[s]]]

EraseSegments(k, S) == EraseParts(k, S, S)

EraseSegment(k, s) ==
    /\ tx = "open"
    /\ EraseSegments(k, {s})
    /\ UNCHANGED <<disk, tx, m_prepare_metadata, reader, calls, faults>>

\* The engine fails at segment s of S: before or after its record is reset.
EraseFails(k, S) ==
    /\ tx = "open"
    /\ \E s \in S : LET D == {d \in S : d < s} IN
            EraseParts(k, D, D) \/ EraseParts(k, D \cup {s}, D)
    /\ Threw("erase") /\ Fault
    /\ UNCHANGED <<disk, tx, m_prepare_metadata, reader>>

\* The masked erase and erase_all_entries leave the records alone.
EraseSeries(K) ==
    /\ wbars' = [k \in Series |-> IF k \in K THEN NoBars[k] ELSE wbars[k]]
    /\ UNCHANGED <<disk, tx, wmeta, cache, reader, calls, faults>>

\* The scan throws in segment s of series k: the tables before its table are
\* done, and of its own table other symbols may be.
tf_index == [tf \in {"M1", "H4", "D1"} |-> CASE tf = "M1" -> 4 [] tf = "H4" -> 9 [] tf = "D1" -> 10]
Table(k) == tf_index[Frame(k)]

EraseUpTo(L, k, s) ==
    wbars' = [j \in Series |-> IF j \in L THEN NoBars[j]
                               ELSE [d \in Segment |-> IF j = k /\ d < s THEN {} ELSE wbars[j][d]]]

EraseSeriesFails(K) ==
    /\ tx = "open"
    /\ \E k \in K, s \in Segment : \E L \in SUBSET {j \in K : Table(j) <= Table(k)} :
        /\ k \notin L /\ {j \in K : Table(j) < Table(k)} \subseteq L
        /\ EraseUpTo(L, k, s)
    /\ Threw("erase") /\ Fault
    /\ UNCHANGED <<disk, tx, wmeta, cache, reader>>

EraseSymbolFrame(k) == tx = "open" /\ EraseSeries({k})
EraseFrame(tf) == tx = "open" /\ EraseSeries({k \in Series : Frame(k) = tf})

\* erase_data() with a bound equal to 0: every table of the symbol.
EraseDataUnbounded(sym) == tx = "open" /\ EraseSeries({k \in Series : k[1] = sym})

\* erase_data() with both bounds: the tables in the order of timeframe_values,
\* until entry 9 (1440 instead of 14400) makes get_segment_duration_ms throw.
EraseDataRange(sym, from, to) ==
    /\ tx = "open"
    /\ from > 0 /\ to > 0
    /\ IF "M1" \in TimeFrame
       THEN EraseSegments(<<sym, "M1">>, SegmentOf("M1", from)..SegmentOf("M1", to - 1))
       ELSE UNCHANGED <<wbars, wmeta, m_metadata>>
    /\ Threw("erase_data")
    /\ UNCHANGED <<disk, tx, m_prepare_metadata, reader, faults>>

\* Every table is emptied; the cache is not.
erase_all_data ==
    /\ tx = "open"
    /\ wbars' = NoBars /\ wmeta' = NoMeta
    /\ UNCHANGED <<disk, tx, cache, reader, calls, faults>>

\* The bars are gone, and deleting the records throws.
EraseAllFails ==
    /\ tx = "open"
    /\ wbars' = NoBars
    /\ \E K \in SUBSET DOMAIN wmeta : wmeta' = Part(wmeta, K)
    /\ Threw("erase") /\ Fault
    /\ UNCHANGED <<disk, tx, cache, reader>>

-----------------------------------------------------------------------------
(* Clients                                                                 *)

Erasures ==
    \/ \E k \in Series : EraseSymbolFrame(k) \/ \E s \in Segment : EraseSegment(k, s)
    \/ \E tf \in TimeFrame : EraseFrame(tf)
    \/ \E sym \in Symbol : EraseDataUnbounded(sym)
    \/ \E sym \in Symbol, from, to \in 1..(MaxTime + 1) : EraseDataRange(sym, from, to)
    \/ erase_all_data

ErasureFails ==
    \/ \E k \in Series, s \in Segment : EraseFails(k, {s})
    \/ \E k \in Series, from, to \in 1..(MaxTime + 1) :
            /\ Frame(k) = "M1"
            /\ EraseFails(k, SegmentOf("M1", from)..SegmentOf("M1", to - 1))
    \/ \E k \in Series : EraseSeriesFails({k})
    \/ \E tf \in TimeFrame : EraseSeriesFails({k \in Series : Frame(k) = tf})
    \/ \E sym \in Symbol : EraseSeriesFails({k \in Series : k[1] = sym})
    \/ EraseSeriesFails(Series)
    \/ EraseAllFails

Upserts ==
    \E k \in Series, B \in SUBSET Time, front, back \in Time :
        /\ Ordered(B, front, back)
        /\ \/ upsert(k, B, front, back)
           \/ UpsertCrosses(k, front, back)
           \/ UpsertFails(k, B, front, back)

Lifecycle == Begin \/ Commit \/ CommitFails \/ Rollback \/ Restart

Work == after_transaction \/ FlushFails \/ Upserts \/ Erasures \/ ErasureFails

\* Any order of calls the classes accept.
Next == Lifecycle \/ prepare_metadata \/ PrepareFails \/ Work \/ ReaderSteps

Spec == Init /\ [][Next]_vars

(* A client that follows the comments: the first call of every write       *)
(* transaction prepares the metadata ("Required before using metadata      *)
(* during the transaction"), and it rolls back after an exception.  Its    *)
(* read-only guards prepare, commit and end whenever they like.            *)
CarefulNext ==
    \/ Lifecycle
    \/ ~calls.prepared /\ calls.threw = "none" /\ (prepare_metadata \/ PrepareFails)
    \/ calls.prepared /\ calls.threw = "none" /\ Work
    \/ ReaderSteps

CarefulSpec == Init /\ [][CarefulNext]_vars

-----------------------------------------------------------------------------
(* Safety                                                                  *)

\* The records m cover the bars b.
Covers(m, b) ==
    \A k \in Series : \A s \in Segment : \A t \in b[k][s] :
        k \in DOMAIN m /\ m[k].start <= t /\ t <= m[k].end

\* Whatever the order of the calls, a segment holds bars of its own period
\* only (the boundary check of upsert against get_segment_duration_ms).
BarsInOwnSegment ==
    \A k \in Series : \A s \in Segment : wbars[k][s] \cup bars[k][s] \subseteq Span(Frame(k), s)

\* For a careful client the committed record of a series covers its bars,
\* after failed calls, failed commits, rollbacks, restarts and erasures too,
\* and whatever its readers do to the cache in transactions that are rolled
\* back or do not work on it: a replay that trusts BarMetadata.start_time_ms
\* and end_time_ms loses none, until a transaction commits during which a
\* reader's prepare_metadata or commit has changed the cache (BarBD.hpp:78).
CoveredUnlessExposed == exposed \/ Covers(meta, bars)

\* For a careful client every committed record belongs to a series that a
\* committed transaction has upserted: what a rolled-back transaction left in
\* m_metadata never reaches the table, and neither do records a reader put
\* there that the writer's table does not know.
NoPhantom == DOMAIN meta \subseteq known

-----------------------------------------------------------------------------
(* The inductive invariant behind the properties of a careful client       *)

\* Tables are functions on the series and the segments; records and bars have
\* times.
Describes(m) ==
    /\ m = [k \in DOMAIN m |-> m[k]] /\ DOMAIN m \subseteq Series
    /\ \A k \in DOMAIN m : m[k].start \in Time /\ m[k].end \in Time

Holding(b) == b = [k \in Series |-> b[k]] /\ \A k \in Series : b[k] \in [Segment -> SUBSET Time]

Shape ==
    /\ \A m \in {meta, wmeta, m_metadata} \cup reader : Describes(m)
    /\ Holding(bars) /\ Holding(wbars)
    /\ calls \in Calls
    /\ tx \in {"none", "open", "hooked"}

\* Between transactions the working copy is the committed one, and before the
\* preparation too.
CleanUntilPrepared ==
    /\ ~calls.prepared => wbars = bars /\ wmeta = meta /\ calls.upserted = {} /\ tx # "hooked"
    /\ tx = "none" => ~calls.prepared

\* No reader has changed the cache under this writer, or under an earlier one
\* that committed.
Trusted == ~exposed /\ ~calls.disturbed

\* A prepared transaction in which nothing threw works on the cache, as long
\* as no reader changes it; the cache has records of known series at any rate.
CacheLeads ==
    tx = "open" /\ calls.prepared /\ calls.threw = "none" =>
        /\ Trusted => m_prepare_metadata /\ Covers(m_metadata, wbars)
        /\ DOMAIN m_metadata \subseteq known \cup calls.upserted

\* What is about to be committed is covered.
HookedIsCovered == tx = "hooked" /\ Trusted => Covers(wmeta, wbars)

WorkingIsKnown == DOMAIN wmeta \subseteq known \cup calls.upserted

SnapshotIsKnown == \A m \in reader : DOMAIN m \subseteq known

IInv ==
    /\ Shape /\ CleanUntilPrepared /\ CacheLeads /\ HookedIsCovered
    /\ WorkingIsKnown /\ SnapshotIsKnown /\ CoveredUnlessExposed /\ NoPhantom

-----------------------------------------------------------------------------
(* What the comments say and the code does not do                          *)

\* "Start timestamp of bar series", "End timestamp of bar series" (BarMetadata):
\* the committed record of a series covers its bars.
MetaCoversBars == Covers(meta, bars)

\* "Erases data defined by the specified metadata from the backend."
\* (erase_data): a call with a bounded time range returns.
EraseDataReturns == calls.threw # "erase_data"
=============================================================================
