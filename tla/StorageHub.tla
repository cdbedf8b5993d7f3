----------------------------- MODULE StorageHub -----------------------------
(***************************************************************************)
(* MarketDataStorageHub.hpp over MDBXMarketDataStorage.hpp: several        *)
(* backends in a fixed order, each with its own storage metadata record    *)
(* and bar tables, and the hub's copies of the records, m_storage_metadata,*)
(* by which find_storage_index routes every segment to the first backend   *)
(* whose copy holds it.  The copies are shared by all guards and change    *)
(* only where the hub reads a record, whatever becomes of the transaction  *)
(* it read the record in.                                                  *)
(*                                                                         *)
(* One time frame (BarDB treats the series of several); a bar is its time. *)
(* At most one write transaction and one read-only guard run, the latter   *)
(* on the tables as they were when it began.                               *)
(***************************************************************************)
EXTENDS StorageMetadata, FiniteSets

CONSTANTS
    N,              \* number of backends
    Instrument,     \* the instruments clients ask for
    Duration,       \* get_segment_duration_ms, in model ticks
    MaxSegment,     \* segments are 1..MaxSegment: segment 0 is January 1970
    Patch,          \* metadata that extend_metadata is called with
    Erasure,        \* arguments of erase_data: backends and metadata
    Readers,        \* whether read-only guards are used
    Batch,          \* arguments of upsert: sets of bar times
    MaxFaults       \* bound on failures of the engine and of the process

ASSUME NAssumption          == N \in Nat \ {0}
ASSUME DurationAssumption   == Duration \in Nat \ {0}
ASSUME SegmentAssumption    == MaxSegment \in Nat \ {0}
ASSUME InstrumentAssumption == Instrument \subseteq AllInstruments
ASSUME FlagAssumption       == "BARS" \in Flag
ASSUME PatchAssumption      == Patch \subseteq Metadata
ASSUME ReadersAssumption    == Readers \in BOOLEAN
ASSUME FaultAssumption      == MaxFaults \in Nat

Backend == 1..N
Segment == 1..MaxSegment
Time == Duration..(MaxSegment * Duration + Duration - 1)
ASSUME ErasureAssumption == Erasure \subseteq Backend \X Metadata
ASSUME BatchAssumption == Batch \subseteq (SUBSET Time) \ {{}}

VARIABLES
    record, bars,           \* committed tables of each backend
    wrecord, wbars,         \* the same as the write transaction sees them
    tx,                     \* "none" or "open"
    m_storage_metadata,     \* the hub's copies of the records
    reader,                 \* the record table the running read-only guard sees, if any
    fresh,                  \* copies that are the records as the writer sees them
    threw,                  \* the write transaction has seen an exception
    faults

vars == <<record, bars, wrecord, wbars, tx, m_storage_metadata, reader,
          fresh, threw, faults>>
disk    == <<record, bars>>
working == <<wrecord, wbars>>
client  == <<fresh, threw>>

SegmentOf(t) == t \div Duration
Span(s) == {t \in Time : SegmentOf(t) = s}

\* A backend without a record is not in the domain of the record table.
IsRecordTable(r) ==
    /\ r = [b \in DOMAIN r |-> r[b]] /\ DOMAIN r \subseteq Backend
    /\ \A b \in DOMAIN r : r[b] \in Metadata
BarTables == [Backend -> [Instrument -> [Segment -> SUBSET Time]]]
NoRecords == [b \in {} |-> NoMetadata]
NoBars == [b \in Backend |-> [i \in Instrument |-> [s \in Segment |-> {}]]]

\* What extend_metadata and erase_data start from when there is no record.
CurrentRecord(r, b) == IF b \in DOMAIN r THEN r[b] ELSE NoMetadata
PutRecord(r, b, m) == [c \in DOMAIN r \cup {b} |-> IF c = b THEN m ELSE r[c]]

\* Mutant of Refreshed: only the records that were found are kept.
RefreshedFoundOnly(copies, r) == r

\* The copies after refresh_metadata in a transaction that sees the records
\* r: where nothing is found the copy stays as it was.
Refreshed(copies, r) == [b \in Backend |-> IF b \in DOMAIN r THEN r[b] ELSE copies[b]]

NoCopies == [b \in Backend |-> NoMetadata]

TypeOK ==
    /\ IsRecordTable(record) /\ IsRecordTable(wrecord)
    /\ bars \in BarTables /\ wbars \in BarTables
    /\ tx \in {"none", "open"}
    /\ m_storage_metadata \in [Backend -> Metadata]
    /\ \A r \in reader : IsRecordTable(r)
    /\ Cardinality(reader) <= 1
    /\ fresh \subseteq Backend /\ threw \in BOOLEAN
    /\ faults \in 0..MaxFaults

\* The hub has been started on empty databases.
Init ==
    /\ record = NoRecords /\ wrecord = NoRecords
    /\ bars = NoBars /\ wbars = NoBars
    /\ tx = "none" /\ m_storage_metadata = NoCopies
    /\ reader = {}
    /\ fresh = {} /\ threw = FALSE /\ faults = 0

-----------------------------------------------------------------------------
(* Transactions: TransactionGuard treats their failures one by one; here   *)
(* a commit succeeds, or publishes the first backends only.                *)

Begin ==
    /\ tx = "none" /\ tx' = "open"
    /\ UNCHANGED <<disk, working, m_storage_metadata, reader, client, faults>>

\* The backends in published commit; the others lose what they did.
EndWith(published) ==
    /\ tx = "open" /\ tx' = "none"
    /\ record' = [b \in (DOMAIN record \ published) \cup (DOMAIN wrecord \cap published) |->
                    IF b \in published THEN wrecord[b] ELSE record[b]]
    /\ bars' = [b \in Backend |-> IF b \in published THEN wbars[b] ELSE bars[b]]
    /\ wrecord' = record' /\ wbars' = bars'
    /\ fresh' = {} /\ threw' = FALSE
    /\ UNCHANGED <<m_storage_metadata, reader>>

Commit == EndWith(Backend) /\ UNCHANGED faults

\* One backend's commit fails, after those before it, and the guard is dropped.
TornCommit == faults < MaxFaults /\ faults' = faults + 1 /\ \E n \in 0..(N - 1) : EndWith(1..n)

Rollback == EndWith({}) /\ UNCHANGED faults

\* The process dies and a new one starts its hub, or stop() and start() are
\* called on the same hub, which keeps its copies.
Restart ==
    /\ faults < MaxFaults /\ faults' = faults + 1
    /\ \E copies \in {NoCopies, m_storage_metadata} :
            m_storage_metadata' = Refreshed(copies, record)
    /\ tx' = "none" /\ reader' = {}
    /\ wrecord' = record /\ wbars' = bars /\ fresh' = {} /\ threw' = FALSE
    /\ UNCHANGED disk

-----------------------------------------------------------------------------
(* Metadata operations                                                     *)

extend_metadata(b, p) ==
    /\ tx = "open"
    /\ wrecord' = PutRecord(wrecord, b, merge_with(CurrentRecord(wrecord, b), p))
    /\ m_storage_metadata' = [m_storage_metadata EXCEPT ![b] = wrecord'[b]]
    /\ fresh' = fresh \cup {b}
    /\ UNCHANGED <<disk, wbars, tx, reader, threw, faults>>

\* The instruments in the three lists of p.
Listed(p) == {i \in Instrument : \A k \in Kind : has_id(p, k, i[k])}

\* The bar tables of backend b without the segments S of the instruments I.
Without(tables, b, I, S) ==
    [tables EXCEPT ![b] = [i \in Instrument |-> [s \in Segment |->
        IF i \in I /\ s \in S THEN {} ELSE tables[b][i][s]]]]

\* With a bound equal to 0 every bar of the listed instruments goes; with two
\* bounds BarBD::erase_data throws after the shorter time frames (see BarDB),
\* when there is anything listed.  The hub's copy is not read again.
erase_data(b, p) ==
    /\ tx = "open"
    /\ wrecord' = PutRecord(wrecord, b, subtract(CurrentRecord(wrecord, b), p))
    /\ \/ /\ p.start = 0 \/ p.end = 0
          /\ wbars' = Without(wbars, b, Listed(p), Segment)
          /\ UNCHANGED threw
       \/ /\ p.start > 0 /\ p.end > 0
          /\ wbars' = Without(wbars, b, Listed(p), SegmentOf(p.start)..SegmentOf(p.end - 1))
          /\ threw' = (threw \/ \A k \in Kind : p.ids[k] # {})
    /\ fresh' = fresh \ {b}
    /\ UNCHANGED <<disk, tx, m_storage_metadata, reader, faults>>

refresh_metadata ==
    /\ tx = "open"
    /\ m_storage_metadata' = Refreshed(m_storage_metadata, wrecord)
    /\ fresh' = fresh \cup DOMAIN wrecord
    /\ UNCHANGED <<disk, working, tx, reader, threw, faults>>

-----------------------------------------------------------------------------
(* Routing                                                                 *)

\* Backends a segment may go to; find_storage_index takes the first.
Candidates(copies, i, s) ==
    {b \in DOMAIN copies : Holds(copies[b], "BARS", i, s * Duration)}

RoutedTo(copies, i, s, b) ==
    b \in Candidates(copies, i, s) /\ \A c \in Candidates(copies, i, s) : b <= c

\* A loop over the segments S in ascending order ends at the first one that
\* has no candidate.
Reached(copies, i, S) ==
    {s \in S : \A u \in S : u <= s => Candidates(copies, i, u) # {}}

-----------------------------------------------------------------------------
(* Bars                                                                    *)

\* Mutant of upsert: every segment goes where the first one is routed.
UpsertRoutedOnce(i, B) ==
    /\ tx = "open"
    /\ LET S == {SegmentOf(t) : t \in B}
           first == CHOOSE s \in S : \A u \in S : s <= u
       IN /\ wbars' = [b \in Backend |-> [wbars[b] EXCEPT ![i] = [s \in Segment |->
                IF s \in S /\ RoutedTo(m_storage_metadata, i, first, b)
                THEN B \cap Span(s) ELSE @[s]]]]
          /\ threw' = (threw \/ Candidates(m_storage_metadata, i, first) = {})
    /\ UNCHANGED <<disk, wrecord, tx, m_storage_metadata, reader, fresh, faults>>

\* split_bars cuts the bars into segments; each replaces what its backend has
\* stored for the segment.
upsert(i, B) ==
    /\ tx = "open"
    /\ LET S == {SegmentOf(t) : t \in B}
           done == Reached(m_storage_metadata, i, S)
       IN /\ wbars' = [b \in Backend |-> [wbars[b] EXCEPT ![i] = [s \in Segment |->
                IF s \in done /\ RoutedTo(m_storage_metadata, i, s, b)
                THEN B \cap Span(s) ELSE @[s]]]]
          /\ threw' = (threw \/ done # S)
    /\ UNCHANGED <<disk, wrecord, tx, m_storage_metadata, reader, fresh, faults>>

\* Bars out of order: nothing is stored.
UpsertUnordered ==
    /\ tx = "open"
    /\ threw' = TRUE
    /\ UNCHANGED <<disk, working, tx, m_storage_metadata, reader, fresh, faults>>

Segments(from, to) == SegmentOf(from)..SegmentOf(to - 1)

\* erase of a range: whole segments.
erase(i, from, to) ==
    /\ tx = "open"
    /\ LET done == Reached(m_storage_metadata, i, Segments(from, to))
       IN /\ wbars' = [b \in Backend |-> [wbars[b] EXCEPT ![i] = [s \in Segment |->
                IF s \in done /\ RoutedTo(m_storage_metadata, i, s, b) THEN {} ELSE @[s]]]]
          /\ threw' = (threw \/ done # Segments(from, to))
    /\ UNCHANGED <<disk, wrecord, tx, m_storage_metadata, reader, fresh, faults>>

\* erase of an instrument in a time frame: every backend.
EraseInstrument(i) ==
    /\ tx = "open"
    /\ wbars' = [b \in Backend |-> [wbars[b] EXCEPT ![i] = [s \in Segment |-> {}]]]
    /\ UNCHANGED <<disk, wrecord, tx, m_storage_metadata, reader, client, faults>>

erase_all_data ==
    /\ tx = "open"
    /\ wrecord' = NoRecords /\ wbars' = NoBars
    /\ fresh' = {}
    /\ UNCHANGED <<disk, tx, m_storage_metadata, reader, threw, faults>>

\* Mutant of Found: the bars are not cropped at the end of the range.
FoundUncropped(tables, i, from, to) ==
    LET segment(s) == UNION {tables[b][i][s] : b \in {c \in Backend : RoutedTo(m_storage_metadata, i, s, c)}}
        stored == {s \in Segments(from, to) : segment(s) # {}}
    IN IF stored = {} THEN {}
       ELSE {t \in segment(CHOOSE s \in stored : \A u \in stored : u <= s) : from <= t}

\* deserialize() overwrites the output with every segment it finds, so the
\* last one stays, and is cropped.
Found(tables, i, from, to) ==
    LET segment(s) == UNION {tables[b][i][s] : b \in {c \in Backend : RoutedTo(m_storage_metadata, i, s, c)}}
        stored == {s \in Segments(from, to) : segment(s) # {}}
    IN IF stored = {} THEN {}
       ELSE {t \in segment(CHOOSE s \in stored : \A u \in stored : u <= s) : from <= t /\ t < to}

\* fetch of a range in a transaction that sees these tables; it throws at a
\* segment without a candidate.
Answer(tables, i, from, to) ==
    LET S == Segments(from, to)
        nonempty == \E s \in S, b \in Backend :
                        RoutedTo(m_storage_metadata, i, s, b) /\ tables[b][i][s] # {}
    IN IF Reached(m_storage_metadata, i, S) # S THEN {}
       ELSE {[bars |-> Found(tables, i, from, to), ok |-> nonempty]}

fetch(i, from, to) ==
    /\ tx = "open"
    /\ threw' = (threw \/ Answer(wbars, i, from, to) = {})
    /\ UNCHANGED <<disk, working, tx, m_storage_metadata, reader, fresh, faults>>

-----------------------------------------------------------------------------
(* Read-only guards                                                        *)

ReaderBegin ==
    /\ Readers /\ reader = {}
    /\ reader' = {record}
    /\ UNCHANGED <<disk, working, tx, m_storage_metadata, client, faults>>

\* fetch of the records through the reader's guard: the copies a writer routes
\* by become those of the reader's snapshot.
ReaderRefresh ==
    /\ \E r \in reader : /\ m_storage_metadata' = Refreshed(m_storage_metadata, r)
                         /\ fresh' = fresh \ DOMAIN r
    /\ UNCHANGED <<disk, working, tx, reader, threw, faults>>

ReaderEnd ==
    /\ reader # {}
    /\ reader' = {}
    /\ UNCHANGED <<disk, working, tx, m_storage_metadata, client, faults>>

-----------------------------------------------------------------------------
(* Clients                                                                 *)

Ranges == {r \in Time \X Time : r[1] < r[2]}

Routed ==
    \/ \E i \in Instrument, B \in Batch : upsert(i, B)
    \/ \E i \in Instrument, r \in Ranges : erase(i, r[1], r[2]) \/ fetch(i, r[1], r[2])

Unrouted == UpsertUnordered \/ erase_all_data \/ \E i \in Instrument : EraseInstrument(i)

Transactions == Begin \/ Commit \/ TornCommit \/ Rollback \/ Restart

\* Any order of calls.
Next ==
    \/ Transactions \/ refresh_metadata \/ Routed \/ Unrouted
    \/ \E b \in Backend, p \in Patch : extend_metadata(b, p)
    \/ \E e \in Erasure : erase_data(e[1], e[2])
    \/ ReaderBegin \/ ReaderRefresh \/ ReaderEnd

Spec == Init /\ [][Next]_vars

\* Two records that hold a segment in common.
Overlap(m, o) ==
    \E i \in Instrument, s \in Segment :
        Holds(m, "BARS", i, s * Duration) /\ Holds(o, "BARS", i, s * Duration)

\* The records m of backend b and those of the others, committed or being
\* changed, hold nothing in common.
Exclusive(m, b) ==
    \A c \in Backend \ {b} : \A r \in {record, wrecord} :
        c \in DOMAIN r => ~Overlap(m, r[c])

\* A backend's whole content, without a bound on the time.
Everything(b, p) ==
    /\ p.start = 0 /\ p.end = 0
    /\ \A k \in Kind : CurrentRecord(wrecord, b).ids[k] \subseteq p.ids[k]

(* A client that knows the hub: it gives no two backends the same segment, *)
(* not even within a transaction, extends a record only by metadata        *)
(* bounded like it, lets erase_data erase the whole of a backend, rolls    *)
(* back after an exception, and routes only when every copy was read in    *)
(* this transaction after the record's last change and after the last read *)
(* of the records through another guard, which may come at any moment.     *)
CarefulNext ==
    \/ Begin \/ Rollback \/ Restart
    \/ ~threw /\ (Commit \/ TornCommit \/ refresh_metadata \/ Unrouted \/ (fresh = Backend /\ Routed))
    \/ /\ ~threw
       /\ \E b \in Backend, p \in Patch :
            /\ b \in DOMAIN wrecord => SameBounds(wrecord[b], p)
            /\ Exclusive(merge_with(CurrentRecord(wrecord, b), p), b)
            /\ extend_metadata(b, p)
    \/ ~threw /\ \E e \in Erasure : Everything(e[1], e[2]) /\ erase_data(e[1], e[2])
    \/ ReaderBegin \/ ReaderRefresh \/ ReaderEnd

CarefulSpec == Init /\ [][CarefulNext]_vars

-----------------------------------------------------------------------------
(* Safety for a careful client                                             *)

\* The bars of these tables lie where the record of their backend says.
DescribedIn(r, tables) ==
    \A b \in Backend, i \in Instrument, s \in Segment :
        tables[b][i][s] # {} => b \in DOMAIN r /\ Holds(r[b], "BARS", i, s * Duration)

\* Every committed bar lies where the committed record of its backend says,
\* after torn commits, rollbacks and restarts too: it can still be found.
Described == DescribedIn(record, bars)

\* No bar is hidden: the first backend whose committed record holds a segment
\* is the one that stores it, so a hub that reads the records finds it.
Reachable ==
    \A b \in Backend, i \in Instrument, s \in Segment :
        bars[b][i][s] # {} => RoutedTo(record, i, s, b)

\* The bars of any backend in a range.
Stored(tables, i, from, to) ==
    {t \in UNION {tables[b][i][s] : b \in Backend, s \in Segment} : from <= t /\ t < to}

\* A fetch within one segment gives exactly the bars all backends together
\* store in the range, whenever a careful client may call it.
SegmentFetchIsComplete ==
    tx = "open" /\ ~threw /\ fresh = Backend =>
        \A i \in Instrument, r \in Ranges : SegmentOf(r[1]) = SegmentOf(r[2] - 1) =>
            \A a \in Answer(wbars, i, r[1], r[2]) : a.bars = Stored(wbars, i, r[1], r[2])

-----------------------------------------------------------------------------
(* The inductive invariant behind Described and Reachable                  *)

\* Records of two backends, committed or being changed, in any mix a torn
\* commit can publish, hold nothing in common.
Disjoint ==
    \A b, c \in Backend : \A r, q \in {record, wrecord} :
        b # c /\ b \in DOMAIN r /\ c \in DOMAIN q => ~Overlap(r[b], q[c])

\* The copies the client knows to be fresh are the records.
FreshCopies ==
    \A b \in fresh : b \in DOMAIN wrecord /\ m_storage_metadata[b] = wrecord[b]

\* Between transactions there is one version of everything.
IdleIsClean == tx = "none" => wrecord = record /\ wbars = bars /\ fresh = {}

IInv ==
    /\ TypeOK /\ Described /\ DescribedIn(wrecord, wbars)
    /\ Disjoint /\ FreshCopies /\ IdleIsClean

\* A bar is stored in the segment of its time.  With IInv, this is what
\* SegmentFetchIsComplete rests on.
InOwnSegment(tables) ==
    \A b \in Backend, i \in Instrument, s \in Segment :
        \A t \in tables[b][i][s] : SegmentOf(t) = s
Segmented == InOwnSegment(bars) /\ InOwnSegment(wbars)

-----------------------------------------------------------------------------
(* What the comments say and the code does not do                          *)

\* "Retrieves a range of bar segments by market identifiers and time range."
\* (fetch): a fetch that answers gives the bars of all segments of the range.
FetchIsComplete ==
    tx = "open" /\ ~threw /\ fresh = Backend =>
        \A i \in Instrument, r \in Ranges :
            \A a \in Answer(wbars, i, r[1], r[2]) : a.bars = Stored(wbars, i, r[1], r[2])

=============================================================================
