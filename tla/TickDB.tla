------------------------------- MODULE TickDB -------------------------------
(***************************************************************************)
(* MDBXStorage/TickDB.hpp: ticks of an instrument in one record per hour,  *)
(* a record of metadata per instrument, and a cache of that metadata in    *)
(* the object.  A call runs one transaction to its end, or throws and      *)
(* leaves the database as it was; the cache is no part of the transaction. *)
(*                                                                         *)
(* No compiled file includes the header, which is written for earlier      *)
(* names: it_metadata->f is read as it_metadata->second.f, put_raw_key64   *)
(* as put_raw_key<uint64_t>, and renew and reset as those of the reader.   *)
(* A stored value is the sequence of blocks the serializer left in output. *)
(***************************************************************************)
EXTENDS Tables, SequencesExt, FiniteSetsExt

CONSTANTS
    Instruments,        \* provider_id and symbol_id together are 0..Instruments - 1
    MsPerHour,          \* time_shield::MS_PER_HOUR
    KeyHours,           \* an hour in a key is a uint32_t: numbers modulo KeyHours
    Batches,            \* sequences of ticks to write
    Configs,            \* codec configurations: [digits, format]
    Ranges,             \* pairs of times to fetch
    Earlier,            \* sequences of ticks the vector of a fetch may hold before
    MaxWrites,          \* bound on the calls of upsert
    MaxTxnFaults        \* bound on the transactions that fail

ASSUME InstrumentsAssumption == Instruments \in Nat \ {0}
ASSUME HourAssumption == MsPerHour \in Nat \ {0} /\ KeyHours \in Nat \ {0}
ASSUME TickDBBoundAssumption == MaxWrites \in Nat /\ MaxTxnFaults \in Nat
ASSUME ConfigsAssumption == Configs \subseteq [digits : Nat, format : {"raw", "compressor"}]
\* Batches are not empty lists of ticks.
ASSUME BatchesAssumption ==
    \A b \in Batches : /\ Len(b) \in Nat \ {0} /\ b = [n \in 1..Len(b) |-> b[n]]
                       /\ \A n \in DOMAIN b : b[n].time \in Nat
\* fetch subtracts one from the end, in unsigned arithmetic.
ASSUME RangesAssumption == Ranges \subseteq Nat \X (Nat \ {0})

ASSUME EarlierAssumption ==
    \A b \in Earlier : /\ Len(b) \in Nat /\ b = [n \in 1..Len(b) |-> b[n]]
                       /\ \A n \in DOMAIN b : b[n].time \in Nat

VARIABLES
    metadata,       \* table "tick_metadata"
    blobs,          \* table "ticks"
    m_metadata,     \* the cache
    handles,        \* m_dbi_ticks and m_dbi_metadata: "unset", "open" or "closed"
    last,           \* the last call: its name, whether it returned, what it gave
    promised,       \* the ticks each hour was last given, by a call that returned
    misplaced,      \* hours that were given with a codec configuration
    writes,         \* calls of upsert so far
    tickFaults
tdbVars == <<metadata, blobs, m_metadata, handles, last, promised, misplaced, writes, tickFaults>>

Inst == 0..(Instruments - 1)

ms_to_hour(t) == t \div MsPerHour
start_of_hour_ms(t) == t - (t % MsPerHour)
\* Mutant of generate_tick_key: the hour is not shifted.
generate_unshifted_key(i, unix_hour) == (unix_hour % KeyHours) + i

generate_tick_key(i, unix_hour) == (unix_hour % KeyHours) * Instruments + i

-----------------------------------------------------------------------------
\* split_ticks: the ticks, if in order, fall into one segment for each hour.
Ordered(ticks) == \A i \in 1..(Len(ticks) - 1) : ticks[i].time <= ticks[i + 1].time
Begins(ticks, n) == n = 1 \/ ms_to_hour(ticks[n].time) # ms_to_hour(ticks[n - 1].time)
HoursOf(ticks) == {ms_to_hour(ticks[i].time) : i \in DOMAIN ticks}
SegmentOf(ticks, h) ==
    LET own == {i \in DOMAIN ticks : ms_to_hour(ticks[i].time) = h}
    IN  SubSeq(ticks, Min(own), Max(own))

\* The block of a tick serializer.  One format replaces what output holds, the
\* other adds to it.
Block(segment, config) == [format |-> config.format, ticks |-> segment]
serialize(segment, config, output) ==
    IF config.format = "raw" THEN <<Block(segment, config)>> ELSE Append(output, Block(segment, config))
\* Bytes after the first block make the compressed frame invalid.
Decodable(value) == Len(value) = 1
deserialize(value, ticks) ==
    IF value[1].format = "raw" THEN value[1].ticks ELSE ticks \o value[1].ticks

-----------------------------------------------------------------------------
TickDBInit ==
    /\ metadata = NoRecords /\ blobs = NoRecords /\ m_metadata = NoRecords
    /\ handles = "unset"
    /\ last = [call |-> "construct", ok |-> TRUE]
    /\ promised = NoRecords /\ misplaced = {} /\ writes = 0 /\ tickFaults = 0

Returns(call) == last' = [call |-> call, ok |-> TRUE]
Wrote(call, i, batch) == last' = [call |-> call, ok |-> TRUE, inst |-> i, start |-> Head(batch).time]
Throws(call) == last' = [call |-> call, ok |-> FALSE] /\ UNCHANGED <<metadata, blobs, promised, misplaced>>
\* The engine refuses a transaction, a put or a commit, or the handles are not valid.
Fails == tickFaults < MaxTxnFaults /\ tickFaults' = tickFaults + 1
Refused == Fails \/ (handles # "open" /\ UNCHANGED tickFaults)
Accepted == handles = "open" /\ UNCHANGED tickFaults

\* The handles of a transaction that is aborted are lost with it.
start ==
    \/ /\ handles' = "open"
       /\ m_metadata' = get_all_fixed_map(metadata, m_metadata)
       /\ Returns("start") /\ UNCHANGED <<metadata, blobs, promised, misplaced, tickFaults>>
    \/ /\ Fails
       /\ handles' \in IF handles = "open" THEN {"open"} ELSE {handles, "closed"}
       /\ m_metadata' \in {m_metadata, get_all_fixed_map(metadata, m_metadata)}
       /\ Throws("start")

\* The handle variables keep the numbers of the closed handles.
stop ==
    /\ handles # "unset" /\ handles' = "closed"
    /\ IF handles = "open"
       THEN Returns("stop") /\ UNCHANGED <<metadata, blobs, promised, misplaced>>
       ELSE Throws("stop")
    /\ UNCHANGED <<m_metadata, tickFaults>>

\* The object is destroyed and another one constructed.
Reconstruct ==
    /\ m_metadata' = NoRecords /\ handles' = "unset"
    /\ Returns("construct")
    /\ UNCHANGED <<metadata, blobs, promised, misplaced, tickFaults>>

-----------------------------------------------------------------------------
Record(s, e, config) == [start |-> s, end |-> e, config |-> config]
Records == {Record(0, 0, c) : c \in Configs}

\* upsert(metadata): the cache takes a new record before the transaction, and
\* not a changed one.
upsert_metadata(i, r) ==
    /\ UNCHANGED handles
    /\ IF i \in DOMAIN m_metadata /\ m_metadata[i] = r
       THEN Returns("upsert_metadata") /\ UNCHANGED <<metadata, blobs, m_metadata, promised, misplaced, tickFaults>>
       ELSE /\ m_metadata' = IF i \in DOMAIN m_metadata THEN m_metadata ELSE With(m_metadata, i, r)
            /\ \/ Accepted /\ metadata' = With(metadata, i, r) /\ Returns("upsert_metadata")
                  /\ UNCHANGED <<blobs, promised, misplaced>>
               \/ Refused /\ Throws("upsert_metadata")

\* Mutant of upsert_list: only records the cache does not hold are stored.
upsert_list_new(list) ==
    LET new == [i \in {j \in DOMAIN list : j \notin DOMAIN m_metadata} |-> list[i]]
    IN  /\ UNCHANGED handles
        /\ Accepted /\ Returns("upsert_list")
        /\ metadata' = get_all_fixed_map(metadata, new)
        /\ m_metadata' = [i \in DOMAIN list \cup DOMAIN m_metadata |->
                             IF i \in DOMAIN list THEN list[i] ELSE m_metadata[i]]
        /\ UNCHANGED <<blobs, promised, misplaced>>

\* upsert(metadata_list): the cache takes every record as its put is reached,
\* so a failure leaves it with some of them.
upsert_list(list) ==
    LET changed == {i \in DOMAIN list : i \notin DOMAIN m_metadata \/ m_metadata[i] # list[i]}
    IN  /\ UNCHANGED handles
        /\ \/ /\ Accepted /\ Returns("upsert_list")
              /\ metadata' = Overlaid(metadata, list, changed)
              /\ m_metadata' = Overlaid(m_metadata, list, changed)
              /\ UNCHANGED <<blobs, promised, misplaced>>
           \/ /\ Refused /\ Throws("upsert_list")
              /\ \E taken \in SUBSET changed : m_metadata' = Overlaid(m_metadata, list, taken)

-----------------------------------------------------------------------------

\* A batch that reaches outside the range takes the place of the range.
NewRange(r, s, e) == IF s < r.start \/ e > r.end THEN Record(s, e, r.config) ELSE r

\* The digits follow a batch that is not before the last hour; the format stays.
NewDigits(r, e, config) ==
    IF start_of_hour_ms(e) >= start_of_hour_ms(r.end)
    THEN [r EXCEPT !.config.digits = config.digits] ELSE r

\* upsert with a configuration puts the time the hour starts at into the key.
KeyHour(call, t) == IF call = "upsert_with_config" THEN start_of_hour_ms(t) ELSE ms_to_hour(t)

\* The records of a batch, written one by one through one output buffer.
PutSegment(t, call, i, segment, config, batch_write) ==
    LET value == serialize(segment, config, t.output)
        key == generate_tick_key(i, KeyHour(call, segment[1].time))
    IN  [put_raw_key(t, key, value, batch_write) EXCEPT !.output = value]
PutSegments(call, i, ticks, config) ==
    LET batch_write == \E n \in 2..Len(ticks) : Begins(ticks, n)
        put[n \in 0..Len(ticks)] ==
            IF n = 0 THEN [ok |-> TRUE, table |-> blobs, output |-> <<>>]
            ELSE IF ~Begins(ticks, n) THEN put[n - 1]
            ELSE PutSegment(put[n - 1], call, i, SegmentOf(ticks, ms_to_hour(ticks[n].time)), config, batch_write)
    IN  put[Len(ticks)]

Promise(i, batch) ==
    promised' = [x \in DOMAIN promised \cup {<<i, h>> : h \in HoursOf(batch)} |->
                    IF x[1] = i /\ x[2] \in HoursOf(batch) THEN SegmentOf(batch, x[2]) ELSE promised[x]]

\* Mutant of StoreBatch: the cached record is stored only when it is new.
StoreBatchOnce(call, i, batch, config, r) ==
    LET written == PutSegments(call, i, batch, config)
    IN  /\ m_metadata' = With(m_metadata, i, r)
        /\ \/ /\ Accepted /\ written.ok
              /\ blobs' = written.table
              /\ metadata' = IF i \notin DOMAIN metadata THEN With(metadata, i, r) ELSE metadata
              /\ Promise(i, batch) /\ Wrote(call, i, batch)
           \/ /\ Refused \/ (Accepted /\ ~written.ok)
              /\ Throws(call)

\* The cache takes the record first, then the record and the segments are put
\* and committed; when one of that fails the cache keeps it.  The record is
\* put only if the call has changed it.
StoreBatch(call, i, batch, config, r) ==
    LET written == PutSegments(call, i, batch, config)
        is_update == i \notin DOMAIN m_metadata \/ m_metadata[i] # r
    IN  /\ m_metadata' = With(m_metadata, i, r)
        /\ \/ /\ Accepted /\ written.ok
              /\ blobs' = written.table
              /\ metadata' = IF is_update THEN With(metadata, i, r) ELSE metadata
              /\ Promise(i, batch) /\ Wrote(call, i, batch)
           \/ /\ Refused \/ (Accepted /\ ~written.ok)
              /\ Throws(call)

\* A call that ends before it has changed anything.
Nothing(call) == UNCHANGED m_metadata /\ Throws(call)

\* upsert(ticks, codec_config).
upsert_with_config(i, batch, config) ==
    LET e == Last(batch).time
        r == IF i \notin DOMAIN m_metadata THEN Record(Head(batch).time, e, config)
             ELSE NewRange(NewDigits(m_metadata[i], e, config), Head(batch).time, e)
        call == "upsert_with_config"
    IN  /\ UNCHANGED handles
        /\ \/ ~Ordered(batch) /\ Nothing(call) /\ UNCHANGED tickFaults
           \/ Ordered(batch) /\ Fails /\ Nothing(call)
           \/ /\ Ordered(batch)
              /\ StoreBatch(call, i, batch, config, r)
              /\ misplaced' = IF last'.ok THEN misplaced \cup {<<i, h>> : h \in HoursOf(batch)} ELSE misplaced

\* upsert(ticks): the format and the digits are those of the record, which is
\* fetched if the cache has none.
upsert_ticks(i, batch) ==
    LET known == i \in DOMAIN m_metadata \/ (handles = "open" /\ i \in DOMAIN metadata)
        r == IF i \in DOMAIN m_metadata THEN m_metadata[i] ELSE metadata[i]
        call == "upsert_ticks"
    IN  /\ UNCHANGED handles
        /\ \/ ~Ordered(batch) /\ Nothing(call) /\ UNCHANGED tickFaults
           \/ Ordered(batch) /\ Fails /\ Nothing(call)
           \/ Ordered(batch) /\ ~known /\ Nothing(call) /\ UNCHANGED tickFaults
           \/ /\ Ordered(batch) /\ known
              /\ StoreBatch(call, i, batch, r.config, NewRange(r, Head(batch).time, Last(batch).time))
              /\ UNCHANGED misplaced

-----------------------------------------------------------------------------
\* Mutant of Cropped: a tick at the end of the range is kept.
CroppedLate(ticks, s, e) ==
    SelectSeq(ticks, LAMBDA t : (s % MsPerHour # 0 => t.time >= s) /\ (e % MsPerHour # 0 => t.time <= e))

\* The vector is in order, and an end that is that of an hour is not cropped.
Cropped(ticks, s, e) ==
    SelectSeq(ticks, LAMBDA t : (s % MsPerHour # 0 => t.time >= s) /\ (e % MsPerHour # 0 => t.time < e))

\* The record of an hour, if there is one, after those of the hours before it.
ReadHour(t, i, h) ==
    LET key == generate_tick_key(i, h)
    IN  IF ~t.ok \/ key \notin DOMAIN blobs THEN t
        ELSE IF Decodable(blobs[key]) THEN [t EXCEPT !.ticks = deserialize(blobs[key], @)]
        ELSE [t EXCEPT !.ok = FALSE]
HoursIn(s, e) == ms_to_hour(s)..ms_to_hour(e - 1)
ReadHours(i, s, e, before) ==
    LET read[n \in 0..Cardinality(HoursIn(s, e))] ==
            IF n = 0 THEN [ok |-> TRUE, ticks |-> before]
            ELSE ReadHour(read[n - 1], i, ms_to_hour(s) + n - 1)
    IN  read[Cardinality(HoursIn(s, e))]

\* The records of the hours from start to end after what the vector held, then
\* both ends of the vector are cropped.
fetch(i, s, e, before) ==
    LET read == ReadHours(i, s, e, before)
    IN  /\ \/ /\ Accepted /\ read.ok
              /\ last' = [call |-> "fetch", ok |-> TRUE, inst |-> i, start |-> s, end |-> e,
                          before |-> before, ticks |-> Cropped(read.ticks, s, e)]
           \/ /\ Refused \/ (Accepted /\ ~read.ok)
              /\ last' = [call |-> "fetch", ok |-> FALSE]
        /\ UNCHANGED <<metadata, blobs, m_metadata, handles, promised, misplaced>>

Writes == writes < MaxWrites /\ writes' = writes + 1
Reads == UNCHANGED writes

Start == Reads /\ start
Stop == Reads /\ stop
Construct == Reads /\ Reconstruct
UpsertMetadata == Writes /\ \E i \in Inst, r \in Records : upsert_metadata(i, r)
UpsertList == Writes /\ \E some \in SUBSET Inst : \E list \in [some -> Records] : upsert_list(list)
UpsertWithConfig == Writes /\ \E i \in Inst, b \in Batches, c \in Configs : upsert_with_config(i, b, c)
UpsertTicks == Writes /\ \E i \in Inst, b \in Batches : upsert_ticks(i, b)
\* The crop is a binary search, so the vector may hold only what comes before.
Precedes(before, s) == \A n \in DOMAIN before : before[n].time < s
Fetch ==
    Reads /\ \E i \in Inst, r \in Ranges, before \in Earlier : Precedes(before, r[1]) /\ fetch(i, r[1], r[2], before)

TickDBNext == \/ Start \/ Stop \/ Construct
              \/ UpsertMetadata \/ UpsertList \/ UpsertWithConfig \/ UpsertTicks
              \/ Fetch
TickDBSpec == TickDBInit /\ [][TickDBNext]_tdbVars

-----------------------------------------------------------------------------
Metadata == [start : Nat, end : Nat, config : [digits : Nat, format : {"raw", "compressor"}]]

TickDBTypeOK ==
    /\ DOMAIN metadata \subseteq Inst /\ \A i \in DOMAIN metadata : metadata[i] \in Metadata
    /\ DOMAIN m_metadata \subseteq Inst /\ \A i \in DOMAIN m_metadata : m_metadata[i] \in Metadata
    /\ handles \in {"unset", "open", "closed"}
    /\ DOMAIN promised \subseteq Inst \X Nat
    /\ writes \in Nat /\ tickFaults \in Nat

\* The hours of a fetch, those of them that were given ticks, and those whose
\* record is raw, which replaces what the vector holds.
FetchedHours == HoursIn(last.start, last.end)
HoldsTicks == {h \in FetchedHours : <<last.inst, h>> \in DOMAIN promised}
Blob(h) == blobs[generate_tick_key(last.inst, h)]
Stored(h) == generate_tick_key(last.inst, h) \in DOMAIN blobs
RawHours == {h \in FetchedHours : Stored(h) /\ Blob(h)[1].format = "raw"}
Kept == IF RawHours = {} THEN last.before ELSE <<>>
\* What the hours were last given, in order, after what the vector keeps, and
\* of that the range.
GivenTicks ==
    LET given[n \in 0..Cardinality(FetchedHours)] ==
            LET x == <<last.inst, ms_to_hour(last.start) + n - 1>>
            IN  IF n = 0 THEN Kept
                ELSE IF x \in DOMAIN promised THEN given[n - 1] \o promised[x] ELSE given[n - 1]
    IN  given[Cardinality(FetchedHours)]
StartsAnHour(t) == t % MsPerHour = 0
Promised == SelectSeq(GivenTicks, LAMBDA t : /\ ~StartsAnHour(last.start) => t.time >= last.start
                                             /\ ~StartsAnHour(last.end) => t.time < last.end)

\* A fetch that returns gives exactly the ticks its hours were last given, in
\* order and cropped where the range cuts an hour, through failed writes,
\* rewritten hours and new objects: for hours written under the key fetch looks
\* for, one hour of the raw format or any number of compressed ones.  The
\* comment says that they are appended to the vector (TickDB.hpp:355).  Earlier
\* ticks in it stay only if no record is raw and the range starts with an hour:
\* a raw record replaces the vector and the crop of the start erases them
\* (TickDB.hpp:366-395).
FetchGivesWhatWasStored ==
    last.call = "fetch" /\ last.ok =>
        (/\ \A h \in FetchedHours : <<last.inst, h>> \notin misplaced
         /\ RawHours # {} => HoldsTicks = RawHours /\ Cardinality(RawHours) = 1
         => last.ticks = Promised)

\* The hours in use are apart in the keys, in whichever of the two forms each
\* of them is put there.
HoursInUse == (UNION {HoursOf(b) : b \in Batches}) \cup (UNION {HoursIn(r[1], r[2]) : r \in Ranges})
KeyForms(h) == {h, h * MsPerHour}
HoursApart ==
    \A h, g \in HoursInUse : \A u \in KeyForms(h), v \in KeyForms(g) :
        u % KeyHours = v % KeyHours => h = g

\* No hour of an instrument takes the place of another one: what each hour was
\* last given is the last block of a record, and there is a record for each.
HoursAreKept ==
    /\ \A x \in DOMAIN promised : \E k \in DOMAIN blobs : Last(blobs[k]).ticks = promised[x]
    /\ Cardinality(DOMAIN promised) <= Cardinality(DOMAIN blobs)

\* The cache and the table agree on every record the table holds.
Agree == \A i \in DOMAIN metadata : i \in DOMAIN m_metadata /\ m_metadata[i] = metadata[i]

\* A call that returns leaves a cache that agrees with the table in agreement
\* with it, except the upsert of one record, which does not change a cached one.
CacheFollowsTable ==
    [][Agree /\ handles = "open" /\ last'.ok
         /\ last'.call \notin {"construct", "upsert_metadata"} => Agree']_tdbVars

\* Every hour of the instrument ends before or in the hour the stored range ends.
EndCovers(i) ==
    i \in DOMAIN metadata /\ \A x \in DOMAIN promised :
        x[1] = i => x[2] <= ms_to_hour(metadata[i].end)

\* In order: a batch that starts within the range, or after it, leaves the end
\* of the stored range behind every stored tick.
EndFollowsTicks ==
    [][\A i \in Inst :
          /\ last'.call \in {"upsert_ticks", "upsert_with_config"} /\ last'.ok
          /\ last'.inst = i /\ EndCovers(i) /\ Agree /\ metadata[i].start <= last'.start
          => EndCovers(i)']_tdbVars
=============================================================================
