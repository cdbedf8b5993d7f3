------------------------- MODULE MDBXStorageProofs -------------------------
(***************************************************************************)
(* Proofs about the databases of MDBXStorage and the guard of its          *)
(* transactions: TickDB, for any number of instruments, any batches and    *)
(* codec configurations, and any length of an hour; FundingDB, for any     *)
(* number of pairs and any batches of rates; TransactionGuard, for every   *)
(* number of guards, backends and failures: its inductive invariant, the   *)
(* safety properties that follow from it, and that the guards implement    *)
(* GuardContract.                                                          *)
(***************************************************************************)
EXTENDS TransactionGuard, TickDB, FundingDB, Numbers, FiniteSetTheorems

-----------------------------------------------------------------------------
(* TickDB: the cache of metadata                                           *)

LEMMA StoreBatchAgrees ==
    ASSUME NEW call, NEW i, NEW batch, NEW config, NEW r,
           Agree, last'.ok, StoreBatch(call, i, batch, config, r)
    PROVE  Agree'
  <1>1. m_metadata' = With(m_metadata, i, r)
    BY DEF StoreBatch
  <1>2. metadata' = IF i \notin DOMAIN m_metadata \/ m_metadata[i] # r THEN With(metadata, i, r) ELSE metadata
    BY DEF StoreBatch, Throws
  <1>3. ASSUME NEW k \in DOMAIN metadata' PROVE k \in DOMAIN m_metadata' /\ m_metadata'[k] = metadata'[k]
    <2>1. CASE k = i
      <3>1. k \in DOMAIN m_metadata' /\ m_metadata'[k] = r
        BY <1>1, <2>1 DEF With
      <3>2. CASE i \notin DOMAIN m_metadata \/ m_metadata[i] # r
        <4>1. metadata'[k] = r
          BY <1>2, <2>1, <3>2 DEF With
        <4> QED BY <3>1, <4>1
      <3>3. CASE ~(i \notin DOMAIN m_metadata \/ m_metadata[i] # r)
        <4>1. metadata' = metadata /\ m_metadata[i] = r
          BY <1>2, <3>3
        <4>2. metadata[i] = r
          BY <1>3, <2>1, <4>1 DEF Agree
        <4> QED BY <2>1, <3>1, <4>1, <4>2
      <3> QED BY <3>2, <3>3
    <2>2. CASE k # i
      <3>1. k \in DOMAIN metadata /\ metadata'[k] = metadata[k]
        BY <1>2, <1>3, <2>2 DEF With
      <3>2. k \in DOMAIN m_metadata /\ m_metadata[k] = metadata[k]
        BY <3>1 DEF Agree
      <3>3. k \in DOMAIN m_metadata' /\ m_metadata'[k] = m_metadata[k]
        BY <1>1, <2>2, <3>2 DEF With
      <3> QED BY <3>1, <3>2, <3>3
    <2> QED BY <2>1, <2>2
  <1> QED BY <1>3 DEF Agree

LEMMA AgreeStep ==
    ASSUME [TickDBNext]_tdbVars, Agree, handles = "open", last'.ok,
           last'.call \notin {"construct", "upsert_metadata"}
    PROVE  Agree'
  <1>1. CASE start
    <2>1. m_metadata' = get_all_fixed_map(metadata, m_metadata) /\ metadata' = metadata
      BY <1>1 DEF start, Throws
    <2> QED BY <2>1 DEF Agree, get_all_fixed_map
  <1>2. CASE stop
    BY <1>2 DEF stop, Agree, Throws
  <1>3. CASE Reconstruct
    BY <1>3 DEF Reconstruct, Returns
  <1>4. ASSUME NEW i, NEW r, upsert_metadata(i, r) PROVE Agree'
    BY <1>4 DEF upsert_metadata, Returns, Throws
  <1>5. ASSUME NEW list, upsert_list(list) PROVE Agree'
    <2>1. PICK taken : /\ metadata' = Overlaid(metadata, list, taken)
                       /\ m_metadata' = Overlaid(m_metadata, list, taken)
      BY <1>5 DEF upsert_list, Throws
    <2> QED BY <2>1 DEF Agree, Overlaid
  <1>6. ASSUME NEW i, NEW batch, NEW config, upsert_with_config(i, batch, config) PROVE Agree'
    <2>1. PICK r : StoreBatch("upsert_with_config", i, batch, config, r)
      BY <1>6 DEF upsert_with_config, Nothing, Throws
    <2> QED BY <2>1, StoreBatchAgrees
  <1>7. ASSUME NEW i, NEW batch, upsert_ticks(i, batch) PROVE Agree'
    <2>1. PICK config, r : StoreBatch("upsert_ticks", i, batch, config, r)
      BY <1>7 DEF upsert_ticks, Nothing, Throws
    <2> QED BY <2>1, StoreBatchAgrees
  <1>8. ASSUME NEW i, NEW s, NEW e, NEW before, fetch(i, s, e, before) PROVE Agree'
    BY <1>8 DEF fetch, Agree
  <1>9. CASE UNCHANGED tdbVars
    BY <1>9 DEF tdbVars, Agree
  <1> QED BY <1>1, <1>2, <1>3, <1>4, <1>5, <1>6, <1>7, <1>8, <1>9
          DEF TickDBNext, Start, Stop, Construct, UpsertMetadata, UpsertList, UpsertWithConfig,
              UpsertTicks, Fetch

\* A call that returns leaves a cache that agreed with the table in agreement
\* with it, except the upsert of one record.
THEOREM CacheFollowsTableHolds == TickDBSpec => CacheFollowsTable
  <1>1. [TickDBNext]_tdbVars
          => [Agree /\ handles = "open" /\ last'.ok
                /\ last'.call \notin {"construct", "upsert_metadata"} => Agree']_tdbVars
    BY AgreeStep
  <1> QED BY <1>1, PTL DEF TickDBSpec, CacheFollowsTable

-----------------------------------------------------------------------------
(* TickDB: types                                                           *)

\* A batch is a list of ticks, and its times are in order if it is ordered.
LEMMA BatchIs ==
    ASSUME NEW batch \in Batches
    PROVE  /\ Len(batch) \in Nat \ {0} /\ DOMAIN batch = 1..Len(batch)
           /\ \A n \in 1..Len(batch) : batch[n].time \in Nat
           /\ Head(batch).time \in Nat /\ Last(batch).time \in Nat
           /\ Last(batch) = batch[Len(batch)]
  <1>1. /\ Len(batch) \in Nat \ {0} /\ DOMAIN batch = 1..Len(batch)
        /\ \A n \in 1..Len(batch) : batch[n].time \in Nat
    BY BatchesAssumption
  <1>2. Head(batch) = batch[1] /\ Last(batch) = batch[Len(batch)]
    BY DEF Last
  <1>3. 1 \in 1..Len(batch) /\ Len(batch) \in 1..Len(batch)
    BY <1>1
  <1> QED BY <1>1, <1>2, <1>3

LEMMA OrderedBatch ==
    ASSUME NEW batch \in Batches, Ordered(batch), NEW n \in 1..Len(batch)
    PROVE  batch[n].time <= Last(batch).time
  <1> DEFINE l == Len(batch)
             T == {m \in 0..(l - 1) : batch[l - m].time <= batch[l].time}
  <1>1. l \in Nat \ {0} /\ (\A k \in 1..l : batch[k].time \in Nat) /\ Last(batch) = batch[l]
    BY BatchIs
  <1>2. 0 \in T
    <2>1. 0 \in 0..(l - 1) /\ l - 0 = l /\ l \in 1..l
      BY <1>1
    <2> QED BY <1>1, <2>1
  <1>3. ASSUME NEW m \in 1..(l - 1), m - 1 \in T PROVE m \in T
    <2>1. l - m \in 1..(l - 1) /\ (l - m) + 1 = l - (m - 1) /\ l - m \in 1..l /\ l - (m - 1) \in 1..l
          /\ m \in 0..(l - 1) /\ l \in 1..l
      BY <1>1
    <2>2. batch[l - m].time <= batch[l - (m - 1)].time
      BY <2>1 DEF Ordered
    <2>3. batch[l - (m - 1)].time <= batch[l].time
      BY <1>3
    <2>4. batch[l - m].time \in Nat /\ batch[l - (m - 1)].time \in Nat /\ batch[l].time \in Nat
      BY <1>1, <2>1
    <2>5. batch[l - m].time <= batch[l].time
      <3> DEFINE x == batch[l - m].time
                 y == batch[l - (m - 1)].time
                 z == batch[l].time
      <3>1. x \in Nat /\ y \in Nat /\ z \in Nat /\ x <= y /\ y <= z
        BY <2>2, <2>3, <2>4
      <3> HIDE DEF x, y, z
      <3>2. x <= z
        BY <3>1
      <3> QED BY <3>2 DEF x, z
    <2> QED BY <2>1, <2>5
  <1> HIDE DEF T
  <1>4. l - 1 \in Nat
    BY <1>1
  <1>5. 0..(l - 1) \subseteq T
    BY <1>2, <1>3, <1>4, BoundedInduction
  <1>6. l - n \in 0..(l - 1) /\ l - (l - n) = n
    BY <1>1
  <1>7. l - n \in T
    BY <1>5, <1>6
  <1> QED BY <1>1, <1>6, <1>7 DEF T

LEMMA HourIs ==
    ASSUME NEW t \in Nat
    PROVE  ms_to_hour(t) \in Nat
  BY HourAssumption, Division DEF ms_to_hour

LEMMA HourMonotone ==
    ASSUME NEW t \in Nat, NEW u \in Nat, t <= u
    PROVE  ms_to_hour(t) <= ms_to_hour(u)
  BY HourAssumption, DivisionMonotone DEF ms_to_hour

\* The hours of an ordered batch end with the hour of its last tick.
LEMMA BatchHours ==
    ASSUME NEW batch \in Batches
    PROVE  /\ HoursOf(batch) \subseteq Nat
           /\ Ordered(batch) => \A h \in HoursOf(batch) : h <= ms_to_hour(Last(batch).time)
  <1>1. ASSUME NEW h \in HoursOf(batch)
        PROVE  h \in Nat /\ (Ordered(batch) => h <= ms_to_hour(Last(batch).time))
    <2>1. PICK n \in DOMAIN batch : h = ms_to_hour(batch[n].time)
      BY DEF HoursOf
    <2>2. n \in 1..Len(batch) /\ batch[n].time \in Nat /\ Last(batch).time \in Nat
      BY BatchIs
    <2>3. h \in Nat
      BY <2>1, <2>2, HourIs
    <2>4. Ordered(batch) => batch[n].time <= Last(batch).time
      BY <2>2, OrderedBatch
    <2>5. Ordered(batch) => h <= ms_to_hour(Last(batch).time)
      BY <2>1, <2>2, <2>4, HourMonotone
    <2> QED BY <2>3, <2>5
  <1> QED BY <1>1

LEMMA RecordIs ==
    ASSUME NEW s \in Nat, NEW e \in Nat, NEW config \in [digits : Nat, format : {"raw", "compressor"}]
    PROVE  Record(s, e, config) \in Metadata /\ Record(s, e, config).end = e
           /\ Record(s, e, config).start = s /\ Record(s, e, config).config = config
  BY DEF Record, Metadata

LEMMA NewRangeIs ==
    ASSUME NEW r \in Metadata, NEW s \in Nat, NEW e \in Nat
    PROVE  /\ NewRange(r, s, e) \in Metadata
           /\ r.start <= s => NewRange(r, s, e).end >= e /\ NewRange(r, s, e).end >= r.end
  <1>1. r.config \in [digits : Nat, format : {"raw", "compressor"}] /\ r.end \in Nat /\ r.start \in Nat
    BY DEF Metadata
  <1>2. CASE s < r.start \/ e > r.end
    BY <1>1, <1>2, RecordIs DEF NewRange
  <1>3. CASE ~(s < r.start \/ e > r.end)
    BY <1>1, <1>3 DEF NewRange
  <1> QED BY <1>2, <1>3

LEMMA NewDigitsIs ==
    ASSUME NEW r \in Metadata, NEW e, NEW config \in [digits : Nat, format : {"raw", "compressor"}]
    PROVE  NewDigits(r, e, config) \in Metadata /\ NewDigits(r, e, config).start = r.start
           /\ NewDigits(r, e, config).end = r.end
  <1>1. [r EXCEPT !.config.digits = config.digits] \in Metadata
        /\ [r EXCEPT !.config.digits = config.digits].start = r.start
        /\ [r EXCEPT !.config.digits = config.digits].end = r.end
    BY DEF Metadata
  <1> QED BY <1>1 DEF NewDigits

\* What a writing call takes for a record is one.
LEMMA StoreBatchTypes ==
    ASSUME TickDBTypeOK, NEW call, NEW i \in Inst, NEW batch \in Batches, NEW config, NEW r \in Metadata,
           StoreBatch(call, i, batch, config, r)
    PROVE  /\ DOMAIN metadata' \subseteq Inst /\ \A k \in DOMAIN metadata' : metadata'[k] \in Metadata
           /\ DOMAIN m_metadata' \subseteq Inst /\ \A k \in DOMAIN m_metadata' : m_metadata'[k] \in Metadata
           /\ DOMAIN promised' \subseteq Inst \X Nat
           /\ tickFaults' \in Nat
  <1>1. m_metadata' = With(m_metadata, i, r)
    BY DEF StoreBatch
  <1>2. metadata' = metadata \/ metadata' = With(metadata, i, r)
    BY DEF StoreBatch, Throws
  <1>3. promised' = promised \/ Promise(i, batch)
    BY DEF StoreBatch, Throws
  <1>4. tickFaults' \in Nat
    BY DEF StoreBatch, Accepted, Refused, Fails, TickDBTypeOK
  <1>5. DOMAIN promised' \subseteq Inst \X Nat
    <2>1. DOMAIN promised \subseteq Inst \X Nat
      BY DEF TickDBTypeOK
    <2>2. {<<i, h>> : h \in HoursOf(batch)} \subseteq Inst \X Nat
      BY BatchHours
    <2> QED BY <1>3, <2>1, <2>2 DEF Promise
  <1>6. DOMAIN m_metadata' \subseteq Inst /\ \A k \in DOMAIN m_metadata' : m_metadata'[k] \in Metadata
    BY <1>1 DEF TickDBTypeOK, With
  <1>7. DOMAIN metadata' \subseteq Inst /\ \A k \in DOMAIN metadata' : metadata'[k] \in Metadata
    BY <1>2 DEF TickDBTypeOK, With
  <1> QED BY <1>4, <1>5, <1>6, <1>7

\* The record a writing call takes: one whose range reaches over the batch, if
\* the one before does not start after it.
Covers(r, i, batch) ==
    /\ r \in Metadata
    /\ i \in DOMAIN m_metadata /\ m_metadata[i].start <= Head(batch).time
       => r.end >= Last(batch).time /\ r.end >= m_metadata[i].end

LEMMA WithConfigIs ==
    ASSUME TickDBTypeOK, NEW i \in Inst, NEW batch \in Batches, NEW config \in Configs,
           upsert_with_config(i, batch, config)
    PROVE  /\ handles' = handles
           /\ \/ Nothing("upsert_with_config") /\ tickFaults' \in Nat
              \/ /\ Ordered(batch)
                 /\ \E r : Covers(r, i, batch) /\ StoreBatch("upsert_with_config", i, batch, config, r)
  <1> DEFINE call == "upsert_with_config"
             s == Head(batch).time
             e == Last(batch).time
             r == IF i \notin DOMAIN m_metadata THEN Record(s, e, config)
                  ELSE NewRange(NewDigits(m_metadata[i], e, config), s, e)
  <1>1. s \in Nat /\ e \in Nat /\ config \in [digits : Nat, format : {"raw", "compressor"}]
    BY BatchIs, ConfigsAssumption
  <1>2. Covers(r, i, batch)
    <2>1. CASE i \notin DOMAIN m_metadata
      BY <1>1, <2>1, RecordIs DEF Covers
    <2>2. CASE i \in DOMAIN m_metadata
      <3> DEFINE m == m_metadata[i]
                 d == NewDigits(m, e, config)
      <3>1. m \in Metadata
        BY <2>2 DEF TickDBTypeOK
      <3> HIDE DEF m
      <3>2. d \in Metadata /\ d.start = m.start /\ d.end = m.end
        BY <1>1, <3>1, NewDigitsIs
      <3>3. r = NewRange(d, s, e)
        BY <2>2 DEF m
      <3> HIDE DEF d, r, s, e
      <3>4. r \in Metadata /\ (d.start <= s => r.end >= e /\ r.end >= d.end)
        BY <1>1, <3>2, <3>3, NewRangeIs
      <3> QED BY <3>2, <3>4 DEF Covers, m, s, e
    <2> QED BY <2>1, <2>2
  <1>3. /\ handles' = handles
        /\ \/ Nothing(call) /\ (UNCHANGED tickFaults \/ Fails)
           \/ Ordered(batch) /\ StoreBatch(call, i, batch, config, r)
    BY DEF upsert_with_config
  <1> HIDE DEF r
  <1>4. UNCHANGED tickFaults \/ Fails => tickFaults' \in Nat
    BY DEF Fails, TickDBTypeOK
  <1> QED BY <1>2, <1>3, <1>4

LEMMA TicksIs ==
    ASSUME TickDBTypeOK, NEW i \in Inst, NEW batch \in Batches, upsert_ticks(i, batch)
    PROVE  /\ handles' = handles
           /\ \/ Nothing("upsert_ticks") /\ tickFaults' \in Nat
              \/ /\ Ordered(batch)
                 /\ \E r, config : Covers(r, i, batch) /\ StoreBatch("upsert_ticks", i, batch, config, r)
  <1> DEFINE call == "upsert_ticks"
             s == Head(batch).time
             e == Last(batch).time
             known == i \in DOMAIN m_metadata \/ (handles = "open" /\ i \in DOMAIN metadata)
             m == IF i \in DOMAIN m_metadata THEN m_metadata[i] ELSE metadata[i]
             r == NewRange(m, s, e)
  <1>1. s \in Nat /\ e \in Nat
    BY BatchIs
  <1>2. known => Covers(r, i, batch)
    <2>1. known => m \in Metadata
      BY DEF TickDBTypeOK
    <2>2. i \in DOMAIN m_metadata => m = m_metadata[i]
      OBVIOUS
    <2> HIDE DEF m, known
    <2>3. known => r \in Metadata /\ (m.start <= s => r.end >= e /\ r.end >= m.end)
      BY <1>1, <2>1, NewRangeIs
    <2> QED BY <2>2, <2>3 DEF Covers
  <1>3. /\ handles' = handles
        /\ \/ Nothing(call) /\ (UNCHANGED tickFaults \/ Fails)
           \/ Ordered(batch) /\ known /\ StoreBatch(call, i, batch, m.config, r)
    BY DEF upsert_ticks
  <1> HIDE DEF r, known, m
  <1>4. UNCHANGED tickFaults \/ Fails => tickFaults' \in Nat
    BY DEF Fails, TickDBTypeOK
  <1> QED BY <1>2, <1>3, <1>4

LEMMA TypeStep ==
    ASSUME TickDBTypeOK, [TickDBNext]_tdbVars
    PROVE  TickDBTypeOK'
  <1>1. CASE Start
    <2>1. m_metadata' = m_metadata \/ m_metadata' = get_all_fixed_map(metadata, m_metadata)
      BY <1>1 DEF Start, start
    <2>2. DOMAIN m_metadata' \subseteq Inst /\ \A k \in DOMAIN m_metadata' : m_metadata'[k] \in Metadata
      BY <2>1 DEF TickDBTypeOK, get_all_fixed_map
    <2> QED BY <1>1, <2>2 DEF Start, start, TickDBTypeOK, Throws, Reads, Fails
  <1>2. CASE Stop
    BY <1>2 DEF Stop, stop, TickDBTypeOK, Throws, Reads
  <1>3. CASE Construct
    <2>1. DOMAIN m_metadata' = {}
      BY <1>3 DEF Construct, Reconstruct, NoRecords
    <2> QED BY <1>3, <2>1 DEF Construct, Reconstruct, TickDBTypeOK, Reads
  <1>4. CASE UpsertMetadata
    <2>1. PICK i \in Inst, r \in Records : upsert_metadata(i, r)
      BY <1>4 DEF UpsertMetadata
    <2>2. r \in Metadata
      BY ConfigsAssumption, RecordIs DEF Records
    <2>3. /\ m_metadata' = m_metadata \/ m_metadata' = With(m_metadata, i, r)
          /\ metadata' = metadata \/ metadata' = With(metadata, i, r)
          /\ handles' = handles /\ promised' = promised
          /\ tickFaults' = tickFaults \/ tickFaults' = tickFaults + 1
      BY <2>1 DEF upsert_metadata, Throws, Accepted, Refused, Fails
    <2>4. DOMAIN m_metadata' \subseteq Inst /\ \A k \in DOMAIN m_metadata' : m_metadata'[k] \in Metadata
      BY <2>2, <2>3 DEF TickDBTypeOK, With
    <2>5. DOMAIN metadata' \subseteq Inst /\ \A k \in DOMAIN metadata' : metadata'[k] \in Metadata
      BY <2>2, <2>3 DEF TickDBTypeOK, With
    <2> QED BY <1>4, <2>3, <2>4, <2>5 DEF TickDBTypeOK, UpsertMetadata, Writes
  <1>5. CASE UpsertList
    <2>1. PICK some \in SUBSET Inst : \E list \in [some -> Records] : upsert_list(list)
      BY <1>5 DEF UpsertList
    <2>1a. PICK list \in [some -> Records] : upsert_list(list)
      BY <2>1
    <2>2. \A k \in some : list[k] \in Metadata
      BY <2>1a, ConfigsAssumption, RecordIs DEF Records
    <2>3. /\ \E taken \in SUBSET some : m_metadata' = Overlaid(m_metadata, list, taken)
          /\ metadata' = metadata \/ \E taken \in SUBSET some : metadata' = Overlaid(metadata, list, taken)
          /\ handles' = handles /\ promised' = promised
          /\ tickFaults' = tickFaults \/ tickFaults' = tickFaults + 1
      BY <2>1a DEF upsert_list, Throws, Accepted, Refused, Fails
    <2>4. DOMAIN m_metadata' \subseteq Inst /\ \A k \in DOMAIN m_metadata' : m_metadata'[k] \in Metadata
      BY <2>2, <2>3 DEF TickDBTypeOK, Overlaid
    <2>5. DOMAIN metadata' \subseteq Inst /\ \A k \in DOMAIN metadata' : metadata'[k] \in Metadata
      BY <2>2, <2>3 DEF TickDBTypeOK, Overlaid
    <2> QED BY <1>5, <2>3, <2>4, <2>5 DEF TickDBTypeOK, UpsertList, Writes
  <1>6. ASSUME NEW call, Nothing(call), handles' = handles, tickFaults' \in Nat, Writes
        PROVE  TickDBTypeOK'
    BY <1>6 DEF Nothing, Throws, TickDBTypeOK, Writes
  <1>7. ASSUME NEW call, NEW i \in Inst, NEW batch \in Batches, NEW config, NEW r \in Metadata,
               StoreBatch(call, i, batch, config, r), handles' = handles, Writes
        PROVE  TickDBTypeOK'
    <2>1. /\ DOMAIN metadata' \subseteq Inst /\ \A k \in DOMAIN metadata' : metadata'[k] \in Metadata
          /\ DOMAIN m_metadata' \subseteq Inst /\ \A k \in DOMAIN m_metadata' : m_metadata'[k] \in Metadata
          /\ DOMAIN promised' \subseteq Inst \X Nat
          /\ tickFaults' \in Nat
      BY <1>7, StoreBatchTypes
    <2> QED BY <1>7, <2>1 DEF TickDBTypeOK, Writes
  <1>8. CASE UpsertWithConfig
    <2>1. PICK i \in Inst, b \in Batches, c \in Configs : upsert_with_config(i, b, c)
      BY <1>8 DEF UpsertWithConfig
    <2>2. Writes
      BY <1>8 DEF UpsertWithConfig
    <2>3. handles' = handles
      BY <2>1, WithConfigIs
    <2>4. CASE Nothing("upsert_with_config") /\ tickFaults' \in Nat
      BY <1>6, <2>2, <2>3, <2>4
    <2>5. CASE \E r : Covers(r, i, b) /\ StoreBatch("upsert_with_config", i, b, c, r)
      <3>1. PICK r : Covers(r, i, b) /\ StoreBatch("upsert_with_config", i, b, c, r)
        BY <2>5
      <3>2. r \in Metadata
        BY <3>1 DEF Covers
      <3> QED BY <1>7, <2>2, <2>3, <3>1, <3>2
    <2> QED BY <2>1, <2>4, <2>5, WithConfigIs
  <1>9. CASE UpsertTicks
    <2>1. PICK i \in Inst, b \in Batches : upsert_ticks(i, b)
      BY <1>9 DEF UpsertTicks
    <2>2. Writes
      BY <1>9 DEF UpsertTicks
    <2>3. handles' = handles
      BY <2>1, TicksIs
    <2>4. CASE Nothing("upsert_ticks") /\ tickFaults' \in Nat
      BY <1>6, <2>2, <2>3, <2>4
    <2>5. CASE \E r, config : Covers(r, i, b) /\ StoreBatch("upsert_ticks", i, b, config, r)
      <3>1. PICK r, config : Covers(r, i, b) /\ StoreBatch("upsert_ticks", i, b, config, r)
        BY <2>5
      <3>2. r \in Metadata
        BY <3>1 DEF Covers
      <3> QED BY <1>7, <2>2, <2>3, <3>1, <3>2
    <2> QED BY <2>1, <2>4, <2>5, TicksIs
  <1>10. CASE Fetch
    <2>1. UNCHANGED <<metadata, blobs, m_metadata, handles, promised, misplaced, writes>> /\ (Accepted \/ Refused)
      BY <1>10 DEF Fetch, Reads, fetch
    <2> QED BY <2>1 DEF TickDBTypeOK, Accepted, Refused, Fails
  <1>11. CASE UNCHANGED tdbVars
    BY <1>11 DEF tdbVars, TickDBTypeOK
  <1> QED BY <1>1, <1>2, <1>3, <1>4, <1>5, <1>8, <1>9, <1>10, <1>11 DEF TickDBNext

\* Cache, table and promises keep their types.
THEOREM TickDBTypeOKHolds == TickDBSpec => []TickDBTypeOK
  <1>1. TickDBInit => TickDBTypeOK
    BY DEF TickDBInit, TickDBTypeOK, NoRecords
  <1> QED BY <1>1, TypeStep, PTL DEF TickDBSpec

-----------------------------------------------------------------------------
(* TickDB: the end of the stored range                                     *)

LEMMA StoreBatchCovers ==
    ASSUME TickDBTypeOK, NEW i \in Inst, NEW batch \in Batches, Ordered(batch), NEW call, NEW config, NEW r,
           Covers(r, i, batch), StoreBatch(call, i, batch, config, r), last'.ok,
           NEW k \in Inst, last'.inst = k, EndCovers(k), Agree, metadata[k].start <= last'.start
    PROVE  EndCovers(k)'
  <1>1. /\ m_metadata' = With(m_metadata, i, r) /\ Promise(i, batch)
        /\ metadata' = IF i \notin DOMAIN m_metadata \/ m_metadata[i] # r THEN With(metadata, i, r) ELSE metadata
        /\ last' = [call |-> call, ok |-> TRUE, inst |-> i, start |-> Head(batch).time]
    BY DEF StoreBatch, Throws, Wrote
  <1>2. k = i /\ last'.start = Head(batch).time
    BY <1>1
  <1>3. i \in DOMAIN metadata /\ i \in DOMAIN m_metadata /\ m_metadata[i] = metadata[i]
        /\ m_metadata[i] \in Metadata /\ r \in Metadata
    BY <1>2 DEF EndCovers, Agree, TickDBTypeOK, Covers
  <1>4. r.end >= Last(batch).time /\ r.end >= metadata[i].end
    BY <1>2, <1>3 DEF Covers
  <1>5. i \in DOMAIN metadata' /\ metadata'[i] = r
    BY <1>1, <1>3 DEF With
  <1>6. r.end \in Nat /\ metadata[i].end \in Nat /\ Last(batch).time \in Nat
    BY <1>3, BatchIs DEF Metadata
  <1>7. /\ ms_to_hour(metadata[i].end) <= ms_to_hour(r.end) /\ ms_to_hour(Last(batch).time) <= ms_to_hour(r.end)
        /\ ms_to_hour(r.end) \in Nat /\ ms_to_hour(metadata[i].end) \in Nat /\ ms_to_hour(Last(batch).time) \in Nat
    BY <1>4, <1>6, HourMonotone, HourIs
  <1>8. ASSUME NEW x \in DOMAIN promised', x[1] = i PROVE x[2] <= ms_to_hour(r.end)
    <2>1. x \in DOMAIN promised \/ \E h \in HoursOf(batch) : x = <<i, h>>
      BY <1>1 DEF Promise
    <2>2. CASE x \in DOMAIN promised
      <3>1. x[2] <= ms_to_hour(metadata[i].end) /\ x[2] \in Nat
        BY <1>2, <1>8, <2>2 DEF EndCovers, TickDBTypeOK
      <3> QED BY <1>7, <3>1
    <2>3. CASE \E h \in HoursOf(batch) : x = <<i, h>>
      <3>1. x[2] <= ms_to_hour(Last(batch).time) /\ x[2] \in Nat
        BY <2>3, BatchHours
      <3> QED BY <1>7, <3>1
    <2> QED BY <2>1, <2>2, <2>3
  <1> QED BY <1>2, <1>5, <1>8 DEF EndCovers

LEMMA EndStep ==
    ASSUME TickDBTypeOK, [TickDBNext]_tdbVars, NEW k \in Inst,
           last'.call \in {"upsert_ticks", "upsert_with_config"}, last'.ok,
           last'.inst = k, EndCovers(k), Agree, metadata[k].start <= last'.start
    PROVE  EndCovers(k)'
  <1>1. CASE Start \/ Stop \/ Construct \/ UpsertMetadata \/ UpsertList \/ Fetch
    <2>1. \A call : Returns(call) \/ Throws(call) => last'.call = call
      BY DEF Returns, Throws
    <2>1a. /\ Start => Returns("start") \/ Throws("start")
           /\ Stop => Returns("stop") \/ Throws("stop")
           /\ Construct => Returns("construct")
      BY Zenon DEF Start, start, Stop, stop, Construct, Reconstruct
    <2>1b. UpsertMetadata => Returns("upsert_metadata") \/ Throws("upsert_metadata")
      BY Zenon DEF UpsertMetadata, upsert_metadata
    <2>1c. UpsertList => Returns("upsert_list") \/ Throws("upsert_list")
      BY Zenon DEF UpsertList, upsert_list
    <2>2. Fetch => last'.call = "fetch"
      <3>1. SUFFICES ASSUME NEW i \in Inst, NEW r \in Ranges, NEW before, fetch(i, r[1], r[2], before) PROVE last'.call = "fetch"
        BY DEF Fetch
      <3>2. \/ last' = [call |-> "fetch", ok |-> FALSE]
            \/ \E ticks : last' = [call |-> "fetch", ok |-> TRUE, inst |-> i, start |-> r[1], end |-> r[2],
                                   before |-> before, ticks |-> ticks]
        BY <3>1, Zenon DEF fetch
      <3> QED BY <3>2
    <2> QED BY <1>1, <2>1, <2>1a, <2>1b, <2>1c, <2>2
  <1>2. ASSUME NEW i \in Inst, NEW b \in Batches, NEW c \in Configs, upsert_with_config(i, b, c)
        PROVE  EndCovers(k)'
    <2>1. ~Nothing("upsert_with_config")
      BY DEF Nothing, Throws
    <2> QED BY <1>2, <2>1, WithConfigIs, StoreBatchCovers
  <1>3. ASSUME NEW i \in Inst, NEW b \in Batches, upsert_ticks(i, b)
        PROVE  EndCovers(k)'
    <2>1. ~Nothing("upsert_ticks")
      BY DEF Nothing, Throws
    <2> QED BY <1>3, <2>1, TicksIs, StoreBatchCovers
  <1>4. CASE UNCHANGED tdbVars
    BY <1>4 DEF tdbVars, EndCovers
  <1> QED BY <1>1, <1>2, <1>3, <1>4 DEF TickDBNext, UpsertWithConfig, UpsertTicks

\* A batch that does not start before the range leaves the end of the stored
\* range behind every stored tick, whatever the hours and the calls before.
THEOREM EndFollowsTicksHolds == TickDBSpec => EndFollowsTicks
  <1>1. TickDBTypeOK /\ [TickDBNext]_tdbVars
          => [\A i \in Inst :
                /\ last'.call \in {"upsert_ticks", "upsert_with_config"} /\ last'.ok
                /\ last'.inst = i /\ EndCovers(i) /\ Agree /\ metadata[i].start <= last'.start
                => EndCovers(i)']_tdbVars
    BY EndStep
  <1> QED BY <1>1, TickDBTypeOKHolds, PTL DEF TickDBSpec, EndFollowsTicks

-----------------------------------------------------------------------------
(* FundingDB: keys and hours                                               *)

\* Keys of different pairs or hours are different, and follow the hours.
LEMMA FundingKeys ==
    ASSUME NEW p \in Pair, NEW q \in Pair, NEW g \in Nat, NEW h \in Nat
    PROVE  /\ generate_funding_key(p, g) \in Nat
           /\ generate_funding_key(p, g) = generate_funding_key(q, h) => p = q /\ g = h
           /\ generate_funding_key(p, g) <= generate_funding_key(p, h) => g <= h
  <1>1. Pairs \in Nat \ {0} /\ p \in Nat /\ q \in Nat /\ p < Pairs /\ q < Pairs
    BY FundingAssumption DEF Pair
  <1>2. g * Pairs \in Nat /\ h * Pairs \in Nat
    BY <1>1
  <1>3. g < h => g * Pairs + Pairs <= h * Pairs
    BY <1>1, Apart
  <1>4. h < g => h * Pairs + Pairs <= g * Pairs
    BY <1>1, Apart
  <1> DEFINE m == g * Pairs
             n == h * Pairs
  <1>5. m \in Nat /\ n \in Nat /\ (g < h => m + Pairs <= n) /\ (h < g => n + Pairs <= m) /\ (g = h => m = n)
    BY <1>2, <1>3, <1>4
  <1>6. generate_funding_key(p, g) = m + p /\ generate_funding_key(q, h) = n + q
        /\ generate_funding_key(p, h) = n + p
    BY DEF generate_funding_key
  <1> HIDE DEF m, n
  <1>7. m + p = n + q => g = h
    BY <1>1, <1>5
  <1>8. m + p = n + q => p = q
    BY <1>1, <1>5, <1>7
  <1>9. m + p <= n + p => g <= h
    BY <1>1, <1>5
  <1> QED BY <1>1, <1>5, <1>6, <1>7, <1>8, <1>9

\* A batch of rates is a list, and every rate has an hour.
LEMMA FundingBatch ==
    ASSUME NEW batch \in RateBatches
    PROVE  /\ Len(batch) \in Nat \ {0} /\ DOMAIN batch = 1..Len(batch)
           /\ \A n \in 1..Len(batch) :
                  batch[n].time \in Nat /\ round_to_nearest_hour(batch[n].time) \in Nat
           /\ Head(batch).time \in Nat /\ Last(batch).time \in Nat
           /\ Last(batch) = batch[Len(batch)]
  <1>1. /\ Len(batch) \in Nat \ {0} /\ DOMAIN batch = 1..Len(batch)
        /\ \A n \in 1..Len(batch) : batch[n].time \in Nat
    BY RateBatchesAssumption
  <1>2. Head(batch) = batch[1] /\ Last(batch) = batch[Len(batch)]
    BY DEF Last
  <1>3. 1 \in 1..Len(batch) /\ Len(batch) \in 1..Len(batch)
    BY <1>1
  <1>4. ASSUME NEW t \in Nat PROVE round_to_nearest_hour(t) \in Nat
    BY FundingAssumption, Division DEF round_to_nearest_hour
  <1> QED BY <1>1, <1>2, <1>3, <1>4

LEMMA RoundedHours ==
    ASSUME NEW t \in Nat, NEW u \in Nat, round_to_nearest_hour(t) < round_to_nearest_hour(u)
    PROVE  t <= u
  <1> DEFINE d == 2 * MS_PER_HALF_HOUR
             v == t + MS_PER_HALF_HOUR
             w == u + MS_PER_HALF_HOUR
  <1>1. d \in Nat \ {0} /\ v \in Nat /\ w \in Nat
    BY FundingAssumption
  <1>2. v \div d < w \div d /\ v \div d \in Nat /\ w \div d \in Nat
    BY <1>1, Division DEF round_to_nearest_hour
  <1> HIDE DEF d
  <1>3. w <= v => w \div d <= v \div d
    BY <1>1, DivisionMonotone
  <1>4. ~(w <= v)
    BY <1>2, <1>3
  <1> QED BY <1>4, FundingAssumption

-----------------------------------------------------------------------------
(* FundingDB: putting a batch                                              *)

\* The table after the first n puts: the rates of the keys put, each the last
\* of its key, and the others as they were.  A batch of two or more has its
\* keys in order.
PutSoFar(p, batch, n, table) ==
    LET key(i) == generate_funding_key(p, round_to_nearest_hour(batch[i].time))
    IN  /\ DOMAIN table = DOMAIN f_rates \cup {key(i) : i \in 1..n}
        /\ \A k \in DOMAIN f_rates : (\A i \in 1..n : key(i) # k) => table[k] = f_rates[k]
        /\ \A i \in 1..n : (\A j \in (i + 1)..n : key(j) # key(i)) => table[key(i)] = batch[i]
        /\ Len(batch) >= 2 => \A i, j \in 1..n : i <= j => key(i) <= key(j)

IsTable(t) == t = [k \in DOMAIN t |-> t[k]]
TablesOver(V) == UNION {[D -> V] : D \in SUBSET Int}

Extends(V, u, t, k, v) ==
    /\ u \in TablesOver(V) /\ DOMAIN u = DOMAIN t \cup {k}
    /\ u[k] = v /\ \A x \in DOMAIN t : x # k => u[x] = t[x]

LEMMA WithIs ==
    ASSUME NEW V, NEW t \in TablesOver(V), NEW k \in Int, NEW v \in V
    PROVE  Extends(V, With(t, k, v), t, k, v)
  <1>1. PICK D \in SUBSET Int : t \in [D -> V]
    BY DEF TablesOver
  <1>2. With(t, k, v) \in [D \cup {k} -> V]
    BY <1>1 DEF With
  <1>3. D \cup {k} \in SUBSET Int
    OBVIOUS
  <1>4. With(t, k, v) \in TablesOver(V)
    BY <1>2, <1>3 DEF TablesOver
  <1> QED BY <1>4 DEF With, Extends

Puts(V) == [ok : BOOLEAN, table : TablesOver(V)]

PutHolds(V, u, t, k, v, batch_write) ==
    /\ u \in Puts(V)
    /\ u.ok => t.ok /\ Puttable(t.table, k, batch_write) /\ u.table = With(t.table, k, v)

LEMMA PutIs ==
    ASSUME NEW V, NEW t \in Puts(V), NEW k \in Int, NEW v \in V, NEW batch_write \in BOOLEAN
    PROVE  PutHolds(V, put_raw_key(t, k, v, batch_write), t, k, v, batch_write)
  <1>1. t.table \in TablesOver(V) /\ t.ok \in BOOLEAN
    BY DEF Puts
  <1> DEFINE u == With(t.table, k, v)
  <1>2. u \in TablesOver(V)
    BY <1>1, WithIs DEF Extends
  <1>3. CASE t.ok /\ Puttable(t.table, k, batch_write)
    <2>1. put_raw_key(t, k, v, batch_write) = [t EXCEPT !.table = u]
      BY <1>3 DEF put_raw_key
    <2> HIDE DEF u
    <2>2. [t EXCEPT !.table = u] \in Puts(V) /\ [t EXCEPT !.table = u].table = u
      BY <1>2 DEF Puts
    <2> QED BY <1>3, <2>1, <2>2 DEF u, PutHolds
  <1>4. CASE ~(t.ok /\ Puttable(t.table, k, batch_write))
    <2> DEFINE no == FALSE
    <2>1. put_raw_key(t, k, v, batch_write) = [t EXCEPT !.ok = no]
      BY <1>4 DEF put_raw_key
    <2>2. no \in BOOLEAN
      OBVIOUS
    <2>3. no = FALSE
      OBVIOUS
    <2> HIDE DEF no
    <2>4. [t EXCEPT !.ok = no] \in Puts(V) /\ [t EXCEPT !.ok = no].ok = no
      BY <2>2 DEF Puts
    <2> QED BY <2>1, <2>3, <2>4 DEF PutHolds
  <1> QED BY <1>3, <1>4

LEMMA PutSoFarStep ==
    ASSUME NEW p \in Pair, NEW batch \in RateBatches, NEW n \in 1..Len(batch), NEW V,
           NEW t \in TablesOver(V), PutSoFar(p, batch, n - 1, t), batch[n] \in V,
           Puttable(t, generate_funding_key(p, round_to_nearest_hour(batch[n].time)), Len(batch) >= 2)
    PROVE  PutSoFar(p, batch, n, With(t, generate_funding_key(p, round_to_nearest_hour(batch[n].time)), batch[n]))
  <1> DEFINE key(i) == generate_funding_key(p, round_to_nearest_hour(batch[i].time))
             u == With(t, key(n), batch[n])
             m == n - 1
  <1>1. Len(batch) \in Nat \ {0} /\ \A i \in 1..Len(batch) : key(i) \in Nat
    <2>1. \A i \in 1..Len(batch) : round_to_nearest_hour(batch[i].time) \in Nat
      BY FundingBatch
    <2> QED BY <2>1, FundingBatch, FundingKeys
  <1>2. /\ m \in Nat /\ n \in Nat \ {0} /\ 1..n = 1..m \cup {n} /\ n \notin 1..m
        /\ \A i \in 1..n : i \in 1..Len(batch)
    BY <1>1
  <1>3. DOMAIN u = DOMAIN t \cup {key(n)} /\ u[key(n)] = batch[n]
        /\ \A x \in DOMAIN t : x # key(n) => u[x] = t[x]
    <2> DEFINE k == key(n)
    <2>1. k \in Int
      BY <1>1, <1>2
    <2> HIDE DEF k
    <2>2. Extends(V, With(t, k, batch[n]), t, k, batch[n])
      BY <2>1, WithIs
    <2> QED BY <2>2 DEF k, Extends
  <1>4. /\ DOMAIN t = DOMAIN f_rates \cup {key(i) : i \in 1..m}
        /\ \A k \in DOMAIN f_rates : (\A i \in 1..m : key(i) # k) => t[k] = f_rates[k]
        /\ \A i \in 1..m : (\A j \in (i + 1)..m : key(j) # key(i)) => t[key(i)] = batch[i]
        /\ Len(batch) >= 2 => \A i, j \in 1..m : i <= j => key(i) <= key(j)
    BY DEF PutSoFar
  <1>5. Len(batch) >= 2 => \A x \in DOMAIN t : x <= key(n)
    BY DEF Puttable
  <1> HIDE DEF key, u, m
  <1>6. DOMAIN u = DOMAIN f_rates \cup {key(i) : i \in 1..n}
    BY <1>2, <1>3, <1>4
  <1>7. ASSUME NEW k \in DOMAIN f_rates, \A i \in 1..n : key(i) # k PROVE u[k] = f_rates[k]
    <2>1. k # key(n) /\ \A i \in 1..m : key(i) # k
      BY <1>2, <1>7
    <2>2. k \in DOMAIN t
      BY <1>4
    <2> QED BY <1>3, <1>4, <2>1, <2>2
  <1>8. ASSUME NEW i \in 1..n, \A j \in (i + 1)..n : key(j) # key(i) PROVE u[key(i)] = batch[i]
    <2>1. CASE i = n
      BY <1>3, <2>1
    <2>2. CASE i # n
      <3>1. i \in 1..m /\ n \in (i + 1)..n /\ \A j \in (i + 1)..m : j \in (i + 1)..n
        BY <1>2, <2>2 DEF m
      <3>2. key(n) # key(i) /\ \A j \in (i + 1)..m : key(j) # key(i)
        BY <1>8, <3>1
      <3>3. t[key(i)] = batch[i]
        BY <1>4, <3>1, <3>2
      <3>4. key(i) \in DOMAIN t
        BY <1>4, <3>1
      <3> QED BY <1>3, <3>2, <3>3, <3>4
    <2> QED BY <2>1, <2>2
  <1>9. ASSUME Len(batch) >= 2, NEW i \in 1..n, NEW j \in 1..n, i <= j PROVE key(i) <= key(j)
    <2>1. CASE j = n
      <3>1. CASE i = n
        <4>1. key(n) \in Nat
          BY <1>1, <1>2
        <4> QED BY <2>1, <3>1, <4>1
      <3>2. CASE i # n
        <4>1. key(i) \in DOMAIN t
          BY <1>2, <1>4, <3>2
        <4> QED BY <1>5, <1>9, <2>1, <4>1
      <3> QED BY <3>1, <3>2
    <2>2. CASE j # n
      <3>1. i \in 1..m /\ j \in 1..m
        BY <1>2, <1>9, <2>2 DEF m
      <3> QED BY <1>4, <1>9, <3>1
    <2> QED BY <2>1, <2>2
  <1>10. PutSoFar(p, batch, n, u)
    BY <1>6, <1>7, <1>8, <1>9 DEF PutSoFar, key
  <1> QED BY <1>10 DEF u, key

LEMMA PutRatesIs ==
    ASSUME NEW p \in Pair, NEW batch \in RateBatches, DOMAIN f_rates \subseteq Nat, IsTable(f_rates),
           PutRates(p, batch).ok
    PROVE  /\ PutSoFar(p, batch, Len(batch), PutRates(p, batch).table)
           /\ IsTable(PutRates(p, batch).table)
  <1> DEFINE L == Len(batch)
             V == {f_rates[k] : k \in DOMAIN f_rates} \cup {batch[i] : i \in 1..L}
             big == L >= 2
             hour(i) == round_to_nearest_hour(batch[i].time)
             c == [ok |-> TRUE, table |-> f_rates]
             step == [x \in Puts(V) \X (1..L) |->
                         put_raw_key(x[1], generate_funding_key(p, hour(x[2])), batch[x[2]], big)]
             put[n \in 0..L] == IF n = 0 THEN c
                                ELSE put_raw_key(put[n - 1], generate_funding_key(p, hour(n)), batch[n], big)
  <1>1. L \in Nat \ {0} /\ big \in BOOLEAN /\ \A i \in 1..L : hour(i) \in Nat
    BY FundingBatch
  <1>2. \A i \in 1..L : generate_funding_key(p, hour(i)) \in Int /\ batch[i] \in V
    BY <1>1, FundingKeys
  <1>3. f_rates \in TablesOver(V)
    <2>1. f_rates \in [DOMAIN f_rates -> V]
      <3>1. \A k \in DOMAIN f_rates : f_rates[k] \in V
        OBVIOUS
      <3> HIDE DEF V
      <3> QED BY <3>1 DEF IsTable
    <2>2. DOMAIN f_rates \in SUBSET Int
      OBVIOUS
    <2> QED BY <2>1, <2>2 DEF TablesOver
  <1> HIDE DEF V
  <1>4. c \in Puts(V)
    BY <1>3 DEF Puts
  <1>5. ASSUME NEW s \in Puts(V), NEW i \in 1..L
        PROVE  put_raw_key(s, generate_funding_key(p, hour(i)), batch[i], big) \in Puts(V)
    BY <1>1, <1>2, PutIs DEF PutHolds
  <1>6. IsStep(step, L, Puts(V))
    <2>1. step \in [Puts(V) \X (1..L) -> Puts(V)]
      <3>1. ASSUME NEW x \in Puts(V) \X (1..L)
            PROVE  put_raw_key(x[1], generate_funding_key(p, hour(x[2])), batch[x[2]], big) \in Puts(V)
        BY <1>5
      <3> QED BY <3>1
    <2> QED BY <2>1 DEF IsStep
  <1>7. PutRates(p, batch) = put[L]
    BY DEF PutRates
  <1> HIDE DEF c, step
  <1>8. \E f : Iterates(f, L, Puts(V), c, step)
    BY <1>1, <1>4, <1>6, RecursiveFunction
  <1>9. PICK f : Iterates(f, L, Puts(V), c, step)
    BY <1>8
  <1>10. f \in [0..L -> Puts(V)] /\ f[0] = c
         /\ \A i \in 1..L : f[i] = put_raw_key(f[i - 1], generate_funding_key(p, hour(i)), batch[i], big)
    <2>1. f \in [0..L -> Puts(V)] /\ f[0] = c /\ \A i \in 1..L : f[i] = step[<<f[i - 1], i>>]
      BY <1>9 DEF Iterates
    <2>2. ASSUME NEW i \in 1..L
          PROVE  step[<<f[i - 1], i>>]
                   = put_raw_key(f[i - 1], generate_funding_key(p, hour(i)), batch[i], big)
      <3>1. f[i - 1] \in Puts(V)
        BY <1>1, <2>1
      <3> DEFINE x == <<f[i - 1], i>>
      <3>2. x \in Puts(V) \X (1..L) /\ x[1] = f[i - 1] /\ x[2] = i
        BY <3>1
      <3> HIDE DEF x
      <3>3. step[x] = put_raw_key(f[i - 1], generate_funding_key(p, hour(i)), batch[i], big)
        BY <3>2 DEF step
      <3> QED BY <3>3 DEF x
    <2> QED BY <2>1, <2>2
  <1> DEFINE Rec(g) == g = [n \in 0..L |-> IF n = 0 THEN c
                              ELSE put_raw_key(g[n - 1], generate_funding_key(p, hour(n)), batch[n], big)]
  <1>11. Rec(f)
    <2>1. \A n \in 0..L : f[n] = IF n = 0 THEN c
                              ELSE put_raw_key(f[n - 1], generate_funding_key(p, hour(n)), batch[n], big)
      BY <1>1, <1>10
    <2>2. f = [n \in 0..L |-> f[n]]
      BY <1>10
    <2> QED BY <2>1, <2>2
  <1>12. put = CHOOSE g : Rec(g)
    OBVIOUS
  <1>13. Rec(put)
    BY <1>11, <1>12
  <1> HIDE DEF put
  <1> DEFINE T == {n \in 0..L : /\ put[n] \in Puts(V)
                                /\ put[n].ok => PutSoFar(p, batch, n, put[n].table)}
  <1>14. put[0] = c /\ \A i \in 1..L : put[i] = put_raw_key(put[i - 1], generate_funding_key(p, hour(i)), batch[i], big)
    <2>1. 0 \in 0..L /\ \A i \in 1..L : i \in 0..L /\ i # 0
      BY <1>1
    <2> QED BY <1>13, <2>1
  <1> HIDE DEF Rec
  <1>15. 0 \in T
    <2>1. PutSoFar(p, batch, 0, f_rates)
      <3>1. 1..0 = {}
        OBVIOUS
      <3> QED BY <3>1 DEF PutSoFar
    <2>2. c.table = f_rates
      BY DEF c
    <2> QED BY <1>1, <1>4, <1>14, <2>1, <2>2
  <1>16. ASSUME NEW n \in 1..L, n - 1 \in T PROVE n \in T
    <2> DEFINE s == put[n - 1]
               k == generate_funding_key(p, hour(n))
    <2>1. s \in Puts(V) /\ (s.ok => PutSoFar(p, batch, n - 1, s.table))
      BY <1>16
    <2>2. put[n] = put_raw_key(s, k, batch[n], big)
      BY <1>14
    <2>3. k \in Int /\ batch[n] \in V
      BY <1>2
    <2> HIDE DEF s, k, big
    <2>4. PutHolds(V, put[n], s, k, batch[n], big)
      BY <1>1, <2>1, <2>2, <2>3, PutIs
    <2>5. s.table \in TablesOver(V)
      BY <2>1 DEF Puts
    <2>6. put[n].ok => PutSoFar(p, batch, n, put[n].table)
      BY <2>1, <2>3, <2>4, <2>5, PutSoFarStep DEF k, big, PutHolds
    <2>7. n \in 0..L
      BY <1>1
    <2> QED BY <2>4, <2>6, <2>7 DEF PutHolds
  <1> HIDE DEF T
  <1>17. 0..L \subseteq T
    BY <1>1, <1>15, <1>16, BoundedInduction
  <1>18. L \in T
    BY <1>1, <1>17
  <1>19. put[L] \in Puts(V) /\ (put[L].ok => PutSoFar(p, batch, L, put[L].table))
    BY <1>18 DEF T
  <1>20. IsTable(put[L].table)
    BY <1>19 DEF Puts, TablesOver, IsTable
  <1> QED BY <1>7, <1>19, <1>20

-----------------------------------------------------------------------------
(* FundingDB: the invariant                                                *)

Spans == [start_ts : Nat, end_ts : Nat]
SpansOf(map) == DOMAIN map \subseteq Pair /\ \A p \in DOMAIN map : map[p] \in Spans

FundingTypeOK ==
    /\ SpansOf(f_metadata) /\ SpansOf(f_cached)
    /\ DOMAIN f_given \subseteq Pair \X Nat /\ IsFiniteSet(DOMAIN f_given)
    /\ \A x \in DOMAIN f_given : f_given[x].time \in Nat
    /\ IsTable(f_rates)

\* The table holds the promised rates under their keys and nothing else.
KeptRates ==
    /\ DOMAIN f_rates = {generate_funding_key(x[1], x[2]) : x \in DOMAIN f_given}
    /\ \A x \in DOMAIN f_given : f_rates[generate_funding_key(x[1], x[2])] = f_given[x]

FInv == FundingTypeOK /\ KeptRates

LEMMA RatesAreKeptIn ==
    ASSUME FInv
    PROVE  RatesAreKept
  <1> DEFINE G == DOMAIN f_given
             D == DOMAIN f_rates
             f == [x \in G |-> generate_funding_key(x[1], x[2])]
  <1>1. /\ D = {generate_funding_key(x[1], x[2]) : x \in G}
        /\ \A x \in G : f_rates[generate_funding_key(x[1], x[2])] = f_given[x]
        /\ G \subseteq Pair \X Nat /\ IsFiniteSet(G)
    BY DEF FInv, KeptRates, FundingTypeOK
  <1>2. ASSUME NEW x \in G, NEW y \in G, f[x] = f[y] PROVE x = y
    <2>1. x = <<x[1], x[2]>> /\ y = <<y[1], y[2]>>
          /\ x[1] \in Pair /\ y[1] \in Pair /\ x[2] \in Nat /\ y[2] \in Nat
      BY <1>1
    <2>2. x[1] = y[1] /\ x[2] = y[2]
      BY <1>2, <2>1, FundingKeys
    <2> QED BY <2>1, <2>2
  <1>3. f \in [G -> D]
    BY <1>1
  <1>4. \A k \in D : \E x \in G : f[x] = k
    BY <1>1
  <1> HIDE DEF f, D, G
  <1>5. f \in Bijection(G, D)
    BY <1>2, <1>3, <1>4 DEF Bijection, Injection, IsInjective, Surjection
  <1>6. ExistsBijection(G, D)
    BY <1>5 DEF ExistsBijection
  <1>7. Cardinality(D) = Cardinality(G)
    BY <1>1, <1>6, FS_Bijection
  <1> QED BY <1>1, <1>7 DEF RatesAreKept, D, G

-----------------------------------------------------------------------------
(* FundingDB: a batch that is stored                                       *)

\* The rate of an hour is the last one of the batch that falls in it.
LEMMA RateOfIs ==
    ASSUME NEW batch \in RateBatches, NEW h \in HoursOfRates(batch)
    PROVE  \E i \in 1..Len(batch) :
               /\ RateOf(batch, h) = batch[i] /\ round_to_nearest_hour(batch[i].time) = h
               /\ \A j \in (i + 1)..Len(batch) : round_to_nearest_hour(batch[j].time) # h
  <1> DEFINE L == Len(batch)
             S == {i \in DOMAIN batch : round_to_nearest_hour(batch[i].time) = h}
  <1>1. L \in Nat \ {0} /\ DOMAIN batch = 1..L
    BY FundingBatch
  <1>2. S # {} /\ S \subseteq 0..L
    BY <1>1 DEF HoursOfRates
  <1> HIDE DEF S, L
  <1>3. \E i \in S : \A j \in S : i >= j
    BY <1>1, <1>2, GreatestNumber
  <1>4. Max(S) \in S /\ \A j \in S : Max(S) >= j
    BY <1>3 DEF Max
  <1> DEFINE i == Max(S)
  <1>5. RateOf(batch, h) = batch[i]
    BY DEF RateOf, S
  <1> HIDE DEF i
  <1>6. i \in 1..L /\ round_to_nearest_hour(batch[i].time) = h
    BY <1>1, <1>4 DEF S, i
  <1>7. ASSUME NEW j \in (i + 1)..L PROVE round_to_nearest_hour(batch[j].time) # h
    <2>1. j \in 1..L /\ ~(i >= j)
      BY <1>1, <1>6
    <2>2. j \notin S
      BY <1>4, <2>1 DEF i
    <2> QED BY <1>1, <2>1, <2>2 DEF S
  <1> QED BY <1>5, <1>6, <1>7 DEF L

\* What is promised once a batch is stored.
NowGiven(given, p, batch) ==
    LET hours == {<<p, h>> : h \in HoursOfRates(batch)}
    IN  given = [x \in DOMAIN f_given \cup hours |->
                    IF x \in hours THEN RateOf(batch, x[2]) ELSE f_given[x]]

GivesRates(given, p, batch) ==
    /\ DOMAIN given = DOMAIN f_given \cup {<<p, h>> : h \in HoursOfRates(batch)}
    /\ \A h \in HoursOfRates(batch) : given[<<p, h>>] = RateOf(batch, h)
    /\ \A x \in DOMAIN f_given : (\A h \in HoursOfRates(batch) : x # <<p, h>>) => given[x] = f_given[x]

LEMMA NowGivenIs ==
    ASSUME NEW p, NEW batch, NEW given, NowGiven(given, p, batch)
    PROVE  GivesRates(given, p, batch)
  BY DEF NowGiven, GivesRates

LEMMA HoursAre ==
    ASSUME NEW batch \in RateBatches
    PROVE  /\ HoursOfRates(batch) \subseteq Nat /\ IsFiniteSet(HoursOfRates(batch))
           /\ \A i \in 1..Len(batch) : round_to_nearest_hour(batch[i].time) \in HoursOfRates(batch)
           /\ \A h \in HoursOfRates(batch) : \E i \in 1..Len(batch) : h = round_to_nearest_hour(batch[i].time)
  <1> DEFINE H == HoursOfRates(batch)
             L == Len(batch)
             f == [i \in 1..L |-> round_to_nearest_hour(batch[i].time)]
  <1>1. L \in Nat /\ DOMAIN batch = 1..L /\ \A i \in 1..L : round_to_nearest_hour(batch[i].time) \in Nat
    BY FundingBatch
  <1>2. H = {round_to_nearest_hour(batch[i].time) : i \in 1..L}
    BY <1>1 DEF HoursOfRates
  <1>3. f \in [1..L -> H] /\ \A h \in H : \E i \in 1..L : f[i] = h
    BY <1>2
  <1> HIDE DEF H, f
  <1>4. f \in Surjection(1..L, H)
    BY <1>3 DEF Surjection
  <1>5. IsFiniteSet(1..L)
    BY <1>1, FS_Interval
  <1>6. IsFiniteSet(H)
    BY <1>4, <1>5, FS_Surjection
  <1> QED BY <1>1, <1>2, <1>6 DEF H

\* The table follows the promises.
LEMMA StoredRates ==
    ASSUME FInv, NEW p \in Pair, NEW batch \in RateBatches, PutRates(p, batch).ok,
           f_rates' = PutRates(p, batch).table, NowGiven(f_given', p, batch)
    PROVE  KeptRates' /\ IsTable(f_rates)'
  <1> DEFINE L == Len(batch)
             H == HoursOfRates(batch)
             hour(i) == round_to_nearest_hour(batch[i].time)
             key(i) == generate_funding_key(p, hour(i))
             at(x) == generate_funding_key(x[1], x[2])
             old == DOMAIN f_given
             new == DOMAIN f_given'
  <1>1. /\ DOMAIN f_rates = {at(x) : x \in old} /\ old \subseteq Pair \X Nat
        /\ \A x \in old : f_rates[at(x)] = f_given[x]
        /\ IsTable(f_rates)
    BY DEF FInv, KeptRates, FundingTypeOK
  <1>2. ASSUME NEW x \in Pair \X Nat PROVE x[1] \in Pair /\ x[2] \in Nat /\ x = <<x[1], x[2]>> /\ at(x) \in Nat
    <2>1. x[1] \in Pair /\ x[2] \in Nat /\ x = <<x[1], x[2]>>
      OBVIOUS
    <2> QED BY <2>1, FundingKeys
  <1>3. DOMAIN f_rates \subseteq Nat
    BY <1>1, <1>2
  <1>4. PutSoFar(p, batch, L, f_rates') /\ IsTable(f_rates)'
    BY <1>1, <1>3, PutRatesIs DEF IsTable
  <1>5. /\ DOMAIN f_rates' = DOMAIN f_rates \cup {key(i) : i \in 1..L}
        /\ \A k \in DOMAIN f_rates : (\A i \in 1..L : key(i) # k) => f_rates'[k] = f_rates[k]
        /\ \A i \in 1..L : (\A j \in (i + 1)..L : key(j) # key(i)) => f_rates'[key(i)] = batch[i]
    BY <1>4 DEF PutSoFar
  <1>6. /\ L \in Nat \ {0} /\ \A i \in 1..L : hour(i) \in Nat
        /\ H \subseteq Nat /\ (\A i \in 1..L : hour(i) \in H)
        /\ \A h \in H : \E i \in 1..L : h = hour(i)
    BY FundingBatch, HoursAre
  <1>7. /\ new = old \cup {<<p, h>> : h \in H}
        /\ \A h \in H : f_given'[<<p, h>>] = RateOf(batch, h)
        /\ \A x \in old : (\A h \in H : x # <<p, h>>) => f_given'[x] = f_given[x]
    <2>1. GivesRates(f_given', p, batch)
      BY NowGivenIs
    <2> QED BY <2>1 DEF GivesRates
  <1>8. \A h \in H : \E i \in 1..L : RateOf(batch, h) = batch[i] /\ hour(i) = h
                                     /\ \A j \in (i + 1)..L : hour(j) # h
    BY RateOfIs
  <1>9. ASSUME NEW h \in H PROVE f_rates'[at(<<p, h>>)] = f_given'[<<p, h>>]
    <2>1. PICK i \in 1..L : RateOf(batch, h) = batch[i] /\ hour(i) = h /\ \A j \in (i + 1)..L : hour(j) # h
      BY <1>8
    <2>2. ASSUME NEW j \in (i + 1)..L PROVE key(j) # key(i)
      <3>1. j \in 1..L
        BY <1>6
      <3>2. hour(j) \in Nat /\ hour(i) \in Nat /\ hour(j) # hour(i)
        BY <1>6, <2>1, <3>1
      <3> QED BY <3>2, FundingKeys
    <2>3. f_rates'[key(i)] = batch[i]
      BY <1>5, <2>2
    <2>4. key(i) = at(<<p, h>>)
      BY <2>1
    <2> QED BY <1>7, <2>1, <2>3, <2>4
  <1>10. ASSUME NEW x \in old, \A h \in H : x # <<p, h>> PROVE f_rates'[at(x)] = f_given'[x]
    <2>1. x \in Pair \X Nat
      BY <1>1
    <2>2. ASSUME NEW i \in 1..L PROVE key(i) # at(x)
      <3>1. hour(i) \in H /\ hour(i) \in Nat
        BY <1>6
      <3>2. x[1] \in Pair /\ x[2] \in Nat /\ x = <<x[1], x[2]>> /\ x # <<p, hour(i)>>
        BY <1>2, <1>10, <2>1, <3>1
      <3> QED BY <3>1, <3>2, FundingKeys
    <2>3. at(x) \in DOMAIN f_rates /\ f_rates[at(x)] = f_given[x]
      BY <1>1
    <2>4. f_rates'[at(x)] = f_rates[at(x)]
      BY <1>5, <2>2, <2>3
    <2> QED BY <1>7, <1>10, <2>3, <2>4
  <1>11. {key(i) : i \in 1..L} = {at(<<p, h>>) : h \in H}
    <2>1. \A i \in 1..L : key(i) = at(<<p, hour(i)>>)
      OBVIOUS
    <2>2. (\A i \in 1..L : hour(i) \in H) /\ \A h \in H : \E i \in 1..L : h = hour(i)
      BY <1>6
    <2> HIDE DEF H, at, key, hour, L
    <2> QED BY <2>1, <2>2
  <1>12. DOMAIN f_rates' = {at(x) : x \in new}
    <2> DEFINE add == {<<p, h>> : h \in H}
    <2>1. new = old \cup add
      BY <1>7
    <2>2. DOMAIN f_rates' = {at(x) : x \in old} \cup {at(<<p, h>>) : h \in H}
      BY <1>1, <1>5, <1>11
    <2> HIDE DEF at, new, old, H
    <2>3. {at(<<p, h>>) : h \in H} = {at(x) : x \in add}
      OBVIOUS
    <2> HIDE DEF add
    <2>4. {at(x) : x \in old \cup add} = {at(x) : x \in old} \cup {at(x) : x \in add}
      OBVIOUS
    <2> QED BY <2>1, <2>2, <2>3, <2>4
  <1>13. \A x \in new : f_rates'[at(x)] = f_given'[x]
    <2>1. ASSUME NEW x \in new PROVE f_rates'[at(x)] = f_given'[x]
      <3>1. CASE \E h \in H : x = <<p, h>>
        BY <1>9, <3>1
      <3>2. CASE \A h \in H : x # <<p, h>>
        <4>1. x \in old
          BY <1>7, <3>2
        <4> QED BY <1>10, <3>2, <4>1
      <3> QED BY <3>1, <3>2
    <2> QED BY <2>1
  <1> QED BY <1>4, <1>12, <1>13 DEF KeptRates

\* No rate that stands in for an hour is later than the last of the batch.
LEMMA LastIsLatest ==
    ASSUME NEW p \in Pair, NEW batch \in RateBatches, DOMAIN f_rates \subseteq Nat, IsTable(f_rates),
           PutRates(p, batch).ok, NEW h \in HoursOfRates(batch)
    PROVE  RateOf(batch, h).time \in Nat /\ RateOf(batch, h).time <= Last(batch).time
  <1> DEFINE L == Len(batch)
             hour(i) == round_to_nearest_hour(batch[i].time)
             key(i) == generate_funding_key(p, hour(i))
  <1>1. PICK i \in 1..L : RateOf(batch, h) = batch[i] /\ hour(i) = h /\ \A j \in (i + 1)..L : hour(j) # h
    BY RateOfIs
  <1>2. L \in Nat \ {0} /\ Last(batch) = batch[L]
        /\ \A j \in 1..L : batch[j].time \in Nat /\ hour(j) \in Nat
    BY FundingBatch
  <1>3. L >= 2 => key(i) <= key(L)
    <2>1. PutSoFar(p, batch, L, PutRates(p, batch).table)
      BY PutRatesIs
    <2>2. L \in 1..L /\ i <= L
      BY <1>2
    <2> QED BY <2>1, <2>2 DEF PutSoFar
  <1>4. CASE i = L
    BY <1>1, <1>2, <1>4
  <1>5. CASE i # L
    <2>1. L >= 2 /\ L \in (i + 1)..L /\ L \in 1..L
      BY <1>2, <1>5
    <2>2. hour(L) # hour(i) /\ hour(i) \in Nat /\ hour(L) \in Nat
      BY <1>1, <1>2, <2>1
    <2>3. hour(i) <= hour(L)
      BY <1>3, <2>1, <2>2, FundingKeys
    <2>4. hour(i) < hour(L)
      BY <2>2, <2>3
    <2>5. batch[i].time \in Nat /\ batch[L].time \in Nat
      BY <1>2, <2>1
    <2>6. batch[i].time <= batch[L].time
      BY <2>4, <2>5, RoundedHours
    <2> QED BY <1>1, <1>2, <2>5, <2>6
  <1> QED BY <1>4, <1>5

-----------------------------------------------------------------------------
(* FundingDB: steps                                                        *)

LEMMA SpanIs ==
    ASSUME NEW s \in Nat, NEW e \in Nat
    PROVE  Span(s, e) \in Spans /\ Span(s, e).start_ts = s /\ Span(s, e).end_ts = e
  BY DEF Span, Spans

LEMMA NewSpanIs ==
    ASSUME SpansOf(f_cached), NEW p \in Pair, NEW s \in Nat, NEW e \in Nat
    PROVE  /\ NewSpan(p, s, e) \in Spans
           /\ NewSpan(p, s, e).end_ts >= e
           /\ p \in DOMAIN f_cached /\ f_cached[p].start_ts <= s
              => NewSpan(p, s, e).end_ts >= f_cached[p].end_ts
  <1>1. p \in DOMAIN f_cached => /\ f_cached[p] \in Spans
                                 /\ f_cached[p].start_ts \in Nat /\ f_cached[p].end_ts \in Nat
    BY DEF SpansOf, Spans
  <1>2. CASE p \in DOMAIN f_cached /\ s >= f_cached[p].start_ts /\ e <= f_cached[p].end_ts
    <2>1. NewSpan(p, s, e) = f_cached[p]
      BY <1>2 DEF NewSpan
    <2> QED BY <1>1, <1>2, <2>1
  <1>3. CASE ~(p \in DOMAIN f_cached /\ s >= f_cached[p].start_ts /\ e <= f_cached[p].end_ts)
    <2>1. NewSpan(p, s, e) = Span(s, e)
      BY <1>3 DEF NewSpan
    <2>2. NewSpan(p, s, e) \in Spans /\ NewSpan(p, s, e).end_ts = e
      BY <2>1, SpanIs
    <2> QED BY <1>1, <1>3, <2>2
  <1> QED BY <1>2, <1>3

LEMMA WithSpans ==
    ASSUME NEW map, SpansOf(map), NEW p \in Pair, NEW r \in Spans
    PROVE  SpansOf(With(map, p, r))
  BY DEF SpansOf, With

LEMMA OverlaidSpans ==
    ASSUME NEW map, SpansOf(map), NEW some \in SUBSET Pair, NEW list \in [some -> FundingRecords],
           NEW taken \in SUBSET some
    PROVE  SpansOf(Overlaid(map, list, taken))
  <1>1. \A k \in taken : list[k] \in Spans
    BY SpanIs DEF FundingRecords
  <1> QED BY <1>1 DEF SpansOf, Overlaid

\* What a step does, as far as the invariant and the properties look at it.
Same == UNCHANGED <<f_rates, f_given>>
Stores(p, batch) ==
    /\ PutRates(p, batch).ok /\ f_rates' = PutRates(p, batch).table /\ NowGiven(f_given', p, batch)
    /\ f_handles' = f_handles
    /\ f_cached' = With(f_cached, p, NewSpan(p, Head(batch).time, Last(batch).time))
    /\ f_metadata' = IF p \in DOMAIN f_cached
                        /\ f_cached[p] = NewSpan(p, Head(batch).time, Last(batch).time)
                     THEN f_metadata ELSE With(f_metadata, p, NewSpan(p, Head(batch).time, Last(batch).time))
    /\ f_last' = [call |-> "upsert_funding", ok |-> TRUE, pair |-> p, start |-> Head(batch).time]

LEMMA UpsertFundingIs ==
    ASSUME UpsertFunding
    PROVE  \E p \in Pair, batch \in RateBatches :
              \/ Stores(p, batch)
              \/ /\ Same /\ f_metadata' = f_metadata
                 /\ \/ f_cached' = f_cached
                    \/ f_cached' = With(f_cached, p, NewSpan(p, Head(batch).time, Last(batch).time))
                 /\ f_last' = [call |-> "upsert_funding", ok |-> FALSE]
  <1>1. PICK p \in Pair, batch \in RateBatches : upsert_funding(p, batch)
    BY DEF UpsertFunding
  <1>2. \/ Stores(p, batch)
        \/ /\ Same /\ f_metadata' = f_metadata
           /\ \/ f_cached' = f_cached
              \/ f_cached' = With(f_cached, p, NewSpan(p, Head(batch).time, Last(batch).time))
           /\ f_last' = [call |-> "upsert_funding", ok |-> FALSE]
    BY <1>1 DEF upsert_funding, Stores, Same, NowGiven, FThrows, tables
  <1> QED BY <1>2

LEMMA OtherCallsKeepRates ==
    ASSUME [FundingNext]_fvars
    PROVE  UpsertFunding \/ Same
  BY DEF FundingNext, fvars, Same, tables, Open, UpsertFundingMetadata, UpsertFundingList, ReadFunding,
         start_funding, stop_funding, ReconstructFunding, upsert_funding_metadata, upsert_funding_list,
         FThrows

\* A span for every pair, in the table and in the cache.
LEMMA SpansStep ==
    ASSUME FInv, [FundingNext]_fvars
    PROVE  SpansOf(f_metadata)' /\ SpansOf(f_cached)'
  <1>1. SpansOf(f_metadata) /\ SpansOf(f_cached)
    BY DEF FInv, FundingTypeOK
  <1>2. CASE Open
    <2>1. f_metadata' = f_metadata
      BY <1>2 DEF Open, start_funding, stop_funding, ReconstructFunding, FThrows, tables
    <2>2. f_cached' = f_cached \/ f_cached' = NoRecords \/ f_cached' = get_all_fixed_map(f_metadata, f_cached)
      BY <1>2 DEF Open, start_funding, stop_funding, ReconstructFunding
    <2>3. SpansOf(NoRecords) /\ SpansOf(get_all_fixed_map(f_metadata, f_cached))
      BY <1>1 DEF SpansOf, NoRecords, get_all_fixed_map
    <2> QED BY <1>1, <2>1, <2>2, <2>3
  <1>3. CASE UpsertFundingMetadata
    <2>1. PICK p \in Pair, r \in FundingRecords : upsert_funding_metadata(p, r)
      BY <1>3 DEF UpsertFundingMetadata
    <2>2. r \in Spans
      BY SpanIs DEF FundingRecords
    <2>3. /\ f_metadata' = f_metadata \/ f_metadata' = With(f_metadata, p, r)
          /\ f_cached' = f_cached \/ f_cached' = With(f_cached, p, r)
      BY <2>1 DEF upsert_funding_metadata, FThrows, tables
    <2> QED BY <1>1, <2>2, <2>3, WithSpans
  <1>4. CASE UpsertFundingList
    <2>1. PICK some \in SUBSET Pair : \E list \in [some -> FundingRecords] : upsert_funding_list(list)
      BY <1>4 DEF UpsertFundingList
    <2>2. PICK list \in [some -> FundingRecords] : upsert_funding_list(list)
      BY <2>1
    <2>3. /\ f_metadata' = f_metadata \/ \E taken \in SUBSET some : f_metadata' = Overlaid(f_metadata, list, taken)
          /\ \E taken \in SUBSET some : f_cached' = Overlaid(f_cached, list, taken)
      BY <2>2 DEF upsert_funding_list, FThrows, tables
    <2> QED BY <1>1, <2>3, OverlaidSpans
  <1>5. CASE UpsertFunding
    <2>1. PICK p \in Pair, batch \in RateBatches :
              LET span == NewSpan(p, Head(batch).time, Last(batch).time)
              IN  /\ f_metadata' = f_metadata \/ f_metadata' = With(f_metadata, p, span)
                  /\ f_cached' = f_cached \/ f_cached' = With(f_cached, p, span)
      BY <1>5, UpsertFundingIs DEF Stores
    <2>2. NewSpan(p, Head(batch).time, Last(batch).time) \in Spans
      BY <1>1, FundingBatch, NewSpanIs
    <2> QED BY <1>1, <2>1, <2>2, WithSpans
  <1>6. CASE ReadFunding
    BY <1>1, <1>6 DEF ReadFunding, tables
  <1>7. CASE UNCHANGED fvars
    BY <1>1, <1>7 DEF fvars
  <1> QED BY <1>2, <1>3, <1>4, <1>5, <1>6, <1>7 DEF FundingNext

LEMMA FInvStep ==
    ASSUME FInv, [FundingNext]_fvars
    PROVE  FInv'
  <1>1. SpansOf(f_metadata)' /\ SpansOf(f_cached)'
    BY SpansStep
  <1>2. CASE Same
    BY <1>1, <1>2 DEF Same, FInv, FundingTypeOK, KeptRates, IsTable
  <1>3. ASSUME NEW p \in Pair, NEW batch \in RateBatches, Stores(p, batch)
        PROVE  FInv'
    <2> DEFINE H == HoursOfRates(batch)
               add == {<<p, h>> : h \in H}
    <2>1. KeptRates' /\ IsTable(f_rates)'
      BY <1>3, StoredRates DEF Stores
    <2>2. GivesRates(f_given', p, batch)
      BY <1>3, NowGivenIs DEF Stores
    <2>3. /\ DOMAIN f_given' = DOMAIN f_given \cup add
          /\ \A h \in H : f_given'[<<p, h>>] = RateOf(batch, h)
          /\ \A x \in DOMAIN f_given : (\A h \in H : x # <<p, h>>) => f_given'[x] = f_given[x]
      BY <2>2 DEF GivesRates
    <2>4. /\ DOMAIN f_given \subseteq Pair \X Nat /\ IsFiniteSet(DOMAIN f_given)
          /\ (\A x \in DOMAIN f_given : f_given[x].time \in Nat) /\ IsTable(f_rates)
      BY DEF FInv, FundingTypeOK
    <2>5. H \subseteq Nat /\ IsFiniteSet(H)
      BY HoursAre
    <2>6. add \subseteq Pair \X Nat
      BY <2>5
    <2>7. IsFiniteSet(add)
      <3> DEFINE f == [h \in H |-> <<p, h>>]
      <3>1. f \in [H -> add] /\ \A x \in add : \E h \in H : f[h] = x
        OBVIOUS
      <3> HIDE DEF f, H, add
      <3>2. f \in Surjection(H, add)
        BY <3>1 DEF Surjection
      <3> QED BY <2>5, <3>2, FS_Surjection
    <2>8. IsFiniteSet(DOMAIN f_given \cup add)
      BY <2>4, <2>7, FS_Union
    <2>9. DOMAIN f_rates \subseteq Nat
      BY <2>4, FundingKeys DEF FInv, KeptRates
    <2>10. \A h \in H : RateOf(batch, h).time \in Nat
      BY <1>3, <2>4, <2>9, LastIsLatest DEF Stores
    <2>11. ASSUME NEW x \in DOMAIN f_given' PROVE f_given'[x].time \in Nat
      <3>1. CASE \E h \in H : x = <<p, h>>
        BY <2>3, <2>10, <3>1
      <3>2. CASE \A h \in H : x # <<p, h>>
        <4>1. x \in DOMAIN f_given
          BY <2>3, <3>2
        <4> QED BY <2>3, <2>4, <3>2, <4>1
      <3> QED BY <3>1, <3>2
    <2>12. DOMAIN f_given' \subseteq Pair \X Nat /\ IsFiniteSet(DOMAIN f_given')
      <3> HIDE DEF add, H
      <3> QED BY <2>3, <2>4, <2>6, <2>8
    <2>13. FundingTypeOK'
      BY <1>1, <2>1, <2>11, <2>12 DEF FundingTypeOK
    <2> QED BY <2>1, <2>13 DEF FInv
  <1>4. CASE UpsertFunding
    BY <1>2, <1>3, <1>4, UpsertFundingIs
  <1> QED BY <1>2, <1>4, OtherCallsKeepRates

LEMMA FInvInit ==
    ASSUME FundingInit
    PROVE  FInv
  <1>1. DOMAIN NoRecords = {} /\ NoRecords = [k \in DOMAIN NoRecords |-> NoRecords[k]]
    BY DEF NoRecords
  <1>2. IsFiniteSet({})
    BY FS_EmptySet
  <1> QED BY <1>1, <1>2 DEF FundingInit, FInv, FundingTypeOK, KeptRates, SpansOf, IsTable

LEMMA StoringAgrees ==
    ASSUME FundingAgree, NEW p, NEW batch, Stores(p, batch)
    PROVE  FundingAgree'
  <1> DEFINE r == NewSpan(p, Head(batch).time, Last(batch).time)
  <1>1. /\ f_cached' = With(f_cached, p, r)
        /\ f_metadata' = IF p \in DOMAIN f_cached /\ f_cached[p] = r THEN f_metadata ELSE With(f_metadata, p, r)
    BY DEF Stores
  <1> HIDE DEF r
  <1>2. ASSUME NEW k \in DOMAIN f_metadata' PROVE k \in DOMAIN f_cached' /\ f_cached'[k] = f_metadata'[k]
    <2>1. CASE k = p
      <3>1. k \in DOMAIN f_cached' /\ f_cached'[k] = r
        BY <1>1, <2>1 DEF With
      <3>2. CASE p \in DOMAIN f_cached /\ f_cached[p] = r
        BY <1>1, <1>2, <2>1, <3>1, <3>2 DEF FundingAgree
      <3>3. CASE ~(p \in DOMAIN f_cached /\ f_cached[p] = r)
        <4>1. f_metadata'[k] = r
          BY <1>1, <2>1, <3>3 DEF With
        <4> QED BY <3>1, <4>1
      <3> QED BY <3>2, <3>3
    <2>2. CASE k # p
      <3>1. k \in DOMAIN f_metadata /\ f_metadata'[k] = f_metadata[k]
        BY <1>1, <1>2, <2>2 DEF With
      <3>2. k \in DOMAIN f_cached /\ f_cached[k] = f_metadata[k]
        BY <3>1 DEF FundingAgree
      <3>3. k \in DOMAIN f_cached' /\ f_cached'[k] = f_cached[k]
        BY <1>1, <2>2, <3>2 DEF With
      <3> QED BY <3>1, <3>2, <3>3
    <2> QED BY <2>1, <2>2
  <1> QED BY <1>2 DEF FundingAgree

LEMMA CacheFollows ==
    ASSUME [FundingNext]_fvars
    PROVE  CacheFollowsFunding
  <1> SUFFICES ASSUME FundingAgree, f_handles = "open", f_last'.ok,
                      f_last'.call \notin {"construct", "upsert_metadata"}
               PROVE  FundingAgree'
    BY DEF CacheFollowsFunding
  <1>1. CASE start_funding
    <2>1. f_cached' = get_all_fixed_map(f_metadata, f_cached) /\ f_metadata' = f_metadata
      BY <1>1 DEF start_funding, FThrows, tables
    <2> QED BY <2>1 DEF FundingAgree, get_all_fixed_map
  <1>2. CASE stop_funding
    BY <1>2 DEF stop_funding, FundingAgree, FThrows, tables
  <1>3. CASE ReconstructFunding
    BY <1>3 DEF ReconstructFunding, FReturns
  <1>4. ASSUME NEW p, NEW r, upsert_funding_metadata(p, r) PROVE FundingAgree'
    BY <1>4 DEF upsert_funding_metadata, FReturns, FThrows
  <1>5. ASSUME NEW list, upsert_funding_list(list) PROVE FundingAgree'
    <2>1. PICK taken : /\ f_metadata' = Overlaid(f_metadata, list, taken)
                       /\ f_cached' = Overlaid(f_cached, list, taken)
      BY <1>5 DEF upsert_funding_list, FThrows
    <2> QED BY <2>1 DEF FundingAgree, Overlaid
  <1>6. CASE UpsertFunding
    <2>1. \E p \in Pair, batch \in RateBatches : Stores(p, batch)
      BY <1>6, UpsertFundingIs
    <2> QED BY <2>1, StoringAgrees
  <1>7. CASE ReadFunding
    BY <1>7 DEF ReadFunding, tables, FundingAgree
  <1>8. CASE UNCHANGED fvars
    BY <1>8 DEF fvars, FundingAgree
  <1> QED BY <1>1, <1>2, <1>3, <1>4, <1>5, <1>6, <1>7, <1>8
          DEF FundingNext, Open, UpsertFundingMetadata, UpsertFundingList

LEMMA OnlyStoringReports ==
    ASSUME FundingNext, f_last'.call = "upsert_funding", f_last'.ok
    PROVE  \E p \in Pair, batch \in RateBatches : Stores(p, batch)
  <1>1. ~Open
    BY DEF Open, start_funding, stop_funding, ReconstructFunding, FReturns, FThrows
  <1>2. ~UpsertFundingMetadata
    BY DEF UpsertFundingMetadata, upsert_funding_metadata, FReturns, FThrows
  <1>3. ~UpsertFundingList
    <2>1. ASSUME NEW list, upsert_funding_list(list) PROVE FALSE
      <3>1. FReturns("upsert_list") \/ FThrows("upsert_list")
        BY <2>1 DEF upsert_funding_list
      <3> QED BY <3>1 DEF FReturns, FThrows
    <2> QED BY <2>1 DEF UpsertFundingList
  <1>4. ASSUME NEW call, NEW result, NEW map, call # "upsert_funding", ReadsTable(call, result, map) PROVE FALSE
    BY <1>4 DEF ReadsTable, Gave
  <1>5. ~ReadFunding
    <2>1. ASSUME NEW p, fetch_one(p) \/ get_cached_one(p) PROVE FALSE
      BY <1>4, <2>1 DEF fetch_one, get_cached_one, Gave
    <2>2. ASSUME NEW map, fetch_metadata(map) \/ get_cached_metadata(map) PROVE FALSE
      BY <1>4, <2>2 DEF fetch_metadata, get_cached_metadata, Gave
    <2> QED BY <2>1, <2>2 DEF ReadFunding
  <1> QED BY <1>1, <1>2, <1>3, <1>5, UpsertFundingIs DEF FundingNext

LEMMA EndFollows ==
    ASSUME FInv, FundingNext
    PROVE  EndFollowsRates
  <1> SUFFICES ASSUME f_last'.call = "upsert_funding", f_last'.ok
               PROVE  \A p \in {f_last'.pair} :
                          SpanCovers(p) /\ FundingAgree /\ f_metadata[p].start_ts <= f_last'.start
                            => SpanCovers(p)'
    BY DEF EndFollowsRates
  <1>1. PICK p \in Pair, batch \in RateBatches : Stores(p, batch)
    BY OnlyStoringReports
  <1> DEFINE s == Head(batch).time
             e == Last(batch).time
             r == NewSpan(p, s, e)
             H == HoursOfRates(batch)
  <1>2. f_last'.pair = p /\ f_last'.start = s
    BY <1>1 DEF Stores
  <1>3. SUFFICES ASSUME SpanCovers(p), FundingAgree, f_metadata[p].start_ts <= s
                 PROVE  SpanCovers(p)'
    BY <1>2
  <1>4. /\ p \in DOMAIN f_metadata /\ p \in DOMAIN f_cached /\ f_cached[p] = f_metadata[p]
        /\ \A x \in DOMAIN f_given : x[1] = p => f_given[x].time <= f_metadata[p].end_ts
    BY <1>3 DEF SpanCovers, FundingAgree
  <1>5. s \in Nat /\ e \in Nat /\ SpansOf(f_cached)
    BY FundingBatch DEF FInv, FundingTypeOK
  <1>6. r \in Spans /\ r.end_ts >= e /\ r.end_ts >= f_metadata[p].end_ts
        /\ r.end_ts \in Nat /\ f_metadata[p].end_ts \in Nat
    <2> HIDE DEF s, e
    <2>1. r \in Spans /\ r.end_ts >= e /\ r.end_ts >= f_cached[p].end_ts
      BY <1>3, <1>4, <1>5, NewSpanIs
    <2> HIDE DEF r
    <2> QED BY <1>4, <1>5, <2>1 DEF SpansOf, Spans
  <1>7. p \in DOMAIN f_metadata' /\ f_metadata'[p] = r
    <2>1. f_metadata' = IF p \in DOMAIN f_cached /\ f_cached[p] = r THEN f_metadata ELSE With(f_metadata, p, r)
      BY <1>1 DEF Stores
    <2> HIDE DEF r
    <2> QED BY <1>4, <2>1 DEF With
  <1>8. GivesRates(f_given', p, batch)
    BY <1>1, NowGivenIs DEF Stores
  <1>9. \A h \in H : RateOf(batch, h).time \in Nat /\ RateOf(batch, h).time <= e
    <2>1. DOMAIN f_rates \subseteq Nat /\ IsTable(f_rates)
      BY FundingKeys DEF FInv, KeptRates, FundingTypeOK
    <2> QED BY <1>1, <2>1, LastIsLatest DEF Stores
  <1> HIDE DEF r, e, s, H
  <1>10. ASSUME NEW x \in DOMAIN f_given', x[1] = p PROVE f_given'[x].time <= r.end_ts
    <2>1. CASE \E h \in H : x = <<p, h>>
      <3>1. PICK h \in H : x = <<p, h>>
        BY <2>1
      <3>2. f_given'[x] = RateOf(batch, h)
        BY <1>8, <3>1 DEF GivesRates, H
      <3>3. RateOf(batch, h).time \in Nat /\ RateOf(batch, h).time <= e
        BY <1>9
      <3> QED BY <1>5, <1>6, <3>2, <3>3
    <2>2. CASE \A h \in H : x # <<p, h>>
      <3>1. x \in DOMAIN f_given /\ f_given'[x] = f_given[x]
        BY <1>8, <2>2 DEF GivesRates, H
      <3>2. f_given[x].time \in Nat
        BY <3>1 DEF FInv, FundingTypeOK
      <3>3. f_given[x].time <= f_metadata[p].end_ts
        BY <1>4, <1>10, <3>1
      <3> QED BY <1>6, <3>1, <3>2, <3>3
    <2> QED BY <2>1, <2>2
  <1> QED BY <1>7, <1>10 DEF SpanCovers

\* Through faults, restarts and rewritten hours, the table of rates holds the
\* last rate given for each hour and nothing else, the cache follows the table
\* of metadata, and the end of a span stays behind its rates.
THEOREM FundingFollowsCallsHolds == FundingSpec => FundingFollowsCalls
  <1>1. FundingInit => FInv
    BY FInvInit
  <1>2. FInv /\ [FundingNext]_fvars => FInv'
    BY FInvStep
  <1>3. FInv => RatesAreKept
    BY RatesAreKeptIn
  <1>4. FInv /\ [FundingNext]_fvars => [CacheFollowsFunding /\ EndFollowsRates]_fvars
    BY CacheFollows, EndFollows
  <1> QED BY <1>1, <1>2, <1>3, <1>4, PTL DEF FundingSpec, FundingFollowsCalls

-----------------------------------------------------------------------------
(* TickDB: hours, keys and segments                                        *)

\* The number an hour has in a key.
KeyForm(call, h) == IF call = "upsert_with_config" THEN h * MsPerHour ELSE h

LEMMA KeyHourIs ==
    ASSUME NEW call, NEW t \in Nat
    PROVE  KeyHour(call, t) = KeyForm(call, ms_to_hour(t)) /\ KeyHour(call, t) \in Nat
           /\ KeyForm(call, ms_to_hour(t)) \in KeyForms(ms_to_hour(t))
  <1> DEFINE d == MsPerHour
             q == t \div d
  <1>1. d \in Nat \ {0}
    BY HourAssumption
  <1>2. q \in Nat /\ t - (t % d) = q * d /\ q * d \in Nat
    <2>1. q \in Nat
      BY <1>1, Division
    <2>2. t = d * q + (t % d)
      BY <1>1
    <2>3. d * q = q * d /\ q * d \in Nat /\ t % d \in Nat
      BY <1>1, <2>1
    <2> HIDE DEF q
    <2> QED BY <2>1, <2>2, <2>3
  <1> QED BY <1>2 DEF KeyHour, KeyForm, KeyForms, start_of_hour_ms, ms_to_hour

\* A key holds its instrument, and its hour but for the bits that do not fit.
LEMMA TickKeys ==
    ASSUME NEW i \in Inst, NEW j \in Inst, NEW u \in Nat, NEW v \in Nat
    PROVE  /\ generate_tick_key(i, u) \in Nat
           /\ generate_tick_key(i, u) = generate_tick_key(j, v) => i = j /\ u % KeyHours = v % KeyHours
  <1> DEFINE p == u % KeyHours
             q == v % KeyHours
             n == Instruments
  <1>1. p \in Nat /\ q \in Nat /\ n \in Nat \ {0} /\ i \in 0..(n - 1) /\ j \in 0..(n - 1)
    BY HourAssumption, InstrumentsAssumption DEF Inst
  <1>2. generate_tick_key(i, u) = p * n + i /\ generate_tick_key(j, v) = q * n + j
    BY DEF generate_tick_key
  <1> HIDE DEF p, q, n
  <1>3. (p * n + i) \div n = p /\ (p * n + i) % n = i /\ (q * n + j) \div n = q /\ (q * n + j) % n = j
    BY <1>1, QuotientIs
  <1>4. p * n + i \in Nat
    <2>1. p * n \in Nat
      BY <1>1
    <2> QED BY <1>1, <2>1
  <1> QED BY <1>2, <1>3, <1>4 DEF p, q

Ticks == UNION {{b[n] : n \in DOMAIN b} : b \in Batches}

\* A segment is a nonempty list of ticks of its hour.
LEMMA SegmentIs ==
    ASSUME NEW batch \in Batches, NEW h \in HoursOf(batch)
    PROVE  /\ SegmentOf(batch, h) \in Seq(Ticks)
           /\ SegmentOf(batch, h)[1].time \in Nat /\ ms_to_hour(SegmentOf(batch, h)[1].time) = h
  <1> DEFINE L == Len(batch)
             own == {i \in DOMAIN batch : ms_to_hour(batch[i].time) = h}
             a == Min(own)
             z == Max(own)
  <1>1. L \in Nat /\ DOMAIN batch = 1..L /\ \A n \in 1..L : batch[n].time \in Nat
    BY BatchIs
  <1>2. own # {} /\ own \subseteq 0..L /\ own \subseteq Nat
    BY <1>1 DEF HoursOf
  <1>3. batch \in Seq(Ticks)
    <2>1. batch = [n \in 1..L |-> batch[n]]
      BY BatchesAssumption
    <2>2. \A n \in 1..L : batch[n] \in Ticks
      BY <1>1 DEF Ticks
    <2>3. batch \in [1..L -> Ticks]
      BY <2>1, <2>2
    <2> QED BY <1>1, <2>3
  <1>4. SegmentOf(batch, h) = SubSeq(batch, a, z)
    BY DEF SegmentOf
  <1> HIDE DEF own
  <1>5. a \in own /\ z \in own /\ a <= z
    <2>1. \E n \in own : \A m \in own : n <= m
      BY <1>2, LeastNumber
    <2>2. \E n \in own : \A m \in own : n >= m
      BY <1>1, <1>2, GreatestNumber
    <2>3. a \in own /\ \A m \in own : a <= m
      BY <2>1 DEF Min
    <2>4. z \in own
      BY <2>2 DEF Max
    <2> QED BY <2>3, <2>4
  <1> HIDE DEF a, z
  <1>6. a \in 1..L /\ z \in 1..L
    BY <1>1, <1>5 DEF own
  <1> HIDE DEF L
  <1>7. SubSeq(batch, a, z) = [k \in 1..(1 + z - a) |-> batch[k + a - 1]]
    BY <1>6
  <1>8. SubSeq(batch, a, z) \in Seq(Ticks) /\ SubSeq(batch, a, z)[1] = batch[a]
    <2>1. 1 + z - a \in Nat /\ 1 \in 1..(1 + z - a) /\ 1 + a - 1 = a
      BY <1>1, <1>5, <1>6
    <2>2. \A k \in 1..(1 + z - a) : batch[k + a - 1] \in Ticks
      <3>1. \A k \in 1..(1 + z - a) : k + a - 1 \in 1..L
        BY <1>1, <1>6
      <3>2. \A m \in 1..L : batch[m] \in Ticks
        BY <1>1 DEF Ticks
      <3> QED BY <3>1, <3>2
    <2>3. [k \in 1..(1 + z - a) |-> batch[k + a - 1]] \in Seq(Ticks)
      BY <2>1, <2>2
    <2> QED BY <1>7, <2>1, <2>3
  <1>9. ms_to_hour(batch[a].time) = h /\ batch[a].time \in Nat
    BY <1>1, <1>5, <1>6 DEF own
  <1> QED BY <1>4, <1>8, <1>9

-----------------------------------------------------------------------------
(* TickDB: putting the segments of a batch                                 *)

\* The segment, the key and the block of the n-th tick of a batch.
HourAt(batch, n) == ms_to_hour(batch[n].time)
KeyAt(call, i, batch, n) == generate_tick_key(i, KeyForm(call, HourAt(batch, n)))
BlockAt(batch, config, n) == Block(SegmentOf(batch, HourAt(batch, n)), config)
Blocks(batch, config) == {BlockAt(batch, config, n) : n \in 1..Len(batch)}

\* The state of the loop.
Written(V, B) == [ok : BOOLEAN, table : TablesOver(V), output : Seq(B)]

\* The record n of the batch is put: its last block is the segment.
PutsBlock(V, B, u, t, k, block) ==
    /\ u \in Written(V, B)
    /\ u.ok => /\ t.ok /\ DOMAIN u.table = DOMAIN t.table \cup {k}
               /\ Last(u.table[k]) = block
               /\ \A x \in DOMAIN t.table : x # k => u.table[x] = t.table[x]

LEMMA SerializeIs ==
    ASSUME NEW B, NEW output \in Seq(B), NEW segment, NEW config, Block(segment, config) \in B
    PROVE  serialize(segment, config, output) \in Seq(B)
           /\ Last(serialize(segment, config, output)) = Block(segment, config)
  <1> DEFINE b == Block(segment, config)
  <1>1. b \in B
    OBVIOUS
  <1> HIDE DEF b
  <1>2. <<b>> \in Seq(B) /\ Last(<<b>>) = b
    BY <1>1 DEF Last
  <1>3. Append(output, b) \in Seq(B) /\ Last(Append(output, b)) = b
    <2>1. Append(output, b) \in Seq(B) /\ Len(Append(output, b)) = Len(output) + 1
          /\ Append(output, b)[Len(output) + 1] = b
      BY <1>1
    <2> QED BY <2>1 DEF Last
  <1> QED BY <1>2, <1>3 DEF serialize, b

LEMMA PutSegmentIs ==
    ASSUME NEW V, NEW B, Seq(B) \subseteq V, NEW t \in Written(V, B), NEW call, NEW i \in Inst,
           NEW batch \in Batches, NEW config, NEW n \in 1..Len(batch), NEW batch_write,
           BlockAt(batch, config, n) \in B
    PROVE  PutsBlock(V, B, PutSegment(t, call, i, SegmentOf(batch, HourAt(batch, n)), config, batch_write),
                     t, KeyAt(call, i, batch, n), BlockAt(batch, config, n))
  <1> DEFINE segment == SegmentOf(batch, HourAt(batch, n))
             value == serialize(segment, config, t.output)
             k == KeyAt(call, i, batch, n)
             u == PutSegment(t, call, i, segment, config, batch_write)
             p == put_raw_key(t, k, value, batch_write)
  <1>1. HourAt(batch, n) \in HoursOf(batch) /\ batch[n].time \in Nat
    BY BatchIs DEF HourAt, HoursOf
  <1>2. segment[1].time \in Nat /\ ms_to_hour(segment[1].time) = HourAt(batch, n)
    BY <1>1, SegmentIs
  <1>3. generate_tick_key(i, KeyHour(call, segment[1].time)) = k /\ k \in Nat
    <2>1. KeyHour(call, segment[1].time) = KeyForm(call, HourAt(batch, n))
          /\ KeyHour(call, segment[1].time) \in Nat
      BY <1>2, KeyHourIs
    <2> QED BY <2>1, TickKeys DEF KeyAt
  <1>4. u = [p EXCEPT !.output = value]
    BY <1>3 DEF PutSegment
  <1>5. t.ok \in BOOLEAN /\ t.table \in TablesOver(V) /\ t.output \in Seq(B)
        /\ t = [ok |-> t.ok, table |-> t.table, output |-> t.output]
    BY DEF Written
  <1>6. value \in Seq(B) /\ value \in V /\ Last(value) = BlockAt(batch, config, n)
    BY <1>5, SerializeIs DEF BlockAt
  <1> HIDE DEF value, k, u, p, segment
  <1>7. CASE t.ok /\ Puttable(t.table, k, batch_write)
    <2> DEFINE w == With(t.table, k, value)
    <2>1. Extends(V, w, t.table, k, value)
      BY <1>3, <1>5, <1>6, WithIs
    <2>2. p = [t EXCEPT !.table = w]
      BY <1>7 DEF p, put_raw_key
    <2> HIDE DEF w
    <2>3. w \in TablesOver(V)
      BY <2>1 DEF Extends
    <2>4. u = [ok |-> t.ok, table |-> w, output |-> value]
      BY <1>4, <1>5, <2>2
    <2>5. u \in Written(V, B) /\ u.ok = t.ok /\ u.table = w
      BY <1>5, <1>6, <2>3, <2>4 DEF Written
    <2> QED BY <1>6, <1>7, <2>1, <2>5 DEF Extends, PutsBlock, k, u, segment
  <1>8. CASE ~(t.ok /\ Puttable(t.table, k, batch_write))
    <2>1. p = [t EXCEPT !.ok = FALSE]
      BY <1>8 DEF p, put_raw_key
    <2>2. u = [ok |-> FALSE, table |-> t.table, output |-> value]
      BY <1>4, <1>5, <2>1, Zenon
    <2>3. u \in Written(V, B) /\ u.ok = FALSE
      BY <1>5, <1>6, <2>2 DEF Written
    <2> QED BY <2>3 DEF PutsBlock, u, segment
  <1> QED BY <1>7, <1>8

\* Hours that are apart have different keys, in whichever form.
LEMMA KeysApart ==
    ASSUME HoursApart, NEW i \in Inst, NEW j \in Inst, NEW h \in HoursInUse \cap Nat, NEW g \in HoursInUse \cap Nat,
           NEW u \in KeyForms(h), NEW v \in KeyForms(g), generate_tick_key(i, u) = generate_tick_key(j, v)
    PROVE  i = j /\ h = g
  <1>1. u \in Nat /\ v \in Nat
    BY HourAssumption DEF KeyForms
  <1>2. i = j /\ u % KeyHours = v % KeyHours
    BY <1>1, TickKeys
  <1> QED BY <1>2 DEF HoursApart

LEMMA HourAtIs ==
    ASSUME NEW batch \in Batches, NEW n \in 1..Len(batch), NEW call, NEW i \in Inst
    PROVE  /\ HourAt(batch, n) \in HoursOf(batch) /\ HourAt(batch, n) \in HoursInUse \cap Nat
           /\ KeyForm(call, HourAt(batch, n)) \in KeyForms(HourAt(batch, n))
           /\ KeyAt(call, i, batch, n) \in Nat
  <1>1. DOMAIN batch = 1..Len(batch) /\ batch[n].time \in Nat
    BY BatchIs
  <1>2. HourAt(batch, n) \in HoursOf(batch) /\ HourAt(batch, n) \in Nat
    BY <1>1, HourIs DEF HourAt, HoursOf
  <1>3. KeyForm(call, HourAt(batch, n)) \in KeyForms(HourAt(batch, n)) /\ KeyForm(call, HourAt(batch, n)) \in Nat
    BY <1>1, KeyHourIs DEF HourAt
  <1> QED BY <1>2, <1>3, TickKeys DEF HoursInUse, KeyAt

\* The table after n ticks: each of their hours has its segment as the last
\* block, and the other records are as they were.
WrittenSoFar(call, i, batch, config, n, table) ==
    /\ DOMAIN table = DOMAIN blobs \cup {KeyAt(call, i, batch, m) : m \in 1..n}
    /\ \A k \in DOMAIN blobs : (\A m \in 1..n : KeyAt(call, i, batch, m) # k) => table[k] = blobs[k]
    /\ \A m \in 1..n : Last(table[KeyAt(call, i, batch, m)]) = BlockAt(batch, config, m)

LEMMA WrittenStep ==
    ASSUME HoursApart, NEW call, NEW i \in Inst, NEW batch \in Batches, NEW config, NEW n \in 1..Len(batch),
           NEW table, NEW after, WrittenSoFar(call, i, batch, config, n - 1, table),
           \/ n # 1 /\ HourAt(batch, n) = HourAt(batch, n - 1) /\ after = table
           \/ /\ DOMAIN after = DOMAIN table \cup {KeyAt(call, i, batch, n)}
              /\ Last(after[KeyAt(call, i, batch, n)]) = BlockAt(batch, config, n)
              /\ \A x \in DOMAIN table : x # KeyAt(call, i, batch, n) => after[x] = table[x]
    PROVE  WrittenSoFar(call, i, batch, config, n, after)
  <1> DEFINE key(m) == KeyAt(call, i, batch, m)
             block(m) == BlockAt(batch, config, m)
             l == n - 1
  <1>1. /\ l \in Nat /\ 1..n = 1..l \cup {n} /\ n \notin 1..l /\ (n # 1 => l \in 1..l)
        /\ \A m \in 1..n : m \in 1..Len(batch)
    BY BatchIs
  <1>2. /\ DOMAIN table = DOMAIN blobs \cup {key(m) : m \in 1..l}
        /\ \A k \in DOMAIN blobs : (\A m \in 1..l : key(m) # k) => table[k] = blobs[k]
        /\ \A m \in 1..l : Last(table[key(m)]) = block(m)
    BY DEF WrittenSoFar
  <1>3. ASSUME NEW m \in 1..n, key(m) = key(n) PROVE block(m) = block(n)
    <2>1. HourAt(batch, m) = HourAt(batch, n)
      <3> DEFINE h == HourAt(batch, m)
                 g == HourAt(batch, n)
                 u == KeyForm(call, h)
                 v == KeyForm(call, g)
      <3>1. h \in HoursInUse \cap Nat /\ g \in HoursInUse \cap Nat /\ u \in KeyForms(h) /\ v \in KeyForms(g)
        BY <1>1, HourAtIs
      <3>2. generate_tick_key(i, u) = generate_tick_key(i, v)
        BY <1>3 DEF KeyAt
      <3> HIDE DEF h, g, u, v
      <3>3. h = g
        BY <3>1, <3>2, KeysApart
      <3> QED BY <3>3 DEF h, g
    <2> QED BY <2>1 DEF BlockAt
  <1>4. CASE n # 1 /\ HourAt(batch, n) = HourAt(batch, n - 1) /\ after = table
    <2>1. key(n) = key(l) /\ block(n) = block(l) /\ l \in 1..l
      BY <1>1, <1>4 DEF KeyAt, BlockAt
    <2> HIDE DEF key, block, l
    <2>2. {key(m) : m \in 1..n} = {key(m) : m \in 1..l}
      BY <1>1, <2>1
    <2>3. \A m \in 1..n : Last(after[key(m)]) = block(m)
      BY <1>1, <1>2, <1>4, <2>1
    <2> QED BY <1>1, <1>2, <1>4, <2>2, <2>3 DEF WrittenSoFar, key, block
  <1>5. CASE /\ DOMAIN after = DOMAIN table \cup {key(n)} /\ Last(after[key(n)]) = block(n)
             /\ \A x \in DOMAIN table : x # key(n) => after[x] = table[x]
    <2> HIDE DEF key, block, l
    <2>1. {key(m) : m \in 1..n} = {key(m) : m \in 1..l} \cup {key(n)}
      BY <1>1
    <2>2. ASSUME NEW m \in 1..n PROVE Last(after[key(m)]) = block(m)
      <3>1. CASE key(m) = key(n)
        BY <1>3, <1>5, <3>1
      <3>2. CASE key(m) # key(n)
        <4>1. m \in 1..l
          BY <1>1, <3>2
        <4> QED BY <1>2, <1>5, <3>2, <4>1
      <3> QED BY <3>1, <3>2
    <2>3. ASSUME NEW k \in DOMAIN blobs, \A m \in 1..n : key(m) # k PROVE after[k] = blobs[k]
      <3>1. k # key(n) /\ \A m \in 1..l : key(m) # k
        BY <1>1, <2>3
      <3>2. k \in DOMAIN table
        BY <1>2
      <3> QED BY <1>2, <1>5, <3>1, <3>2
    <2>4. DOMAIN after = DOMAIN blobs \cup {key(m) : m \in 1..n}
      BY <1>2, <1>5, <2>1
    <2> QED BY <2>2, <2>3, <2>4 DEF WrittenSoFar, key, block
  <1> QED BY <1>4, <1>5

ValuesOf(table) == {table[k] : k \in DOMAIN table}

\* A loop that succeeds has put every segment of the batch.
LEMMA PutSegmentsIs ==
    ASSUME HoursApart, NEW call, NEW i \in Inst, NEW batch \in Batches, NEW config,
           DOMAIN blobs \subseteq Nat, IsTable(blobs), PutSegments(call, i, batch, config).ok
    PROVE  /\ WrittenSoFar(call, i, batch, config, Len(batch), PutSegments(call, i, batch, config).table)
           /\ IsTable(PutSegments(call, i, batch, config).table)
           /\ ValuesOf(PutSegments(call, i, batch, config).table) \subseteq ValuesOf(blobs) \cup Seq(Blocks(batch, config))
  <1> DEFINE L == Len(batch)
             B == Blocks(batch, config)
             V == ValuesOf(blobs) \cup Seq(B)
             S == Written(V, B)
             big == \E n \in 2..L : Begins(batch, n)
             c == [ok |-> TRUE, table |-> blobs, output |-> <<>>]
             segment(n) == SegmentOf(batch, HourAt(batch, n))
             next(t, n) == IF ~Begins(batch, n) THEN t ELSE PutSegment(t, call, i, segment(n), config, big)
             step == [x \in S \X (1..L) |-> next(x[1], x[2])]
             put[n \in 0..L] ==
                IF n = 0 THEN c
                ELSE IF ~Begins(batch, n) THEN put[n - 1]
                ELSE PutSegment(put[n - 1], call, i, SegmentOf(batch, ms_to_hour(batch[n].time)), config, big)
  <1>1. L \in Nat \ {0}
    BY BatchIs
  <1>2. Seq(B) \subseteq V /\ \A n \in 1..L : BlockAt(batch, config, n) \in B
    BY DEF Blocks
  <1>3. blobs \in TablesOver(V)
    <2>1. blobs \in [DOMAIN blobs -> V]
      <3>1. \A k \in DOMAIN blobs : blobs[k] \in V
        BY DEF ValuesOf
      <3> HIDE DEF V
      <3> QED BY <3>1 DEF IsTable
    <2>2. DOMAIN blobs \in SUBSET Int
      OBVIOUS
    <2> QED BY <2>1, <2>2 DEF TablesOver
  <1> HIDE DEF V, B
  <1>4. c \in S
    BY <1>3 DEF Written
  <1>5. ASSUME NEW t \in S, NEW n \in 1..L
        PROVE  /\ next(t, n) \in S
               /\ Begins(batch, n) => PutsBlock(V, B, next(t, n), t, KeyAt(call, i, batch, n), BlockAt(batch, config, n))
    <2>1. PutsBlock(V, B, PutSegment(t, call, i, segment(n), config, big), t,
                    KeyAt(call, i, batch, n), BlockAt(batch, config, n))
      BY <1>2, PutSegmentIs
    <2> QED BY <2>1 DEF PutsBlock
  <1> HIDE DEF S
  <1>6. IsStep(step, L, S)
    <2>1. ASSUME NEW x \in S \X (1..L) PROVE next(x[1], x[2]) \in S
      <3>1. x[1] \in S /\ x[2] \in 1..L
        OBVIOUS
      <3> HIDE DEF next
      <3> QED BY <1>5, <3>1
    <2> HIDE DEF next
    <2>2. step \in [S \X (1..L) -> S]
      BY <2>1
    <2> QED BY <2>2 DEF IsStep
  <1>7. PutSegments(call, i, batch, config) = put[L]
    BY DEF PutSegments
  <1> HIDE DEF c, step
  <1>8. \E f : Iterates(f, L, S, c, step)
    BY <1>1, <1>4, <1>6, RecursiveFunction
  <1>9. PICK f : Iterates(f, L, S, c, step)
    BY <1>8
  <1>10. f \in [0..L -> S] /\ f[0] = c /\ \A n \in 1..L : f[n] = next(f[n - 1], n)
    <2>1. f \in [0..L -> S] /\ f[0] = c /\ \A n \in 1..L : f[n] = step[<<f[n - 1], n>>]
      BY <1>9 DEF Iterates
    <2>2. ASSUME NEW n \in 1..L PROVE step[<<f[n - 1], n>>] = next(f[n - 1], n)
      <3>1. f[n - 1] \in S
        BY <1>1, <2>1
      <3> DEFINE x == <<f[n - 1], n>>
      <3>2. x \in S \X (1..L) /\ x[1] = f[n - 1] /\ x[2] = n
        BY <3>1
      <3> HIDE DEF x, next
      <3>3. step[x] = next(f[n - 1], n)
        BY <3>2 DEF step
      <3> QED BY <3>3 DEF x
    <2> HIDE DEF next
    <2> QED BY <2>1, <2>2
  <1> DEFINE Rec(g) == g = [n \in 0..L |->
                IF n = 0 THEN c
                ELSE IF ~Begins(batch, n) THEN g[n - 1]
                ELSE PutSegment(g[n - 1], call, i, SegmentOf(batch, ms_to_hour(batch[n].time)), config, big)]
  <1>11. Rec(f)
    <2>1. \A n \in 0..L : f[n] =
                IF n = 0 THEN c
                ELSE IF ~Begins(batch, n) THEN f[n - 1]
                ELSE PutSegment(f[n - 1], call, i, SegmentOf(batch, ms_to_hour(batch[n].time)), config, big)
      <3>1. f[0] = c /\ \A n \in 0..L : n # 0 => n \in 1..L
        BY <1>1, <1>10
      <3> HIDE DEF big
      <3>2. \A n \in 1..L : f[n] = next(f[n - 1], n)
        BY <1>10
      <3> QED BY <3>1, <3>2 DEF HourAt
    <2>2. f = [n \in 0..L |-> f[n]]
      BY <1>10
    <2> HIDE DEF big
    <2> QED BY <2>1, <2>2
  <1>12. put = CHOOSE g : Rec(g)
    OBVIOUS
  <1>13. Rec(put)
    BY <1>11, <1>12
  <1> HIDE DEF put
  <1>14. put[0] = c /\ \A n \in 1..L : put[n] = next(put[n - 1], n)
    <2>1. 0 \in 0..L /\ \A n \in 1..L : n \in 0..L /\ n # 0
      BY <1>1
    <2> HIDE DEF big
    <2> QED BY <1>13, <2>1 DEF HourAt
  <1> HIDE DEF Rec, next, big
  <1> DEFINE T == {n \in 0..L : /\ put[n] \in S
                                /\ put[n].ok => WrittenSoFar(call, i, batch, config, n, put[n].table)}
  <1>15. 0 \in T
    <2>1. WrittenSoFar(call, i, batch, config, 0, blobs)
      <3>1. 1..0 = {}
        OBVIOUS
      <3> QED BY <3>1 DEF WrittenSoFar
    <2>2. c.table = blobs
      BY DEF c
    <2> QED BY <1>1, <1>4, <1>14, <2>1, <2>2
  <1>16. ASSUME NEW n \in 1..L, n - 1 \in T PROVE n \in T
    <2> DEFINE t == put[n - 1]
               u == put[n]
               k == KeyAt(call, i, batch, n)
               b == BlockAt(batch, config, n)
    <2>1. t \in S /\ (t.ok => WrittenSoFar(call, i, batch, config, n - 1, t.table))
      BY <1>16
    <2>2. u = next(t, n)
      BY <1>14
    <2>3. n \in 0..L
      BY <1>1
    <2> HIDE DEF T, t, u
    <2>4. u \in S
      BY <1>5, <2>1, <2>2
    <2>5. CASE Begins(batch, n)
      <3>1. PutsBlock(V, B, u, t, k, b)
        BY <1>5, <2>1, <2>2, <2>5
      <3>2. u.ok => /\ t.ok /\ DOMAIN u.table = DOMAIN t.table \cup {k}
                    /\ Last(u.table[k]) = b
                    /\ \A x \in DOMAIN t.table : x # k => u.table[x] = t.table[x]
        BY <3>1 DEF PutsBlock
      <3>3. u.ok => WrittenSoFar(call, i, batch, config, n, u.table)
        BY <2>1, <3>2, WrittenStep
      <3> QED BY <2>3, <2>4, <3>3 DEF T, u
    <2>6. CASE ~Begins(batch, n)
      <3>1. u = t
        BY <2>2, <2>6 DEF next
      <3>2. n # 1 /\ HourAt(batch, n) = HourAt(batch, n - 1)
        BY <2>6 DEF Begins, HourAt
      <3>3. u.ok => WrittenSoFar(call, i, batch, config, n, u.table)
        BY <2>1, <3>1, <3>2, WrittenStep
      <3> QED BY <2>3, <2>4, <3>3 DEF T, u
    <2> QED BY <2>5, <2>6
  <1> HIDE DEF T
  <1>17. 0..L \subseteq T
    BY <1>1, <1>15, <1>16, BoundedInduction
  <1>18. L \in T
    BY <1>1, <1>17
  <1>19. put[L] \in S /\ (put[L].ok => WrittenSoFar(call, i, batch, config, L, put[L].table))
    BY <1>18 DEF T
  <1>20. IsTable(put[L].table) /\ ValuesOf(put[L].table) \subseteq V
    <2>1. put[L].table \in TablesOver(V)
      BY <1>19 DEF S, Written
    <2> DEFINE table == put[L].table
    <2> HIDE DEF table
    <2>2. PICK D \in SUBSET Int : table \in [D -> V]
      BY <2>1 DEF table, TablesOver
    <2>3. IsTable(table) /\ ValuesOf(table) \subseteq V
      BY <2>2 DEF IsTable, ValuesOf
    <2> QED BY <2>3 DEF table
  <1> QED BY <1>7, <1>19, <1>20 DEF V, B

-----------------------------------------------------------------------------
(* TickDB: the invariant of the records                                    *)

HoldBlocks(values) == \A v \in values : \A n \in 1..Len(v) : v[n].ticks \in Seq(Ticks)

TickTypes ==
    /\ IsTable(blobs) /\ DOMAIN blobs \subseteq Nat /\ IsFiniteSet(DOMAIN blobs) /\ HoldBlocks(ValuesOf(blobs))
    /\ \A x \in DOMAIN promised : x \in Inst \X (HoursInUse \cap Nat) /\ promised[x] \in Seq(Ticks)

\* The ticks x was given are the last block of the record under a number.
Holds(x, u) ==
    /\ generate_tick_key(x[1], u) \in DOMAIN blobs
    /\ Last(blobs[generate_tick_key(x[1], u)]).ticks = promised[x]

\* Every record is that of a promised hour, and every promised hour has one,
\* under the number of the hour unless a codec configuration was given.
KeptTicks ==
    /\ \A k \in DOMAIN blobs : \E x \in DOMAIN promised : \E u \in KeyForms(x[2]) : k = generate_tick_key(x[1], u)
    /\ \A x \in DOMAIN promised : \E u \in KeyForms(x[2]) : Holds(x, u)
    /\ \A x \in DOMAIN promised : x \notin misplaced => Holds(x, x[2])

TickInv == TickTypes /\ KeptTicks

\* What a batch that is put leaves in the table, hour by hour.
HoursWritten(call, i, batch, table) ==
    /\ IsTable(table) /\ HoldBlocks(ValuesOf(table))
    /\ DOMAIN table = DOMAIN blobs \cup {generate_tick_key(i, KeyForm(call, h)) : h \in HoursOf(batch)}
    /\ \A k \in DOMAIN blobs :
          (\A h \in HoursOf(batch) : generate_tick_key(i, KeyForm(call, h)) # k) => table[k] = blobs[k]
    /\ \A h \in HoursOf(batch) :
          Last(table[generate_tick_key(i, KeyForm(call, h))]).ticks = SegmentOf(batch, h)

LEMMA HoursWrittenIs ==
    ASSUME HoursApart, NEW call, NEW i \in Inst, NEW batch \in Batches, NEW config,
           TickTypes, PutSegments(call, i, batch, config).ok
    PROVE  HoursWritten(call, i, batch, PutSegments(call, i, batch, config).table)
  <1> DEFINE table == PutSegments(call, i, batch, config).table
             L == Len(batch)
             key(h) == generate_tick_key(i, KeyForm(call, h))
             H == HoursOf(batch)
  <1>1. /\ WrittenSoFar(call, i, batch, config, L, table) /\ IsTable(table)
        /\ ValuesOf(table) \subseteq ValuesOf(blobs) \cup Seq(Blocks(batch, config))
    BY PutSegmentsIs DEF TickTypes
  <1> HIDE DEF table
  <1>2. DOMAIN batch = 1..L
    BY BatchIs
  <1>3. /\ \A m \in 1..L : HourAt(batch, m) \in H
        /\ \A h \in H : \E m \in 1..L : h = HourAt(batch, m)
    BY <1>2 DEF HoursOf, HourAt
  <1>4. /\ DOMAIN table = DOMAIN blobs \cup {key(HourAt(batch, m)) : m \in 1..L}
        /\ \A k \in DOMAIN blobs : (\A m \in 1..L : key(HourAt(batch, m)) # k) => table[k] = blobs[k]
        /\ \A m \in 1..L : Last(table[key(HourAt(batch, m))]).ticks = SegmentOf(batch, HourAt(batch, m))
    <2>1. /\ DOMAIN table = DOMAIN blobs \cup {key(HourAt(batch, m)) : m \in 1..L}
          /\ \A k \in DOMAIN blobs : (\A m \in 1..L : key(HourAt(batch, m)) # k) => table[k] = blobs[k]
          /\ \A m \in 1..L : Last(table[key(HourAt(batch, m))]) = BlockAt(batch, config, m)
      BY <1>1 DEF WrittenSoFar, KeyAt
    <2>2. \A m \in 1..L : BlockAt(batch, config, m).ticks = SegmentOf(batch, HourAt(batch, m))
      BY DEF BlockAt, Block
    <2> HIDE DEF key, L
    <2> QED BY <2>1, <2>2
  <1> HIDE DEF key, H, L
  <1>5. {key(HourAt(batch, m)) : m \in 1..L} = {key(h) : h \in H}
    BY <1>3
  <1>6. ASSUME NEW k \in DOMAIN blobs, \A h \in H : key(h) # k PROVE table[k] = blobs[k]
    BY <1>3, <1>4, <1>6
  <1>7. ASSUME NEW h \in H PROVE Last(table[key(h)]).ticks = SegmentOf(batch, h)
    BY <1>3, <1>4
  <1>8. HoldBlocks(ValuesOf(table))
    <2>1. \A b \in Blocks(batch, config) : b.ticks \in Seq(Ticks)
      <3>1. \A m \in 1..L : SegmentOf(batch, HourAt(batch, m)) \in Seq(Ticks)
        BY <1>3, SegmentIs DEF H
      <3>2. ASSUME NEW b \in Blocks(batch, config) PROVE b.ticks \in Seq(Ticks)
        <4>1. PICK m \in 1..L : b = BlockAt(batch, config, m)
          BY DEF Blocks, L
        <4>2. b.ticks = SegmentOf(batch, HourAt(batch, m))
          BY <4>1 DEF BlockAt, Block
        <4> QED BY <3>1, <4>2
      <3> QED BY <3>2
    <2>2. ASSUME NEW v \in ValuesOf(table), NEW n \in 1..Len(v) PROVE v[n].ticks \in Seq(Ticks)
      <3>1. CASE v \in ValuesOf(blobs)
        BY <3>1 DEF TickTypes, HoldBlocks
      <3>2. CASE v \in Seq(Blocks(batch, config))
        <4>1. v[n] \in Blocks(batch, config)
          BY <3>2
        <4> QED BY <2>1, <4>1
      <3> QED BY <1>1, <3>1, <3>2
    <2> QED BY <2>2 DEF HoldBlocks
  <1>9. HoursWritten(call, i, batch, table)
    BY <1>1, <1>4, <1>5, <1>6, <1>7, <1>8 DEF HoursWritten, key, H
  <1> QED BY <1>9 DEF table

LEMMA PromiseIs ==
    ASSUME NEW i, NEW batch, Promise(i, batch)
    PROVE  /\ DOMAIN promised' = DOMAIN promised \cup {<<i, h>> : h \in HoursOf(batch)}
           /\ \A h \in HoursOf(batch) : promised'[<<i, h>>] = SegmentOf(batch, h)
           /\ \A x \in DOMAIN promised : ~(x[1] = i /\ x[2] \in HoursOf(batch)) => promised'[x] = promised[x]
  BY DEF Promise

\* Hours whose records are not those of a batch.
LEMMA OthersApart ==
    ASSUME HoursApart, NEW call, NEW i \in Inst, NEW batch \in Batches, NEW j \in Inst, NEW g \in HoursInUse \cap Nat,
           NEW v \in KeyForms(g), NEW h \in HoursOf(batch),
           generate_tick_key(i, KeyForm(call, h)) = generate_tick_key(j, v)
    PROVE  j = i /\ g = h
  <1>1. DOMAIN batch = 1..Len(batch)
    BY BatchIs
  <1>2. PICK n \in 1..Len(batch) : h = HourAt(batch, n)
    BY <1>1 DEF HoursOf, HourAt
  <1>3. h \in HoursInUse \cap Nat /\ KeyForm(call, h) \in KeyForms(h)
    BY <1>2, HourAtIs
  <1> QED BY <1>3, KeysApart

LEMMA StoringKeepsTicks ==
    ASSUME HoursApart, TickInv, NEW call, NEW i \in Inst, NEW batch \in Batches,
           HoursWritten(call, i, batch, blobs'), Promise(i, batch),
           misplaced' = IF call = "upsert_with_config"
                        THEN misplaced \cup {<<i, h>> : h \in HoursOf(batch)} ELSE misplaced
    PROVE  TickInv'
  <1> DEFINE H == HoursOf(batch)
             key(h) == generate_tick_key(i, KeyForm(call, h))
             L == Len(batch)
  <1>1. /\ DOMAIN blobs' = DOMAIN blobs \cup {key(h) : h \in H} /\ IsTable(blobs')
        /\ HoldBlocks(ValuesOf(blobs'))
        /\ \A k \in DOMAIN blobs : (\A h \in H : key(h) # k) => blobs'[k] = blobs[k]
        /\ \A h \in H : Last(blobs'[key(h)]).ticks = SegmentOf(batch, h)
    BY DEF HoursWritten
  <1>2. /\ DOMAIN promised' = DOMAIN promised \cup {<<i, h>> : h \in H}
        /\ \A h \in H : promised'[<<i, h>>] = SegmentOf(batch, h)
        /\ \A x \in DOMAIN promised : ~(x[1] = i /\ x[2] \in H) => promised'[x] = promised[x]
    BY PromiseIs
  <1>3. \A m \in 1..L : HourAt(batch, m) \in HoursInUse \cap Nat /\ KeyAt(call, i, batch, m) \in Nat
        /\ KeyForm(call, HourAt(batch, m)) \in KeyForms(HourAt(batch, m))
    BY HourAtIs
  <1>4. DOMAIN batch = 1..L /\ L \in Nat /\ H = {HourAt(batch, m) : m \in 1..L}
    BY BatchIs DEF HoursOf, HourAt
  <1>5. \A h \in H : h \in HoursInUse \cap Nat /\ key(h) \in Nat /\ KeyForm(call, h) \in KeyForms(h)
    BY <1>3, <1>4 DEF KeyAt
  <1>6. \A x \in DOMAIN promised : /\ x \in Inst \X (HoursInUse \cap Nat) /\ promised[x] \in Seq(Ticks)
                                   /\ x[1] \in Inst /\ x[2] \in HoursInUse \cap Nat /\ x = <<x[1], x[2]>>
    BY DEF TickInv, TickTypes
  <1>7. TickTypes'
    <2>1. \A x \in DOMAIN promised' : x \in Inst \X (HoursInUse \cap Nat) /\ promised'[x] \in Seq(Ticks)
      <3>1. \A h \in H : SegmentOf(batch, h) \in Seq(Ticks)
        BY SegmentIs
      <3>2. ASSUME NEW x \in DOMAIN promised'
            PROVE  x \in Inst \X (HoursInUse \cap Nat) /\ promised'[x] \in Seq(Ticks)
        <4>1. CASE \E h \in H : x = <<i, h>>
          BY <1>2, <1>5, <3>1, <4>1
        <4>2. CASE ~\E h \in H : x = <<i, h>>
          <5>1. x \in DOMAIN promised
            BY <1>2, <4>2
          <5>2. ~(x[1] = i /\ x[2] \in H)
            BY <1>6, <4>2, <5>1
          <5> QED BY <1>2, <1>6, <5>1, <5>2
        <4> QED BY <4>1, <4>2
      <3> QED BY <3>2
    <2>2. IsFiniteSet({key(h) : h \in H})
      <3> DEFINE K == {key(h) : h \in H}
                 f == [m \in 1..L |-> key(HourAt(batch, m))]
      <3>1. f \in [1..L -> K] /\ \A k \in K : \E m \in 1..L : f[m] = k
        BY <1>4
      <3> HIDE DEF K, f
      <3>2. f \in Surjection(1..L, K)
        BY <3>1 DEF Surjection
      <3>3. IsFiniteSet(1..L)
        BY <1>4, FS_Interval
      <3> QED BY <3>2, <3>3, FS_Surjection DEF K
    <2>3. IsFiniteSet(DOMAIN blobs')
      <3>1. IsFiniteSet(DOMAIN blobs)
        BY DEF TickInv, TickTypes
      <3> DEFINE K == {key(h) : h \in H}
      <3> HIDE DEF K
      <3>2. IsFiniteSet(K) /\ DOMAIN blobs' = DOMAIN blobs \cup K
        BY <1>1, <2>2 DEF K
      <3>3. IsFiniteSet(DOMAIN blobs \cup K)
        BY <3>1, <3>2, FS_Union
      <3> QED BY <3>2, <3>3
    <2>4. DOMAIN blobs' \subseteq Nat
      BY <1>1, <1>5 DEF TickInv, TickTypes
    <2>5. HoldBlocks(ValuesOf(blobs))'
      BY <1>1 DEF ValuesOf, HoldBlocks, Ticks
    <2> QED BY <1>1, <2>1, <2>3, <2>4, <2>5 DEF TickTypes
  <1>8. ASSUME NEW h \in H PROVE Holds(<<i, h>>, KeyForm(call, h))'
    BY <1>1, <1>2 DEF Holds
  <1>9. ASSUME NEW x \in DOMAIN promised, ~(x[1] = i /\ x[2] \in H), NEW u \in KeyForms(x[2]), Holds(x, u)
        PROVE  Holds(x, u)'
    <2> DEFINE k == generate_tick_key(x[1], u)
    <2>1. \A h \in H : key(h) # k
      BY <1>6, <1>9, OthersApart
    <2> HIDE DEF k, key
    <2>2. k \in DOMAIN blobs /\ Last(blobs[k]).ticks = promised[x]
      BY <1>9 DEF Holds, k
    <2>3. k \in DOMAIN blobs' /\ blobs'[k] = blobs[k] /\ promised'[x] = promised[x]
      BY <1>1, <1>2, <1>9, <2>1, <2>2
    <2> QED BY <2>2, <2>3 DEF Holds, k
  <1>10. \A k \in DOMAIN blobs' : \E x \in DOMAIN promised' : \E u \in KeyForms(x[2]) : k = generate_tick_key(x[1], u)
    <2>1. ASSUME NEW k \in DOMAIN blobs'
          PROVE  \E x \in DOMAIN promised' : \E u \in KeyForms(x[2]) : k = generate_tick_key(x[1], u)
      <3>1. CASE k \in DOMAIN blobs
        BY <1>2, <3>1 DEF TickInv, KeptTicks
      <3>2. CASE k \notin DOMAIN blobs
        <4>1. PICK h \in H : k = key(h)
          BY <1>1, <3>2
        <4> DEFINE x == <<i, h>>
        <4>2. x \in DOMAIN promised' /\ x[1] = i /\ x[2] = h
          BY <1>2
        <4> HIDE DEF x
        <4>3. KeyForm(call, h) \in KeyForms(x[2]) /\ k = generate_tick_key(x[1], KeyForm(call, h))
          BY <1>5, <4>1, <4>2
        <4> QED BY <4>2, <4>3
      <3> QED BY <3>1, <3>2
    <2> QED BY <2>1
  <1>11. ASSUME NEW x \in DOMAIN promised'
         PROVE  /\ \E u \in KeyForms(x[2]) : Holds(x, u)'
                /\ x \notin misplaced' => Holds(x, x[2])'
    <2>1. CASE \E h \in H : x = <<i, h>>
      <3>1. PICK h \in H : x = <<i, h>>
        BY <2>1
      <3>2. Holds(x, KeyForm(call, h))' /\ x[2] = h /\ KeyForm(call, h) \in KeyForms(h)
        BY <1>5, <1>8, <3>1
      <3>3. x \notin misplaced' => KeyForm(call, h) = h
        BY <3>1 DEF KeyForm
      <3> QED BY <3>2, <3>3
    <2>2. CASE ~\E h \in H : x = <<i, h>>
      <3>1. x \in DOMAIN promised
        BY <1>2, <2>2
      <3>2. ~(x[1] = i /\ x[2] \in H)
        BY <1>6, <2>2, <3>1
      <3>3. PICK u \in KeyForms(x[2]) : Holds(x, u)
        BY <3>1 DEF TickInv, KeptTicks
      <3>4. Holds(x, u)'
        BY <1>9, <3>1, <3>2, <3>3
      <3>5. x \notin misplaced' => Holds(x, x[2])
        BY <3>1 DEF TickInv, KeptTicks
      <3>6. x[2] \in KeyForms(x[2])
        BY DEF KeyForms
      <3>7. x \notin misplaced' => Holds(x, x[2])'
        BY <1>9, <3>1, <3>2, <3>5, <3>6
      <3> QED BY <3>3, <3>4, <3>7
    <2> QED BY <2>1, <2>2
  <1>12. KeptTicks'
    BY <1>10, <1>11 DEF KeptTicks
  <1> QED BY <1>7, <1>12 DEF TickInv

LEMMA QuietKeeps ==
    ASSUME TickInv, UNCHANGED <<blobs, promised, misplaced>>
    PROVE  TickInv'
  <1>1. TickTypes'
    BY DEF TickInv, TickTypes, IsTable, HoldBlocks, ValuesOf
  <1>2. KeptTicks'
    BY DEF TickInv, KeptTicks, Holds
  <1> QED BY <1>1, <1>2 DEF TickInv

\* A writing call throws and changes nothing of it, or puts its batch.
StoresBatch(call, i, batch, config) ==
    /\ PutSegments(call, i, batch, config).ok
    /\ blobs' = PutSegments(call, i, batch, config).table /\ Promise(i, batch)

LEMMA StoreBatchIs ==
    ASSUME NEW call, NEW i, NEW batch, NEW config, NEW r, StoreBatch(call, i, batch, config, r)
    PROVE  \/ last'.ok = FALSE /\ UNCHANGED <<blobs, promised, misplaced>>
           \/ last'.ok = TRUE /\ StoresBatch(call, i, batch, config)
  BY DEF StoreBatch, Throws, Wrote, StoresBatch

LEMMA StoresBatchKeeps ==
    ASSUME HoursApart, TickInv, NEW call, NEW i \in Inst, NEW batch \in Batches, NEW config,
           StoresBatch(call, i, batch, config),
           misplaced' = IF call = "upsert_with_config"
                        THEN misplaced \cup {<<i, h>> : h \in HoursOf(batch)} ELSE misplaced
    PROVE  TickInv'
  <1>1. HoursWritten(call, i, batch, PutSegments(call, i, batch, config).table)
    BY HoursWrittenIs DEF StoresBatch, TickInv
  <1>2. HoursWritten(call, i, batch, blobs') /\ Promise(i, batch)
    BY <1>1 DEF StoresBatch
  <1> QED BY <1>2, StoringKeepsTicks

LEMMA OtherCallsKeepTicks ==
    ASSUME Start \/ Stop \/ Construct \/ UpsertMetadata \/ UpsertList \/ Fetch \/ UNCHANGED tdbVars
    PROVE  UNCHANGED <<blobs, promised, misplaced>>
  <1>1. CASE Start \/ Stop \/ Construct
    BY <1>1 DEF Start, start, Stop, stop, Construct, Reconstruct, Throws
  <1>2. CASE UpsertMetadata \/ UpsertList
    BY <1>2 DEF UpsertMetadata, upsert_metadata, UpsertList, upsert_list, Throws
  <1>3. CASE Fetch \/ UNCHANGED tdbVars
    BY <1>3 DEF Fetch, fetch, tdbVars
  <1> QED BY <1>1, <1>2, <1>3

LEMMA TickInvStep ==
    ASSUME HoursApart, TickInv, [TickDBNext]_tdbVars
    PROVE  TickInv'
  <1>1. CASE UpsertWithConfig
    <2> DEFINE call == "upsert_with_config"
    <2>1. PICK i \in Inst, b \in Batches, c \in Configs : upsert_with_config(i, b, c)
      BY <1>1 DEF UpsertWithConfig
    <2>2. \/ UNCHANGED <<blobs, promised, misplaced>>
          \/ \E r : /\ StoreBatch(call, i, b, c, r)
                    /\ misplaced' = IF last'.ok THEN misplaced \cup {<<i, h>> : h \in HoursOf(b)} ELSE misplaced
      BY <2>1 DEF upsert_with_config, Nothing, Throws
    <2>3. CASE UNCHANGED <<blobs, promised, misplaced>>
      BY <2>3, QuietKeeps
    <2>4. ASSUME NEW r, StoreBatch(call, i, b, c, r),
                 misplaced' = IF last'.ok THEN misplaced \cup {<<i, h>> : h \in HoursOf(b)} ELSE misplaced
          PROVE  TickInv'
      <3>1. CASE UNCHANGED <<blobs, promised, misplaced>>
        BY <3>1, QuietKeeps
      <3>2. CASE last'.ok = TRUE /\ StoresBatch(call, i, b, c)
        <4>1. misplaced' = misplaced \cup {<<i, h>> : h \in HoursOf(b)}
          BY <2>4, <3>2
        <4> QED BY <3>2, <4>1, StoresBatchKeeps
      <3> QED BY <2>4, <3>1, <3>2, StoreBatchIs
    <2> QED BY <2>2, <2>3, <2>4
  <1>2. CASE UpsertTicks
    <2> DEFINE call == "upsert_ticks"
    <2>1. PICK i \in Inst, b \in Batches : upsert_ticks(i, b)
      BY <1>2 DEF UpsertTicks
    <2>2. \/ UNCHANGED <<blobs, promised, misplaced>>
          \/ \E r, c : StoreBatch(call, i, b, c, r) /\ misplaced' = misplaced
      BY <2>1 DEF upsert_ticks, Nothing, Throws
    <2>3. CASE UNCHANGED <<blobs, promised, misplaced>>
      BY <2>3, QuietKeeps
    <2>4. ASSUME NEW r, NEW c, StoreBatch(call, i, b, c, r), misplaced' = misplaced
          PROVE  TickInv'
      <3>1. CASE UNCHANGED <<blobs, promised, misplaced>>
        BY <3>1, QuietKeeps
      <3>2. CASE last'.ok = TRUE /\ StoresBatch(call, i, b, c)
        <4>1. call # "upsert_with_config"
          OBVIOUS
        <4> QED BY <2>4, <3>2, <4>1, StoresBatchKeeps
      <3> QED BY <2>4, <3>1, <3>2, StoreBatchIs
    <2> QED BY <2>2, <2>3, <2>4
  <1> QED BY <1>1, <1>2, OtherCallsKeepTicks, QuietKeeps DEF TickDBNext

LEMMA TickInvInit ==
    ASSUME TickDBInit
    PROVE  TickInv
  <1>1. IsTable(NoRecords) /\ DOMAIN NoRecords = {}
    BY DEF NoRecords, IsTable
  <1>2. IsFiniteSet(DOMAIN NoRecords)
    BY <1>1, FS_EmptySet
  <1>3. HoldBlocks(ValuesOf(NoRecords))
    BY <1>1 DEF HoldBlocks, ValuesOf
  <1> QED BY <1>1, <1>2, <1>3 DEF TickDBInit, TickInv, TickTypes, KeptTicks

LEMMA HoursAreKeptIn ==
    ASSUME HoursApart, TickInv
    PROVE  HoursAreKept
  <1> DEFINE P == DOMAIN promised
             D == DOMAIN blobs
             number(x) == CHOOSE u \in KeyForms(x[2]) : Holds(x, u)
             f == [x \in P |-> generate_tick_key(x[1], number(x))]
  <1>1. \A x \in P : number(x) \in KeyForms(x[2]) /\ Holds(x, number(x))
    BY DEF TickInv, KeptTicks
  <1>2. \A x \in P : x[1] \in Inst /\ x[2] \in HoursInUse \cap Nat /\ x = <<x[1], x[2]>>
    BY DEF TickInv, TickTypes
  <1>3. \A x \in P : f[x] = generate_tick_key(x[1], number(x))
    OBVIOUS
  <1> HIDE DEF number
  <1>4. \A x \in P : f[x] \in D /\ Last(blobs[f[x]]).ticks = promised[x]
    BY <1>1, <1>3 DEF Holds
  <1>5. ASSUME NEW x \in P, NEW y \in P, f[x] = f[y] PROVE x = y
    <2>1. generate_tick_key(x[1], number(x)) = generate_tick_key(y[1], number(y))
      BY <1>3, <1>5
    <2>2. x[1] = y[1] /\ x[2] = y[2]
      BY <1>1, <1>2, <2>1, KeysApart
    <2> QED BY <1>2, <2>2
  <1>6. f \in [P -> D]
    BY <1>4
  <1> HIDE DEF f
  <1>7. f \in Injection(P, D)
    BY <1>5, <1>6 DEF Injection, IsInjective
  <1>8. IsFiniteSet(D)
    BY DEF TickInv, TickTypes
  <1> HIDE DEF P, D
  <1>9. Cardinality(P) <= Cardinality(D)
    BY <1>7, <1>8, FS_Injection
  <1> QED BY <1>4, <1>9 DEF HoursAreKept, P, D

\* Where hours are apart in the keys, no hour takes the place of another one:
\* what each hour was last given is the last block of a record of its own.
THEOREM HoursAreKeptHolds ==
    ASSUME HoursApart
    PROVE  TickDBSpec => []HoursAreKept
  <1>1. TickDBInit => TickInv
    BY TickInvInit
  <1>2. TickInv /\ [TickDBNext]_tdbVars => TickInv'
    BY TickInvStep
  <1>3. TickInv => HoursAreKept
    BY HoursAreKeptIn
  <1> QED BY <1>1, <1>2, <1>3, PTL DEF TickDBSpec

-----------------------------------------------------------------------------
(* TickDB: what a fetch gives                                              *)

LEMMA HoursInAre ==
    ASSUME NEW s, NEW e, <<s, e>> \in Ranges
    PROVE  /\ s \in Nat /\ ms_to_hour(s) \in Nat
           /\ IsFiniteSet(HoursIn(s, e)) /\ Cardinality(HoursIn(s, e)) \in Nat
           /\ \A n \in 1..Cardinality(HoursIn(s, e)) : ms_to_hour(s) + n - 1 \in HoursIn(s, e)
           /\ \A h \in HoursIn(s, e) : h \in HoursInUse \cap Nat
           /\ \A h \in HoursIn(s, e) : \E n \in 1..Cardinality(HoursIn(s, e)) : ms_to_hour(s) + n - 1 = h
  <1> DEFINE a == ms_to_hour(s)
             b == ms_to_hour(e - 1)
             x == <<s, e>>
  <1>1. s \in Nat /\ e - 1 \in Nat
    BY RangesAssumption
  <1>2. a \in Nat /\ b \in Nat
    BY <1>1, HourIs
  <1>3. HoursIn(s, e) = a..b
    BY DEF HoursIn
  <1>4. x \in Ranges /\ x[1] = s /\ x[2] = e
    OBVIOUS
  <1> HIDE DEF x
  <1>5. HoursIn(s, e) \subseteq HoursInUse
    <2>1. HoursInUse = (UNION {HoursOf(u) : u \in Batches}) \cup (UNION {HoursIn(r[1], r[2]) : r \in Ranges})
      BY DEF HoursInUse
    <2>2. ASSUME NEW h \in HoursIn(s, e) PROVE h \in HoursInUse
      <3>1. h \in HoursIn(x[1], x[2])
        BY <1>4, <2>2
      <3>2. h \in UNION {HoursIn(r[1], r[2]) : r \in Ranges}
        BY <1>4, <3>1
      <3> QED BY <2>1, <3>2
    <2> QED BY <2>2
  <1> HIDE DEF a, b
  <1>6. IsFiniteSet(a..b) /\ Cardinality(a..b) = IF a > b THEN 0 ELSE b - a + 1
    BY <1>2, FS_Interval
  <1> DEFINE c == Cardinality(a..b)
  <1>7. c = IF a > b THEN 0 ELSE b - a + 1
    BY <1>6
  <1> HIDE DEF c
  <1>8. c \in Nat /\ \A n \in 1..c : a + n - 1 \in a..b
    BY <1>2, <1>7
  <1>9. ASSUME NEW h \in a..b PROVE \E n \in 1..c : a + n - 1 = h
    <2>1. h - a + 1 \in 1..c /\ a + (h - a + 1) - 1 = h
      BY <1>2, <1>7
    <2> QED BY <2>1
  <1> QED BY <1>1, <1>2, <1>3, <1>5, <1>6, <1>8, <1>9 DEF a, c

\* The ticks a vector may hold.
Seen == Ticks \cup UNION {{b[n] : n \in DOMAIN b} : b \in Earlier}

LEMMA TicksAreSeen ==
    ASSUME NEW x \in Seq(Ticks)
    PROVE  x \in Seq(Seen)
  <1>1. x \in [1..Len(x) -> Ticks] /\ Len(x) \in Nat
    OBVIOUS
  <1>2. Ticks \subseteq Seen
    BY DEF Seen
  <1>3. x \in [1..Len(x) -> Seen]
    BY <1>1, <1>2
  <1> QED BY <1>1, <1>3

LEMMA EarlierAreSeen ==
    ASSUME NEW x \in Earlier
    PROVE  x \in Seq(Seen)
  <1>1. Len(x) \in Nat /\ x = [n \in 1..Len(x) |-> x[n]] /\ DOMAIN x = 1..Len(x)
    BY EarlierAssumption
  <1>2. \A n \in 1..Len(x) : x[n] \in Seen
    BY <1>1 DEF Seen
  <1>3. x \in [1..Len(x) -> Seen]
    BY <1>1, <1>2
  <1> QED BY <1>1, <1>3

\* The state of the loop, hour by hour.
TicksRead == [ok : BOOLEAN, ticks : Seq(Seen)]
Held(before) == [ok |-> TRUE, ticks |-> before]
Reading(r, i, s, e, before) ==
    /\ r \in [0..Cardinality(HoursIn(s, e)) -> TicksRead] /\ r[0] = Held(before)
    /\ \A n \in 1..Cardinality(HoursIn(s, e)) : r[n] = ReadHour(r[n - 1], i, ms_to_hour(s) + n - 1)

\* What reading an hour does: nothing to a loop that failed or to an hour that
\* has no record, and a failure if the record has another block than one.
HourRead(u, t, key) ==
    /\ u \in TicksRead
    /\ ~t.ok => u = t
    /\ t.ok /\ key \notin DOMAIN blobs => u = t
    /\ t.ok /\ key \in DOMAIN blobs /\ Len(blobs[key]) # 1 => ~u.ok
    /\ t.ok /\ key \in DOMAIN blobs /\ Len(blobs[key]) = 1
       => u.ok /\ u.ticks = IF blobs[key][1].format = "raw" THEN blobs[key][1].ticks
                            ELSE t.ticks \o blobs[key][1].ticks

LEMMA ReadHourIs ==
    ASSUME TickInv, NEW t \in TicksRead, NEW i, NEW h
    PROVE  HourRead(ReadHour(t, i, h), t, generate_tick_key(i, h))
  <1> DEFINE key == generate_tick_key(i, h)
             value == blobs[key]
             u == ReadHour(t, i, h)
  <1>1. t.ok \in BOOLEAN /\ t.ticks \in Seq(Seen) /\ t = [ok |-> t.ok, ticks |-> t.ticks]
    BY DEF TicksRead
  <1>2. CASE ~t.ok \/ key \notin DOMAIN blobs
    <2>1. u = t
      BY <1>2 DEF ReadHour
    <2> HIDE DEF u, key
    <2> QED BY <1>2, <2>1 DEF HourRead, u, key
  <1>3. CASE t.ok /\ key \in DOMAIN blobs /\ Len(value) # 1
    <2>1. u = [t EXCEPT !.ok = FALSE]
      BY <1>3 DEF ReadHour, Decodable
    <2>2. u = [ok |-> FALSE, ticks |-> t.ticks]
      BY <1>1, <2>1, Zenon
    <2> HIDE DEF u, key
    <2>3. u \in TicksRead /\ u.ok = FALSE
      BY <1>1, <2>2 DEF TicksRead
    <2> QED BY <1>3, <2>3 DEF HourRead, u, key
  <1>4. CASE t.ok /\ key \in DOMAIN blobs /\ Len(value) = 1
    <2> DEFINE block == value[1]
               ticks == IF block.format = "raw" THEN block.ticks ELSE t.ticks \o block.ticks
    <2>1. u = [t EXCEPT !.ticks = deserialize(value, @)]
      BY <1>4 DEF ReadHour, Decodable
    <2>2. u = [t EXCEPT !.ticks = ticks]
      BY <2>1 DEF deserialize
    <2>3. block.ticks \in Seq(Seen)
      <3>1. value \in ValuesOf(blobs) /\ 1 \in 1..Len(value)
        BY <1>4 DEF ValuesOf
      <3>2. block.ticks \in Seq(Ticks)
        BY <3>1 DEF TickInv, TickTypes, HoldBlocks
      <3> HIDE DEF block
      <3> QED BY <3>2, TicksAreSeen
    <2> HIDE DEF u, key, value, block
    <2>4. ticks \in Seq(Seen)
      BY <1>1, <2>3
    <2> DEFINE all == ticks
    <2>5. all \in Seq(Seen) /\ u = [t EXCEPT !.ticks = all]
      BY <2>2, <2>4
    <2> HIDE DEF all
    <2>6. u \in TicksRead /\ u.ok = t.ok /\ u.ticks = all
      BY <1>1, <2>5 DEF TicksRead
    <2> QED BY <1>4, <2>6 DEF HourRead, u, key, value, block, all
  <1> QED BY <1>2, <1>3, <1>4

LEMMA ReadHoursIs ==
    ASSUME TickInv, NEW i, NEW s, NEW e, <<s, e>> \in Ranges, NEW before \in Earlier
    PROVE  \E r : Reading(r, i, s, e, before) /\ ReadHours(i, s, e, before) = r[Cardinality(HoursIn(s, e))]
  <1> DEFINE L == Cardinality(HoursIn(s, e))
             c == Held(before)
             a == ms_to_hour(s)
             next(t, n) == ReadHour(t, i, a + n - 1)
             step == [x \in TicksRead \X (1..L) |-> next(x[1], x[2])]
             read[n \in 0..L] == IF n = 0 THEN c ELSE ReadHour(read[n - 1], i, a + n - 1)
  <1>1. L \in Nat
    BY HoursInAre
  <1>2. c \in TicksRead
    BY EarlierAreSeen DEF TicksRead, Held
  <1>3. ReadHours(i, s, e, before) = read[L]
    BY DEF ReadHours, Held
  <1>4. \A t \in TicksRead, n \in 1..L : next(t, n) \in TicksRead
    BY ReadHourIs DEF HourRead
  <1> HIDE DEF c, step, L, a
  <1>5. IsStep(step, L, TicksRead)
    <2>1. ASSUME NEW x \in TicksRead \X (1..L) PROVE next(x[1], x[2]) \in TicksRead
      <3>1. x[1] \in TicksRead /\ x[2] \in 1..L
        OBVIOUS
      <3> HIDE DEF next
      <3> QED BY <1>4, <3>1
    <2> HIDE DEF next
    <2>2. step \in [TicksRead \X (1..L) -> TicksRead]
      BY <2>1 DEF step
    <2> QED BY <2>2 DEF IsStep
  <1>6. \E f : Iterates(f, L, TicksRead, c, step)
    BY <1>1, <1>2, <1>5, RecursiveFunction
  <1>7. PICK f : Iterates(f, L, TicksRead, c, step)
    BY <1>6
  <1>8. f \in [0..L -> TicksRead] /\ f[0] = c /\ \A n \in 1..L : f[n] = next(f[n - 1], n)
    <2>1. f \in [0..L -> TicksRead] /\ f[0] = c /\ \A n \in 1..L : f[n] = step[<<f[n - 1], n>>]
      BY <1>7 DEF Iterates
    <2>2. ASSUME NEW n \in 1..L PROVE step[<<f[n - 1], n>>] = next(f[n - 1], n)
      <3>1. f[n - 1] \in TicksRead
        BY <1>1, <2>1
      <3> DEFINE x == <<f[n - 1], n>>
      <3>2. x \in TicksRead \X (1..L) /\ x[1] = f[n - 1] /\ x[2] = n
        BY <3>1
      <3> HIDE DEF x, next
      <3>3. step[x] = next(f[n - 1], n)
        BY <3>2 DEF step
      <3> QED BY <3>3 DEF x
    <2> HIDE DEF next
    <2> QED BY <2>1, <2>2
  <1> DEFINE Rec(g) == g = [n \in 0..L |-> IF n = 0 THEN c ELSE ReadHour(g[n - 1], i, a + n - 1)]
  <1>9. Rec(f)
    <2>1. \A n \in 0..L : f[n] = IF n = 0 THEN c ELSE ReadHour(f[n - 1], i, a + n - 1)
      BY <1>1, <1>8
    <2>2. f = [n \in 0..L |-> f[n]]
      BY <1>8
    <2> QED BY <2>1, <2>2
  <1>10. read = CHOOSE g : Rec(g)
    OBVIOUS
  <1>11. Rec(read)
    BY <1>9, <1>10
  <1> HIDE DEF read
  <1> DEFINE T == {n \in 0..L : read[n] = f[n]}
  <1>12. read[0] = c /\ \A n \in 1..L : read[n] = next(read[n - 1], n)
    <2>1. 0 \in 0..L /\ \A n \in 1..L : n \in 0..L /\ n # 0
      BY <1>1
    <2> QED BY <1>11, <2>1
  <1> HIDE DEF Rec, next
  <1>13. 0 \in T
    BY <1>1, <1>8, <1>12
  <1>14. ASSUME NEW n \in 1..L, n - 1 \in T PROVE n \in T
    BY <1>1, <1>8, <1>12, <1>14
  <1> HIDE DEF T
  <1>15. L \in T
    <2>1. 0..L \subseteq T
      BY <1>1, <1>13, <1>14, BoundedInduction
    <2> QED BY <1>1, <2>1
  <1>16. read[L] = f[L]
    BY <1>15 DEF T
  <1>17. Reading(f, i, s, e, before)
    BY <1>8 DEF Reading, L, c, a, next
  <1> QED BY <1>3, <1>16, <1>17 DEF L

\* What the last fetch gave is a reading of the table, cropped.
FetchRead ==
    last.call = "fetch" /\ last.ok =>
        /\ last.inst \in Inst /\ <<last.start, last.end>> \in Ranges /\ last.before \in Earlier
        /\ \E r : /\ Reading(r, last.inst, last.start, last.end, last.before)
                  /\ r[Cardinality(FetchedHours)].ok
                  /\ last.ticks = Cropped(r[Cardinality(FetchedHours)].ticks, last.start, last.end)

\* What the vector keeps, and what the hours were given up to the n-th one.
Giving(g) ==
    /\ g \in [0..Cardinality(FetchedHours) -> Seq(Seen)] /\ g[0] = Kept
    /\ \A n \in 1..Cardinality(FetchedHours) :
          LET x == <<last.inst, ms_to_hour(last.start) + n - 1>>
          IN  g[n] = IF x \in DOMAIN promised THEN g[n - 1] \o promised[x] ELSE g[n - 1]

LEMMA GivenTicksIs ==
    ASSUME TickInv, <<last.start, last.end>> \in Ranges, last.before \in Earlier
    PROVE  \E g : Giving(g) /\ GivenTicks = g[Cardinality(FetchedHours)]
  <1> DEFINE L == Cardinality(FetchedHours)
             S == Seq(Seen)
             c == Kept
             at(n) == <<last.inst, ms_to_hour(last.start) + n - 1>>
             next(t, n) == IF at(n) \in DOMAIN promised THEN t \o promised[at(n)] ELSE t
             step == [x \in S \X (1..L) |-> next(x[1], x[2])]
             given[n \in 0..L] ==
                LET x == <<last.inst, ms_to_hour(last.start) + n - 1>>
                IN  IF n = 0 THEN Kept
                    ELSE IF x \in DOMAIN promised THEN given[n - 1] \o promised[x] ELSE given[n - 1]
  <1>1. L \in Nat
    BY HoursInAre DEF FetchedHours
  <1>2. c \in S
    BY EarlierAreSeen DEF Kept
  <1>3. GivenTicks = given[L]
    BY DEF GivenTicks
  <1>4. ASSUME NEW t \in S, NEW n PROVE next(t, n) \in S
    <2>1. at(n) \in DOMAIN promised => promised[at(n)] \in S
      BY TicksAreSeen DEF TickInv, TickTypes
    <2> HIDE DEF at
    <2> QED BY <2>1
  <1> HIDE DEF step, L, S
  <1>5. IsStep(step, L, S)
    <2>1. ASSUME NEW x \in S \X (1..L) PROVE next(x[1], x[2]) \in S
      <3>1. x[1] \in S /\ x[2] \in 1..L
        OBVIOUS
      <3> HIDE DEF next
      <3> QED BY <1>4, <3>1
    <2> HIDE DEF next
    <2>2. step \in [S \X (1..L) -> S]
      BY <2>1 DEF step
    <2> QED BY <2>2 DEF IsStep
  <1> HIDE DEF c
  <1>6. \E f : Iterates(f, L, S, c, step)
    BY <1>1, <1>2, <1>5, RecursiveFunction
  <1>7. PICK f : Iterates(f, L, S, c, step)
    BY <1>6
  <1>8. f \in [0..L -> S] /\ f[0] = c /\ \A n \in 1..L : f[n] = next(f[n - 1], n)
    <2>1. f \in [0..L -> S] /\ f[0] = c /\ \A n \in 1..L : f[n] = step[<<f[n - 1], n>>]
      BY <1>7 DEF Iterates
    <2>2. ASSUME NEW n \in 1..L PROVE step[<<f[n - 1], n>>] = next(f[n - 1], n)
      <3>1. f[n - 1] \in S
        BY <1>1, <2>1
      <3> DEFINE x == <<f[n - 1], n>>
      <3>2. x \in S \X (1..L) /\ x[1] = f[n - 1] /\ x[2] = n
        BY <3>1
      <3> HIDE DEF x, next
      <3>3. step[x] = next(f[n - 1], n)
        BY <3>2 DEF step
      <3> QED BY <3>3 DEF x
    <2> HIDE DEF next
    <2> QED BY <2>1, <2>2
  <1> DEFINE Rec(g) == g = [n \in 0..L |->
                LET x == <<last.inst, ms_to_hour(last.start) + n - 1>>
                IN  IF n = 0 THEN Kept
                    ELSE IF x \in DOMAIN promised THEN g[n - 1] \o promised[x] ELSE g[n - 1]]
  <1>9. Rec(f)
    <2>1. \A n \in 0..L : f[n] = IF n = 0 THEN Kept ELSE next(f[n - 1], n)
      <3> HIDE DEF next
      <3> QED BY <1>1, <1>8 DEF c
    <2>2. f = [n \in 0..L |-> f[n]]
      BY <1>8
    <2> QED BY <2>1, <2>2
  <1>10. given = CHOOSE g : Rec(g)
    OBVIOUS
  <1>11. Rec(given)
    BY <1>9, <1>10
  <1> HIDE DEF given
  <1> DEFINE T == {n \in 0..L : given[n] = f[n]}
  <1>12. given[0] = c /\ \A n \in 1..L : given[n] = next(given[n - 1], n)
    <2>1. 0 \in 0..L /\ \A n \in 1..L : n \in 0..L /\ n # 0
      BY <1>1
    <2> QED BY <1>11, <2>1 DEF c
  <1> HIDE DEF Rec, next
  <1>13. 0 \in T
    BY <1>1, <1>8, <1>12
  <1>14. ASSUME NEW n \in 1..L, n - 1 \in T PROVE n \in T
    BY <1>1, <1>8, <1>12, <1>14
  <1> HIDE DEF T
  <1>15. L \in T
    <2>1. 0..L \subseteq T
      BY <1>1, <1>13, <1>14, BoundedInduction
    <2> QED BY <1>1, <2>1
  <1>16. given[L] = f[L]
    BY <1>15 DEF T
  <1>17. Giving(f)
    BY <1>8 DEF Giving, L, S, c, next
  <1> QED BY <1>3, <1>16, <1>17 DEF L

\* The premise of the property, for the hours of the last fetch.
Fetchable ==
    /\ \A h \in FetchedHours : <<last.inst, h>> \notin misplaced
    /\ RawHours # {} => HoldsTicks = RawHours /\ Cardinality(RawHours) = 1

\* An hour that was never given with a configuration has a record if and only
\* if it was given ticks, and these are its last block.
LEMMA StoredIs ==
    ASSUME HoursApart, TickInv, NEW i \in Inst, NEW h \in HoursInUse \cap Nat, <<i, h>> \notin misplaced
    PROVE  /\ generate_tick_key(i, h) \in DOMAIN blobs <=> <<i, h>> \in DOMAIN promised
           /\ <<i, h>> \in DOMAIN promised => Last(blobs[generate_tick_key(i, h)]).ticks = promised[<<i, h>>]
  <1> DEFINE x == <<i, h>>
             key == generate_tick_key(i, h)
  <1>1. x[1] = i /\ x[2] = h /\ h \in KeyForms(h)
    BY DEF KeyForms
  <1>2. x \in DOMAIN promised => Holds(x, h)
    BY <1>1 DEF TickInv, KeptTicks
  <1>3. Holds(x, h) => key \in DOMAIN blobs /\ Last(blobs[key]).ticks = promised[x]
    BY <1>1 DEF Holds
  <1>4. ASSUME key \in DOMAIN blobs PROVE x \in DOMAIN promised
    <2>1. PICK y \in DOMAIN promised : \E u \in KeyForms(y[2]) : key = generate_tick_key(y[1], u)
      BY <1>4 DEF TickInv, KeptTicks
    <2>2. PICK u \in KeyForms(y[2]) : key = generate_tick_key(y[1], u)
      BY <2>1
    <2>3. y[1] \in Inst /\ y[2] \in HoursInUse \cap Nat /\ y = <<y[1], y[2]>>
      BY <2>1 DEF TickInv, TickTypes
    <2>4. y[1] = i /\ y[2] = h
      BY <1>1, <2>2, <2>3, KeysApart
    <2> QED BY <2>1, <2>3, <2>4
  <1> QED BY <1>2, <1>3, <1>4

LEMMA FetchGives ==
    ASSUME HoursApart, TickInv, FetchRead, last.call = "fetch", last.ok, Fetchable
    PROVE  last.ticks = Promised
  <1> DEFINE i == last.inst
             L == Cardinality(FetchedHours)
             hour(n) == ms_to_hour(last.start) + n - 1
             x(n) == <<i, hour(n)>>
             key(n) == generate_tick_key(i, hour(n))
             none(n) == \A m \in 1..n : hour(m) \notin HoldsTicks
  <1>1. PICK r : /\ Reading(r, i, last.start, last.end, last.before) /\ r[L].ok
                 /\ last.ticks = Cropped(r[L].ticks, last.start, last.end)
    BY DEF FetchRead
  <1>2. i \in Inst /\ <<last.start, last.end>> \in Ranges /\ last.before \in Earlier
    BY DEF FetchRead
  <1>3. PICK g : Giving(g) /\ GivenTicks = g[L]
    BY <1>2, GivenTicksIs
  <1>4. /\ L \in Nat /\ IsFiniteSet(FetchedHours) /\ ms_to_hour(last.start) \in Nat
        /\ \A n \in 1..L : hour(n) \in FetchedHours /\ hour(n) \in HoursInUse \cap Nat
        /\ \A h \in FetchedHours : \E n \in 1..L : hour(n) = h
    BY <1>2, HoursInAre DEF FetchedHours
  <1>5. /\ r \in [0..L -> TicksRead] /\ r[0] = Held(last.before)
        /\ \A n \in 1..L : HourRead(r[n], r[n - 1], key(n))
    <2>1. /\ r \in [0..L -> TicksRead] /\ r[0] = Held(last.before)
          /\ \A n \in 1..L : r[n] = ReadHour(r[n - 1], i, hour(n))
      BY <1>1 DEF Reading, FetchedHours
    <2>2. ASSUME NEW n \in 1..L PROVE HourRead(r[n], r[n - 1], key(n))
      <3>0. L \in Nat
        BY <1>4
      <3>1. r[n - 1] \in TicksRead
        <4> HIDE DEF L
        <4>1. n - 1 \in 0..L
          BY <3>0
        <4>2. r \in [0..L -> TicksRead]
          BY <2>1
        <4> QED BY <4>1, <4>2
      <3>2. r[n] = ReadHour(r[n - 1], i, hour(n))
        BY <2>1
      <3> DEFINE t == r[n - 1]
                 h == hour(n)
      <3> HIDE DEF t, h
      <3>3. HourRead(ReadHour(t, i, h), t, generate_tick_key(i, h))
        BY <3>1, ReadHourIs DEF t
      <3> QED BY <3>2, <3>3 DEF t, h
    <2> QED BY <2>1, <2>2
  <1>6. /\ g \in [0..L -> Seq(Seen)] /\ g[0] = Kept
        /\ \A n \in 1..L : g[n] = IF x(n) \in DOMAIN promised THEN g[n - 1] \o promised[x(n)] ELSE g[n - 1]
    BY <1>3 DEF Giving
  <1>7. \A n \in 1..L : /\ key(n) \in DOMAIN blobs <=> x(n) \in DOMAIN promised
                        /\ x(n) \in DOMAIN promised => Last(blobs[key(n)]).ticks = promised[x(n)]
                        /\ x(n) \in DOMAIN promised => promised[x(n)] \in Seq(Seen)
                        /\ x(n) \in DOMAIN promised <=> hour(n) \in HoldsTicks
    <2>1. ASSUME NEW n \in 1..L
          PROVE  /\ key(n) \in DOMAIN blobs <=> x(n) \in DOMAIN promised
                 /\ x(n) \in DOMAIN promised => Last(blobs[key(n)]).ticks = promised[x(n)]
                 /\ x(n) \in DOMAIN promised => promised[x(n)] \in Seq(Seen)
                 /\ x(n) \in DOMAIN promised <=> hour(n) \in HoldsTicks
      <3> DEFINE h == hour(n)
      <3>1. h \in FetchedHours /\ h \in HoursInUse \cap Nat
        BY <1>4
      <3> HIDE DEF h
      <3>2. <<i, h>> \notin misplaced
        BY <3>1 DEF Fetchable
      <3>3. /\ generate_tick_key(i, h) \in DOMAIN blobs <=> <<i, h>> \in DOMAIN promised
            /\ <<i, h>> \in DOMAIN promised => Last(blobs[generate_tick_key(i, h)]).ticks = promised[<<i, h>>]
        BY <1>2, <3>1, <3>2, StoredIs
      <3>4. <<i, h>> \in DOMAIN promised => promised[<<i, h>>] \in Seq(Seen)
        BY TicksAreSeen DEF TickInv, TickTypes
      <3>5. <<i, h>> \in DOMAIN promised <=> h \in HoldsTicks
        BY <3>1 DEF HoldsTicks
      <3> QED BY <3>3, <3>4, <3>5 DEF h
    <2> QED BY <2>1
  <1>8. ASSUME NEW n \in 1..L, key(n) \in DOMAIN blobs, blobs[key(n)][1].format = "raw", NEW m \in 1..L, m < n
        PROVE  hour(m) \notin HoldsTicks
    <2>1. hour(n) \in RawHours
      BY <1>4, <1>8 DEF RawHours, Stored, Blob
    <2>2. HoldsTicks = RawHours /\ Cardinality(RawHours) = 1
      BY <2>1 DEF Fetchable
    <2>3. IsFiniteSet(RawHours)
      BY <1>4, FS_Subset DEF RawHours
    <2>4. PICK h : RawHours = {h}
      BY <2>2, <2>3, FS_Singleton
    <2>5. hour(m) # hour(n)
      BY <1>4, <1>8
    <2> QED BY <2>1, <2>2, <2>4, <2>5
  <1>81. ASSUME NEW n \in 1..L, RawHours # {}, hour(n) \in HoldsTicks
         PROVE  blobs[key(n)][1].format = "raw"
    BY <1>81 DEF Fetchable, RawHours, Blob
  <1>82. RawHours # {} => \E n \in 1..L : hour(n) \in HoldsTicks
    <2>1. SUFFICES ASSUME RawHours # {} PROVE \E n \in 1..L : hour(n) \in HoldsTicks
      OBVIOUS
    <2>2. PICK h \in HoldsTicks : TRUE
      BY <2>1 DEF Fetchable
    <2>3. h \in FetchedHours
      BY DEF HoldsTicks
    <2>4. PICK n \in 1..L : hour(n) = h
      BY <1>4, <2>3
    <2> QED BY <2>2, <2>4
  <1>83. ASSUME NEW n \in 1..L, key(n) \in DOMAIN blobs, blobs[key(n)][1].format = "raw" PROVE RawHours # {}
    BY <1>4, <1>83 DEF RawHours, Stored, Blob
  <1>84. g[0] = Kept /\ r[0].ticks = last.before /\ Kept = IF RawHours = {} THEN last.before ELSE <<>>
    BY <1>5, <1>6 DEF Held, Kept
  <1> DEFINE mixed == RawHours # {}
  <1>85. mixed <=> RawHours # {}
    OBVIOUS
  <1> HIDE DEF x, key, hour, L, i, mixed
  <1> DEFINE T == {n \in 0..L : r[n].ok => IF mixed /\ none(n) THEN g[n] = <<>> ELSE r[n].ticks = g[n]}
  <1>9. 0 \in T
    BY <1>4, <1>84, <1>85
  <1>10. ASSUME NEW n \in 1..L, n - 1 \in T PROVE n \in T
    <2> DEFINE t == r[n - 1]
               u == r[n]
               k == key(n)
               before == g[n - 1]
               after == g[n]
               value == blobs[k]
               own == promised[x(n)]
    <2>1. HourRead(u, t, k) /\ t \in TicksRead
      BY <1>4, <1>5
    <2>2. after = IF x(n) \in DOMAIN promised THEN before \o own ELSE before
      BY <1>6
    <2>3. t.ok => IF mixed /\ none(n - 1) THEN before = <<>> ELSE t.ticks = before
      BY <1>10
    <2>4. n \in 0..L /\ n - 1 \in 0..L /\ n \in 1..n /\ \A m \in 1..(n - 1) : m \in 1..n /\ m \in 1..L /\ m < n
      BY <1>4
    <2>5. none(n) <=> none(n - 1) /\ hour(n) \notin HoldsTicks
      <3>1. \A m \in 1..n : m \in 1..(n - 1) \/ m = n
        OBVIOUS
      <3> QED BY <2>4, <3>1
    <2>6. before \in Seq(Seen)
      BY <1>6, <2>4
    <2>7. k \in DOMAIN blobs /\ value[1].format = "raw" => none(n - 1) /\ mixed
      BY <1>8, <1>83, <1>85, <2>4
    <2>8. /\ k \in DOMAIN blobs <=> x(n) \in DOMAIN promised
          /\ x(n) \in DOMAIN promised => Last(value).ticks = own /\ own \in Seq(Seen) /\ hour(n) \in HoldsTicks
          /\ x(n) \notin DOMAIN promised => hour(n) \notin HoldsTicks
          /\ x(n) \in DOMAIN promised /\ mixed => value[1].format = "raw"
      BY <1>7, <1>81, <1>85
    <2> HIDE DEF none, T, t, u, k, before, after, value, own
    <2>9. u.ok => IF mixed /\ none(n) THEN after = <<>> ELSE u.ticks = after
      <3>1. CASE ~t.ok
        BY <2>1, <3>1 DEF HourRead
      <3>2. CASE t.ok /\ k \notin DOMAIN blobs
        <4>1. u = t /\ after = before
          BY <2>1, <2>2, <2>8, <3>2 DEF HourRead
        <4> QED BY <2>3, <2>5, <2>8, <3>2, <4>1
      <3>3. CASE t.ok /\ k \in DOMAIN blobs /\ Len(value) # 1
        BY <2>1, <3>3 DEF HourRead, value
      <3>4. CASE t.ok /\ k \in DOMAIN blobs /\ Len(value) = 1
        <4>1. u.ticks = IF value[1].format = "raw" THEN value[1].ticks ELSE t.ticks \o value[1].ticks
          BY <2>1, <3>4 DEF HourRead, value
        <4>2. value[1].ticks = own /\ own \in Seq(Seen) /\ after = before \o own /\ ~none(n)
          <5>1. Last(value) = value[1]
            BY <3>4 DEF Last
          <5> QED BY <2>2, <2>5, <2>8, <3>4, <5>1
        <4>3. CASE value[1].format = "raw"
          <5>1. before = <<>> /\ u.ticks = own
            BY <2>3, <2>7, <3>4, <4>1, <4>2, <4>3
          <5>2. <<>> \o own = own
            BY <4>2
          <5> QED BY <4>2, <5>1, <5>2
        <4>4. CASE value[1].format # "raw"
          <5>1. ~mixed
            BY <2>8, <3>4, <4>4
          <5>2. u.ticks = before \o own
            BY <2>3, <3>4, <4>1, <4>2, <4>4, <5>1
          <5> QED BY <4>2, <5>2
        <4> QED BY <4>3, <4>4
      <3> QED BY <3>1, <3>2, <3>3, <3>4
    <2> QED BY <2>4, <2>9 DEF T, u, after
  <1> HIDE DEF T
  <1>11. L \in T
    <2>1. 0..L \subseteq T
      BY <1>4, <1>9, <1>10, BoundedInduction
    <2> QED BY <1>4, <2>1
  <1>12. r[L].ticks = GivenTicks
    <2>1. ~(mixed /\ none(L))
      BY <1>4, <1>82, <1>85
    <2> HIDE DEF none
    <2> QED BY <1>1, <1>3, <1>11, <2>1 DEF T, L
  <1>13. last.ticks = Cropped(GivenTicks, last.start, last.end)
    BY <1>1, <1>12
  <1> QED BY <1>13 DEF Promised, Cropped, StartsAnHour

LEMMA OnlyFetchFetches ==
    ASSUME TickDBNext, ~Fetch
    PROVE  last'.call # "fetch"
  <1>1. CASE Start \/ Stop \/ Construct
    BY <1>1 DEF Start, start, Stop, stop, Construct, Reconstruct, Throws, Returns
  <1>2. CASE UpsertMetadata \/ UpsertList
    <2>1. \A call : Returns(call) \/ Throws(call) => last'.call = call
      BY DEF Returns, Throws
    <2>2. CASE UpsertMetadata
      <3>1. Returns("upsert_metadata") \/ Throws("upsert_metadata")
        BY <2>2 DEF UpsertMetadata, upsert_metadata
      <3> QED BY <2>1, <3>1
    <2>3. CASE UpsertList
      <3>1. Returns("upsert_list") \/ Throws("upsert_list")
        BY <2>3 DEF UpsertList, upsert_list
      <3> QED BY <2>1, <3>1
    <2> QED BY <1>2, <2>2, <2>3
  <1>3. ASSUME NEW call, NEW i, NEW batch, NEW config, NEW r, StoreBatch(call, i, batch, config, r)
        PROVE  last'.call = call
    BY <1>3 DEF StoreBatch, Throws, Wrote
  <1>4. CASE UpsertWithConfig
    <2>1. PICK i \in Inst, b \in Batches, c \in Configs : upsert_with_config(i, b, c)
      BY <1>4 DEF UpsertWithConfig
    <2>2. \/ Nothing("upsert_with_config")
          \/ \E r : StoreBatch("upsert_with_config", i, b, c, r)
      BY <2>1 DEF upsert_with_config
    <2>3. last'.call = "upsert_with_config"
      BY <1>3, <2>2 DEF Nothing, Throws
    <2> QED BY <2>3
  <1>5. CASE UpsertTicks
    <2>1. PICK i \in Inst, b \in Batches : upsert_ticks(i, b)
      BY <1>5 DEF UpsertTicks
    <2>2. \/ Nothing("upsert_ticks")
          \/ \E r, c : StoreBatch("upsert_ticks", i, b, c, r)
      BY <2>1 DEF upsert_ticks
    <2>3. last'.call = "upsert_ticks"
      BY <1>3, <2>2 DEF Nothing, Throws
    <2> QED BY <2>3
  <1> QED BY <1>1, <1>2, <1>4, <1>5 DEF TickDBNext

LEMMA SameReading ==
    ASSUME NEW r, NEW i, NEW s, NEW e, NEW before, Reading(r, i, s, e, before), blobs' = blobs,
           last'.inst = i, last'.start = s, last'.end = e, last'.before = before
    PROVE  Reading(r, last.inst, last.start, last.end, last.before)'
  BY DEF Reading, ReadHour

LEMMA FetchReadStep ==
    ASSUME TickInv, FetchRead, [TickDBNext]_tdbVars
    PROVE  FetchRead'
  <1>1. CASE Fetch
    <2>1. PICK i \in Inst, x \in Ranges, before \in Earlier : fetch(i, x[1], x[2], before)
      BY <1>1 DEF Fetch
    <2> DEFINE s == x[1]
               e == x[2]
               L == Cardinality(HoursIn(s, e))
               read == ReadHours(i, s, e, before)
    <2>2. <<s, e>> = x /\ <<s, e>> \in Ranges
      BY RangesAssumption
    <2>3. blobs' = blobs
      BY <2>1 DEF fetch
    <2>4. CASE /\ read.ok
               /\ last' = [call |-> "fetch", ok |-> TRUE, inst |-> i, start |-> s, end |-> e,
                           before |-> before, ticks |-> Cropped(read.ticks, s, e)]
      <3>1. PICK r : Reading(r, i, s, e, before) /\ read = r[L]
        BY <2>2, ReadHoursIs
      <3> DEFINE given == Cropped(read.ticks, s, e)
      <3>2. given = Cropped(r[L].ticks, s, e) /\ r[L].ok
        BY <2>4, <3>1
      <3> HIDE DEF s, e, read, given
      <3>3. last'.inst = i /\ last'.start = s /\ last'.end = e /\ last'.before = before /\ last'.ticks = given
        BY <2>4 DEF given
      <3>4. Reading(r, last.inst, last.start, last.end, last.before)'
        BY <2>3, <3>1, <3>3, SameReading
      <3>5. Cardinality(FetchedHours)' = L
        BY <3>3 DEF FetchedHours, HoursIn
      <3>6. last'.ticks = Cropped(r[L].ticks, last.start, last.end)'
        BY <3>2, <3>3
      <3> HIDE DEF L
      <3> QED BY <2>2, <3>2, <3>3, <3>4, <3>5, <3>6 DEF FetchRead
    <2>5. CASE last' = [call |-> "fetch", ok |-> FALSE]
      BY <2>5 DEF FetchRead
    <2> QED BY <2>1, <2>4, <2>5 DEF fetch
  <1>2. CASE UNCHANGED tdbVars
    <2>1. last' = last /\ blobs' = blobs
      BY <1>2 DEF tdbVars
    <2>2. ASSUME last.call = "fetch", last.ok
          PROVE  FetchRead'
      <3>1. PICK r : /\ Reading(r, last.inst, last.start, last.end, last.before) /\ r[Cardinality(FetchedHours)].ok
                     /\ last.ticks = Cropped(r[Cardinality(FetchedHours)].ticks, last.start, last.end)
        BY <2>2 DEF FetchRead
      <3>2. Reading(r, last.inst, last.start, last.end, last.before)'
        BY <2>1, <3>1, SameReading
      <3>3. Cardinality(FetchedHours)' = Cardinality(FetchedHours)
        BY <2>1 DEF FetchedHours, HoursIn
      <3>4. last'.ticks = Cropped(r[Cardinality(FetchedHours)].ticks, last.start, last.end)'
        BY <2>1, <3>1, <3>3
      <3> QED BY <2>1, <2>2, <3>1, <3>2, <3>3, <3>4 DEF FetchRead
    <2> QED BY <2>1, <2>2 DEF FetchRead
  <1>3. CASE TickDBNext /\ ~Fetch
    BY <1>3, OnlyFetchFetches DEF FetchRead
  <1> QED BY <1>1, <1>2, <1>3

\* Where hours are apart in the keys, a fetch that returns gives exactly the
\* ticks its hours were last given, through failed writes, rewritten hours and
\* new objects: for hours under the key fetch looks for, in one raw record or
\* any number of compressed ones.
THEOREM FetchGivesWhatWasStoredHolds ==
    ASSUME HoursApart
    PROVE  TickDBSpec => []FetchGivesWhatWasStored
  <1>1. TickDBInit => TickInv /\ FetchRead
    BY TickInvInit DEF TickDBInit, FetchRead
  <1>2. TickInv /\ FetchRead /\ [TickDBNext]_tdbVars => TickInv' /\ FetchRead'
    BY TickInvStep, FetchReadStep
  <1>3. TickInv /\ FetchRead => FetchGivesWhatWasStored
    <2>1. SUFFICES ASSUME TickInv, FetchRead, last.call = "fetch", last.ok, Fetchable
                   PROVE  last.ticks = Promised
      BY DEF FetchGivesWhatWasStored, Fetchable
    <2> QED BY <2>1, FetchGives
  <1> QED BY <1>1, <1>2, <1>3, PTL DEF TickDBSpec

-----------------------------------------------------------------------------
(* TransactionGuard: its inductive invariant, and GuardContract            *)

USE NAssumption, FaultsAssumption, NoGuardAssumption, ModesAssumption

\* The steps of one guard, without the quantifiers over backends.
LEMMA NextCases ==
    ASSUME Next
    PROVE  \/ \E g \in Guard, m \in Modes : create_guard(g, m)
           \/ \E g \in Guard : \/ begin(g) \/ commit(g) \/ rollback(g) \/ Destroy(g)
                               \/ BeginReturns(g) \/ CommitReturns(g) \/ RollbackReturns(g)
           \/ \E g \in Guard, b \in Backend :
                \/ Modify(g, b) \/ TxnBeginWritable(g, b) \/ TxnBeginReadOnly(g, b)
                \/ TxnBeginAgain(g, b) \/ TxnBeginFails(g, b)
                \/ AfterTransaction(g, b) \/ AfterTransactionFails(g, b)
                \/ TxnCommitWritable(g, b) \/ TxnCommitFails(g, b)
                \/ TxnAbort(g, b) \/ TxnAbortFails(g, b)
           \/ \E g \in Guard, b \in Backend, p \in {"committing", "rollback"} :
                TxnReset(g, b, p) \/ TxnResetFails(g, b, p) \/ TxnNotActive(g, b, p)
           \/ Crash
           \/ UNCHANGED vars
  BY DEF Next, BeginStep, CommitStep, RollbackStep, FailingStep, Finished

\* Init establishes the inductive invariant.
LEMMA InitIInv == Init => IInv
  BY SMTT(30) DEF Init, IInv, TypeOK, WriterIsLive, NoGuardNoTxn, CommitLoop, DurableIsDone,
         DurableWasStarted, RollbackLoop, OnlyWritersWrite, CompletedIsIdle, CompletedIsAtomic,
         NoTxn, Backend, Phases, TxnStates

\* create_guard preserves the invariant: an absent guard owns nothing.
LEMMA CreateIInv ==
    ASSUME IInv, NEW g \in Guard, NEW m \in Modes, create_guard(g, m)
    PROVE  IInv'
  BY ModesAssumption, SMTT(90) DEF create_guard, Goto, engine,
         IInv, TypeOK, WriterIsLive, NoGuardNoTxn, CommitLoop,
         DurableIsDone, DurableWasStarted, RollbackLoop, OnlyWritersWrite,
         CompletedIsIdle, CompletedIsAtomic, NoTxn, Backend, Phases, TxnStates

\* Entering begin() resets the loop counter.
LEMMA BeginIInv ==
    ASSUME IInv, NEW g \in Guard, begin(g)
    PROVE  IInv'
  BY SMTT(60) DEF begin, Goto, engine,
         IInv, TypeOK, WriterIsLive, NoGuardNoTxn, CommitLoop,
         DurableIsDone, DurableWasStarted, RollbackLoop, OnlyWritersWrite,
         CompletedIsIdle, CompletedIsAtomic, NoTxn, Backend, Phases, TxnStates

\* Entering commit() resets the loop counter.
LEMMA CommitIInv ==
    ASSUME IInv, NEW g \in Guard, commit(g)
    PROVE  IInv'
  BY SMTT(60) DEF commit, m_completed, Goto, engine,
         IInv, TypeOK, WriterIsLive, NoGuardNoTxn, CommitLoop,
         DurableIsDone, DurableWasStarted, RollbackLoop, OnlyWritersWrite,
         CompletedIsIdle, CompletedIsAtomic, NoTxn, Backend, Phases, TxnStates

\* Entering rollback() resets the loop counter.
LEMMA RollbackIInv ==
    ASSUME IInv, NEW g \in Guard, rollback(g)
    PROVE  IInv'
  BY SMTT(60) DEF rollback, m_completed, Goto, engine,
         IInv, TypeOK, WriterIsLive, NoGuardNoTxn, CommitLoop,
         DurableIsDone, DurableWasStarted, RollbackLoop, OnlyWritersWrite,
         CompletedIsIdle, CompletedIsAtomic, NoTxn, Backend, Phases, TxnStates

\* begin() returns.
LEMMA BeginReturnsIInv ==
    ASSUME IInv, NEW g \in Guard, BeginReturns(g)
    PROVE  IInv'
  BY SMTT(60) DEF BeginReturns, At, Goto, engine,
         IInv, TypeOK, WriterIsLive, NoGuardNoTxn, CommitLoop,
         DurableIsDone, DurableWasStarted, RollbackLoop, OnlyWritersWrite,
         CompletedIsIdle, CompletedIsAtomic, NoTxn, Backend, Phases, TxnStates

\* commit() returns: the loop invariant covers every backend.
LEMMA CommitReturnsIInv ==
    ASSUME IInv, NEW g \in Guard, CommitReturns(g)
    PROVE  IInv'
  BY SMTT(60) DEF CommitReturns, At, Goto, engine,
         IInv, TypeOK, WriterIsLive, NoGuardNoTxn, CommitLoop,
         DurableIsDone, DurableWasStarted, RollbackLoop, OnlyWritersWrite,
         CompletedIsIdle, CompletedIsAtomic, NoTxn, Backend, Phases, TxnStates

\* rollback() returns: the loop got past the first backend.
LEMMA RollbackReturnsIInv ==
    ASSUME IInv, NEW g \in Guard, RollbackReturns(g)
    PROVE  IInv'
  BY SMTT(60) DEF RollbackReturns, At, Goto, engine,
         IInv, TypeOK, WriterIsLive, NoGuardNoTxn, CommitLoop,
         DurableIsDone, DurableWasStarted, RollbackLoop, OnlyWritersWrite,
         CompletedIsIdle, CompletedIsAtomic, NoTxn, Backend, Phases, TxnStates

\* The destructors release every handle.
LEMMA DestroyIInv ==
    ASSUME IInv, NEW g \in Guard, Destroy(g)
    PROVE  IInv'
  BY SMTT(60) DEF Destroy, Goto,
         IInv, TypeOK, WriterIsLive, NoGuardNoTxn, CommitLoop,
         DurableIsDone, DurableWasStarted, RollbackLoop, OnlyWritersWrite,
         CompletedIsIdle, CompletedIsAtomic, NoTxn, Backend, Phases, TxnStates

\* A client write needs a live transaction.
LEMMA ModifyIInv ==
    ASSUME IInv, NEW g \in Guard, NEW b \in Backend, Modify(g, b)
    PROVE  IInv'
  BY SMTT(60) DEF Modify, m_completed, engine,
         IInv, TypeOK, WriterIsLive, NoGuardNoTxn, CommitLoop,
         DurableIsDone, DurableWasStarted, RollbackLoop, OnlyWritersWrite,
         CompletedIsIdle, CompletedIsAtomic, NoTxn, Backend, Phases, TxnStates

\* The after_transaction loop.
LEMMA AfterTransactionIInv ==
    ASSUME IInv, NEW g \in Guard, NEW b \in Backend, AfterTransaction(g, b)
    PROVE  IInv'
  <1> USE DEF Backend
  <1>0. /\ TypeOK /\ WriterIsLive /\ NoGuardNoTxn /\ CommitLoop /\ DurableIsDone
        /\ DurableWasStarted /\ RollbackLoop /\ OnlyWritersWrite /\ CompletedIsIdle
        /\ CompletedIsAtomic
    BY DEF IInv
  <1>1. PICK W \in SUBSET Backend :
            /\ written' = [written EXCEPT ![g] = W]
            /\ written[g] \subseteq W
            /\ \A c \in W \ written[g] : mode[g] = "WRITABLE" /\ txn[g][c] = "live"
    <2>1. CASE UNCHANGED written
      BY <1>0, <2>1, SMTT(60) DEF TypeOK
    <2>2. CASE ~ UNCHANGED written
      <3>1. /\ mode[g] = "WRITABLE" /\ txn[g][b] = "live"
            /\ written' = [written EXCEPT ![g] = written[g] \cup {b}]
        BY <2>2 DEF AfterTransaction
      <3>2. written \in [Guard -> SUBSET Backend]
        BY <1>0 DEF TypeOK
      <3>3. written[g] \cup {b} \in SUBSET Backend
        BY <3>2
      <3> QED BY <3>1, <3>3
    <2> QED BY <2>1, <2>2
  <1>2. /\ phase[g] = "hooks" /\ idx[g] = b
        /\ \/ b < N /\ phase' = phase /\ idx' = [idx EXCEPT ![g] = b + 1]
           \/ b >= N /\ phase' = [phase EXCEPT ![g] = "committing"]
                     /\ idx' = [idx EXCEPT ![g] = 1]
        /\ UNCHANGED <<mode, outcome, txn, writer, durable, rdonly, faults>>
    BY NAssumption, SMTT(60) DEF AfterTransaction, At, Advance, Goto, engine
  <1>3. written'[g] = W /\ \A h \in Guard : h # g => written'[h] = written[h]
    BY <1>0, <1>1, SMTT(60) DEF TypeOK
  <1>4. \A h \in Guard : h # g => phase'[h] = phase[h] /\ idx'[h] = idx[h]
    BY <1>0, <1>2, SMTT(60) DEF TypeOK
  <1>5. \/ phase'[g] = "hooks"
        \/ phase'[g] = "committing" /\ idx'[g] = 1
    BY <1>0, <1>2, SMTT(60) DEF TypeOK
  <1>6. outcome[g] = "none"
    BY <1>0, <1>2 DEF CompletedIsIdle
  <1>7. TypeOK'
    <2>1. phase' \in [Guard -> Phases]
      <3>1. phase \in [Guard -> Phases] /\ "committing" \in Phases
        BY <1>0 DEF TypeOK, Phases
      <3> QED BY <1>2, <3>1
    <2>2. idx' \in [Guard -> 1..(N + 1)]
      <3>1. idx \in [Guard -> 1..(N + 1)]
        BY <1>0 DEF TypeOK
      <3>2. 1 \in 1..(N + 1) /\ (b < N => b + 1 \in 1..(N + 1))
        BY NAssumption
      <3> QED BY <1>2, <3>1, <3>2
    <2>3. written' \in [Guard -> SUBSET Backend]
      BY <1>0, <1>1, SMTT(60) DEF TypeOK
    <2> QED BY <1>0, <1>2, <2>1, <2>2, <2>3 DEF TypeOK
  <1>8. WriterIsLive'
    BY <1>0, <1>2 DEF WriterIsLive
  <1>9. NoGuardNoTxn'
    BY <1>0, <1>2, <1>4, <1>5, SMTT(60) DEF NoGuardNoTxn
  <1>10. CommitLoop'
    BY <1>0, <1>2, <1>3, <1>4, <1>5, SMTT(60) DEF CommitLoop
  <1>11. DurableIsDone'
    <2> SUFFICES ASSUME NEW h \in Guard, NEW d \in Backend, NEW c \in Backend,
                        h \in durable[d], c <= d
                 PROVE  txn[h][c] = "null" /\ (c \in written'[h] => h \in durable[c])
      BY <1>0, <1>2 DEF DurableIsDone
    <2>1. txn[h][c] = "null" /\ (c \in written[h] => h \in durable[c])
      BY <1>0 DEF DurableIsDone
    <2> QED BY <1>0, <1>1, <1>3, <2>1
  <1>12. DurableWasStarted'
    BY <1>0, <1>2, <1>4, <1>5, SMTT(60) DEF DurableWasStarted
  <1>13. RollbackLoop'
    BY <1>0, <1>2, <1>4, <1>5, SMTT(60) DEF RollbackLoop
  <1>14. OnlyWritersWrite'
    <2> SUFFICES ASSUME NEW h \in Guard, written'[h] # {}
                 PROVE  mode[h] = "WRITABLE" /\ phase'[h] # "absent"
      BY <1>2 DEF OnlyWritersWrite
    <2>1. CASE h = g
      <3>1. W # {} /\ phase'[g] # "absent"
        BY <1>3, <1>5, <2>1
      <3>2. mode[g] = "WRITABLE"
        BY <1>0, <1>1, <3>1 DEF OnlyWritersWrite
      <3> QED BY <2>1, <3>1, <3>2
    <2>2. CASE h # g
      BY <1>0, <1>3, <1>4, <2>2 DEF OnlyWritersWrite
    <2> QED BY <2>1, <2>2
  <1>15. CompletedIsIdle'
    BY <1>0, <1>2, <1>4, <1>6, SMTT(60) DEF CompletedIsIdle
  <1>16. CompletedIsAtomic'
    BY <1>0, <1>2, <1>3, <1>6, SMTT(60) DEF CompletedIsAtomic
  <1> QED BY <1>7, <1>8, <1>9, <1>10, <1>11, <1>12, <1>13, <1>14, <1>15, <1>16 DEF IInv

\* after_transaction throws.
LEMMA AfterTransactionFailsIInv ==
    ASSUME IInv, NEW g \in Guard, NEW b \in Backend, AfterTransactionFails(g, b)
    PROVE  IInv'
  <1>1. CASE mode[g] = "WRITABLE" /\ txn[g][b] = "live"
    BY <1>1, SMTT(60) DEF AfterTransactionFails, At, Throw, Goto, Fault, engine,
         IInv, TypeOK, WriterIsLive, NoGuardNoTxn, CommitLoop,
         DurableIsDone, DurableWasStarted, RollbackLoop, OnlyWritersWrite,
         CompletedIsIdle, CompletedIsAtomic, NoTxn, Backend, Phases, TxnStates
  <1>2. CASE ~(mode[g] = "WRITABLE" /\ txn[g][b] = "live")
    BY <1>2, SMTT(60) DEF AfterTransactionFails, At, Throw, Goto, Fault, engine,
         IInv, TypeOK, WriterIsLive, NoGuardNoTxn, CommitLoop,
         DurableIsDone, DurableWasStarted, RollbackLoop, OnlyWritersWrite,
         CompletedIsIdle, CompletedIsAtomic, NoTxn, Backend, Phases, TxnStates
  <1> QED BY <1>1, <1>2 DEF AfterTransactionFails, At, Throw, Goto, Fault, engine

\* The begin loop takes the write lock.
LEMMA BeginWritableIInv ==
    ASSUME IInv, NEW g \in Guard, NEW b \in Backend, TxnBeginWritable(g, b)
    PROVE  IInv'
  BY SMTT(60) DEF TxnBeginWritable, At, SetTxn, Advance,
         IInv, TypeOK, WriterIsLive, NoGuardNoTxn, CommitLoop,
         DurableIsDone, DurableWasStarted, RollbackLoop, OnlyWritersWrite,
         CompletedIsIdle, CompletedIsAtomic, NoTxn, Backend, Phases, TxnStates

\* The begin loop renews the read handle.
LEMMA BeginReadOnlyIInv ==
    ASSUME IInv, NEW g \in Guard, NEW b \in Backend, TxnBeginReadOnly(g, b)
    PROVE  IInv'
  BY SMTT(60) DEF TxnBeginReadOnly, At, SetTxn, Advance,
         IInv, TypeOK, WriterIsLive, NoGuardNoTxn, CommitLoop,
         DurableIsDone, DurableWasStarted, RollbackLoop, OnlyWritersWrite,
         CompletedIsIdle, CompletedIsAtomic, NoTxn, Backend, Phases, TxnStates

\* begin() meets its own transaction.
LEMMA BeginAgainIInv ==
    ASSUME IInv, NEW g \in Guard, NEW b \in Backend, TxnBeginAgain(g, b)
    PROVE  IInv'
  BY SMTT(60) DEF TxnBeginAgain, At, Throw, Goto, engine,
         IInv, TypeOK, WriterIsLive, NoGuardNoTxn, CommitLoop,
         DurableIsDone, DurableWasStarted, RollbackLoop, OnlyWritersWrite,
         CompletedIsIdle, CompletedIsAtomic, NoTxn, Backend, Phases, TxnStates

\* The engine refuses a transaction.
LEMMA BeginFailsIInv ==
    ASSUME IInv, NEW g \in Guard, NEW b \in Backend, TxnBeginFails(g, b)
    PROVE  IInv'
  <1> USE DEF Backend
  <1>0. /\ TypeOK /\ WriterIsLive /\ NoGuardNoTxn /\ CommitLoop /\ DurableIsDone
        /\ DurableWasStarted /\ RollbackLoop /\ OnlyWritersWrite /\ CompletedIsIdle
        /\ CompletedIsAtomic
    BY DEF IInv
  <1>1. /\ phase[g] = "beginning" /\ phase' = [phase EXCEPT ![g] = "created"]
        /\ UNCHANGED <<mode, idx, outcome, written, writer, durable, rdonly>>
    BY SMTT(60) DEF TxnBeginFails, At, Throw, Goto, engine
  <1>2. faults' \in 0..MaxFaults
    BY <1>0, FaultsAssumption, SMTT(60) DEF TxnBeginFails, Fault, TypeOK
  <1>3. PICK s \in TxnStates : /\ txn' = [txn EXCEPT ![g][b] = s]
                               /\ mode[g] # "READ_ONLY" => s = txn[g][b]
    <2>1. CASE mode[g] = "READ_ONLY"
      BY <2>1 DEF TxnBeginFails, SetTxn, TxnStates
    <2>2. CASE mode[g] # "READ_ONLY"
      <3>1. txn' = txn
        BY <2>2 DEF TxnBeginFails
      <3>2. txn = [txn EXCEPT ![g][b] = txn[g][b]] /\ txn[g][b] \in TxnStates
        BY <1>0, SMTT(60) DEF TypeOK
      <3> QED BY <3>1, <3>2, <2>2
    <2> QED BY <2>1, <2>2
  <1>4. /\ txn' \in [Guard -> [Backend -> TxnStates]]
        /\ \A h \in Guard : \A c \in Backend : h # g => txn'[h][c] = txn[h][c]
        /\ \A c \in Backend : mode[g] # "READ_ONLY" => txn'[g][c] = txn[g][c]
    BY <1>0, <1>3, SMTT(60) DEF TypeOK
  <1>5. /\ phase'[g] = "created"
        /\ \A h \in Guard : h # g => phase'[h] = phase[h]
    BY <1>0, <1>1, SMTT(60) DEF TypeOK
  <1>6. \A c \in Backend : g \notin durable[c]
    BY <1>0, <1>1 DEF DurableWasStarted
  <1>7. outcome[g] = "none"
    BY <1>0, <1>1 DEF CompletedIsIdle
  <1>8. TypeOK'
    <2>1. phase' \in [Guard -> Phases]
      BY <1>0, <1>1, SMTT(60) DEF TypeOK, Phases
    <2> QED BY <1>0, <1>1, <1>2, <1>4, <2>1 DEF TypeOK
  <1>9. WriterIsLive'
    <2> SUFFICES ASSUME NEW h \in Guard, NEW c \in Backend
                 PROVE  writer[c] = h <=> (mode[h] = "WRITABLE" /\ txn'[h][c] = "live")
      BY <1>1 DEF WriterIsLive
    <2>1. writer[c] = h <=> (mode[h] = "WRITABLE" /\ txn[h][c] = "live")
      BY <1>0 DEF WriterIsLive
    <2>2. mode[h] = "WRITABLE" => txn'[h][c] = txn[h][c]
      BY <1>4
    <2> QED BY <2>1, <2>2
  <1>10. NoGuardNoTxn'
    BY <1>0, <1>4, <1>5, SMTT(60) DEF NoGuardNoTxn
  <1>11. CommitLoop'
    BY <1>0, <1>1, <1>4, <1>5, SMTT(60) DEF CommitLoop
  <1>12. DurableIsDone'
    BY <1>0, <1>1, <1>4, <1>6, SMTT(60) DEF DurableIsDone
  <1>13. DurableWasStarted' /\ RollbackLoop'
    BY <1>0, <1>1, <1>5, <1>6, SMTT(60) DEF DurableWasStarted, RollbackLoop
  <1>14. OnlyWritersWrite' /\ CompletedIsIdle' /\ CompletedIsAtomic'
    BY <1>0, <1>1, <1>5, <1>7, SMTT(60) DEF OnlyWritersWrite, CompletedIsIdle, CompletedIsAtomic
  <1> QED BY <1>8, <1>9, <1>10, <1>11, <1>12, <1>13, <1>14 DEF IInv

\* One backend commits.
LEMMA CommitTxnIInv ==
    ASSUME IInv, NEW g \in Guard, NEW b \in Backend, TxnCommitWritable(g, b)
    PROVE  IInv'
  BY SMTT(60) DEF TxnCommitWritable, At, SetTxn, ReleaseWriter, Advance,
         IInv, TypeOK, WriterIsLive, NoGuardNoTxn, CommitLoop,
         DurableIsDone, DurableWasStarted, RollbackLoop, OnlyWritersWrite,
         CompletedIsIdle, CompletedIsAtomic, NoTxn, Backend, Phases, TxnStates

\* One backend fails to commit.
LEMMA CommitFailsIInv ==
    ASSUME IInv, NEW g \in Guard, NEW b \in Backend, TxnCommitFails(g, b)
    PROVE  IInv'
  <1>1. CASE SetTxn(g, b, "dead") /\ ReleaseWriter(b)
    BY <1>1, SMTT(60) DEF TxnCommitFails, At, SetTxn, ReleaseWriter, Throw, Goto, Fault,
         IInv, TypeOK, WriterIsLive, NoGuardNoTxn, CommitLoop,
         DurableIsDone, DurableWasStarted, RollbackLoop, OnlyWritersWrite,
         CompletedIsIdle, CompletedIsAtomic, NoTxn, Backend, Phases, TxnStates
  <1>2. CASE UNCHANGED <<txn, writer>>
    BY <1>2, SMTT(60) DEF TxnCommitFails, At, SetTxn, ReleaseWriter, Throw, Goto, Fault,
         IInv, TypeOK, WriterIsLive, NoGuardNoTxn, CommitLoop,
         DurableIsDone, DurableWasStarted, RollbackLoop, OnlyWritersWrite,
         CompletedIsIdle, CompletedIsAtomic, NoTxn, Backend, Phases, TxnStates
  <1> QED BY <1>1, <1>2 DEF TxnCommitFails, At, SetTxn, ReleaseWriter, Throw, Goto, Fault

\* One backend rolls back: its transaction was live, so nothing is durable.
LEMMA AbortIInv ==
    ASSUME IInv, NEW g \in Guard, NEW b \in Backend, TxnAbort(g, b)
    PROVE  IInv'
  BY SMTT(60) DEF TxnAbort, At, SetTxn, ReleaseWriter, Advance,
         IInv, TypeOK, WriterIsLive, NoGuardNoTxn, CommitLoop,
         DurableIsDone, DurableWasStarted, RollbackLoop, OnlyWritersWrite,
         CompletedIsIdle, CompletedIsAtomic, NoTxn, Backend, Phases, TxnStates

\* One backend fails to roll back.
LEMMA AbortFailsIInv ==
    ASSUME IInv, NEW g \in Guard, NEW b \in Backend, TxnAbortFails(g, b)
    PROVE  IInv'
  <1>1. CASE SetTxn(g, b, "dead") /\ ReleaseWriter(b)
    BY <1>1, SMTT(60) DEF TxnAbortFails, At, SetTxn, ReleaseWriter, Throw, Goto, Fault,
         IInv, TypeOK, WriterIsLive, NoGuardNoTxn, CommitLoop,
         DurableIsDone, DurableWasStarted, RollbackLoop, OnlyWritersWrite,
         CompletedIsIdle, CompletedIsAtomic, NoTxn, Backend, Phases, TxnStates
  <1>2. CASE UNCHANGED <<txn, writer>>
    BY <1>2, SMTT(60) DEF TxnAbortFails, At, SetTxn, ReleaseWriter, Throw, Goto, Fault,
         IInv, TypeOK, WriterIsLive, NoGuardNoTxn, CommitLoop,
         DurableIsDone, DurableWasStarted, RollbackLoop, OnlyWritersWrite,
         CompletedIsIdle, CompletedIsAtomic, NoTxn, Backend, Phases, TxnStates
  <1> QED BY <1>1, <1>2 DEF TxnAbortFails, At, SetTxn, ReleaseWriter, Throw, Goto, Fault

\* A read-only transaction ends.
LEMMA ResetIInv ==
    ASSUME IInv, NEW g \in Guard, NEW b \in Backend, NEW p \in {"committing", "rollback"},
           TxnReset(g, b, p)
    PROVE  IInv'
  <1>1. CASE p = "committing"
    BY <1>1, SMTT(60) DEF TxnReset, At, SetTxn, Advance,
         IInv, TypeOK, WriterIsLive, NoGuardNoTxn, CommitLoop,
         DurableIsDone, DurableWasStarted, RollbackLoop, OnlyWritersWrite,
         CompletedIsIdle, CompletedIsAtomic, NoTxn, Backend, Phases, TxnStates
  <1>2. CASE p = "rollback"
    BY <1>2, SMTT(60) DEF TxnReset, At, SetTxn, Advance,
         IInv, TypeOK, WriterIsLive, NoGuardNoTxn, CommitLoop,
         DurableIsDone, DurableWasStarted, RollbackLoop, OnlyWritersWrite,
         CompletedIsIdle, CompletedIsAtomic, NoTxn, Backend, Phases, TxnStates
  <1> QED BY <1>1, <1>2 DEF TxnReset, At, SetTxn, Advance

\* A read-only transaction cannot be reset.
LEMMA ResetFailsIInv ==
    ASSUME IInv, NEW g \in Guard, NEW b \in Backend, NEW p \in {"committing", "rollback"},
           TxnResetFails(g, b, p)
    PROVE  IInv'
  BY SMTT(60) DEF TxnResetFails, At, Throw, Goto, Fault, engine,
         IInv, TypeOK, WriterIsLive, NoGuardNoTxn, CommitLoop,
         DurableIsDone, DurableWasStarted, RollbackLoop, OnlyWritersWrite,
         CompletedIsIdle, CompletedIsAtomic, NoTxn, Backend, Phases, TxnStates

\* commit() or rollback() meets a transaction that is not active.
LEMMA NotActiveIInv ==
    ASSUME IInv, NEW g \in Guard, NEW b \in Backend, NEW p \in {"committing", "rollback"},
           TxnNotActive(g, b, p)
    PROVE  IInv'
  BY SMTT(60) DEF TxnNotActive, At, Throw, Goto, engine,
         IInv, TypeOK, WriterIsLive, NoGuardNoTxn, CommitLoop,
         DurableIsDone, DurableWasStarted, RollbackLoop, OnlyWritersWrite,
         CompletedIsIdle, CompletedIsAtomic, NoTxn, Backend, Phases, TxnStates

\* The process dies.
LEMMA CrashIInv ==
    ASSUME IInv, Crash
    PROVE  IInv'
  <1> USE DEF Backend
  <1>0. /\ TypeOK /\ WriterIsLive /\ NoGuardNoTxn /\ CommitLoop /\ DurableIsDone
        /\ DurableWasStarted /\ RollbackLoop /\ OnlyWritersWrite /\ CompletedIsIdle
        /\ CompletedIsAtomic
    BY DEF IInv
  <1>1. /\ phase' = [g \in Guard |-> IF phase[g] = "absent" THEN "absent" ELSE "gone"]
        /\ txn' = [g \in Guard |-> NoTxn]
        /\ writer' = [b \in Backend |-> NoGuard]
        /\ rdonly' = [b \in Backend |-> FALSE]
        /\ UNCHANGED <<mode, idx, outcome, written, durable>>
    BY DEF Crash
  <1>2. /\ \A g \in Guard : \A b \in Backend : txn'[g][b] = "null"
        /\ \A g \in Guard : phase'[g] \in {"absent", "gone"}
        /\ \A g \in Guard : phase'[g] = "absent" <=> phase[g] = "absent"
        /\ \A b \in Backend : writer'[b] = NoGuard
    BY <1>0, <1>1, SMTT(60) DEF NoTxn
  <1>3. TypeOK'
    BY <1>0, <1>1, FaultsAssumption, SMTT(60) DEF TypeOK, Phases, TxnStates, NoTxn, Crash, Fault
  <1>4. WriterIsLive' /\ NoGuardNoTxn' /\ CommitLoop' /\ RollbackLoop'
    BY <1>0, <1>2, NoGuardAssumption, SMTT(60)
       DEF WriterIsLive, NoGuardNoTxn, CommitLoop, RollbackLoop
  <1>5. DurableIsDone'
    BY <1>0, <1>1, <1>2, SMTT(60) DEF DurableIsDone
  <1>6. DurableWasStarted'
    BY <1>0, <1>1, <1>2, SMTT(60) DEF DurableWasStarted
  <1>7. OnlyWritersWrite' /\ CompletedIsAtomic'
    BY <1>0, <1>1, <1>2, SMTT(60) DEF OnlyWritersWrite, CompletedIsAtomic
  <1>8. CompletedIsIdle'
    BY <1>0, <1>1, <1>2, SMTT(60) DEF CompletedIsIdle, TypeOK
  <1> QED BY <1>3, <1>4, <1>5, <1>6, <1>7, <1>8 DEF IInv

\* Stuttering.
LEMMA StutterIInv ==
    ASSUME IInv, UNCHANGED vars
    PROVE  IInv'
  BY SMTT(60) DEF vars, engine,
         IInv, TypeOK, WriterIsLive, NoGuardNoTxn, CommitLoop,
         DurableIsDone, DurableWasStarted, RollbackLoop, OnlyWritersWrite,
         CompletedIsIdle, CompletedIsAtomic, NoTxn, Backend, Phases, TxnStates

-----------------------------------------------------------------------------
(* The safety properties are consequences of the inductive invariant.      *)

\* Every step of the guards preserves the invariant.
LEMMA NextIInv == IInv /\ [Next]_vars => IInv'
  <1> SUFFICES ASSUME IInv, [Next]_vars PROVE IInv'
    OBVIOUS
  <1>1. ASSUME NEW g \in Guard, NEW m \in Modes, create_guard(g, m) PROVE IInv'
    BY <1>1, CreateIInv
  <1>2. ASSUME NEW g \in Guard,
               begin(g) \/ commit(g) \/ rollback(g) \/ Destroy(g)
               \/ BeginReturns(g) \/ CommitReturns(g) \/ RollbackReturns(g)
        PROVE  IInv'
    BY <1>2, BeginIInv, CommitIInv, RollbackIInv, DestroyIInv, BeginReturnsIInv,
       CommitReturnsIInv, RollbackReturnsIInv
  <1>3. ASSUME NEW g \in Guard, NEW b \in Backend,
               \/ Modify(g, b) \/ TxnBeginWritable(g, b) \/ TxnBeginReadOnly(g, b)
               \/ TxnBeginAgain(g, b) \/ TxnBeginFails(g, b)
               \/ AfterTransaction(g, b) \/ AfterTransactionFails(g, b)
               \/ TxnCommitWritable(g, b) \/ TxnCommitFails(g, b)
               \/ TxnAbort(g, b) \/ TxnAbortFails(g, b)
        PROVE  IInv'
    BY <1>3, ModifyIInv, BeginWritableIInv, BeginReadOnlyIInv, BeginAgainIInv,
       BeginFailsIInv, AfterTransactionIInv, AfterTransactionFailsIInv,
       CommitTxnIInv, CommitFailsIInv, AbortIInv, AbortFailsIInv
  <1>4. ASSUME NEW g \in Guard, NEW b \in Backend, NEW p \in {"committing", "rollback"},
               TxnReset(g, b, p) \/ TxnResetFails(g, b, p) \/ TxnNotActive(g, b, p)
        PROVE  IInv'
    BY <1>4, ResetIInv, ResetFailsIInv, NotActiveIInv
  <1> QED BY <1>1, <1>2, <1>3, <1>4, CrashIInv, StutterIInv, NextCases

\* The invariant holds in every reachable state.
THEOREM Inductive == Spec => []IInv
  BY InitIInv, NextIInv, PTL DEF Spec

\* Every variable keeps its type, whatever fails.
THEOREM TypeCorrect == Spec => []TypeOK
  <1>1. IInv => TypeOK
    BY DEF IInv
  <1> QED BY <1>1, Inductive, PTL

\* A destroyed guard leaves no write lock behind (~MDBXTransaction).
THEOREM NoOrphanedWriterHolds == Spec => []NoOrphanedWriter
  <1>1. IInv => NoOrphanedWriter
    <2> SUFFICES ASSUME IInv, NEW b \in Backend, writer[b] # NoGuard
                 PROVE  phase[writer[b]] \notin {"absent", "gone"}
      BY DEF NoOrphanedWriter
    <2>1. PICK g \in Guard : writer[b] = g
      BY DEF IInv, TypeOK
    <2>2. txn[g][b] = "live"
      BY <2>1 DEF IInv, WriterIsLive
    <2> QED BY <2>1, <2>2 DEF IInv, NoGuardNoTxn
  <1> QED BY <1>1, Inductive, PTL

\* After any failure or crash the durable writes of a guard are a prefix of
\* the backends it wrote (the commit loop of TransactionGuard::commit).
THEOREM CommitIsPrefixHolds == Spec => []CommitIsPrefix
  <1>1. IInv => CommitIsPrefix
    BY DEF IInv, DurableIsDone, CommitIsPrefix, Backend
  <1> QED BY <1>1, Inductive, PTL

\* commit() and rollback() that return have treated every backend alike.
THEOREM CompletedIsAtomicHolds == Spec => []CompletedIsAtomic
  <1>1. IInv => CompletedIsAtomic
    BY DEF IInv
  <1> QED BY <1>1, Inductive, PTL

\* Durable data is added only by a running commit loop and never removed.
THEOREM OnlyCommitPublishesHolds == Spec => OnlyCommitPublishes
  <1>1. IInv /\ [Next]_vars => [PublishStep]_vars
    <2> SUFFICES ASSUME IInv, Next PROVE PublishStep
      OBVIOUS
    <2>1. CASE durable' = durable
      BY <2>1 DEF PublishStep
    <2>2. ASSUME NEW g \in Guard, NEW b \in Backend, TxnCommitWritable(g, b)
          PROVE  PublishStep
      <3>1. /\ phase[g] = "committing"
            /\ \/ durable' = [durable EXCEPT ![b] = durable[b] \cup {g}]
               \/ durable' = [durable EXCEPT ![b] = durable[b]]
        BY <2>2 DEF TxnCommitWritable, At
      <3>2. durable \in [Backend -> SUBSET Guard]
        BY DEF IInv, TypeOK
      <3> QED BY <3>1, <3>2 DEF PublishStep
    <2> QED
      BY <2>1, <2>2, NextCases
         DEF create_guard, begin, commit, rollback, Destroy, BeginReturns, CommitReturns,
             RollbackReturns, Modify, TxnBeginWritable, TxnBeginReadOnly, TxnBeginAgain,
             TxnBeginFails, AfterTransaction, AfterTransactionFails, TxnCommitFails,
             TxnAbort, TxnAbortFails, TxnReset, TxnResetFails, TxnNotActive, Crash, engine, vars
  <1> QED BY <1>1, Inductive, PTL DEF Spec, OnlyCommitPublishes

-----------------------------------------------------------------------------
(* The guards implement GuardContract: every step is a step of the         *)
(* contract or leaves the contract's three variables as they are.          *)

Verdicts == [g \in Guard |-> verdictOf(g)]

\* The verdict of a guard changes only with its outcome or its destruction.
LEMMA VerdictsKept ==
    ASSUME outcome' = outcome,
           \A g \in Guard : phase'[g] = "gone" <=> phase[g] = "gone"
    PROVE  Verdicts' = Verdicts
  <1>1. ASSUME NEW g \in Guard PROVE verdictOf(g)' = verdictOf(g)
    BY DEF verdictOf
  <1> QED BY <1>1 DEF Verdicts

\* A running guard is open in the contract.
LEMMA RunningIsOpen ==
    ASSUME IInv, NEW g \in Guard, phase[g] # "gone", outcome[g] = "none"
    PROVE  Verdicts[g] = "open"
  BY DEF Verdicts, verdictOf

\* A write to a backend whose transaction is live stages it.
LEMMA WriteRefines ==
    ASSUME IInv, NEW g \in Guard, NEW b \in Backend, txn[g][b] = "live",
           phase[g] # "gone", outcome[g] = "none",
           written' = [written EXCEPT ![g] = @ \cup {b}],
           durable' = durable, Verdicts' = Verdicts
    PROVE  Contract!Stage(g, b)
  <1>1. ASSUME NEW c \in Backend, g \in durable[c] PROVE c < b
    <2>1. CASE b <= c
      BY <1>1, <2>1 DEF IInv, DurableIsDone
    <2> QED BY <2>1 DEF Backend
  <1> QED BY <1>1, RunningIsOpen DEF Contract!Stage, Contract!Backends, Backend, Verdicts

\* The commit of one backend publishes the guard's writes there.
LEMMA CommitRefines ==
    ASSUME IInv, NEW g \in Guard, NEW b \in Backend, TxnCommitWritable(g, b),
           Verdicts' = Verdicts
    PROVE  Contract!Publish(g, b) \/ UNCHANGED Contract!cvars
  <1>1. phase[g] = "committing" /\ idx[g] = b /\ written' = written
    BY DEF TxnCommitWritable, At
  <1>2. Verdicts[g] = "open"
    BY <1>1, RunningIsOpen DEF IInv, CompletedIsIdle
  <1>3. CASE b \in written[g]
    <2>1. durable' = [durable EXCEPT ![b] = @ \cup {g}]
      BY <1>3 DEF TxnCommitWritable
    <2>2. \A c \in written[g] : c < b => g \in durable[c]
      BY <1>1 DEF IInv, CommitLoop, TypeOK
    <2> QED BY <1>1, <1>2, <1>3, <2>1, <2>2 DEF Contract!Publish, Verdicts
  <1>4. CASE b \notin written[g]
    <2>1. durable' = durable
      BY <1>4 DEF TxnCommitWritable, IInv, TypeOK
    <2> QED BY <1>1, <2>1 DEF Contract!cvars, Verdicts
  <1> QED BY <1>3, <1>4

\* commit() returns when every written backend has been published.
LEMMA CommitReturnsRefines ==
    ASSUME IInv, NEW g \in Guard, CommitReturns(g)
    PROVE  Contract!Committed(g)
  <1>1. /\ phase[g] = "committing" /\ idx[g] = N + 1
        /\ phase' = [phase EXCEPT ![g] = "active"]
        /\ outcome' = [outcome EXCEPT ![g] = "commit"]
        /\ UNCHANGED <<written, durable>>
    BY DEF CommitReturns, At, Goto, engine
  <1>2. Verdicts[g] = "open"
    BY <1>1, RunningIsOpen DEF IInv, CompletedIsIdle
  <1>3. \A b \in written[g] : g \in durable[b]
    BY <1>1, NAssumption DEF IInv, CommitLoop, TypeOK, Backend
  <1>4. Verdicts' = [Verdicts EXCEPT ![g] = "committed"]
    <2>1. ASSUME NEW h \in Guard
          PROVE  verdictOf(h)' = IF h = g THEN "committed" ELSE verdictOf(h)
      BY <1>1, <2>1, SMTT(60) DEF verdictOf, IInv, TypeOK
    <2> QED BY <2>1 DEF Verdicts
  <1> QED BY <1>1, <1>2, <1>3, <1>4 DEF Contract!Committed, Contract!Verdict, Verdicts

\* rollback() returns when nothing of the guard has been published.
LEMMA RollbackReturnsRefines ==
    ASSUME IInv, NEW g \in Guard, RollbackReturns(g)
    PROVE  Contract!RolledBack(g)
  <1>1. /\ phase[g] = "rollback" /\ idx[g] = N + 1
        /\ phase' = [phase EXCEPT ![g] = "active"]
        /\ outcome' = [outcome EXCEPT ![g] = "rollback"]
        /\ UNCHANGED <<written, durable>>
    BY DEF RollbackReturns, At, Goto, engine
  <1>2. Verdicts[g] = "open"
    BY <1>1, RunningIsOpen DEF IInv, CompletedIsIdle
  <1>3. \A b \in Backend : g \notin durable[b]
    BY <1>1, NAssumption DEF IInv, RollbackLoop
  <1>4. Verdicts' = [Verdicts EXCEPT ![g] = "rolledback"]
    <2>1. ASSUME NEW h \in Guard
          PROVE  verdictOf(h)' = IF h = g THEN "rolledback" ELSE verdictOf(h)
      BY <1>1, <2>1, SMTT(60) DEF verdictOf, IInv, TypeOK
    <2> QED BY <2>1 DEF Verdicts
  <1> QED
    BY <1>1, <1>2, <1>3, <1>4
       DEF Contract!RolledBack, Contract!Verdict, Contract!Backends, Backend, Verdicts

\* The destructors and the death of the process drop what is still open.
LEMMA DropRefines ==
    ASSUME IInv, (\E g \in Guard : Destroy(g)) \/ Crash
    PROVE  Contract!Drop
  <1>1. PICK S \in SUBSET Guard :
            \A h \in Guard : phase'[h] = IF h \in S THEN "gone" ELSE phase[h]
    <2>1. ASSUME NEW g \in Guard, Destroy(g)
          PROVE  \E S \in SUBSET Guard :
                    \A h \in Guard : phase'[h] = IF h \in S THEN "gone" ELSE phase[h]
      <3>1. phase' = [phase EXCEPT ![g] = "gone"] /\ phase \in [Guard -> Phases]
        BY <2>1 DEF Destroy, Goto, IInv, TypeOK
      <3> WITNESS {g} \in SUBSET Guard
      <3> QED BY <3>1
    <2>2. ASSUME Crash
          PROVE  \E S \in SUBSET Guard :
                    \A h \in Guard : phase'[h] = IF h \in S THEN "gone" ELSE phase[h]
      <3> WITNESS {h \in Guard : phase[h] # "absent"} \in SUBSET Guard
      <3> QED BY <2>2 DEF Crash
    <2> QED BY <2>1, <2>2
  <1>2. UNCHANGED <<outcome, written, durable>>
    BY DEF Destroy, Crash
  <1>3. ASSUME NEW h \in Guard
        PROVE  verdictOf(h)' = IF h \in S /\ verdictOf(h) = "open" THEN "dropped"
                               ELSE verdictOf(h)
    BY <1>1, <1>2, SMTT(60) DEF verdictOf, IInv, TypeOK
  <1> QED BY <1>2, <1>3 DEF Contract!Drop, Verdicts

\* Every step of the guards is a step of the contract or a stutter.
LEMMA NextRefines == IInv /\ [Next]_vars => [Contract!Next]_(Contract!cvars)
  <1> SUFFICES ASSUME IInv, [Next]_vars PROVE Contract!Next \/ UNCHANGED Contract!cvars
    OBVIOUS
  <1>1. CASE UNCHANGED vars
    <2>1. Verdicts' = Verdicts
      BY <1>1, VerdictsKept DEF vars
    <2> QED BY <1>1, <2>1 DEF vars, engine, Contract!cvars, Verdicts
  <1>2. ASSUME Verdicts' = Verdicts, written' = written, durable' = durable
        PROVE  UNCHANGED Contract!cvars
    BY <1>2 DEF Contract!cvars, Verdicts
  <1>3. ASSUME NEW g \in Guard, NEW m \in Modes, create_guard(g, m)
        PROVE  UNCHANGED Contract!cvars
    <2>1. \A h \in Guard : phase'[h] = "gone" <=> phase[h] = "gone"
      BY <1>3, SMTT(60) DEF create_guard, Goto, IInv, TypeOK
    <2>2. UNCHANGED <<outcome, written, durable>>
      BY <1>3 DEF create_guard, engine
    <2> QED BY <1>2, <2>1, <2>2, VerdictsKept
  <1>4. ASSUME NEW g \in Guard,
               begin(g) \/ commit(g) \/ rollback(g) \/ BeginReturns(g)
        PROVE  UNCHANGED Contract!cvars
    <2>1. \A h \in Guard : phase'[h] = "gone" <=> phase[h] = "gone"
      BY <1>4, SMTT(60) DEF begin, commit, rollback, BeginReturns, At, Goto, IInv, TypeOK
    <2>2. UNCHANGED <<outcome, written, durable>>
      BY <1>4 DEF begin, commit, rollback, BeginReturns, engine
    <2> QED BY <1>2, <2>1, <2>2, VerdictsKept
  <1>5. ASSUME NEW g \in Guard, CommitReturns(g) \/ RollbackReturns(g)
        PROVE  Contract!Next
    BY <1>5, CommitReturnsRefines, RollbackReturnsRefines DEF Contract!Next
  <1>6. ASSUME (\E g \in Guard : Destroy(g)) \/ Crash
        PROVE  Contract!Next
    BY <1>6, DropRefines DEF Contract!Next
  <1>7. ASSUME NEW g \in Guard, NEW b \in Backend, Modify(g, b)
        PROVE  Contract!Next
    <2>1. /\ phase[g] = "active" /\ outcome[g] = "none" /\ txn[g][b] = "live"
          /\ written' = [written EXCEPT ![g] = @ \cup {b}]
          /\ UNCHANGED <<phase, outcome, durable>>
      BY <1>7 DEF Modify, m_completed, engine
    <2>2. Verdicts' = Verdicts
      BY <2>1, VerdictsKept
    <2>3. Contract!Stage(g, b)
      BY <2>1, <2>2, WriteRefines
    <2> QED BY <2>3 DEF Contract!Next, Contract!Backends, Backend
  <1>8. ASSUME NEW g \in Guard, NEW b \in Backend, AfterTransaction(g, b)
        PROVE  Contract!Next \/ UNCHANGED Contract!cvars
    <2>1. /\ phase[g] = "hooks"
          /\ UNCHANGED <<outcome, durable>>
          /\ \/ written' = written
             \/ txn[g][b] = "live" /\ written' = [written EXCEPT ![g] = @ \cup {b}]
      BY <1>8 DEF AfterTransaction, At, engine
    <2>2. outcome[g] = "none"
      BY <2>1 DEF IInv, CompletedIsIdle
    <2>3. \A h \in Guard : phase'[h] = "gone" <=> phase[h] = "gone"
      BY <1>8, SMTT(60) DEF AfterTransaction, At, Advance, Goto, IInv, TypeOK
    <2>4. Verdicts' = Verdicts
      BY <2>1, <2>3, VerdictsKept
    <2>5. CASE written' = written
      BY <1>2, <2>1, <2>4, <2>5
    <2>6. CASE written' # written
      <3>1. Contract!Stage(g, b)
        BY <2>1, <2>2, <2>4, <2>6, WriteRefines
      <3> QED BY <3>1 DEF Contract!Next, Contract!Backends, Backend
    <2> QED BY <2>5, <2>6
  <1>9. ASSUME NEW g \in Guard, NEW b \in Backend,
                \/ TxnBeginWritable(g, b) \/ TxnBeginReadOnly(g, b)
                \/ TxnBeginAgain(g, b) \/ TxnBeginFails(g, b)
                \/ AfterTransactionFails(g, b) \/ TxnCommitWritable(g, b)
                \/ TxnCommitFails(g, b) \/ TxnAbort(g, b) \/ TxnAbortFails(g, b)
         PROVE  Contract!Next \/ UNCHANGED Contract!cvars
    <2>1. /\ outcome' = outcome /\ written' = written
          /\ ~TxnCommitWritable(g, b) => durable' = durable
      BY <1>9
         DEF TxnBeginWritable, TxnBeginReadOnly, TxnBeginAgain, TxnBeginFails,
             AfterTransactionFails, TxnCommitWritable, TxnCommitFails, TxnAbort, TxnAbortFails, engine
    <2>2. /\ phase[g] # "gone"
          /\ \/ phase' = phase
             \/ \E q \in {"created", "active"} : phase' = [phase EXCEPT ![g] = q]
      BY <1>9
         DEF TxnBeginWritable, TxnBeginReadOnly, TxnBeginAgain, TxnBeginFails,
             AfterTransactionFails, TxnCommitWritable, TxnCommitFails, TxnAbort, TxnAbortFails,
             At, Throw, Goto, Advance
    <2>3. \A h \in Guard : phase'[h] = "gone" <=> phase[h] = "gone"
      BY <2>2 DEF IInv, TypeOK
    <2>4. Verdicts' = Verdicts
      BY <2>1, <2>3, VerdictsKept
    <2>5. CASE TxnCommitWritable(g, b)
      BY <2>4, <2>5, CommitRefines DEF Contract!Next, Contract!Backends, Backend
    <2>6. CASE ~TxnCommitWritable(g, b)
      BY <1>2, <2>1, <2>4, <2>6
    <2> QED BY <2>5, <2>6
  <1>10. ASSUME NEW g \in Guard, NEW b \in Backend, NEW p \in {"committing", "rollback"},
                TxnReset(g, b, p) \/ TxnResetFails(g, b, p) \/ TxnNotActive(g, b, p)
         PROVE  UNCHANGED Contract!cvars
    <2>1. UNCHANGED <<outcome, written, durable>>
      BY <1>10 DEF TxnReset, TxnResetFails, TxnNotActive, engine
    <2>2. /\ phase[g] # "gone"
          /\ phase' = phase \/ phase' = [phase EXCEPT ![g] = "active"]
      BY <1>10 DEF TxnReset, TxnResetFails, TxnNotActive, At, Throw, Goto, Advance
    <2>3. \A h \in Guard : phase'[h] = "gone" <=> phase[h] = "gone"
      BY <2>2 DEF IInv, TypeOK
    <2> QED BY <1>2, <2>1, <2>3, VerdictsKept
  <1> QED BY <1>1, <1>3, <1>4, <1>5, <1>6, <1>7, <1>8, <1>9, <1>10, NextCases

\* Guards over any number of backends implement the contract, with failures
\* and crashes at every step.
THEOREM Refinement == Spec => ContractSpec
  <1>1. Init => Contract!Init
    BY DEF Init, Contract!Init, Contract!Backends, Backend, verdictOf
  <1> QED BY <1>1, Inductive, NextRefines, PTL DEF Spec, ContractSpec, Contract!Spec

=============================================================================
