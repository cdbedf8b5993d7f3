-------------------------- MODULE StorageHubProofs --------------------------
(* Proofs about StorageMetadata and StorageHub, for any number of          *)
(* backends, any identifiers, times and metadata.                          *)
EXTENDS StorageHub, FiniteSetTheorems, Numbers

-----------------------------------------------------------------------------
(* Metadata records                                                        *)

\* Records stay records.
LEMMA RecordTypes ==
    ASSUME NEW m \in Metadata, NEW o \in Metadata
    PROVE  merge_with(m, o) \in Metadata /\ subtract(m, o) \in Metadata
  BY DEF Metadata, merge_with, subtract

\* Records are equal when their fields are.
LEMMA SameFields ==
    ASSUME NEW m \in Metadata, NEW o \in Metadata,
           m.flags = o.flags, m.start = o.start, m.end = o.end, m.ids = o.ids
    PROVE  m = o
  BY DEF Metadata

\* A default-constructed record is one.
LEMMA NoMetadataType == NoMetadata \in Metadata
  BY DEF NoMetadata, Metadata

\* extend_metadata may be called in any order: merging commutes,
THEOREM MergeCommutes ==
    ASSUME NEW m \in Metadata, NEW o \in Metadata
    PROVE  merge_with(m, o) = merge_with(o, m)
  <1>1. m.start \in Nat /\ o.start \in Nat /\ m.end \in Nat /\ o.end \in Nat
    BY DEF Metadata
  <1>2. merge_with(m, o).start = merge_with(o, m).start
    BY <1>1 DEF merge_with
  <1>3. merge_with(m, o).end = merge_with(o, m).end
    BY <1>1 DEF merge_with
  <1>4. merge_with(m, o).flags = merge_with(o, m).flags
    BY DEF merge_with
  <1>5. merge_with(m, o).ids = merge_with(o, m).ids
    BY DEF merge_with
  <1>6. merge_with(m, o) \in Metadata /\ merge_with(o, m) \in Metadata
    BY RecordTypes
  <1> QED BY <1>2, <1>3, <1>4, <1>5, <1>6, SameFields

\* and is associative.
THEOREM MergeAssociates ==
    ASSUME NEW m \in Metadata, NEW o \in Metadata, NEW p \in Metadata
    PROVE  merge_with(merge_with(m, o), p) = merge_with(m, merge_with(o, p))
  <1> DEFINE l == merge_with(merge_with(m, o), p)
             r == merge_with(m, merge_with(o, p))
  <1>1. /\ m.start \in Nat /\ o.start \in Nat /\ p.start \in Nat
        /\ m.end \in Nat /\ o.end \in Nat /\ p.end \in Nat
    BY DEF Metadata
  <1>2. l.start = r.start
    BY <1>1 DEF merge_with
  <1>3. l.end = r.end
    BY <1>1 DEF merge_with
  <1>4. l.flags = r.flags
    BY DEF merge_with
  <1>5. l.ids = r.ids
    <2>1. l.ids = [k \in Kind |-> (m.ids[k] \cup o.ids[k]) \cup p.ids[k]]
      BY DEF merge_with
    <2>2. r.ids = [k \in Kind |-> m.ids[k] \cup (o.ids[k] \cup p.ids[k])]
      BY DEF merge_with
    <2> QED BY <2>1, <2>2
  <1>6. l \in Metadata /\ r \in Metadata
    BY RecordTypes
  <1> HIDE DEF l, r
  <1>7. l = r
    BY <1>2, <1>3, <1>4, <1>5, <1>6, SameFields
  <1> QED BY <1>7 DEF l, r

\* Merging metadata that is bounded, or unbounded, on the same sides loses
\* nothing that either record holds.
THEOREM MergeHoldsBoth ==
    ASSUME NEW m \in Metadata, NEW o \in Metadata, SameBounds(m, o),
           NEW f, NEW i, NEW t \in Nat, Holds(m, f, i, t) \/ Holds(o, f, i, t)
    PROVE  Holds(merge_with(m, o), f, i, t)
  <1>1. m.start \in Nat /\ o.start \in Nat /\ m.end \in Nat /\ o.end \in Nat
    BY DEF Metadata
  <1>2. contains_time(m, t) \/ contains_time(o, t)
    BY DEF Holds
  <1>3. contains_time(merge_with(m, o), t)
    BY <1>1, <1>2 DEF contains_time, merge_with, SameBounds
  <1>4. f \in merge_with(m, o).flags
    BY DEF Holds, merge_with
  <1>5. \A k \in Kind : has_id(merge_with(m, o), k, i[k])
    BY DEF Holds, merge_with, has_id
  <1> QED BY <1>3, <1>4, <1>5 DEF Holds

\* A new record holds what the metadata holds: there is no SameBounds to ask.
LEMMA FirstMergeHolds ==
    ASSUME NEW o \in Metadata
    PROVE  merge_with(NoMetadata, o) = o
  <1>1. merge_with(NoMetadata, o) \in Metadata
    BY NoMetadataType, RecordTypes
  <1>2. o.start \in Nat /\ o.end \in Nat /\ o.flags \subseteq Flag /\ o.ids \in [Kind -> SUBSET Id]
    BY DEF Metadata
  <1>3. merge_with(NoMetadata, o).start = o.start /\ merge_with(NoMetadata, o).end = o.end
    BY <1>2 DEF merge_with, NoMetadata
  <1>4. merge_with(NoMetadata, o).flags = o.flags
    BY DEF merge_with, NoMetadata
  <1>5. merge_with(NoMetadata, o).ids = o.ids
    BY <1>2 DEF merge_with, NoMetadata
  <1> QED BY <1>1, <1>3, <1>4, <1>5, SameFields

\* What subtract takes away by its flags or one of its lists is not held any
\* more, whatever happens to the time range.
THEOREM SubtractDenies ==
    ASSUME NEW m \in Metadata, NEW o \in Metadata, NEW f, NEW i, NEW t,
           f \in o.flags \/ \E k \in Kind : i[k] \in o.ids[k]
    PROVE  ~Holds(subtract(m, o), f, i, t)
  BY DEF Holds, has_id, subtract

-----------------------------------------------------------------------------
(* The hub                                                                 *)

\* A record of a table is a record.
LEMMA CurrentRecordType ==
    ASSUME NEW r, IsRecordTable(r), NEW b
    PROVE  CurrentRecord(r, b) \in Metadata
  BY NoMetadataType DEF CurrentRecord, IsRecordTable

\* Putting a record changes that record only.
LEMMA PutRecordType ==
    ASSUME NEW r, IsRecordTable(r), NEW b \in Backend, NEW m \in Metadata
    PROVE  /\ IsRecordTable(PutRecord(r, b, m))
           /\ DOMAIN PutRecord(r, b, m) = DOMAIN r \cup {b}
           /\ PutRecord(r, b, m)[b] = m
           /\ \A c \in DOMAIN r \ {b} : PutRecord(r, b, m)[c] = r[c]
  BY DEF PutRecord, IsRecordTable

\* The initial state satisfies the invariant.
LEMMA InitIInv == Init => IInv
  <1> SUFFICES ASSUME Init PROVE IInv
    OBVIOUS
  <1>1. /\ record = NoRecords /\ wrecord = NoRecords /\ bars = NoBars /\ wbars = NoBars
        /\ tx = "none" /\ m_storage_metadata = NoCopies
        /\ reader = {} /\ fresh = {} /\ threw = FALSE /\ faults = 0
    BY DEF Init
  <1>2. IsRecordTable(NoRecords) /\ NoBars \in BarTables /\ NoCopies \in [Backend -> Metadata]
    BY NoMetadataType DEF IsRecordTable, NoRecords, NoBars, BarTables, NoCopies
  <1>3. TypeOK
    <2>1. Cardinality(reader) <= 1 /\ faults \in 0..MaxFaults
      BY <1>1, FS_EmptySet, FaultAssumption
    <2> QED BY <1>1, <1>2, <2>1 DEF TypeOK
  <1>4. DescribedIn(NoRecords, NoBars)
    BY DEF DescribedIn, NoBars
  <1>5. Disjoint
    BY <1>1 DEF Disjoint, NoRecords
  <1> QED BY <1>1, <1>3, <1>4, <1>5 DEF IInv, Described, FreshCopies, IdleIsClean

\* The end of a transaction: every backend has its old tables or its new
\* ones, both described, and no mix of records overlaps.
LEMMA EndIInv ==
    ASSUME IInv, NEW P, EndWith(P), faults' \in 0..MaxFaults
    PROVE  IInv'
  <1>1. /\ tx' = "none" /\ wrecord' = record' /\ wbars' = bars' /\ fresh' = {} /\ threw' = FALSE
        /\ m_storage_metadata' = m_storage_metadata /\ reader' = reader
        /\ record' = [b \in (DOMAIN record \ P) \cup (DOMAIN wrecord \cap P) |->
                        IF b \in P THEN wrecord[b] ELSE record[b]]
        /\ bars' = [b \in Backend |-> IF b \in P THEN wbars[b] ELSE bars[b]]
    BY DEF EndWith
  <1>2. /\ IsRecordTable(record) /\ IsRecordTable(wrecord)
        /\ bars \in BarTables /\ wbars \in BarTables
    BY DEF IInv, TypeOK
  <1>3. \A b \in DOMAIN record' :
             \E r \in {record, wrecord} : b \in DOMAIN r /\ record'[b] = r[b]
    BY <1>1
  <1>4. IsRecordTable(record')
    BY <1>1, <1>2 DEF IsRecordTable
  <1>5. bars' \in BarTables
    BY <1>1, <1>2 DEF BarTables
  <1>6. DescribedIn(record', bars')
    <2> SUFFICES ASSUME NEW b \in Backend, NEW i \in Instrument, NEW s \in Segment,
                        bars'[b][i][s] # {}
                 PROVE  b \in DOMAIN record' /\ Holds(record'[b], "BARS", i, s * Duration)
      BY DEF DescribedIn
    <2>1. CASE b \in P
      <3>1. b \in DOMAIN wrecord /\ Holds(wrecord[b], "BARS", i, s * Duration)
        BY <1>1, <2>1 DEF IInv, DescribedIn
      <3> QED BY <1>1, <2>1, <3>1
    <2>2. CASE b \notin P
      <3>1. b \in DOMAIN record /\ Holds(record[b], "BARS", i, s * Duration)
        BY <1>1, <2>2 DEF IInv, Described, DescribedIn
      <3> QED BY <1>1, <2>2, <3>1
    <2> QED BY <2>1, <2>2
  <1>7. Disjoint'
    <2> SUFFICES ASSUME NEW b \in Backend, NEW c \in Backend, b # c,
                        b \in DOMAIN record', c \in DOMAIN record'
                 PROVE  ~Overlap(record'[b], record'[c])
      BY <1>1 DEF Disjoint, Overlap
    <2>1. PICK r \in {record, wrecord} : b \in DOMAIN r /\ record'[b] = r[b]
      BY <1>3
    <2>2. PICK q \in {record, wrecord} : c \in DOMAIN q /\ record'[c] = q[c]
      BY <1>3
    <2> QED BY <2>1, <2>2 DEF IInv, Disjoint
  <1>8. TypeOK'
    BY <1>1, <1>4, <1>5 DEF IInv, TypeOK
  <1> QED BY <1>1, <1>6, <1>7, <1>8 DEF IInv, Described, FreshCopies, IdleIsClean

\* The process ends or the hub is stopped and started.
LEMMA RestartIInv == ASSUME IInv, Restart PROVE IInv'
  <1>1. /\ record' = record /\ bars' = bars /\ wrecord' = record /\ wbars' = bars
        /\ tx' = "none" /\ reader' = {} /\ fresh' = {} /\ threw' = FALSE
        /\ faults' \in 0..MaxFaults
    BY FaultAssumption DEF Restart, disk, IInv, TypeOK
  <1>2. m_storage_metadata' \in [Backend -> Metadata]
    <2>1. PICK copies \in {NoCopies, m_storage_metadata} :
             m_storage_metadata' = Refreshed(copies, record)
      BY DEF Restart
    <2>2. copies \in [Backend -> Metadata]
      BY NoMetadataType DEF NoCopies, IInv, TypeOK
    <2> QED BY <2>1, <2>2 DEF Refreshed, IInv, TypeOK, IsRecordTable
  <1>3. TypeOK'
    <2>1. Cardinality(reader') <= 1
      BY <1>1, FS_EmptySet
    <2> QED BY <1>1, <1>2, <2>1 DEF IInv, TypeOK
  <1>4. Disjoint'
    BY <1>1 DEF IInv, Disjoint, Overlap
  <1> QED BY <1>1, <1>3, <1>4 DEF IInv, Described, DescribedIn, FreshCopies, IdleIsClean

\* A step of a read-only guard, at any moment: copies it reads are not fresh.
LEMMA ReaderIInv ==
    ASSUME IInv, ReaderBegin \/ ReaderEnd \/ ReaderRefresh
    PROVE  IInv'
  <1>1. UNCHANGED <<record, bars, wrecord, wbars, tx, threw, faults>> /\ fresh' \subseteq fresh
    BY DEF ReaderBegin, ReaderEnd, ReaderRefresh, disk, working, client
  <1>2. (\A r \in reader' : IsRecordTable(r)) /\ Cardinality(reader') <= 1
    <2>1. CASE ReaderBegin
      BY <2>1, FS_Singleton DEF ReaderBegin, IInv, TypeOK
    <2>2. CASE ReaderEnd
      BY <2>2, FS_EmptySet DEF ReaderEnd
    <2>3. CASE ReaderRefresh
      BY <2>3 DEF ReaderRefresh, IInv, TypeOK
    <2> QED BY <2>1, <2>2, <2>3
  <1>3. /\ m_storage_metadata' \in [Backend -> Metadata]
        /\ \A b \in fresh' : m_storage_metadata'[b] = m_storage_metadata[b]
    <2>1. CASE UNCHANGED m_storage_metadata
      BY <2>1 DEF IInv, TypeOK
    <2>2. CASE ReaderRefresh
      <3>1. PICK r \in reader : /\ m_storage_metadata' = Refreshed(m_storage_metadata, r)
                                /\ fresh' = fresh \ DOMAIN r
        BY <2>2 DEF ReaderRefresh
      <3>2. IsRecordTable(r) /\ m_storage_metadata \in [Backend -> Metadata] /\ fresh \subseteq Backend
        BY DEF IInv, TypeOK
      <3> QED BY <3>1, <3>2 DEF Refreshed, IsRecordTable
    <2> QED BY <2>1, <2>2 DEF ReaderBegin, ReaderEnd
  <1>4. TypeOK'
    BY <1>1, <1>2, <1>3 DEF IInv, TypeOK
  <1>5. FreshCopies'
    BY <1>1, <1>3 DEF IInv, FreshCopies
  <1>6. IdleIsClean'
    BY <1>1 DEF IInv, IdleIsClean
  <1> QED BY <1>1, <1>4, <1>5, <1>6 DEF IInv, Described, DescribedIn, Disjoint

\* A step of the writer that leaves the committed tables alone.
LEMMA WriterIInv ==
    ASSUME IInv, tx = "open", tx' = "open",
           UNCHANGED <<record, bars, reader, faults>>,
           IsRecordTable(wrecord'), wbars' \in BarTables, threw' \in BOOLEAN,
           m_storage_metadata' \in [Backend -> Metadata], fresh' \subseteq Backend,
           DescribedIn(wrecord', wbars'), Disjoint', FreshCopies'
    PROVE  IInv'
  <1>1. TypeOK'
    BY DEF IInv, TypeOK
  <1>2. Described' /\ IdleIsClean'
    BY DEF IInv, Described, DescribedIn, IdleIsClean
  <1> QED BY <1>1, <1>2 DEF IInv

\* A step of the writer on the bars alone.
LEMMA BarsIInv ==
    ASSUME IInv, tx = "open", UNCHANGED <<tx, record, bars, wrecord, m_storage_metadata, reader, fresh, faults>>,
           wbars' \in BarTables, threw' \in BOOLEAN, DescribedIn(wrecord, wbars')
    PROVE  IInv'
  <1>1. Disjoint' /\ FreshCopies'
    BY DEF IInv, Disjoint, FreshCopies
  <1> QED BY <1>1, WriterIInv DEF IInv, TypeOK

\* A transaction begins.
LEMMA BeginIInv == ASSUME IInv, Begin PROVE IInv'
  <1>1. UNCHANGED <<record, bars, wrecord, wbars, m_storage_metadata, reader, fresh, threw, faults>>
        /\ tx' = "open"
    BY DEF Begin, disk, working, client
  <1> QED BY <1>1 DEF IInv, TypeOK, Described, DescribedIn, Disjoint, FreshCopies, IdleIsClean

\* After refresh_metadata every copy of an existing record is fresh.
LEMMA RefreshIInv == ASSUME IInv, refresh_metadata PROVE IInv'
  <1>1. /\ tx = "open" /\ tx' = tx
        /\ UNCHANGED <<record, bars, wrecord, wbars, reader, threw, faults>>
        /\ m_storage_metadata' = Refreshed(m_storage_metadata, wrecord)
        /\ fresh' = fresh \cup DOMAIN wrecord
    BY DEF refresh_metadata, disk, working
  <1>2. IsRecordTable(wrecord) /\ m_storage_metadata \in [Backend -> Metadata] /\ fresh \subseteq Backend
    BY DEF IInv, TypeOK
  <1>3. m_storage_metadata' \in [Backend -> Metadata] /\ fresh' \subseteq Backend
    BY <1>1, <1>2 DEF Refreshed, IsRecordTable
  <1>4. FreshCopies'
    BY <1>1, <1>2 DEF IInv, FreshCopies, Refreshed, IsRecordTable
  <1>5. Disjoint' /\ DescribedIn(wrecord', wbars')
    BY <1>1 DEF IInv, Disjoint
  <1> QED BY <1>1, <1>3, <1>4, <1>5, WriterIInv DEF IInv, TypeOK

\* One record changes: the new one must overlap none of the others.
LEMMA PutDisjoint ==
    ASSUME IInv, NEW b \in Backend, NEW m \in Metadata, Exclusive(m, b),
           wrecord' = PutRecord(wrecord, b, m), record' = record
    PROVE  Disjoint'
  <1>1. /\ DOMAIN wrecord' = DOMAIN wrecord \cup {b} /\ wrecord'[b] = m
        /\ \A c \in DOMAIN wrecord \ {b} : wrecord'[c] = wrecord[c]
    <2>1. IsRecordTable(wrecord)
      BY DEF IInv, TypeOK
    <2> HIDE DEF PutRecord
    <2> QED BY <2>1, PutRecordType
  <1>2. ASSUME NEW c \in Backend \ {b}, NEW r \in {record, wrecord'}, c \in DOMAIN r
        PROVE  \E q \in {record, wrecord} : c \in DOMAIN q /\ r[c] = q[c]
    BY <1>1, <1>2
  <1>3. \A x, y \in Metadata : Overlap(x, y) => Overlap(y, x)
    BY DEF Overlap
  <1> SUFFICES ASSUME NEW c \in Backend, NEW d \in Backend, c # d,
                      NEW r \in {record, wrecord'}, NEW q \in {record, wrecord'},
                      c \in DOMAIN r, d \in DOMAIN q
               PROVE  ~Overlap(r[c], q[d])
    BY DEF Disjoint, Overlap
  <1>4. ASSUME NEW x \in Backend \ {b}, NEW u \in {record, wrecord'}, x \in DOMAIN u
        PROVE  u[x] \in Metadata /\ ~Overlap(m, u[x])
    <2>1. PICK v \in {record, wrecord} : x \in DOMAIN v /\ u[x] = v[x]
      BY <1>2, <1>4
    <2> QED BY <2>1 DEF Exclusive, IInv, TypeOK, IsRecordTable
  <1>5. ASSUME NEW x \in Backend, NEW u \in {record, wrecord'}, x \in DOMAIN u, x # b \/ u # wrecord'
        PROVE  \E v \in {record, wrecord} : x \in DOMAIN v /\ u[x] = v[x]
    BY <1>1, <1>5
  <1>6. CASE c = b /\ r = wrecord'
    BY <1>1, <1>4, <1>6
  <1>7. CASE d = b /\ q = wrecord'
    <2>1. q[d] = m /\ c # b
      BY <1>1, <1>7
    <2> QED BY <1>3, <1>4, <2>1
  <1>8. CASE (c # b \/ r # wrecord') /\ (d # b \/ q # wrecord')
    <2>1. PICK v \in {record, wrecord} : c \in DOMAIN v /\ r[c] = v[c]
      BY <1>5, <1>8
    <2>2. PICK w \in {record, wrecord} : d \in DOMAIN w /\ q[d] = w[d]
      BY <1>5, <1>8
    <2> QED BY <2>1, <2>2 DEF IInv, Disjoint
  <1> QED BY <1>6, <1>7, <1>8

\* extend_metadata by metadata bounded like the record and exclusive to the
\* backend: what was held stays held.
LEMMA ExtendIInv ==
    ASSUME IInv, NEW b \in Backend, NEW p \in Patch,
           b \in DOMAIN wrecord => SameBounds(wrecord[b], p),
           Exclusive(merge_with(CurrentRecord(wrecord, b), p), b),
           extend_metadata(b, p)
    PROVE  IInv'
  <1> DEFINE m == merge_with(CurrentRecord(wrecord, b), p)
  <1>1. /\ tx = "open" /\ tx' = tx
        /\ UNCHANGED <<record, bars, wbars, reader, threw, faults>>
        /\ wrecord' = PutRecord(wrecord, b, m)
        /\ m_storage_metadata' = [m_storage_metadata EXCEPT ![b] = wrecord'[b]]
        /\ fresh' = fresh \cup {b}
    BY DEF extend_metadata, disk
  <1>2. IsRecordTable(wrecord) /\ m_storage_metadata \in [Backend -> Metadata] /\ fresh \subseteq Backend
    BY DEF IInv, TypeOK
  <1>3. m \in Metadata
    <2>1. CurrentRecord(wrecord, b) \in Metadata /\ p \in Metadata
      BY <1>2, CurrentRecordType, PatchAssumption
    <2> QED BY <2>1, RecordTypes
  <1>4. b \in DOMAIN wrecord => \A i \in Instrument, s \in Segment :
            Holds(wrecord[b], "BARS", i, s * Duration) => Holds(m, "BARS", i, s * Duration)
    <2> SUFFICES ASSUME b \in DOMAIN wrecord, NEW i \in Instrument, NEW s \in Segment,
                        Holds(wrecord[b], "BARS", i, s * Duration)
                 PROVE  Holds(m, "BARS", i, s * Duration)
      OBVIOUS
    <2>1. m = merge_with(wrecord[b], p) /\ wrecord[b] \in Metadata /\ p \in Metadata
      BY <1>2, PatchAssumption DEF CurrentRecord, IsRecordTable
    <2>2. s * Duration \in Nat
      BY DurationAssumption DEF Segment
    <2> HIDE DEF m
    <2>3. Holds(merge_with(wrecord[b], p), "BARS", i, s * Duration)
      BY <2>1, <2>2, MergeHoldsBoth
    <2> QED BY <2>1, <2>3
  <1> HIDE DEF m
  <1>5. /\ IsRecordTable(wrecord') /\ DOMAIN wrecord' = DOMAIN wrecord \cup {b} /\ wrecord'[b] = m
        /\ \A c \in DOMAIN wrecord \ {b} : wrecord'[c] = wrecord[c]
    <2>1. /\ IsRecordTable(PutRecord(wrecord, b, m))
          /\ DOMAIN PutRecord(wrecord, b, m) = DOMAIN wrecord \cup {b}
          /\ PutRecord(wrecord, b, m)[b] = m
          /\ \A c \in DOMAIN wrecord \ {b} : PutRecord(wrecord, b, m)[c] = wrecord[c]
      BY <1>2, <1>3, PutRecordType
    <2> QED BY <1>1, <2>1
  <1>6. DescribedIn(wrecord', wbars')
    <2> SUFFICES ASSUME NEW c \in Backend, NEW i \in Instrument, NEW s \in Segment,
                        wbars[c][i][s] # {}
                 PROVE  c \in DOMAIN wrecord' /\ Holds(wrecord'[c], "BARS", i, s * Duration)
      BY <1>1 DEF DescribedIn
    <2>1. c \in DOMAIN wrecord /\ Holds(wrecord[c], "BARS", i, s * Duration)
      BY DEF IInv, DescribedIn
    <2> QED BY <1>4, <1>5, <2>1
  <1>7. Disjoint'
    BY <1>1, <1>3, PutDisjoint DEF m
  <1>8. FreshCopies' /\ fresh' \subseteq Backend /\ m_storage_metadata' \in [Backend -> Metadata]
    BY <1>1, <1>2, <1>3, <1>5 DEF IInv, FreshCopies
  <1> QED BY <1>1, <1>5, <1>6, <1>7, <1>8, WriterIInv DEF IInv, TypeOK

\* erase_data of everything a backend lists: nothing is held, nothing stored.
LEMMA EraseDataIInv ==
    ASSUME IInv, NEW b \in Backend, NEW p \in Metadata, Everything(b, p), erase_data(b, p)
    PROVE  IInv'
  <1> DEFINE m == subtract(CurrentRecord(wrecord, b), p)
  <1>1. /\ tx = "open" /\ tx' = tx
        /\ UNCHANGED <<record, bars, m_storage_metadata, reader, threw, faults>>
        /\ wrecord' = PutRecord(wrecord, b, m)
        /\ wbars' = Without(wbars, b, Listed(p), Segment)
        /\ fresh' = fresh \ {b}
    BY DEF erase_data, Everything, disk
  <1>2. IsRecordTable(wrecord) /\ wbars \in BarTables /\ fresh \subseteq Backend
    BY DEF IInv, TypeOK
  <1>3. m \in Metadata
    <2>1. CurrentRecord(wrecord, b) \in Metadata /\ p \in Metadata
      BY <1>2, CurrentRecordType
    <2> QED BY <2>1, RecordTypes
  <1>4. \A i, t : ~Holds(m, "BARS", i, t)
    <2>1. \A k \in Kind : m.ids[k] = {}
      BY DEF Everything, subtract
    <2>2. "symbol" \in Kind
      BY DEF Kind
    <2> QED BY <2>1, <2>2 DEF Holds, has_id
  <1>5. \A i \in Instrument, s \in Segment : wbars'[b][i][s] = {}
    <2> SUFFICES ASSUME NEW i \in Instrument, NEW s \in Segment PROVE wbars'[b][i][s] = {}
      OBVIOUS
    <2>1. wbars'[b][i][s] = IF i \in Listed(p) THEN {} ELSE wbars[b][i][s]
      BY <1>1, <1>2 DEF Without, BarTables
    <2>2. ASSUME wbars[b][i][s] # {} PROVE i \in Listed(p)
      <3>1. b \in DOMAIN wrecord /\ Holds(wrecord[b], "BARS", i, s * Duration)
        BY <2>2 DEF IInv, DescribedIn
      <3>2. \A k \in Kind : i[k] \in p.ids[k]
        BY <3>1 DEF Holds, has_id, Everything, CurrentRecord
      <3> QED BY <3>2 DEF Listed, has_id
    <2> QED BY <2>1, <2>2
  <1>6. wbars' \in BarTables /\ \A c \in Backend \ {b} : wbars'[c] = wbars[c]
    BY <1>1, <1>2 DEF Without, BarTables
  <1> HIDE DEF m
  <1>7. /\ IsRecordTable(wrecord') /\ DOMAIN wrecord' = DOMAIN wrecord \cup {b} /\ wrecord'[b] = m
        /\ \A c \in DOMAIN wrecord \ {b} : wrecord'[c] = wrecord[c]
    <2>1. /\ IsRecordTable(PutRecord(wrecord, b, m))
          /\ DOMAIN PutRecord(wrecord, b, m) = DOMAIN wrecord \cup {b}
          /\ PutRecord(wrecord, b, m)[b] = m
          /\ \A c \in DOMAIN wrecord \ {b} : PutRecord(wrecord, b, m)[c] = wrecord[c]
      BY <1>2, <1>3, PutRecordType
    <2> QED BY <1>1, <2>1
  <1>8. DescribedIn(wrecord', wbars')
    <2> SUFFICES ASSUME NEW c \in Backend, NEW i \in Instrument, NEW s \in Segment,
                        wbars'[c][i][s] # {}
                 PROVE  c \in DOMAIN wrecord' /\ Holds(wrecord'[c], "BARS", i, s * Duration)
      BY DEF DescribedIn
    <2>1. c # b /\ wbars[c][i][s] # {}
      BY <1>5, <1>6
    <2>2. c \in DOMAIN wrecord /\ Holds(wrecord[c], "BARS", i, s * Duration)
      BY <2>1 DEF IInv, DescribedIn
    <2> QED BY <1>7, <2>1, <2>2
  <1>9. Disjoint'
    <2>1. Exclusive(m, b)
      BY <1>4 DEF Exclusive, Overlap
    <2> QED BY <1>1, <1>3, <2>1, PutDisjoint
  <1>10. FreshCopies'
    BY <1>1, <1>7 DEF IInv, FreshCopies
  <1> QED BY <1>1, <1>2, <1>6, <1>7, <1>8, <1>9, <1>10, WriterIInv DEF IInv, TypeOK

\* A segment is routed by fresh copies to a backend whose record holds it.
LEMMA RoutedIsHeld ==
    ASSUME IInv, fresh = Backend, NEW i, NEW s, NEW b \in Backend,
           RoutedTo(m_storage_metadata, i, s, b)
    PROVE  b \in DOMAIN wrecord /\ Holds(wrecord[b], "BARS", i, s * Duration)
  BY DEF RoutedTo, Candidates, IInv, FreshCopies

\* upsert by fresh copies.
LEMMA UpsertIInv ==
    ASSUME IInv, fresh = Backend, NEW i \in Instrument, NEW B \in Batch, upsert(i, B)
    PROVE  IInv'
  <1> DEFINE done == Reached(m_storage_metadata, i, {SegmentOf(t) : t \in B})
  <1>1. /\ tx = "open"
        /\ UNCHANGED <<tx, record, bars, wrecord, m_storage_metadata, reader, fresh, faults>>
        /\ wbars' = [b \in Backend |-> [wbars[b] EXCEPT ![i] = [s \in Segment |->
                IF s \in done /\ RoutedTo(m_storage_metadata, i, s, b)
                THEN B \cap Span(s) ELSE wbars[b][i][s]]]]
        /\ threw' \in BOOLEAN
    BY DEF upsert, disk, IInv, TypeOK
  <1> HIDE DEF done
  <1>2. wbars \in BarTables
    BY DEF IInv, TypeOK
  <1>3. \A s : Span(s) \subseteq Time
    BY DEF Span
  <1>4. wbars' \in BarTables
    BY <1>1, <1>2, <1>3 DEF BarTables
  <1>5. DescribedIn(wrecord, wbars')
    <2> SUFFICES ASSUME NEW b \in Backend, NEW j \in Instrument, NEW s \in Segment,
                        wbars'[b][j][s] # {}
                 PROVE  b \in DOMAIN wrecord /\ Holds(wrecord[b], "BARS", j, s * Duration)
      BY DEF DescribedIn
    <2>1. wbars[b][j][s] # {} \/ (j = i /\ RoutedTo(m_storage_metadata, i, s, b))
      BY <1>1, <1>2 DEF BarTables
    <2>2. CASE wbars[b][j][s] # {}
      BY <2>2 DEF IInv, DescribedIn
    <2>3. CASE j = i /\ RoutedTo(m_storage_metadata, i, s, b)
      BY <2>3, RoutedIsHeld
    <2> QED BY <2>1, <2>2, <2>3
  <1> QED BY <1>1, <1>4, <1>5, BarsIInv

\* Bars go away.
LEMMA FewerBarsIInv ==
    ASSUME IInv, tx = "open", UNCHANGED <<tx, record, bars, wrecord, m_storage_metadata, reader, fresh, faults>>,
           wbars' \in BarTables, threw' \in BOOLEAN,
           \A b \in Backend, i \in Instrument, s \in Segment : wbars'[b][i][s] \subseteq wbars[b][i][s]
    PROVE  IInv'
  <1>1. DescribedIn(wrecord, wbars')
    BY DEF IInv, DescribedIn
  <1> QED BY <1>1, BarsIInv

\* erase of a range and of an instrument.
LEMMA EraseIInv ==
    ASSUME IInv, NEW i \in Instrument, NEW from, NEW to, erase(i, from, to) \/ EraseInstrument(i)
    PROVE  IInv'
  <1>1. /\ tx = "open"
        /\ UNCHANGED <<tx, record, bars, wrecord, m_storage_metadata, reader, fresh, faults>>
        /\ threw' \in BOOLEAN
    BY DEF erase, EraseInstrument, disk, client, IInv, TypeOK
  <1>2. wbars \in BarTables
    BY DEF IInv, TypeOK
  <1>3. PICK gone \in [Backend -> SUBSET Segment] :
            wbars' = [b \in Backend |-> [wbars[b] EXCEPT ![i] = [s \in Segment |->
                        IF s \in gone[b] THEN {} ELSE wbars[b][i][s]]]]
    <2>1. CASE erase(i, from, to)
      <3> DEFINE done == Reached(m_storage_metadata, i, Segments(from, to))
                 gone == [b \in Backend |-> {s \in Segment : s \in done /\ RoutedTo(m_storage_metadata, i, s, b)}]
      <3>1. wbars' = [b \in Backend |-> [wbars[b] EXCEPT ![i] = [s \in Segment |->
                        IF s \in done /\ RoutedTo(m_storage_metadata, i, s, b) THEN {} ELSE wbars[b][i][s]]]]
        BY <2>1 DEF erase
      <3> HIDE DEF done
      <3>2. gone \in [Backend -> SUBSET Segment]
        OBVIOUS
      <3>3. wbars' = [b \in Backend |-> [wbars[b] EXCEPT ![i] = [s \in Segment |->
                        IF s \in gone[b] THEN {} ELSE wbars[b][i][s]]]]
        BY <3>1
      <3> QED BY <3>2, <3>3
    <2>2. CASE EraseInstrument(i)
      <3> DEFINE gone == [b \in Backend |-> Segment]
      <3>1. gone \in [Backend -> SUBSET Segment]
        OBVIOUS
      <3>2. wbars' = [b \in Backend |-> [wbars[b] EXCEPT ![i] = [s \in Segment |->
                        IF s \in gone[b] THEN {} ELSE wbars[b][i][s]]]]
        BY <2>2 DEF EraseInstrument
      <3> QED BY <3>1, <3>2
    <2> QED BY <2>1, <2>2
  <1>4. /\ wbars' \in BarTables
        /\ \A b \in Backend, j \in Instrument, s \in Segment : wbars'[b][j][s] \subseteq wbars[b][j][s]
    BY <1>2, <1>3 DEF BarTables
  <1> QED BY <1>1, <1>4, FewerBarsIInv

\* erase_all_data: no records, no bars.
LEMMA EraseAllIInv == ASSUME IInv, erase_all_data PROVE IInv'
  <1>1. /\ tx = "open" /\ tx' = tx
        /\ UNCHANGED <<record, bars, m_storage_metadata, reader, threw, faults>>
        /\ wrecord' = NoRecords /\ wbars' = NoBars /\ fresh' = {}
    BY DEF erase_all_data, disk
  <1>2. IsRecordTable(NoRecords) /\ NoBars \in BarTables /\ DescribedIn(NoRecords, NoBars)
    BY DEF IsRecordTable, NoRecords, NoBars, BarTables, DescribedIn
  <1>3. Disjoint'
    BY <1>1 DEF IInv, Disjoint, NoRecords, Overlap
  <1>4. FreshCopies'
    BY <1>1 DEF FreshCopies
  <1> QED BY <1>1, <1>2, <1>3, <1>4, WriterIInv DEF IInv, TypeOK

\* Calls that only throw, or read.
LEMMA ReadIInv ==
    ASSUME IInv, UpsertUnordered \/ \E i, from, to : fetch(i, from, to)
    PROVE  IInv'
  <1>1. /\ tx = "open" /\ threw' \in BOOLEAN
        /\ UNCHANGED <<tx, record, bars, wrecord, wbars, m_storage_metadata, reader, fresh, faults>>
    BY DEF UpsertUnordered, fetch, disk, working, IInv, TypeOK
  <1> QED BY <1>1, BarsIInv DEF IInv, TypeOK

\* Every step of a careful client keeps the invariant.
LEMMA NextIInv == IInv /\ [CarefulNext]_vars => IInv'
  <1> SUFFICES ASSUME IInv, [CarefulNext]_vars PROVE IInv'
    OBVIOUS
  <1>1. CASE Commit \/ Rollback
    BY <1>1, EndIInv DEF Commit, Rollback, IInv, TypeOK
  <1>2. CASE TornCommit
    <2>1. faults' \in 0..MaxFaults
      BY <1>2, FaultAssumption DEF TornCommit, IInv, TypeOK
    <2> QED BY <1>2, <2>1, EndIInv DEF TornCommit
  <1>3. CASE fresh = Backend /\ Routed
    BY <1>3, UpsertIInv, EraseIInv, ReadIInv DEF Routed
  <1>4. CASE Unrouted
    BY <1>4, EraseIInv, EraseAllIInv, ReadIInv DEF Unrouted
  <1>5. CASE UNCHANGED vars
    BY <1>5 DEF vars, IInv, TypeOK, Described, DescribedIn, Disjoint, FreshCopies, IdleIsClean
  <1>6. ASSUME NEW b \in Backend, NEW p \in Patch,
               b \in DOMAIN wrecord => SameBounds(wrecord[b], p),
               Exclusive(merge_with(CurrentRecord(wrecord, b), p), b),
               extend_metadata(b, p)
        PROVE  IInv'
    BY <1>6, ExtendIInv
  <1>7. ASSUME NEW e \in Erasure, Everything(e[1], e[2]), erase_data(e[1], e[2]) PROVE IInv'
    BY <1>7, EraseDataIInv, ErasureAssumption
  <1> QED BY <1>1, <1>2, <1>3, <1>4, <1>5, <1>6, <1>7, BeginIInv, RestartIInv, RefreshIInv, ReaderIInv
          DEF CarefulNext

\* Every reachable state of a careful client satisfies the invariant.
THEOREM Inductive == CarefulSpec => []IInv
  BY InitIInv, NextIInv, PTL DEF CarefulSpec

\* For a careful client every committed bar lies where the committed record of
\* its backend says, after torn commits, rollbacks and restarts too.
THEOREM DescribedHolds == CarefulSpec => []Described
  <1>1. IInv => Described
    BY DEF IInv
  <1> QED BY <1>1, Inductive, PTL

\* For a careful client the first backend whose committed record holds a
\* segment is the one that stores it: no bar is ever hidden.
THEOREM ReachableHolds == CarefulSpec => []Reachable
  <1>1. IInv => Reachable
    <2> SUFFICES ASSUME IInv, NEW b \in Backend, NEW i \in Instrument, NEW s \in Segment,
                        bars[b][i][s] # {}
                 PROVE  RoutedTo(record, i, s, b)
      BY DEF Reachable
    <2>1. b \in DOMAIN record /\ Holds(record[b], "BARS", i, s * Duration)
      BY DEF IInv, Described, DescribedIn
    <2>2. DOMAIN record \subseteq Backend
      BY DEF IInv, TypeOK, IsRecordTable
    <2>3. ASSUME NEW c \in Candidates(record, i, s) PROVE c = b
      <3>1. c \in DOMAIN record /\ Holds(record[c], "BARS", i, s * Duration)
        BY <2>3 DEF Candidates
      <3>2. Overlap(record[b], record[c])
        BY <2>1, <3>1 DEF Overlap
      <3> QED BY <2>1, <2>2, <3>1, <3>2 DEF IInv, Disjoint
    <2>4. b <= b
      BY <2>1, <2>2 DEF Backend
    <2> QED BY <2>1, <2>3, <2>4 DEF RoutedTo, Candidates
  <1> QED BY <1>1, Inductive, PTL

\* For a careful client every variable keeps its type.
THEOREM TypeCorrect == CarefulSpec => []TypeOK
  <1>1. IInv => TypeOK
    BY DEF IInv
  <1> QED BY <1>1, Inductive, PTL

-----------------------------------------------------------------------------
(* Segments and times                                                      *)

\* A time lies in its segment.
LEMMA SegmentBounds ==
    ASSUME NEW t \in Nat
    PROVE  /\ SegmentOf(t) \in Nat
           /\ SegmentOf(t) * Duration <= t /\ t < SegmentOf(t) * Duration + Duration
  BY DurationAssumption DEF SegmentOf

\* Later times have later segments.
LEMMA SegmentMonotone ==
    ASSUME NEW t \in Nat, NEW u \in Nat, t <= u
    PROVE  SegmentOf(t) <= SegmentOf(u)
  BY DurationAssumption, DivisionMonotone DEF SegmentOf

\* The segments of the times bars have are those of the tables.
LEMMA SegmentOfTime ==
    ASSUME NEW t \in Time PROVE t \in Nat /\ SegmentOf(t) \in Segment
  <1> DEFINE p == SegmentOf(t)
  <1>1. Duration \in Nat \ {0} /\ MaxSegment \in Nat
    BY DurationAssumption, SegmentAssumption
  <1>2. t \in Nat /\ Duration <= t /\ t < MaxSegment * Duration + Duration
    <2>1. MaxSegment * Duration \in Nat
      BY <1>1
    <2> QED BY <1>1, <2>1 DEF Time
  <1>3. p \in Nat /\ p * Duration <= t /\ t < p * Duration + Duration
    BY <1>2, SegmentBounds
  <1> HIDE DEF p
  <1>4. p # 0
    BY <1>1, <1>2, <1>3
  <1>5. MaxSegment < p => MaxSegment * Duration + Duration <= p * Duration
    BY <1>1, <1>3, Apart
  <1>6. p <= MaxSegment
    <2>1. p * Duration \in Int /\ MaxSegment * Duration \in Int
      BY <1>1, <1>3
    <2> QED BY <1>1, <1>2, <1>3, <1>5, <2>1
  <1> QED BY <1>2, <1>3, <1>4, <1>6 DEF p, Segment

-----------------------------------------------------------------------------
(* Fetch                                                                   *)

\* Every step keeps the bars in their own segments: whatever is routed, and
\* whatever part of a transaction is published.
LEMMA SegmentedStep == ASSUME IInv, Segmented, [CarefulNext]_vars PROVE Segmented'
  <1>1. bars \in BarTables /\ wbars \in BarTables
    BY DEF IInv, TypeOK
  <1>2. ASSUME NEW P, EndWith(P) PROVE Segmented'
    BY <1>1, <1>2 DEF EndWith, Segmented, InOwnSegment, BarTables
  <1>3. ASSUME UNCHANGED <<bars, wbars>> PROVE Segmented'
    BY <1>3 DEF Segmented, InOwnSegment
  <1>4. ASSUME Restart PROVE Segmented'
    BY <1>4 DEF Restart, Segmented, InOwnSegment, disk
  <1>5. ASSUME NEW i \in Instrument, NEW B, upsert(i, B) PROVE Segmented'
    <2> DEFINE done == Reached(m_storage_metadata, i, {SegmentOf(t) : t \in B})
    <2>1. /\ bars' = bars
          /\ wbars' = [b \in Backend |-> [wbars[b] EXCEPT ![i] = [s \in Segment |->
                IF s \in done /\ RoutedTo(m_storage_metadata, i, s, b)
                THEN B \cap Span(s) ELSE wbars[b][i][s]]]]
      BY <1>5 DEF upsert, disk
    <2> HIDE DEF done
    <2> SUFFICES ASSUME NEW b \in Backend, NEW j \in Instrument, NEW s \in Segment, NEW t \in wbars'[b][j][s]
                 PROVE  SegmentOf(t) = s
      BY <2>1 DEF Segmented, InOwnSegment
    <2>2. t \in wbars[b][j][s] \/ t \in Span(s)
      BY <1>1, <2>1 DEF BarTables
    <2> QED BY <2>2 DEF Segmented, InOwnSegment, Span
  <1>6. ASSUME UNCHANGED bars, \A b \in Backend, j \in Instrument, s \in Segment : wbars'[b][j][s] \subseteq wbars[b][j][s]
        PROVE  Segmented'
    BY <1>6 DEF Segmented, InOwnSegment
  <1>7. ASSUME NEW i \in Instrument, NEW from, NEW to, erase(i, from, to) PROVE Segmented'
    <2> DEFINE done == Reached(m_storage_metadata, i, Segments(from, to))
    <2>1. /\ bars' = bars
          /\ wbars' = [b \in Backend |-> [wbars[b] EXCEPT ![i] = [s \in Segment |->
                IF s \in done /\ RoutedTo(m_storage_metadata, i, s, b) THEN {} ELSE wbars[b][i][s]]]]
      BY <1>7 DEF erase, disk
    <2> HIDE DEF done
    <2>2. \A b \in Backend, j \in Instrument, s \in Segment : wbars'[b][j][s] \subseteq wbars[b][j][s]
      BY <1>1, <2>1 DEF BarTables
    <2> QED BY <1>6, <2>1, <2>2
  <1>8. ASSUME NEW i \in Instrument, EraseInstrument(i) PROVE Segmented'
    <2>1. \A b \in Backend, j \in Instrument, s \in Segment : wbars'[b][j][s] \subseteq wbars[b][j][s]
      BY <1>1, <1>8 DEF EraseInstrument, BarTables
    <2> QED BY <1>6, <1>8, <2>1 DEF EraseInstrument, disk
  <1>9. ASSUME erase_all_data PROVE Segmented'
    <2>1. bars' = bars /\ wbars' = NoBars
      BY <1>9 DEF erase_all_data, disk
    <2> QED BY <2>1 DEF Segmented, InOwnSegment, NoBars
  <1>10. ASSUME NEW b \in Backend, NEW p \in Metadata, erase_data(b, p) PROVE Segmented'
    <2>1. PICK S : wbars' = Without(wbars, b, Listed(p), S)
      BY <1>10 DEF erase_data
    <2>2. \A c \in Backend, j \in Instrument, s \in Segment : wbars'[c][j][s] \subseteq wbars[c][j][s]
      BY <1>1, <2>1 DEF Without, BarTables
    <2> QED BY <1>6, <1>10, <2>2 DEF erase_data, disk
  <1>11. CASE Unrouted
    <2>1. CASE UpsertUnordered
      BY <1>3, <2>1 DEF UpsertUnordered, disk, working
    <2> QED BY <1>8, <1>9, <1>11, <2>1 DEF Unrouted
  <1>12. CASE Routed
    <2>1. ASSUME NEW i, NEW from, NEW to, fetch(i, from, to) PROVE Segmented'
      BY <1>3, <2>1 DEF fetch, disk, working
    <2> QED BY <1>5, <1>7, <1>12, <2>1 DEF Routed
  <1>13. CASE Begin \/ refresh_metadata \/ ReaderBegin \/ ReaderEnd \/ ReaderRefresh \/ UNCHANGED vars
    BY <1>3, <1>13 DEF Begin, refresh_metadata, ReaderBegin, ReaderEnd, ReaderRefresh, vars, disk, working
  <1>14. ASSUME NEW b \in Backend, NEW p \in Patch, extend_metadata(b, p) PROVE Segmented'
    BY <1>3, <1>14 DEF extend_metadata, disk
  <1>15. ASSUME NEW e \in Erasure, erase_data(e[1], e[2]) PROVE Segmented'
    BY <1>10, <1>15, ErasureAssumption
  <1> QED BY <1>2, <1>4, <1>11, <1>12, <1>13, <1>14, <1>15 DEF CarefulNext, Commit, TornCommit, Rollback

\* For a careful client a fetch within one segment gives exactly the bars that
\* all backends together store in the range: no other backend has a bar of the
\* segment (Disjoint), and no other segment has one of the range (Segmented).
THEOREM SegmentFetchIsCompleteHolds == CarefulSpec => []SegmentFetchIsComplete
  <1>1. Init => Segmented
    BY DEF Init, Segmented, InOwnSegment, NoBars
  <1>2. CarefulSpec => []Segmented
    BY <1>1, SegmentedStep, Inductive, PTL DEF CarefulSpec
  <1>3. IInv /\ Segmented => SegmentFetchIsComplete
    <2> SUFFICES ASSUME IInv, Segmented, fresh = Backend, NEW i \in Instrument, NEW r \in Ranges,
                        SegmentOf(r[1]) = SegmentOf(r[2] - 1), NEW a \in Answer(wbars, i, r[1], r[2])
                 PROVE  a.bars = Stored(wbars, i, r[1], r[2])
      BY DEF SegmentFetchIsComplete
    <2> DEFINE s == SegmentOf(r[1])
               here == UNION {wbars[b][i][s] : b \in {c \in Backend : RoutedTo(m_storage_metadata, i, s, c)}}
    <2>1. /\ r[1] \in Time /\ r[1] \in Nat /\ r[2] \in Nat /\ r[1] < r[2] /\ s \in Segment
          /\ Segments(r[1], r[2]) = {s}
      <3>1. r[1] \in Time /\ r[2] \in Time /\ r[1] < r[2]
        BY DEF Ranges
      <3>2. r[1] \in Nat /\ r[2] \in Nat /\ s \in Segment
        BY <3>1, SegmentOfTime
      <3>3. s..s = {s}
        BY <3>2 DEF Segment
      <3> QED BY <3>1, <3>2, <3>3 DEF Segments
    <2>2. a.bars = {t \in here : r[1] <= t /\ t < r[2]}
      <3>1. a.bars = Found(wbars, i, r[1], r[2])
        BY DEF Answer
      <3> DEFINE segment(u) == UNION {wbars[b][i][u] : b \in {c \in Backend : RoutedTo(m_storage_metadata, i, u, c)}}
                 stored == {u \in Segments(r[1], r[2]) : segment(u) # {}}
                 last == CHOOSE u \in stored : \A v \in stored : v <= u
      <3>2. a.bars = IF stored = {} THEN {} ELSE {t \in segment(last) : r[1] <= t /\ t < r[2]}
        BY <3>1 DEF Found
      <3>3. segment(s) = here
        OBVIOUS
      <3>4. stored = IF here = {} THEN {} ELSE {s}
        BY <2>1, <3>3
      <3>5. CASE here = {}
        BY <3>2, <3>4, <3>5
      <3>6. CASE here # {}
        <4>1. stored = {s} /\ s <= s
          BY <2>1, <3>4, <3>6 DEF Segment
        <4>2. last = s
          BY <4>1
        <4> HIDE DEF last, stored
        <4>3. a.bars = {t \in segment(s) : r[1] <= t /\ t < r[2]}
          BY <3>2, <4>1, <4>2
        <4> QED BY <3>3, <4>3
      <3> QED BY <3>5, <3>6
    <2>3. ASSUME NEW b \in Backend, wbars[b][i][s] # {} PROVE RoutedTo(m_storage_metadata, i, s, b)
      <3>1. b \in DOMAIN wrecord /\ Holds(wrecord[b], "BARS", i, s * Duration)
        BY <2>1, <2>3 DEF IInv, DescribedIn
      <3>2. /\ DOMAIN m_storage_metadata = Backend
            /\ \A c \in Backend : c \in DOMAIN wrecord /\ m_storage_metadata[c] = wrecord[c]
        BY DEF IInv, TypeOK, FreshCopies
      <3>3. ASSUME NEW c \in Candidates(m_storage_metadata, i, s) PROVE c = b
        <4>1. c \in Backend /\ Holds(wrecord[c], "BARS", i, s * Duration)
          BY <3>2, <3>3 DEF Candidates
        <4>2. Overlap(wrecord[b], wrecord[c])
          BY <2>1, <3>1, <4>1 DEF Overlap
        <4> QED BY <3>2, <4>1, <4>2 DEF IInv, Disjoint
      <3>4. b <= b
        BY DEF Backend
      <3> QED BY <3>1, <3>2, <3>3, <3>4 DEF RoutedTo, Candidates
    <2>4. ASSUME NEW b \in Backend, NEW u \in Segment, NEW t \in wbars[b][i][u], r[1] <= t, t < r[2]
          PROVE  u = s
      <3>1. t \in Time /\ SegmentOf(t) = u
        BY DEF IInv, TypeOK, BarTables, Segmented, InOwnSegment
      <3>2. t \in Nat /\ t <= r[2] - 1 /\ r[2] - 1 \in Nat
        BY <2>1, <2>4, <3>1, SegmentOfTime
      <3>3. s <= u /\ u <= s
        BY <2>1, <2>4, <3>1, <3>2, SegmentMonotone
      <3> QED BY <2>1, <3>3 DEF Segment
    <2> HIDE DEF s, here
    <2>5. \A t : r[1] <= t /\ t < r[2] =>
             (t \in here <=> t \in UNION {wbars[b][i][u] : b \in Backend, u \in Segment})
      BY <2>1, <2>3, <2>4 DEF here
    <2> QED BY <2>2, <2>5 DEF Stored
  <1> QED BY <1>2, <1>3, Inductive, PTL
=============================================================================
