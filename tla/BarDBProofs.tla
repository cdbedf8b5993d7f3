---------------------------- MODULE BarDBProofs ----------------------------
(* Proofs about BarDB, for any symbols, time frames, durations and times:  *)
(* what a careful client may rely on, what holds for every client, and     *)
(* that the keys of its tables tell symbols, segments and frames apart.    *)
EXTENDS BarDB, SymbolKeys, Numbers, FiniteSetTheorems

\* The initial state satisfies the invariant.
LEMMA InitIInv == Init => IInv
  BY DEF Init, IInv, Shape, Describes, Holding, CleanUntilPrepared, CacheLeads, HookedIsCovered,
         WorkingIsKnown, SnapshotIsKnown, CoveredUnlessExposed, NoPhantom, Covers, NoBars, NoMeta,
         NewCalls, Calls

LEMMA TablesAre ==
    /\ Describes(NoMeta) /\ Holding(NoBars)
    /\ \A m, K : Describes(m) /\ K \subseteq DOMAIN m => Describes(Part(m, K))
    /\ \A m, w : Describes(m) /\ Describes(w) => Describes(Overlay(m, w))
  BY DEF Describes, Holding, NoMeta, NoBars, Part, Overlay

LEMMA ThrewIs ==
    ASSUME calls \in Calls, NEW op \in {"prepare", "commit", "upsert", "erase", "erase_data"}, Threw(op)
    PROVE  /\ calls' \in Calls /\ calls'.threw = op /\ calls'.disturbed = calls.disturbed
           /\ calls'.prepared = calls.prepared /\ calls'.upserted = calls.upserted
  BY DEF Calls, Threw

\* The tables on the disk stay, and what they promise.
LEMMA DiskIInv ==
    ASSUME IInv, UNCHANGED disk, reader' \subseteq reader
    PROVE  SnapshotIsKnown' /\ CoveredUnlessExposed' /\ NoPhantom'
  BY DEF IInv, disk, SnapshotIsKnown, CoveredUnlessExposed, NoPhantom, Covers

\* A step that ends the transaction without committing: the working copy is
\* the committed one again.
LEMMA DiscardIInv ==
    ASSUME IInv, Discard, UNCHANGED disk,
           UNCHANGED m_metadata \/ m_metadata' = NoMeta,
           reader' \subseteq reader
    PROVE  IInv'
  <1>1. Shape'
    <2>1. Describes(m_metadata')
      BY TablesAre DEF IInv, Shape
    <2> QED BY <2>1 DEF IInv, Shape, Discard, disk, NewCalls, Calls
  <1>2. CleanUntilPrepared' /\ CacheLeads' /\ HookedIsCovered'
    BY DEF Discard, disk, NewCalls, CleanUntilPrepared, CacheLeads, HookedIsCovered
  <1>3. WorkingIsKnown'
    BY DEF IInv, Discard, disk, NewCalls, WorkingIsKnown, NoPhantom
  <1> QED BY <1>1, <1>2, <1>3, DiskIInv DEF IInv

\* A step of a reader changes no table: it changes the cache, which a writer
\* that has prepared then no longer counts on, or nothing the writer has.
LEMMA ReaderIInv == ASSUME IInv, ReaderSteps PROVE IInv'
  <1>1. /\ UNCHANGED <<bars, meta, known, exposed, wbars, wmeta, tx>>
        /\ reader' \in {reader, {}, {meta}}
        /\ \/ m_metadata' = m_metadata
           \/ \E m \in reader : m_metadata' = m
           \/ \E m \in reader : \E K \in SUBSET DOMAIN m : m_metadata' = Part(m, K)
        /\ UNCHANGED <<cache, calls>> \/ Disturbs
    BY DEF ReaderSteps, ReaderBegin, ReaderPrepare, ReaderPrepareFails, ReaderCommit,
           ReaderRollback, disk, cache
  <1>2. /\ calls' \in Calls /\ calls'.prepared = calls.prepared
        /\ calls'.upserted = calls.upserted /\ calls'.threw = calls.threw
        /\ ~calls'.disturbed => ~calls.disturbed
        /\ tx = "open" /\ calls.prepared /\ ~calls'.disturbed => UNCHANGED cache
    BY <1>1 DEF IInv, Shape, Calls, Disturbs
  <1>3. m_metadata' = m_metadata \/ (Describes(m_metadata') /\ DOMAIN m_metadata' \subseteq known)
    <2>1. \A m \in reader : Describes(m) /\ DOMAIN m \subseteq known
      BY DEF IInv, Shape, SnapshotIsKnown
    <2>2. \A m, K : DOMAIN Part(m, K) = K
      BY DEF Part
    <2> QED BY <1>1, <2>1, <2>2, TablesAre
  <1>4. Shape'
    BY <1>1, <1>2, <1>3 DEF IInv, Shape
  <1>5. CacheLeads'
    <2>1. SUFFICES ASSUME tx = "open", calls.prepared, calls.threw = "none"
                   PROVE  /\ Trusted' => m_prepare_metadata' /\ Covers(m_metadata, wbars)'
                          /\ DOMAIN m_metadata' \subseteq known \cup calls.upserted
      BY <1>1, <1>2 DEF CacheLeads
    <2>2. /\ Trusted => m_prepare_metadata /\ Covers(m_metadata, wbars)
          /\ DOMAIN m_metadata \subseteq known \cup calls.upserted
      BY <2>1 DEF IInv, CacheLeads
    <2>3. DOMAIN m_metadata' \subseteq known \cup calls.upserted
      BY <1>3, <2>2
    <2>4. Trusted' => Trusted /\ UNCHANGED cache
      BY <1>1, <1>2, <2>1 DEF Trusted
    <2> QED BY <1>1, <2>2, <2>3, <2>4 DEF cache, Covers
  <1>6. CleanUntilPrepared' /\ HookedIsCovered' /\ WorkingIsKnown'
    BY <1>1, <1>2 DEF IInv, CleanUntilPrepared, HookedIsCovered, WorkingIsKnown, Trusted, Covers
  <1>7. SnapshotIsKnown' /\ CoveredUnlessExposed' /\ NoPhantom'
    BY <1>1 DEF IInv, SnapshotIsKnown, CoveredUnlessExposed, NoPhantom, Covers
  <1> QED BY <1>4, <1>5, <1>6, <1>7 DEF IInv

\* A write transaction begins on the committed tables.
LEMMA BeginIInv == ASSUME IInv, Begin PROVE IInv'
  <1>1. /\ UNCHANGED <<disk, wbars, wmeta, cache, reader, calls>>
        /\ tx' = "open" /\ ~calls.prepared
    BY DEF Begin, IInv, CleanUntilPrepared
  <1>2. Shape' /\ CleanUntilPrepared' /\ CacheLeads' /\ HookedIsCovered' /\ WorkingIsKnown'
    BY <1>1 DEF IInv, Shape, disk, cache, CleanUntilPrepared, CacheLeads, HookedIsCovered, WorkingIsKnown
  <1> QED BY <1>1, <1>2, DiskIInv DEF IInv

\* The first call of a careful client loads the records of the committed bars.
LEMMA PrepareIInv == ASSUME IInv, ~calls.prepared, prepare_metadata PROVE IInv'
  <1>1. /\ wbars = bars /\ wmeta = meta /\ calls.upserted = {}
        /\ tx = "open" /\ tx' = tx
        /\ m_metadata' = meta /\ m_prepare_metadata' = TRUE
        /\ UNCHANGED <<bars, meta, known, exposed, wbars, wmeta, reader>>
        /\ calls' = [calls EXCEPT !.prepared = TRUE]
    BY DEF prepare_metadata, IInv, CleanUntilPrepared, disk
  <1>2. /\ calls' \in Calls /\ calls'.upserted = {} /\ calls'.prepared
        /\ calls'.threw = calls.threw /\ calls'.disturbed = calls.disturbed
    BY <1>1 DEF IInv, Shape, Calls
  <1>3. Shape'
    BY <1>1, <1>2 DEF IInv, Shape
  <1>4. CacheLeads'
    BY <1>1, <1>2 DEF IInv, CacheLeads, CoveredUnlessExposed, NoPhantom, Covers, Trusted
  <1>5. CleanUntilPrepared' /\ HookedIsCovered' /\ WorkingIsKnown'
    BY <1>1, <1>2 DEF IInv, CleanUntilPrepared, HookedIsCovered, WorkingIsKnown, NoPhantom
  <1> QED BY <1>1, <1>3, <1>4, <1>5, DiskIInv DEF IInv, disk

\* The flush: a cached record replaces the table's, and a series without a
\* cached record has no bars.
LEMMA AfterTransactionIInv ==
    ASSUME IInv, calls.prepared, calls.threw = "none", after_transaction
    PROVE  IInv'
  <1>1. /\ Trusted => m_prepare_metadata /\ Covers(m_metadata, wbars)
        /\ DOMAIN m_metadata \subseteq known \cup calls.upserted
    BY DEF IInv, CacheLeads, after_transaction
  <1>2. /\ tx' = "hooked"
        /\ wmeta' = IF m_prepare_metadata THEN Overlay(m_metadata, wmeta) ELSE wmeta
        /\ UNCHANGED <<bars, meta, known, exposed, wbars, m_metadata, reader, calls>>
    BY DEF after_transaction, disk
  <1>3. Describes(wmeta') /\ DOMAIN wmeta' \subseteq DOMAIN wmeta \cup DOMAIN m_metadata
    <2>1. Describes(wmeta) /\ Describes(m_metadata)
      BY DEF IInv, Shape
    <2>2. DOMAIN Overlay(m_metadata, wmeta) = DOMAIN m_metadata \cup DOMAIN wmeta
      BY DEF Overlay
    <2> QED BY <1>2, <2>1, <2>2, TablesAre
  <1>4. Shape'
    BY <1>2, <1>3 DEF IInv, Shape
  <1>5. HookedIsCovered'
    BY <1>1, <1>2 DEF HookedIsCovered, Covers, Trusted, Overlay
  <1>6. WorkingIsKnown'
    BY <1>1, <1>2, <1>3 DEF IInv, WorkingIsKnown
  <1>7. CleanUntilPrepared' /\ CacheLeads'
    BY <1>2 DEF CleanUntilPrepared, CacheLeads
  <1> QED BY <1>2, <1>4, <1>5, <1>6, <1>7, DiskIInv DEF IInv, disk

\* The commit publishes covered tables.
LEMMA CommitIInv == ASSUME IInv, Commit PROVE IInv'
  <1>1. /\ Trusted => Covers(wmeta, wbars)
        /\ DOMAIN wmeta \subseteq known \cup calls.upserted
    BY DEF IInv, Commit, HookedIsCovered, WorkingIsKnown
  <1>2. /\ tx' = "none" /\ bars' = wbars /\ meta' = wmeta /\ calls' = NewCalls
        /\ known' = known \cup calls.upserted
        /\ exposed' = (exposed \/ calls.disturbed)
        /\ UNCHANGED <<wbars, wmeta, m_metadata, reader>>
    BY DEF Commit, cache
  <1>3. Shape'
    BY <1>2 DEF IInv, Shape, NewCalls, Calls
  <1>4. CoveredUnlessExposed' /\ NoPhantom' /\ WorkingIsKnown'
    BY <1>1, <1>2 DEF CoveredUnlessExposed, NoPhantom, WorkingIsKnown, Covers, NewCalls, Trusted
  <1>5. SnapshotIsKnown'
    BY <1>2 DEF IInv, SnapshotIsKnown
  <1>6. CleanUntilPrepared' /\ CacheLeads' /\ HookedIsCovered'
    BY <1>2 DEF CleanUntilPrepared, CacheLeads, HookedIsCovered, NewCalls
  <1> QED BY <1>3, <1>4, <1>5, <1>6 DEF IInv

\* A call that throws leaves a transaction the client has to roll back; what
\* it did to the working copy and the cache no longer matters.
LEMMA ThrowIInv ==
    ASSUME IInv, calls.prepared \/ UNCHANGED <<wbars, wmeta>>, tx' = "open",
           NEW op \in {"prepare", "commit", "upsert", "erase", "erase_data"}, Threw(op),
           UNCHANGED disk, UNCHANGED reader,
           Describes(wmeta'), Describes(m_metadata'), Holding(wbars'),
           DOMAIN wmeta' \subseteq known \cup calls.upserted
    PROVE  IInv'
  <1>1. /\ calls' \in Calls /\ calls'.threw = op /\ calls'.prepared = calls.prepared
        /\ calls'.upserted = calls.upserted
        /\ UNCHANGED <<bars, meta, known, exposed>>
    BY ThrewIs DEF IInv, Shape, disk
  <1>2. Shape'
    BY <1>1 DEF IInv, Shape
  <1>3. CleanUntilPrepared'
    BY <1>1 DEF IInv, CleanUntilPrepared
  <1>4. CacheLeads' /\ HookedIsCovered'
    BY <1>1 DEF CacheLeads, HookedIsCovered
  <1>5. WorkingIsKnown'
    BY <1>1 DEF WorkingIsKnown
  <1> QED BY <1>2, <1>3, <1>4, <1>5, DiskIInv DEF IInv

\* A commit that fails may leave the transaction open.
LEMMA CommitFailsIInv == ASSUME IInv, CommitFails PROVE IInv'
  <1>1. CASE Discard
    BY <1>1, DiscardIInv DEF CommitFails, cache
  <1>2. CASE tx' = "open" /\ Threw("commit") /\ UNCHANGED <<wbars, wmeta>>
    BY <1>2, ThrowIInv DEF CommitFails, cache, IInv, Shape, WorkingIsKnown
  <1> QED BY <1>1, <1>2 DEF CommitFails

\* A flush or a preparation that stops half-way.
LEMMA HalfIInv ==
    ASSUME IInv, (calls.prepared /\ calls.threw = "none" /\ FlushFails) \/ PrepareFails
    PROVE  IInv'
  <1>1. /\ Describes(wmeta) /\ Describes(m_metadata) /\ Holding(wbars)
        /\ DOMAIN wmeta \subseteq known \cup calls.upserted
    BY DEF IInv, Shape, WorkingIsKnown
  <1>2. CASE PrepareFails
    <2>1. PICK K \in SUBSET DOMAIN wmeta : m_metadata' = Part(wmeta, K)
      BY <1>2 DEF PrepareFails
    <2>2. Describes(m_metadata')
      BY <1>1, <2>1, TablesAre
    <2> QED BY <1>1, <1>2, <2>2, ThrowIInv DEF PrepareFails
  <1>3. CASE calls.prepared /\ calls.threw = "none" /\ FlushFails
    <2>1. PICK K \in SUBSET DOMAIN m_metadata : wmeta' = Overlay(Part(m_metadata, K), wmeta)
      BY <1>3 DEF FlushFails
    <2>2. Describes(wmeta')
      BY <1>1, <2>1, TablesAre
    <2>3. DOMAIN wmeta' \subseteq DOMAIN wmeta \cup DOMAIN m_metadata
      BY <2>1 DEF Overlay, Part
    <2>4. DOMAIN m_metadata \subseteq known \cup calls.upserted
      BY <1>3 DEF IInv, CacheLeads, FlushFails
    <2>5. /\ tx' = "open" /\ Threw("commit") /\ UNCHANGED <<disk, wbars, m_metadata, reader>>
      BY <1>3 DEF FlushFails, cache
    <2> QED BY <1>1, <1>3, <2>2, <2>3, <2>4, <2>5, ThrowIInv
  <1> QED BY <1>2, <1>3

\* Every working operation of a careful client only has to keep the cached
\* records covering the working bars while the cache is in use.
LEMMA WorkIInv ==
    ASSUME IInv, calls.prepared, calls.threw = "none", tx = "open", tx' = tx,
           calls' \in Calls, calls'.prepared, calls'.threw = "none",
           calls'.disturbed = calls.disturbed, calls.upserted \subseteq calls'.upserted,
           UNCHANGED disk, UNCHANGED m_prepare_metadata, UNCHANGED reader,
           Describes(wmeta'), Describes(m_metadata'), Holding(wbars'),
           m_prepare_metadata /\ Covers(m_metadata, wbars) => Covers(m_metadata, wbars)',
           DOMAIN m_metadata' \subseteq DOMAIN m_metadata \cup calls'.upserted,
           DOMAIN wmeta' \subseteq DOMAIN wmeta
    PROVE  IInv'
  <1>1. Shape'
    BY DEF IInv, Shape, disk
  <1>2. CacheLeads'
    BY DEF IInv, CacheLeads, disk, Trusted
  <1>3. CleanUntilPrepared' /\ HookedIsCovered'
    BY DEF CleanUntilPrepared, HookedIsCovered
  <1>4. WorkingIsKnown'
    BY DEF IInv, disk, WorkingIsKnown
  <1> QED BY <1>1, <1>2, <1>3, <1>4, DiskIInv DEF IInv

\* UpsertedRecord describes the old range and the new bars.
LEMMA UpsertedRecordSpans ==
    ASSUME IInv, NEW k \in Series, NEW s, NEW B \in SUBSET Time,
           NEW front \in Time, NEW back \in Time, Ordered(B, front, back),
           NEW r, r = UpsertedRecord(k, s, B, front, back)
    PROVE  /\ r.start \in Time /\ r.end \in Time
           /\ \A t \in B : r.start <= t /\ t <= r.end
           /\ k \in DOMAIN m_metadata =>
                r.start <= m_metadata[k].start /\ m_metadata[k].end <= r.end
  <1>1. CASE k \notin DOMAIN m_metadata
    BY <1>1 DEF UpsertedRecord, Ordered, Time
  <1>2. CASE k \in DOMAIN m_metadata
    <2>1. m_metadata[k].start \in Time /\ m_metadata[k].end \in Time
      BY <1>2 DEF IInv, Shape, Describes
    <2>2. /\ r.start = IF front < m_metadata[k].start THEN front ELSE m_metadata[k].start
          /\ r.end = IF back > m_metadata[k].end THEN back ELSE m_metadata[k].end
      BY <1>2 DEF UpsertedRecord
    <2>3. \A t \in B : front <= t /\ t <= back /\ t \in Time
      BY DEF Ordered
    <2>4. r.start \in Time /\ r.start <= front /\ r.start <= m_metadata[k].start
      BY <2>1, <2>2, TimeAssumption DEF Time
    <2>5. r.end \in Time /\ back <= r.end /\ m_metadata[k].end <= r.end
      BY <2>1, <2>2, TimeAssumption DEF Time
    <2>6. \A t \in B : r.start <= t /\ t <= r.end
      BY <2>3, <2>4, <2>5, TimeAssumption DEF Time
    <2> QED BY <2>4, <2>5, <2>6
  <1> QED BY <1>1, <1>2

\* The cache after an upsert: it keeps its shape, still covers what it
\* covered, and covers the new bars of series k.
LEMMA UpdatedCache ==
    ASSUME IInv, NEW k \in Series, NEW s, NEW B \in SUBSET Time,
           NEW front \in Time, NEW back \in Time, Ordered(B, front, back),
           UpdateCache(k, s, B, front, back)
    PROVE  /\ Describes(m_metadata')
           /\ DOMAIN m_metadata' \subseteq DOMAIN m_metadata \cup {k}
           /\ m_prepare_metadata =>
                /\ k \in DOMAIN m_metadata' /\ DOMAIN m_metadata \subseteq DOMAIN m_metadata'
                /\ \A j \in DOMAIN m_metadata :
                     /\ m_metadata'[j].start <= m_metadata[j].start
                     /\ m_metadata[j].end <= m_metadata'[j].end
                /\ \A t \in B : m_metadata'[k].start <= t /\ t <= m_metadata'[k].end
  <1> DEFINE r == UpsertedRecord(k, s, B, front, back)
  <1>1. CASE ~m_prepare_metadata
    BY <1>1 DEF UpdateCache, IInv, Shape
  <1>2. CASE m_prepare_metadata
    <2>1. m_metadata' = [j \in {k} \cup DOMAIN m_metadata |-> IF j = k THEN r ELSE m_metadata[j]]
      BY <1>2 DEF UpdateCache, Overlay
    <2>2. /\ r.start \in Time /\ r.end \in Time
          /\ \A t \in B : r.start <= t /\ t <= r.end
          /\ k \in DOMAIN m_metadata =>
               r.start <= m_metadata[k].start /\ m_metadata[k].end <= r.end
      BY UpsertedRecordSpans
    <2>3. /\ DOMAIN m_metadata \subseteq Series
          /\ \A j \in DOMAIN m_metadata : m_metadata[j].start \in Time /\ m_metadata[j].end \in Time
      BY DEF IInv, Shape, Describes
    <2> HIDE DEF r
    <2>4. \A j \in DOMAIN m_metadata :
              /\ m_metadata[j].start <= m_metadata[j].start
              /\ m_metadata[j].end <= m_metadata[j].end
      BY <2>3 DEF Time
    <2>5. Describes(m_metadata')
      BY <2>1, <2>2, <2>3 DEF Describes
    <2> QED BY <2>1, <2>2, <2>4, <2>5
  <1> QED BY <1>1, <1>2

\* upsert keeps the invariant.
LEMMA UpsertIInv ==
    ASSUME IInv, calls.prepared, calls.threw = "none", NEW k \in Series,
           NEW B \in SUBSET Time, NEW front \in Time, NEW back \in Time,
           Ordered(B, front, back), upsert(k, B, front, back)
    PROVE  IInv'
  <1> DEFINE s == SegmentOf(Frame(k), front)
  <1>1. /\ tx = "open" /\ tx' = tx
        /\ UpdateCache(k, s, B, front, back)
        /\ wbars' = [wbars EXCEPT ![k][s] = B]
        /\ calls' = [calls EXCEPT !.upserted = @ \cup {k}]
        /\ UNCHANGED <<disk, wmeta, m_prepare_metadata, reader>>
    BY DEF upsert
  <1> HIDE DEF s
  <1>2. /\ Describes(m_metadata')
        /\ DOMAIN m_metadata' \subseteq DOMAIN m_metadata \cup {k}
        /\ m_prepare_metadata =>
             /\ k \in DOMAIN m_metadata' /\ DOMAIN m_metadata \subseteq DOMAIN m_metadata'
             /\ \A j \in DOMAIN m_metadata :
                  /\ m_metadata'[j].start <= m_metadata[j].start
                  /\ m_metadata[j].end <= m_metadata'[j].end
             /\ \A t \in B : m_metadata'[k].start <= t /\ t <= m_metadata'[k].end
    BY <1>1, UpdatedCache
  <1>3. /\ calls'.prepared = calls.prepared /\ calls'.threw = calls.threw
        /\ calls'.disturbed = calls.disturbed
        /\ calls'.upserted = calls.upserted \cup {k} /\ calls' \in Calls
    BY <1>1 DEF IInv, Shape, Calls
  <1>4. /\ Holding(wbars')
        /\ \A j \in Series, d \in Segment : \A t \in wbars'[j][d] :
                t \in wbars[j][d] \/ (j = k /\ t \in B)
    BY <1>1 DEF IInv, Shape, Holding
  <1>5. ASSUME m_prepare_metadata, Covers(m_metadata, wbars) PROVE Covers(m_metadata, wbars)'
    <2> SUFFICES ASSUME NEW j \in Series, NEW d \in Segment, NEW t \in wbars'[j][d]
                 PROVE  /\ j \in DOMAIN m_metadata'
                        /\ m_metadata'[j].start <= t /\ t <= m_metadata'[j].end
      BY DEF Covers
    <2>1. CASE j = k /\ t \in B
      BY <1>2, <1>5, <2>1
    <2>2. CASE t \in wbars[j][d]
      <3>1. j \in DOMAIN m_metadata /\ m_metadata[j].start <= t /\ t <= m_metadata[j].end
        BY <1>5, <2>2 DEF Covers
      <3>2. /\ j \in DOMAIN m_metadata'
            /\ m_metadata'[j].start <= m_metadata[j].start /\ m_metadata[j].end <= m_metadata'[j].end
        BY <1>2, <1>5, <3>1
      <3>3. /\ t \in Time
            /\ m_metadata[j].start \in Time /\ m_metadata[j].end \in Time
            /\ m_metadata'[j].start \in Time /\ m_metadata'[j].end \in Time
        BY <1>2, <2>2, <3>1, <3>2 DEF IInv, Shape, Describes, Holding
      <3> QED BY <3>1, <3>2, <3>3, TimeAssumption DEF Time
    <2> QED BY <1>4, <2>1, <2>2
  <1>6. Describes(wmeta') /\ DOMAIN wmeta' \subseteq DOMAIN wmeta
    BY <1>1 DEF IInv, Shape
  <1>7. DOMAIN m_metadata' \subseteq DOMAIN m_metadata \cup calls'.upserted
    BY <1>2, <1>3
  <1>8. UNCHANGED disk /\ UNCHANGED m_prepare_metadata /\ UNCHANGED reader
    BY <1>1
  <1> QED BY <1>1, <1>2, <1>3, <1>4, <1>5, <1>6, <1>7, <1>8, WorkIInv

\* An upsert that throws may have changed cached records, never the tables.
LEMMA UpsertThrowsIInv ==
    ASSUME IInv, calls.prepared, NEW k \in Series,
           NEW B \in SUBSET Time, NEW front \in Time, NEW back \in Time,
           Ordered(B, front, back),
           UpsertCrosses(k, front, back) \/ UpsertFails(k, B, front, back)
    PROVE  IInv'
  <1>1. /\ tx' = "open" /\ Threw("upsert")
        /\ UNCHANGED disk /\ UNCHANGED <<wbars, wmeta>> /\ UNCHANGED reader
        /\ \/ m_metadata' = m_metadata
           \/ \E s : UpdateCache(k, s, B, front, back)
    BY DEF UpsertCrosses, UpsertFails, cache
  <1>2. Describes(m_metadata')
    BY <1>1, UpdatedCache DEF IInv, Shape
  <1>3. Describes(wmeta') /\ Holding(wbars') /\ DOMAIN wmeta' \subseteq known \cup calls.upserted
    BY <1>1 DEF IInv, Shape, WorkingIsKnown
  <1> QED BY <1>1, <1>2, <1>3, ThrowIInv

\* The bars of an erasure are the bars before it without some, and every range
\* stays.
Fewer == Holding(wbars') /\ \A j \in Series, d \in Segment : wbars'[j][d] \subseteq wbars[j][d]

SameRanges(m, n) ==
    /\ Describes(m) /\ Describes(n) /\ DOMAIN n = DOMAIN m
    /\ \A j \in DOMAIN m : n[j].start = m[j].start /\ n[j].end = m[j].end

\* Erasing segments, or some steps of it, keeps every range and takes bars away.
LEMMA ErasedParts ==
    ASSUME IInv, NEW k \in Series, NEW R, NEW D, EraseParts(k, R, D)
    PROVE  SameRanges(wmeta, wmeta') /\ SameRanges(m_metadata, m_metadata') /\ Fewer
  <1>1. ASSUME NEW m, Describes(m)
        PROVE  SameRanges(m, RecordsWithout(m, k, R)) /\ SameRanges(m, m)
    <2> DEFINE e == RecordsWithout(m, k, R)
    <2>1. /\ e = [j \in DOMAIN e |-> e[j]] /\ DOMAIN e = DOMAIN m
          /\ \A j \in DOMAIN m : e[j].start = m[j].start /\ e[j].end = m[j].end
      BY DEF RecordsWithout
    <2> HIDE DEF e
    <2> QED BY <1>1, <2>1 DEF SameRanges, Describes, e
  <1>2. \/ m_metadata' = RecordsWithout(m_metadata, k, R) /\ wmeta' = wmeta
        \/ wmeta' = RecordsWithout(wmeta, k, R) /\ m_metadata' = m_metadata
    BY DEF EraseParts
  <1>3. wbars' = [wbars EXCEPT ![k] = [s \in Segment |-> IF s \in D THEN {} ELSE wbars[k][s]]]
    BY DEF EraseParts
  <1>4. Describes(wmeta) /\ Describes(m_metadata) /\ Holding(wbars)
    BY DEF IInv, Shape
  <1>5. Fewer
    BY <1>3, <1>4 DEF Fewer, Holding
  <1> QED BY <1>1, <1>2, <1>4, <1>5

\* Bars can only go away while the cached ranges stay.
LEMMA CoversLess ==
    ASSUME Covers(m_metadata, wbars), SameRanges(m_metadata, m_metadata'), Fewer
    PROVE  Covers(m_metadata, wbars)'
  BY DEF Covers, SameRanges, Fewer

\* An erasure that returns keeps the invariant,
LEMMA EraseIInv ==
    ASSUME IInv, calls.prepared, calls.threw = "none", tx = "open", Fewer,
           SameRanges(wmeta, wmeta') \/ wmeta' = NoMeta,
           SameRanges(m_metadata, m_metadata'),
           UNCHANGED <<disk, tx, m_prepare_metadata, reader, calls>>
    PROVE  IInv'
  <1>1. /\ Describes(wmeta') /\ DOMAIN wmeta' \subseteq DOMAIN wmeta
    BY TablesAre DEF SameRanges, NoMeta
  <1>2. /\ calls' \in Calls /\ UNCHANGED disk /\ UNCHANGED m_prepare_metadata /\ UNCHANGED reader
        /\ tx' = tx /\ calls' = calls
    BY DEF IInv, Shape
  <1>3. Covers(m_metadata, wbars) => Covers(m_metadata, wbars)'
    BY CoversLess
  <1>4. Describes(m_metadata') /\ DOMAIN m_metadata' = DOMAIN m_metadata /\ Holding(wbars')
    BY DEF SameRanges, Fewer
  <1> QED BY <1>1, <1>2, <1>3, <1>4, WorkIInv

\* and so does one that throws.
LEMMA EraseThrowsIInv ==
    ASSUME IInv, calls.prepared, tx = "open", tx' = tx, NEW op \in {"erase", "erase_data"}, Threw(op),
           UNCHANGED disk, UNCHANGED reader, Holding(wbars'),
           Describes(wmeta'), DOMAIN wmeta' \subseteq DOMAIN wmeta, Describes(m_metadata')
    PROVE  IInv'
  BY ThrowIInv DEF IInv, WorkingIsKnown

LEMMA Keeps ==
    ASSUME IInv
    PROVE  /\ SameRanges(wmeta, wmeta) /\ SameRanges(m_metadata, m_metadata) /\ Holding(wbars)
           /\ \A n : SameRanges(wmeta, n) => Describes(n) /\ DOMAIN n \subseteq DOMAIN wmeta
           /\ \A n : SameRanges(m_metadata, n) => Describes(n)
           /\ Fewer => Holding(wbars')
  BY DEF IInv, Shape, SameRanges, Fewer

LEMMA EraseSegmentIInv ==
    ASSUME IInv, calls.prepared, calls.threw = "none", NEW k \in Series, NEW s \in Segment,
           EraseSegment(k, s)
    PROVE  IInv'
  <1>1. EraseParts(k, {s}, {s}) /\ tx = "open" /\ UNCHANGED <<disk, tx, m_prepare_metadata, reader, calls>>
    BY DEF EraseSegment, EraseSegments
  <1> QED BY <1>1, ErasedParts, EraseIInv

\* The masked erases and the unbounded erase_data take bars away.
LEMMA EraseSeriesIInv ==
    ASSUME IInv, calls.prepared, calls.threw = "none", tx = "open", NEW K, EraseSeries(K)
    PROVE  IInv'
  <1>1. /\ wbars' = [k \in Series |-> IF k \in K THEN NoBars[k] ELSE wbars[k]]
        /\ UNCHANGED <<disk, tx, m_prepare_metadata, reader, calls>> /\ wmeta' = wmeta /\ m_metadata' = m_metadata
    BY DEF EraseSeries, cache
  <1>2. Fewer
    BY <1>1 DEF IInv, Shape, Holding, NoBars, Fewer
  <1> QED BY <1>1, <1>2, Keeps, EraseIInv

\* erase_data with two bounds throws, with the first table already erased.
LEMMA EraseDataRangeIInv ==
    ASSUME IInv, calls.prepared, NEW sym \in Symbol, NEW from, NEW to,
           EraseDataRange(sym, from, to)
    PROVE  IInv'
  <1>1. /\ tx = "open" /\ tx' = tx /\ Threw("erase_data") /\ UNCHANGED disk /\ UNCHANGED reader
    BY DEF EraseDataRange
  <1>2. SameRanges(wmeta, wmeta') /\ SameRanges(m_metadata, m_metadata') /\ Holding(wbars')
    <2>1. CASE "M1" \in TimeFrame
      <3>1. <<sym, "M1">> \in Series
        BY <2>1 DEF Series
      <3> DEFINE S == SegmentOf("M1", from)..SegmentOf("M1", to - 1)
      <3>2. EraseParts(<<sym, "M1">>, S, S)
        BY <2>1 DEF EraseDataRange, EraseSegments
      <3> QED BY <3>1, <3>2, ErasedParts, Keeps
    <2>2. CASE "M1" \notin TimeFrame
      BY <2>2, Keeps DEF EraseDataRange
    <2> QED BY <2>1, <2>2
  <1> QED BY <1>1, <1>2, Keeps, EraseThrowsIInv

\* erase_all_data keeps the invariant: without bars every record covers.
LEMMA EraseAllIInv ==
    ASSUME IInv, calls.prepared, calls.threw = "none", erase_all_data
    PROVE  IInv'
  <1>1. /\ tx = "open" /\ wbars' = NoBars /\ wmeta' = NoMeta /\ m_metadata' = m_metadata
        /\ UNCHANGED <<disk, tx, m_prepare_metadata, reader, calls>>
    BY DEF erase_all_data, cache
  <1>2. Fewer
    BY <1>1, TablesAre DEF Fewer, NoBars
  <1> QED BY <1>1, <1>2, Keeps, EraseIInv

\* An erasure that the engine stops half-way.
LEMMA ErasureFailsIInv == ASSUME IInv, calls.prepared, ErasureFails PROVE IInv'
  <1>1. ASSUME NEW k \in Series, NEW S, EraseFails(k, S) PROVE IInv'
    <2>1. PICK R, D : EraseParts(k, R, D)
      BY <1>1 DEF EraseFails
    <2>2. /\ tx = "open" /\ tx' = tx /\ Threw("erase") /\ UNCHANGED disk /\ UNCHANGED reader
      BY <1>1 DEF EraseFails
    <2>3. SameRanges(wmeta, wmeta') /\ SameRanges(m_metadata, m_metadata') /\ Fewer
      BY <2>1, ErasedParts
    <2> QED BY <2>2, <2>3, Keeps, EraseThrowsIInv
  <1>2. ASSUME NEW K, EraseSeriesFails(K) PROVE IInv'
    <2>1. PICK k, s, L : EraseUpTo(L, k, s)
      BY <1>2 DEF EraseSeriesFails
    <2>2. Holding(wbars')
      BY <2>1 DEF IInv, Shape, Holding, EraseUpTo, NoBars
    <2>3. /\ tx = "open" /\ tx' = tx /\ Threw("erase") /\ UNCHANGED disk /\ UNCHANGED reader
          /\ wmeta' = wmeta /\ m_metadata' = m_metadata
      BY <1>2 DEF EraseSeriesFails, cache
    <2> QED BY <2>2, <2>3, Keeps, EraseThrowsIInv
  <1>3. ASSUME EraseAllFails PROVE IInv'
    <2>1. PICK K \in SUBSET DOMAIN wmeta : wmeta' = Part(wmeta, K)
      BY <1>3 DEF EraseAllFails
    <2>2. /\ tx = "open" /\ tx' = tx /\ Threw("erase") /\ UNCHANGED disk /\ UNCHANGED reader
          /\ wbars' = NoBars /\ m_metadata' = m_metadata
      BY <1>3 DEF EraseAllFails, cache
    <2>3. Describes(wmeta') /\ DOMAIN wmeta' \subseteq DOMAIN wmeta
      BY <2>1, TablesAre DEF IInv, Shape, Part
    <2> QED BY <2>2, <2>3, TablesAre, Keeps, EraseThrowsIInv
  <1> QED BY <1>1, <1>2, <1>3 DEF ErasureFails

\* Every step of a careful client keeps the invariant.
LEMMA NextIInv == IInv /\ [CarefulNext]_vars => IInv'
  <1> SUFFICES ASSUME IInv, [CarefulNext]_vars PROVE IInv'
    OBVIOUS
  <1>1. CASE Begin
    BY <1>1, BeginIInv
  <1>2. CASE Commit
    BY <1>2, CommitIInv
  <1>3. CASE CommitFails
    BY <1>3, CommitFailsIInv
  <1>4. CASE Rollback
    BY <1>4, DiscardIInv DEF Rollback, cache
  <1>5. CASE Restart
    BY <1>5, DiscardIInv DEF Restart
  <1>6. CASE ~calls.prepared /\ (prepare_metadata \/ PrepareFails)
    BY <1>6, PrepareIInv, HalfIInv
  <1>7. CASE calls.prepared /\ calls.threw = "none" /\ (after_transaction \/ FlushFails)
    BY <1>7, AfterTransactionIInv, HalfIInv
  <1>8. CASE calls.prepared /\ calls.threw = "none" /\ Upserts
    <2>1. PICK k \in Series, B \in SUBSET Time, front \in Time, back \in Time :
             /\ Ordered(B, front, back)
             /\ \/ upsert(k, B, front, back)
                \/ UpsertCrosses(k, front, back)
                \/ UpsertFails(k, B, front, back)
      BY <1>8 DEF Upserts
    <2> QED BY <1>8, <2>1, UpsertIInv, UpsertThrowsIInv
  <1>9. CASE calls.prepared /\ calls.threw = "none" /\ Erasures
    <2>1. ASSUME NEW K, tx = "open", EraseSeries(K) PROVE IInv'
      BY <1>9, <2>1, EraseSeriesIInv
    <2>2. ASSUME NEW k \in Series, EraseSymbolFrame(k) PROVE IInv'
      BY <2>1, <2>2 DEF EraseSymbolFrame
    <2>3. ASSUME NEW k \in Series, NEW s \in Segment, EraseSegment(k, s) PROVE IInv'
      BY <1>9, <2>3, EraseSegmentIInv
    <2>4. ASSUME NEW tf \in TimeFrame, EraseFrame(tf) PROVE IInv'
      BY <2>1, <2>4 DEF EraseFrame
    <2>5. ASSUME NEW sym \in Symbol, EraseDataUnbounded(sym) PROVE IInv'
      BY <2>1, <2>5 DEF EraseDataUnbounded
    <2>6. ASSUME NEW sym \in Symbol, NEW from, NEW to, EraseDataRange(sym, from, to) PROVE IInv'
      BY <1>9, <2>6, EraseDataRangeIInv
    <2>7. CASE erase_all_data
      BY <1>9, <2>7, EraseAllIInv
    <2> QED BY <1>9, <2>2, <2>3, <2>4, <2>5, <2>6, <2>7 DEF Erasures
  <1>10. CASE calls.prepared /\ ErasureFails
    BY <1>10, ErasureFailsIInv
  <1>11. CASE ReaderSteps
    BY <1>11, ReaderIInv
  <1>12. CASE UNCHANGED vars
    BY <1>12 DEF vars, IInv, Shape, CleanUntilPrepared, CacheLeads, HookedIsCovered, Trusted,
                 WorkingIsKnown, SnapshotIsKnown, CoveredUnlessExposed, NoPhantom, Covers
  <1> QED
    BY <1>1, <1>2, <1>3, <1>4, <1>5, <1>6, <1>7, <1>8, <1>9, <1>10, <1>11, <1>12
       DEF CarefulNext, Lifecycle, Work

\* Every reachable state of a careful client satisfies the invariant.
THEOREM Inductive == CarefulSpec => []IInv
  BY InitIInv, NextIInv, PTL DEF CarefulSpec

\* For a careful client the committed record of every series covers all its
\* bars, whatever fails, is rolled back, is erased or is restarted, and whatever
\* readers do to the shared cache, until a transaction commits under which a
\* reader has changed it.
THEOREM CoveredUnlessExposedHolds == CarefulSpec => []CoveredUnlessExposed
  <1>1. IInv => CoveredUnlessExposed
    BY DEF IInv
  <1> QED BY <1>1, Inductive, PTL

\* For a careful client no record of a rolled-back transaction is ever
\* committed, and no record that only a reader's stale snapshot made up.
THEOREM NoPhantomHolds == CarefulSpec => []NoPhantom
  <1>1. IInv => NoPhantom
    BY DEF IInv
  <1> QED BY <1>1, Inductive, PTL

-----------------------------------------------------------------------------
(* The segment boundary, for any client                                    *)

\* The tables of bars have their shape, and every bar is in its own segment.
Segmented ==
    /\ \A b \in {bars, wbars} :
            b = [k \in Series |-> b[k]] /\ \A k \in Series : b[k] \in [Segment -> SUBSET Time]
    /\ BarsInOwnSegment

\* Bars that do not cross the boundary belong to the segment of the first.
LEMMA NotCrossing ==
    ASSUME NEW tf \in TimeFrame, NEW B \in SUBSET Time, NEW front \in Time, NEW back \in Time,
           Ordered(B, front, back), ~Crosses(tf, front, back)
    PROVE  B \subseteq Span(tf, SegmentOf(tf, front))
  <1> DEFINE d == Duration[tf]
             s == front \div d
  <1>1. d \in Nat \ {0}
    BY DurationAssumption
  <1>2. front \in Nat /\ back \in Nat
    BY TimeAssumption DEF Time
  <1>3. back < s * d + d
    BY <1>1, <1>2 DEF Crosses, SegmentOf
  <1>4. s \in Nat /\ s * d <= front
    BY <1>1, <1>2
  <1>5. ASSUME NEW t \in B PROVE t \div d = s
    <2>1. t \in Nat /\ front <= t /\ t <= back
      BY <1>5, TimeAssumption DEF Time, Ordered
    <2>2. s * d <= t /\ t < s * d + d
      BY <1>1, <1>2, <1>3, <1>4, <2>1
    <2> HIDE DEF s, d
    <2> QED BY <1>1, <1>4, <2>1, <2>2
  <1> QED BY <1>5 DEF Span, SegmentOf

\* A step that takes bars away, or makes the two copies equal, keeps the bars
\* in their segments.
LEMMA LessSegmented ==
    ASSUME Segmented, bars' \in {bars, wbars},
           \/ wbars' \in {bars, wbars}
           \/ /\ wbars' = [k \in Series |-> wbars'[k]]
              /\ \A k \in Series : wbars'[k] \in [Segment -> SUBSET Time]
              /\ \A k \in Series, s \in Segment : wbars'[k][s] \subseteq wbars[k][s]
    PROVE  Segmented'
  <1>1. \A k \in Series, s \in Segment :
            /\ bars[k][s] \subseteq Span(Frame(k), s) /\ wbars[k][s] \subseteq Span(Frame(k), s)
    BY DEF Segmented, BarsInOwnSegment
  <1>2. \A k \in Series, s \in Segment :
            bars'[k][s] \subseteq Span(Frame(k), s) /\ wbars'[k][s] \subseteq Span(Frame(k), s)
    BY <1>1
  <1>3. \A b \in {bars', wbars'} :
            b = [k \in Series |-> b[k]] /\ \A k \in Series : b[k] \in [Segment -> SUBSET Time]
    BY DEF Segmented
  <1> QED BY <1>2, <1>3 DEF Segmented, BarsInOwnSegment

\* An upsert that passes the boundary check puts bars where they belong.
LEMMA UpsertSegmented ==
    ASSUME Segmented, NEW k \in Series, NEW B \in SUBSET Time, NEW front \in Time,
           NEW back \in Time, Ordered(B, front, back), upsert(k, B, front, back)
    PROVE  Segmented'
  <1> DEFINE s == SegmentOf(Frame(k), front)
  <1>1. bars' = bars /\ wbars' = [wbars EXCEPT ![k][s] = B]
    BY DEF upsert, disk
  <1>2. B \subseteq Span(Frame(k), s)
    <2>1. Frame(k) \in TimeFrame
      BY DEF Series, Frame
    <2> QED BY <2>1, NotCrossing DEF upsert
  <1> HIDE DEF s
  <1>3. /\ wbars = [j \in Series |-> wbars[j]]
        /\ \A j \in Series : wbars[j] \in [Segment -> SUBSET Time]
    BY DEF Segmented
  <1>4. /\ wbars' = [j \in Series |-> wbars'[j]]
        /\ \A j \in Series : wbars'[j] \in [Segment -> SUBSET Time]
    BY <1>1, <1>3
  <1>5. \A j \in Series, d \in Segment :
            wbars'[j][d] = wbars[j][d] \/ (j = k /\ d = s /\ wbars'[j][d] = B)
    BY <1>1, <1>3
  <1>6. \A j \in Series, d \in Segment : wbars'[j][d] \cup bars'[j][d] \subseteq Span(Frame(j), d)
    BY <1>1, <1>2, <1>5 DEF Segmented, BarsInOwnSegment
  <1> QED BY <1>1, <1>4, <1>6 DEF Segmented, BarsInOwnSegment

LEMMA PartsSegmented ==
    ASSUME Segmented, NEW k \in Series, NEW R, NEW D, EraseParts(k, R, D), bars' = bars
    PROVE  Segmented'
  <1>1. wbars' = [wbars EXCEPT ![k] = [s \in Segment |-> IF s \in D THEN {} ELSE wbars[k][s]]]
    BY DEF EraseParts
  <1>2. /\ wbars' = [j \in Series |-> wbars'[j]]
        /\ \A j \in Series : wbars'[j] \in [Segment -> SUBSET Time]
        /\ \A j \in Series, s \in Segment : wbars'[j][s] \subseteq wbars[j][s]
    BY <1>1 DEF Segmented
  <1> QED BY <1>2, LessSegmented

\* An erasure that stops half-way takes some of the bars away.
LEMMA HalfErasedSegmented ==
    ASSUME Segmented, ErasureFails
    PROVE  Segmented'
  <1>1. ASSUME NEW k \in Series, NEW S, EraseFails(k, S) PROVE Segmented'
    <2>1. bars' = bars /\ \E R, D : EraseParts(k, R, D)
      BY <1>1 DEF EraseFails, disk
    <2> QED BY <2>1, PartsSegmented
  <1>2. ASSUME NEW K, EraseSeriesFails(K) PROVE Segmented'
    <2>1. PICK k, s, L : EraseUpTo(L, k, s)
      BY <1>2 DEF EraseSeriesFails
    <2>2. /\ wbars' = [j \in Series |-> wbars'[j]]
          /\ \A j \in Series : wbars'[j] \in [Segment -> SUBSET Time]
          /\ \A j \in Series, d \in Segment : wbars'[j][d] \subseteq wbars[j][d]
      BY <2>1 DEF Segmented, NoBars, EraseUpTo
    <2> QED BY <1>2, <2>2, LessSegmented DEF EraseSeriesFails, disk
  <1>3. ASSUME EraseAllFails PROVE Segmented'
    <2>1. bars' = bars /\ wbars' = NoBars
      BY <1>3 DEF EraseAllFails, disk
    <2>2. /\ wbars' = [k \in Series |-> wbars'[k]]
          /\ \A k \in Series : wbars'[k] \in [Segment -> SUBSET Time]
          /\ \A k \in Series, s \in Segment : wbars'[k][s] \subseteq wbars[k][s]
      BY <2>1 DEF NoBars
    <2> QED BY <2>1, <2>2, LessSegmented
  <1> QED BY <1>1, <1>2, <1>3 DEF ErasureFails

\* Every step of any client keeps every bar in its own segment.
LEMMA NextSegmented == Segmented /\ [Next]_vars => Segmented'
  <1> SUFFICES ASSUME Segmented, [Next]_vars PROVE Segmented'
    OBVIOUS
  <1>1. CASE UNCHANGED <<bars, wbars>>
    BY <1>1, LessSegmented
  <1>2. CASE Begin \/ after_transaction \/ prepare_metadata \/ FlushFails \/ PrepareFails
    BY <1>1, <1>2 DEF Begin, after_transaction, prepare_metadata, FlushFails, PrepareFails, disk
  <1>3. CASE ReaderSteps
    BY <1>1, <1>3 DEF ReaderSteps, ReaderBegin, ReaderPrepare, ReaderPrepareFails, ReaderCommit,
                      ReaderRollback, disk
  <1>4. CASE Commit \/ CommitFails \/ Rollback \/ Restart
    <2>1. bars' \in {bars, wbars} /\ wbars' \in {bars, wbars}
      BY <1>4 DEF Commit, CommitFails, Rollback, Restart, Discard, disk
    <2> QED BY <2>1, LessSegmented
  <1>5. CASE Upserts
    <2>1. PICK k \in Series, B \in SUBSET Time, front \in Time, back \in Time :
             /\ Ordered(B, front, back)
             /\ \/ upsert(k, B, front, back)
                \/ UpsertCrosses(k, front, back)
                \/ UpsertFails(k, B, front, back)
      BY <1>5 DEF Upserts
    <2>2. UpsertCrosses(k, front, back) \/ UpsertFails(k, B, front, back) => UNCHANGED <<bars, wbars>>
      BY DEF UpsertCrosses, UpsertFails, disk
    <2> QED BY <1>1, <2>1, <2>2, UpsertSegmented
  <1>6. CASE Erasures
    <2>1. ASSUME NEW K, EraseSeries(K) PROVE Segmented'
      <3>1. bars' = bars /\ wbars' = [k \in Series |-> IF k \in K THEN NoBars[k] ELSE wbars[k]]
        BY <2>1 DEF EraseSeries, disk
      <3>2. /\ wbars' = [k \in Series |-> wbars'[k]]
            /\ \A k \in Series : wbars'[k] \in [Segment -> SUBSET Time]
            /\ \A k \in Series, s \in Segment : wbars'[k][s] \subseteq wbars[k][s]
        BY <3>1 DEF Segmented, NoBars
      <3> QED BY <3>1, <3>2, LessSegmented
    <2>2. ASSUME NEW k \in Series, NEW S, EraseSegments(k, S), bars' = bars PROVE Segmented'
      BY <2>2, PartsSegmented DEF EraseSegments
    <2>3. ASSUME NEW k \in Series, EraseSymbolFrame(k) PROVE Segmented'
      BY <2>1, <2>3 DEF EraseSymbolFrame
    <2>4. ASSUME NEW k \in Series, NEW s \in Segment, EraseSegment(k, s) PROVE Segmented'
      BY <2>2, <2>4 DEF EraseSegment, disk
    <2>5. ASSUME NEW tf \in TimeFrame, EraseFrame(tf) PROVE Segmented'
      BY <2>1, <2>5 DEF EraseFrame
    <2>6. ASSUME NEW sym \in Symbol, EraseDataUnbounded(sym) PROVE Segmented'
      BY <2>1, <2>6 DEF EraseDataUnbounded
    <2>7. ASSUME NEW sym \in Symbol, NEW from, NEW to, EraseDataRange(sym, from, to)
          PROVE  Segmented'
      <3>1. CASE "M1" \in TimeFrame
        <4>1. <<sym, "M1">> \in Series
          BY <3>1 DEF Series
        <4> QED BY <2>2, <2>7, <3>1, <4>1 DEF EraseDataRange, disk
      <3>2. CASE "M1" \notin TimeFrame
        BY <1>1, <2>7, <3>2 DEF EraseDataRange, disk
      <3> QED BY <3>1, <3>2
    <2>8. CASE erase_all_data
      <3>1. bars' = bars /\ wbars' = NoBars
        BY <2>8 DEF erase_all_data, disk
      <3>2. /\ wbars' = [k \in Series |-> wbars'[k]]
            /\ \A k \in Series : wbars'[k] \in [Segment -> SUBSET Time]
            /\ \A k \in Series, s \in Segment : wbars'[k][s] \subseteq wbars[k][s]
        BY <3>1 DEF NoBars
      <3> QED BY <3>1, <3>2, LessSegmented
    <2> QED BY <1>6, <2>3, <2>4, <2>5, <2>6, <2>7, <2>8 DEF Erasures
  <1>7. CASE UNCHANGED vars
    BY <1>1, <1>7 DEF vars
  <1>8. CASE ErasureFails
    BY <1>8, HalfErasedSegmented
  <1> QED BY <1>2, <1>3, <1>4, <1>5, <1>6, <1>7, <1>8 DEF Next, Lifecycle, Work

\* Whatever a client does, in any order and for any segment durations, a
\* segment holds bars of its own period only.
THEOREM BarsInOwnSegmentHolds == Spec => []BarsInOwnSegment
  <1>1. Init => Segmented
    BY DEF Init, NoBars, Segmented, BarsInOwnSegment
  <1>2. Segmented => BarsInOwnSegment
    BY DEF Segmented
  <1> QED BY <1>1, <1>2, NextSegmented, PTL DEF Spec
-----------------------------------------------------------------------------
(* The types, for any client                                               *)

LEMMA BarsCount ==
    ASSUME NEW B \in SUBSET Time
    PROVE  Cardinality(B) \in Nat
  <1>1. IsFiniteSet(Time)
    BY TimeAssumption, FS_Interval DEF Time
  <1>2. IsFiniteSet(B)
    BY <1>1, FS_Subset
  <1> QED BY <1>2, FS_CardinalityType

LEMMA MetaTableIs ==
    ASSUME NEW m
    PROVE  m \in MetaTables <=> /\ m = [k \in DOMAIN m |-> m[k]] /\ DOMAIN m \subseteq Series
                                /\ \A k \in DOMAIN m : m[k] \in Records
  <1>1. ASSUME m \in MetaTables
        PROVE  /\ m = [k \in DOMAIN m |-> m[k]] /\ DOMAIN m \subseteq Series
               /\ \A k \in DOMAIN m : m[k] \in Records
    <2>1. PICK K \in SUBSET Series : m \in [K -> Records]
      BY <1>1 DEF MetaTables
    <2> QED BY <2>1
  <1>2. ASSUME m = [k \in DOMAIN m |-> m[k]], DOMAIN m \subseteq Series,
               \A k \in DOMAIN m : m[k] \in Records
        PROVE  m \in MetaTables
    <2>1. m \in [DOMAIN m -> Records]
      BY <1>2
    <2> QED BY <1>2, <2>1 DEF MetaTables
  <1> QED BY <1>1, <1>2

LEMMA NoMetaIs == NoMeta \in MetaTables
  BY MetaTableIs DEF NoMeta

LEMMA OverlayIs ==
    ASSUME NEW m \in MetaTables, NEW w \in MetaTables
    PROVE  Overlay(m, w) \in MetaTables
  <1>1. /\ DOMAIN m \subseteq Series /\ \A k \in DOMAIN m : m[k] \in Records
        /\ DOMAIN w \subseteq Series /\ \A k \in DOMAIN w : w[k] \in Records
    BY MetaTableIs
  <1> DEFINE o == Overlay(m, w)
  <1>2. o = [k \in DOMAIN o |-> o[k]] /\ DOMAIN o \subseteq Series /\ \A k \in DOMAIN o : o[k] \in Records
    BY <1>1 DEF Overlay
  <1> HIDE DEF o
  <1>3. o \in MetaTables
    BY <1>2, MetaTableIs
  <1> QED BY <1>3 DEF o

\* Every segment up to the last one of a time is a segment.
LEMMA SegmentsUpTo ==
    ASSUME NEW tf \in TimeFrame, NEW t \in Time, NEW s \in Nat, s <= SegmentOf(tf, t)
    PROVE  s \in Segment
  <1> DEFINE d == Duration[tf]
             q == t \div d
             p == (s * d) \div d
  <1>1. d \in Nat \ {0} /\ t \in Nat /\ MaxTime \in Nat /\ t <= MaxTime
    BY DurationAssumption, TimeAssumption DEF Time
  <1>2. q \in Nat /\ q * d <= t /\ s <= q
    BY <1>1, Division DEF SegmentOf
  <1>3. s * d \in Nat
    BY <1>1
  <1>4. p \in Nat /\ p * d <= s * d /\ s * d < p * d + d
    BY <1>1, <1>3, Division
  <1>5. p * d \in Nat /\ q * d \in Nat
    BY <1>1, <1>2, <1>4
  <1>6. s * d \in Time
    <2> HIDE DEF q, p, d
    <2>1. s * d <= q * d
      BY <1>1, <1>2, <1>3, <1>5, Apart
    <2> QED BY <1>1, <1>2, <1>3, <1>5, <2>1 DEF Time
  <1>7. p = s
    <2> HIDE DEF p, d, q
    <2>1. ~(p < s)
      BY <1>1, <1>3, <1>4, <1>5, Apart
    <2>2. ~(s < p)
      BY <1>1, <1>3, <1>4, <1>5, Apart
    <2> QED BY <1>4, <2>1, <2>2
  <1>8. SegmentOf(tf, s * d) = s
    BY <1>7 DEF SegmentOf
  <1> HIDE DEF d
  <1> QED BY <1>6, <1>8 DEF Segment

\* The count of a record that loses segments stays a count of a record: by
\* induction over the segments.
LEMMA CountIs ==
    ASSUME NEW c \in 0..MaxCount, NEW k \in Series, NEW S \in SUBSET Segment,
           wbars[k] \in [Segment -> SUBSET Time]
    PROVE  CountWithout(c, k, S) \in 0..MaxCount
  <1> DEFINE N == MaxTime + 1
             C == 0..MaxCount
             Left(a, n) == IF n - 1 \notin S THEN a
                           ELSE LET stored == Cardinality(wbars[k][n - 1])
                                IN IF stored > 0 /\ a >= stored THEN a - stored ELSE 0
             step == [x \in C \X (1..N) |-> Left(x[1], x[2])]
             Body(g) == [n \in 0..(MaxTime + 1) |->
                            IF n = 0 THEN c
                            ELSE IF n - 1 \notin S THEN g[n - 1]
                            ELSE LET stored == Cardinality(wbars[k][n - 1])
                                 IN IF stored > 0 /\ g[n - 1] >= stored THEN g[n - 1] - stored ELSE 0]
  <1>1. N \in Nat /\ MaxCount \in Nat /\ c \in C
    BY TimeAssumption, BoundAssumption
  <1>2. ASSUME NEW a \in C, NEW n \in 1..N PROVE Left(a, n) \in C
    <2>1. CASE n - 1 \in S
      <3> DEFINE stored == Cardinality(wbars[k][n - 1])
      <3>1. stored \in Nat
        BY <2>1, BarsCount
      <3> HIDE DEF stored
      <3>2. (IF stored > 0 /\ a >= stored THEN a - stored ELSE 0) \in C
        BY <1>1, <3>1
      <3> QED BY <2>1, <3>2 DEF stored
    <2>2. CASE n - 1 \notin S
      BY <2>2
    <2> QED BY <2>1, <2>2
  <1>3. step \in [C \X (1..N) -> C]
    BY <1>2
  <1>4. \A a \in C, n \in 1..N : step[<<a, n>>] = Left(a, n)
    OBVIOUS
  <1> HIDE DEF step, C
  <1>5. PICK f \in [0..N -> C] : f[0] = c /\ \A n \in 1..N : f[n] = step[<<f[n - 1], n>>]
    <2>1. IsStep(step, N, C)
      BY <1>3 DEF IsStep
    <2>2. \E f : Iterates(f, N, C, c, step)
      BY <1>1, <2>1, RecursiveFunction
    <2> QED BY <2>2 DEF Iterates
  <1>6. f = Body(f)
    <2>1. ASSUME NEW n \in 0..N PROVE f[n] = Body(f)[n]
      <3>1. CASE n = 0
        BY <1>5, <3>1
      <3>2. CASE n # 0
        <4>1. n \in 1..N /\ n - 1 \in 0..N /\ f[n - 1] \in C
          BY <1>1, <1>5, <3>2
        <4>2. f[n] = Left(f[n - 1], n)
          BY <1>4, <1>5, <4>1
        <4> QED BY <3>2, <4>2
      <3> QED BY <3>1, <3>2
    <2>2. f = [n \in 0..N |-> f[n]]
      BY <1>5
    <2> QED BY <2>1, <2>2
  <1> DEFINE after == CHOOSE g : g = Body(g)
  <1>7. after = Body(after)
    BY <1>6
  <1>8. CountWithout(c, k, S) = after[MaxTime + 1]
    BY Zenon DEF CountWithout
  <1> HIDE DEF after
  <1>9. after[0] = c
    BY <1>1, <1>7
  <1>10. ASSUME NEW n \in 1..N, after[n - 1] \in C PROVE after[n] \in C
    <2>1. n \in 0..(MaxTime + 1) /\ n # 0
      BY <1>1
    <2>2. after[n] = Left(after[n - 1], n)
      BY <1>7, <2>1
    <2> QED BY <1>2, <1>10, <2>2
  <1> DEFINE T == {n \in 0..N : after[n] \in C}
  <1>11. 0 \in T /\ \A n \in 1..N : n - 1 \in T => n \in T
    BY <1>1, <1>9, <1>10
  <1> HIDE DEF T
  <1>12. 0..N \subseteq T
    BY <1>1, <1>11, BoundedInduction
  <1>13. N \in T
    BY <1>1, <1>12
  <1>14. after[N] \in C
    BY <1>13 DEF T
  <1> QED BY <1>8, <1>14 DEF C

\* The record an upsert gives a series is a record, but for the bound on its
\* count: a segment holds fewer bars than its record counts, or it is reset.
LEMMA UpsertedIs ==
    ASSUME TypeOK, NEW k \in Series, NEW s \in Segment, NEW B \in SUBSET Time,
           NEW front \in Time, NEW back \in Time
    PROVE  UpsertedRecord(k, s, B, front, back) \in [count : Nat, start : Time, end : Time]
  <1> DEFINE old == m_metadata[k]
             n == Cardinality(B)
             stored == Cardinality(wbars[k][s])
  <1>1. n \in Nat /\ stored \in Nat
    BY BarsCount DEF TypeOK, BarTables
  <1>2. k \in DOMAIN m_metadata => old \in [count : 0..MaxCount, start : Time, end : Time]
    BY MetaTableIs DEF TypeOK, Records
  <1> HIDE DEF old, n, stored
  <1>3. UpsertedRecord(k, s, B, front, back) =
          IF k \notin DOMAIN m_metadata THEN [count |-> n, start |-> front, end |-> back]
          ELSE [count |-> IF stored > 0 /\ old.count >= stored THEN (old.count - stored) + n ELSE n,
                start |-> IF front < old.start THEN front ELSE old.start,
                end   |-> IF back > old.end THEN back ELSE old.end]
    BY DEF UpsertedRecord, old, n, stored
  <1>4. CASE k \notin DOMAIN m_metadata
    BY <1>1, <1>3, <1>4
  <1>5. CASE k \in DOMAIN m_metadata
    <2>1. old.count \in Nat /\ old.start \in Time /\ old.end \in Time
      BY <1>2, <1>5, BoundAssumption
    <2>2. (IF stored > 0 /\ old.count >= stored THEN (old.count - stored) + n ELSE n) \in Nat
      BY <1>1, <2>1
    <2> QED BY <1>3, <1>5, <2>1, <2>2
  <1> QED BY <1>4, <1>5

LEMMA CacheIs ==
    ASSUME TypeOK, NEW k \in Series, NEW s \in Segment, NEW B \in SUBSET Time,
           NEW front \in Time, NEW back \in Time, UpdateCache(k, s, B, front, back)
    PROVE  m_metadata' \in MetaTables
  <1> DEFINE r == UpsertedRecord(k, s, B, front, back)
             one == [j \in {k} |-> r]
  <1>1. m_metadata \in MetaTables
    BY DEF TypeOK
  <1>2. CASE m_metadata' = m_metadata
    BY <1>1, <1>2
  <1>3. CASE r.count <= MaxCount /\ m_metadata' = Overlay(one, m_metadata)
    <2>1. r \in Records
      <3>1. r \in [count : Nat, start : Time, end : Time]
        BY UpsertedIs
      <3> HIDE DEF r
      <3> QED BY <1>3, <3>1, BoundAssumption DEF Records
    <2>2. one \in MetaTables
      <3>1. one = [j \in DOMAIN one |-> one[j]] /\ DOMAIN one \subseteq Series
            /\ \A j \in DOMAIN one : one[j] \in Records
        BY <2>1
      <3> HIDE DEF one
      <3> QED BY <3>1, MetaTableIs
    <2> HIDE DEF one
    <2> QED BY <1>1, <1>3, <2>2, OverlayIs
  <1> QED BY <1>2, <1>3 DEF UpdateCache

LEMMA RecordsWithoutIs ==
    ASSUME NEW m \in MetaTables, NEW k \in Series, NEW S \in SUBSET Segment, wbars \in BarTables
    PROVE  RecordsWithout(m, k, S) \in MetaTables
  <1> DEFINE o == RecordsWithout(m, k, S)
  <1>1. DOMAIN m \subseteq Series /\ \A j \in DOMAIN m : m[j] \in Records
    BY MetaTableIs
  <1>2. k \in DOMAIN m => CountWithout(m[k].count, k, S) \in 0..MaxCount
    <2>1. k \in DOMAIN m => m[k].count \in 0..MaxCount
      BY <1>1 DEF Records
    <2>2. wbars[k] \in [Segment -> SUBSET Time]
      BY DEF BarTables
    <2> QED BY <2>1, <2>2, CountIs
  <1>3. o = [j \in DOMAIN o |-> o[j]] /\ DOMAIN o = DOMAIN m
    BY DEF RecordsWithout
  <1>4. \A j \in DOMAIN o : o[j] \in Records
    BY <1>1, <1>2 DEF RecordsWithout, Records
  <1> HIDE DEF o
  <1>5. o \in MetaTables
    BY <1>1, <1>3, <1>4, MetaTableIs
  <1> QED BY <1>5 DEF o

LEMMA ErasedIs ==
    ASSUME TypeOK, NEW k \in Series, NEW R \in SUBSET Segment, NEW D, EraseParts(k, R, D)
    PROVE  wbars' \in BarTables /\ wmeta' \in MetaTables /\ m_metadata' \in MetaTables
  <1>1. wbars \in BarTables /\ wmeta \in MetaTables /\ m_metadata \in MetaTables
    BY DEF TypeOK
  <1>2. wmeta' \in MetaTables /\ m_metadata' \in MetaTables
    BY <1>1, RecordsWithoutIs DEF EraseParts
  <1>3. wbars' = [wbars EXCEPT ![k] = [s \in Segment |-> IF s \in D THEN {} ELSE wbars[k][s]]]
    BY DEF EraseParts
  <1>4. [s \in Segment |-> IF s \in D THEN {} ELSE wbars[k][s]] \in [Segment -> SUBSET Time]
    BY <1>1 DEF BarTables
  <1> HIDE DEF EraseParts
  <1> QED BY <1>1, <1>2, <1>3, <1>4 DEF BarTables

LEMMA PartIs ==
    ASSUME NEW m \in MetaTables, NEW K \in SUBSET DOMAIN m
    PROVE  Part(m, K) \in MetaTables
  <1> DEFINE o == Part(m, K)
  <1>1. DOMAIN m \subseteq Series /\ \A k \in DOMAIN m : m[k] \in Records
    BY MetaTableIs
  <1>2. o = [k \in DOMAIN o |-> o[k]] /\ DOMAIN o \subseteq Series /\ \A k \in DOMAIN o : o[k] \in Records
    BY <1>1 DEF Part
  <1> HIDE DEF o
  <1>3. o \in MetaTables
    BY <1>2, MetaTableIs
  <1> QED BY <1>3 DEF o

\* The segments of a bounded erase_data.
LEMMA RangeIs ==
    ASSUME "M1" \in TimeFrame, NEW from \in 1..(MaxTime + 1), NEW to \in 1..(MaxTime + 1)
    PROVE  SegmentOf("M1", from)..SegmentOf("M1", to - 1) \subseteq Segment
  <1>1. from \in Nat /\ to - 1 \in Time /\ to - 1 \in Nat /\ Duration["M1"] \in Nat \ {0}
    BY TimeAssumption, DurationAssumption DEF Time
  <1>2. SegmentOf("M1", from) \in Nat /\ SegmentOf("M1", to - 1) \in Nat
    BY <1>1, Division DEF SegmentOf
  <1>3. SUFFICES ASSUME NEW s \in SegmentOf("M1", from)..SegmentOf("M1", to - 1) PROVE s \in Segment
    OBVIOUS
  <1>4. s \in Nat /\ s <= SegmentOf("M1", to - 1)
    BY <1>2
  <1> QED BY <1>1, <1>4, SegmentsUpTo

Working == /\ wbars' \in BarTables /\ wmeta' \in MetaTables /\ m_metadata' \in MetaTables

\* The calls of a write transaction work on its tables and the cache.
LEMMA WorkTypes ==
    ASSUME TypeOK, Working, UNCHANGED <<disk, tx, m_prepare_metadata, reader>>,
           faults' = faults \/ Fault,
           calls' \in Calls
    PROVE  TypeOK'
  <1>1. faults' \in 0..MaxFaults
    BY BoundAssumption DEF TypeOK, Fault
  <1> QED BY <1>1 DEF TypeOK, Working, disk

LEMMA UpsertTypes ==
    ASSUME TypeOK, NEW k \in Series, NEW B \in SUBSET Time, NEW front \in Time, NEW back \in Time,
           upsert(k, B, front, back) \/ UpsertCrosses(k, front, back) \/ UpsertFails(k, B, front, back)
    PROVE  TypeOK'
  <1> DEFINE s == SegmentOf(Frame(k), front)
  <1>1. s \in Segment
    BY DEF Segment, Series, Frame
  <1>2. wbars \in BarTables /\ wmeta \in MetaTables /\ m_metadata \in MetaTables
        /\ calls \in Calls
    BY DEF TypeOK
  <1>3. CASE upsert(k, B, front, back)
    <2>1. UpdateCache(k, s, B, front, back) /\ wbars' = [wbars EXCEPT ![k][s] = B] /\ wmeta' = wmeta
      BY <1>3 DEF upsert
    <2>2. wbars' \in BarTables
      BY <1>1, <1>2, <2>1 DEF BarTables
    <2>3. m_metadata' \in MetaTables
      BY <1>1, <2>1, CacheIs
    <2>4. Working
      BY <1>2, <2>1, <2>2, <2>3 DEF Working
    <2>5. calls' = [calls EXCEPT !.upserted = calls.upserted \cup {k}]
      BY <1>3 DEF upsert
    <2>6. calls' \in Calls
      BY <1>2, <2>5 DEF Calls
    <2>7. UNCHANGED <<disk, tx, m_prepare_metadata, reader, faults>>
      BY <1>3 DEF upsert
    <2> QED BY <2>4, <2>6, <2>7, WorkTypes
  <1>4. CASE UpsertCrosses(k, front, back)
    <2>1. Working
      BY <1>2, <1>4 DEF UpsertCrosses, Working, cache
    <2>2. calls' \in Calls
      BY <1>2, <1>4, ThrewIs DEF UpsertCrosses
    <2>3. UNCHANGED <<disk, tx, m_prepare_metadata, reader, faults>>
      BY <1>4 DEF UpsertCrosses, cache
    <2> QED BY <2>1, <2>2, <2>3, WorkTypes
  <1>5. CASE UpsertFails(k, B, front, back)
    <2>1. UpdateCache(k, s, B, front, back) /\ wbars' = wbars /\ wmeta' = wmeta
      BY <1>5 DEF UpsertFails
    <2>2. m_metadata' \in MetaTables
      BY <1>1, <2>1, CacheIs
    <2>3. Working
      BY <1>2, <2>1, <2>2 DEF Working
    <2>4. calls' \in Calls
      BY <1>2, <1>5, ThrewIs DEF UpsertFails
    <2>5. UNCHANGED <<disk, tx, m_prepare_metadata, reader>> /\ Fault
      BY <1>5 DEF UpsertFails
    <2> QED BY <2>3, <2>4, <2>5, WorkTypes
  <1> QED BY <1>3, <1>4, <1>5

LEMMA ErasureTypes ==
    ASSUME TypeOK, Erasures
    PROVE  TypeOK'
  <1>1. wbars \in BarTables /\ wmeta \in MetaTables /\ m_metadata \in MetaTables
        /\ calls \in Calls
        /\ NoBars \in BarTables
    BY DEF TypeOK, NoBars, BarTables
  <1>2. ASSUME NEW k \in Series, NEW s \in Segment, EraseSegment(k, s) PROVE TypeOK'
    <2>1. Working
      <3>1. {s} \in SUBSET Segment
        OBVIOUS
      <3> QED BY <1>2, <3>1, ErasedIs DEF EraseSegment, EraseSegments, Working
    <2> QED BY <1>1, <1>2, <2>1, WorkTypes DEF EraseSegment
  <1>3. ASSUME NEW K, EraseSeries(K) PROVE TypeOK'
    <2>1. wbars' \in BarTables
      BY <1>1, <1>3 DEF EraseSeries, BarTables
    <2>2. Working
      BY <1>1, <1>3, <2>1 DEF EraseSeries, Working, cache
    <2> QED BY <1>1, <1>3, <2>2, WorkTypes DEF EraseSeries, cache
  <1>4. ASSUME NEW sym \in Symbol, NEW from \in 1..(MaxTime + 1), NEW to \in 1..(MaxTime + 1),
               EraseDataRange(sym, from, to)
        PROVE  TypeOK'
    <2> DEFINE S == SegmentOf("M1", from)..SegmentOf("M1", to - 1)
    <2>1. CASE "M1" \in TimeFrame
      <3>1. S \in SUBSET Segment
        BY <2>1, RangeIs
      <3>2. <<sym, "M1">> \in Series
        BY <2>1 DEF Series
      <3>3. EraseParts(<<sym, "M1">>, S, S)
        BY <1>4, <2>1 DEF EraseDataRange, EraseSegments
      <3>4. Working
        BY <3>1, <3>2, <3>3, ErasedIs DEF Working
      <3>5. UNCHANGED <<disk, tx, m_prepare_metadata, reader, faults>> /\ calls' \in Calls
        BY <1>1, <1>4, ThrewIs DEF EraseDataRange
      <3> QED BY <3>4, <3>5, WorkTypes
    <2>2. CASE "M1" \notin TimeFrame
      <3>1. Working
        BY <1>1, <1>4, <2>2 DEF EraseDataRange, Working
      <3>2. UNCHANGED <<disk, tx, m_prepare_metadata, reader, faults>> /\ calls' \in Calls
        BY <1>1, <1>4, ThrewIs DEF EraseDataRange
      <3> QED BY <3>1, <3>2, WorkTypes
    <2> QED BY <2>1, <2>2
  <1>5. ASSUME erase_all_data PROVE TypeOK'
    <2>1. Working
      BY <1>1, <1>5, NoMetaIs DEF erase_all_data, Working, cache
    <2>2. UNCHANGED <<disk, tx, m_prepare_metadata, reader, calls, faults>>
      BY <1>5 DEF erase_all_data, cache
    <2>3. calls' \in Calls
      BY <1>1, <2>2
    <2>4. faults' = faults
      BY <2>2
    <2>5. UNCHANGED <<disk, tx, m_prepare_metadata, reader>>
      BY <2>2
    <2> QED BY <2>1, <2>3, <2>4, <2>5, WorkTypes
  <1> QED BY <1>2, <1>3, <1>4, <1>5 DEF Erasures, EraseSymbolFrame, EraseFrame, EraseDataUnbounded

LEMMA HalfErasedTypes ==
    ASSUME TypeOK, ErasureFails
    PROVE  TypeOK'
  <1>1. wbars \in BarTables /\ wmeta \in MetaTables /\ m_metadata \in MetaTables /\ calls \in Calls
        /\ NoBars \in BarTables
    BY DEF TypeOK, NoBars, BarTables
  <1>2. ASSUME Working, UNCHANGED <<disk, tx, m_prepare_metadata, reader>>, Fault, Threw("erase") PROVE TypeOK'
    <2>1. calls' \in Calls
      BY <1>1, <1>2, ThrewIs
    <2> QED BY <1>2, <2>1, WorkTypes
  <1>3. ASSUME NEW k \in Series, NEW S \in SUBSET Segment, EraseFails(k, S) PROVE TypeOK'
    <2>1. \E R \in SUBSET Segment : \E D \in SUBSET Segment : EraseParts(k, R, D)
      <3>1. PICK s \in S : LET D == {d \in S : d < s} IN
                EraseParts(k, D, D) \/ EraseParts(k, D \cup {s}, D)
        BY <1>3 DEF EraseFails
      <3> DEFINE D == {d \in S : d < s}
      <3>2. D \in SUBSET Segment /\ D \cup {s} \in SUBSET Segment
        OBVIOUS
      <3>3. EraseParts(k, D, D) \/ EraseParts(k, D \cup {s}, D)
        BY <3>1
      <3> HIDE DEF D
      <3> QED BY <3>2, <3>3
    <2>a. PICK R \in SUBSET Segment : \E D \in SUBSET Segment : EraseParts(k, R, D)
      BY <2>1
    <2>b. PICK D \in SUBSET Segment : EraseParts(k, R, D)
      BY <2>a
    <2>2. Working
      BY <2>b, ErasedIs DEF Working
    <2> QED BY <1>2, <1>3, <2>2 DEF EraseFails
  <1>4. ASSUME NEW K, EraseSeriesFails(K) PROVE TypeOK'
    <2>1. PICK k, s, L : EraseUpTo(L, k, s)
      BY <1>4 DEF EraseSeriesFails
    <2>2. wbars' \in BarTables
      BY <1>1, <2>1 DEF EraseUpTo, BarTables
    <2>3. Working
      BY <1>1, <1>4, <2>2 DEF EraseSeriesFails, Working, cache
    <2> QED BY <1>2, <1>4, <2>3 DEF EraseSeriesFails, cache
  <1>5. ASSUME EraseAllFails PROVE TypeOK'
    <2>1. wmeta' \in MetaTables
      BY <1>1, <1>5, PartIs DEF EraseAllFails
    <2>2. Working
      BY <1>1, <1>5, <2>1 DEF EraseAllFails, Working, cache
    <2> QED BY <1>2, <1>5, <2>2 DEF EraseAllFails, cache
  <1>6. ASSUME NEW k \in Series, Frame(k) = "M1", NEW from \in 1..(MaxTime + 1),
               NEW to \in 1..(MaxTime + 1), EraseFails(k, SegmentOf("M1", from)..SegmentOf("M1", to - 1))
        PROVE  TypeOK'
    <2>1. "M1" \in TimeFrame
      BY <1>6 DEF Series, Frame
    <2> QED BY <1>3, <1>6, <2>1, RangeIs
  <1>7. ASSUME NEW k \in Series, NEW s \in Segment, EraseFails(k, {s}) PROVE TypeOK'
    <2>1. {s} \in SUBSET Segment
      OBVIOUS
    <2> QED BY <1>3, <1>7, <2>1
  <1> QED BY <1>4, <1>5, <1>6, <1>7 DEF ErasureFails

\* At most one reader runs.
LEMMA SmallSets ==
    ASSUME NEW m
    PROVE  Cardinality({}) <= 1 /\ Cardinality({m}) <= 1
  <1>1. IsFiniteSet({}) /\ Cardinality({}) = 0
    BY FS_EmptySet
  <1>2. Cardinality({m}) = 1
    BY FS_Singleton
  <1> QED BY <1>1, <1>2

LEMMA LifecycleTypes ==
    ASSUME TypeOK, Lifecycle \/ after_transaction \/ prepare_metadata \/ FlushFails \/ PrepareFails
    PROVE  TypeOK'
  <1>1. /\ bars \in BarTables /\ wbars \in BarTables
        /\ meta \in MetaTables /\ wmeta \in MetaTables /\ m_metadata \in MetaTables
        /\ reader \subseteq MetaTables /\ Cardinality(reader) <= 1
        /\ calls \in Calls
        /\ known \subseteq Series /\ m_prepare_metadata \in BOOLEAN /\ faults \in 0..MaxFaults
        /\ exposed \in BOOLEAN
    BY DEF TypeOK
  <1>2. /\ NewCalls \in Calls /\ calls.disturbed \in BOOLEAN
        /\ Threw("commit") \/ Threw("prepare") => calls' \in Calls
        /\ calls' = [calls EXCEPT !.prepared = TRUE] => calls' \in Calls
    BY <1>1, ThrewIs DEF NewCalls, Calls
  <1>3. Fault => faults' \in 0..MaxFaults
    BY <1>1, BoundAssumption DEF Fault
  <1>4. CASE Begin
    BY <1>1, <1>4 DEF Begin, TypeOK, disk, cache
  <1>5. CASE Commit
    <2>1. known' \subseteq Series /\ exposed' \in BOOLEAN
      BY <1>1, <1>2, <1>5 DEF Commit, Calls
    <2> QED BY <1>1, <1>2, <1>5, <2>1 DEF Commit, TypeOK, cache
  <1>6. CASE CommitFails
    BY <1>1, <1>2, <1>3, <1>6 DEF CommitFails, Discard, TypeOK, disk, cache
  <1>7. CASE Rollback
    BY <1>1, <1>2, <1>7 DEF Rollback, Discard, TypeOK, disk, cache
  <1>8. CASE Restart
    <2>1. Cardinality({}) <= 1
      BY SmallSets
    <2> QED BY <1>1, <1>2, <1>3, <1>8, <2>1, NoMetaIs DEF Restart, Discard, TypeOK, disk
  <1>9. CASE after_transaction
    <2>1. wmeta' \in MetaTables
      BY <1>1, <1>9, OverlayIs DEF after_transaction
    <2> QED BY <1>1, <1>9, <2>1 DEF after_transaction, TypeOK, disk
  <1>10. CASE prepare_metadata
    BY <1>1, <1>2, <1>10 DEF prepare_metadata, TypeOK, disk
  <1>11. CASE FlushFails
    <2>1. wmeta' \in MetaTables
      BY <1>1, <1>11, PartIs, OverlayIs DEF FlushFails
    <2> QED BY <1>1, <1>2, <1>3, <1>11, <2>1 DEF FlushFails, TypeOK, disk, cache
  <1>12. CASE PrepareFails
    <2>1. m_metadata' \in MetaTables
      BY <1>1, <1>12, PartIs DEF PrepareFails
    <2> QED BY <1>1, <1>2, <1>3, <1>12, <2>1 DEF PrepareFails, TypeOK, disk
  <1> QED BY <1>4, <1>5, <1>6, <1>7, <1>8, <1>9, <1>10, <1>11, <1>12 DEF Lifecycle

LEMMA ReaderTypes ==
    ASSUME TypeOK, ReaderSteps
    PROVE  TypeOK'
  <1>1. Cardinality({}) <= 1 /\ Cardinality({meta}) <= 1 /\ meta \in MetaTables
    BY SmallSets DEF TypeOK
  <1>2. Disturbs => calls' \in Calls
    BY DEF TypeOK, Calls, Disturbs
  <1>3. CASE ReaderBegin
    BY <1>1, <1>3 DEF ReaderBegin, TypeOK, disk, cache
  <1>4. CASE ReaderPrepare
    BY <1>2, <1>4 DEF ReaderPrepare, TypeOK, disk
  <1>5. CASE ReaderPrepareFails
    <2>1. m_metadata' \in MetaTables
      BY <1>5, PartIs DEF ReaderPrepareFails, TypeOK
    <2>2. faults' \in 0..MaxFaults
      BY <1>5, BoundAssumption DEF ReaderPrepareFails, Fault, TypeOK
    <2> QED BY <1>2, <1>5, <2>1, <2>2 DEF ReaderPrepareFails, TypeOK, disk
  <1>6. CASE ReaderCommit
    BY <1>1, <1>2, <1>6 DEF ReaderCommit, TypeOK, disk
  <1>7. CASE ReaderRollback
    BY <1>1, <1>7 DEF ReaderRollback, TypeOK, disk, cache
  <1> QED BY <1>3, <1>4, <1>5, <1>6, <1>7 DEF ReaderSteps

LEMMA NextTypes == TypeOK /\ [Next]_vars => TypeOK'
  <1> SUFFICES ASSUME TypeOK, [Next]_vars PROVE TypeOK'
    OBVIOUS
  <1>1. CASE Lifecycle \/ after_transaction \/ prepare_metadata \/ FlushFails \/ PrepareFails
    BY <1>1, LifecycleTypes
  <1>2. CASE Upserts
    BY <1>2, UpsertTypes DEF Upserts
  <1>3. CASE Erasures \/ ErasureFails
    BY <1>3, ErasureTypes, HalfErasedTypes
  <1>4. CASE ReaderSteps
    BY <1>4, ReaderTypes
  <1>5. CASE UNCHANGED vars
    BY <1>5 DEF vars, disk, cache, TypeOK
  <1> QED BY <1>1, <1>2, <1>3, <1>4, <1>5 DEF Next, Work

\* Tables, cache and snapshots keep their types in any order of calls: a count
\* is never negative, however often segments are erased and written again.
THEOREM TypeOKHolds == Spec => []TypeOK
  <1>1. Init => TypeOK
    <2>1. Cardinality({}) <= 1
      BY SmallSets
    <2>2. NoBars \in BarTables /\ 0 \in 0..MaxFaults
      BY BoundAssumption DEF NoBars, BarTables
    <2>3. NewCalls \in Calls
      BY DEF NewCalls, Calls
    <2> QED BY <2>1, <2>2, <2>3, NoMetaIs DEF Init, TypeOK
  <1> QED BY <1>1, NextTypes, PTL DEF Spec

\* A careful client is a client.
THEOREM CarefulIsAllowed == CarefulSpec => Spec
  <1>1. [CarefulNext]_vars => [Next]_vars
    BY DEF CarefulNext, Next
  <1> QED BY <1>1, PTL DEF CarefulSpec, Spec

-----------------------------------------------------------------------------
(* The keys of the tables, for fields of any size                          *)

\* The field of a number between what is above it and what is below.
Holds(key, above, size, d, unit, below) ==
    /\ unit \in Nat \ {0} /\ size \in Nat \ {0} /\ above \in Nat
    /\ d \in 0..(size - 1) /\ below \in 0..(unit - 1)
    /\ key = (above * size + d) * unit + below

LEMMA FieldIs ==
    ASSUME NEW key, NEW above, NEW size, NEW d, NEW unit, NEW below, Holds(key, above, size, d, unit, below)
    PROVE  Field(key, unit, size) = d
  <1> USE DEF Holds
  <1> DEFINE q == above * size + d
  <1>1. above * size \in Nat /\ q \in Nat /\ q % size = d
    BY QuotientIs
  <1> HIDE DEF q
  <1>2. (q * unit + below) \div unit = q
    BY <1>1, QuotientIs
  <1>3. Field(q * unit + below, unit, size) = d
    BY <1>1, <1>2 DEF Field
  <1> QED BY <1>3 DEF q

\* Two fields of which the lower one fits are below the product of their sizes.
LEMMA FieldsFit ==
    ASSUME NEW unit \in Nat \ {0}, NEW size \in Nat \ {0}, NEW d \in 0..(size - 1), NEW below \in 0..(unit - 1)
    PROVE  d * unit + below \in 0..(size * unit - 1) /\ size * unit \in Nat \ {0}
  <1>1. d * unit + unit <= size * unit
    BY Apart
  <1>2. d * unit \in Nat /\ size * unit \in Nat
    OBVIOUS
  <1> DEFINE x == d * unit
             y == size * unit
  <1>3. x \in Nat /\ y \in Nat /\ x + unit <= y
    BY <1>1, <1>2
  <1> HIDE DEF x, y
  <1>4. x + below \in 0..(y - 1) /\ y \in Nat \ {0}
    BY <1>3
  <1> QED BY <1>4 DEF x, y

Fields(m, e, s) == m \in 0..(MARKETS - 1) /\ e \in 0..(EXCHANGES - 1) /\ s \in 0..(SYMBOLS - 1)

LEMMA Sizes ==
    /\ MARKETS \in Nat \ {0} /\ EXCHANGES \in Nat \ {0} /\ SYMBOLS \in Nat \ {0} /\ TIMES \in Nat \ {0}
    /\ \A t \in Nat : t % TIMES \in 0..(TIMES - 1)
  BY FieldsAssumption

\* A key of 32 bits gives back its fields.
THEOREM SymbolKey32Unpacks ==
    ASSUME NEW m, NEW e, NEW s, Fields(m, e, s)
    PROVE  extract_symbol_key32(make_symbol_key32(m, e, s)) = <<m, e, s>>
  <1> DEFINE E == EXCHANGES
             S == SYMBOLS
             key == make_symbol_key32(m, e, s)
  <1>1. /\ m \in 0..(MARKETS - 1) /\ e \in 0..(E - 1) /\ s \in 0..(S - 1)
        /\ MARKETS \in Nat \ {0} /\ E \in Nat \ {0} /\ S \in Nat \ {0}
    BY Sizes DEF Fields
  <1> HIDE DEF E, S
  <1>2. key = m * (E * S) + e * S + s
    BY DEF make_symbol_key32, E, S
  <1>3. e * S + s \in 0..(E * S - 1) /\ E * S \in Nat \ {0} /\ m * E \in Nat /\ (m * E) * S = m * (E * S)
        /\ m \in Nat /\ e \in Nat /\ s \in Nat /\ e * S \in Nat
    <2>1. e * S + s \in 0..(E * S - 1) /\ E * S \in Nat \ {0}
      BY <1>1, FieldsFit
    <2> QED BY <1>1, <2>1
  <1>4. key = (0 * MARKETS + m) * (E * S) + (e * S + s)
    <2> DEFINE x == E * S
               y == e * S
    <2>1. x \in Nat /\ y \in Nat /\ m * x \in Nat
      BY <1>3
    <2>2. key = m * x + y + s
      BY <1>2
    <2> HIDE DEF x, y
    <2>3. key = (0 * MARKETS + m) * x + (y + s)
      BY <1>1, <1>3, <2>1, <2>2
    <2> QED BY <2>3 DEF x, y
  <1>5. key = (m * E + e) * S + s
    BY <1>1, <1>2, <1>3
  <1>6. (m * E + e) * S + s = ((m * E + e) * S + s) * 1 + 0 /\ m * E + e \in Nat
    BY <1>1
  <1> HIDE DEF key
  <1>7. Field(key, E * S, MARKETS) = m
    <2>1. Holds(key, 0, MARKETS, m, E * S, e * S + s)
      BY <1>1, <1>3, <1>4 DEF Holds
    <2> QED BY <2>1, FieldIs
  <1>8. Field(key, S, E) = e
    <2>1. Holds(key, m, E, e, S, s)
      BY <1>1, <1>3, <1>5 DEF Holds
    <2> QED BY <2>1, FieldIs
  <1>9. Field(key, 1, S) = s
    <2> DEFINE above == m * E + e
    <2>1. above \in Nat /\ key = (above * S + s) * 1 + 0
      BY <1>5, <1>6
    <2> HIDE DEF above
    <2>2. Holds(key, above, S, s, 1, 0)
      BY <1>1, <2>1 DEF Holds
    <2> QED BY <2>2, FieldIs
  <1> QED BY <1>7, <1>8, <1>9
          DEF extract_symbol_key32, extract_market_type, extract_exchange_id, extract_symbol_id, key, E, S

\* A key of 64 bits is the key of the symbol with the time appended,
LEMMA SymbolKey64Is ==
    ASSUME NEW m, NEW e, NEW s, Fields(m, e, s), NEW t \in Nat
    PROVE  /\ make_symbol_key32(m, e, s) \in Nat
           /\ make_symbol_key64(m, e, s, t) = make_symbol_key32(m, e, s) * TIMES + (t % TIMES)
  <1> DEFINE E == EXCHANGES
             S == SYMBOLS
             T == TIMES
             r == t % TIMES
  <1>1. /\ m \in Nat /\ e \in Nat /\ s \in Nat
        /\ E \in Nat \ {0} /\ S \in Nat \ {0} /\ T \in Nat \ {0} /\ r \in Nat
    BY Sizes DEF Fields
  <1>2. /\ make_symbol_key32(m, e, s) = m * (E * S) + e * S + s
        /\ make_symbol_key64(m, e, s, t) = m * (E * (S * T)) + e * (S * T) + s * T + r
    BY DEF make_symbol_key32, make_symbol_key64
  <1> HIDE DEF E, S, T, r
  <1>3. m * (E * S) + e * S + s \in Nat
    BY <1>1
  <1>4. (m * (E * S) + e * S + s) * T = m * (E * (S * T)) + e * (S * T) + s * T
    BY <1>1
  <1> QED BY <1>2, <1>3, <1>4 DEF T, r

\* and gives back its fields, with the time cut to its width.
THEOREM SymbolKey64Unpacks ==
    ASSUME NEW m, NEW e, NEW s, Fields(m, e, s), NEW t \in Nat
    PROVE  /\ extract_symbol_key64(make_symbol_key64(m, e, s, t)) = <<m, e, s, t % TIMES>>
           /\ combine_symbol_key64(make_symbol_key32(m, e, s), t) = make_symbol_key64(m, e, s, t)
           /\ split_symbol_key64(make_symbol_key64(m, e, s, t)) = <<make_symbol_key32(m, e, s), t % TIMES>>
  <1> DEFINE E == EXCHANGES
             S == SYMBOLS
             T == TIMES
             r == t % TIMES
             key == make_symbol_key64(m, e, s, t)
             key32 == make_symbol_key32(m, e, s)
  <1>1. /\ m \in 0..(MARKETS - 1) /\ e \in 0..(E - 1) /\ s \in 0..(S - 1) /\ r \in 0..(T - 1)
        /\ MARKETS \in Nat \ {0} /\ E \in Nat \ {0} /\ S \in Nat \ {0} /\ T \in Nat \ {0}
    BY Sizes DEF Fields
  <1>2. /\ key = m * (E * (S * T)) + e * (S * T) + s * T + r
        /\ key = key32 * T + r /\ key32 \in Nat
    BY SymbolKey64Is DEF make_symbol_key64
  <1> HIDE DEF E, S, T, r, key, key32
  <1>3. key \div T = key32 /\ key % T = r
    BY <1>1, <1>2, QuotientIs
  <1>4. Field(key, 1, T) = r
    <2>1. key = (key32 * T + r) * 1 + 0
      BY <1>1, <1>2
    <2>2. Holds(key, key32, T, r, 1, 0)
      BY <1>1, <1>2, <2>1 DEF Holds
    <2> QED BY <2>2, FieldIs
  <1>5. s * T + r \in 0..(S * T - 1) /\ S * T \in Nat \ {0}
    BY <1>1, FieldsFit
  <1> DEFINE ST == S * T
             st == s * T + r
  <1>6. ST \in Nat \ {0} /\ st \in 0..(ST - 1) /\ key = m * (E * ST) + e * ST + st
    <2>1. m * (E * (S * T)) \in Nat /\ e * (S * T) \in Nat /\ s * T \in Nat
      BY <1>1, <1>5
    <2> DEFINE x == m * (E * (S * T))
               y == e * (S * T)
               z == s * T
    <2>2. x \in Nat /\ y \in Nat /\ z \in Nat /\ r \in Nat /\ key = x + y + z + r
      BY <1>1, <1>2, <2>1
    <2> HIDE DEF x, y, z
    <2>3. key = x + y + (z + r)
      BY <2>2
    <2> QED BY <1>5, <2>3 DEF x, y, z
  <1>7. Field(key, T, S) = s
    <2>1. key32 = (m * E + e) * S + s /\ m * E + e \in Nat
      <3>1. key32 = m * (E * S) + e * S + s
        BY DEF key32, make_symbol_key32, E, S
      <3> QED BY <1>1, <3>1
    <2> DEFINE above == m * E + e
    <2>2. above \in Nat /\ key = (above * S + s) * T + r
      BY <1>2, <2>1
    <2> HIDE DEF above
    <2>3. Holds(key, above, S, s, T, r)
      BY <1>1, <2>2 DEF Holds
    <2> QED BY <2>3, FieldIs
  <1> HIDE DEF ST, st
  <1>8. Field(key, ST, E) = e
    <2>1. (m * E + e) * ST + st = key /\ m \in Nat
      BY <1>1, <1>6
    <2>2. Holds(key, m, E, e, ST, st)
      BY <1>1, <1>6, <2>1 DEF Holds
    <2> QED BY <2>2, FieldIs
  <1>9. e * ST + st \in 0..(E * ST - 1) /\ E * ST \in Nat \ {0}
    BY <1>1, <1>6, FieldsFit
  <1>10. Field(key, E * ST, MARKETS) = m
    <2> DEFINE x == E * ST
               y == e * ST
    <2>1. x \in Nat \ {0} /\ y + st \in 0..(x - 1) /\ key = m * x + y + st /\ y \in Nat /\ m \in Nat /\ st \in Nat
      BY <1>1, <1>6, <1>9
    <2> HIDE DEF x, y
    <2>2. key = (0 * MARKETS + m) * x + (y + st)
      BY <1>1, <2>1
    <2>3. Field(key, x, MARKETS) = m
      <3>1. Holds(key, 0, MARKETS, m, x, y + st)
        BY <1>1, <2>1, <2>2 DEF Holds
      <3> QED BY <3>1, FieldIs
    <2> QED BY <2>3 DEF x
  <1>11. extract_symbol_key64(key) = <<m, e, s, r>>
    BY <1>4, <1>7, <1>8, <1>10 DEF extract_symbol_key64, E, S, T, ST
  <1>12. split_symbol_key64(key) = <<key32, r>>
    BY <1>3, <1>4 DEF split_symbol_key64, T
  <1>13. combine_symbol_key64(key32, t) = key
    BY <1>2 DEF combine_symbol_key64, T, r
  <1> QED BY <1>11, <1>12, <1>13 DEF key, key32, r

\* Keys are equal only if symbol and time are: BarDB stores a segment under the
\* symbol and the number of the segment, and a record under the symbol and the
\* time frame.
THEOREM SymbolKeysDiffer ==
    ASSUME NEW m, NEW e, NEW s, Fields(m, e, s), NEW t \in 0..(TIMES - 1),
           NEW n, NEW f, NEW u, Fields(n, f, u), NEW v \in 0..(TIMES - 1),
           make_symbol_key64(m, e, s, t) = make_symbol_key64(n, f, u, v)
    PROVE  <<m, e, s, t>> = <<n, f, u, v>>
  <1>1. t \in Nat /\ v \in Nat /\ t % TIMES = t /\ v % TIMES = v
    BY Sizes
  <1>2. /\ extract_symbol_key64(make_symbol_key64(m, e, s, t)) = <<m, e, s, t>>
        /\ extract_symbol_key64(make_symbol_key64(n, f, u, v)) = <<n, f, u, v>>
    BY <1>1, SymbolKey64Unpacks
  <1> QED BY <1>2

\* The mask with which BarDB erases all that belongs to a symbol leaves the key
\* of the symbol, as long as the time does not reach the two bits that the mask
\* takes from it: it finds every such key of the symbol and of no other.
THEOREM SymbolPartTellsSymbols ==
    ASSUME NEW m, NEW e, NEW s, Fields(m, e, s), NEW t \in 0..(TIMES \div 4 - 1),
           NEW n, NEW f, NEW u, Fields(n, f, u)
    PROVE  symbol_part(make_symbol_key64(m, e, s, t)) = make_symbol_key64(n, f, u, 0)
             <=> <<m, e, s>> = <<n, f, u>>
  <1> DEFINE quarter == TIMES \div 4
             key32 == make_symbol_key32(m, e, s)
             key == make_symbol_key64(m, e, s, t)
  <1>1. quarter \in Nat \ {0} /\ TIMES = 4 * quarter /\ TIMES \in Nat \ {0}
    BY FieldsAssumption
  <1>2. t \in 0..(quarter - 1)
    OBVIOUS
  <1> HIDE DEF quarter
  <1>3. t \in Nat /\ t \in 0..(TIMES - 1) /\ t % TIMES = t
    BY <1>1, <1>2
  <1>4. key32 \in Nat /\ key = key32 * TIMES + t
    BY <1>3, SymbolKey64Is
  <1>5. 0 \in Nat /\ 0 \in 0..(TIMES - 1) /\ 0 % TIMES = 0
    BY <1>1
  <1>6. make_symbol_key64(m, e, s, 0) = key32 * TIMES + 0
    BY <1>5, SymbolKey64Is
  <1> HIDE DEF key32, key
  <1>7. key % quarter = t
    <2>1. key = (key32 * 4) * quarter + t /\ key32 * 4 \in Nat
      BY <1>1, <1>3, <1>4
    <2> QED BY <1>1, <1>2, <2>1, QuotientIs
  <1>8. symbol_part(key) = make_symbol_key64(m, e, s, 0)
    <2> DEFINE x == key32 * TIMES
    <2>1. x \in Nat
      BY <1>1, <1>4
    <2>2. symbol_part(key) = key - t
      BY <1>7 DEF symbol_part, quarter
    <2>3. key = x + t /\ make_symbol_key64(m, e, s, 0) = x + 0
      BY <1>4, <1>6
    <2> HIDE DEF x
    <2> QED BY <1>3, <2>1, <2>2, <2>3
  <1>9. make_symbol_key64(m, e, s, 0) = make_symbol_key64(n, f, u, 0) => <<m, e, s>> = <<n, f, u>>
    BY <1>5, SymbolKeysDiffer
  <1> QED BY <1>8, <1>9 DEF key
=============================================================================
