---------------------------- MODULE MetadataBytes ----------------------------
(***************************************************************************)
(* StorageMetadata::serialize and deserialize: the stored form of a record *)
(* of storage metadata, a sequence of numbers; data cut within a number is *)
(* data cut before it.                                                     *)
(***************************************************************************)
EXTENDS StorageMetadata, SequencesExt

\* The order of the three lists, each behind the count of its elements.
StoredKinds == <<"symbol", "exchange", "market">>
write_vector(ids) == <<[count |-> Cardinality(ids)]>> \o SetToSeq({[id |-> i] : i \in ids})
serialize_metadata(m) ==
    <<[flags |-> m.flags], [ms |-> m.start], [ms |-> m.end]>>
    \o FlattenSeq([k \in DOMAIN StoredKinds |-> write_vector(m.ids[StoredKinds[k]])])


\* Reads stop at the first number that is not there, and what was read before
\* stays in the record.
read_vector(data, r, kind) ==
    LET count == data[r.offset + 1].count
    IN  IF ~r.ok THEN r
        ELSE IF r.offset + 1 > Len(data) \/ r.offset + 1 + count > Len(data) THEN [r EXCEPT !.ok = FALSE]
        ELSE [r EXCEPT !.offset = @ + 1 + count,
                       !.m.ids[kind] = {data[n].id : n \in r.offset + 2..r.offset + 1 + count}]
deserialize_metadata(data, m) ==
    LET n == Len(data)
        fields == [m EXCEPT !.flags = IF n >= 1 THEN data[1].flags ELSE @,
                            !.start = IF n >= 2 THEN data[2].ms ELSE @,
                            !.end = IF n >= 3 THEN data[3].ms ELSE @]
    IN  FoldLeft(LAMBDA r, kind : read_vector(data, r, kind),
                 [ok |-> n >= 3, offset |-> 3, m |-> fields], StoredKinds)
=============================================================================
