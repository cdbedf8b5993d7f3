-------------------------- MODULE StorageMetadata --------------------------
(***************************************************************************)
(* StorageMetadata.hpp: the record in which a backend says what it holds,  *)
(* and by which MarketDataStorageHub routes calls.  The three sorted lists *)
(* without duplicates (market types, exchanges, symbols) are sets, by kind.*)
(***************************************************************************)
EXTENDS Integers

CONSTANTS
    Flag,       \* StorageDataFlags other than NONE
    Id          \* market types, exchange and symbol identifiers

Kind == {"market", "exchange", "symbol"}

Metadata == [flags : SUBSET Flag, start : Nat, end : Nat, ids : [Kind -> SUBSET Id]]

\* A default-constructed record.
NoMetadata == [flags |-> {}, start |-> 0, end |-> 0, ids |-> [k \in Kind |-> {}]]

\* An instrument is one identifier of each kind.
AllInstruments == [Kind -> Id]

\* set_time_range for start <= end, where duration is the segment duration of
\* the time frame, or an hour for an unknown one.
set_time_range(m, start, end, duration) ==
    [m EXCEPT !.start = start - (start % duration),
              !.end = (end - (end % duration)) + duration]

\* 0 stands for "no bound".
contains_time(m, t) ==
    /\ t >= m.start \/ m.start = 0
    /\ t < m.end \/ m.end = 0

has_id(m, k, id) == id \in m.ids[k]

\* The condition of find_storage_index.
Holds(m, flag, instrument, t) ==
    /\ flag \in m.flags
    /\ \A k \in Kind : has_id(m, k, instrument[k])
    /\ contains_time(m, t)

\* Mutant of merge_with: < and > are exchanged in the comparison of the ends.
MergeShortens(m, o) ==
    [flags |-> m.flags \cup o.flags,
     start |-> IF m.start = 0 \/ (o.start # 0 /\ o.start < m.start) THEN o.start ELSE m.start,
     end   |-> IF m.end = 0 \/ (o.end # 0 /\ o.end < m.end) THEN o.end ELSE m.end,
     ids   |-> [k \in Kind |-> m.ids[k] \cup o.ids[k]]]

merge_with(m, o) ==
    [flags |-> m.flags \cup o.flags,
     start |-> IF m.start = 0 \/ (o.start # 0 /\ o.start < m.start) THEN o.start ELSE m.start,
     end   |-> IF m.end = 0 \/ (o.end # 0 /\ o.end > m.end) THEN o.end ELSE m.end,
     ids   |-> [k \in Kind |-> m.ids[k] \cup o.ids[k]]]

subtract(m, o) ==
    [flags |-> m.flags \ o.flags,
     start |-> IF o.start > m.start THEN o.start ELSE m.start,
     end   |-> IF o.end < m.end THEN o.end ELSE m.end,
     ids   |-> [k \in Kind |-> m.ids[k] \ o.ids[k]]]

\* m and o are bounded, or unbounded, on the same sides.
SameBounds(m, o) == (m.start = 0 <=> o.start = 0) /\ (m.end = 0 <=> o.end = 0)
=============================================================================
