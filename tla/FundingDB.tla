----------------------------- MODULE FundingDB -----------------------------
(***************************************************************************)
(* MDBXStorage/FundingDB.hpp: a funding rate in one record per hour, a     *)
(* record of metadata per pair of provider and symbol, and a cache of that *)
(* metadata in the object, which is no part of a transaction.              *)
(*                                                                         *)
(* No compiled file includes the header, which is written for earlier      *)
(* names, read as in TickDB; fetch_funding uses variables that exist       *)
(* nowhere and has no meaning to model.                                    *)
(***************************************************************************)
EXTENDS Tables, Sequences, SequencesExt, FiniteSets

CONSTANTS
    Pairs,          \* provider_id and symbol_id together are 0..Pairs - 1
    MS_PER_HALF_HOUR,
    RateBatches,    \* sequences of rates [time, rate] to write
    MAX_WRITES,     \* bound on the calls of upsert
    MAX_FAULTS      \* bound on the transactions that fail

ASSUME FundingAssumption == {Pairs, MS_PER_HALF_HOUR} \subseteq Nat \ {0}
ASSUME FundingBoundAssumption == {MAX_WRITES, MAX_FAULTS} \subseteq Nat
\* A batch has a rate (upsert_funding returns at once from an empty one).
ASSUME RateBatchesAssumption ==
    \A batch \in RateBatches : /\ Len(batch) \in Nat \ {0} /\ DOMAIN batch = 1..Len(batch)
                              /\ \A n \in DOMAIN batch : batch[n].time \in Nat

VARIABLES
    f_metadata,     \* table "funding_metadata"
    f_rates,        \* table "funding_rates"
    f_cached,       \* m_metadata
    f_handles,      \* both handle variables: "unset", "open" or "closed"
    f_last,         \* the last call, whether it returned, and what it gave
    f_given,        \* the rate each hour was last given by a call that returned
    f_writes, f_faults
fvars == <<f_metadata, f_rates, f_cached, f_handles, f_last, f_given, f_writes, f_faults>>
tables == <<f_metadata, f_rates, f_given>>

Pair == 0..(Pairs - 1)
round_to_nearest_hour(t) == (t + MS_PER_HALF_HOUR) \div (2 * MS_PER_HALF_HOUR)

\* Mutant of generate_funding_key: the hour is not shifted.
generate_unshifted_funding_key(p, unix_hour) == unix_hour + p

generate_funding_key(p, unix_hour) == unix_hour * Pairs + p

Span(s, e) == [start_ts |-> s, end_ts |-> e]
FundingRecords == {Span(0, 0)}

-----------------------------------------------------------------------------
FundingInit ==
    /\ f_metadata = NoRecords /\ f_rates = NoRecords /\ f_cached = NoRecords /\ f_given = NoRecords
    /\ f_handles = "unset"
    /\ f_last = [call |-> "construct", ok |-> TRUE]
    /\ f_writes = 0 /\ f_faults = 0

FReturns(call) == f_last' = [call |-> call, ok |-> TRUE]
FThrows(call) == f_last' = [call |-> call, ok |-> FALSE] /\ UNCHANGED tables
\* The engine refuses a transaction, a put or a commit, or the handles are not valid.
FFails == f_faults < MAX_FAULTS /\ f_faults' = f_faults + 1
FRefused == FFails \/ (f_handles # "open" /\ UNCHANGED f_faults)
FAccepted == f_handles = "open" /\ UNCHANGED f_faults

start_funding ==
    \/ /\ f_handles' = "open" /\ f_cached' = get_all_fixed_map(f_metadata, f_cached)
       /\ FReturns("start") /\ UNCHANGED <<tables, f_faults>>
    \/ /\ FFails /\ FThrows("start")
       /\ f_handles' \in IF f_handles = "open" THEN {"open"} ELSE {f_handles, "closed"}
       /\ f_cached' \in {f_cached, get_all_fixed_map(f_metadata, f_cached)}

\* The handle variables keep the numbers of the closed handles.
stop_funding ==
    /\ f_handles # "unset" /\ f_handles' = "closed"
    /\ IF f_handles = "open" THEN FReturns("stop") /\ UNCHANGED tables ELSE FThrows("stop")
    /\ UNCHANGED <<f_cached, f_faults>>

\* The destructor, and another object.
ReconstructFunding ==
    /\ f_cached' = NoRecords /\ f_handles' = "unset"
    /\ FReturns("construct") /\ UNCHANGED <<tables, f_faults>>

-----------------------------------------------------------------------------
\* upsert(metadata): the cache takes a new record before the transaction, and
\* not a changed one.
upsert_funding_metadata(p, r) ==
    /\ UNCHANGED f_handles
    /\ IF p \in DOMAIN f_cached /\ f_cached[p] = r
       THEN FReturns("upsert_metadata") /\ UNCHANGED <<tables, f_cached, f_faults>>
       ELSE /\ f_cached' = IF p \in DOMAIN f_cached THEN f_cached ELSE With(f_cached, p, r)
            /\ \/ /\ FAccepted /\ f_metadata' = With(f_metadata, p, r)
                  /\ FReturns("upsert_metadata") /\ UNCHANGED <<f_rates, f_given>>
               \/ FRefused /\ FThrows("upsert_metadata")

\* upsert(metadata_list): the cache takes every record as its put is reached.
upsert_funding_list(list) ==
    LET changed == {p \in DOMAIN list : p \notin DOMAIN f_cached \/ f_cached[p] # list[p]}
    IN  /\ UNCHANGED f_handles
        /\ \/ /\ FAccepted /\ FReturns("upsert_list")
              /\ f_metadata' = Overlaid(f_metadata, list, changed)
              /\ f_cached' = Overlaid(f_cached, list, changed)
              /\ UNCHANGED <<f_rates, f_given>>
           \/ /\ FRefused /\ FThrows("upsert_list")
              /\ \E taken \in SUBSET changed : f_cached' = Overlaid(f_cached, list, taken)

-----------------------------------------------------------------------------
\* A batch that reaches outside the span takes the place of the span.
NewSpan(p, s, e) ==
    IF p \in DOMAIN f_cached /\ s >= f_cached[p].start_ts /\ e <= f_cached[p].end_ts
    THEN f_cached[p] ELSE Span(s, e)

PutRates(p, batch) ==
    LET put[n \in 0..Len(batch)] ==
            IF n = 0 THEN [ok |-> TRUE, table |-> f_rates]
            ELSE put_raw_key(put[n - 1], generate_funding_key(p, round_to_nearest_hour(batch[n].time)),
                             batch[n], Len(batch) >= 2)
    IN  put[Len(batch)]

\* The hours of a batch, and the last rate of each.
HoursOfRates(batch) == {round_to_nearest_hour(batch[i].time) : i \in DOMAIN batch}
RateOf(batch, hour) == batch[Max({i \in DOMAIN batch : round_to_nearest_hour(batch[i].time) = hour})]

\* upsert_funding: after the transaction has begun the cache takes the span,
\* then the span, if it is new or changed, and the rates are put and committed.
upsert_funding(p, batch) ==
    LET span == NewSpan(p, Head(batch).time, Last(batch).time)
        written == PutRates(p, batch)
        hours == {<<p, h>> : h \in HoursOfRates(batch)}
    IN  /\ UNCHANGED f_handles
        /\ \/ /\ FAccepted /\ written.ok
              /\ f_cached' = With(f_cached, p, span)
              /\ f_metadata' = IF p \in DOMAIN f_cached /\ f_cached[p] = span
                               THEN f_metadata ELSE With(f_metadata, p, span)
              /\ f_rates' = written.table
              /\ f_given' = [x \in DOMAIN f_given \cup hours |->
                                IF x \in hours THEN RateOf(batch, x[2]) ELSE f_given[x]]
              /\ f_last' = [call |-> "upsert_funding", ok |-> TRUE, pair |-> p, start |-> Head(batch).time]
           \/ /\ FRefused \/ (FAccepted /\ ~written.ok)
              /\ f_cached' = With(f_cached, p, span) /\ FThrows("upsert_funding")
           \/ FFails /\ UNCHANGED f_cached /\ FThrows("upsert_funding")

-----------------------------------------------------------------------------
(* Reads, into a map of the caller: stored records replace those of the    *)
(* map, cached ones do not.  A scan of the table ends with MDBX_NOTFOUND,  *)
(* which the result is computed from, so fetch_metadata gives FALSE.       *)

Gave(call, result, map) == f_last' = [call |-> call, ok |-> TRUE, result |-> result, map |-> map]
ReadsTable(call, result, map) ==
    \/ FAccepted /\ Gave(call, result, map)
    \/ FRefused /\ f_last' = [call |-> call, ok |-> FALSE]

fetch_one(p) ==
    ReadsTable("fetch", p \in DOMAIN f_metadata,
               IF p \in DOMAIN f_metadata THEN With(NoRecords, p, f_metadata[p]) ELSE NoRecords)
get_all_metadata(map) == [result |-> FALSE, map |-> Overlaid(map, f_metadata, DOMAIN f_metadata)]
fetch_metadata(map) ==
    ReadsTable("fetch_metadata", get_all_metadata(map).result, get_all_metadata(map).map)
get_cached_one(p) ==
    /\ Gave("get_cached", p \in DOMAIN f_cached, IF p \in DOMAIN f_cached THEN With(NoRecords, p, f_cached[p]) ELSE NoRecords)
    /\ UNCHANGED f_faults
get_cached_metadata(map) ==
    /\ Gave("get_cached_metadata", f_cached # NoRecords, get_all_fixed_map(f_cached, map))
    /\ UNCHANGED f_faults

FWrites == f_writes < MAX_WRITES /\ f_writes' = f_writes + 1
FReads == UNCHANGED f_writes

Open == FReads /\ (start_funding \/ stop_funding \/ ReconstructFunding)
UpsertFundingMetadata == FWrites /\ \E p \in Pair, r \in FundingRecords : upsert_funding_metadata(p, r)
UpsertFundingList ==
    FWrites /\ \E some \in SUBSET Pair : \E list \in [some -> FundingRecords] : upsert_funding_list(list)
UpsertFunding == FWrites /\ \E p \in Pair, b \in RateBatches : upsert_funding(p, b)
ReadFunding ==
    /\ FReads /\ UNCHANGED <<tables, f_cached, f_handles>>
    /\ \/ \E p \in Pair : fetch_one(p) \/ get_cached_one(p)
       \/ \E map \in {NoRecords, With(NoRecords, 0, Span(9, 9))} : fetch_metadata(map) \/ get_cached_metadata(map)

FundingNext == Open \/ UpsertFundingMetadata \/ UpsertFundingList \/ UpsertFunding \/ ReadFunding
FundingSpec == FundingInit /\ [][FundingNext]_fvars

-----------------------------------------------------------------------------
FundingAgree == \A p \in DOMAIN f_metadata : p \in DOMAIN f_cached /\ f_cached[p] = f_metadata[p]

\* Each hour of each pair has the last rate a call gave it that returned, and
\* no other record stands in the table: keys of two hours or two pairs are
\* different and a call that throws leaves nothing (MDBXStorage/FundingDB.hpp:250-258).
RatesAreKept ==
    /\ \A x \in DOMAIN f_given :
          /\ generate_funding_key(x[1], x[2]) \in DOMAIN f_rates
          /\ f_rates[generate_funding_key(x[1], x[2])] = f_given[x]
    /\ Cardinality(DOMAIN f_rates) = Cardinality(DOMAIN f_given)

\* A call that returns leaves a cache that agrees with the table in agreement
\* with it, except the upsert of one record (:71-84) and the construction of
\* an object.
CacheFollowsFunding ==
    /\ FundingAgree /\ f_handles = "open" /\ f_last'.ok
    /\ f_last'.call \notin {"construct", "upsert_metadata"}
    => FundingAgree'

\* A batch that starts within the span, or after it, leaves the end of the
\* stored span behind every stored rate (:230-248).
SpanCovers(p) ==
    p \in DOMAIN f_metadata /\ \A x \in DOMAIN f_given : x[1] = p => f_given[x].time <= f_metadata[p].end_ts
EndFollowsRates ==
    f_last'.call = "upsert_funding" /\ f_last'.ok =>
        \A p \in {f_last'.pair} :
            SpanCovers(p) /\ FundingAgree /\ f_metadata[p].start_ts <= f_last'.start => SpanCovers(p)'

\* The tables of funding rates and of their metadata follow the calls, through
\* faults, restarts and rewritten hours.
FundingFollowsCalls == [][RatesAreKept' /\ CacheFollowsFunding /\ EndFollowsRates]_fvars
=============================================================================
