----------------------------- MODULE TickBuffer -----------------------------
(***************************************************************************)
(* StreamTickBuffer.hpp and the four spread processors: one hour of ticks  *)
(* of an instrument, an index of the ticks by second (m_chunks), the       *)
(* visible range (m_tick_span), and the bid and ask restored from the last *)
(* price.  History comes hour by hour from a data source and the last tick *)
(* of an hour is carried into the next one; live ticks are appended, and a *)
(* finished hour goes to a writer.                                         *)
(*                                                                         *)
(* Prices are whole points, compare_with_precision is equality of points.  *)
(* ASK_UPDATED and BID_UPDATED follow LAST_UPDATED (upd) and are left out. *)
(***************************************************************************)
EXTENDS Integers, Sequences, FiniteSets

CONSTANTS
    MsPerSec, SecPerHour,   \* time_shield::MS_PER_SEC, SEC_PER_HOUR
    MaxHour,                \* hours are 1..MaxHour: hour 0 is January 1970
    Pattern,                \* what an hour of the source may hold
    FixedSpread,            \* pow10(price_digits) * fixed_spread, in points
    Live,                   \* batches for append_ticks, as lists of ticks
    MaxAppends, MaxFaults   \* bounds on live batches and on source failures

MsPerHour == MsPerSec * SecPerHour
BidAskModel == {"NONE", "FIXED_SPREAD", "DYNAMIC_SPREAD", "MEDIAN_SPREAD"}
Side == {"TICK_FROM_BUY", "TICK_FROM_SELL", "none"}
Hour == 1..MaxHour
MarketTick == [time : Nat, last : Int, side : Side, upd : BOOLEAN, bid : Int, ask : Int]

ASSUME TickTimeAssumption == /\ MsPerSec \in Nat \ {0}
                             /\ SecPerHour \in Nat \ {0}
                             /\ MaxHour \in Nat
ASSUME FixedSpreadAssumption == FixedSpread \in Nat
\* The source answers for an hour with ticks of that hour.
ASSUME PatternAssumption ==
    \A p \in Pattern : p \in Seq(MarketTick) /\ \A i \in DOMAIN p : p[i].time < MsPerHour
ASSUME LiveAssumption == Live \subseteq Seq(MarketTick)
ASSUME TickBoundAssumption == MaxAppends \in Nat /\ MaxFaults \in Nat

VARIABLES
    source,          \* IMarketDataSource: the ticks of every hour
    mode,            \* m_bidask_config.mode
    m_ticks, m_chunks, m_tick_span,
    m_prev_tick, m_has_prev_data,
    m_start, m_end,  \* m_start_time_ms, m_end_time_ms
    spreads,         \* m_prev_spread and m_prev2_spread of the processor
    loaded,          \* the hour the last fetch_ticks returned, 0 for none
    written,         \* ticks given to db_writer
    threw,           \* a processor has thrown, or a batch was refused
    appends, sourceFaults

tickVars == <<source, mode, m_ticks, m_chunks, m_tick_span, m_prev_tick,
    m_has_prev_data, m_start, m_end, spreads, loaded, written, threw,
    appends, sourceFaults>>

NoTick == [time |-> 0, last |-> 0, side |-> "none", upd |-> FALSE,
           bid |-> 0, ask |-> 0]
NoSpan == [data |-> 0, size |-> 0]   \* data 0 is a null pointer, k is &m_ticks[k - 1]

start_of_hour(t) == t - (t % MsPerHour)
TimesOf(ticks) == [i \in DOMAIN ticks |-> ticks[i].time]

-----------------------------------------------------------------------------
\* Restoration of bid and ask.  The state of the loop is
\* [ticks, prev_spread, prev2_spread, filter, ok].

Between(x, a, b) == (x >= a /\ x <= b) \/ (x <= a /\ x >= b)
median_filter(a, b, c) == IF Between(a, b, c) THEN a ELSE IF Between(b, a, c) THEN b ELSE c

\* The price turned against the side of the tick before: the step is a spread.
Reversal(tick, before) ==
    \/ /\ tick.side = "TICK_FROM_BUY" /\ before.side = "TICK_FROM_SELL"
       /\ tick.last > before.last
    \/ /\ tick.side = "TICK_FROM_SELL" /\ before.side = "TICK_FROM_BUY"
       /\ tick.last < before.last

\* Mutant of Gap: std::abs is left out.
SignedGap(a, b) == b.last - a.last

Gap(a, b) == IF a.last > b.last THEN a.last - b.last ELSE b.last - a.last

WithQuote(tick, spread) ==
    IF tick.side = "TICK_FROM_BUY"
    THEN [tick EXCEPT !.ask = tick.last, !.bid = tick.last - spread]
    ELSE [tick EXCEPT !.bid = tick.last, !.ask = tick.last + spread]

FixedRestore(s, i, tick) == [s EXCEPT !.ticks[i] = WithQuote(tick, FixedSpread)]

DynamicRestore(s, i, tick, before) ==
    LET spread == IF Reversal(tick, before) THEN Gap(tick, before) ELSE s.prev_spread
    IN  [s EXCEPT !.prev_spread = spread, !.ticks[i] = WithQuote(tick, spread)]

MedianRestore(s, i, tick, before) ==
    IF Reversal(tick, before)
    THEN LET gap == Gap(tick, before)
             filter == median_filter(s.prev2_spread, s.prev_spread, gap)
         IN  [s EXCEPT !.prev2_spread = s.prev_spread, !.prev_spread = gap,
                       !.filter = filter, !.ticks[i] = WithQuote(tick, filter)]
    ELSE [s EXCEPT !.ticks[i] = WithQuote(tick, s.filter)]

Restore(s, i, tick, before) ==
    CASE mode = "FIXED_SPREAD"   -> FixedRestore(s, i, tick)
      [] mode = "DYNAMIC_SPREAD" -> DynamicRestore(s, i, tick, before)
      [] mode = "MEDIAN_SPREAD"  -> MedianRestore(s, i, tick, before)

\* One round of the loop: the first tick always gets a quote of its own, a
\* later one only if its price was updated, and inherits the quote otherwise.
\* A quote needs the side of the trade: without one the processor throws.
ProcessTick(s, i, prev, has_prev) ==
    LET before == IF i > 1 THEN s.ticks[i - 1] ELSE IF has_prev THEN prev ELSE NoTick
        tick == [s.ticks[i] EXCEPT !.upd = @ \/ (i = 1 /\ has_prev /\ s.ticks[i].last # prev.last)]
        inherits == i > 1 /\ ~tick.upd
    IN  CASE ~s.ok -> s
          [] s.ok /\ mode = "NONE" -> [s EXCEPT !.ticks[i] = tick, !.done = i]
          [] s.ok /\ mode # "NONE" /\ inherits ->
                 [s EXCEPT !.ticks[i] = [tick EXCEPT !.bid = before.bid, !.ask = before.ask],
                           !.done = i]
          [] s.ok /\ mode # "NONE" /\ ~inherits /\ tick.side = "none" ->
                 [s EXCEPT !.ticks[i] = tick, !.ok = FALSE]
          [] OTHER -> [Restore(s, i, tick, before) EXCEPT !.done = i]

\* What the processor starts with: the spread of the tick before, or the
\* configured one if there is none.
ProcessorStart(ticks, has_prev, sp) ==
    LET start == IF mode \in {"DYNAMIC_SPREAD", "MEDIAN_SPREAD"} /\ ~has_prev
                 THEN <<FixedSpread, FixedSpread>> ELSE sp
    IN  [ticks |-> ticks, prev_spread |-> start[1], prev2_spread |-> start[2],
         filter |-> start[1], done |-> 0, ok |-> TRUE]

\* chunks[f] is the place of the first tick that comes f seconds or more after
\* the start, or of the last tick.  A loop that throws has set only what the
\* ticks it finished reach.
Chunked(p, start, chunks) ==
    LET reach(f) == {i \in 1..p.done : p.ticks[i].time >= start + f * MsPerSec}
    IN  [f \in 0..SecPerHour |->
            CASE f = 0 -> chunks[0]
              [] f > 0 /\ reach(f) # {} -> (CHOOSE i \in reach(f) : \A j \in reach(f) : i <= j) - 1
              [] f > 0 /\ reach(f) = {} -> IF p.ok THEN Len(p.ticks) - 1 ELSE chunks[f]]

\* process() on a buffer b = [ticks, chunks, prev, has_prev, spreads]: its loop
\* after every tick, and what it leaves.
Rounds(b) ==
    LET run[i \in 0..Len(b.ticks)] ==
            IF i = 0 THEN ProcessorStart(b.ticks, b.has_prev, b.spreads)
            ELSE ProcessTick(run[i - 1], i, b.prev, b.has_prev)
    IN  run

Process(b, start) ==
    LET p == Rounds(b)[Len(b.ticks)]
    IN  [ticks    |-> p.ticks,
         chunks   |-> Chunked(p, start, b.chunks),
         prev     |-> IF p.ok THEN p.ticks[Len(p.ticks)] ELSE b.prev,
         has_prev |-> p.ok \/ b.has_prev,
         spreads  |-> <<p.prev_spread, p.prev2_spread>>,
         ok       |-> p.ok]

Buffer == [ticks |-> m_ticks, chunks |-> m_chunks, prev |-> m_prev_tick,
           has_prev |-> m_has_prev_data, spreads |-> spreads, ok |-> TRUE]

Becomes(b) ==
    /\ m_ticks' = b.ticks
    /\ m_chunks' = b.chunks
    /\ m_prev_tick' = b.prev
    /\ m_has_prev_data' = b.has_prev
    /\ spreads' = b.spreads

-----------------------------------------------------------------------------
TickInit ==
    /\ source \in [Hour -> Pattern]
    /\ mode \in BidAskModel
    /\ m_ticks = <<>>
    /\ m_chunks = [f \in 0..SecPerHour |-> 0]
    /\ m_tick_span = NoSpan
    /\ m_prev_tick = NoTick
    /\ m_has_prev_data = FALSE
    /\ m_start = 0 /\ m_end = 0
    /\ spreads = <<0, 0>>
    /\ loaded = 0
    /\ written = <<>>
    /\ threw = FALSE
    /\ appends = 0 /\ sourceFaults = 0

\* The source answers with the stored ticks of an hour.
Stored(h) == IF h \in Hour
             THEN [i \in DOMAIN source[h] |->
                     [source[h][i] EXCEPT !.time = @ + h * MsPerHour]]
             ELSE <<>>

\* load_and_process of the hour before, without a previous tick.
Reloaded(h) ==
    LET b == [Buffer EXCEPT !.ticks = Stored(h - 1), !.has_prev = FALSE]
    IN  IF b.ticks = <<>> THEN b ELSE Process(b, (h - 1) * MsPerHour)

\* fetch_ticks(index, time, source) with time in hour h.  The hour after the
\* buffered one continues from the carried tick; any other is preceded by a
\* reload of the hour before it.
\* Mutant of Continues: m_has_prev_data is not asked.
ContinuesByTime(h) == h * MsPerHour = m_end
Continues(h) == h * MsPerHour = m_end /\ m_has_prev_data
BeforeFetch(h) == IF Continues(h) THEN Buffer ELSE Reloaded(h)
Fetched(h) == [BeforeFetch(h) EXCEPT !.ticks = Stored(h)]

KeepsClient == UNCHANGED <<source, mode, m_tick_span, written, appends>>

\* The window moves before the processor runs, which may throw.
FetchTicks(h) ==
    /\ appends = 0
    /\ BeforeFetch(h).ok /\ Stored(h) # <<>>
    /\ LET b == Process(Fetched(h), h * MsPerHour)
       IN  /\ Becomes(b)
           /\ loaded' = IF b.ok THEN h ELSE 0
           /\ threw' = (threw \/ ~b.ok)
    /\ m_start' = h * MsPerHour /\ m_end' = (h + 1) * MsPerHour
    /\ KeepsClient /\ UNCHANGED sourceFaults

\* Mutant of FetchEmpty: the carried tick stays.
FetchEmptyCarries(h) ==
    /\ appends = 0
    /\ BeforeFetch(h).ok /\ Stored(h) = <<>>
    /\ Becomes([Fetched(h) EXCEPT !.chunks = [f \in 0..SecPerHour |-> 0]])
    /\ loaded' = h
    /\ m_start' = h * MsPerHour /\ m_end' = (h + 1) * MsPerHour
    /\ KeepsClient /\ UNCHANGED <<threw, sourceFaults>>

\* An hour without ticks clears the index and the carried tick.
FetchEmpty(h) ==
    /\ appends = 0
    /\ BeforeFetch(h).ok /\ Stored(h) = <<>>
    /\ Becomes([Fetched(h) EXCEPT !.chunks = [f \in 0..SecPerHour |-> 0],
                                  !.has_prev = FALSE])
    /\ loaded' = h
    /\ m_start' = h * MsPerHour /\ m_end' = (h + 1) * MsPerHour
    /\ KeepsClient /\ UNCHANGED <<threw, sourceFaults>>

\* The processor throws on the hour before: the window stays where it was,
\* over ticks of another hour.
FetchReloadThrows(h) ==
    /\ appends = 0
    /\ ~BeforeFetch(h).ok
    /\ Becomes(BeforeFetch(h))
    /\ loaded' = 0 /\ threw' = TRUE
    /\ UNCHANGED <<m_start, m_end, sourceFaults>> /\ KeepsClient

\* The source fails to read the next hour, the hour before the one asked for,
\* or that one after it: then the carried tick is already that of the hour
\* before, and the window still the old one.
FetchSourceFails(h) ==
    /\ appends = 0 /\ sourceFaults < MaxFaults
    /\ sourceFaults' = sourceFaults + 1
    /\ \/ /\ Continues(h)
          /\ Becomes([Buffer EXCEPT !.ticks = <<>>])
       \/ /\ ~Continues(h)
          /\ Becomes([Buffer EXCEPT !.ticks = <<>>, !.has_prev = FALSE])
       \/ /\ ~Continues(h) /\ BeforeFetch(h).ok
          /\ Becomes([Fetched(h) EXCEPT !.ticks = <<>>])
    /\ loaded' = 0
    /\ UNCHANGED <<m_start, m_end, threw>> /\ KeepsClient

-----------------------------------------------------------------------------
\* set_tick_span(start, end): the two loops over m_ticks[start_pos..end_pos].

\* Mutant of start_pos: the start is rounded up to a second, as the end is.
StartPosUp(s) == m_chunks[(s - m_start + MsPerSec - 1) \div MsPerSec] + 1

start_pos(s) == m_chunks[(s - m_start) \div MsPerSec] + 1
end_pos(e) == m_chunks[(e - m_start + MsPerSec - 1) \div MsPerSec] + 1
FromStart(s, e) == {i \in start_pos(s)..end_pos(e) : s <= m_ticks[i].time}
BeforeEnd(s, e) == {i \in start_pos(s)..end_pos(e) : m_ticks[i].time < e}
First(S) == CHOOSE i \in S : \A j \in S : i <= j
Final(S) == CHOOSE i \in S : \A j \in S : i >= j

\* Ranges a client asks for: within the buffered hour, after a load that ended.
Askable(s, e) == /\ loaded # 0
                 /\ m_start <= s /\ s < e /\ e <= m_start + MsPerHour

SpanOf(s, e) ==
    IF m_ticks = <<>> \/ FromStart(s, e) = {} THEN {NoSpan}
    ELSE LET first == First(FromStart(s, e))
         IN  IF BeforeEnd(s, e) # {}
             THEN {[data |-> first, size |-> Final(BeforeEnd(s, e)) - first + 1]}
             ELSE IF start_pos(s) > 1
             THEN {[data |-> first, size |-> first - 1]}
             ELSE {[data |-> first, size |-> n] : n \in 0..Len(m_ticks)}

SetTickSpan(s, e) ==
    /\ Askable(s, e)
    /\ m_tick_span' \in SpanOf(s, e)
    /\ UNCHANGED <<source, mode, m_ticks, m_chunks, m_prev_tick, m_has_prev_data,
         m_start, m_end, spreads, loaded, written, threw, appends, sourceFaults>>

-----------------------------------------------------------------------------
\* append_ticks(batch): the state of its loop is [ticks, start, written, ok].

\* With calculate_last_updated a change of price marks the tick before it.
Marked(ticks, tick, calculate_last_updated) ==
    IF calculate_last_updated /\ ticks # <<>> /\ tick.last # ticks[Len(ticks)].last
    THEN [ticks EXCEPT ![Len(ticks)].upd = TRUE] ELSE ticks

\* Mutant of AppendTick: the finished hour is written before the push.
AppendTickLate(s, tick, calculate_last_updated) ==
    LET pushed == Append(Marked(s.ticks, tick, calculate_last_updated), tick)
        start == IF pushed[1].time < s.start THEN start_of_hour(tick.time) ELSE s.start
    IN  CASE ~s.ok -> s
          [] s.ok /\ s.ticks # <<>> /\ tick.time <= s.ticks[Len(s.ticks)].time ->
                 [s EXCEPT !.ok = FALSE]
          [] OTHER ->
                 IF tick.time >= start + MsPerHour
                 THEN [ticks |-> <<>>, start |-> start_of_hour(tick.time),
                       written |-> s.written \o s.ticks, ok |-> TRUE]
                 ELSE [s EXCEPT !.ticks = pushed, !.start = start]

AppendTick(s, tick, calculate_last_updated) ==
    LET pushed == Append(Marked(s.ticks, tick, calculate_last_updated), tick)
        start == IF pushed[1].time < s.start THEN start_of_hour(tick.time) ELSE s.start
    IN  CASE ~s.ok -> s
          [] s.ok /\ s.ticks # <<>> /\ tick.time <= s.ticks[Len(s.ticks)].time ->
                 [s EXCEPT !.ok = FALSE]
          [] OTHER ->
                 IF tick.time >= start + MsPerHour
                 THEN [ticks |-> <<>>, start |-> start_of_hour(tick.time),
                       written |-> s.written \o pushed, ok |-> TRUE]
                 ELSE [s EXCEPT !.ticks = pushed, !.start = start]

AppendRounds(batch, calculate_last_updated) ==
    LET run[i \in 0..Len(batch)] ==
            IF i = 0 THEN [ticks |-> m_ticks, start |-> m_start, written |-> written, ok |-> TRUE]
            ELSE AppendTick(run[i - 1], batch[i], calculate_last_updated)
    IN  run

Appended(batch, calculate_last_updated) == AppendRounds(batch, calculate_last_updated)[Len(batch)]

\* A batch whose last tick opens an hour empties the buffer, and process()
\* reads the first tick of none: no client may pass it.
AppendTicks(batch, calculate_last_updated) ==
    /\ loaded # 0 /\ appends < MaxAppends
    /\ LET s == Appended(batch, calculate_last_updated)
       IN  /\ s.ok /\ s.ticks # <<>>
           /\ LET b == Process([Buffer EXCEPT !.ticks = s.ticks], s.start)
              IN  /\ Becomes(b)
                  /\ threw' = (threw \/ ~b.ok)
                  /\ loaded' = IF b.ok THEN loaded ELSE 0
           /\ m_start' = s.start /\ written' = s.written
    /\ appends' = appends + 1
    /\ UNCHANGED <<source, mode, m_tick_span, m_end, sourceFaults>>

\* A tick out of order: the ones before it stay, and are not processed.
AppendRefused(batch, calculate_last_updated) ==
    /\ loaded # 0 /\ appends < MaxAppends
    /\ LET s == Appended(batch, calculate_last_updated)
       IN  /\ ~s.ok
           /\ m_ticks' = s.ticks /\ m_start' = s.start /\ written' = s.written
    /\ threw' = TRUE /\ loaded' = 0
    /\ appends' = appends + 1
    /\ UNCHANGED <<source, mode, m_tick_span, m_chunks, m_prev_tick, m_has_prev_data,
                   m_end, spreads, sourceFaults>>

TickNext ==
    \/ \E h \in Hour : \/ FetchTicks(h) \/ FetchEmpty(h)
                       \/ FetchReloadThrows(h) \/ FetchSourceFails(h)
    \/ \E h \in Hour : \E s, e \in h * MsPerHour..(h + 1) * MsPerHour : SetTickSpan(s, e)
    \/ \E batch \in Live, calculate \in BOOLEAN :
          AppendTicks(batch, calculate) \/ AppendRefused(batch, calculate)

TickSpec == TickInit /\ [][TickNext]_tickVars

-----------------------------------------------------------------------------
TickTypeOK ==
    /\ source \in [Hour -> Pattern] /\ mode \in BidAskModel
    /\ m_ticks \in Seq(MarketTick) /\ written \in Seq(MarketTick)
    /\ m_prev_tick \in MarketTick /\ m_has_prev_data \in BOOLEAN
    /\ m_start \in Int /\ m_end \in Int
    /\ spreads \in Nat \X Nat
    /\ loaded \in 0..MaxHour /\ threw \in BOOLEAN
    /\ appends \in Nat /\ sourceFaults \in Nat

\* What an hour should look like when the spread is fixed or the quotes come
\* from the source: the first tick is compared with the last of the hour
\* before, if that hour has any, and a quote is the one of the last tick at
\* or before it whose price was updated.
Expected(h) ==
    LET ticks == Stored(h)
        prev == Stored(h - 1)
        upd(i) == \/ ticks[i].upd
                  \/ i = 1 /\ prev # <<>> /\ prev[Len(prev)].last # ticks[1].last
        origin(i) == Final({k \in 1..i : k = 1 \/ upd(k)})
        quoted(i) == WithQuote(ticks[origin(i)], FixedSpread)
    IN  [i \in DOMAIN ticks |->
            IF mode = "NONE" THEN [ticks[i] EXCEPT !.upd = upd(i)]
            ELSE [ticks[i] EXCEPT !.upd = upd(i), !.bid = quoted(i).bid, !.ask = quoted(i).ask]]

\* The carried tick is of the hour before the end of the window.  A source that
\* fails after the hour before has been reloaded leaves one that is not.
CarriedIsAdjacent ==
    m_has_prev_data => m_end - MsPerHour <= m_prev_tick.time /\ m_prev_tick.time < m_end

\* fetch_ticks gives an hour the same ticks on whatever path the buffer came
\* to it, hour by hour, by a jump, back, or after the source has failed; only
\* a tick the processor refused, or a source that failed between the two reads
\* of the call before (StreamTickBuffer.hpp:310-319), may change the hour.
HourIsPathIndependent ==
    [][/\ loaded' # 0 /\ (loaded' # loaded \/ m_ticks' # m_ticks)
       /\ appends' = 0 /\ ~threw' /\ CarriedIsAdjacent
       /\ mode \in {"NONE", "FIXED_SPREAD"}
       => m_ticks' = Expected(loaded')]_tickVars

\* The carried tick belongs to the hour that ends where the buffer ends, so
\* that an hour is never compared with a tick from before a gap.
CarriedTickIsAdjacent ==
    ~threw /\ appends = 0 /\ loaded # 0 => CarriedIsAdjacent

\* A restored quote is never crossed, and a tick whose price was updated has
\* it as bid or as ask, whatever spread the processor has learnt.
QuotesHoldThePrice ==
    loaded # 0 /\ mode # "NONE" =>
        \A i \in DOMAIN m_ticks :
            /\ m_ticks[i].bid <= m_ticks[i].ask
            /\ m_ticks[i].upd => m_ticks[i].last \in {m_ticks[i].bid, m_ticks[i].ask}

InRange(s, e) == {i \in DOMAIN m_ticks : s <= m_ticks[i].time /\ m_ticks[i].time < e}
Visible == {i \in DOMAIN m_ticks : /\ m_tick_span'.data # 0
                                   /\ m_tick_span'.data <= i
                                   /\ i < m_tick_span'.data + m_tick_span'.size}

\* set_tick_span shows exactly the ticks of the half-open range, if there is
\* one: the index by second never hides a tick at an edge.
SpanIsExact ==
    [][\A s, e \in m_start..(m_start + MsPerHour) :
          SetTickSpan(s, e) /\ InRange(s, e) # {} => Visible = InRange(s, e)]_tickVars

\* Nothing is written before a batch, and after one the buffer is not empty.
BatchInv ==
    /\ appends = 0 => written = <<>>
    /\ loaded # 0 /\ appends # 0 => m_ticks # <<>>

Ordered(times) == \A i, j \in DOMAIN times : i < j => times[i] < times[j]

\* append_ticks neither loses nor repeats a tick: what was written and what is
\* buffered continue what there was before, and stay in order of time if the
\* batch is.  (A batch that is not passes the check of the code when its first
\* tick has just emptied the buffer.)
AppendKeepsEveryTick ==
    [][appends' # appends =>
          LET before == TimesOf(written \o m_ticks)
              after == TimesOf(written' \o m_ticks')
              added == SubSeq(after, Len(before) + 1, Len(after))
          IN  /\ SubSeq(after, 1, Len(before)) = before
              /\ \E batch \in Live : /\ Len(added) <= Len(batch)
                                     /\ \A i \in DOMAIN added : added[i] = batch[i].time
                                     /\ threw' \/ Len(added) = Len(batch)
              /\ Ordered(before) /\ Ordered(added) => Ordered(after)]_tickVars
=============================================================================
