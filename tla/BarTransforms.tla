---------------------------- MODULE BarTransforms ----------------------------
(***************************************************************************)
(* transform/: splitting bars into segments, cropping them, resampling to  *)
(* a longer interval and filling gaps, as operators on sequences of bars.  *)
(* A bar has a time, four prices, a spread, and one volume in place of the *)
(* five that are summed alike.                                             *)
(***************************************************************************)
EXTENDS SequencesExt, Loops

MarketBar == [time : Nat, open : Int, high : Int, low : Int, close : Int, volume : Int, spread : Int]

Greatest(a, b) == IF a > b THEN a ELSE b
Least(a, b) == IF a < b THEN a ELSE b

crop_before(items, start) == SelectSeq(items, LAMBDA item : item.time >= start)
crop_after(items, end) == SelectSeq(items, LAMBDA item : item.time < end)

-----------------------------------------------------------------------------
start_of_period(duration, time) == time - (time % duration)

next_boundary(duration, time) == start_of_period(duration, time) + duration

\* split_bars: [ok, segments].  On unsorted input the segments finished so far
\* stay in the output, the current one is lost.
SplitStep(s, bar, duration) ==
    CASE ~s.ok -> s
      [] s.ok /\ bar.time < s.last -> [s EXCEPT !.ok = FALSE]
      [] s.ok /\ bar.time >= s.last /\ bar.time >= s.next ->
             [s EXCEPT !.segments = Append(@, s.current), !.current = <<bar>>,
                       !.next = next_boundary(duration, bar.time),
                       !.last = bar.time]
      [] OTHER -> [s EXCEPT !.current = Append(@, bar), !.last = bar.time]

SplitState == [ok : BOOLEAN, segments : Seq(Seq(MarketBar)), current : Seq(MarketBar), last : Nat, next : Nat]
split_bars(duration, bars) ==
    LET start == [ok |-> TRUE, segments |-> <<>>, current |-> <<bars[1]>>, last |-> bars[1].time,
                  next |-> next_boundary(duration, bars[1].time)]
        s == Loop([p \in SplitState \X MarketBar |-> SplitStep(p[1], p[2], duration)], start, Tail(bars))
    IN  IF bars = <<>> THEN [ok |-> TRUE, segments |-> <<>>]
        ELSE [ok |-> s.ok, segments |-> IF s.ok THEN Append(s.segments, s.current) ELSE s.segments]

-----------------------------------------------------------------------------
\* resample_market_bars: the bar of the running bucket, and the sum and count
\* of its spreads for the average.
SpreadFlags == {"ENABLE_SPREAD", "SPREAD_LAST", "SPREAD_MAX", "SPREAD_AVG"}

spread_mode(flags) ==
    CASE "ENABLE_SPREAD" \notin flags -> "no_spread"
      [] "ENABLE_SPREAD" \in flags /\ "SPREAD_LAST" \in flags -> "last"
      [] {"ENABLE_SPREAD", "SPREAD_MAX"} \subseteq flags /\ "SPREAD_LAST" \notin flags -> "max"
      [] {"SPREAD_LAST", "SPREAD_MAX"} \cap flags = {} /\ {"ENABLE_SPREAD", "SPREAD_AVG"} \subseteq flags -> "avg"
      [] OTHER -> "throws"

Opened(bar, time) == [bucket |-> [bar EXCEPT !.time = time], sum |-> bar.spread, count |-> 1]

Joined(s, bar, mode) ==
    [s EXCEPT !.bucket.high = Greatest(@, bar.high),
              !.bucket.low = Least(@, bar.low),
              !.bucket.close = bar.close,
              !.bucket.volume = @ + bar.volume,
              !.bucket.spread = IF mode = "max" THEN Greatest(@, bar.spread) ELSE bar.spread,
              !.sum = @ + bar.spread, !.count = @ + 1]

Closed(s, mode) == [s.bucket EXCEPT !.spread = CASE mode = "no_spread" -> 0
                                                 [] mode = "avg" -> s.sum \div s.count
                                                 [] OTHER -> @]

\* Mutant of ResampleStep: a bar behind a gap is passed over.
ResampleStepDrops(s, bar, interval, mode) ==
    IF bar.time = s.next
    THEN [result |-> Append(s.result, Closed(s.current, mode)),
          current |-> Opened(bar, s.next), next |-> s.next + interval]
    ELSE IF bar.time > s.next THEN s ELSE [s EXCEPT !.current = Joined(@, bar, mode)]

\* A bucket is closed only by a bar at the very start of the next one.
ResampleStep(s, bar, interval, mode) ==
    IF bar.time = s.next
    THEN [result |-> Append(s.result, Closed(s.current, mode)),
          current |-> Opened(bar, s.next), next |-> s.next + interval]
    ELSE [s EXCEPT !.current = Joined(@, bar, mode)]

ResampleState == [result : Seq(MarketBar), current : [bucket : MarketBar, sum : Int, count : Nat \ {0}], next : Nat]
Resampled(bars, interval, mode) ==
    LET bucket == start_of_period(interval, bars[1].time)
        s == Loop([p \in ResampleState \X MarketBar |-> ResampleStep(p[1], p[2], interval, mode)],
                  [result |-> <<>>, current |-> Opened(bars[1], bucket), next |-> bucket + interval],
                  Tail(bars))
    IN  Append(s.result, Closed(s.current, mode))

resample_market_bars_last(bars, interval) == Resampled(bars, interval, "last")
resample_market_bars_max(bars, interval) == Resampled(bars, interval, "max")
resample_market_bars_avg(bars, interval) == Resampled(bars, interval, "avg")
resample_market_bars_no_spread(bars, interval) == Resampled(bars, interval, "no_spread")

\* Throws, here without a result, when the flags ask for a spread and name none.
resample_market_bars(bars, interval, flags) ==
    LET mode == spread_mode(flags)
    IN  CASE bars = <<>> \/ mode = "throws" -> <<>>
          [] bars # <<>> /\ mode = "no_spread" -> resample_market_bars_no_spread(bars, interval)
          [] bars # <<>> /\ mode = "last" -> resample_market_bars_last(bars, interval)
          [] bars # <<>> /\ mode = "max" -> resample_market_bars_max(bars, interval)
          [] bars # <<>> /\ mode = "avg" -> resample_market_bars_avg(bars, interval)

-----------------------------------------------------------------------------
Filler(time, price, spread) == [time |-> time, open |-> price, high |-> price, low |-> price,
                                close |-> price, volume |-> 0, spread |-> spread]

\* The times start, start + interval, ... before end.
Grid(start, interval, end) ==
    [i \in 1..(IF start < end THEN (end - start + interval - 1) \div interval ELSE 0) |->
        start + (i - 1) * interval]

\* The bar at this time, or a flat bar at the last close; until the first bar
\* is passed it is that bar's close.
FillStep(s, bars, time) ==
    IF s.index < Len(bars) /\ bars[s.index + 1].time = time
    THEN [result |-> Append(s.result, bars[s.index + 1]), index |-> s.index + 1,
          spread |-> bars[s.index + 1].spread]
    ELSE [s EXCEPT !.result = Append(@, Filler(time,
              IF s.index > 0 THEN bars[s.index].close ELSE bars[1].close, s.spread))]

FillState(bars) == [result : Seq(MarketBar), index : 0..Len(bars), spread : Int]
fill_missing_bars(bars, interval, start, end) ==
    IF bars = <<>> THEN <<>>
    ELSE Loop([p \in FillState(bars) \X Nat |-> FillStep(p[1], bars, p[2])],
              [result |-> <<>>, index |-> 0, spread |-> bars[1].spread], Grid(start, interval, end)).result

\* The fillers between a bar and the next, at the close of the first.
FillersAfter(bar, interval, end) ==
    LET times == Grid(bar.time + interval, interval, end)
    IN  [i \in DOMAIN times |-> Filler(times[i], bar.close, bar.spread)]

\* In place, leading fillers have the first bar's open.  The trailing ones are
\* read through a reference into the vector that emplace_back may have moved:
\* after the first of them, stale stands for what is found there.
fill_missing_bars_inplace(bars, interval, start, end, stale) ==
    LET leading == [i \in DOMAIN Grid(start, interval, bars[1].time) |->
                       Filler(Grid(start, interval, bars[1].time)[i], bars[1].open, bars[1].spread)]
        inner == Loop([p \in (Seq(MarketBar) \ {<<>>}) \X MarketBar |->
                           p[1] \o FillersAfter(p[1][Len(p[1])], interval, p[2].time) \o <<p[2]>>],
                      <<bars[1]>>, Tail(bars))
        trailing == FillersAfter(bars[Len(bars)], interval, end)
    IN  IF bars = <<>> THEN <<>>
        ELSE leading \o inner \o
             [i \in DOMAIN trailing |-> IF i = 1 THEN trailing[i]
                                        ELSE Filler(trailing[i].time, stale.close, stale.spread)]
=============================================================================
