-------------------------- MODULE TickBufferProofs --------------------------
(* Proofs about TickBuffer, for any source of well-formed hours, any live  *)
(* batches, any spread and any length of an hour.                          *)
EXTENDS TickBuffer, Numbers

-----------------------------------------------------------------------------
(* The loop of process()                                                   *)

Loop(n) == [ticks : [1..n -> MarketTick], prev_spread : Nat, prev2_spread : Nat,
            filter : Nat, done : 0..n, ok : BOOLEAN]

\* Spreads are not negative.
LEMMA MedianType ==
    ASSUME NEW a \in Nat, NEW b \in Nat, NEW c \in Nat
    PROVE  median_filter(a, b, c) \in Nat
  BY DEF median_filter

LEMMA GapType ==
    ASSUME NEW a \in MarketTick, NEW b \in MarketTick
    PROVE  Gap(a, b) \in Nat
  BY DEF Gap, MarketTick

\* A quote changes bid and ask only, is not crossed, and has the price.
LEMMA QuoteType ==
    ASSUME NEW tick \in MarketTick, NEW spread \in Nat
    PROVE  LET q == WithQuote(tick, spread)
           IN  /\ q \in MarketTick /\ q.time = tick.time /\ q.last = tick.last /\ q.side = tick.side
               /\ q.upd = tick.upd /\ q.bid <= q.ask /\ q.last \in {q.bid, q.ask}
  <1>1. tick.last \in Int /\ tick.last - spread \in Int /\ tick.last + spread \in Int
        /\ tick.last - spread <= tick.last /\ tick.last <= tick.last + spread
    BY DEF MarketTick
  <1>2. CASE tick.side = "TICK_FROM_BUY"
    <2>1. WithQuote(tick, spread) = [tick EXCEPT !.ask = tick.last, !.bid = tick.last - spread]
      BY <1>2 DEF WithQuote
    <2> QED BY <1>1, <2>1 DEF MarketTick
  <1>3. CASE tick.side # "TICK_FROM_BUY"
    <2>1. WithQuote(tick, spread) = [tick EXCEPT !.bid = tick.last, !.ask = tick.last + spread]
      BY <1>3 DEF WithQuote
    <2> QED BY <1>1, <2>1 DEF MarketTick
  <1> QED BY <1>2, <1>3

\* The loop after a round: only the tick of the round changes.
Others(n, s, i, r) == \A k \in 1..n \ {i} : r.ticks[k] = s.ticks[k]
Round(n, s, i, r, x, ok) ==
    r \in Loop(n) /\ r.ok = ok /\ Others(n, s, i, r) /\ r.ticks[i] = x

\* The fields of the loop's state the processors assign.
Quoted(s, i, x, a, b, f) ==
    [s EXCEPT !.prev2_spread = a, !.prev_spread = b, !.filter = f, !.ticks[i] = x]

LEMMA LoopSet ==
    ASSUME NEW n \in Nat, NEW s \in Loop(n), NEW i \in 1..n, NEW x \in MarketTick,
           NEW a \in Nat, NEW b \in Nat, NEW f \in Nat, NEW r, r = Quoted(s, i, x, a, b, f)
    PROVE  Round(n, s, i, r, x, s.ok)
  <1>1. r.ticks = [s.ticks EXCEPT ![i] = x]
    BY DEF Loop, Quoted
  <1>2. r.ticks \in [1..n -> MarketTick] /\ r.ticks[i] = x /\ Others(n, s, i, r)
    BY <1>1 DEF Loop, Others
  <1>3. r = [ticks |-> r.ticks, prev_spread |-> b, prev2_spread |-> a, filter |-> f,
             done |-> s.done, ok |-> s.ok]
    BY DEF Loop, Quoted
  <1>4. s.done \in 0..n /\ s.ok \in BOOLEAN
    BY DEF Loop
  <1>5. r.ok = s.ok
    BY <1>3
  <1>6. r \in Loop(n)
    BY <1>2, <1>3, <1>4 DEF Loop
  <1> QED BY <1>2, <1>5, <1>6 DEF Round

LEMMA NoTickType == NoTick \in MarketTick
  BY DEF NoTick, MarketTick, Side

\* The loop after one tick.
QuotedRight(tick) == tick.bid <= tick.ask /\ (tick.upd => tick.last \in {tick.bid, tick.ask})

LEMMA RestoreType ==
    ASSUME NEW n \in Nat, NEW s \in Loop(n), NEW i \in 1..n, NEW tick \in MarketTick, NEW before \in MarketTick,
           mode \in BidAskModel \ {"NONE"}, NEW r, r = Restore(s, i, tick, before)
    PROVE  \E spread \in Nat : Round(n, s, i, r, WithQuote(tick, spread), s.ok)
  <1> DEFINE Set(x, y, z, spread) == Quoted(s, i, WithQuote(tick, spread), x, y, z)
  <1>1. s.prev_spread \in Nat /\ s.prev2_spread \in Nat /\ s.filter \in Nat
    BY DEF Loop
  <1>2. \E x, y, z, spread \in Nat : r = Set(x, y, z, spread)
    <2>1. CASE mode = "FIXED_SPREAD"
      <3>1. r = [s EXCEPT !.ticks[i] = WithQuote(tick, FixedSpread)]
        BY <2>1 DEF Restore, FixedRestore
      <3>2. r = Set(s.prev2_spread, s.prev_spread, s.filter, FixedSpread)
        BY <3>1 DEF Loop, Quoted
      <3> HIDE DEF Set
      <3> QED BY <1>1, <3>2, FixedSpreadAssumption
    <2>2. CASE mode = "DYNAMIC_SPREAD"
      <3> DEFINE spread == IF Reversal(tick, before) THEN Gap(tick, before) ELSE s.prev_spread
      <3>1. r = [s EXCEPT !.prev_spread = spread, !.ticks[i] = WithQuote(tick, spread)]
        BY <2>2 DEF Restore, DynamicRestore
      <3>2. spread \in Nat
        BY <1>1, GapType
      <3> HIDE DEF spread
      <3>3. r = Set(s.prev2_spread, spread, s.filter, spread)
        BY <3>1 DEF Loop, Quoted
      <3> HIDE DEF Set
      <3> QED BY <1>1, <3>2, <3>3
    <2>3. CASE mode = "MEDIAN_SPREAD" /\ Reversal(tick, before)
      <3> DEFINE gap == Gap(tick, before)
                 filter == median_filter(s.prev2_spread, s.prev_spread, gap)
      <3>1. r = Set(s.prev_spread, gap, filter, filter)
        BY <2>3 DEF Restore, MedianRestore, Quoted
      <3>2. gap \in Nat /\ filter \in Nat
        BY <1>1, GapType, MedianType
      <3> HIDE DEF Set, gap, filter
      <3> QED BY <1>1, <3>1, <3>2
    <2>4. CASE mode = "MEDIAN_SPREAD" /\ ~Reversal(tick, before)
      <3>1. r = [s EXCEPT !.ticks[i] = WithQuote(tick, s.filter)]
        BY <2>4 DEF Restore, MedianRestore
      <3>2. r = Set(s.prev2_spread, s.prev_spread, s.filter, s.filter)
        BY <3>1 DEF Loop, Quoted
      <3> HIDE DEF Set
      <3> QED BY <1>1, <3>2
    <2> QED BY <2>1, <2>2, <2>3, <2>4 DEF BidAskModel
  <1>3. PICK x \in Nat, y \in Nat, z \in Nat, spread \in Nat : r = Set(x, y, z, spread)
    BY <1>2
  <1>4. WithQuote(tick, spread) \in MarketTick
    BY QuoteType
  <1>6. r = Quoted(s, i, WithQuote(tick, spread), x, y, z)
    BY <1>3
  <1>5. Round(n, s, i, r, WithQuote(tick, spread), s.ok)
    BY <1>3, <1>4, <1>6, LoopSet
  <1> QED BY <1>5

\* A round that ends well, one that throws, and the end of a round.
Ended(s, i, x) == [s EXCEPT !.ticks[i] = x, !.done = i]
Thrown(s, i, x) == [s EXCEPT !.ticks[i] = x, !.ok = FALSE]
Done(s, i) == [s EXCEPT !.done = i]

LEMMA LoopTick ==
    ASSUME NEW n \in Nat, NEW s \in Loop(n), NEW i \in 1..n, NEW x \in MarketTick,
           NEW r, r = Ended(s, i, x)
    PROVE  Round(n, s, i, r, x, s.ok)
  <1>1. r.ticks = [s.ticks EXCEPT ![i] = x] /\ r.ok = s.ok
    BY DEF Loop, Ended
  <1>2. r.ticks \in [1..n -> MarketTick] /\ r.ticks[i] = x /\ Others(n, s, i, r)
    BY <1>1 DEF Loop, Others
  <1>3. r = [ticks |-> r.ticks, prev_spread |-> s.prev_spread, prev2_spread |-> s.prev2_spread,
             filter |-> s.filter, done |-> i, ok |-> s.ok]
    BY DEF Loop, Ended
  <1>4. s.done \in 0..n /\ i \in 0..n /\ s.ok \in BOOLEAN
        /\ s.prev_spread \in Nat /\ s.prev2_spread \in Nat /\ s.filter \in Nat
    BY DEF Loop
  <1>5. r \in Loop(n)
    BY <1>2, <1>3, <1>4 DEF Loop
  <1> QED BY <1>1, <1>2, <1>5 DEF Round

LEMMA LoopThrows ==
    ASSUME NEW n \in Nat, NEW s \in Loop(n), NEW i \in 1..n, NEW x \in MarketTick,
           NEW r, r = Thrown(s, i, x)
    PROVE  Round(n, s, i, r, x, FALSE)
  <1>1. r.ticks = [s.ticks EXCEPT ![i] = x] /\ r.ok = FALSE
    BY DEF Loop, Thrown
  <1>2. r.ticks \in [1..n -> MarketTick] /\ r.ticks[i] = x /\ Others(n, s, i, r)
    BY <1>1 DEF Loop, Others
  <1>3. r = [ticks |-> r.ticks, prev_spread |-> s.prev_spread, prev2_spread |-> s.prev2_spread,
             filter |-> s.filter, done |-> s.done, ok |-> FALSE]
    BY DEF Loop, Thrown
  <1>4. s.done \in 0..n /\ i \in 0..n /\ s.ok \in BOOLEAN
        /\ s.prev_spread \in Nat /\ s.prev2_spread \in Nat /\ s.filter \in Nat
    BY DEF Loop
  <1>5. r \in Loop(n)
    <2> DEFINE ticks == r.ticks
    <2>1. ticks \in [1..n -> MarketTick]
      BY <1>2
    <2>2. r = [ticks |-> ticks, prev_spread |-> s.prev_spread, prev2_spread |-> s.prev2_spread,
               filter |-> s.filter, done |-> s.done, ok |-> FALSE]
      BY <1>3
    <2> HIDE DEF ticks
    <2> QED BY <1>4, <2>1, <2>2 DEF Loop
  <1> QED BY <1>1, <1>2, <1>5 DEF Round

LEMMA LoopDone ==
    ASSUME NEW n \in Nat, NEW s \in Loop(n), NEW i \in 1..n,
           NEW r, r = Done(s, i)
    PROVE  r \in Loop(n) /\ r.ok = s.ok /\ r.ticks = s.ticks
  BY DEF Loop, Done

\* The tick that comes in, with its price compared with the one before.
Compared(s, i, prev, has_prev) ==
    [s.ticks[i] EXCEPT !.upd = @ \/ (i = 1 /\ has_prev /\ s.ticks[i].last # prev.last)]
Before(s, i, prev, has_prev) ==
    IF i > 1 THEN s.ticks[i - 1] ELSE IF has_prev THEN prev ELSE NoTick

\* A round: the tick gets a quote of its own or inherits the one before.
RoundIs(n, s, i, r, tick, before) ==
    /\ r \in Loop(n)
    /\ Others(n, s, i, r)
    /\ r.ticks[i].time = s.ticks[i].time
    /\ r.ok => s.ok
    /\ r.ok /\ mode # "NONE" =>
          \/ \E spread \in Nat : r.ticks[i] = WithQuote(tick, spread)
          \/ i > 1 /\ ~tick.upd /\ r.ticks[i] = [tick EXCEPT !.bid = before.bid, !.ask = before.ask]
    /\ r.ok /\ mode = "NONE" => r.ticks[i] = tick

LEMMA ProcessTickIs ==
    ASSUME NEW n \in Nat, NEW s \in Loop(n), NEW i \in 1..n, NEW prev \in MarketTick, NEW has_prev \in BOOLEAN,
           mode \in BidAskModel, NEW r, r = ProcessTick(s, i, prev, has_prev)
    PROVE  RoundIs(n, s, i, r, Compared(s, i, prev, has_prev), Before(s, i, prev, has_prev))
  <1> DEFINE tick == Compared(s, i, prev, has_prev)
             before == Before(s, i, prev, has_prev)
  <1>1. tick \in MarketTick /\ tick.time = s.ticks[i].time
    BY DEF Compared, Loop, MarketTick
  <1>2. before \in MarketTick
    BY NoTickType DEF Before, Loop
  <1>3. r = CASE ~s.ok -> s
          [] s.ok /\ mode = "NONE" -> Ended(s, i, tick)
          [] s.ok /\ mode # "NONE" /\ (i > 1 /\ ~tick.upd) ->
                 Ended(s, i, [tick EXCEPT !.bid = before.bid, !.ask = before.ask])
          [] s.ok /\ mode # "NONE" /\ ~(i > 1 /\ ~tick.upd) /\ tick.side = "none" ->
                 Thrown(s, i, tick)
          [] OTHER -> Done(Restore(s, i, tick, before), i)
    BY DEF ProcessTick, Compared, Before, Ended, Thrown, Done
  <1> HIDE DEF tick, before, RoundIs
  <1>4. CASE ~s.ok
    <2>1. r = s
      BY <1>3, <1>4
    <2> QED BY <1>4, <2>1 DEF tick, before, RoundIs, Others
  <1>5. CASE s.ok /\ mode = "NONE"
    <2>1. r = Ended(s, i, tick)
      BY <1>3, <1>5
    <2>2. Round(n, s, i, r, tick, s.ok)
      BY <1>1, <2>1, LoopTick
    <2> QED BY <1>1, <1>5, <2>2 DEF tick, before, RoundIs, Round
  <1>6. CASE s.ok /\ mode # "NONE" /\ i > 1 /\ ~tick.upd
    <2> DEFINE new == [tick EXCEPT !.bid = before.bid, !.ask = before.ask]
    <2>1. r = Ended(s, i, new)
      BY <1>3, <1>6
    <2>2. new \in MarketTick /\ new.time = tick.time
      BY <1>1, <1>2 DEF MarketTick
    <2> HIDE DEF new
    <2>3. Round(n, s, i, r, new, s.ok)
      BY <2>1, <2>2, LoopTick
    <2> QED BY <1>1, <1>6, <2>2, <2>3 DEF tick, before, new, RoundIs, Round
  <1>7. CASE s.ok /\ mode # "NONE" /\ ~(i > 1 /\ ~tick.upd) /\ tick.side = "none"
    <2>1. r = Thrown(s, i, tick)
      BY <1>3, <1>7
    <2>2. Round(n, s, i, r, tick, FALSE)
      BY <1>1, <2>1, LoopThrows
    <2> QED BY <1>1, <1>7, <2>2 DEF tick, before, RoundIs, Round
  <1>8. CASE s.ok /\ mode # "NONE" /\ ~(i > 1 /\ ~tick.upd) /\ tick.side # "none"
    <2> DEFINE x == Restore(s, i, tick, before)
    <2>1. r = Done(x, i)
      BY <1>3, <1>8
    <2>2. PICK spread \in Nat : Round(n, s, i, x, WithQuote(tick, spread), s.ok)
      <3>1. mode \in BidAskModel \ {"NONE"}
        BY <1>8
      <3> QED BY <1>1, <1>2, <3>1, RestoreType
    <2> HIDE DEF x
    <2>3. r \in Loop(n) /\ r.ticks = x.ticks /\ r.ok = x.ok
      BY <2>1, <2>2, LoopDone DEF Round
    <2>4. r.ticks[i] = WithQuote(tick, spread) /\ r.ok = s.ok
      BY <2>2, <2>3 DEF Round
    <2>5. r.ticks[i].time = s.ticks[i].time
      BY <1>1, <2>4, QuoteType
    <2>6. Others(n, s, i, r)
      BY <2>2, <2>3 DEF Others, Round
    <2> QED BY <1>8, <2>3, <2>4, <2>5, <2>6 DEF tick, before, RoundIs
  <1> QED BY <1>4, <1>5, <1>6, <1>7, <1>8

-----------------------------------------------------------------------------
(* process(): from the loop to the buffer it leaves                        *)

\* A buffer the processor may be given.
BufferType(b) ==
    /\ b.ticks \in Seq(MarketTick) /\ b.prev \in MarketTick /\ b.has_prev \in BOOLEAN
    /\ b.spreads \in Nat \X Nat

LEMMA StartType ==
    ASSUME NEW b, BufferType(b), NEW n, n = Len(b.ticks), NEW s,
           s = ProcessorStart(b.ticks, b.has_prev, b.spreads)
    PROVE  n \in Nat /\ s \in Loop(n) /\ s.ticks = b.ticks /\ s.ok = TRUE
  <1> DEFINE start == IF mode \in {"DYNAMIC_SPREAD", "MEDIAN_SPREAD"} /\ ~b.has_prev
                      THEN <<FixedSpread, FixedSpread>> ELSE b.spreads
  <1>1. start \in Nat \X Nat
    BY FixedSpreadAssumption DEF BufferType
  <1>2. s = [ticks |-> b.ticks, prev_spread |-> start[1], prev2_spread |-> start[2],
             filter |-> start[1], done |-> 0, ok |-> TRUE]
    BY DEF ProcessorStart
  <1> HIDE DEF start
  <1>3. n \in Nat /\ b.ticks \in [1..n -> MarketTick] /\ start[1] \in Nat /\ start[2] \in Nat
    BY <1>1 DEF BufferType
  <1> QED BY <1>2, <1>3 DEF Loop

\* The loop makes one round for every tick.
LEMMA RoundsAre ==
    ASSUME NEW b, BufferType(b), NEW n, n = Len(b.ticks), mode \in BidAskModel
    PROVE  /\ Rounds(b) \in [0..n -> Loop(n)]
           /\ Rounds(b)[0] = ProcessorStart(b.ticks, b.has_prev, b.spreads)
           /\ \A i \in 1..n : Rounds(b)[i] = ProcessTick(Rounds(b)[i - 1], i, b.prev, b.has_prev)
  <1> DEFINE c == ProcessorStart(b.ticks, b.has_prev, b.spreads)
             step == [x \in Loop(n) \X (1..n) |-> ProcessTick(x[1], x[2], b.prev, b.has_prev)]
             Body(run) == [i \in 0..Len(b.ticks) |->
                             IF i = 0 THEN ProcessorStart(b.ticks, b.has_prev, b.spreads)
                             ELSE ProcessTick(run[i - 1], i, b.prev, b.has_prev)]
  <1>1. n \in Nat /\ c \in Loop(n) /\ b.prev \in MarketTick /\ b.has_prev \in BOOLEAN
    BY StartType DEF BufferType
  <1>2. ASSUME NEW s \in Loop(n), NEW i \in 1..n
        PROVE  ProcessTick(s, i, b.prev, b.has_prev) \in Loop(n)
    BY <1>1, ProcessTickIs DEF RoundIs
  <1>3. step \in [Loop(n) \X (1..n) -> Loop(n)]
    BY <1>2
  <1>4. \A s \in Loop(n), i \in 1..n : step[<<s, i>>] = ProcessTick(s, i, b.prev, b.has_prev)
    OBVIOUS
  <1> HIDE DEF c, step
  <1>5. PICK f \in [0..n -> Loop(n)] : f[0] = c /\ \A i \in 1..n : f[i] = step[<<f[i - 1], i>>]
    <2>1. IsStep(step, n, Loop(n))
      BY <1>3 DEF IsStep
    <2>2. \E f : Iterates(f, n, Loop(n), c, step)
      BY <1>1, <2>1, RecursiveFunction
    <2> QED BY <2>2 DEF Iterates
  <1>6. ASSUME NEW i \in 1..n PROVE f[i] = ProcessTick(f[i - 1], i, b.prev, b.has_prev)
    <2>1. i - 1 \in 0..n /\ f[i - 1] \in Loop(n)
      BY <1>1, <1>5
    <2> QED BY <1>4, <1>5, <2>1
  <1>7. f = Body(f)
    BY <1>1, <1>5, <1>6 DEF c
  <1>8. Rounds(b) = CHOOSE run : run = Body(run)
    BY DEF Rounds
  <1>9. Rounds(b) = Body(Rounds(b))
    BY <1>7, <1>8
  <1> DEFINE run == Rounds(b)
  <1>10. run = Body(run)
    BY <1>9
  <1> HIDE DEF run
  <1>11. run[0] = c /\ \A i \in 1..n : run[i] = ProcessTick(run[i - 1], i, b.prev, b.has_prev)
    <2>1. \A i \in 0..n : run[i] = IF i = 0 THEN ProcessorStart(b.ticks, b.has_prev, b.spreads)
                                   ELSE ProcessTick(run[i - 1], i, b.prev, b.has_prev)
      BY <1>10
    <2>2. 0 \in 0..n /\ \A i \in 1..n : i \in 0..n /\ i # 0
      BY <1>1
    <2>3. run[0] = c
      BY <2>1, <2>2 DEF c
    <2>4. ASSUME NEW i \in 1..n PROVE run[i] = ProcessTick(run[i - 1], i, b.prev, b.has_prev)
      BY <2>1, <2>2
    <2> QED BY <2>3, <2>4
  <1> DEFINE T == {i \in 0..n : run[i] \in Loop(n)}
  <1>12. 0 \in T
    BY <1>1, <1>11
  <1>13. ASSUME NEW i \in 1..n, i - 1 \in T PROVE i \in T
    BY <1>2, <1>11, <1>13
  <1> HIDE DEF T
  <1>14. 0..n \subseteq T
    BY <1>1, <1>12, <1>13, BoundedInduction
  <1>15. \A i \in 0..n : run[i] \in Loop(n)
    BY <1>14 DEF T
  <1>16. run \in [0..n -> Loop(n)]
    BY <1>10, <1>15
  <1> QED BY <1>11, <1>16 DEF run, c

\* What a round keeps: the times, and that the quotes up to it are right.
Kept(b, s, i) ==
    /\ \A k \in 1..Len(b.ticks) : s.ticks[k].time = b.ticks[k].time
    /\ s.ok /\ mode # "NONE" => \A k \in 1..i : QuotedRight(s.ticks[k])

LEMMA RoundKeeps ==
    ASSUME NEW b, BufferType(b), NEW n, n = Len(b.ticks), mode \in BidAskModel,
           NEW i \in 1..n, NEW s \in Loop(n), NEW r, r = ProcessTick(s, i, b.prev, b.has_prev),
           Kept(b, s, i - 1)
    PROVE  Kept(b, r, i)
  <1> DEFINE tick == Compared(s, i, b.prev, b.has_prev)
             before == Before(s, i, b.prev, b.has_prev)
  <1>1. n \in Nat /\ b.prev \in MarketTick /\ b.has_prev \in BOOLEAN
    BY DEF BufferType
  <1>2. /\ r \in Loop(n) /\ Others(n, s, i, r)
        /\ r.ticks[i].time = s.ticks[i].time
        /\ r.ok => s.ok
        /\ r.ok /\ mode # "NONE" =>
              \/ \E spread \in Nat : r.ticks[i] = WithQuote(tick, spread)
              \/ i > 1 /\ ~tick.upd /\ r.ticks[i] = [tick EXCEPT !.bid = before.bid, !.ask = before.ask]
    <2>1. RoundIs(n, s, i, r, Compared(s, i, b.prev, b.has_prev), Before(s, i, b.prev, b.has_prev))
      BY <1>1, ProcessTickIs
    <2>2. RoundIs(n, s, i, r, tick, before)
      BY <2>1
    <2> HIDE DEF tick, before
    <2> QED BY <2>2 DEF RoundIs
  <1>3. tick \in MarketTick
    BY <1>1 DEF Compared, Loop, MarketTick
  <1>4. i > 1 => i - 1 \in 1..(i - 1) /\ before = s.ticks[i - 1]
    BY <1>1 DEF Before
  <1> HIDE DEF tick, before
  <1>5. \A k \in 1..n : r.ticks[k].time = b.ticks[k].time
    <2> TAKE k \in 1..n
    <2>1. CASE k = i
      BY <1>2, <2>1 DEF Kept
    <2>2. CASE k # i
      BY <1>2, <2>2 DEF Kept, Others
    <2> QED BY <2>1, <2>2
  <1>6. ASSUME r.ok, mode # "NONE", NEW k \in 1..i PROVE QuotedRight(r.ticks[k])
    <2>1. \A m \in 1..(i - 1) : QuotedRight(s.ticks[m])
      BY <1>2, <1>6 DEF Kept
    <2>2. CASE k # i
      <3>1. k \in 1..(i - 1) /\ k \in 1..n
        BY <1>1, <2>2
      <3> QED BY <1>2, <2>1, <2>2, <3>1 DEF Others
    <2>3. CASE k = i /\ \E spread \in Nat : r.ticks[i] = WithQuote(tick, spread)
      BY <1>3, <2>3, QuoteType DEF QuotedRight
    <2>4. CASE k = i /\ i > 1 /\ ~tick.upd
               /\ r.ticks[i] = [tick EXCEPT !.bid = before.bid, !.ask = before.ask]
      <3>1. QuotedRight(before)
        BY <1>4, <2>1, <2>4
      <3>2. r.ticks[i].bid = before.bid /\ r.ticks[i].ask = before.ask /\ ~r.ticks[i].upd
        BY <1>3, <2>4 DEF MarketTick
      <3> QED BY <2>4, <3>1, <3>2 DEF QuotedRight
    <2> QED BY <1>2, <1>6, <2>2, <2>3, <2>4
  <1> QED BY <1>5, <1>6 DEF Kept

LEMMA RoundsKeep ==
    ASSUME NEW b, BufferType(b), NEW n, n = Len(b.ticks), mode \in BidAskModel
    PROVE  Rounds(b)[n] \in Loop(n) /\ Kept(b, Rounds(b)[n], n)
  <1> DEFINE run == Rounds(b)
             T == {i \in 0..n : Kept(b, run[i], i)}
  <1>1. /\ n \in Nat /\ run \in [0..n -> Loop(n)]
        /\ run[0] = ProcessorStart(b.ticks, b.has_prev, b.spreads)
        /\ \A i \in 1..n : run[i] = ProcessTick(run[i - 1], i, b.prev, b.has_prev)
    BY RoundsAre, StartType
  <1> HIDE DEF run
  <1>2. 0 \in T
    <2>1. run[0].ticks = b.ticks
      BY <1>1, StartType
    <2> QED BY <1>1, <2>1 DEF Kept
  <1>3. ASSUME NEW i \in 1..n, i - 1 \in T PROVE i \in T
    <2>1. run[i - 1] \in Loop(n) /\ Kept(b, run[i - 1], i - 1)
      BY <1>1, <1>3
    <2>2. Kept(b, run[i], i)
      BY <1>1, <2>1, RoundKeeps
    <2> QED BY <1>1, <2>2
  <1> HIDE DEF T
  <1>4. 0..n \subseteq T
    BY <1>1, <1>2, <1>3, BoundedInduction
  <1>5. n \in T /\ n \in 0..n
    BY <1>1, <1>4
  <1> QED BY <1>1, <1>5 DEF T, run

\* What process() leaves: as many ticks as it got, at their times, and unless
\* it threw the last of them to carry on, all with a right quote.
Processed(b, r) ==
    /\ r.ticks \in Seq(MarketTick) /\ r.ticks # <<>> /\ Len(r.ticks) = Len(b.ticks)
    /\ \A i \in 1..Len(b.ticks) : r.ticks[i].time = b.ticks[i].time
    /\ r.prev \in MarketTick /\ r.has_prev \in BOOLEAN /\ r.spreads \in Nat \X Nat
    /\ r.ok \in BOOLEAN
    /\ r.ok => r.prev = r.ticks[Len(r.ticks)]
    /\ r.ok /\ mode # "NONE" => \A i \in 1..Len(b.ticks) : QuotedRight(r.ticks[i])

LEMMA ProcessIs ==
    ASSUME NEW b, BufferType(b), b.ticks # <<>>, mode \in BidAskModel, NEW start,
           NEW r, r = Process(b, start)
    PROVE  Processed(b, r) /\ BufferType(r)
  <1> DEFINE n == Len(b.ticks)
             p == Rounds(b)[n]
             chunks == Chunked(p, start, b.chunks)
  <1>1. p \in Loop(n) /\ Kept(b, p, n)
    BY RoundsKeep
  <1>2. n \in Nat \ {0}
    BY DEF BufferType
  <1>3. r = [ticks |-> p.ticks, chunks |-> chunks,
             prev |-> IF p.ok THEN p.ticks[n] ELSE b.prev,
             has_prev |-> p.ok \/ b.has_prev,
             spreads |-> <<p.prev_spread, p.prev2_spread>>, ok |-> p.ok]
    <2>1. Len(p.ticks) = n
      <3> HIDE DEF p, n
      <3> QED BY <1>1, <1>2 DEF Loop
    <2> QED BY <2>1 DEF Process
  <1> HIDE DEF p, chunks, n
  <1>4. p.ticks \in Seq(MarketTick) /\ Len(p.ticks) = n /\ p.ticks # <<>> /\ p.ticks[n] \in MarketTick
    BY <1>1, <1>2 DEF Loop
  <1>5. p.ok \in BOOLEAN /\ p.prev_spread \in Nat /\ p.prev2_spread \in Nat
    BY <1>1 DEF Loop
  <1>6. r.ticks = p.ticks /\ r.prev \in MarketTick /\ r.has_prev \in BOOLEAN
        /\ r.spreads \in Nat \X Nat /\ r.ok = p.ok /\ (r.ok => r.prev = p.ticks[n])
    BY <1>3, <1>4, <1>5 DEF BufferType
  <1>7. n = Len(b.ticks)
    BY DEF n
  <1> QED BY <1>1, <1>4, <1>5, <1>6, <1>7 DEF Processed, Kept, BufferType

-----------------------------------------------------------------------------
(* The source, and the hour before a fetch                                 *)

LEMMA HourIsPositive == MsPerHour \in Nat \ {0}
  <1>1. \A a, b \in Nat \ {0} : a * b \in Nat \ {0}
    OBVIOUS
  <1> QED BY <1>1, TickTimeAssumption DEF MsPerHour

Shifted(tick, o) == [tick EXCEPT !.time = @ + o]

LEMMA ShiftType ==
    ASSUME NEW tick \in MarketTick, NEW o \in Nat
    PROVE  Shifted(tick, o) \in MarketTick /\ Shifted(tick, o).time = tick.time + o
  <1>1. tick.time \in Nat /\ tick.time + o \in Nat
    BY DEF MarketTick
  <1> QED BY <1>1 DEF MarketTick, Shifted

\* The source answers for an hour with ticks of that hour.
LEMMA StoredType ==
    ASSUME NEW h \in Int, source \in [Hour -> Pattern]
    PROVE  /\ Stored(h) \in Seq(MarketTick)
           /\ \A i \in 1..Len(Stored(h)) :
                 h * MsPerHour <= Stored(h)[i].time /\ Stored(h)[i].time < (h + 1) * MsPerHour
  <1>1. CASE h \in Hour
    <2> DEFINE p == source[h]
               o == h * MsPerHour
    <2>1. p \in Seq(MarketTick) /\ \A i \in DOMAIN p : p[i].time < MsPerHour
      BY <1>1, PatternAssumption
    <2>2. Stored(h) = [i \in DOMAIN p |-> Shifted(p[i], o)]
      BY <1>1 DEF Stored, Shifted
    <2>3. o \in Nat /\ (h + 1) * MsPerHour = o + MsPerHour
      <3>1. h \in Nat /\ MsPerHour \in Nat
        BY <1>1, HourIsPositive DEF Hour
      <3> HIDE DEF o
      <3>2. \A a, m \in Nat : a * m \in Nat /\ (a + 1) * m = a * m + m
        OBVIOUS
      <3> QED BY <3>1, <3>2 DEF o
    <2> HIDE DEF p, o
    <2>4. DOMAIN p = 1..Len(p) /\ Len(p) \in Nat
      BY <2>1
    <2>5. ASSUME NEW i \in 1..Len(p)
          PROVE  /\ Shifted(p[i], o) \in MarketTick /\ Shifted(p[i], o).time = p[i].time + o
                 /\ p[i].time \in Nat /\ p[i].time < MsPerHour
      <3>1. p[i] \in MarketTick /\ p[i].time < MsPerHour
        BY <2>1, <2>4
      <3>2. p[i].time \in Nat
        BY <3>1 DEF MarketTick
      <3> QED BY <2>3, <3>1, <3>2, ShiftType
    <2>6. Stored(h) \in Seq(MarketTick) /\ Len(Stored(h)) = Len(p)
      BY <2>2, <2>4, <2>5
    <2>7. ASSUME NEW i \in 1..Len(Stored(h))
          PROVE  o <= Stored(h)[i].time /\ Stored(h)[i].time < o + MsPerHour
      <3>1. Stored(h)[i].time = p[i].time + o /\ p[i].time \in Nat /\ p[i].time < MsPerHour
        BY <2>2, <2>4, <2>5, <2>6
      <3> QED BY <2>3, <3>1, HourIsPositive
    <2> QED BY <2>3, <2>6, <2>7 DEF o
  <1>2. CASE h \notin Hour
    <2>1. Stored(h) = <<>>
      BY <1>2 DEF Stored
    <2> QED BY <2>1
  <1> QED BY <1>1, <1>2

IsBuffer(b) == b = [ticks |-> b.ticks, chunks |-> b.chunks, prev |-> b.prev,
                    has_prev |-> b.has_prev, spreads |-> b.spreads, ok |-> b.ok]

LEMMA ProcessIsBuffer ==
    ASSUME NEW b, NEW start
    PROVE  IsBuffer(Process(b, start))
  <1> DEFINE p == Rounds(b)[Len(b.ticks)]
             chunks == Chunked(p, start, b.chunks)
             prev == IF p.ok THEN p.ticks[Len(p.ticks)] ELSE b.prev
             has_prev == p.ok \/ b.has_prev
  <1>1. Process(b, start) = [ticks |-> p.ticks, chunks |-> chunks, prev |-> prev, has_prev |-> has_prev,
                             spreads |-> <<p.prev_spread, p.prev2_spread>>, ok |-> p.ok]
    BY DEF Process
  <1> HIDE DEF p, chunks, prev, has_prev
  <1> QED BY <1>1 DEF IsBuffer

\* The buffer before and after the reload of an hour.
LEMMA BeforeFetchType ==
    ASSUME TickTypeOK, NEW h \in Hour
    PROVE  /\ BufferType(Buffer) /\ Buffer.ok = TRUE /\ Buffer.prev = m_prev_tick
           /\ BufferType(BeforeFetch(h)) /\ BeforeFetch(h).ok \in BOOLEAN
           /\ BufferType(Fetched(h)) /\ IsBuffer(Fetched(h)) /\ Fetched(h).ticks = Stored(h)
           /\ Fetched(h).prev = BeforeFetch(h).prev /\ Fetched(h).has_prev = BeforeFetch(h).has_prev
           /\ Fetched(h).spreads = BeforeFetch(h).spreads
  <1>1. BufferType(Buffer) /\ Buffer.ok = TRUE /\ Buffer.prev = m_prev_tick
    BY DEF TickTypeOK, BufferType, Buffer
  <1>2. h - 1 \in Int /\ h \in Int /\ Stored(h - 1) \in Seq(MarketTick) /\ Stored(h) \in Seq(MarketTick)
    BY StoredType, TickTimeAssumption DEF TickTypeOK, Hour
  <1> DEFINE b == [Buffer EXCEPT !.ticks = Stored(h - 1), !.has_prev = FALSE]
  <1>3. BufferType(b) /\ b.ok = TRUE
    BY <1>1, <1>2 DEF BufferType, Buffer
  <1>4. BufferType(Reloaded(h)) /\ Reloaded(h).ok \in BOOLEAN
    <2>1. CASE b.ticks = <<>>
      BY <1>3, <2>1 DEF Reloaded
    <2>2. CASE b.ticks # <<>>
      <3>1. Reloaded(h) = Process(b, (h - 1) * MsPerHour)
        BY <2>2 DEF Reloaded
      <3>2. mode \in BidAskModel
        BY DEF TickTypeOK
      <3> HIDE DEF b
      <3> QED BY <1>3, <2>2, <3>1, <3>2, ProcessIs DEF Processed
    <2> QED BY <2>1, <2>2
  <1>5. BufferType(BeforeFetch(h)) /\ BeforeFetch(h).ok \in BOOLEAN
    BY <1>1, <1>4 DEF BeforeFetch
  <1> DEFINE c == BeforeFetch(h)
  <1>6. IsBuffer(c)
    <2>1. IsBuffer(Buffer)
      BY DEF IsBuffer, Buffer
    <2>2. IsBuffer(b)
      <3> DEFINE u == Buffer
      <3>1. b = [u EXCEPT !.ticks = Stored(h - 1), !.has_prev = FALSE]
        OBVIOUS
      <3>2. IsBuffer(u)
        BY <2>1
      <3> HIDE DEF b, u
      <3> QED BY <3>1, <3>2 DEF IsBuffer
    <2>3. IsBuffer(Reloaded(h))
      BY <2>2, ProcessIsBuffer DEF Reloaded
    <2> QED BY <2>1, <2>3 DEF BeforeFetch
  <1>7. Fetched(h) = [c EXCEPT !.ticks = Stored(h)]
    BY DEF Fetched
  <1> HIDE DEF c
  <1>9. IsBuffer(Fetched(h))
    <2> DEFINE d == Fetched(h)
    <2>1. d = [ticks |-> Stored(h), chunks |-> c.chunks, prev |-> c.prev,
               has_prev |-> c.has_prev, spreads |-> c.spreads, ok |-> c.ok]
      BY <1>6, <1>7 DEF IsBuffer
    <2> HIDE DEF d
    <2>2. IsBuffer(d)
      BY <2>1 DEF IsBuffer
    <2> QED BY <2>2 DEF d
  <1>8. /\ Fetched(h).ticks = Stored(h) /\ Fetched(h).prev = c.prev
        /\ Fetched(h).has_prev = c.has_prev /\ Fetched(h).spreads = c.spreads
    BY <1>6, <1>7 DEF IsBuffer
  <1> QED BY <1>1, <1>2, <1>5, <1>8, <1>9 DEF c, BufferType

-----------------------------------------------------------------------------
(* append_ticks: the loop over the batch                                   *)

Appending == [ticks : Seq(MarketTick), start : Int, written : Seq(MarketTick), ok : BOOLEAN]

\* Every tick so far, written or buffered.
Path(s) == s.written \o s.ticks

\* q continues p by one tick at time t.
Continued(p, q, t) ==
    /\ Len(q) = Len(p) + 1 /\ q[Len(q)].time = t
    /\ \A k \in 1..Len(p) : q[k].time = p[k].time

LEMMA PathType ==
    ASSUME NEW w \in Seq(MarketTick), NEW t \in Seq(MarketTick)
    PROVE  /\ w \o t \in Seq(MarketTick) /\ Len(w \o t) = Len(w) + Len(t)
           /\ \A k \in 1..Len(w) : (w \o t)[k] = w[k]
           /\ \A k \in 1..Len(t) : (w \o t)[Len(w) + k] = t[k]
  OBVIOUS

LEMMA ContinuedAfter ==
    ASSUME NEW w \in Seq(MarketTick), NEW p \in Seq(MarketTick), NEW q \in Seq(MarketTick), NEW t,
           Continued(p, q, t)
    PROVE  Continued(w \o p, w \o q, t)
  <1> DEFINE u == w \o p
             v == w \o q
             n == Len(w)
  <1>1. Len(u) = n + Len(p) /\ Len(v) = n + Len(q) /\ n \in Nat /\ Len(p) \in Nat /\ Len(q) \in Nat
    OBVIOUS
  <1>2. \A k \in 1..n : u[k] = w[k] /\ v[k] = w[k]
    BY PathType
  <1>3. (\A k \in 1..Len(p) : u[n + k] = p[k]) /\ (\A k \in 1..Len(q) : v[n + k] = q[k])
    BY PathType
  <1> HIDE DEF u, v, n
  <1>4. Len(q) = Len(p) + 1 /\ q[Len(q)].time = t /\ \A k \in 1..Len(p) : q[k].time = p[k].time
    BY DEF Continued
  <1>5. Len(v) = Len(u) + 1 /\ v[Len(v)].time = t
    <2>1. Len(q) \in 1..Len(q)
      BY <1>1, <1>4
    <2> QED BY <1>1, <1>3, <1>4, <2>1
  <1>6. ASSUME NEW k \in 1..Len(u) PROVE v[k].time = u[k].time
    <2>1. CASE k <= n
      BY <1>1, <1>2, <2>1
    <2>2. CASE ~(k <= n)
      <3>1. k - n \in 1..Len(p) /\ k - n \in 1..Len(q) /\ k = n + (k - n)
        BY <1>1, <1>4, <2>2
      <3> QED BY <1>3, <1>4, <3>1
    <2> QED BY <2>1, <2>2
  <1> QED BY <1>5, <1>6 DEF Continued, u, v

SameTimes(p, q) == Len(q) = Len(p) /\ \A k \in 1..Len(p) : q[k].time = p[k].time

LEMMA MarkedType ==
    ASSUME NEW ticks \in Seq(MarketTick), NEW tick \in MarketTick, NEW calculate \in BOOLEAN,
           NEW m, m = Marked(ticks, tick, calculate)
    PROVE  m \in Seq(MarketTick) /\ SameTimes(ticks, m)
  <1>1. CASE calculate /\ ticks # <<>> /\ tick.last # ticks[Len(ticks)].last
    <2> DEFINE n == Len(ticks)
               x == [ticks[n] EXCEPT !.upd = TRUE]
    <2>1. m = [ticks EXCEPT ![n] = x]
      BY <1>1 DEF Marked
    <2>2. n \in 1..n /\ n \in Nat /\ ticks[n] \in MarketTick
      BY <1>1
    <2>3. x \in MarketTick /\ x.time = ticks[n].time
      BY <2>2 DEF MarketTick
    <2> HIDE DEF x
    <2>4. m \in Seq(MarketTick) /\ Len(m) = n
      BY <2>1, <2>2, <2>3
    <2>5. \A k \in 1..n : m[k].time = ticks[k].time
      BY <2>1, <2>2, <2>3
    <2> QED BY <2>4, <2>5 DEF SameTimes
  <1>2. CASE ~(calculate /\ ticks # <<>> /\ tick.last # ticks[Len(ticks)].last)
    <2>1. m = ticks
      BY <1>2 DEF Marked
    <2> QED BY <2>1 DEF SameTimes
  <1> QED BY <1>1, <1>2

\* A tick is added to the path, or refused because it is not after the last.
AppendIs(s, tick, r) ==
    /\ r \in Appending
    /\ ~s.ok => r = s
    /\ s.ok /\ ~r.ok => Path(r) = Path(s)
    /\ s.ok /\ r.ok => /\ Continued(Path(s), Path(r), tick.time)
                       /\ s.ticks # <<>> => s.ticks[Len(s.ticks)].time < tick.time

LEMMA AppendTickIs ==
    ASSUME NEW s \in Appending, NEW tick \in MarketTick, NEW calculate \in BOOLEAN,
           NEW r, r = AppendTick(s, tick, calculate)
    PROVE  AppendIs(s, tick, r)
  <1> DEFINE m == Marked(s.ticks, tick, calculate)
             pushed == Append(m, tick)
             new == start_of_hour(tick.time)
             start == IF pushed[1].time < s.start THEN new ELSE s.start
  <1>1. s.ticks \in Seq(MarketTick) /\ s.written \in Seq(MarketTick) /\ s.start \in Int /\ s.ok \in BOOLEAN
    BY DEF Appending
  <1>2. m \in Seq(MarketTick) /\ SameTimes(s.ticks, m)
    BY <1>1, MarkedType
  <1> HIDE DEF m
  <1>3. pushed \in Seq(MarketTick) /\ Continued(s.ticks, pushed, tick.time)
    <2>1. /\ pushed \in Seq(MarketTick) /\ Len(pushed) = Len(m) + 1 /\ pushed[Len(m) + 1] = tick
          /\ \A k \in 1..Len(m) : pushed[k] = m[k]
      BY <1>2
    <2> HIDE DEF pushed
    <2> QED BY <1>2, <2>1 DEF Continued, SameTimes
  <1>4. tick.time \in Nat /\ new \in Int
    <2>1. tick.time \in Nat
      BY DEF MarketTick
    <2>2. tick.time % MsPerHour \in Int
      BY <2>1, HourIsPositive
    <2> QED BY <2>1, <2>2 DEF start_of_hour
  <1> HIDE DEF pushed, new
  <1>5. start \in Int
    BY <1>1, <1>4
  <1>6. r = CASE ~s.ok -> s
          [] s.ok /\ s.ticks # <<>> /\ tick.time <= s.ticks[Len(s.ticks)].time ->
                 [s EXCEPT !.ok = FALSE]
          [] OTHER ->
                 IF tick.time >= start + MsPerHour
                 THEN [ticks |-> <<>>, start |-> new, written |-> s.written \o pushed, ok |-> TRUE]
                 ELSE [s EXCEPT !.ticks = pushed, !.start = start]
    BY DEF AppendTick, pushed, m, new
  <1> HIDE DEF start
  <1>7. CASE ~s.ok
    BY <1>6, <1>7 DEF AppendIs
  <1>8. CASE s.ok /\ s.ticks # <<>> /\ tick.time <= s.ticks[Len(s.ticks)].time
    <2>1. r = [s EXCEPT !.ok = FALSE]
      BY <1>6, <1>8
    <2>2. r \in Appending /\ ~r.ok /\ r.ticks = s.ticks /\ r.written = s.written
      BY <2>1 DEF Appending
    <2> QED BY <1>8, <2>2 DEF AppendIs, Path
  <1>9. CASE s.ok /\ ~(s.ticks # <<>> /\ tick.time <= s.ticks[Len(s.ticks)].time)
    <2>1. s.ticks # <<>> => s.ticks[Len(s.ticks)].time < tick.time
      <3>1. s.ticks # <<>> => s.ticks[Len(s.ticks)] \in MarketTick
        BY <1>1
      <3>2. s.ticks # <<>> => s.ticks[Len(s.ticks)].time \in Nat
        BY <3>1 DEF MarketTick
      <3> QED BY <1>4, <1>9, <3>2
    <2>2. Continued(Path(s), s.written \o pushed, tick.time)
      BY <1>1, <1>3, ContinuedAfter DEF Path
    <2>3. CASE tick.time >= start + MsPerHour
      <3>1. r = [ticks |-> <<>>, start |-> new, written |-> s.written \o pushed, ok |-> TRUE]
        BY <1>6, <1>9, <2>3
      <3>2. s.written \o pushed \in Seq(MarketTick)
        BY <1>1, <1>3
      <3>3. r \in Appending /\ r.ok
        BY <1>4, <3>1, <3>2 DEF Appending
      <3>4. Path(r) = s.written \o pushed
        BY <3>1, <3>2 DEF Path
      <3> QED BY <1>9, <2>1, <2>2, <3>3, <3>4 DEF AppendIs
    <2>4. CASE ~(tick.time >= start + MsPerHour)
      <3>1. r = [s EXCEPT !.ticks = pushed, !.start = start]
        BY <1>6, <1>9, <2>4
      <3>2. r \in Appending /\ r.ok = s.ok /\ r.ticks = pushed /\ r.written = s.written
        BY <1>3, <1>5, <3>1 DEF Appending
      <3> QED BY <1>9, <2>1, <2>2, <3>2 DEF AppendIs, Path
    <2> QED BY <2>3, <2>4
  <1> QED BY <1>7, <1>8, <1>9

LEMMA AppendRoundsAre ==
    ASSUME TickTypeOK, NEW batch \in Seq(MarketTick), NEW calculate \in BOOLEAN,
           NEW n, n = Len(batch)
    PROVE  /\ AppendRounds(batch, calculate) \in [0..n -> Appending]
           /\ AppendRounds(batch, calculate)[0]
                 = [ticks |-> m_ticks, start |-> m_start, written |-> written, ok |-> TRUE]
           /\ \A i \in 1..n : AppendRounds(batch, calculate)[i]
                 = AppendTick(AppendRounds(batch, calculate)[i - 1], batch[i], calculate)
  <1> DEFINE c == [ticks |-> m_ticks, start |-> m_start, written |-> written, ok |-> TRUE]
             step == [x \in Appending \X (1..n) |-> AppendTick(x[1], batch[x[2]], calculate)]
             Body(run) == [i \in 0..Len(batch) |->
                             IF i = 0 THEN [ticks |-> m_ticks, start |-> m_start, written |-> written, ok |-> TRUE]
                             ELSE AppendTick(run[i - 1], batch[i], calculate)]
  <1>1. n \in Nat /\ c \in Appending
    BY DEF TickTypeOK, Appending
  <1>2. ASSUME NEW s \in Appending, NEW i \in 1..n
        PROVE  AppendTick(s, batch[i], calculate) \in Appending
    <2>1. batch[i] \in MarketTick
      OBVIOUS
    <2> QED BY <2>1, AppendTickIs DEF AppendIs
  <1>3. step \in [Appending \X (1..n) -> Appending]
    BY <1>2
  <1>4. \A s \in Appending, i \in 1..n : step[<<s, i>>] = AppendTick(s, batch[i], calculate)
    OBVIOUS
  <1> HIDE DEF c, step
  <1>5. PICK f \in [0..n -> Appending] : f[0] = c /\ \A i \in 1..n : f[i] = step[<<f[i - 1], i>>]
    <2>1. IsStep(step, n, Appending)
      BY <1>3 DEF IsStep
    <2>2. \E f : Iterates(f, n, Appending, c, step)
      BY <1>1, <2>1, RecursiveFunction
    <2> QED BY <2>2 DEF Iterates
  <1>6. ASSUME NEW i \in 1..n PROVE f[i] = AppendTick(f[i - 1], batch[i], calculate)
    <2>1. i - 1 \in 0..n /\ f[i - 1] \in Appending
      BY <1>1, <1>5
    <2> QED BY <1>4, <1>5, <2>1
  <1>7. f = Body(f)
    BY <1>1, <1>5, <1>6 DEF c
  <1>8. AppendRounds(batch, calculate) = CHOOSE run : run = Body(run)
    BY DEF AppendRounds
  <1>9. AppendRounds(batch, calculate) = Body(AppendRounds(batch, calculate))
    BY <1>7, <1>8
  <1> DEFINE run == AppendRounds(batch, calculate)
  <1>10. run = Body(run)
    BY <1>9
  <1> HIDE DEF run
  <1>11. run[0] = c /\ \A i \in 1..n : run[i] = AppendTick(run[i - 1], batch[i], calculate)
    <2>1. \A i \in 0..n :
             run[i] = IF i = 0 THEN [ticks |-> m_ticks, start |-> m_start, written |-> written, ok |-> TRUE]
                      ELSE AppendTick(run[i - 1], batch[i], calculate)
      BY <1>10
    <2>2. 0 \in 0..n /\ \A i \in 1..n : i \in 0..n /\ i # 0
      BY <1>1
    <2>3. run[0] = c
      BY <2>1, <2>2 DEF c
    <2>4. ASSUME NEW i \in 1..n PROVE run[i] = AppendTick(run[i - 1], batch[i], calculate)
      BY <2>1, <2>2
    <2> QED BY <2>3, <2>4
  <1> DEFINE T == {i \in 0..n : run[i] \in Appending}
  <1>12. 0 \in T
    BY <1>1, <1>11
  <1>13. ASSUME NEW i \in 1..n, i - 1 \in T PROVE i \in T
    BY <1>2, <1>11, <1>13
  <1> HIDE DEF T
  <1>14. 0..n \subseteq T
    BY <1>1, <1>12, <1>13, BoundedInduction
  <1>15. \A i \in 0..n : run[i] \in Appending
    BY <1>14 DEF T
  <1>16. run \in [0..n -> Appending]
    BY <1>10, <1>15
  <1> QED BY <1>11, <1>16 DEF run, c

\* The path after j ticks of the batch: what there was before, the j ticks at
\* their times, and the first of them after the last that was buffered.
Added(batch, j, p) ==
    /\ Len(p) = Len(written \o m_ticks) + j
    /\ \A k \in 1..Len(written \o m_ticks) : p[k].time = (written \o m_ticks)[k].time
    /\ \A k \in 1..j : p[Len(written \o m_ticks) + k].time = batch[k].time
    /\ j > 0 /\ m_ticks # <<>> => m_ticks[Len(m_ticks)].time < batch[1].time

AddedBy(batch, i, s) ==
    \E j \in 0..i : /\ Added(batch, j, Path(s))
                    /\ s.ok => j = i
                    /\ s.ok /\ i = 0 => s.ticks = m_ticks

LEMMA AppendTickAdds ==
    ASSUME TickTypeOK, NEW batch \in Seq(MarketTick), NEW i \in 1..Len(batch), NEW s \in Appending,
           AddedBy(batch, i - 1, s), NEW r, AppendIs(s, batch[i], r)
    PROVE  AddedBy(batch, i, r)
  <1> DEFINE B == written \o m_ticks
             L == Len(B)
             p == Path(s)
             q == Path(r)
  <1>1. B \in Seq(MarketTick) /\ L \in Nat /\ i - 1 \in Nat /\ i \in Nat
    BY DEF TickTypeOK
  <1>2. PICK j \in 0..(i - 1) : /\ Added(batch, j, p)
                                /\ s.ok => j = i - 1
                                /\ s.ok /\ i - 1 = 0 => s.ticks = m_ticks
    BY DEF AddedBy
  <1>3. j \in 0..i /\ i \in 0..i /\ i # 0
    BY <1>1
  <1>4. CASE ~s.ok
    <2>1. r = s
      BY <1>4 DEF AppendIs
    <2> QED BY <1>2, <1>3, <1>4, <2>1 DEF AddedBy
  <1>5. CASE s.ok /\ ~r.ok
    <2>1. q = p
      BY <1>5 DEF AppendIs
    <2> HIDE DEF p, q
    <2>2. Added(batch, j, q)
      BY <1>2, <2>1
    <2> QED BY <1>3, <1>5, <2>2 DEF AddedBy, q
  <1>6. CASE s.ok /\ r.ok
    <2>1. Continued(p, q, batch[i].time) /\ (s.ticks # <<>> => s.ticks[Len(s.ticks)].time < batch[i].time)
      BY <1>6 DEF AppendIs
    <2>2. j = i - 1 /\ (i = 1 => s.ticks = m_ticks)
      BY <1>2, <1>6
    <2> HIDE DEF p, q
    <2>3. /\ Len(p) = L + (i - 1) /\ \A k \in 1..L : p[k].time = B[k].time
          /\ \A k \in 1..(i - 1) : p[L + k].time = batch[k].time
          /\ i > 1 /\ m_ticks # <<>> => m_ticks[Len(m_ticks)].time < batch[1].time
      BY <1>1, <1>2, <2>2 DEF Added
    <2> HIDE DEF B, L
    <2>4. Len(q) = L + i /\ q[L + i].time = batch[i].time
          /\ \A k \in 1..(L + (i - 1)) : q[k].time = p[k].time
      BY <1>1, <2>1, <2>3 DEF Continued
    <2>5. \A k \in 1..L : q[k].time = B[k].time
      BY <1>1, <2>3, <2>4
    <2>6. ASSUME NEW k \in 1..i PROVE q[L + k].time = batch[k].time
      <3>1. CASE k = i
        BY <2>4, <3>1
      <3>2. CASE k # i
        <4>1. k \in 1..(i - 1) /\ L + k \in 1..(L + (i - 1))
          BY <1>1, <3>2
        <4> QED BY <2>3, <2>4, <4>1
      <3> QED BY <3>1, <3>2
    <2>7. m_ticks # <<>> => m_ticks[Len(m_ticks)].time < batch[1].time
      <3>1. CASE i = 1
        BY <2>1, <2>2, <3>1
      <3>2. CASE i # 1
        BY <1>1, <2>3, <3>2
      <3> QED BY <3>1, <3>2
    <2>8. Added(batch, i, q)
      BY <2>4, <2>5, <2>6, <2>7 DEF Added, B, L
    <2> QED BY <1>3, <2>8 DEF AddedBy, q
  <1> QED BY <1>4, <1>5, <1>6

LEMMA AppendedIs ==
    ASSUME TickTypeOK, NEW batch \in Seq(MarketTick), NEW calculate \in BOOLEAN,
           NEW s, s = Appended(batch, calculate)
    PROVE  s \in Appending /\ AddedBy(batch, Len(batch), s)
  <1> DEFINE n == Len(batch)
             run == AppendRounds(batch, calculate)
             T == {i \in 0..n : AddedBy(batch, i, run[i])}
  <1>1. /\ n \in Nat /\ run \in [0..n -> Appending]
        /\ run[0] = [ticks |-> m_ticks, start |-> m_start, written |-> written, ok |-> TRUE]
        /\ \A i \in 1..n : run[i] = AppendTick(run[i - 1], batch[i], calculate)
    BY AppendRoundsAre
  <1>2. s = run[n]
    BY DEF Appended
  <1> HIDE DEF run
  <1>3. 0 \in T
    <2>1. run[0].ticks = m_ticks /\ Path(run[0]) = written \o m_ticks
      BY <1>1 DEF Path
    <2>2. Len(written \o m_ticks) \in Nat
      BY DEF TickTypeOK
    <2>3. Added(batch, 0, Path(run[0]))
      BY <2>1, <2>2 DEF Added
    <2>4. AddedBy(batch, 0, run[0])
      <3>1. 0 \in 0..0
        OBVIOUS
      <3> QED BY <2>1, <2>3, <3>1 DEF AddedBy
    <2>5. 0 \in 0..n
      BY <1>1
    <2> QED BY <2>4, <2>5
  <1>4. ASSUME NEW i \in 1..n, i - 1 \in T PROVE i \in T
    <2>1. run[i - 1] \in Appending /\ AddedBy(batch, i - 1, run[i - 1]) /\ batch[i] \in MarketTick
      BY <1>1, <1>4
    <2>2. AppendIs(run[i - 1], batch[i], run[i])
      BY <1>1, <2>1, AppendTickIs
    <2>3. AddedBy(batch, i, run[i])
      BY <2>1, <2>2, AppendTickAdds
    <2> QED BY <2>3
  <1> HIDE DEF T
  <1>5. 0..n \subseteq T
    BY <1>1, <1>3, <1>4, BoundedInduction
  <1>6. n \in T
    BY <1>1, <1>5
  <1> QED BY <1>1, <1>2, <1>6 DEF T

-----------------------------------------------------------------------------
(* The types                                                               *)

LEMMA BecomesType ==
    ASSUME NEW b, BufferType(b), Becomes(b)
    PROVE  /\ m_ticks' \in Seq(MarketTick) /\ m_prev_tick' \in MarketTick
           /\ m_has_prev_data' \in BOOLEAN /\ spreads' \in Nat \X Nat
  BY DEF BufferType, Becomes

LEMMA HourTimes ==
    ASSUME NEW h \in Hour
    PROVE  /\ h \in Nat /\ h * MsPerHour \in Int /\ (h + 1) * MsPerHour \in Int
           /\ (h + 1) * MsPerHour = h * MsPerHour + MsPerHour
  <1>1. h \in Nat /\ MsPerHour \in Nat
    BY HourIsPositive, TickTimeAssumption DEF Hour
  <1>2. \A a, m \in Nat : a * m \in Int /\ (a + 1) * m \in Int /\ (a + 1) * m = a * m + m
    OBVIOUS
  <1> QED BY <1>1, <1>2

\* What a fetch leaves: the processed hour.
LEMMA FetchTicksIs ==
    ASSUME TickTypeOK, NEW h \in Hour, FetchTicks(h)
    PROVE  \E b : /\ Processed(Fetched(h), b) /\ BufferType(b) /\ Becomes(b)
                  /\ loaded' = (IF b.ok THEN h ELSE 0) /\ threw' = (threw \/ ~b.ok)
  <1> DEFINE b == Process(Fetched(h), h * MsPerHour)
  <1>1. Becomes(b) /\ loaded' = (IF b.ok THEN h ELSE 0) /\ threw' = (threw \/ ~b.ok)
    BY DEF FetchTicks
  <1>2. Fetched(h).ticks # <<>> /\ mode \in BidAskModel
    BY BeforeFetchType DEF FetchTicks, TickTypeOK
  <1>3. Processed(Fetched(h), b) /\ BufferType(b)
    BY <1>2, BeforeFetchType, ProcessIs
  <1> QED BY <1>1, <1>3

\* What an appended batch leaves: the processed ticks of the path.
LEMMA AppendTicksIs ==
    ASSUME TickTypeOK, NEW batch \in Seq(MarketTick), NEW calculate \in BOOLEAN,
           AppendTicks(batch, calculate)
    PROVE  \E s, c, b :
               /\ s \in Appending /\ s.ok /\ s.ticks # <<>> /\ AddedBy(batch, Len(batch), s) /\ c.ticks = s.ticks
               /\ Processed(c, b) /\ BufferType(b) /\ Becomes(b)
               /\ m_start' = s.start /\ written' = s.written
               /\ loaded' = (IF b.ok THEN loaded ELSE 0) /\ threw' = (threw \/ ~b.ok)
  <1> DEFINE s == Appended(batch, calculate)
             u == Buffer
             c == [u EXCEPT !.ticks = s.ticks]
             b == Process(c, s.start)
  <1>1. /\ s.ok /\ s.ticks # <<>> /\ Becomes(b)
        /\ threw' = (threw \/ ~b.ok) /\ loaded' = (IF b.ok THEN loaded ELSE 0)
        /\ m_start' = s.start /\ written' = s.written
    BY DEF AppendTicks
  <1>2. s \in Appending /\ AddedBy(batch, Len(batch), s)
    BY AppendedIs
  <1>3. BufferType(u) /\ IsBuffer(u)
    BY DEF TickTypeOK, BufferType, Buffer, IsBuffer
  <1> HIDE DEF s, u
  <1>4. BufferType(c) /\ c.ticks = s.ticks
    BY <1>2, <1>3 DEF BufferType, IsBuffer, Appending
  <1> HIDE DEF c
  <1>5. mode \in BidAskModel
    BY DEF TickTypeOK
  <1>6. Processed(c, b) /\ BufferType(b)
    BY <1>1, <1>4, <1>5, ProcessIs
  <1> HIDE DEF b
  <1> QED BY <1>1, <1>2, <1>4, <1>6

LEMMA TypeStep ==
    ASSUME TickTypeOK, [TickNext]_tickVars
    PROVE  TickTypeOK'
  <1>1. ASSUME NEW h \in Hour, FetchTicks(h) PROVE TickTypeOK'
    <2>1. PICK b : BufferType(b) /\ Becomes(b) /\ loaded' = (IF b.ok THEN h ELSE 0) /\ threw' = (threw \/ ~b.ok)
      BY <1>1, FetchTicksIs
    <2>2. loaded' \in 0..MaxHour /\ threw' \in BOOLEAN
      BY <2>1, TickTimeAssumption DEF TickTypeOK, Hour
    <2> QED BY <1>1, <2>1, <2>2, BecomesType, HourTimes DEF TickTypeOK, FetchTicks, KeepsClient
  <1>2. ASSUME NEW h \in Hour, FetchEmpty(h) PROVE TickTypeOK'
    <2> DEFINE u == Fetched(h)
               b == [u EXCEPT !.chunks = [f \in 0..SecPerHour |-> 0], !.has_prev = FALSE]
    <2>1. BufferType(u)
      BY BeforeFetchType
    <2>2. Becomes(b)
      BY <1>2 DEF FetchEmpty
    <2> HIDE DEF u
    <2>3. b.ticks = u.ticks /\ b.prev = u.prev /\ b.spreads = u.spreads
          /\ b.has_prev \in {FALSE, u.has_prev}
      OBVIOUS
    <2> HIDE DEF b
    <2>4. BufferType(b)
      BY <2>1, <2>3 DEF BufferType
    <2>5. loaded' \in 0..MaxHour
      BY <1>2, TickTimeAssumption DEF FetchEmpty, Hour
    <2> QED BY <1>2, <2>2, <2>4, <2>5, BecomesType, HourTimes DEF TickTypeOK, FetchEmpty, KeepsClient
  <1>3. ASSUME NEW h \in Hour, FetchReloadThrows(h) PROVE TickTypeOK'
    <2>1. BufferType(BeforeFetch(h)) /\ Becomes(BeforeFetch(h))
      BY <1>3, BeforeFetchType DEF FetchReloadThrows
    <2> QED BY <1>3, <2>1, BecomesType, TickTimeAssumption DEF TickTypeOK, FetchReloadThrows, KeepsClient
  <1>4. ASSUME NEW h \in Hour, FetchSourceFails(h) PROVE TickTypeOK'
    <2>1. \E b : BufferType(b) /\ Becomes(b)
      <3> DEFINE u == Buffer
                 v == Fetched(h)
      <3>1. BufferType(u) /\ BufferType(v)
        BY BeforeFetchType
      <3>2. \/ Becomes([u EXCEPT !.ticks = <<>>])
            \/ Becomes([u EXCEPT !.ticks = <<>>, !.has_prev = FALSE])
            \/ Becomes([v EXCEPT !.ticks = <<>>])
        BY <1>4 DEF FetchSourceFails
      <3> HIDE DEF u, v
      <3>3. ASSUME NEW c, BufferType(c), NEW b,
                   \/ b = [c EXCEPT !.ticks = <<>>]
                   \/ b = [c EXCEPT !.ticks = <<>>, !.has_prev = FALSE]
            PROVE  BufferType(b)
        <4>1. /\ b.ticks \in {<<>>, c.ticks} /\ b.has_prev \in {FALSE, c.has_prev}
              /\ b.prev = c.prev /\ b.spreads = c.spreads
          <5>1. CASE b = [c EXCEPT !.ticks = <<>>]
            <6> DEFINE t == <<>>
            <6>1. b = [c EXCEPT !.ticks = t]
              BY <5>1
            <6> HIDE DEF t
            <6>2. b.ticks \in {t, c.ticks} /\ b.has_prev = c.has_prev /\ b.prev = c.prev /\ b.spreads = c.spreads
              BY <6>1
            <6> QED BY <6>2 DEF t
          <5>2. CASE b = [c EXCEPT !.ticks = <<>>, !.has_prev = FALSE]
            <6> DEFINE t == <<>>
            <6>1. b = [c EXCEPT !.ticks = t, !.has_prev = FALSE]
              BY <5>2
            <6> HIDE DEF t
            <6>2. b.ticks \in {t, c.ticks} /\ b.has_prev \in {FALSE, c.has_prev}
                  /\ b.prev = c.prev /\ b.spreads = c.spreads
              BY <6>1
            <6> QED BY <6>2 DEF t
          <5> QED BY <3>3, <5>1, <5>2
        <4>2. <<>> \in Seq(MarketTick)
          OBVIOUS
        <4> QED BY <3>3, <4>1, <4>2 DEF BufferType
      <3> QED BY <3>1, <3>2, <3>3
    <2> QED BY <1>4, <2>1, BecomesType, TickTimeAssumption DEF TickTypeOK, FetchSourceFails, KeepsClient
  <1>5. ASSUME NEW s, NEW e, SetTickSpan(s, e) PROVE TickTypeOK'
    BY <1>5 DEF SetTickSpan, TickTypeOK
  <1>6. ASSUME NEW batch \in Seq(MarketTick), NEW calculate \in BOOLEAN, AppendTicks(batch, calculate)
        PROVE  TickTypeOK'
    <2>1. PICK s, c, b :
              /\ s \in Appending /\ BufferType(b) /\ Becomes(b)
              /\ m_start' = s.start /\ written' = s.written
              /\ loaded' = (IF b.ok THEN loaded ELSE 0) /\ threw' = (threw \/ ~b.ok)
      BY <1>6, AppendTicksIs
    <2>2. loaded' \in 0..MaxHour /\ threw' \in BOOLEAN /\ m_start' \in Int /\ written' \in Seq(MarketTick)
      BY <2>1, TickTimeAssumption DEF TickTypeOK, Appending
    <2> QED BY <1>6, <2>1, <2>2, BecomesType DEF TickTypeOK, AppendTicks
  <1>7. ASSUME NEW batch \in Seq(MarketTick), NEW calculate \in BOOLEAN, AppendRefused(batch, calculate)
        PROVE  TickTypeOK'
    <2> DEFINE s == Appended(batch, calculate)
    <2>1. s \in Appending /\ m_ticks' = s.ticks /\ m_start' = s.start /\ written' = s.written
      BY <1>7, AppendedIs DEF AppendRefused
    <2> HIDE DEF s
    <2>2. m_ticks' \in Seq(MarketTick) /\ m_start' \in Int /\ written' \in Seq(MarketTick)
      BY <2>1 DEF Appending
    <2> QED BY <1>7, <2>2, TickTimeAssumption DEF TickTypeOK, AppendRefused
  <1>8. CASE UNCHANGED tickVars
    BY <1>8 DEF tickVars, TickTypeOK
  <1> QED BY <1>1, <1>2, <1>3, <1>4, <1>5, <1>6, <1>7, <1>8, LiveAssumption DEF TickNext

LEMMA TypeInit ==
    ASSUME TickInit
    PROVE  TickTypeOK
  <1>1. m_ticks \in Seq(MarketTick) /\ written \in Seq(MarketTick)
    BY DEF TickInit
  <1>2. loaded \in 0..MaxHour
    BY TickTimeAssumption DEF TickInit
  <1>3. m_start \in Int /\ m_end \in Int /\ spreads \in Nat \X Nat
    BY DEF TickInit
  <1> QED BY <1>1, <1>2, <1>3, NoTickType DEF TickInit, TickTypeOK

\* Every variable of the buffer keeps its type.
THEOREM TickTypeOKHolds == TickSpec => []TickTypeOK
  BY TypeInit, TypeStep, PTL DEF TickSpec

-----------------------------------------------------------------------------
(* The invariants of the buffer                                            *)

LEMMA CarriedStep ==
    ASSUME TickTypeOK, CarriedTickIsAdjacent, [TickNext]_tickVars
    PROVE  CarriedTickIsAdjacent'
  <1>1. ASSUME NEW h \in Hour, FetchTicks(h) PROVE CarriedTickIsAdjacent'
    <2>1. PICK b : /\ Processed(Fetched(h), b) /\ Becomes(b)
                   /\ loaded' = (IF b.ok THEN h ELSE 0) /\ threw' = (threw \/ ~b.ok)
      BY <1>1, FetchTicksIs
    <2> DEFINE n == Len(Stored(h))
    <2>2. Fetched(h).ticks = Stored(h)
      BY BeforeFetchType
    <2>3. b.ticks \in Seq(MarketTick) /\ b.ticks # <<>> /\ Len(b.ticks) = n
          /\ (\A i \in 1..n : b.ticks[i].time = Stored(h)[i].time)
          /\ (b.ok => b.prev = b.ticks[n])
      BY <2>1, <2>2 DEF Processed
    <2>4. n \in 1..n
      BY <2>3
    <2>5. source \in [Hour -> Pattern] /\ h \in Int
      BY HourTimes DEF TickTypeOK
    <2>6. h * MsPerHour <= Stored(h)[n].time /\ Stored(h)[n].time < (h + 1) * MsPerHour
      BY <2>4, <2>5, StoredType
    <2>7. b.ok => h * MsPerHour <= b.prev.time /\ b.prev.time < (h + 1) * MsPerHour
      BY <2>3, <2>4, <2>6
    <2>8. m_prev_tick' = b.prev /\ m_end' = (h + 1) * MsPerHour
      BY <1>1, <2>1 DEF Becomes, FetchTicks
    <2>9. (h + 1) * MsPerHour - MsPerHour = h * MsPerHour
      <3>1. \A a, m, d \in Int : d = a + m => d - m = a
        OBVIOUS
      <3> QED BY <3>1, HourTimes, HourIsPositive
    <2>10. CASE b.ok
      BY <2>7, <2>8, <2>9, <2>10 DEF CarriedTickIsAdjacent, CarriedIsAdjacent
    <2>11. CASE ~b.ok
      BY <2>1, <2>11 DEF CarriedTickIsAdjacent
    <2> QED BY <2>10, <2>11
  <1>2. ASSUME NEW h \in Hour, FetchEmpty(h) PROVE CarriedTickIsAdjacent'
    <2> DEFINE u == Fetched(h)
               b == [u EXCEPT !.chunks = [f \in 0..SecPerHour |-> 0], !.has_prev = FALSE]
    <2>1. m_has_prev_data' = b.has_prev
      BY <1>2 DEF FetchEmpty, Becomes
    <2>2. IsBuffer(u)
      BY BeforeFetchType
    <2> HIDE DEF u
    <2>3. b.has_prev = FALSE
      BY <2>2 DEF IsBuffer
    <2> HIDE DEF b
    <2> QED BY <2>1, <2>3 DEF CarriedTickIsAdjacent, CarriedIsAdjacent
  <1>3. ASSUME NEW h \in Hour, FetchReloadThrows(h) \/ FetchSourceFails(h) PROVE CarriedTickIsAdjacent'
    BY <1>3 DEF CarriedTickIsAdjacent, FetchReloadThrows, FetchSourceFails
  <1>4. ASSUME NEW s, NEW e, SetTickSpan(s, e) PROVE CarriedTickIsAdjacent'
    BY <1>4 DEF SetTickSpan, CarriedTickIsAdjacent, CarriedIsAdjacent
  <1>5. ASSUME NEW batch, NEW calculate, AppendTicks(batch, calculate) \/ AppendRefused(batch, calculate)
        PROVE  CarriedTickIsAdjacent'
    <2>1. appends' = appends + 1 /\ appends \in Nat
      BY <1>5 DEF AppendTicks, AppendRefused, TickTypeOK
    <2> QED BY <2>1 DEF CarriedTickIsAdjacent
  <1>6. CASE UNCHANGED tickVars
    BY <1>6 DEF tickVars, CarriedTickIsAdjacent, CarriedIsAdjacent
  <1> QED BY <1>1, <1>2, <1>3, <1>4, <1>5, <1>6 DEF TickNext

\* The tick carried from hour to hour belongs to the hour that ends where the
\* window ends: an hour is never compared with a tick from before a gap.
THEOREM CarriedTickIsAdjacentHolds == TickSpec => []CarriedTickIsAdjacent
  <1>1. TickInit => CarriedTickIsAdjacent
    BY DEF TickInit, CarriedTickIsAdjacent
  <1> QED BY <1>1, CarriedStep, TickTypeOKHolds, PTL DEF TickSpec

\* Processed ticks have right quotes.
LEMMA QuotesBecome ==
    ASSUME NEW c, NEW b, Processed(c, b), Becomes(b), mode' = mode, loaded' # 0 => b.ok
    PROVE  QuotesHoldThePrice'
  <1>1. m_ticks' = b.ticks /\ DOMAIN b.ticks = 1..Len(c.ticks)
    BY DEF Processed, Becomes
  <1>2. b.ok /\ mode # "NONE" => \A i \in 1..Len(c.ticks) : QuotedRight(b.ticks[i])
    BY DEF Processed
  <1> QED BY <1>1, <1>2 DEF QuotesHoldThePrice, QuotedRight

LEMMA QuotesStep ==
    ASSUME TickTypeOK, QuotesHoldThePrice, [TickNext]_tickVars
    PROVE  QuotesHoldThePrice'
  <1>1. ASSUME NEW h \in Hour, FetchTicks(h) PROVE QuotesHoldThePrice'
    <2>1. PICK b : Processed(Fetched(h), b) /\ Becomes(b) /\ loaded' = (IF b.ok THEN h ELSE 0)
      BY <1>1, FetchTicksIs
    <2>2. mode' = mode
      BY <1>1 DEF FetchTicks, KeepsClient
    <2> QED BY <2>1, <2>2, QuotesBecome
  <1>2. ASSUME NEW h \in Hour, FetchEmpty(h) PROVE QuotesHoldThePrice'
    <2> DEFINE u == Fetched(h)
               b == [u EXCEPT !.chunks = [f \in 0..SecPerHour |-> 0], !.has_prev = FALSE]
    <2>1. m_ticks' = b.ticks /\ u.ticks = Stored(h) /\ Stored(h) = <<>>
      BY <1>2, BeforeFetchType DEF FetchEmpty, Becomes
    <2> HIDE DEF u
    <2>2. b.ticks = u.ticks
      OBVIOUS
    <2>3. m_ticks' = <<>>
      BY <2>1, <2>2
    <2>4. DOMAIN m_ticks' = {}
      BY <2>3
    <2> QED BY <2>4 DEF QuotesHoldThePrice
  <1>3. ASSUME NEW h \in Hour, FetchReloadThrows(h) \/ FetchSourceFails(h) PROVE QuotesHoldThePrice'
    BY <1>3 DEF QuotesHoldThePrice, FetchReloadThrows, FetchSourceFails
  <1>4. ASSUME NEW s, NEW e, SetTickSpan(s, e) PROVE QuotesHoldThePrice'
    BY <1>4 DEF SetTickSpan, QuotesHoldThePrice
  <1>5. ASSUME NEW batch \in Seq(MarketTick), NEW calculate \in BOOLEAN, AppendTicks(batch, calculate)
        PROVE  QuotesHoldThePrice'
    <2>1. PICK c, b : Processed(c, b) /\ Becomes(b) /\ loaded' = (IF b.ok THEN loaded ELSE 0)
      BY <1>5, AppendTicksIs
    <2>2. mode' = mode
      BY <1>5 DEF AppendTicks
    <2> QED BY <2>1, <2>2, QuotesBecome
  <1>6. ASSUME NEW batch, NEW calculate, AppendRefused(batch, calculate)
        PROVE  QuotesHoldThePrice'
    BY <1>6 DEF QuotesHoldThePrice, AppendRefused
  <1>7. CASE UNCHANGED tickVars
    BY <1>7 DEF tickVars, QuotesHoldThePrice
  <1> QED BY <1>1, <1>2, <1>3, <1>4, <1>5, <1>6, <1>7, LiveAssumption DEF TickNext

\* A restored quote is never crossed, and a tick whose price was updated has
\* it as bid or as ask, whatever spread the processor has learnt.
THEOREM QuotesHoldThePriceHolds == TickSpec => []QuotesHoldThePrice
  <1>1. TickInit => QuotesHoldThePrice
    BY DEF TickInit, QuotesHoldThePrice
  <1> QED BY <1>1, QuotesStep, TickTypeOKHolds, PTL DEF TickSpec

-----------------------------------------------------------------------------
(* append_ticks keeps every tick                                           *)

LEMMA BatchStep ==
    ASSUME TickTypeOK, BatchInv, [TickNext]_tickVars
    PROVE  BatchInv'
  <1>1. ASSUME NEW h \in Hour, FetchTicks(h) \/ FetchEmpty(h) \/ FetchReloadThrows(h) \/ FetchSourceFails(h)
        PROVE  BatchInv'
    <2>1. appends = 0 /\ appends' = appends /\ written' = written
      BY <1>1 DEF FetchTicks, FetchEmpty, FetchReloadThrows, FetchSourceFails, KeepsClient
    <2> QED BY <2>1 DEF BatchInv
  <1>2. ASSUME NEW s, NEW e, SetTickSpan(s, e) PROVE BatchInv'
    BY <1>2 DEF SetTickSpan, BatchInv
  <1>3. ASSUME NEW batch \in Seq(MarketTick), NEW calculate \in BOOLEAN, AppendTicks(batch, calculate)
        PROVE  BatchInv'
    <2>1. PICK c, b : Processed(c, b) /\ Becomes(b)
      BY <1>3, AppendTicksIs
    <2>2. m_ticks' # <<>>
      BY <2>1 DEF Processed, Becomes
    <2>3. appends' = appends + 1 /\ appends \in Nat
      BY <1>3 DEF AppendTicks, TickTypeOK
    <2> QED BY <2>2, <2>3 DEF BatchInv
  <1>4. ASSUME NEW batch, NEW calculate, AppendRefused(batch, calculate)
        PROVE  BatchInv'
    <2>1. appends' = appends + 1 /\ appends \in Nat /\ loaded' = 0
      BY <1>4 DEF AppendRefused, TickTypeOK
    <2> QED BY <2>1 DEF BatchInv
  <1>5. CASE UNCHANGED tickVars
    BY <1>5 DEF tickVars, BatchInv
  <1> QED BY <1>1, <1>2, <1>3, <1>4, <1>5, LiveAssumption DEF TickNext

LEMMA SameTimesAfter ==
    ASSUME NEW w \in Seq(MarketTick), NEW p \in Seq(MarketTick), NEW q \in Seq(MarketTick),
           SameTimes(p, q)
    PROVE  SameTimes(w \o p, w \o q)
  <1> DEFINE u == w \o p
             v == w \o q
             n == Len(w)
  <1>1. Len(u) = n + Len(p) /\ Len(v) = n + Len(q) /\ n \in Nat /\ Len(p) \in Nat /\ Len(q) \in Nat
    OBVIOUS
  <1>2. \A k \in 1..n : u[k] = w[k] /\ v[k] = w[k]
    BY PathType
  <1>3. (\A k \in 1..Len(p) : u[n + k] = p[k]) /\ (\A k \in 1..Len(q) : v[n + k] = q[k])
    BY PathType
  <1> HIDE DEF u, v, n
  <1>4. Len(q) = Len(p) /\ \A k \in 1..Len(p) : q[k].time = p[k].time
    BY DEF SameTimes
  <1>5. ASSUME NEW k \in 1..Len(u) PROVE v[k].time = u[k].time
    <2>1. CASE k <= n
      BY <1>1, <1>2, <2>1
    <2>2. CASE ~(k <= n)
      <3>1. k - n \in 1..Len(p) /\ k - n \in 1..Len(q) /\ k = n + (k - n)
        BY <1>1, <1>4, <2>2
      <3> QED BY <1>3, <1>4, <3>1
    <2> QED BY <2>1, <2>2
  <1> QED BY <1>1, <1>4, <1>5 DEF SameTimes, u, v

\* What a batch leaves: the path by j of its ticks, all of them unless it threw.
LEMMA BatchAdds ==
    ASSUME TickTypeOK, BatchInv, NEW batch \in Seq(MarketTick), NEW calculate \in BOOLEAN,
           AppendTicks(batch, calculate) \/ AppendRefused(batch, calculate)
    PROVE  /\ written' \o m_ticks' \in Seq(MarketTick)
           /\ \E j \in 0..Len(batch) :
                 Added(batch, j, written' \o m_ticks') /\ (threw' \/ j = Len(batch))
           /\ m_ticks = <<>> => written = <<>>
  <1>1. m_ticks = <<>> => written = <<>>
    BY DEF AppendTicks, AppendRefused, BatchInv
  <1>2. CASE AppendTicks(batch, calculate)
    <2>1. PICK s, c, b :
              /\ s \in Appending /\ s.ok /\ AddedBy(batch, Len(batch), s) /\ c.ticks = s.ticks
              /\ Processed(c, b) /\ Becomes(b) /\ written' = s.written
      BY <1>2, AppendTicksIs
    <2>2. s.written \in Seq(MarketTick) /\ s.ticks \in Seq(MarketTick)
      BY <2>1 DEF Appending
    <2>3. m_ticks' \in Seq(MarketTick) /\ SameTimes(s.ticks, m_ticks')
      BY <2>1 DEF Processed, Becomes, SameTimes
    <2>4. SameTimes(Path(s), written' \o m_ticks')
      BY <2>1, <2>2, <2>3, SameTimesAfter DEF Path
    <2> DEFINE p == Path(s)
               q == written' \o m_ticks'
               n == Len(batch)
    <2>5. Added(batch, n, p) /\ n \in 0..n
      BY <2>1 DEF AddedBy
    <2>6. q \in Seq(MarketTick)
      BY <2>1, <2>2, <2>3
    <2>7. SameTimes(p, q) /\ n \in Nat /\ Len(written \o m_ticks) \in Nat
      BY <2>4 DEF TickTypeOK
    <2> HIDE DEF p, q, n
    <2>8. Added(batch, n, q)
      BY <2>5, <2>7 DEF Added, SameTimes
    <2> QED BY <1>1, <2>5, <2>6, <2>8 DEF q, n
  <1>3. CASE AppendRefused(batch, calculate)
    <2> DEFINE s == Appended(batch, calculate)
    <2>1. s \in Appending /\ AddedBy(batch, Len(batch), s)
      BY AppendedIs
    <2>2. m_ticks' = s.ticks /\ written' = s.written /\ threw'
      BY <1>3 DEF AppendRefused
    <2> HIDE DEF s
    <2>3. written' \o m_ticks' = Path(s) /\ s.written \in Seq(MarketTick) /\ s.ticks \in Seq(MarketTick)
      BY <2>1, <2>2 DEF Path, Appending
    <2>4. Path(s) \in Seq(MarketTick)
      BY <2>3 DEF Path
    <2> QED BY <1>1, <2>1, <2>2, <2>3, <2>4 DEF AddedBy
  <1> QED BY <1>2, <1>3

LEMMA TimesType ==
    ASSUME NEW p \in Seq(MarketTick)
    PROVE  /\ TimesOf(p) \in Seq(Nat) /\ Len(TimesOf(p)) = Len(p)
           /\ \A k \in 1..Len(p) : TimesOf(p)[k] = p[k].time
  <1>1. ASSUME NEW k \in 1..Len(p) PROVE p[k].time \in Nat
    <2>1. p[k] \in MarketTick
      OBVIOUS
    <2> QED BY <2>1 DEF MarketTick
  <1>2. TimesOf(p) = [k \in 1..Len(p) |-> p[k].time] /\ Len(p) \in Nat
    BY DEF TimesOf
  <1> QED BY <1>1, <1>2

LEMMA Parts ==
    ASSUME NEW a \in Seq(Nat), NEW l \in 0..Len(a)
    PROVE  /\ SubSeq(a, 1, l) \in Seq(Nat) /\ Len(SubSeq(a, 1, l)) = l
           /\ \A k \in 1..l : SubSeq(a, 1, l)[k] = a[k]
           /\ SubSeq(a, l + 1, Len(a)) \in Seq(Nat) /\ Len(SubSeq(a, l + 1, Len(a))) = Len(a) - l
           /\ \A k \in 1..(Len(a) - l) : SubSeq(a, l + 1, Len(a))[k] = a[l + k]
  OBVIOUS

\* The property of a step, for the path before and after it.
KeepsEveryTick(p, q, refused) ==
    LET before == TimesOf(p)
        after == TimesOf(q)
        added == SubSeq(after, Len(before) + 1, Len(after))
    IN  /\ SubSeq(after, 1, Len(before)) = before
        /\ \E batch \in Live : /\ Len(added) <= Len(batch)
                               /\ \A i \in DOMAIN added : added[i] = batch[i].time
                               /\ refused \/ Len(added) = Len(batch)
        /\ Ordered(before) /\ Ordered(added) => Ordered(after)

\* Two ordered lists of times join into one if the second starts after the
\* first ends.
Increasing(t, n) == \A i, j \in 1..n : i < j => t[i] < t[j]

LEMMA OrderedIs ==
    ASSUME NEW t \in Seq(Nat)
    PROVE  Ordered(t) <=> Increasing(t, Len(t))
  <1>1. DOMAIN t = 1..Len(t)
    OBVIOUS
  <1> QED BY <1>1 DEF Ordered, Increasing

LEMMA AtMostLast ==
    ASSUME NEW t \in Seq(Nat), Increasing(t, Len(t)), NEW i \in 1..Len(t), NEW j \in 1..Len(t), i <= j
    PROVE  t[i] \in Nat /\ t[j] \in Nat /\ t[i] <= t[j]
  <1>1. t[i] \in Nat /\ t[j] \in Nat
    OBVIOUS
  <1>2. CASE i = j
    BY <1>1, <1>2
  <1>3. CASE i < j
    BY <1>1, <1>3 DEF Increasing
  <1> QED BY <1>1, <1>2, <1>3

Joins(c, a, l, b, m) ==
    /\ a \in Seq(Nat) /\ b \in Seq(Nat) /\ c \in Seq(Nat)
    /\ Len(a) = l /\ Len(b) = m /\ Len(c) = l + m
    /\ \A k \in 1..l : c[k] = a[k]
    /\ \A k \in 1..m : c[l + k] = b[k]
    /\ l > 0 /\ m > 0 => a[l] < b[1]

LEMMA OrderedJoin ==
    ASSUME NEW a, NEW b, NEW c, NEW l, NEW m, Joins(c, a, l, b, m), Ordered(a), Ordered(b)
    PROVE  Ordered(c)
  <1> USE DEF Joins
  <1>1. l \in Nat /\ m \in Nat /\ Increasing(a, l) /\ Increasing(b, m)
    BY OrderedIs
  <1>2. ASSUME NEW i \in 1..(l + m), NEW j \in 1..(l + m), i < j PROVE c[i] < c[j]
    <2>1. CASE j <= l
      <3>1. i \in 1..l /\ j \in 1..l
        BY <1>1, <1>2, <2>1
      <3>2. c[i] = a[i] /\ c[j] = a[j] /\ a[i] < a[j]
        BY <1>1, <1>2, <3>1 DEF Increasing
      <3> QED BY <3>2
    <2>2. CASE i > l
      <3>1. i - l \in 1..m /\ j - l \in 1..m /\ i - l < j - l /\ l + (i - l) = i /\ l + (j - l) = j
        BY <1>1, <1>2, <2>2
      <3>2. b[i - l] < b[j - l]
        BY <1>1, <3>1 DEF Increasing
      <3>3. c[i] = b[i - l] /\ c[j] = b[j - l]
        BY <3>1
      <3> QED BY <3>2, <3>3
    <2>3. CASE i <= l /\ j > l
      <3>1. i \in 1..l /\ l \in 1..l /\ 1 \in 1..m /\ j - l \in 1..m /\ l + (j - l) = j
            /\ i <= l /\ 1 <= j - l /\ l > 0 /\ m > 0
        BY <1>1, <1>2, <2>3
      <3>2. a[i] \in Nat /\ a[l] \in Nat /\ a[i] <= a[l]
        BY <1>1, <3>1, AtMostLast
      <3>3. b[1] \in Nat /\ b[j - l] \in Nat /\ b[1] <= b[j - l]
        BY <1>1, <3>1, AtMostLast
      <3>4. c[i] = a[i] /\ c[j] = b[j - l]
        <4>1. c[l + (j - l)] = b[j - l]
          BY <3>1
        <4> QED BY <3>1, <4>1
      <3>5. a[l] < b[1]
        BY <3>1
      <3>6. \A w, x, y, z \in Nat : w <= x /\ x < y /\ y <= z => w < z
        OBVIOUS
      <3>7. a[i] < b[j - l]
        BY <3>2, <3>3, <3>5, <3>6
      <3> QED BY <3>4, <3>7
    <2> QED BY <1>1, <2>1, <2>2, <2>3
  <1>3. Increasing(c, Len(c))
    BY <1>2 DEF Increasing
  <1> QED BY <1>3, OrderedIs

LEMMA BatchKeeps ==
    ASSUME NEW p \in Seq(MarketTick), NEW q \in Seq(MarketTick), NEW batch \in Live,
           NEW j \in 0..Len(batch), NEW refused \in BOOLEAN,
           Len(q) = Len(p) + j,
           \A k \in 1..Len(p) : q[k].time = p[k].time,
           \A k \in 1..j : q[Len(p) + k].time = batch[k].time,
           j > 0 /\ p # <<>> => p[Len(p)].time < batch[1].time,
           refused \/ j = Len(batch)
    PROVE  KeepsEveryTick(p, q, refused)
  <1> DEFINE before == TimesOf(p)
             after == TimesOf(q)
             l == Len(p)
             first == SubSeq(after, 1, l)
             rest == SubSeq(after, l + 1, l + j)
  <1>1. Len(batch) \in Nat /\ l \in Nat /\ j \in Nat /\ j <= Len(batch) /\ Len(q) = l + j
    BY LiveAssumption
  <1>2. /\ before \in Seq(Nat) /\ Len(before) = l /\ \A k \in 1..l : before[k] = p[k].time
    BY TimesType
  <1>3. /\ after \in Seq(Nat) /\ Len(after) = l + j
    <2>1. after \in Seq(Nat) /\ Len(after) = Len(q)
      BY TimesType
    <2> QED BY <1>1, <2>1
  <1>4. \A k \in 1..(l + j) : after[k] = q[k].time
    <2>1. \A k \in 1..Len(q) : after[k] = q[k].time
      BY TimesType
    <2> QED BY <1>1, <2>1
  <1>5. /\ \A k \in 1..l : q[k].time = p[k].time
        /\ \A k \in 1..j : q[l + k].time = batch[k].time
    OBVIOUS
  <1>6. j > 0 /\ l > 0 => p[l].time < batch[1].time
    <2>1. l > 0 => p # <<>>
      OBVIOUS
    <2> QED BY <2>1
  <1> HIDE DEF before, after, l
  <1>7. l \in 0..Len(after) /\ Len(after) - l = j
    BY <1>1, <1>3
  <1>8. first \in Seq(Nat) /\ Len(first) = l /\ \A k \in 1..l : first[k] = after[k]
    BY <1>3, <1>7, Parts
  <1>9. rest \in Seq(Nat) /\ Len(rest) = j /\ \A k \in 1..j : rest[k] = after[l + k]
    <2> DEFINE r == SubSeq(after, l + 1, Len(after))
    <2>1. r \in Seq(Nat) /\ Len(r) = Len(after) - l /\ \A k \in 1..(Len(after) - l) : r[k] = after[l + k]
      BY <1>3, <1>7, Parts
    <2>2. r = rest
      BY <1>3
    <2> HIDE DEF r, rest
    <2> QED BY <1>7, <2>1, <2>2
  <1> HIDE DEF first, rest
  <1>10. \A k \in 1..l : first[k] = before[k]
    <2>1. \A k \in 1..l : k \in 1..(l + j)
      BY <1>1
    <2> QED BY <1>2, <1>4, <1>5, <1>8, <2>1
  <1>11. first = before
    BY <1>2, <1>8, <1>10
  <1>12. \A k \in 1..j : rest[k] = batch[k].time
    <2>1. \A k \in 1..j : l + k \in 1..(l + j)
      BY <1>1
    <2> QED BY <1>4, <1>5, <1>9, <2>1
  <1>13. /\ Len(rest) <= Len(batch) /\ \A i \in DOMAIN rest : rest[i] = batch[i].time
         /\ refused \/ Len(rest) = Len(batch)
    <2>1. DOMAIN rest = 1..j
      BY <1>9
    <2> QED BY <1>1, <1>9, <1>12, <2>1
  <1>14. ASSUME Ordered(before), Ordered(rest) PROVE Ordered(after)
    <2>1. \A k \in 1..l : after[k] = before[k]
      BY <1>8, <1>10
    <2>2. l > 0 /\ j > 0 => before[l] < rest[1]
      <3>1. l > 0 /\ j > 0 => l \in 1..l /\ 1 \in 1..j
        BY <1>1
      <3>2. l > 0 /\ j > 0 => before[l] = p[l].time /\ rest[1] = batch[1].time
        BY <1>2, <1>12, <3>1
      <3> QED BY <1>6, <3>2
    <2>3. Joins(after, before, l, rest, j)
      BY <1>2, <1>3, <1>9, <2>1, <2>2 DEF Joins
    <2> QED BY <1>14, <2>3, OrderedJoin
  <1>15. SubSeq(after, 1, Len(before)) = before
    BY <1>2, <1>11 DEF first
  <1>16. SubSeq(after, Len(before) + 1, Len(after)) = rest
    BY <1>2, <1>3 DEF rest
  <1> QED BY <1>13, <1>14, <1>15, <1>16 DEF KeepsEveryTick, before, after

LEMMA BatchStepKeeps ==
    ASSUME TickTypeOK, BatchInv, NEW batch \in Live, NEW calculate \in BOOLEAN,
           AppendTicks(batch, calculate) \/ AppendRefused(batch, calculate)
    PROVE  KeepsEveryTick(written \o m_ticks, written' \o m_ticks', threw')
  <1> DEFINE p == written \o m_ticks
             q == written' \o m_ticks'
  <1>1. batch \in Seq(MarketTick)
    BY LiveAssumption
  <1>2. PICK j \in 0..Len(batch) : Added(batch, j, q) /\ (threw' \/ j = Len(batch))
    BY <1>1, BatchAdds
  <1>3. q \in Seq(MarketTick) /\ (m_ticks = <<>> => written = <<>>)
    BY <1>1, BatchAdds
  <1>4. p \in Seq(MarketTick) /\ written \in Seq(MarketTick) /\ m_ticks \in Seq(MarketTick)
    BY DEF TickTypeOK
  <1>5. threw' \in BOOLEAN
    BY <1>1, TypeStep, LiveAssumption DEF TickNext, TickTypeOK
  <1>6. ASSUME j > 0, p # <<>> PROVE p[Len(p)].time < batch[1].time
    <2>1. m_ticks # <<>>
      BY <1>3, <1>6
    <2>2. p[Len(p)] = m_ticks[Len(m_ticks)]
      <3>1. Len(m_ticks) \in 1..Len(m_ticks) /\ Len(p) = Len(written) + Len(m_ticks)
        BY <1>4, <2>1
      <3>2. p[Len(written) + Len(m_ticks)] = m_ticks[Len(m_ticks)]
        BY <1>4, <3>1, PathType
      <3> QED BY <3>1, <3>2
    <2> QED BY <1>2, <1>6, <2>1, <2>2 DEF Added
  <1>7. /\ Len(q) = Len(p) + j
        /\ \A k \in 1..Len(p) : q[k].time = p[k].time
        /\ \A k \in 1..j : q[Len(p) + k].time = batch[k].time
    BY <1>2 DEF Added
  <1> HIDE DEF p, q
  <1>8. KeepsEveryTick(p, q, threw')
    BY <1>2, <1>3, <1>4, <1>5, <1>6, <1>7, BatchKeeps
  <1> QED BY <1>8 DEF p, q

LEMMA AppendStepKeeps ==
    ASSUME TickTypeOK, BatchInv, [TickNext]_tickVars, appends' # appends
    PROVE  KeepsEveryTick(written \o m_ticks, written' \o m_ticks', threw')
  <1>1. ASSUME NEW h \in Hour, FetchTicks(h) \/ FetchEmpty(h) \/ FetchReloadThrows(h) \/ FetchSourceFails(h)
        PROVE  FALSE
    BY <1>1 DEF FetchTicks, FetchEmpty, FetchReloadThrows, FetchSourceFails, KeepsClient
  <1>2. ASSUME NEW s, NEW e, SetTickSpan(s, e) PROVE FALSE
    BY <1>2 DEF SetTickSpan
  <1>3. ~UNCHANGED tickVars
    BY DEF tickVars
  <1>4. PICK batch \in Live, calculate \in BOOLEAN :
           AppendTicks(batch, calculate) \/ AppendRefused(batch, calculate)
    BY <1>1, <1>2, <1>3 DEF TickNext
  <1> QED BY <1>4, BatchStepKeeps

\* append_ticks neither loses nor repeats a tick, whatever the batches, and
\* keeps them in order of time.
THEOREM AppendKeepsEveryTickHolds == TickSpec => AppendKeepsEveryTick
  <1>1. TickInit => BatchInv
    BY DEF TickInit, BatchInv
  <1>2. TickTypeOK /\ BatchInv /\ [TickNext]_tickVars
          => [appends' # appends => KeepsEveryTick(written \o m_ticks, written' \o m_ticks', threw')]_tickVars
    BY AppendStepKeeps
  <1>3. TickSpec => []BatchInv
    BY <1>1, BatchStep, TickTypeOKHolds, PTL DEF TickSpec
  <1>4. TickSpec => [][appends' # appends => KeepsEveryTick(written \o m_ticks, written' \o m_ticks', threw')]_tickVars
    BY <1>2, <1>3, TickTypeOKHolds, PTL DEF TickSpec
  <1> QED BY <1>4 DEF AppendKeepsEveryTick, KeepsEveryTick

-----------------------------------------------------------------------------
(* The index by second and the visible range                               *)

\* A loop that ends without a throw has gone over every tick.
LEMMA LoopReachesEnd ==
    ASSUME NEW b, BufferType(b), b.ticks # <<>>, mode \in BidAskModel,
           NEW n, n = Len(b.ticks), NEW p, p = Rounds(b)[n], p.ok
    PROVE  p.done = n
  <1>1. n \in Nat \ {0} /\ n \in 1..n /\ n - 1 \in 0..n
    BY DEF BufferType
  <1> DEFINE s == Rounds(b)[n - 1]
             tick == Compared(s, n, b.prev, b.has_prev)
             before == Before(s, n, b.prev, b.has_prev)
  <1>2. s \in Loop(n) /\ p = ProcessTick(s, n, b.prev, b.has_prev)
    BY <1>1, RoundsAre
  <1>3. b.prev \in MarketTick /\ b.has_prev \in BOOLEAN
    BY DEF BufferType
  <1> HIDE DEF s
  <1>4. tick \in MarketTick /\ before \in MarketTick
    <2>1. s.ticks \in [1..n -> MarketTick] /\ (n > 1 => n - 1 \in 1..n)
      BY <1>1, <1>2 DEF Loop
    <2>2. tick \in MarketTick
      BY <1>1, <2>1 DEF Compared, MarketTick
    <2>3. before \in MarketTick
      BY <1>3, <2>1, NoTickType DEF Before
    <2> QED BY <2>2, <2>3
  <1>5. p = CASE ~s.ok -> s
          [] s.ok /\ mode = "NONE" -> Ended(s, n, tick)
          [] s.ok /\ mode # "NONE" /\ (n > 1 /\ ~tick.upd) ->
                 Ended(s, n, [tick EXCEPT !.bid = before.bid, !.ask = before.ask])
          [] s.ok /\ mode # "NONE" /\ ~(n > 1 /\ ~tick.upd) /\ tick.side = "none" ->
                 Thrown(s, n, tick)
          [] OTHER -> Done(Restore(s, n, tick, before), n)
    BY <1>2 DEF ProcessTick, Compared, Before, Ended, Thrown, Done
  <1> HIDE DEF tick, before
  <1>6. \A x : Ended(s, n, x).done = n
    BY <1>2 DEF Ended, Loop
  <1>7. Thrown(s, n, tick).ok = FALSE
    BY <1>2 DEF Thrown, Loop
  <1>8. mode # "NONE" => Done(Restore(s, n, tick, before), n).done = n
    <2> SUFFICES ASSUME mode # "NONE" PROVE Done(Restore(s, n, tick, before), n).done = n
      OBVIOUS
    <2> DEFINE x == Restore(s, n, tick, before)
    <2>1. x \in Loop(n)
      <3>1. mode \in BidAskModel \ {"NONE"}
        OBVIOUS
      <3> QED BY <1>1, <1>2, <1>4, <3>1, RestoreType DEF Round
    <2> HIDE DEF x
    <2>2. Done(x, n).done = n
      BY <2>1 DEF Done, Loop
    <2> QED BY <2>2 DEF x
  <1> QED BY <1>5, <1>6, <1>7, <1>8

\* c is the place of the first tick f seconds or more after the start, or of
\* the last tick.
Later(ticks, start, f) == {i \in 1..Len(ticks) : ticks[i].time >= start + f * MsPerSec}
Indexed(ticks, start, f, c) ==
    /\ Later(ticks, start, f) # {} =>
          c + 1 \in Later(ticks, start, f) /\ \A j \in Later(ticks, start, f) : c + 1 <= j
    /\ Later(ticks, start, f) = {} => c + 1 = Len(ticks)

LEMMA ChunkIs ==
    ASSUME NEW b, BufferType(b), b.ticks # <<>>, mode \in BidAskModel, NEW start \in Int,
           NEW r, r = Process(b, start)
    PROVE  /\ r.chunks[0] = b.chunks[0]
           /\ r.ok => \A f \in 1..SecPerHour : Indexed(r.ticks, start, f, r.chunks[f])
  <1> DEFINE n == Len(b.ticks)
             p == Rounds(b)[n]
             chunks == Chunked(p, start, b.chunks)
             reach(f) == {i \in 1..p.done : p.ticks[i].time >= start + f * MsPerSec}
  <1>1. r.chunks = chunks /\ r.ticks = p.ticks /\ r.ok = p.ok
    BY DEF Process
  <1>2. p \in Loop(n) /\ (p.ok => p.done = n) /\ n \in Nat \ {0}
    BY RoundsKeep, LoopReachesEnd DEF BufferType
  <1>3. 0 \in 0..SecPerHour /\ \A f \in 1..SecPerHour : f \in 0..SecPerHour /\ f > 0 /\ f # 0
    BY TickTimeAssumption
  <1>4. chunks = [f \in 0..SecPerHour |->
            CASE f = 0 -> b.chunks[0]
              [] f > 0 /\ reach(f) # {} -> (CHOOSE i \in reach(f) : \A j \in reach(f) : i <= j) - 1
              [] f > 0 /\ reach(f) = {} -> IF p.ok THEN Len(p.ticks) - 1 ELSE b.chunks[f]]
    BY DEF Chunked
  <1> HIDE DEF n, p, chunks
  <1>5. chunks[0] = b.chunks[0]
    BY <1>3, <1>4
  <1>6. ASSUME p.ok, NEW f \in 1..SecPerHour PROVE Indexed(p.ticks, start, f, chunks[f])
    <2>1. Len(p.ticks) = n /\ reach(f) = Later(p.ticks, start, f)
      <3>1. Len(p.ticks) = n
        BY <1>2 DEF Loop
      <3> QED BY <1>2, <1>6, <3>1 DEF Later
    <2>2. chunks[f] = IF reach(f) # {} THEN (CHOOSE i \in reach(f) : \A j \in reach(f) : i <= j) - 1
                      ELSE Len(p.ticks) - 1
      BY <1>3, <1>4, <1>6
    <2> DEFINE R == reach(f)
    <2>3. R \subseteq Nat
      BY <1>2, <1>6
    <2> HIDE DEF R, reach
    <2>4. CASE R # {}
      <3> DEFINE m == CHOOSE i \in R : \A j \in R : i <= j
      <3>1. m \in R /\ \A j \in R : m <= j
        BY <2>3, <2>4, LeastNumber
      <3> HIDE DEF m
      <3>2. chunks[f] = m - 1
        BY <2>2, <2>4 DEF m, R
      <3>3. chunks[f] + 1 = m
        <4>1. m \in Nat
          BY <2>3, <3>1
        <4> QED BY <3>2, <4>1
      <3> QED BY <2>1, <2>4, <3>1, <3>3 DEF Indexed, R
    <2>5. CASE R = {}
      <3>1. chunks[f] + 1 = n
        BY <1>2, <2>1, <2>2, <2>5 DEF R
      <3> QED BY <2>1, <2>5, <3>1 DEF Indexed, R
    <2> QED BY <2>4, <2>5
  <1> QED BY <1>1, <1>5, <1>6

\* Ticks in order of time.
InOrder(ticks) == \A i, j \in 1..Len(ticks) : i <= j => ticks[i].time <= ticks[j].time

\* The index finds every tick of a range.
LEMMA IndexFinds ==
    ASSUME TickTypeOK, m_ticks # <<>>, m_chunks[0] = 0, InOrder(m_ticks),
           \A f \in 1..SecPerHour : Indexed(m_ticks, m_start, f, m_chunks[f]),
           NEW s \in Int, NEW e \in Int, Askable(s, e)
    PROVE  /\ start_pos(s) \in Int /\ end_pos(e) \in Int /\ 1 <= start_pos(s) /\ end_pos(e) <= Len(m_ticks)
           /\ \A i \in 1..Len(m_ticks) : s <= m_ticks[i].time /\ m_ticks[i].time < e
                 => start_pos(s) <= i /\ i <= end_pos(e)
  <1> DEFINE n == Len(m_ticks)
             M == MsPerSec
             x == s - m_start
             y == e - m_start + MsPerSec - 1
             f == x \div M
             g == y \div M
  <1>1. n \in Nat \ {0} /\ \A i \in 1..n : m_ticks[i].time \in Nat
    <2>1. m_ticks \in Seq(MarketTick)
      BY DEF TickTypeOK
    <2>2. \A i \in 1..n : m_ticks[i] \in MarketTick
      BY <2>1
    <2> QED BY <2>1, <2>2 DEF MarketTick
  <1>2. M \in Nat \ {0} /\ SecPerHour \in Nat \ {0} /\ m_start \in Int
    BY TickTimeAssumption DEF TickTypeOK
  <1>3. M * SecPerHour \in Nat /\ M * SecPerHour = SecPerHour * M
    BY <1>2
  <1>4. /\ x \in Nat /\ x < SecPerHour * M /\ y \in Nat /\ M <= y /\ y < SecPerHour * M + M
        /\ s = m_start + x /\ e = m_start + y - M + 1
    BY <1>2, <1>3 DEF Askable, MsPerHour
  <1> HIDE DEF x, y
  <1>5. f \in Nat /\ f * M <= x /\ x < f * M + M
    BY <1>2, <1>4, Division
  <1>6. g \in Nat /\ g * M <= y /\ y < g * M + M
    BY <1>2, <1>4, Division
  <1>7. f * M \in Nat /\ g * M \in Nat
    BY <1>2, <1>5, <1>6
  <1>8. start_pos(s) = m_chunks[f] + 1 /\ end_pos(e) = m_chunks[g] + 1
    BY DEF start_pos, end_pos, x, y
  <1> HIDE DEF f, g, M, n
  <1>9. f \in 0..SecPerHour
    <2>1. ~(SecPerHour < f)
      BY <1>2, <1>3, <1>4, <1>5, <1>7, Apart
    <2> QED BY <1>2, <1>5, <2>1
  <1>10. g \in 1..SecPerHour
    <2>1. ~(SecPerHour < g)
      BY <1>2, <1>3, <1>4, <1>6, <1>7, Apart
    <2>2. g # 0
      BY <1>2, <1>4, <1>6
    <2> QED BY <1>2, <1>6, <2>1, <2>2
  <1>11. \A k \in 1..SecPerHour : Later(m_ticks, m_start, k) = {i \in 1..n : m_ticks[i].time >= m_start + k * M}
    BY DEF Later, n, M
  <1>12. \A k \in 1..SecPerHour : m_chunks[k] + 1 \in 1..n
    <2> TAKE k \in 1..SecPerHour
    <2>1. Indexed(m_ticks, m_start, k, m_chunks[k])
      OBVIOUS
    <2>2. CASE Later(m_ticks, m_start, k) # {}
      BY <1>11, <2>1, <2>2 DEF Indexed
    <2>3. CASE Later(m_ticks, m_start, k) = {}
      BY <1>1, <2>1, <2>3 DEF Indexed, n
    <2> QED BY <2>2, <2>3
  <1>13. start_pos(s) \in 1..n
    <2>1. CASE f = 0
      BY <1>1, <1>8, <2>1
    <2>2. CASE f # 0
      BY <1>8, <1>9, <1>12, <2>2
    <2> QED BY <2>1, <2>2
  <1>14. end_pos(e) \in 1..n
    BY <1>8, <1>10, <1>12
  <1>15. ASSUME NEW i \in 1..n, s <= m_ticks[i].time PROVE start_pos(s) <= i
    <2>1. CASE f = 0
      BY <1>1, <1>8, <2>1
    <2>2. CASE f # 0
      <3>1. f \in 1..SecPerHour
        BY <1>9, <2>2
      <3>2. m_ticks[i].time >= m_start + f * M
        BY <1>1, <1>2, <1>4, <1>5, <1>7, <1>15
      <3>3. i \in Later(m_ticks, m_start, f)
        BY <1>11, <3>1, <3>2
      <3>4. Indexed(m_ticks, m_start, f, m_chunks[f])
        BY <3>1
      <3> QED BY <1>8, <3>3, <3>4 DEF Indexed
    <2> QED BY <2>1, <2>2
  <1>16. ASSUME NEW i \in 1..n, m_ticks[i].time < e PROVE i <= end_pos(e)
    <2>1. Indexed(m_ticks, m_start, g, m_chunks[g])
      BY <1>10
    <2>2. CASE Later(m_ticks, m_start, g) # {}
      <3> DEFINE c == m_chunks[g] + 1
      <3>1. c \in 1..n /\ m_ticks[c].time >= m_start + g * M
        BY <1>10, <1>11, <2>1, <2>2 DEF Indexed
      <3> HIDE DEF c
      <3>2. m_ticks[i].time < m_ticks[c].time
        BY <1>1, <1>2, <1>4, <1>6, <1>7, <1>16, <3>1
      <3>3. ~(c <= i)
        BY <1>1, <3>1, <3>2 DEF InOrder, n
      <3>4. c = end_pos(e)
        BY <1>8 DEF c
      <3> QED BY <1>1, <3>1, <3>3, <3>4
    <2>3. CASE Later(m_ticks, m_start, g) = {}
      BY <1>8, <2>1, <2>3 DEF Indexed, n
    <2> QED BY <2>2, <2>3
  <1> QED BY <1>1, <1>13, <1>14, <1>15, <1>16 DEF n

\* The extremes of a nonempty set of places.
LEMMA FirstIs ==
    ASSUME NEW S, S \subseteq Nat, S # {}
    PROVE  First(S) \in S /\ \A j \in S : First(S) <= j
  <1>1. \E i \in S : \A j \in S : i <= j
    BY LeastNumber
  <1> QED BY <1>1 DEF First

LEMMA FinalIs ==
    ASSUME NEW N \in Nat, NEW S, S \subseteq 0..N, S # {}
    PROVE  Final(S) \in S /\ \A j \in S : Final(S) >= j
  <1>1. \E i \in S : \A j \in S : i >= j
    BY GreatestNumber
  <1> QED BY <1>1 DEF Final

\* What set_tick_span shows, when the index is right.
LEMMA SpanShows ==
    ASSUME TickTypeOK, m_ticks # <<>>, m_chunks[0] = 0, InOrder(m_ticks),
           \A f \in 1..SecPerHour : Indexed(m_ticks, m_start, f, m_chunks[f]),
           NEW s \in Int, NEW e \in Int, SetTickSpan(s, e), InRange(s, e) # {}
    PROVE  Visible = InRange(s, e)
  <1> DEFINE n == Len(m_ticks)
             a == start_pos(s)
             b == end_pos(e)
             F == FromStart(s, e)
             B == BeforeEnd(s, e)
             R == InRange(s, e)
  <1>1. n \in Nat \ {0} /\ DOMAIN m_ticks = 1..n /\ \A i \in 1..n : m_ticks[i].time \in Nat
    <2>1. m_ticks \in Seq(MarketTick)
      BY DEF TickTypeOK
    <2>2. \A i \in 1..n : m_ticks[i] \in MarketTick
      BY <2>1
    <2> QED BY <2>1, <2>2 DEF MarketTick
  <1>2. Askable(s, e) /\ m_tick_span' \in SpanOf(s, e)
    BY DEF SetTickSpan
  <1>3. /\ a \in Int /\ b \in Int /\ 1 <= a /\ b <= n
        /\ \A i \in 1..n : s <= m_ticks[i].time /\ m_ticks[i].time < e => a <= i /\ i <= b
    BY <1>2, IndexFinds
  <1> HIDE DEF a, b, n
  <1>4. /\ F = {i \in a..b : s <= m_ticks[i].time} /\ B = {i \in a..b : m_ticks[i].time < e}
        /\ R = {i \in 1..n : s <= m_ticks[i].time /\ m_ticks[i].time < e}
    BY <1>1 DEF FromStart, BeforeEnd, InRange, a, b
  <1>5. R # {}
    OBVIOUS
  <1> HIDE DEF F, B, R
  <1>6. \A i \in a..b : i \in 1..n /\ i \in 0..n /\ i \in Nat
    BY <1>1, <1>3
  <1>7. R \subseteq F /\ R \subseteq B /\ F \subseteq Nat /\ B \subseteq 0..n
    BY <1>1, <1>3, <1>4, <1>6
  <1> DEFINE first == First(F)
             final == Final(B)
  <1>8. first \in F /\ \A j \in F : first <= j
    BY <1>5, <1>7, FirstIs
  <1>9. final \in B /\ \A j \in B : final >= j
    BY <1>1, <1>5, <1>7, FinalIs
  <1>10. m_tick_span' = [data |-> first, size |-> final - first + 1]
    <2>1. F # {} /\ B # {} /\ FromStart(s, e) = F /\ BeforeEnd(s, e) = B
      BY <1>5, <1>7 DEF F, B
    <2> HIDE DEF first, final
    <2>2. SpanOf(s, e) = {[data |-> first, size |-> final - first + 1]}
      BY <2>1 DEF SpanOf, first, final
    <2> QED BY <1>2, <2>2
  <1> HIDE DEF first, final
  <1>11. first \in 1..n /\ final \in 1..n /\ s <= m_ticks[first].time /\ m_ticks[final].time < e
    BY <1>4, <1>6, <1>8, <1>9
  <1>12. Visible = {i \in 1..n : first <= i /\ i <= final}
    <2>1. m_tick_span'.data = first /\ m_tick_span'.size = final - first + 1
      BY <1>10
    <2>2. \A i \in 1..n : /\ m_tick_span'.data # 0 /\ m_tick_span'.data <= i
                          /\ i < m_tick_span'.data + m_tick_span'.size
                          <=> first <= i /\ i <= final
      BY <1>1, <1>11, <2>1
    <2> QED BY <1>1, <2>2 DEF Visible
  <1>13. ASSUME NEW i \in 1..n PROVE i \in R <=> first <= i /\ i <= final
    <2>1. i \in R => first <= i /\ i <= final
      BY <1>7, <1>8, <1>9
    <2>2. ASSUME first <= i, i <= final PROVE i \in R
      <3>1. m_ticks[first].time <= m_ticks[i].time /\ m_ticks[i].time <= m_ticks[final].time
        BY <1>11, <2>2 DEF InOrder, n
      <3>2. m_ticks[first].time \in Nat /\ m_ticks[i].time \in Nat /\ m_ticks[final].time \in Nat
        BY <1>1, <1>11
      <3> QED BY <1>4, <1>11, <3>1, <3>2
    <2> QED BY <2>1, <2>2
  <1>14. R \subseteq 1..n
    BY <1>4
  <1> QED BY <1>12, <1>13, <1>14 DEF R

\* The source gives the ticks of an hour in order of time.
OrderedSource == \A p \in Pattern : InOrder(p)

\* The index is one of the buffered ticks, which are in order of time.
IndexInv ==
    /\ m_chunks[0] = 0
    /\ loaded # 0 => InOrder(m_ticks)
    /\ loaded # 0 /\ m_ticks # <<>> =>
          \A f \in 1..SecPerHour : Indexed(m_ticks, m_start, f, m_chunks[f])

LEMMA StoredInOrder ==
    ASSUME OrderedSource, TickTypeOK, NEW h \in Hour
    PROVE  InOrder(Stored(h))
  <1> DEFINE p == source[h]
             o == h * MsPerHour
             q == Stored(h)
  <1>1. p \in Seq(MarketTick) /\ InOrder(p)
    <2>1. p \in Pattern
      BY DEF TickTypeOK
    <2> QED BY <2>1, PatternAssumption DEF OrderedSource
  <1>2. o \in Nat
    <2>1. h \in Nat /\ \A x, y \in Nat : x * y \in Nat
      BY TickTimeAssumption DEF Hour
    <2> QED BY <2>1, HourIsPositive
  <1>3. q = [i \in DOMAIN p |-> [p[i] EXCEPT !.time = @ + o]]
    BY DEF Stored
  <1> HIDE DEF p, o, q
  <1>4. DOMAIN p = 1..Len(p) /\ Len(p) \in Nat /\ \A i \in 1..Len(p) : p[i] \in MarketTick
    BY <1>1
  <1>5. \A i \in 1..Len(p) : q[i].time = p[i].time + o /\ p[i].time \in Nat
    BY <1>3, <1>4 DEF MarketTick
  <1>6. Len(q) = Len(p)
    BY <1>3, <1>4
  <1>7. InOrder(q)
    BY <1>1, <1>2, <1>5, <1>6 DEF InOrder
  <1> QED BY <1>7 DEF q

LEMMA SameOrder ==
    ASSUME NEW p, NEW q, Len(q) = Len(p), \A i \in 1..Len(p) : q[i].time = p[i].time, InOrder(p)
    PROVE  InOrder(q)
  BY DEF InOrder

\* The loop of append_ticks keeps the order.
LEMMA AppendTickOrders ==
    ASSUME NEW s \in Appending, s.ok => InOrder(s.ticks), NEW tick \in MarketTick, NEW calculate \in BOOLEAN,
           NEW r, r = AppendTick(s, tick, calculate), r.ok
    PROVE  InOrder(r.ticks)
  <1> DEFINE m == Marked(s.ticks, tick, calculate)
             pushed == Append(m, tick)
             start == IF pushed[1].time < s.start THEN start_of_hour(tick.time) ELSE s.start
  <1>1. s.ticks \in Seq(MarketTick)
    BY DEF Appending
  <1>2. m \in Seq(MarketTick) /\ SameTimes(s.ticks, m)
    BY <1>1, MarkedType
  <1>3. r = CASE ~s.ok -> s
          [] s.ok /\ s.ticks # <<>> /\ tick.time <= s.ticks[Len(s.ticks)].time ->
                 [s EXCEPT !.ok = FALSE]
          [] OTHER ->
                 IF tick.time >= start + MsPerHour
                 THEN [ticks |-> <<>>, start |-> start_of_hour(tick.time),
                       written |-> s.written \o pushed, ok |-> TRUE]
                 ELSE [s EXCEPT !.ticks = pushed, !.start = start]
    BY DEF AppendTick
  <1> HIDE DEF m, pushed, start
  <1>4. s.ok /\ ~(s.ticks # <<>> /\ tick.time <= s.ticks[Len(s.ticks)].time)
    <2>1. [s EXCEPT !.ok = FALSE].ok = FALSE
      BY DEF Appending
    <2>2. CASE ~s.ok
      BY <1>3, <2>2
    <2>3. CASE s.ok /\ s.ticks # <<>> /\ tick.time <= s.ticks[Len(s.ticks)].time
      <3>1. r = [s EXCEPT !.ok = FALSE]
        BY <1>3, <2>3
      <3> QED BY <2>1, <3>1
    <2> QED BY <2>2, <2>3
  <1>5. r.ticks = <<>> \/ r.ticks = pushed
    <2>1. [s EXCEPT !.ticks = pushed, !.start = start].ticks = pushed
      BY DEF Appending
    <2>2. r = IF tick.time >= start + MsPerHour
              THEN [ticks |-> <<>>, start |-> start_of_hour(tick.time),
                    written |-> s.written \o pushed, ok |-> TRUE]
              ELSE [s EXCEPT !.ticks = pushed, !.start = start]
      BY <1>3, <1>4
    <2>3. CASE tick.time >= start + MsPerHour
      <3>1. r = [ticks |-> <<>>, start |-> start_of_hour(tick.time),
                 written |-> s.written \o pushed, ok |-> TRUE]
        BY <2>2, <2>3
      <3> QED BY <3>1
    <2>4. CASE ~(tick.time >= start + MsPerHour)
      <3>1. r = [s EXCEPT !.ticks = pushed, !.start = start]
        BY <2>2, <2>4
      <3> QED BY <2>1, <3>1
    <2> QED BY <2>3, <2>4
  <1>6. InOrder(pushed)
    <2> DEFINE n == Len(m)
    <2>1. /\ n \in Nat /\ Len(pushed) = n + 1 /\ pushed[n + 1] = tick
          /\ \A k \in 1..n : pushed[k] = m[k]
      BY <1>2 DEF pushed
    <2>2. n = Len(s.ticks) /\ \A k \in 1..n : m[k].time = s.ticks[k].time
      BY <1>2 DEF SameTimes
    <2>3. tick.time \in Nat /\ \A k \in 1..n : s.ticks[k].time \in Nat
      <3>1. \A k \in 1..n : s.ticks[k] \in MarketTick
        BY <1>1, <2>2
      <3> QED BY <3>1 DEF MarketTick
    <2> HIDE DEF n
    <2>4. \A k \in 1..n : pushed[k].time = s.ticks[k].time /\ pushed[k].time \in Nat
      BY <2>1, <2>2, <2>3
    <2>5. ASSUME NEW k \in 1..n PROVE pushed[k].time <= tick.time
      <3>1. n \in 1..n /\ s.ticks # <<>> /\ k <= n
        BY <2>1, <2>2
      <3>2. s.ticks[n].time < tick.time
        BY <1>4, <2>2, <2>3, <3>1
      <3>3. s.ticks[k].time <= s.ticks[n].time
        BY <1>4, <2>2, <3>1 DEF InOrder
      <3> QED BY <2>3, <2>4, <3>1, <3>2, <3>3
    <2>6. ASSUME NEW i \in 1..(n + 1), NEW j \in 1..(n + 1), i <= j PROVE pushed[i].time <= pushed[j].time
      <3>1. CASE j \in 1..n
        <4>1. i \in 1..n
          BY <2>1, <2>6, <3>1
        <4> QED BY <1>4, <2>2, <2>4, <2>6, <3>1, <4>1 DEF InOrder
      <3>2. CASE j = n + 1 /\ i \in 1..n
        BY <2>1, <2>5, <3>2
      <3>3. CASE j = n + 1 /\ i = n + 1
        BY <2>1, <2>3, <3>3
      <3> QED BY <2>1, <2>6, <3>1, <3>2, <3>3
    <2> QED BY <2>1, <2>6 DEF InOrder
  <1>7. InOrder(<<>>)
    BY DEF InOrder
  <1> QED BY <1>5, <1>6, <1>7

LEMMA AppendedInOrder ==
    ASSUME TickTypeOK, InOrder(m_ticks), NEW batch \in Seq(MarketTick), NEW calculate \in BOOLEAN,
           NEW s, s = Appended(batch, calculate), s.ok
    PROVE  InOrder(s.ticks)
  <1> DEFINE n == Len(batch)
             run == AppendRounds(batch, calculate)
             T == {i \in 0..n : run[i].ok => InOrder(run[i].ticks)}
  <1>1. /\ n \in Nat /\ run \in [0..n -> Appending]
        /\ run[0] = [ticks |-> m_ticks, start |-> m_start, written |-> written, ok |-> TRUE]
        /\ \A i \in 1..n : run[i] = AppendTick(run[i - 1], batch[i], calculate)
    <2>1. n \in Nat
      OBVIOUS
    <2> QED BY ONLY <2>1, TickTypeOK, batch \in Seq(MarketTick), calculate \in BOOLEAN, AppendRoundsAre
  <1>2. s = run[n]
    BY DEF Appended
  <1> HIDE DEF run
  <1>3. 0 \in T
    BY <1>1
  <1>4. ASSUME NEW i \in 1..n, i - 1 \in T PROVE i \in T
    <2>1. run[i - 1] \in Appending /\ (run[i - 1].ok => InOrder(run[i - 1].ticks)) /\ batch[i] \in MarketTick
      BY <1>1, <1>4
    <2>2. run[i].ok => InOrder(run[i].ticks)
      BY <1>1, <2>1, AppendTickOrders
    <2> QED BY <2>2
  <1> HIDE DEF T
  <1>5. 0..n \subseteq T
    BY <1>1, <1>3, <1>4, BoundedInduction
  <1>6. n \in T
    BY <1>1, <1>5
  <1> QED BY <1>2, <1>6 DEF T

\* A fetch keeps the first place of the index.
LEMMA BeforeFetchChunk ==
    ASSUME TickTypeOK, NEW h \in Hour
    PROVE  /\ BeforeFetch(h).chunks[0] = m_chunks[0] /\ Fetched(h).chunks[0] = m_chunks[0]
           /\ IsBuffer(BeforeFetch(h)) /\ IsBuffer(Buffer) /\ Buffer.chunks = m_chunks
  <1> DEFINE u == Buffer
             t == Stored(h - 1)
             no == FALSE
             b == [u EXCEPT !.ticks = t, !.has_prev = no]
             c == BeforeFetch(h)
  <1>1. BufferType(u) /\ IsBuffer(u) /\ u.chunks = m_chunks
    BY BeforeFetchType DEF Buffer, IsBuffer
  <1>2. h - 1 \in Int /\ t \in Seq(MarketTick)
    <2>1. h - 1 \in Int /\ source \in [Hour -> Pattern]
      BY TickTimeAssumption DEF TickTypeOK, Hour
    <2>2. Stored(h - 1) \in Seq(MarketTick)
      BY <2>1, StoredType
    <2> QED BY <2>1, <2>2
  <1>3. c = IF Continues(h) THEN u ELSE IF b.ticks = <<>> THEN b ELSE Process(b, (h - 1) * MsPerHour)
    BY DEF BeforeFetch, Reloaded
  <1>4. (h - 1) * MsPerHour \in Int /\ mode \in BidAskModel
    <2>1. \A x, y \in Int : x * y \in Int
      OBVIOUS
    <2> QED BY <1>2, <2>1, HourIsPositive DEF TickTypeOK
  <1>10. no \in BOOLEAN
    OBVIOUS
  <1> HIDE DEF u, t, no
  <1>5. b = [u EXCEPT !.ticks = t, !.has_prev = no]
    OBVIOUS
  <1> HIDE DEF b, c
  <1>11. IsBuffer(b)
    BY <1>1, <1>5 DEF IsBuffer
  <1>12. b.ticks = t /\ b.has_prev = no /\ b.prev = u.prev /\ b.spreads = u.spreads /\ b.chunks = u.chunks
    BY <1>1, <1>5 DEF IsBuffer
  <1>6. BufferType(b) /\ b.chunks = m_chunks
    BY <1>1, <1>2, <1>10, <1>12 DEF BufferType
  <1>7. c.chunks[0] = m_chunks[0] /\ IsBuffer(c)
    <2>1. CASE Continues(h)
      BY <1>1, <1>3, <2>1
    <2>2. CASE ~Continues(h) /\ b.ticks = <<>>
      BY <1>3, <1>6, <1>11, <2>2
    <2>3. CASE ~Continues(h) /\ b.ticks # <<>>
      <3>1. c = Process(b, (h - 1) * MsPerHour)
        BY <1>3, <2>3
      <3>2. c.chunks[0] = b.chunks[0]
        BY <1>4, <1>6, <2>3, <3>1, ChunkIs
      <3> QED BY <1>6, <3>1, <3>2, ProcessIsBuffer
    <2> QED BY <2>1, <2>2, <2>3
  <1>8. Fetched(h) = [c EXCEPT !.ticks = Stored(h)]
    BY DEF Fetched, c
  <1>9. Fetched(h).chunks = c.chunks
    BY <1>7, <1>8 DEF IsBuffer
  <1> QED BY <1>1, <1>7, <1>9 DEF c, u

\* What process() leaves has the right index.
LEMMA IndexBecomes ==
    ASSUME NEW c, BufferType(c), c.ticks # <<>>, c.chunks[0] = 0, InOrder(c.ticks), mode \in BidAskModel,
           NEW start \in Int, NEW b, b = Process(c, start), Becomes(b), m_start' = start,
           loaded' # 0 => b.ok
    PROVE  IndexInv'
  <1>1. Processed(c, b)
    BY ProcessIs
  <1>2. /\ b.chunks[0] = 0
        /\ b.ok => \A f \in 1..SecPerHour : Indexed(b.ticks, start, f, b.chunks[f])
    BY ChunkIs
  <1>3. InOrder(b.ticks)
    BY <1>1, SameOrder DEF Processed
  <1>4. m_ticks' = b.ticks /\ m_chunks' = b.chunks
    BY DEF Becomes
  <1> QED BY <1>2, <1>3, <1>4 DEF IndexInv

LEMMA IndexFetch ==
    ASSUME OrderedSource, TickTypeOK, IndexInv, NEW h \in Hour, FetchTicks(h)
    PROVE  IndexInv'
  <1> DEFINE c == Fetched(h)
             b == Process(c, h * MsPerHour)
  <1>1. Becomes(b) /\ loaded' = (IF b.ok THEN h ELSE 0) /\ m_start' = h * MsPerHour
    BY DEF FetchTicks
  <1>2. BufferType(c) /\ c.ticks = Stored(h) /\ c.ticks # <<>> /\ mode \in BidAskModel
    BY BeforeFetchType DEF FetchTicks, TickTypeOK
  <1>3. c.chunks[0] = 0
    BY BeforeFetchChunk DEF IndexInv
  <1>4. InOrder(c.ticks)
    BY <1>2, StoredInOrder
  <1>5. h * MsPerHour \in Int
    BY HourTimes
  <1> HIDE DEF c
  <1> QED BY <1>1, <1>2, <1>3, <1>4, <1>5, IndexBecomes

LEMMA IndexAppend ==
    ASSUME TickTypeOK, IndexInv, NEW batch \in Seq(MarketTick), NEW calculate \in BOOLEAN,
           AppendTicks(batch, calculate)
    PROVE  IndexInv'
  <1> DEFINE s == Appended(batch, calculate)
             u == Buffer
             c == [u EXCEPT !.ticks = s.ticks]
             b == Process(c, s.start)
  <1>1. /\ s.ok /\ s.ticks # <<>> /\ Becomes(b) /\ loaded # 0
        /\ loaded' = (IF b.ok THEN loaded ELSE 0) /\ m_start' = s.start
    BY DEF AppendTicks
  <1>2. s \in Appending /\ InOrder(s.ticks)
    BY <1>1, AppendedIs, AppendedInOrder DEF IndexInv
  <1>3. BufferType(u) /\ IsBuffer(u) /\ u.chunks = m_chunks
    BY DEF TickTypeOK, BufferType, Buffer, IsBuffer
  <1> HIDE DEF s, u
  <1>4. BufferType(c) /\ c.ticks = s.ticks /\ c.chunks = m_chunks
    BY <1>2, <1>3 DEF BufferType, IsBuffer, Appending
  <1>5. c.chunks[0] = 0 /\ mode \in BidAskModel /\ s.start \in Int
    BY <1>2, <1>4 DEF IndexInv, TickTypeOK, Appending
  <1> HIDE DEF c
  <1> QED BY <1>1, <1>2, <1>4, <1>5, IndexBecomes

LEMMA IndexStep ==
    ASSUME OrderedSource, TickTypeOK, IndexInv, [TickNext]_tickVars
    PROVE  IndexInv'
  <1>1. ASSUME NEW h \in Hour, FetchTicks(h) PROVE IndexInv'
    BY <1>1, IndexFetch
  <1>2. ASSUME NEW h \in Hour, FetchEmpty(h) PROVE IndexInv'
    <2> DEFINE u == Fetched(h)
               none == [f \in 0..SecPerHour |-> 0]
               b == [u EXCEPT !.chunks = none, !.has_prev = FALSE]
    <2>1. Becomes(b) /\ u.ticks = <<>>
      BY <1>2, BeforeFetchType DEF FetchEmpty
    <2>2. IsBuffer(u)
      BY BeforeFetchType
    <2>3. none[0] = 0
      BY TickTimeAssumption
    <2> HIDE DEF u, none
    <2>4. b.ticks = u.ticks /\ b.chunks = none
      BY <2>2 DEF IsBuffer
    <2> HIDE DEF b
    <2>5. m_ticks' = <<>> /\ m_chunks'[0] = 0
      BY <2>1, <2>3, <2>4 DEF Becomes
    <2> QED BY <2>5 DEF IndexInv, InOrder
  <1>3. ASSUME NEW h \in Hour, FetchReloadThrows(h) PROVE IndexInv'
    <2>1. m_chunks'[0] = 0 /\ loaded' = 0
      BY <1>3, BeforeFetchChunk DEF FetchReloadThrows, Becomes, IndexInv
    <2> QED BY <2>1 DEF IndexInv
  <1>4. ASSUME NEW h \in Hour, FetchSourceFails(h) PROVE IndexInv'
    <2> DEFINE u == Buffer
               v == Fetched(h)
               t == <<>>
    <2>1. IsBuffer(u) /\ IsBuffer(v) /\ u.chunks[0] = 0 /\ v.chunks[0] = 0
      BY BeforeFetchChunk, BeforeFetchType DEF IndexInv
    <2>2. \/ Becomes([u EXCEPT !.ticks = t])
          \/ Becomes([u EXCEPT !.ticks = t, !.has_prev = FALSE])
          \/ Becomes([v EXCEPT !.ticks = t])
      BY <1>4 DEF FetchSourceFails
    <2> HIDE DEF u, v, t
    <2>3. /\ [u EXCEPT !.ticks = t].chunks = u.chunks /\ [v EXCEPT !.ticks = t].chunks = v.chunks
          /\ [u EXCEPT !.ticks = t, !.has_prev = FALSE].chunks = u.chunks
      BY <2>1 DEF IsBuffer
    <2>4. m_chunks'[0] = 0
      BY <2>1, <2>2, <2>3 DEF Becomes
    <2> QED BY <1>4, <2>4 DEF IndexInv, FetchSourceFails
  <1>5. ASSUME NEW s, NEW e, SetTickSpan(s, e) PROVE IndexInv'
    BY <1>5 DEF SetTickSpan, IndexInv
  <1>6. ASSUME NEW batch \in Seq(MarketTick), NEW calculate \in BOOLEAN, AppendTicks(batch, calculate)
        PROVE  IndexInv'
    BY <1>6, IndexAppend
  <1>7. ASSUME NEW batch, NEW calculate, AppendRefused(batch, calculate) PROVE IndexInv'
    BY <1>7 DEF AppendRefused, IndexInv
  <1>8. CASE UNCHANGED tickVars
    BY <1>8 DEF tickVars, IndexInv
  <1> QED BY <1>1, <1>2, <1>3, <1>4, <1>5, <1>6, <1>7, <1>8, LiveAssumption DEF TickNext

\* A step of set_tick_span shows exactly the ticks of the range.
SpanStep == \A s, e \in m_start..(m_start + MsPerHour) :
                SetTickSpan(s, e) /\ InRange(s, e) # {} => Visible = InRange(s, e)

LEMMA SpanStepIsExact ==
    ASSUME TickTypeOK, IndexInv
    PROVE  SpanStep
  <1> SUFFICES ASSUME NEW s \in m_start..(m_start + MsPerHour), NEW e \in m_start..(m_start + MsPerHour),
                      SetTickSpan(s, e), InRange(s, e) # {}
               PROVE  Visible = InRange(s, e)
    BY DEF SpanStep
  <1>1. s \in Int /\ e \in Int
    BY HourIsPositive DEF TickTypeOK
  <1>2. m_ticks # <<>>
    BY DEF InRange
  <1>3. loaded # 0
    BY DEF SetTickSpan, Askable
  <1> QED BY <1>1, <1>2, <1>3, SpanShows DEF IndexInv

\* set_tick_span shows exactly the ticks of the half-open range, if there is
\* one, of a buffer whose source gives every hour in order of time.
THEOREM SpanIsExactHolds == ASSUME OrderedSource PROVE TickSpec => SpanIsExact
  <1>1. TickInit => IndexInv
    <2>1. ASSUME TickInit PROVE IndexInv
      <3>1. m_chunks[0] = 0 /\ loaded = 0
        BY <2>1, TickTimeAssumption DEF TickInit
      <3> QED BY <3>1 DEF IndexInv
    <2> QED BY <2>1
  <1>2. TickTypeOK /\ IndexInv /\ [TickNext]_tickVars => IndexInv'
    BY IndexStep
  <1>3. TickTypeOK /\ IndexInv => SpanStep
    BY SpanStepIsExact
  <1>4. SpanIsExact <=> [][SpanStep]_tickVars
    BY DEF SpanIsExact, SpanStep
  <1> QED BY <1>1, <1>2, <1>3, <1>4, TickTypeOKHolds, PTL DEF TickSpec

-----------------------------------------------------------------------------
(* An hour is the same on every path to it                                 *)

\* The price of the tick moved, for the processor given b.
Updated(b, i) == b.ticks[i].upd \/ (i = 1 /\ b.has_prev /\ b.ticks[i].last # b.prev.last)
\* The tick whose quote the i-th one shows.
Origin(b, i) == Final({k \in 1..i : k = 1 \/ Updated(b, k)})
Restoration(b, i) ==
    LET quote == WithQuote(b.ticks[Origin(b, i)], FixedSpread)
    IN  IF mode = "NONE" THEN [b.ticks[i] EXCEPT !.upd = Updated(b, i)]
        ELSE [b.ticks[i] EXCEPT !.upd = Updated(b, i), !.bid = quote.bid, !.ask = quote.ask]

\* The loop has restored the ticks up to i, and the others are as they came.
Restored(b, s, i) ==
    s.ok => \A k \in 1..Len(b.ticks) :
               s.ticks[k] = IF k <= i THEN Restoration(b, k) ELSE b.ticks[k]

LEMMA UpdatedType ==
    ASSUME NEW b, BufferType(b), NEW i \in 1..Len(b.ticks)
    PROVE  Updated(b, i) \in BOOLEAN /\ b.ticks[i] \in MarketTick
  <1>1. b.ticks[i] \in MarketTick
    BY DEF BufferType
  <1> QED BY <1>1 DEF Updated, MarketTick, BufferType

LEMMA OriginIs ==
    ASSUME NEW b, BufferType(b), NEW i \in 1..Len(b.ticks)
    PROVE  /\ Origin(b, i) \in 1..i
           /\ i = 1 \/ Updated(b, i) => Origin(b, i) = i
           /\ i > 1 /\ ~Updated(b, i) => Origin(b, i) = Origin(b, i - 1)
  <1> DEFINE S(j) == {k \in 1..j : k = 1 \/ Updated(b, k)}
  <1>1. Len(b.ticks) \in Nat
    BY DEF BufferType
  <1>2. S(i) \subseteq 0..i /\ 1 \in S(i) /\ i \in Nat
    BY <1>1
  <1>3. Origin(b, i) \in S(i) /\ \A j \in S(i) : Origin(b, i) >= j
    <2>1. Origin(b, i) = Final(S(i))
      BY DEF Origin
    <2> HIDE DEF S
    <2> QED BY <1>2, <2>1, FinalIs
  <1>4. i = 1 \/ Updated(b, i) => Origin(b, i) = i
    <2>1. i = 1 \/ Updated(b, i) => i \in S(i)
      BY <1>2
    <2>2. Origin(b, i) \in 1..i
      BY <1>3
    <2> QED BY <1>2, <1>3, <2>1, <2>2
  <1>5. i > 1 /\ ~Updated(b, i) => Origin(b, i) = Origin(b, i - 1)
    <2>1. i > 1 /\ ~Updated(b, i) => S(i) = S(i - 1)
      BY <1>2
    <2> QED BY <2>1 DEF Origin
  <1> QED BY <1>3, <1>4, <1>5

\* A quote depends on the side and the price alone.
LEMMA QuoteDepends ==
    ASSUME NEW x \in MarketTick, NEW y \in MarketTick, x.side = y.side, x.last = y.last
    PROVE  /\ WithQuote(x, FixedSpread).bid = WithQuote(y, FixedSpread).bid
           /\ WithQuote(x, FixedSpread).ask = WithQuote(y, FixedSpread).ask
           /\ WithQuote(x, FixedSpread)
                 = [x EXCEPT !.bid = WithQuote(x, FixedSpread).bid, !.ask = WithQuote(x, FixedSpread).ask]
  <1>1. CASE x.side = "TICK_FROM_BUY"
    <2>1. /\ WithQuote(x, FixedSpread) = [x EXCEPT !.ask = x.last, !.bid = x.last - FixedSpread]
          /\ WithQuote(y, FixedSpread) = [y EXCEPT !.ask = y.last, !.bid = y.last - FixedSpread]
      BY <1>1 DEF WithQuote
    <2> QED BY <2>1 DEF MarketTick
  <1>2. CASE x.side # "TICK_FROM_BUY"
    <2>1. /\ WithQuote(x, FixedSpread) = [x EXCEPT !.bid = x.last, !.ask = x.last + FixedSpread]
          /\ WithQuote(y, FixedSpread) = [y EXCEPT !.bid = y.last, !.ask = y.last + FixedSpread]
      BY <1>2 DEF WithQuote
    <2> QED BY <2>1 DEF MarketTick
  <1> QED BY <1>1, <1>2

\* A round restores its tick.
LEMMA RoundRestores ==
    ASSUME NEW b, BufferType(b), NEW n, n = Len(b.ticks), mode \in {"NONE", "FIXED_SPREAD"},
           NEW i \in 1..n, NEW s \in Loop(n), NEW r, r = ProcessTick(s, i, b.prev, b.has_prev),
           Restored(b, s, i - 1)
    PROVE  Restored(b, r, i)
  <1> DEFINE tick == Compared(s, i, b.prev, b.has_prev)
             before == Before(s, i, b.prev, b.has_prev)
             new == [tick EXCEPT !.bid = before.bid, !.ask = before.ask]
             x == FixedRestore(s, i, tick)
  <1> SUFFICES ASSUME r.ok PROVE Restored(b, r, i)
    BY DEF Restored
  <1>1. n \in Nat /\ b.prev \in MarketTick /\ b.has_prev \in BOOLEAN /\ b.ticks[i] \in MarketTick
    BY UpdatedType DEF BufferType
  <1>2. r = CASE ~s.ok -> s
          [] s.ok /\ mode = "NONE" -> Ended(s, i, tick)
          [] s.ok /\ mode # "NONE" /\ (i > 1 /\ ~tick.upd) -> Ended(s, i, new)
          [] s.ok /\ mode # "NONE" /\ ~(i > 1 /\ ~tick.upd) /\ tick.side = "none" ->
                 Thrown(s, i, tick)
          [] OTHER -> Done(Restore(s, i, tick, before), i)
    BY DEF ProcessTick, Compared, Before, Ended, Thrown, Done
  <1>3. before = IF i > 1 THEN s.ticks[i - 1] ELSE IF b.has_prev THEN b.prev ELSE NoTick
    BY DEF Before
  <1>4. tick = [s.ticks[i] EXCEPT !.upd = @ \/ (i = 1 /\ b.has_prev /\ s.ticks[i].last # b.prev.last)]
    BY DEF Compared
  <1> HIDE DEF tick, before
  <1>5. s.ok
    BY <1>2
  <1>6. \A k \in 1..n : s.ticks[k] = IF k <= i - 1 THEN Restoration(b, k) ELSE b.ticks[k]
    BY <1>5 DEF Restored
  <1>7. s.ticks[i] = b.ticks[i]
    BY <1>1, <1>6
  <1>8. tick = [b.ticks[i] EXCEPT !.upd = Updated(b, i)] /\ tick \in MarketTick
        /\ (tick.upd <=> Updated(b, i)) /\ tick.side = b.ticks[i].side /\ tick.last = b.ticks[i].last
    <2>1. tick = [b.ticks[i] EXCEPT !.upd = Updated(b, i)]
      BY <1>4, <1>7 DEF Updated
    <2>2. Updated(b, i) \in BOOLEAN
      BY UpdatedType
    <2> QED BY <1>1, <2>1, <2>2 DEF MarketTick
  <1>9. SUFFICES Others(n, s, i, r) /\ r.ticks[i] = Restoration(b, i)
    <2> SUFFICES ASSUME Others(n, s, i, r), r.ticks[i] = Restoration(b, i), NEW k \in 1..n
                 PROVE  r.ticks[k] = IF k <= i THEN Restoration(b, k) ELSE b.ticks[k]
      BY DEF Restored
    <2>1. CASE k = i
      BY <1>1, <2>1
    <2>2. CASE k # i
      <3>1. r.ticks[k] = s.ticks[k]
        BY <2>2 DEF Others
      <3> QED BY <1>1, <1>6, <2>2, <3>1
    <2> QED BY <2>1, <2>2
  <1>10. CASE mode = "NONE"
    <2>1. r = Ended(s, i, tick)
      BY <1>2, <1>5, <1>10
    <2>2. Round(n, s, i, r, tick, s.ok)
      BY <1>1, <1>8, <2>1, LoopTick
    <2>3. Restoration(b, i) = tick
      BY <1>8, <1>10 DEF Restoration
    <2> QED BY <2>2, <2>3 DEF Round
  <1>11. CASE mode = "FIXED_SPREAD" /\ i > 1 /\ ~tick.upd
    <2>1. r = Ended(s, i, new)
      BY <1>2, <1>5, <1>11
    <2>2. i - 1 \in 1..n /\ i - 1 <= i - 1
      BY <1>1, <1>11
    <2>3. before = Restoration(b, i - 1)
      BY <1>3, <1>6, <1>11, <2>2
    <2>4. Origin(b, i) = Origin(b, i - 1)
      BY <1>8, <1>11, OriginIs
    <2> DEFINE q == WithQuote(b.ticks[Origin(b, i)], FixedSpread)
    <2>5. b.ticks[i - 1] \in MarketTick
      BY <2>2, UpdatedType
    <2>6. before = [b.ticks[i - 1] EXCEPT !.upd = Updated(b, i - 1), !.bid = q.bid, !.ask = q.ask]
      BY <1>11, <2>3, <2>4 DEF Restoration
    <2>7. Restoration(b, i) = [b.ticks[i] EXCEPT !.upd = Updated(b, i), !.bid = q.bid, !.ask = q.ask]
      BY <1>11 DEF Restoration
    <2> HIDE DEF q
    <2>8. before.bid = q.bid /\ before.ask = q.ask
      BY <2>5, <2>6 DEF MarketTick
    <2>9. Restoration(b, i) = new
      BY <1>1, <1>8, <2>7, <2>8 DEF MarketTick
    <2>10. new \in MarketTick
      <3>1. before \in MarketTick
        BY <1>3, <1>11, <2>2 DEF Loop
      <3> QED BY <1>8, <3>1 DEF MarketTick
    <2>11. Round(n, s, i, r, new, s.ok)
      BY <1>1, <2>1, <2>10, LoopTick
    <2> QED BY <2>9, <2>11 DEF Round
  <1>12. CASE mode = "FIXED_SPREAD" /\ ~(i > 1 /\ ~tick.upd)
    <2>1. ~(tick.side = "none")
      <3> SUFFICES ASSUME tick.side = "none" PROVE FALSE
        OBVIOUS
      <3>1. r = Thrown(s, i, tick)
        BY <1>2, <1>5, <1>12
      <3>2. Round(n, s, i, r, tick, FALSE)
        BY <1>1, <1>8, <3>1, LoopThrows
      <3> QED BY <3>2 DEF Round
    <2>2. r = Done(x, i)
      BY <1>2, <1>5, <1>12, <2>1 DEF Restore
    <2> DEFINE q == WithQuote(tick, FixedSpread)
    <2>3. x = Quoted(s, i, q, s.prev2_spread, s.prev_spread, s.filter)
      BY DEF FixedRestore, Quoted, Loop
    <2>4. q \in MarketTick
      BY <1>8, QuoteType, FixedSpreadAssumption
    <2>5. Origin(b, i) = i
      BY <1>1, <1>8, <1>12, OriginIs
    <2>6. Restoration(b, i) = q
      <3> DEFINE p == WithQuote(b.ticks[i], FixedSpread)
      <3>1. Restoration(b, i) = [b.ticks[i] EXCEPT !.upd = Updated(b, i), !.bid = p.bid, !.ask = p.ask]
        BY <1>12, <2>5 DEF Restoration
      <3>2. q = [tick EXCEPT !.bid = q.bid, !.ask = q.ask] /\ q.bid = p.bid /\ q.ask = p.ask
        BY <1>1, <1>8, QuoteDepends
      <3> HIDE DEF p, q
      <3>3. q = [tick EXCEPT !.bid = p.bid, !.ask = p.ask]
        BY <3>2
      <3> QED BY <1>1, <1>8, <3>1, <3>3 DEF MarketTick
    <2> HIDE DEF q, x
    <2>7. Round(n, s, i, x, q, s.ok)
      <3>1. s.prev2_spread \in Nat /\ s.prev_spread \in Nat /\ s.filter \in Nat
        BY DEF Loop
      <3> QED BY <1>1, <2>3, <2>4, <3>1, LoopSet
    <2>8. r.ticks = x.ticks
      BY <1>1, <2>2, <2>7, LoopDone DEF Round
    <2> QED BY <2>6, <2>7, <2>8 DEF Round, Others
  <1> QED BY <1>10, <1>11, <1>12

LEMMA ProcessRestores ==
    ASSUME NEW b, BufferType(b), b.ticks # <<>>, mode \in {"NONE", "FIXED_SPREAD"}, NEW start,
           NEW r, r = Process(b, start), r.ok
    PROVE  r.ticks \in Seq(MarketTick) /\ Len(r.ticks) = Len(b.ticks)
           /\ \A k \in 1..Len(b.ticks) : r.ticks[k] = Restoration(b, k)
  <1> DEFINE n == Len(b.ticks)
             run == Rounds(b)
             T == {i \in 0..n : Restored(b, run[i], i)}
  <1>1. mode \in BidAskModel
    BY DEF BidAskModel
  <1>2. /\ n \in Nat /\ run \in [0..n -> Loop(n)]
        /\ run[0] = ProcessorStart(b.ticks, b.has_prev, b.spreads)
        /\ \A i \in 1..n : run[i] = ProcessTick(run[i - 1], i, b.prev, b.has_prev)
    BY <1>1, RoundsAre, StartType
  <1>3. Processed(b, r)
    BY <1>1, ProcessIs
  <1>4. r.ticks = run[n].ticks /\ r.ok = run[n].ok
    BY DEF Process
  <1> HIDE DEF run
  <1>5. 0 \in T
    <2>1. run[0].ticks = b.ticks
      BY <1>2, StartType
    <2>2. \A k \in 1..n : ~(k <= 0)
      BY <1>2
    <2> QED BY <1>2, <2>1, <2>2 DEF Restored
  <1>6. ASSUME NEW i \in 1..n, i - 1 \in T PROVE i \in T
    <2>1. run[i - 1] \in Loop(n) /\ Restored(b, run[i - 1], i - 1)
      BY <1>2, <1>6
    <2>2. Restored(b, run[i], i)
      BY <1>2, <2>1, RoundRestores
    <2> QED BY <1>2, <2>2
  <1> HIDE DEF T
  <1>7. 0..n \subseteq T
    BY <1>2, <1>5, <1>6, BoundedInduction
  <1>8. Restored(b, run[n], n)
    BY <1>2, <1>7 DEF T
  <1> QED BY <1>2, <1>3, <1>4, <1>8 DEF Restored, Processed

\* The tick was carried from the end of an hour.
LastOf(ticks) == ticks[Len(ticks)]
CarriedFrom(tick, k) ==
    /\ Stored(k) # <<>>
    /\ tick.time = LastOf(Stored(k)).time /\ tick.last = LastOf(Stored(k)).last
Carries(b) == b.has_prev => \E k \in Hour : CarriedFrom(b.prev, k)
CarriedInv ==
    mode \in {"NONE", "FIXED_SPREAD"} /\ appends = 0 /\ m_has_prev_data =>
        \E k \in Hour : CarriedFrom(m_prev_tick, k)

\* process() of an hour carries its last tick, or what it carried if it throws.
LEMMA ProcessCarries ==
    ASSUME NEW b, BufferType(b), NEW k \in Hour, b.ticks = Stored(k), b.ticks # <<>>, Carries(b),
           mode \in {"NONE", "FIXED_SPREAD"}, NEW start, NEW r, r = Process(b, start)
    PROVE  Carries(r) /\ (r.ok => r.has_prev = TRUE /\ CarriedFrom(r.prev, k))
  <1> DEFINE n == Len(b.ticks)
             p == Rounds(b)[n]
  <1>1. n \in 1..n /\ b.ticks[n] \in MarketTick
    BY DEF BufferType
  <1>2. r.prev = (IF p.ok THEN p.ticks[Len(p.ticks)] ELSE b.prev) /\ r.has_prev = (p.ok \/ b.has_prev)
        /\ r.ok = p.ok /\ r.ticks = p.ticks
    BY DEF Process
  <1> HIDE DEF p
  <1>3. ASSUME r.ok PROVE r.has_prev = TRUE /\ CarriedFrom(r.prev, k)
    <2>1. Len(r.ticks) = n /\ r.ticks[n] = Restoration(b, n)
      BY <1>1, <1>3, ProcessRestores
    <2>2. r.prev = Restoration(b, n)
      BY <1>2, <1>3, <2>1
    <2>3. r.prev.time = b.ticks[n].time /\ r.prev.last = b.ticks[n].last
      BY <1>1, <2>2 DEF Restoration, MarketTick
    <2> QED BY <1>2, <1>3, <2>3 DEF CarriedFrom, LastOf
  <1>4. CASE r.ok
    BY <1>3, <1>4 DEF Carries
  <1>5. CASE ~r.ok
    BY <1>2, <1>5 DEF Carries
  <1> QED BY <1>3, <1>4, <1>5

\* What goes into a fetch carries the end of the hour before, if that has one.
PrecededBy(c, h) ==
    /\ c.has_prev <=> Stored(h - 1) # <<>>
    /\ c.has_prev => CarriedFrom(c.prev, h - 1)

LEMMA AdjacentHour ==
    ASSUME TickTypeOK, CarriedIsAdjacent, NEW h \in Hour, Continues(h), NEW k \in Hour,
           CarriedFrom(m_prev_tick, k)
    PROVE  k = h - 1
  <1> DEFINE t == m_prev_tick.time
             M == MsPerHour
  <1>1. h \in Nat /\ k \in Nat /\ M \in Nat \ {0} /\ k \in Int
    BY HourIsPositive, TickTimeAssumption DEF Hour
  <1>2. k * M <= t /\ t < (k + 1) * M
    <2> DEFINE q == Stored(k)
    <2>1. /\ q \in Seq(MarketTick) /\ source \in [Hour -> Pattern]
          /\ \A i \in 1..Len(q) : k * M <= q[i].time /\ q[i].time < (k + 1) * M
      BY <1>1, StoredType DEF TickTypeOK
    <2>2. q # <<>> /\ t = q[Len(q)].time
      BY DEF CarriedFrom, LastOf
    <2> HIDE DEF q, t
    <2>3. Len(q) \in 1..Len(q)
      BY <2>1, <2>2
    <2> QED BY <2>1, <2>2, <2>3
  <1>3. h * M - M <= t /\ t < h * M /\ t \in Nat
    <2>1. m_end = h * M /\ m_has_prev_data
      BY DEF Continues
    <2>2. t \in Nat
      BY DEF TickTypeOK, MarketTick
    <2> QED BY <2>1, <2>2 DEF CarriedIsAdjacent
  <1>4. h * M \in Nat /\ k * M \in Nat /\ (k + 1) * M = k * M + M
    BY <1>1
  <1> HIDE DEF t, M
  <1>5. ~(h <= k)
    <2> SUFFICES ASSUME h <= k PROVE FALSE
      OBVIOUS
    <2>1. CASE h = k
      BY <1>2, <1>3, <1>4, <2>1
    <2>2. CASE h < k
      BY <1>1, <1>2, <1>3, <1>4, <2>2, Apart
    <2> QED BY <1>1, <2>1, <2>2
  <1>6. ~(k + 1 < h)
    <2> SUFFICES ASSUME k + 1 < h PROVE FALSE
      OBVIOUS
    <2>1. (k + 1) * M + M <= h * M /\ (k + 1) * M \in Nat
      BY <1>1, <1>4, Apart
    <2> QED BY <1>1, <1>2, <1>3, <1>4, <2>1
  <1> QED BY <1>1, <1>5, <1>6

LEMMA BeforeFetchCarries ==
    ASSUME TickTypeOK, CarriedInv, appends = 0, mode \in {"NONE", "FIXED_SPREAD"}, NEW h \in Hour
    PROVE  /\ Carries(Buffer) /\ Carries(BeforeFetch(h)) /\ Carries(Fetched(h))
           /\ CarriedIsAdjacent /\ BeforeFetch(h).ok => PrecededBy(BeforeFetch(h), h)
  <1> DEFINE u == Buffer
             no == FALSE
             t == Stored(h - 1)
             b == [u EXCEPT !.ticks = t, !.has_prev = no]
             c == BeforeFetch(h)
             r == Process(b, (h - 1) * MsPerHour)
  <1>1. BufferType(u) /\ IsBuffer(u) /\ u.has_prev = m_has_prev_data /\ u.prev = m_prev_tick
    BY BeforeFetchType DEF Buffer, IsBuffer
  <1>2. Carries(u)
    BY <1>1 DEF Carries, CarriedInv
  <1>3. h - 1 \in Int /\ source \in [Hour -> Pattern]
    BY TickTimeAssumption DEF TickTypeOK, Hour
  <1>4. t \in Seq(MarketTick) /\ (t # <<>> => h - 1 \in Hour)
    BY <1>3, StoredType DEF Stored
  <1>5. c = IF Continues(h) THEN u ELSE IF b.ticks = <<>> THEN b ELSE r
    BY DEF BeforeFetch, Reloaded
  <1>6. b = [u EXCEPT !.ticks = t, !.has_prev = no] /\ no = FALSE
    OBVIOUS
  <1> HIDE DEF u, t, no, b, c
  <1>7. b.ticks = t /\ b.has_prev = no /\ b.prev = u.prev /\ b.spreads = u.spreads
    BY <1>1, <1>6 DEF IsBuffer
  <1>8. b.has_prev = FALSE
    BY <1>6, <1>7
  <1>9. BufferType(b) /\ Carries(b)
    BY <1>1, <1>4, <1>7, <1>8 DEF BufferType, Carries
  <1>10. b.ticks # <<>> => Carries(r) /\ (r.ok => r.has_prev = TRUE /\ CarriedFrom(r.prev, h - 1))
    <2> HIDE DEF r
    <2> SUFFICES ASSUME b.ticks # <<>>
                 PROVE  Carries(r) /\ (r.ok => r.has_prev = TRUE /\ CarriedFrom(r.prev, h - 1))
      OBVIOUS
    <2>1. h - 1 \in Hour /\ b.ticks = Stored(h - 1)
      BY <1>4, <1>7 DEF t
    <2> QED BY <1>9, <2>1, ProcessCarries DEF r
  <1> HIDE DEF r
  <1>11. Carries(c)
    <2>1. CASE Continues(h)
      BY <1>2, <1>5, <2>1
    <2>2. CASE ~Continues(h) /\ b.ticks = <<>>
      BY <1>5, <1>9, <2>2
    <2>3. CASE ~Continues(h) /\ b.ticks # <<>>
      BY <1>5, <1>10, <2>3
    <2> QED BY <2>1, <2>2, <2>3
  <1>12. Carries(Fetched(h))
    BY <1>11, BeforeFetchType DEF Carries, c
  <1>13. ASSUME CarriedIsAdjacent, c.ok PROVE PrecededBy(c, h)
    <2>1. CASE Continues(h)
      <3>1. c = u /\ m_has_prev_data
        BY <1>5, <2>1 DEF Continues
      <3>2. PICK k \in Hour : CarriedFrom(m_prev_tick, k)
        BY <3>1 DEF CarriedInv
      <3>3. k = h - 1
        BY <1>13, <2>1, <3>2, AdjacentHour
      <3>4. CarriedFrom(m_prev_tick, h - 1)
        BY <3>2, <3>3
      <3>5. Stored(h - 1) # <<>>
        BY <3>4 DEF CarriedFrom
      <3> QED BY <1>1, <3>1, <3>4, <3>5 DEF PrecededBy
    <2>2. CASE ~Continues(h) /\ b.ticks = <<>>
      <3>1. c = b /\ Stored(h - 1) = <<>>
        BY <1>5, <1>7, <2>2 DEF t
      <3> QED BY <1>8, <3>1 DEF PrecededBy
    <2>3. CASE ~Continues(h) /\ b.ticks # <<>>
      <3>1. c = r
        BY <1>5, <2>3
      <3>2. r.has_prev = TRUE /\ CarriedFrom(r.prev, h - 1)
        BY <1>10, <1>13, <2>3, <3>1
      <3>3. Stored(h - 1) # <<>>
        BY <3>2 DEF CarriedFrom
      <3> QED BY <3>1, <3>2, <3>3 DEF PrecededBy
    <2> QED BY <2>1, <2>2, <2>3
  <1> QED BY <1>2, <1>11, <1>12, <1>13 DEF u, c

\* What is carried on is carried from an hour of the source.
LEMMA CarryBecomes ==
    ASSUME NEW b, Carries(b), Becomes(b), source' = source
    PROVE  CarriedInv'
  <1>1. m_prev_tick' = b.prev /\ m_has_prev_data' = b.has_prev
    BY DEF Becomes
  <1>2. ASSUME NEW k PROVE CarriedFrom(b.prev, k) => CarriedFrom(m_prev_tick, k)'
    BY <1>1 DEF CarriedFrom, Stored, LastOf
  <1> QED BY <1>1, <1>2 DEF CarriedInv, Carries

LEMMA CarryStep ==
    ASSUME TickTypeOK, CarriedInv, [TickNext]_tickVars
    PROVE  CarriedInv'
  <1> SUFFICES ASSUME mode' \in {"NONE", "FIXED_SPREAD"} PROVE CarriedInv'
    BY DEF CarriedInv
  <1>1. mode' = mode /\ source' = source
    BY DEF TickNext, tickVars, FetchTicks, FetchEmpty, FetchReloadThrows, FetchSourceFails, SetTickSpan,
           AppendTicks, AppendRefused, KeepsClient
  <1>2. mode \in {"NONE", "FIXED_SPREAD"}
    BY <1>1
  <1>3. ASSUME NEW h \in Hour, FetchTicks(h) PROVE CarriedInv'
    <2> DEFINE v == Fetched(h)
               b == Process(v, h * MsPerHour)
    <2>1. Becomes(b) /\ appends = 0
      BY <1>3 DEF FetchTicks
    <2>2. BufferType(v) /\ v.ticks = Stored(h) /\ v.ticks # <<>>
      BY <1>3, BeforeFetchType DEF FetchTicks
    <2>3. Carries(v)
      BY <1>2, <2>1, BeforeFetchCarries
    <2> HIDE DEF v
    <2>4. Carries(b)
      BY <1>2, <2>2, <2>3, ProcessCarries
    <2> QED BY <1>1, <2>1, <2>4, CarryBecomes
  <1>4. ASSUME NEW h \in Hour, FetchEmpty(h) PROVE CarriedInv'
    <2> DEFINE u == Fetched(h)
               none == [f \in 0..SecPerHour |-> 0]
               no == FALSE
               b == [u EXCEPT !.chunks = none, !.has_prev = no]
    <2>1. Becomes(b) /\ no = FALSE
      BY <1>4 DEF FetchEmpty
    <2>2. IsBuffer(u)
      BY BeforeFetchType
    <2> HIDE DEF u, none, no
    <2>3. b.has_prev = no
      BY <2>2 DEF IsBuffer
    <2> HIDE DEF b
    <2>4. m_has_prev_data' = FALSE
      BY <2>1, <2>3 DEF Becomes
    <2> QED BY <2>4 DEF CarriedInv
  <1>5. ASSUME NEW h \in Hour, FetchReloadThrows(h) PROVE CarriedInv'
    <2>1. Becomes(BeforeFetch(h)) /\ Carries(BeforeFetch(h))
      BY <1>2, <1>5, BeforeFetchCarries DEF FetchReloadThrows
    <2> QED BY <1>1, <2>1, CarryBecomes
  <1>6. ASSUME NEW h \in Hour, FetchSourceFails(h) PROVE CarriedInv'
    <2> DEFINE u == Buffer
               v == Fetched(h)
               t == <<>>
               no == FALSE
    <2>1. IsBuffer(u) /\ IsBuffer(v) /\ Carries(u) /\ Carries(v) /\ no = FALSE
      BY <1>2, <1>6, BeforeFetchChunk, BeforeFetchType, BeforeFetchCarries DEF FetchSourceFails
    <2>2. \/ Becomes([u EXCEPT !.ticks = t])
          \/ Becomes([u EXCEPT !.ticks = t, !.has_prev = no])
          \/ Becomes([v EXCEPT !.ticks = t])
      BY <1>6 DEF FetchSourceFails
    <2> HIDE DEF u, v, t, no
    <2>3. ASSUME NEW c, IsBuffer(c), Carries(c), NEW b,
                 b = [c EXCEPT !.ticks = t] \/ b = [c EXCEPT !.ticks = t, !.has_prev = no]
          PROVE  Carries(b)
      <3>1. b.prev = c.prev /\ b.has_prev \in {no, c.has_prev}
        BY <2>3 DEF IsBuffer
      <3> QED BY <2>1, <2>3, <3>1 DEF Carries
    <2>4. PICK b : Becomes(b) /\ Carries(b)
      BY <2>1, <2>2, <2>3
    <2> QED BY <1>1, <2>4, CarryBecomes
  <1>7. ASSUME UNCHANGED <<m_prev_tick, m_has_prev_data, appends>> PROVE CarriedInv'
    <2>1. ASSUME NEW k PROVE CarriedFrom(m_prev_tick, k) => CarriedFrom(m_prev_tick, k)'
      BY <1>1, <1>7 DEF CarriedFrom, Stored, LastOf
    <2> QED BY <1>1, <1>7, <2>1 DEF CarriedInv
  <1>8. ASSUME NEW s, NEW e, SetTickSpan(s, e) PROVE CarriedInv'
    BY <1>7, <1>8 DEF SetTickSpan
  <1>9. ASSUME NEW batch, NEW calculate, AppendTicks(batch, calculate) \/ AppendRefused(batch, calculate)
        PROVE  CarriedInv'
    <2>1. appends' = appends + 1 /\ appends \in Nat
      BY <1>9 DEF AppendTicks, AppendRefused, TickTypeOK
    <2> QED BY <2>1 DEF CarriedInv
  <1>10. CASE UNCHANGED tickVars
    BY <1>7, <1>10 DEF tickVars
  <1> QED BY <1>3, <1>4, <1>5, <1>6, <1>8, <1>9, <1>10 DEF TickNext

\* The ticks a fetch leaves are those the hour should have.
LEMMA RestoredAsExpected ==
    ASSUME TickTypeOK, mode \in {"NONE", "FIXED_SPREAD"}, NEW h \in Hour, Stored(h) # <<>>,
           NEW c, PrecededBy(c, h), c.has_prev \in BOOLEAN, c.prev \in MarketTick,
           c.ticks = Stored(h), BufferType(c),
           NEW ticks, ticks \in Seq(MarketTick), Len(ticks) = Len(c.ticks),
           \A k \in 1..Len(c.ticks) : ticks[k] = Restoration(c, k)
    PROVE  ticks = Expected(h)
  <1> DEFINE t == Stored(h)
             p == Stored(h - 1)
             n == Len(t)
             upd(i) == \/ t[i].upd
                       \/ i = 1 /\ p # <<>> /\ p[Len(p)].last # t[1].last
             origin(i) == Final({k \in 1..i : k = 1 \/ upd(k)})
             quoted(i) == WithQuote(t[origin(i)], FixedSpread)
  <1>1. t \in Seq(MarketTick) /\ n \in Nat /\ DOMAIN t = 1..n
    BY DEF BufferType
  <1>2. Expected(h) = [i \in DOMAIN t |->
            IF mode = "NONE" THEN [t[i] EXCEPT !.upd = upd(i)]
            ELSE [t[i] EXCEPT !.upd = upd(i), !.bid = quoted(i).bid, !.ask = quoted(i).ask]]
    BY DEF Expected
  <1>3. c.has_prev <=> p # <<>>
    BY DEF PrecededBy
  <1>4. p # <<>> => c.prev.last = p[Len(p)].last
    BY <1>3 DEF PrecededBy, CarriedFrom, LastOf
  <1> HIDE DEF p, t, n
  <1>5. ASSUME NEW i \in 1..n PROVE Updated(c, i) = upd(i)
    <2>1. Updated(c, i) \in BOOLEAN /\ t[i] \in MarketTick
      BY UpdatedType DEF n, t
    <2>2. upd(i) \in BOOLEAN
      BY <2>1 DEF MarketTick
    <2>3. Updated(c, i) <=> upd(i)
      <3>1. c.ticks = t
        BY DEF t
      <3> QED BY <1>3, <1>4, <3>1 DEF Updated
    <2> HIDE DEF upd
    <2> QED BY <2>1, <2>2, <2>3
  <1>6. ASSUME NEW i \in 1..n PROVE Origin(c, i) = origin(i)
    <2>1. \A k \in 1..i : k \in 1..n
      BY <1>1
    <2>2. {k \in 1..i : k = 1 \/ Updated(c, k)} = {k \in 1..i : k = 1 \/ upd(k)}
      <3> HIDE DEF upd
      <3> QED BY <1>5, <2>1
    <2> QED BY <2>2 DEF Origin
  <1> HIDE DEF upd, origin
  <1>7. ASSUME NEW i \in 1..n PROVE ticks[i] = Expected(h)[i]
    <2> DEFINE q == WithQuote(t[origin(i)], FixedSpread)
               x == Updated(c, i)
    <2>1. ticks[i] = Restoration(c, i)
      BY DEF n, t
    <2>2. Restoration(c, i) = IF mode = "NONE" THEN [t[i] EXCEPT !.upd = x]
                              ELSE [t[i] EXCEPT !.upd = x, !.bid = q.bid, !.ask = q.ask]
      BY <1>6 DEF Restoration, t
    <2>3. x = upd(i)
      BY <1>5
    <2>4. Expected(h)[i] = IF mode = "NONE" THEN [t[i] EXCEPT !.upd = upd(i)]
                           ELSE [t[i] EXCEPT !.upd = upd(i), !.bid = q.bid, !.ask = q.ask]
      BY <1>1, <1>2
    <2> HIDE DEF x, q
    <2> QED BY <2>1, <2>2, <2>3, <2>4
  <1>8. Len(ticks) = n
    BY DEF n, t
  <1>9. ticks = [i \in 1..n |-> ticks[i]] /\ Expected(h) = [i \in 1..n |-> Expected(h)[i]]
    <2>1. ticks = [i \in 1..n |-> ticks[i]]
      BY <1>8
    <2> DEFINE X(i) == IF mode = "NONE" THEN [t[i] EXCEPT !.upd = upd(i)]
                       ELSE [t[i] EXCEPT !.upd = upd(i), !.bid = quoted(i).bid, !.ask = quoted(i).ask]
               e == Expected(h)
    <2>2. e = [i \in 1..n |-> X(i)]
      BY <1>1, <1>2
    <2> HIDE DEF X, e
    <2>3. e = [i \in 1..n |-> e[i]]
      BY <2>2
    <2> QED BY <2>1, <2>3 DEF e
  <1> HIDE DEF quoted
  <1> QED BY <1>7, <1>9

\* A fetch gives an hour the ticks it should have.
HourStep == /\ loaded' # 0 /\ (loaded' # loaded \/ m_ticks' # m_ticks)
            /\ appends' = 0 /\ ~threw' /\ CarriedIsAdjacent
            /\ mode \in {"NONE", "FIXED_SPREAD"}
            => m_ticks' = Expected(loaded')

LEMMA HourStepHolds ==
    ASSUME TickTypeOK, CarriedInv, [TickNext]_tickVars
    PROVE  HourStep
  <1> SUFFICES ASSUME loaded' # 0, loaded' # loaded \/ m_ticks' # m_ticks, appends' = 0,
                      CarriedIsAdjacent, mode \in {"NONE", "FIXED_SPREAD"}
               PROVE  m_ticks' = Expected(loaded')
    BY DEF HourStep
  <1>1. ASSUME NEW h \in Hour, FetchTicks(h) PROVE m_ticks' = Expected(loaded')
    <2> DEFINE c == Fetched(h)
               b == Process(c, h * MsPerHour)
    <2>1. /\ appends = 0 /\ BeforeFetch(h).ok /\ Stored(h) # <<>>
          /\ m_ticks' = b.ticks /\ loaded' = (IF b.ok THEN h ELSE 0)
      BY <1>1 DEF FetchTicks, Becomes
    <2>2. b.ok /\ loaded' = h
      BY <2>1
    <2>3. BufferType(c) /\ c.ticks = Stored(h) /\ c.prev = BeforeFetch(h).prev
          /\ c.has_prev = BeforeFetch(h).has_prev
      BY BeforeFetchType
    <2>4. PrecededBy(BeforeFetch(h), h)
      BY <2>1, BeforeFetchCarries
    <2>5. PrecededBy(c, h)
      BY <2>3, <2>4 DEF PrecededBy
    <2> HIDE DEF c
    <2>6. b.ticks \in Seq(MarketTick) /\ Len(b.ticks) = Len(c.ticks)
          /\ \A k \in 1..Len(c.ticks) : b.ticks[k] = Restoration(c, k)
      BY <2>1, <2>2, <2>3, ProcessRestores
    <2> HIDE DEF b
    <2>7. b.ticks = Expected(h)
      BY <2>1, <2>3, <2>5, <2>6, RestoredAsExpected DEF BufferType
    <2> QED BY <2>1, <2>2, <2>7
  <1>2. ASSUME NEW h \in Hour, FetchEmpty(h) PROVE m_ticks' = Expected(loaded')
    <2> DEFINE u == Fetched(h)
               none == [f \in 0..SecPerHour |-> 0]
               no == FALSE
               b == [u EXCEPT !.chunks = none, !.has_prev = no]
    <2>1. m_ticks' = b.ticks /\ Stored(h) = <<>> /\ loaded' = h
      BY <1>2 DEF FetchEmpty, Becomes
    <2>2. IsBuffer(u) /\ u.ticks = Stored(h)
      BY BeforeFetchType
    <2> HIDE DEF u, none, no
    <2>3. b.ticks = u.ticks
      BY <2>2 DEF IsBuffer
    <2>4. m_ticks' = <<>>
      BY <2>1, <2>2, <2>3
    <2>5. DOMAIN Stored(h) = {}
      BY <2>1
    <2>6. Expected(h) = <<>>
      <3> DEFINE e == Expected(h)
      <3>1. e = [i \in {} |-> e[i]]
        BY <2>5 DEF Expected
      <3> HIDE DEF e
      <3>2. e \in Seq(MarketTick) /\ Len(e) = 0
        BY <3>1
      <3>3. e = <<>>
        BY <3>2
      <3> QED BY <3>3 DEF e
    <2> QED BY <2>1, <2>4, <2>6
  <1>3. ASSUME NEW h \in Hour, FetchReloadThrows(h) \/ FetchSourceFails(h)
        PROVE  m_ticks' = Expected(loaded')
    BY <1>3 DEF FetchReloadThrows, FetchSourceFails
  <1>4. ASSUME NEW s, NEW e, SetTickSpan(s, e) PROVE m_ticks' = Expected(loaded')
    BY <1>4 DEF SetTickSpan
  <1>5. ASSUME NEW batch, NEW calculate, AppendTicks(batch, calculate) \/ AppendRefused(batch, calculate)
        PROVE  m_ticks' = Expected(loaded')
    <2>1. appends' = appends + 1 /\ appends \in Nat
      BY <1>5 DEF AppendTicks, AppendRefused, TickTypeOK
    <2> QED BY <2>1
  <1>6. CASE UNCHANGED tickVars
    BY <1>6 DEF tickVars
  <1> QED BY <1>1, <1>2, <1>3, <1>4, <1>5, <1>6 DEF TickNext

\* On whatever path the buffer came to an hour, fetch_ticks gives it the same
\* ticks, when the spread is fixed or the quotes come from the source.
THEOREM HourIsPathIndependentHolds == TickSpec => HourIsPathIndependent
  <1>1. TickInit => CarriedInv
    BY DEF TickInit, CarriedInv
  <1>2. HourIsPathIndependent <=> [][HourStep]_tickVars
    BY DEF HourIsPathIndependent, HourStep
  <1> QED BY <1>1, <1>2, CarryStep, HourStepHolds, TickTypeOKHolds, PTL DEF TickSpec
=============================================================================
