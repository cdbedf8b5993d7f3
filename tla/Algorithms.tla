----------------------------- MODULE Algorithms -----------------------------
(***************************************************************************)
(* The pure functions of the library, each called once: op names the       *)
(* function, input and base are its arguments, answer is what it returns.  *)
(***************************************************************************)
EXTENDS TickCodec, BarTransforms, TimeFrames, SymbolKeys

CONSTANTS
    Signed, Unsigned,       \* sequences of signed and of unsigned integers
    Bases,                  \* initial values
    RUN_BITS,               \* the length of a value that encode_with_repeats counts
    BarSeqs, AnyBars,       \* ascending sequences of bars, and sequences in any order
    StaleBars,              \* what a dangling reference may find
    Intervals, Times        \* intervals and times of the transforms

\* Values fit 64 bits, and a count of elements 31.
ASSUME InputAssumption ==
    /\ Signed \subseteq Seq(-Half_of(W64)..Half_of(W64) - 1)
    /\ Bases \subseteq -Half_of(W64)..Half_of(W64) - 1
    /\ Unsigned \subseteq Seq(0..Range_of(W64) - 1)
    /\ \A s \in Unsigned : Len(s) < Half_of(W32)
ASSUME BarAssumption ==
    /\ BarSeqs \cup AnyBars \subseteq Seq(MarketBar) /\ StaleBars \subseteq MarketBar
    /\ \A bars \in BarSeqs : \A i \in 1..Len(bars) - 1 : bars[i].time < bars[i + 1].time
    /\ Intervals \subseteq Nat \ {0} /\ Times \subseteq Nat
ASSUME RunAssumption == Range_of(RUN_BITS) \in Nat \ {0}

VARIABLES op, input, base, answer
avars == <<op, input, base, answer>>

AlgInit == op = "none" /\ input = <<>> /\ base = 0 /\ answer = <<>>
Returns(name, x, b, y) ==
    op' = name /\ input' = x /\ base' = b /\ answer' = y

-----------------------------------------------------------------------------
(* Codecs: encode, then decode.  [ok, out], and a refusal stands.          *)
Then(coded, Decode(_)) == IF coded.ok THEN Coded(Decode(coded.out)) ELSE coded

CodeSigned32 == \E x \in {s \in Signed : EveryFits(W32, s)}, b \in {c \in Bases : fits_signed(W32, c)} :
    \/ Returns("zig_zag", x, b, Coded(decode_zig_zag(encode_zig_zag(x))))
    \/ Returns("delta", x, b, Coded(decode_delta(encode_delta(x, b), b)))
    \/ Returns("delta_int32", x, b, Then(encode_delta_int32(x, b), LAMBDA d : decode_delta_int32(d, b)))
    \/ Returns("delta_zig_zag_int32", x, b,
               Coded(decode_delta_zig_zag_int32(encode_delta_zig_zag_int32(x, b), b)))
    \/ \E build \in {"sse2", "scalar"} :
        \/ Returns(IF build = "sse2" THEN "chunked8_int32_sse2" ELSE "chunked8_int32_scalar", x, b, Coded(
               decode_delta_zig_zag_chunked8_int32(build, encode_delta_zig_zag_chunked8_int32(x, b), b)))
        \/ Returns(IF build = "sse2" THEN "chunked4_int32_sse2" ELSE "chunked4_int32_scalar", x, b, Coded(
               decode_delta_zig_zag_chunked4_int32(build, encode_delta_zig_zag_chunked4_int32(x, b), b)))

CodeSigned64 == \E x \in Signed, b \in Bases :
    \/ Returns("delta_int64", x, b, Coded(decode_delta_int64(encode_delta_int64(x, b), b)))
    \/ Returns("delta_zig_zag_int64", x, b,
               Coded(decode_delta_zig_zag_int64(encode_delta_zig_zag_int64(x, b), b)))
    \/ Returns("last_delta_int32", x, b,
               Then(encode_last_delta_zig_zag_int32(x, b),
                    LAMBDA d : decode_last_delta_zig_zag_int32(d, b)))
    \/ Returns("last_delta_int64", x, b,
               Coded(decode_last_delta_zig_zag_int64(encode_last_delta_zig_zag_int64(x, b), b)))
    \/ \E build \in {"sse2", "scalar"} :
           Returns(IF build = "sse2" THEN "chunked4_int64_sse2" ELSE "chunked4_int64_scalar", x, b, Coded(
               decode_delta_zig_zag_chunked4_int64(build, encode_delta_zig_zag_chunked4_int64(x, b), b)))

CodeUnsigned32 == \E x \in {s \in Unsigned : \A i \in DOMAIN s : s[i] < Range_of(W32)}, b \in Bases \cap 0..Range_of(W32) - 1 :
    \/ Returns("delta_sorted_u32", x, b, Coded(decode_delta_sorted(W32, encode_delta_sorted(W32, x))))
    \/ Returns("delta_zig_zag_uint32", x, b,
               Then(encode_delta_zig_zag_uint32(x, b), LAMBDA d : decode_delta_zig_zag_uint32(d, b)))

CodeUnsigned64 == \E x \in Unsigned, b \in Bases \cap Nat :
    \/ Returns("delta_sorted_u64", x, b, Coded(decode_delta_sorted(W64, encode_delta_sorted(W64, x))))
    \/ Returns("delta_zig_zag_uint64", x, b,
               Coded(decode_delta_zig_zag_uint64(encode_delta_zig_zag_uint64(x, b), b)))
    \/ Returns("time_delta", x, b,
               Then(encode_time_delta(x, b), LAMBDA d : decode_time_delta(d, b)))

\* Values of both widths keep the top bit free for the mark of a run.
\* A run that is counted in its word leaves place for the count.
CodeRuns == \E x \in {s \in Unsigned \ {<<>>} : \A i \in DOMAIN s : s[i] < Half_of(W32)} :
    \/ /\ (Len(x) + 1) * Range_of(RUN_BITS) <= Half_of(W32)
       /\ \/ Returns("repeats_u32", x, 0,
                     Coded(decode_with_repeats_u32(RUN_BITS, encode_with_repeats_u32(RUN_BITS, x))))
          \/ Returns("repeats_u64", x, 0,
                     Coded(decode_with_repeats_u64(RUN_BITS, encode_with_repeats_u64(RUN_BITS, x))))
    \/ Returns("zero_with_repeats", x, 0, Coded(decode_zero_with_repeats(encode_zero_with_repeats(x))))
    \/ Returns("run_length_u32", x, 0, Coded(decode_run_length(encode_run_length_u32(x))))

CodeColumns == \E x \in Unsigned \ {<<>>} :
    \/ LET f == encode_frequency(x)
       IN  Returns("frequency", x, 0, Coded(decode_frequency(f.codes, f.values, f.index_map)))
    \/ /\ \A i \in DOMAIN x : x[i] < Half_of(W64)
       /\ Returns("price", x, x[1], Coded(decode_price_last(encode_price_last(x, x[1]), x[1])))
    \/ Returns("volume", x, 0, Coded(decode_volume(encode_volume(x))))
    \/ LET t == encode_time(x, 0)
       IN  Returns("time", x, 0, [ok |-> t.ok, out |-> IF t.ok THEN decode_time(t.out[1], 0) ELSE <<>>])

-----------------------------------------------------------------------------
MakeKeys == \E m \in 0..MARKETS - 1, e \in 0..EXCHANGES - 1, s \in 0..SYMBOLS - 1, t \in 0..2 * TIMES - 1 :
    Returns("symbol_key", <<m, e, s>>, t,
        [key |-> make_symbol_key64(m, e, s, t),
         combined |-> combine_symbol_key64(make_symbol_key32(m, e, s), t),
         parts |-> extract_symbol_key64(make_symbol_key64(m, e, s, t)),
         halves |-> split_symbol_key64(make_symbol_key64(m, e, s, t)),
         symbol |-> extract_symbol_key32(make_symbol_key32(m, e, s))])

\* Intervals that are no frame: seconds, a half minute and a half, two hours.
OddIntervals == {2000, 45000, 7200000, 1500}
LookUpFrames == \E tf \in TimeFrame, ms \in {to_ms(f) : f \in TimeFrame \ {UNKNOWN}} \cup OddIntervals :
    \/ Returns("lower_interval", <<>>, ms, get_lower_bar_interval_ms(ms))
    \/ /\ tf # UNKNOWN
       /\ Returns("frame", <<tf>>, ms,
            [same |-> to_timeframe_ms(to_ms(tf)),
             lower |-> get_lower_timeframe(tf),
             aligned |-> is_tf_aligned(ms, tf),
             segment |-> IF is_segmentable_timeframe(tf) THEN get_segment_duration_ms(tf) ELSE 0,
             of_interval |-> IF is_segmentable_bar_interval_ms(to_ms(tf))
                             THEN segment_duration_of_interval(to_ms(tf)) ELSE 0])

-----------------------------------------------------------------------------
TransformBars == \E x \in BarSeqs, t, u \in Times, n \in Intervals :
    \/ Returns("crop", x, t, [before |-> crop_before(x, t), after |-> crop_after(x, t)])
    \/ \E flags \in SUBSET SpreadFlags :
          Returns("resample", x, n, [mode |-> spread_mode(flags), bars |-> resample_market_bars(x, n, flags)])
    \/ t <= u /\ Returns("fill", x, <<n, t, u>>, fill_missing_bars(x, n, t, u))
    \/ \E stale \in StaleBars :
          t <= u /\ Returns("fill_inplace", x, <<n, t, u>>, fill_missing_bars_inplace(x, n, t, u, stale))

SplitBars == \E x \in AnyBars, n \in Intervals : Returns("split", x, n, split_bars(n, x))

\* One call to a behaviour.
AlgNext ==
    /\ op = "none"
    /\ \/ CodeSigned32 \/ CodeSigned64 \/ CodeUnsigned32 \/ CodeUnsigned64 \/ CodeRuns \/ CodeColumns
       \/ MakeKeys \/ LookUpFrames \/ TransformBars \/ SplitBars

-----------------------------------------------------------------------------
(* Properties *)

Coders == {"zig_zag", "delta", "delta_int32", "delta_int64", "delta_zig_zag_int32", "delta_zig_zag_int64",
           "last_delta_int32", "last_delta_int64", "delta_sorted_u32", "delta_sorted_u64",
           "delta_zig_zag_uint32", "delta_zig_zag_uint64", "time_delta",
           "chunked8_int32_sse2", "chunked4_int32_sse2", "chunked4_int64_sse2"}
ScalarChunks == [name \in {"chunked8_int32_scalar", "chunked4_int32_scalar", "chunked4_int64_scalar"} |->
                    IF name = "chunked8_int32_scalar" THEN CHUNK8 ELSE CHUNK4]

\* The inputs an encoder has to refuse: a difference that does not fit, a time
\* that goes back.
Refusal ==
    \/ op \in {"delta_int32", "last_delta_int32", "delta_zig_zag_uint32"} /\ ~EveryFits(W32, Deltas(input, base))
    \/ op \in {"time_delta", "time"} /\ \E i \in DOMAIN input : Deltas(input, base)[i] < 0
\* The differences that 32 bits hold, for the encoders that cut them.
TimesFit == op \in {"time_delta", "time"} => \A i \in DOMAIN input : Deltas(input, base)[i] < Range_of(W32)
\* Each element but the first one of a chunk repeats the one before the chunk
\* when a decoder built without SSE2 reads what was written.
FlatChunks(chunk) ==
    \A i \in DOMAIN input : (i - 1) % chunk # 0 =>
        input[i - 1] = (IF ChunkBase(chunk, i) < 1 THEN base ELSE input[ChunkBase(chunk, i)])

\* What the delta and zig-zag encoders of zig_zag.hpp:14-76 and
\* zig_zag_delta.hpp:14-940 accept they give back, wrapping included, and they
\* refuse just what they must: delta_int32 only for an initial value equal to
\* the last element (:100), the chunked decoders without SSE2 only for flat
\* chunks (:568-940).
IntegersAreLossless ==
    /\ op \in Coders => /\ answer.ok = ~Refusal
                        /\ answer.ok /\ TimesFit => (answer.out = input <=>
                              (op = "delta_int32" /\ input # <<>> => base = Last(input)))
    /\ op \in DOMAIN ScalarChunks => (answer.out = input <=> FlatChunks(ScalarChunks[op]))

\* Runs are given back, with the in-place zero coding among them, for values
\* and counts that fit beside the mark (repeat_encoding.hpp:21-312).
RunsAreLossless ==
    op \in {"repeats_u32", "repeats_u64", "zero_with_repeats", "run_length_u32"} =>
        answer = Coded(input)

\* A column of a compressed block is given back whichever width the encoder
\* chose for it, and a column of times is refused only when time goes back
\* (frequency_encoding.hpp:21-192, TickEncoderV1.hpp, TickDecoderV1.hpp).
ColumnsAreLossless ==
    op \in {"frequency", "price", "volume", "time"} =>
        /\ answer.ok = ~Refusal
        /\ answer.ok /\ TimesFit => answer.out = input

\* Every codec gives back what it took, of integers, of runs and of columns.
CodecsAreLossless == IntegersAreLossless /\ RunsAreLossless /\ ColumnsAreLossless

\* A key gives back its fields whatever the length of the time, is the same
\* however it is put together, and the mask of the symbol part tells symbols
\* apart while the time fits 33 of its 35 bits (symbol_key_utils.hpp:20, :78-125).
KeysAreExact ==
    op = "symbol_key" =>
        /\ answer.symbol = input
        /\ answer.parts = Append(input, base % TIMES)
        /\ answer.combined = answer.key
        /\ answer.halves = <<answer.key \div TIMES, base % TIMES>>
        /\ base < TIMES \div 4 => symbol_part(answer.key) = (answer.key \div TIMES) * TIMES

\* The lower interval is the longest shorter one that divides.  Of the
\* intervals listed (enums.hpp:234-246) the last one, S1, is behind the end of
\* both loops, which count to num_intervals = 10 (:248): what only a second
\* divides has no lower interval, against what the comment above promises
\* (:229-232).  A frame's segment holds whole bars, and what is aligned in time
\* is reported so (:69-190, :230-271).
FramesNest ==
    /\ op = "lower_interval" =>
          LET divides == {i \in Segmentable : to_ms(i) < base /\ base % to_ms(i) = 0}
          IN  answer = IF divides \subseteq {1} THEN 0 ELSE to_ms(Max(divides))
    /\ op = "frame" =>
          /\ answer.same = input[1]
          /\ answer.segment % to_ms(input[1]) = 0 /\ answer.of_interval = answer.segment
          /\ base % to_ms(input[1]) = 0 => answer.aligned
          /\ answer.lower # UNKNOWN => answer.lower < input[1] /\ is_segmentable_timeframe(answer.lower)

-----------------------------------------------------------------------------
Ascending(bars) == \A i \in 1..Len(bars) - 1 : bars[i].time <= bars[i + 1].time
Field_of(bars, f) == [i \in DOMAIN bars |-> bars[i][f]]
Period(interval, bar) == bar.time \div interval
InOneRow(segments) ==
    Loop([p \in Seq(MarketBar) \X Seq(MarketBar) |-> p[1] \o p[2]], <<>>, segments)
Total(numbers) == Loop([p \in Int \X Int |-> p[1] + p[2]], 0, numbers)

\* Splitting loses and moves no bar: the segments in order are the input, each
\* within a period of its own; out of order input is refused and the segments
\* finished before it remain (split_bars.hpp:15-47).
SplitIsExact ==
    op = "split" =>
        LET all == InOneRow(answer.segments)
            n == Len(answer.segments)
            period(k) == Period(base, answer.segments[k][1])
        IN  /\ answer.ok = Ascending(input)
            /\ IF answer.ok THEN all = input ELSE IsPrefix(all, input)
            /\ \A k \in 1..n : \A i \in DOMAIN answer.segments[k] :
                  Period(base, answer.segments[k][i]) = period(k)
            /\ \A k \in 1..n - 1 : period(k) < period(k + 1)

\* What a bucket should be: the bars of its period.
Bucket(bars, interval, mode, p) ==
    LET own == {i \in DOMAIN bars : Period(interval, bars[i]) = p}
        sum(f) == Total([i \in DOMAIN bars |-> IF i \in own THEN bars[i][f] ELSE 0])
        last == bars[Max(own)]
    IN  [time |-> p * interval, open |-> bars[Min(own)].open, close |-> last.close,
         high |-> Max({bars[i].high : i \in own}), low |-> Min({bars[i].low : i \in own}),
         volume |-> sum("volume"),
         spread |-> CASE mode = "no_spread" -> 0
                      [] mode = "last" -> last.spread
                      [] mode = "max" -> Max({bars[i].spread : i \in own})
                      [] mode = "avg" -> sum("spread") \div Cardinality(own)]

\* As long as no period is without its first bar, resampling gives one bar for
\* each period, made from all bars of it and no other
\* (resample_market_bars.hpp:16-311).
GroupsAreBuckets ==
    op = "resample" /\ input # <<>> /\ answer.mode # "throws" =>
        LET first == Period(base, input[1])
            periods == first..Period(base, Last(input))
        IN  (\A p \in periods \ {first} : \E i \in DOMAIN input : input[i].time = p * base) =>
                answer.bars = [k \in 1..Period(base, Last(input)) - first + 1 |->
                                  Bucket(input, base, answer.mode, first + k - 1)]

\* Whatever periods are missing, each bar is counted once: the volume, the
\* first open, the last close and the extremes are those of the input, at
\* ascending starts of periods (resample_market_bars.hpp:40-71).
EveryBarOnce ==
    op = "resample" /\ input # <<>> /\ answer.mode # "throws" =>
        LET bars == answer.bars
        IN  /\ Total(Field_of(bars, "volume")) = Total(Field_of(input, "volume"))
            /\ <<bars[1].open, Last(bars).close>> = <<input[1].open, Last(input).close>>
            /\ Max(ToSet(Field_of(bars, "high"))) = Max(ToSet(Field_of(input, "high")))
            /\ Min(ToSet(Field_of(bars, "low"))) = Min(ToSet(Field_of(input, "low")))
            /\ \A k \in DOMAIN bars : bars[k].time % base = 0
            /\ \A k \in 1..Len(bars) - 1 : bars[k].time < bars[k + 1].time

OnGrid(bars, interval, start) ==
    /\ \A i \in DOMAIN bars : bars[i].time >= start /\ (bars[i].time - start) % interval = 0
    /\ \A i \in 1..Len(bars) - 1 : bars[i].time < bars[i + 1].time
Flat(bar) == bar.volume = 0 /\ bar.open = bar.close /\ bar.high = bar.close /\ bar.low = bar.close
\* The last bar of bars at or before time, the first one before all of them.
BarAt(bars, time) ==
    bars[Max({1} \cup {i \in DOMAIN bars : bars[i].time <= time})]

\* Filling gaps of bars that lie on the grid gives one bar for each time of
\* the range: the bar of that time as it was, else a flat one without volume
\* at the last close.  Filling in place keeps the bars behind the range too,
\* and only what it reads through a stale reference is open
\* (bar_gap_filler.hpp:16-50, :58-108).
FillIsGrid ==
    op \in {"fill", "fill_inplace"} =>
        LET interval == base[1]
            start == base[2]
            end == base[3]
            times == {t \in start..end - 1 : (t - start) % interval = 0}
                     \cup (IF op = "fill_inplace" THEN ToSet(Field_of(input, "time"))
                              \cup {t \in start..(IF input = <<>> THEN 0 ELSE Last(input).time) :
                                       (t - start) % interval = 0} ELSE {})
            stale(k) == op = "fill_inplace" /\ answer[k].time > Last(input).time + interval
        IN  OnGrid(input, interval, start) /\ input # <<>> =>
              /\ ToSet(Field_of(answer, "time")) = times
              /\ \A k \in 1..Len(answer) - 1 : answer[k].time < answer[k + 1].time
              /\ \A k \in DOMAIN answer :
                    LET bar == BarAt(input, answer[k].time)
                    IN  IF bar.time = answer[k].time THEN answer[k] = bar
                        ELSE /\ Flat(answer[k])
                             /\ ~stale(k) => answer[k].close =
                                   IF op = "fill_inplace" /\ answer[k].time < bar.time THEN bar.open ELSE bar.close

\* Each transform of bars does what its reference definition says.
TransformsAreExact == SplitIsExact /\ GroupsAreBuckets /\ EveryBarOnce /\ FillIsGrid
=============================================================================
