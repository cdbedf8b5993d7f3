----------------------------- MODULE TimeFrames -----------------------------
(***************************************************************************)
(* data/bars/enums.hpp: the bar intervals, the length of the segments they *)
(* are stored in, and the search for the next shorter interval.            *)
(***************************************************************************)
EXTENDS Integers, Sequences

CONSTANT MS_PER_SEC
ASSUME MsAssumption == MS_PER_SEC \in Nat \ {0}

UNKNOWN == 0
HourSegmented == {1, 3, 5, 15}
DaySegmented == {60, 300, 900, 1800, 3600}
WeekSegmented == {14400, 86400}
Segmentable == HourSegmented \cup DaySegmented \cup WeekSegmented
TimeFrame == Segmentable \cup {UNKNOWN, 604800, 2592000}

to_ms(tf) == tf * MS_PER_SEC
to_timeframe(sec) == IF sec \in TimeFrame THEN sec ELSE UNKNOWN
to_timeframe_ms(ms) == to_timeframe(ms \div MS_PER_SEC)

is_segmentable_timeframe(tf) == tf \in Segmentable
is_segmentable_bar_interval_ms(ms) == ms \in {to_ms(tf) : tf \in Segmentable}

\* Both throw for a frame that has no segments.
get_segment_duration_sec(tf) ==
    CASE tf \in HourSegmented -> 3600
      [] tf \in DaySegmented  -> 86400
      [] tf \in WeekSegmented -> 604800
get_segment_duration_ms(tf) == to_ms(get_segment_duration_sec(tf))

\* The segment lengths by interval in milliseconds.
segment_duration_of_interval(ms) ==
    get_segment_duration_ms(CHOOSE tf \in Segmentable : to_ms(tf) = ms)

known_intervals == [i \in 1..11 |->
    to_ms(<<86400, 14400, 3600, 1800, 900, 300, 60, 15, 5, 3, 1>>[i])]
num_intervals == 10

\* A listed interval has the next one below or none; another has the longest
\* that divides it.  The shortest interval is beyond the end of both loops.
get_lower_bar_interval_ms(ms) ==
    LET listed == {i \in 1..num_intervals - 1 : known_intervals[i] = ms}
        dividing == {i \in 1..num_intervals : /\ ms > known_intervals[i]
                                              /\ ms % known_intervals[i] = 0}
    IN  IF listed # {}
        THEN LET lower == known_intervals[(CHOOSE i \in listed : TRUE) + 1]
             IN  IF ms % lower = 0 THEN lower ELSE 0
        ELSE IF dividing # {}
             THEN known_intervals[CHOOSE i \in dividing : \A j \in dividing : i <= j]
             ELSE 0

get_lower_timeframe(tf) ==
    IF \E i \in 1..10 : known_intervals[i] = to_ms(tf)
    THEN to_timeframe_ms(known_intervals[(CHOOSE i \in 1..10 : known_intervals[i] = to_ms(tf)) + 1])
    ELSE UNKNOWN

\* time_ms % static_cast<uint64_t>(tf): milliseconds against seconds.
is_tf_aligned(time_ms, tf) == time_ms % tf = 0
=============================================================================
