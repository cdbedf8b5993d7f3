---------------------------- MODULE RepeatCodecs ----------------------------
(***************************************************************************)
(* compression/utils/repeat_encoding.hpp and frequency_encoding.hpp: runs  *)
(* of equal values and codes by frequency.  The low bit of a written word  *)
(* marks a run; w is the width of a word, and its top bit is lost.         *)
(***************************************************************************)
EXTENDS IntegerCodecs

Repeated(x, n) == [i \in 1..n |-> x]
\* The loop over input starts with its first element as the repeated value and
\* no repeats.
RunState == [out : Seq(Nat), value : Nat, count : Nat]
NoRun(input) == [out |-> <<>>, value |-> input[1], count |-> 0]
Raw(w, s, x) == [out |-> Append(s.out, unsigned(w, 2 * x)), value |-> x, count |-> 0]

-----------------------------------------------------------------------------
\* Value and count in one word, the count above the low bits + 1 bits.
RepeatsWritten(w, bits, s) ==
    IF s.count = 0 THEN s
    ELSE [s EXCEPT !.out = Append(@, unsigned(w, 2 * s.value + 1 + s.count * (2 * Range_of(bits)))),
                   !.count = 0]

Repeats(bits, s, x) == x < Range_of(bits) /\ x = s.value

RepeatStep(w, bits, s, x) ==
    IF Repeats(bits, s, x) THEN [s EXCEPT !.count = @ + 1] ELSE Raw(w, RepeatsWritten(w, bits, s), x)
encode_with_repeats(w, bits, input) ==
    LET end == Loop([p \in RunState \X Nat |-> RepeatStep(w, bits, p[1], p[2])], NoRun(input), input)
    IN  RepeatsWritten(w, bits, end).out

\* What a written word stands for.
RepeatsRead(bits, x) ==
    IF x % 2 = 1 THEN Repeated((x \div 2) % Range_of(bits), x \div (2 * Range_of(bits)))
    ELSE <<x \div 2>>
decode_with_repeats(bits, encoded) ==
    Loop([p \in Seq(Nat) \X Nat |-> p[1] \o RepeatsRead(bits, p[2])], <<>>, encoded)

encode_with_repeats_u32(bits, input) == encode_with_repeats(W32, bits, input)
decode_with_repeats_u32(bits, encoded) == decode_with_repeats(bits, encoded)
encode_with_repeats_u64(bits, input) == encode_with_repeats(W64, bits, input)
decode_with_repeats_u64(bits, encoded) == decode_with_repeats(bits, encoded)

-----------------------------------------------------------------------------
\* Runs of zeros only.  The callers pass one array as input and output: what
\* was written is read in place of the input it overwrote.
Read(input, s, i) == IF i <= Len(s.out) THEN s.out[i] ELSE input[i]
ZerosWritten(s) ==
    IF s.count = 0 THEN s ELSE [s EXCEPT !.out = Append(@, unsigned(W32, 2 * s.count + 1)), !.count = 0]

ZeroStep(input, s, i) ==
    IF Read(input, s, i) = 0 /\ s.value = 0 THEN [s EXCEPT !.count = @ + 1]
    ELSE LET t == ZerosWritten(s) IN Raw(W32, t, Read(input, t, i))

encode_zero_with_repeats(input) ==
    LET end == Loop([p \in RunState \X DOMAIN input |-> ZeroStep(input, p[1], p[2])],
                    NoRun(input), Places(input))
    IN  ZerosWritten(end).out

ZerosRead(x) == IF x % 2 = 1 THEN Repeated(0, x \div 2) ELSE <<x \div 2>>
decode_zero_with_repeats(encoded) ==
    Loop([p \in Seq(Nat) \X Nat |-> p[1] \o ZerosRead(p[2])], <<>>, encoded)

-----------------------------------------------------------------------------
\* A run of at least shortest is written as value and count, a shorter one
\* value by value.
RunWritten(w, shortest, s) ==
    [s EXCEPT !.out = @ \o (IF s.count >= shortest THEN <<unsigned(w, 2 * s.value + 1), s.count>>
                            ELSE Repeated(unsigned(w, 2 * s.value), s.count))]

RunStep(w, shortest, s, x) ==
    IF x = s.value THEN [s EXCEPT !.count = @ + 1] ELSE Raw(w, RunWritten(w, shortest, s), x)
encode_run_length(w, shortest, input) ==
    LET end == Loop([p \in RunState \X Nat |-> RunStep(w, shortest, p[1], p[2])], NoRun(input), input)
    IN  RunWritten(w, shortest, end).out
encode_run_length_u32(input) == encode_run_length(W32, 4, input)

\* The word after a marked one is its count.
RunReadState == [out : Seq(Nat), marked : BOOLEAN, value : Nat]
RunReadStep(s, x) ==
    IF s.marked THEN [out |-> s.out \o Repeated(s.value, x), marked |-> FALSE, value |-> 0]
    ELSE IF x % 2 = 1 THEN [s EXCEPT !.marked = TRUE, !.value = x \div 2]
    ELSE [s EXCEPT !.out = Append(@, x \div 2)]
decode_run_length(encoded) ==
    Loop([p \in RunReadState \X Nat |-> RunReadStep(p[1], p[2])],
         [out |-> <<>>, marked |-> FALSE, value |-> 0], encoded).out

-----------------------------------------------------------------------------
Frequency(input, x) == Cardinality({i \in DOMAIN input : input[i] = x})

Precedes(input, a, b) ==
    \/ Frequency(input, a) > Frequency(input, b)
    \/ Frequency(input, a) = Frequency(input, b) /\ a < b

\* The values by falling frequency, their codes 0, 1, ..., the input in codes.
encode_frequency(input) ==
    LET all == ToSet(input)
        rank(x) == Cardinality({y \in all : Precedes(input, y, x)}) + 1
        values == [k \in 1..Cardinality(all) |-> CHOOSE x \in all : rank(x) = k]
    IN  [values |-> values,
         index_map |-> [i \in DOMAIN values |-> i - 1],
         codes |-> [i \in DOMAIN input |-> (CHOOSE k \in DOMAIN values : values[k] = input[i]) - 1]]

\* code_to_value[index_map[k]] = values[k]; one operator for the three widths.
decode_frequency(codes, values, index_map) ==
    [i \in DOMAIN codes |-> values[CHOOSE k \in DOMAIN values : index_map[k] = codes[i]]]
=============================================================================
