---------------------------- MODULE DynamicBitset ----------------------------
(***************************************************************************)
(* utils/DynamicBitset.hpp: a set of positions below num_bits, kept in     *)
(* words.  A word is the set of the offsets of its ones; W, 64 in the      *)
(* code, is its length.  Nothing clears the ones above num_bits in the     *)
(* last word, where only a later resize or right shift finds them.         *)
(***************************************************************************)
EXTENDS Integers, Sequences

CONSTANTS W, MAX_BITS,  \* length of a word, bound on the size
          Operands      \* ones of other bitsets
ASSUME WordAssumption == W \in Nat \ {0} /\ MAX_BITS \in Nat /\ Operands \subseteq SUBSET Nat

VARIABLES bits, num_bits, step     \* the words, the size, and the last call
bvars == <<bits, num_bits, step>>

Words(n) == (n + W - 1) \div W
Positions(words) == {p \in 0..Len(words) * W - 1 : p % W \in words[p \div W + 1]}
WordsOf(positions, n) == [k \in 1..Words(n) |-> {o \in 0..W - 1 : (k - 1) * W + o \in positions}]
Empty(n) == WordsOf({}, n)

\* is_set() at every position, and the elements of indices_of_set_bits().
visible == Positions(bits) \cap 0..num_bits - 1

BitInit == bits = <<>> /\ num_bits = 0 /\ step = [name |-> "none", arg |-> {}]
Did(name, arg) == step' = [name |-> name, arg |-> arg]

-----------------------------------------------------------------------------
resize(n) ==
    /\ bits' = [k \in 1..Words(n) |-> IF k <= Len(bits) THEN bits[k] ELSE {}]
    /\ num_bits' = n
    /\ Did("resize", {n})

set(pos, value) ==
    /\ pos < num_bits
    /\ bits' = [bits EXCEPT ![pos \div W + 1] = IF value THEN @ \cup {pos % W} ELSE @ \ {pos % W}]
    /\ Did(IF value THEN "set" ELSE "reset", {pos})
    /\ UNCHANGED num_bits

\* set(), reset() and is_set() throw beyond the size.
OutOfRange(pos) ==
    /\ pos >= num_bits
    /\ Did("throws", {pos})
    /\ UNCHANGED <<bits, num_bits>>

reset_all ==
    /\ bits' = Empty(num_bits)
    /\ Did("reset_all", {})
    /\ UNCHANGED num_bits

\* &, | and their assignments, word by word, with a bitset of the same size,
\* whose last word too may hold ones above it.
bit_and(other) ==
    /\ bits' = [k \in DOMAIN bits |-> bits[k] \cap WordsOf(other, num_bits)[k]]
    /\ Did("and", other)
    /\ UNCHANGED num_bits
bit_or(other) ==
    /\ bits' = [k \in DOMAIN bits |-> bits[k] \cup WordsOf(other, num_bits)[k]]
    /\ Did("or", other)
    /\ UNCHANGED num_bits

\* check_size(): all four throw for a bitset of another size.
DifferentSize(n) ==
    /\ n # num_bits
    /\ Did("throws", {n})
    /\ UNCHANGED <<bits, num_bits>>

-----------------------------------------------------------------------------
(* A word shifted by less than W, and what the shift pushes out of it.     *)

Up(word, n) == {o + n : o \in {p \in word : p + n < W}}
OverUp(word, n) == {o + n - W : o \in {p \in word : p + n >= W}}
Down(word, n) == {o - n : o \in {p \in word : p >= n}}
OverDown(word, n) == {o + W - n : o \in {p \in word : p < n}}

\* Mutant of ShiftedLeft: a shift by whole words still spills.
ShiftedLeftSpills(words, shift) ==
    [k \in DOMAIN words |->
        LET i == k - (shift \div W)
        IN  (IF i >= 1 THEN Up(words[i], shift % W) ELSE {})
            \cup (IF i >= 2 THEN {o % W : o \in {p + (shift % W) : p \in words[i - 1]}} ELSE {})]

\* operator<< and operator>>: each word is added to one or two of the result.
ShiftedLeft(words, shift) ==
    [k \in DOMAIN words |->
        LET i == k - (shift \div W)
        IN  (IF i >= 1 THEN Up(words[i], shift % W) ELSE {})
            \cup (IF i >= 2 THEN OverUp(words[i - 1], shift % W) ELSE {})]
ShiftedRight(words, shift) ==
    [k \in DOMAIN words |->
        LET i == k + (shift \div W)
        IN  (IF i <= Len(words) THEN Down(words[i], shift % W) ELSE {})
            \cup (IF i < Len(words) THEN OverDown(words[i + 1], shift % W) ELSE {})]

\* operator<<= and operator>>=: the words first, then the bits with a carry.
Carried(kept, spilled, order) ==
    LET pass[n \in 0..Len(order)] ==
            IF n = 0 THEN [words |-> kept, carry |-> {}]
            ELSE [words |-> [pass[n - 1].words EXCEPT ![order[n]] = kept[order[n]] \cup pass[n - 1].carry],
                  carry |-> spilled[order[n]]]
    IN  pass[Len(order)].words
AssignedLeft(words, shift) ==
    LET n == shift % W
        moved == [k \in DOMAIN words |-> IF k > shift \div W THEN words[k - (shift \div W)] ELSE {}]
    IN  IF n = 0 THEN moved
        ELSE Carried([k \in DOMAIN words |-> Up(moved[k], n)], [k \in DOMAIN words |-> OverUp(moved[k], n)],
                     [k \in DOMAIN words |-> k])
AssignedRight(words, shift) ==
    LET n == shift % W
        moved == [k \in DOMAIN words |->
                     IF k + (shift \div W) <= Len(words) THEN words[k + (shift \div W)] ELSE {}]
    IN  IF n = 0 THEN moved
        ELSE Carried([k \in DOMAIN words |-> Down(moved[k], n)], [k \in DOMAIN words |-> OverDown(moved[k], n)],
                     [k \in DOMAIN words |-> Len(words) + 1 - k])

Shift(name, shift, moved) ==
    /\ bits' = IF shift >= num_bits THEN Empty(num_bits) ELSE moved
    /\ Did(name, {shift})
    /\ UNCHANGED num_bits
shift_left(shift) == Shift("left", shift, ShiftedLeft(bits, shift))
shift_right(shift) == Shift("right", shift, ShiftedRight(bits, shift))
shift_left_assign(shift) == Shift("left", shift, AssignedLeft(bits, shift))
shift_right_assign(shift) == Shift("right", shift, AssignedRight(bits, shift))

clear ==
    /\ bits' = <<>> /\ num_bits' = 0
    /\ Did("clear", {})

BitNext ==
    \/ \E n \in 0..MAX_BITS : resize(n) \/ OutOfRange(n) \/ DifferentSize(n)
    \/ \E pos \in 0..num_bits - 1, value \in BOOLEAN : set(pos, value)
    \/ \E other \in Operands : bit_and(other) \/ bit_or(other)
    \/ \E n \in 0..MAX_BITS : \/ shift_left(n) \/ shift_left_assign(n)
                              \/ shift_right(n) \/ shift_right_assign(n)
    \/ reset_all
    \/ clear
BitSpec == BitInit /\ [][BitNext]_bvars

-----------------------------------------------------------------------------
(* Properties *)

\* The set of positions a call should leave, from the set before it.
Expected(before, call) ==
    LET n == CHOOSE x \in call.arg : TRUE
    IN  CASE call.name \in {"reset_all", "clear"} -> {}
          [] call.name \in {"none", "throws", "resize"} -> before
          [] call.name = "set" -> before \cup call.arg
          [] call.name = "reset" -> before \ call.arg
          [] call.name = "and" -> before \cap call.arg
          [] call.name = "or" -> before \cup call.arg
          [] call.name = "left" -> {p + n : p \in before}
          [] call.name = "right" -> {p - n : p \in {q \in before : q >= n}}
\* Ones above the size that an earlier left shift or resize left behind.
Stale == Positions(bits) \ visible

\* Every call leaves the set of positions that the operation on sets gives,
\* cut to the size, over any sequence of calls and across words, except that a
\* right shift and a growth may bring back ones that an earlier left shift or
\* shrink left above the size (DynamicBitset.hpp:28-31, :97-225).
CallsActOnSets ==
    [][LET expected == Expected(visible, step') \cap 0..num_bits' - 1
       IN  IF step'.name \in {"right", "resize"} /\ Stale # {}
           THEN /\ expected \subseteq visible'
                /\ visible' \ expected \subseteq
                      Expected(Positions(bits), step') \cap 0..num_bits' - 1
           ELSE visible' = expected]_bvars
=============================================================================
