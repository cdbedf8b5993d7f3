--------------------------- MODULE PackedIntegers ---------------------------
(***************************************************************************)
(* utils/vbyte.hpp, utils/simdcomp.hpp and compression/utils/zstd_utils.hpp*)
(* over one byte buffer: integers appended to it one by one or in packed   *)
(* blocks, read back from a running offset, and frames around them.  A     *)
(* cell of a buffer is a byte: a number, or the n-th byte of what one of   *)
(* the external packers made of its input, which only its reader can tell. *)
(***************************************************************************)
EXTENDS Integers, Sequences, SequencesExt, FiniteSetsExt

CONSTANTS
    VBITS,      \* bits of a number in a byte, 7 in the code
    BLOCK,      \* SIMDBlockSize, 128
    UNIT        \* sizeof(__m128i), 16

ASSUME PackedAssumption == {VBITS, BLOCK, UNIT} \subseteq Nat \ {0}

Ceil(n, d) == (n + d - 1) \div d
\* The least number of bits that holds every value.
maxbits(values) == Max({0} \cup {CHOOSE b \in 0..v : v < 2^b /\ \A c \in 0..b - 1 : v >= 2^c : v \in ToSet(values)})

-----------------------------------------------------------------------------
(* vbyte: VBITS bits a byte, the lowest first, marked while more follow.   *)

vbyte_length(v) == CHOOSE n \in 1..v + 1 : v < 2^(VBITS * n) /\ (n > 1 => v >= 2^(VBITS * (n - 1)))
vbyte_compress(v) ==
    [i \in 1..vbyte_length(v) |-> ((v \div 2^(VBITS * (i - 1))) % 2^VBITS)
                                  + (IF i < vbyte_length(v) THEN 2^VBITS ELSE 0)]
\* The number that starts behind offset, and where it ends.
vbyte_uncompress(buffer, offset) ==
    LET end == CHOOSE e \in offset + 1..Len(buffer) :
                  buffer[e] < 2^VBITS /\ \A k \in offset + 1..e - 1 : buffer[k] >= 2^VBITS
    IN  [value |-> FoldLeft(LAMBDA sum, k : sum + (buffer[k] % 2^VBITS) * 2^(VBITS * (k - offset - 1)), 0,
                            [k \in 1..end - offset |-> offset + k]),
         offset |-> end]

append_vbyte(buffer, value) == buffer \o vbyte_compress(value)
append_vbytes(buffer, values) == FoldLeft(append_vbyte, buffer, values)
extract_vbyte(buffer, offset) == vbyte_uncompress(buffer, offset)
extract_vbytes(buffer, offset, length) ==
    FoldLeft(LAMBDA r, k : LET one == vbyte_uncompress(buffer, r.offset)
                           IN  [values |-> Append(r.values, one.value), offset |-> one.offset],
             [values |-> <<>>, offset |-> offset], [k \in 1..length |-> k])

-----------------------------------------------------------------------------
(* simdcomp: whole blocks of BLOCK values take bit units, a short one as   *)
(* many as its values fill.  Nothing masks a value that is wider: its bits *)
(* run into the next ones, and nothing is said of that block.              *)

Lost == -1
simdpack(values, bit) ==
    LET size == IF Len(values) = BLOCK THEN bit * UNIT ELSE Ceil(Len(values) * bit, BLOCK) * UNIT
        of == IF \A i \in DOMAIN values : values[i] < 2^bit THEN values ELSE [i \in DOMAIN values |-> Lost]
    IN  [at \in 1..size |-> [of |-> of, bit |-> bit, at |-> at]]
\* What the unpacker makes of the bytes behind offset: zeroes of no bits, the
\* values if all bytes of their block are in place, else anything.
simdunpack(buffer, offset, length, bit) ==
    LET size == IF length = BLOCK THEN bit * UNIT ELSE Ceil(length * bit, BLOCK) * UNIT
    IN  [offset |-> offset + size,
         values |-> IF bit = 0 THEN [i \in 1..length |-> 0]
                    ELSE IF /\ offset + size <= Len(buffer)
                            /\ \E of \in {buffer[offset + 1].of} :
                                  /\ Len(of) = length
                                  /\ SubSeq(buffer, offset + 1, offset + size)
                                        = [at \in 1..size |-> [of |-> of, bit |-> bit, at |-> at]]
                         THEN buffer[offset + 1].of
                         ELSE [i \in 1..length |-> Lost]]

\* The blocks of an array, the short one last.
Blocks(values) ==
    [k \in 1..Ceil(Len(values), BLOCK) |->
        SubSeq(values, (k - 1) * BLOCK + 1, IF k * BLOCK < Len(values) THEN k * BLOCK ELSE Len(values))]
BlockLengths(length) == [k \in 1..Ceil(length, BLOCK) |-> IF k * BLOCK <= length THEN BLOCK ELSE length % BLOCK]

\* With a width the caller gives.
append_simdcomp_bit(buffer, values, bit) ==
    buffer \o FlattenSeq([k \in DOMAIN Blocks(values) |-> simdpack(Blocks(values)[k], bit)])
extract_simdcomp_bit(buffer, offset, length, bit) ==
    FoldLeft(LAMBDA r, n : LET block == simdunpack(buffer, r.offset, n, bit)
                           IN  [values |-> r.values \o block.values, offset |-> block.offset],
             [values |-> <<>>, offset |-> offset], BlockLengths(length))

\* With the width of each block in a byte before it.  The bytes of an array
\* with a short block are counted by a difference of pointers to units that do
\* not lie a whole number of units apart: a build that divides and multiplies
\* cuts the array to whole units, one that cancels both does not.
append_simdcomp(build, buffer, values) ==
    LET Coded_block(block) == <<maxbits(block)>> \o simdpack(block, maxbits(block))
        bytes == FlattenSeq([k \in DOMAIN Blocks(values) |-> Coded_block(Blocks(values)[k])])
        kept == IF build = "divides" /\ Len(values) % BLOCK # 0
                THEN Len(bytes) - (Len(bytes) % UNIT) ELSE Len(bytes)
    IN  buffer \o SubSeq(bytes, 1, kept)

extract_simdcomp(buffer, offset, length) ==
    FoldLeft(LAMBDA r, n : LET block == simdunpack(buffer, r.offset + 1, n, buffer[r.offset + 1])
                           IN  [values |-> r.values \o block.values, offset |-> block.offset],
             [values |-> <<>>, offset |-> offset], BlockLengths(length))

-----------------------------------------------------------------------------
(* zstd_utils.hpp: one cell stands for a whole frame.  A dictionary that   *)
(* was trained starts with a magic number and an ID, which every frame made*)
(* with it repeats; any other bytes are a raw dictionary without one.      *)

Bytes(ok, out) == [ok |-> ok, out |-> out]
MAGIC == 55      \* one cell for the four bytes of ZSTD_MAGIC_DICTIONARY
Trained(dictionary) == dictionary[1] = MAGIC
Frame(input, dictionary) == [frame |-> input, dictionary |-> dictionary]
compress_zstd_data(input, dictionary, output) ==
    IF input = <<>> \/ dictionary = <<>> THEN Bytes(FALSE, output)
    ELSE Bytes(TRUE, Append(output, Frame(input, dictionary)))
\* The signature and the number of samples in front of the frame.
compress_zstd_samples(input, dictionary, signature, num_samples, output) ==
    IF input = <<>> \/ dictionary = <<>> THEN Bytes(FALSE, output)
    ELSE Bytes(TRUE, Append(append_vbyte(Append(output, signature), num_samples), Frame(input, dictionary)))

\* Of what input, its frame and its dictionary make possible.  A frame that
\* repeats the ID of a trained dictionary is refused by any other; of a frame
\* made with a raw one a wrong dictionary may make anything of the same length.
ReadFrame(input, dictionary) ==
    LET data == input[1].frame
        garbage == [i \in DOMAIN data |-> Lost]
    IN  IF Len(input) = 1 /\ input[1].dictionary = dictionary THEN {Bytes(TRUE, data)}
        ELSE {Bytes(FALSE, garbage)}
             \cup (IF Len(input) = 1 /\ ~Trained(input[1].dictionary)
                   THEN {Bytes(TRUE, data), Bytes(TRUE, garbage)} ELSE {})
\* The outcomes of a call.  It replaces what output holds: input that starts
\* with a frame has resized output before a wrong dictionary, or bytes behind
\* the frame, make it throw.
decompress_zstd_data(input, dictionary, output) ==
    IF input = <<>> \/ dictionary = <<>> THEN {Bytes(FALSE, output)} ELSE ReadFrame(input, dictionary)

extract_signature(data) == data[1]
extract_num_samples(data) == vbyte_uncompress(data, 1).value
=============================================================================
