---------------------------- MODULE IntegerCodecs ----------------------------
(***************************************************************************)
(* compression/utils/: zig-zag and delta coding, run lengths and frequency *)
(* codes on sequences of integers.  W32 and W64 are the widths of the      *)
(* 32-bit and the 64-bit types, CHUNK8 and CHUNK4 the chunk lengths; the   *)
(* model checker takes them small.  An encoder that may throw returns      *)
(* [ok, out].                                                              *)
(***************************************************************************)
EXTENDS Loops, SequencesExt

CONSTANTS W32, W64, CHUNK8, CHUNK4
ASSUME WidthAssumption == W32 \in Nat \ {0} /\ W64 \in Nat /\ W32 <= W64
ASSUME ChunkAssumption == CHUNK8 \in Nat \ {0} /\ CHUNK4 \in Nat \ {0}

\* How many values w bits have, and how many of them have the top bit set.
Range_of(w) == 2^w
Half_of(w) == 2^(w - 1)
\* Facts about powers of two of which the provers know nothing.
ASSUME PowerAssumption ==
    /\ \A w \in {W32, W64} : Half_of(w) \in Nat \ {0} /\ Range_of(w) = 2 * Half_of(w)
    /\ Half_of(W32) <= Half_of(W64)

unsigned(w, x) == x % Range_of(w)
signed(w, x) == LET u == unsigned(w, x) IN IF u < Half_of(w) THEN u ELSE u - Range_of(w)
fits_signed(w, x) == -Half_of(w) <= x /\ x < Half_of(w)
signed_all(w, s) == [i \in DOMAIN s |-> signed(w, s[i])]
unsigned_all(w, s) == [i \in DOMAIN s |-> unsigned(w, s[i])]

-----------------------------------------------------------------------------
\* Mutant of encode_zig_zag_scalar: minus one and zero share a code.
encode_zig_zag_folded(x) == IF x < 0 THEN -2 * x - 2 ELSE 2 * x

\* zig_zag.hpp: (x << 1) ^ (x >> 31), and back.
encode_zig_zag_scalar(x) == IF x < 0 THEN -2 * x - 1 ELSE 2 * x
decode_zig_zag_scalar(code) == IF code % 2 = 0 THEN code \div 2 ELSE -((code + 1) \div 2)
encode_zig_zag(input) == [i \in DOMAIN input |-> encode_zig_zag_scalar(input[i])]
decode_zig_zag(input) == [i \in DOMAIN input |-> decode_zig_zag_scalar(input[i])]

-----------------------------------------------------------------------------
(* zig_zag_delta.hpp *)

Deltas(input, initial_value) ==
    [i \in DOMAIN input |-> input[i] - (IF i = 1 THEN initial_value ELSE input[i - 1])]
Add == [p \in Int \X Int |-> p[1] + p[2]]
Sums(deltas, initial_value) ==
    LET sum == LoopStates(Add, initial_value, deltas) IN [i \in DOMAIN deltas |-> sum[i]]
EveryFits(w, s) == \A i \in DOMAIN s : fits_signed(w, s[i])
Refused == [ok |-> FALSE, out |-> <<>>]
Coded(out) == [ok |-> TRUE, out |-> out]

check_deltas_fit_int32(input, initial_value) == EveryFits(W32, Deltas(input, initial_value))

encode_delta(input, initial_value) == signed_all(W32, Deltas(input, initial_value))
decode_delta(deltas, initial_value) == signed_all(W32, Sums(deltas, initial_value))
encode_delta_int64(input, initial_value) == unsigned_all(W64, Deltas(input, initial_value))
decode_delta_int64(deltas, initial_value) == signed_all(W64, Sums(deltas, initial_value))

\* Despite the name, any order: the unsigned difference wraps.
encode_delta_sorted(w, input) == unsigned_all(w, Deltas(input, 0))
decode_delta_sorted(w, deltas) == unsigned_all(w, Sums(deltas, 0))

\* The loop that checks the range has moved initial_value to the last element
\* when the first one is written.
encode_delta_int32(input, initial_value) ==
    IF check_deltas_fit_int32(input, initial_value)
    THEN Coded(unsigned_all(W32, Deltas(input, Last(input))))
    ELSE Refused
decode_delta_int32(deltas, initial_value) == signed_all(W32, Sums(deltas, initial_value))

encode_time_delta(times, initial_time) ==
    LET deltas == Deltas(times, initial_time)
    IN  IF \E i \in DOMAIN deltas : deltas[i] < 0 THEN Refused ELSE Coded(unsigned_all(W32, deltas))
decode_time_delta(deltas, initial_time) == Sums(deltas, initial_time)

\* Prices already scaled to integers.
encode_last_delta_zig_zag_int32(prices, initial_price) ==
    LET deltas == Deltas(prices, initial_price)
    IN  IF EveryFits(W32, deltas) THEN Coded(encode_zig_zag(deltas)) ELSE Refused
decode_last_delta_zig_zag_int32(codes, initial_price) == Sums(decode_zig_zag(codes), initial_price)
encode_last_delta_zig_zag_int64(prices, initial_price) ==
    encode_zig_zag(signed_all(W64, Deltas(prices, initial_price)))
decode_last_delta_zig_zag_int64(codes, initial_price) ==
    signed_all(W64, Sums(decode_zig_zag(codes), initial_price))

\* Signed: the difference wraps.  What the vector code writes beyond the last
\* element is left out.
encode_delta_zig_zag_int32(input, initial_value) ==
    encode_zig_zag(signed_all(W32, Deltas(input, initial_value)))
decode_delta_zig_zag_int32(codes, initial_value) ==
    signed_all(W32, Sums(decode_zig_zag(codes), initial_value))
encode_delta_zig_zag_int64(input, initial_value) ==
    encode_zig_zag(signed_all(W64, Deltas(input, initial_value)))
decode_delta_zig_zag_int64(codes, initial_value) ==
    signed_all(W64, Sums(decode_zig_zag(codes), initial_value))

\* Unsigned: 32 bits refuse what does not fit, 64 bits wrap.
encode_delta_zig_zag_uint32(input, initial_value) ==
    LET deltas == Deltas(input, initial_value)
    IN  IF EveryFits(W32, deltas) THEN Coded(encode_zig_zag(deltas)) ELSE Refused
decode_delta_zig_zag_uint32(codes, initial_value) ==
    unsigned_all(W32, Sums(decode_zig_zag(codes), initial_value))
encode_delta_zig_zag_uint64(input, initial_value) ==
    encode_zig_zag(signed_all(W64, Deltas(input, initial_value)))
decode_delta_zig_zag_uint64(codes, initial_value) ==
    unsigned_all(W64, Sums(decode_zig_zag(codes), initial_value))

\* The element a chunked difference is taken to: the last one of the chunk
\* before, 0 for the initial value.  The tail is one more chunk.
ChunkBase(chunk, i) == ((i - 1) \div chunk) * chunk
Chunked(chunk, input, initial_value) ==
    [i \in DOMAIN input |->
        input[i] - (IF ChunkBase(chunk, i) < 1 THEN initial_value ELSE input[ChunkBase(chunk, i)])]
encode_delta_zig_zag_chunked8_int32(input, initial_value) ==
    encode_zig_zag(signed_all(W32, Chunked(CHUNK8, input, initial_value)))
encode_delta_zig_zag_chunked4_int32(input, initial_value) ==
    encode_zig_zag(signed_all(W32, Chunked(CHUNK4, input, initial_value)))
encode_delta_zig_zag_chunked4_int64(input, initial_value) ==
    encode_zig_zag(signed_all(W64, Chunked(CHUNK4, input, initial_value)))

\* Built with SSE2 the decoder adds the base of the chunk, without it the
\* element before.
Unchunked(w, chunk, build, codes, initial_value) ==
    LET deltas == decode_zig_zag(codes)
        added_to(i) == IF build = "sse2" THEN ChunkBase(chunk, i) ELSE i - 1
        AddOne(out, i) == [out EXCEPT ![i] = signed(w, deltas[i] + (IF added_to(i) = 0 THEN initial_value
                                                                    ELSE out[added_to(i)]))]
    IN  Loop([p \in [DOMAIN codes -> Int] \X DOMAIN codes |-> AddOne(p[1], p[2])],
             [i \in DOMAIN codes |-> 0], Places(codes))
decode_delta_zig_zag_chunked8_int32(build, codes, initial_value) ==
    Unchunked(W32, CHUNK8, build, codes, initial_value)
decode_delta_zig_zag_chunked4_int32(build, codes, initial_value) ==
    Unchunked(W32, CHUNK4, build, codes, initial_value)
decode_delta_zig_zag_chunked4_int64(build, codes, initial_value) ==
    Unchunked(W64, CHUNK4, build, codes, initial_value)
=============================================================================
