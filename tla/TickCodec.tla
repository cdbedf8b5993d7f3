------------------------------ MODULE TickCodec ------------------------------
(***************************************************************************)
(* compression/ticks/TickCompressorV1/: the encoder and the decoder of the *)
(* tick compressor, from ticks to packed columns and back.  Prices and     *)
(* volumes are the scaled integers; vbyte and simdcomp (PackedIntegers)     *)
(* give back what they took, so a column is the sequence written.  The     *)
(* buffers of the context are cleared by every call and resized before     *)
(* every use, and are left out.                                            *)
(***************************************************************************)
EXTENDS RepeatCodecs

Side == {"TICK_FROM_BUY", "TICK_FROM_SELL"}

\* A column of codes by frequency, with the table of values.
Packed(w, input) ==
    LET f == encode_frequency(input)
    IN  [values |-> encode_delta_sorted(w, f.values),
         index_map |-> encode_delta_zig_zag_uint32(f.index_map, 0).out,
         codes |-> encode_zero_with_repeats(f.codes)]
Unpacked(w, column) ==
    decode_frequency(decode_zero_with_repeats(column.codes),
                     decode_delta_sorted(w, column.values),
                     decode_delta_zig_zag_uint32(column.index_map, 0))

\* The low bit of the length says that the values are 64 bits wide.
Column(wide, input) ==
    [wide |-> wide, packed |-> Packed(IF wide THEN W64 ELSE W32, input)]

encode_price_last(prices, initial_price) ==
    LET narrow == encode_last_delta_zig_zag_int32(prices, initial_price)
    IN  IF narrow.ok THEN Column(FALSE, narrow.out)
        ELSE Column(TRUE, encode_last_delta_zig_zag_int64(prices, initial_price))
decode_price_last(column, initial_price) ==
    IF column.wide
    THEN decode_last_delta_zig_zag_int64(Unpacked(W64, column.packed), initial_price)
    ELSE decode_last_delta_zig_zag_int32(Unpacked(W32, column.packed), initial_price)

scale_volume_int32(volumes) ==
    IF \E i \in DOMAIN volumes : volumes[i] >= Range_of(W32) THEN Refused
    ELSE Coded(unsigned_all(W32, volumes))
scale_volume_int64(volumes) == unsigned_all(W64, volumes)

encode_volume(volumes) ==
    LET narrow == scale_volume_int32(volumes)
    IN  IF narrow.ok THEN Column(FALSE, narrow.out) ELSE Column(TRUE, scale_volume_int64(volumes))
decode_volume(column) == Unpacked(IF column.wide THEN W64 ELSE W32, column.packed)

\* Throws on a time before the one before it.
encode_time(times, initial_time) ==
    LET deltas == encode_time_delta(times, initial_time)
    IN  [ok |-> deltas.ok, out |-> IF deltas.ok THEN <<Column(FALSE, deltas.out)>> ELSE <<>>]
decode_time(column, base_time) == decode_time_delta(Unpacked(W32, column.packed), base_time)

\* One byte for each tick: its buy flag.  Without it the tick was sold.
encode_side_flags(flags) == [i \in DOMAIN flags |-> "TICK_FROM_BUY" \in flags[i]]
decode_side_flags(bytes) ==
    [i \in DOMAIN bytes |-> IF bytes[i] THEN {"TICK_FROM_BUY"} ELSE {"TICK_FROM_SELL"}]
=============================================================================
