----------------------------- MODULE Serializers -----------------------------
(***************************************************************************)
(* compression/: TickSerializer over TickBinarySerializerV1 and            *)
(* TickCompressorV1, and BarSerializer over BarBinarySerializerV1, as one  *)
(* object of the kind chosen at the start sees its calls.  The caller has  *)
(* one output buffer and one vector it reads into; it may pass them on     *)
(* with what they hold.  A buffer is a sequence of blocks; the origin of a *)
(* block, which no call reads, is what it was made from.                   *)
(***************************************************************************)
EXTENDS TickCodec, TimeFrames

CONSTANTS
    TickInputs, TickConfigs,    \* sequences of ticks, configurations
    BarInputs, BarConfigs,
    INTERVAL,                   \* interval_ms, the hour a tick block starts in
    MAX_DIGITS,                 \* max_digits
    MAX_READ, MAX_BLOCKS        \* bounds: the vector read into, the buffer written to

ASSUME IntervalAssumption == INTERVAL \in Nat \ {0} /\ MAX_DIGITS \in Nat

TickStorageFlags == {"TRADE_BASED", "ENABLE_TICK_FLAGS", "ENABLE_RECV_TIME", "ENABLE_VOLUME", "STORE_RAW_BINARY"}
BarStorageFlags == {"BID_BASED", "ASK_BASED", "LAST_BASED", "ENABLE_VOLUME", "ENABLE_QUOTE_VOLUME",
                    "ENABLE_TICK_VOLUME", "ENABLE_BUY_VOLUME", "ENABLE_BUY_QUOTE_VOLUME", "ENABLE_SPREAD",
                    "SPREAD_LAST", "SPREAD_AVG", "SPREAD_MAX", "STORE_RAW_BINARY", "FINALIZED_BARS"}
TickUpdateFlags == {"BID_UPDATED", "ASK_UPDATED", "LAST_UPDATED", "VOLUME_UPDATED", "TICK_FROM_BUY",
                    "TICK_FROM_SELL", "BEST_MATH"}
CodecConfig == [flags : SUBSET (TickStorageFlags \cup BarStorageFlags), digits : Nat, tick_size : Nat,
                expiration : Int, time_frame : Nat]
MarketTick == [time : Nat, last : Nat, volume : Nat, flags : SUBSET TickUpdateFlags]
\* Scaled prices and volumes fit 64 bits and a count of ticks 31.  The times of
\* a block are less than the range of 32 bits from one another and from the
\* start of its hour: the compressor cuts what is longer.
ASSUME SerializedAssumption ==
    /\ TickConfigs \cup BarConfigs \subseteq CodecConfig
    /\ \A ticks \in TickInputs :
         /\ ticks \in Seq(MarketTick) /\ Len(ticks) < Half_of(W32)
         /\ \A i \in DOMAIN ticks :
              /\ ticks[i].last < Half_of(W64) /\ ticks[i].volume < Range_of(W64)
              /\ ticks[i].time - (IF i = 1 THEN (ticks[1].time \div INTERVAL) * INTERVAL
                                  ELSE ticks[i - 1].time) < Range_of(W32)
    /\ \A bars \in BarInputs \ {<<>>} : bars[1].time \in Nat

VARIABLES
    kind,           \* "ticks" or "bars"
    m_serializer,   \* the format selected, "none" before the first selection
    m_config,       \* the configuration of each format's serializer
    output,         \* the caller's buffer, a sequence of blocks
    items,          \* the caller's vector
    call            \* the last call: its name, whether it returned, and what it was passed
svars == <<kind, m_serializer, m_config, output, items, call>>

Formats == {"raw", "compressor"}
DefaultConfig == [flags |-> {}, digits |-> 0, tick_size |-> 0, expiration |-> 0, time_frame |-> 0]
Inputs == IF kind = "ticks" THEN TickInputs ELSE BarInputs
Configs == IF kind = "ticks" THEN TickConfigs ELSE BarConfigs

\* The length of the interval whose number in time a block starts with.
base_interval(time_frame) ==
    IF kind = "ticks" THEN INTERVAL ELSE get_segment_duration_ms(time_frame)
Block(signature, input, c, flags, fields) ==
    LET base == input[1].time \div base_interval(c.time_frame)
    IN  [signature |-> signature, digits |-> c.digits, flags |-> flags, time_frame |-> c.time_frame,
         base |-> base, fields |-> fields, origin |-> [input |-> input, config |-> c],
         expiration |-> encode_zig_zag_scalar(c.expiration - base * base_interval(c.time_frame))]
base_time(block) == block.base * base_interval(block.time_frame)

-----------------------------------------------------------------------------
(* The formats: [ok, out], and out is what the buffer holds afterwards.    *)

Wrote(out) == [ok |-> TRUE, out |-> out]
Threw(out) == [ok |-> FALSE, out |-> out]
TickHeaderFlags == {"ENABLE_TICK_FLAGS", "TRADE_BASED", "ENABLE_VOLUME"}

\* TickBinarySerializerV1 replaces what the buffer holds.
SerializeRawTicks(ticks, c, buffer) ==
    IF ticks = <<>> THEN Wrote(buffer)
    ELSE IF "STORE_RAW_BINARY" \notin c.flags \/ c.digits > MAX_DIGITS THEN Threw(buffer)
    ELSE Wrote(<<Block("raw", ticks, c, c.flags \cap TickHeaderFlags, ticks)>>)

\* TickCompressorV1 adds to it.
Column_of(ticks, field) == [i \in DOMAIN ticks |-> ticks[i][field]]
TimeColumn(ticks) ==
    encode_time(Column_of(ticks, "time"), (ticks[1].time \div INTERVAL) * INTERVAL)
Compressed(ticks, c) ==
    [price |-> encode_price_last(Column_of(ticks, "last"), ticks[1].last),
     initial_price |-> ticks[1].last,
     volume |-> IF "ENABLE_VOLUME" \in c.flags THEN <<encode_volume(Column_of(ticks, "volume"))>> ELSE <<>>,
     time |-> TimeColumn(ticks).out,
     side |-> encode_side_flags(Column_of(ticks, "flags")),
     last_updated |-> "LAST_UPDATED" \in ticks[1].flags,
     tick_size |-> c.tick_size]
compress(ticks, c, buffer) ==
    IF ticks = <<>> THEN Wrote(buffer)
    ELSE IF \/ "ENABLE_TICK_FLAGS" \notin c.flags
            \/ c.digits > MAX_DIGITS
            \/ ~TimeColumn(ticks).ok
    THEN Threw(buffer)
    ELSE Wrote(Append(buffer, Block("compressor", ticks, c, c.flags \cap TickHeaderFlags,
                                    Compressed(ticks, c))))

\* BarBinarySerializerV1: every flag but the one of the format is in the header.
SerializeRawBars(bars, c, buffer) ==
    IF bars = <<>> THEN Wrote(buffer)
    ELSE IF \/ "STORE_RAW_BINARY" \notin c.flags
            \/ c.digits > MAX_DIGITS
            \/ ~is_segmentable_timeframe(c.time_frame)
    THEN Threw(buffer)
    ELSE Wrote(<<Block("raw", bars, c, c.flags \ {"STORE_RAW_BINARY"}, bars)>>)

Serialized(format, input, c, buffer) ==
    CASE kind = "bars" -> SerializeRawBars(input, c, buffer)
      [] kind = "ticks" /\ format = "raw" -> SerializeRawTicks(input, c, buffer)
      [] kind = "ticks" /\ format = "compressor" -> compress(input, c, buffer)

-----------------------------------------------------------------------------
(* Reading: the configuration and the vector afterwards.  A header has no  *)
(* place for some fields, and those keep what the serializer held.         *)

FromHeader(block, c) == [c EXCEPT !.flags = block.flags, !.digits = block.digits,
                                  !.expiration = base_time(block) + decode_zig_zag_scalar(block.expiration)]

\* Mutant of DeserializeRawTicks: the flag of the format is set before the
\* flags are cleared.
DeserializeRawTicksUnmarked(block, c, into) ==
    [config |-> FromHeader(block, c), items |-> block.fields]

DeserializeRawTicks(block, c, into) ==
    [config |-> [FromHeader(block, c) EXCEPT !.flags = @ \cup {"STORE_RAW_BINARY"}],
     items |-> block.fields]

\* The flag of the format is set first and cleared with the others.
DeserializeRawBars(block, c, into) ==
    [config |-> [FromHeader(block, c) EXCEPT !.time_frame = block.time_frame],
     items |-> block.fields]

Decompressed(block) ==
    LET f == block.fields
        last == decode_price_last(f.price, f.initial_price)
        time == decode_time(f.time[1], base_time(block))
        side == decode_side_flags(f.side)
        volume == IF f.volume = <<>> THEN [i \in DOMAIN last |-> 0] ELSE decode_volume(f.volume[1])
        marks(i) == (IF i = 1 /\ f.last_updated THEN {"LAST_UPDATED"} ELSE {})
                    \cup (IF f.volume = <<>> THEN {} ELSE {"VOLUME_UPDATED"})
    IN  [i \in DOMAIN last |-> [time |-> time[i], last |-> last[i], volume |-> volume[i],
            flags |-> IF "ENABLE_TICK_FLAGS" \in block.flags THEN side[i] \cup marks(i) ELSE {}]]
decompress(block, c, into) ==
    [config |-> [FromHeader(block, c) EXCEPT !.tick_size = block.fields.tick_size],
     items |-> into \o Decompressed(block)]

Deserialized(block, c, into) ==
    CASE kind = "bars" -> DeserializeRawBars(block, c, into)
      [] kind = "ticks" /\ block.signature = "raw" -> DeserializeRawTicks(block, c, into)
      [] kind = "ticks" /\ block.signature = "compressor" -> decompress(block, c, into)

-----------------------------------------------------------------------------
\* select_serializer, by configuration: "none" stands for the exception.
SelectTicks(c) == CASE "STORE_RAW_BINARY" \in c.flags -> "raw"
                    [] {"STORE_RAW_BINARY", "TRADE_BASED"} \cap c.flags = {"TRADE_BASED"} -> "compressor"
                    [] OTHER -> "none"
SelectBars(c) == IF "STORE_RAW_BINARY" \in c.flags THEN "raw" ELSE "none"
select_serializer(c) == IF kind = "ticks" THEN SelectTicks(c) ELSE SelectBars(c)

\* By signature: the first block of the buffer decides.
select_by_signature(buffer) == IF buffer = <<>> THEN "none" ELSE buffer[1].signature

Called(name, ok, input, before) == call' = [name |-> name, ok |-> ok, input |-> input, before |-> before]

SerInit ==
    /\ kind \in {"ticks", "bars"}
    /\ m_serializer = "none"
    /\ m_config = [f \in Formats |-> DefaultConfig]
    /\ output = <<>> /\ items = <<>>
    /\ call = [name |-> "none", ok |-> TRUE, input |-> <<>>, before |-> <<>>]

set_codec_config(c) ==
    LET f == select_serializer(c)
    IN  /\ m_serializer' = IF f = "none" THEN m_serializer ELSE f
        /\ m_config' = IF f = "none" THEN m_config ELSE [m_config EXCEPT ![f] = c]
        /\ Called("set_codec_config", f # "none", <<>>, <<>>)
        /\ UNCHANGED <<kind, output, items>>

\* A call of serialize() that ends in format f, "none" when none is selected.
Write(f, input, c, buffer) ==
    LET r == IF f = "none" THEN Threw(buffer) ELSE Serialized(f, input, c, buffer)
    IN  /\ Len(buffer) < MAX_BLOCKS
        /\ output' = r.out
        /\ Called("serialize", r.ok, input, buffer)
        /\ UNCHANGED <<kind, items>>

\* serialize(items, output), with the configuration the serializer holds.
serialize(input, buffer) ==
    /\ Write(m_serializer, input,
             IF m_serializer = "none" THEN DefaultConfig ELSE m_config[m_serializer], buffer)
    /\ UNCHANGED <<m_serializer, m_config>>

\* serialize(items, config, output): the configuration stays set, also when
\* the call throws afterwards.
serialize_with(input, c, buffer) ==
    LET f == select_serializer(c)
    IN  /\ Write(f, input, c, buffer)
        /\ m_serializer' = IF f = "none" THEN m_serializer ELSE f
        /\ m_config' = IF f = "none" THEN m_config ELSE [m_config EXCEPT ![f] = c]

\* deserialize(input, items), with or without the configuration returned: that
\* is the one the serializer now holds.  zstd refuses a block that another one
\* follows.
deserialize(into) ==
    LET f == select_by_signature(output)
        refused == f = "none" \/ (f = "compressor" /\ Len(output) > 1)
        r == Deserialized(output[1], m_config[f], into)
    IN  /\ Len(into) < MAX_READ
        /\ m_serializer' = IF f = "none" THEN m_serializer ELSE f
        /\ m_config' = IF refused THEN m_config ELSE [m_config EXCEPT ![f] = r.config]
        /\ items' = IF refused THEN into ELSE r.items
        /\ Called("deserialize", ~refused, into, <<>>)
        /\ UNCHANGED <<kind, output>>

SerNext ==
    \/ \E c \in Configs : set_codec_config(c)
    \/ \E input \in Inputs, buffer \in {<<>>, output} : serialize(input, buffer)
    \/ \E input \in Inputs, c \in Configs, buffer \in {<<>>, output} : serialize_with(input, c, buffer)
    \/ \E into \in {<<>>, items} : deserialize(into)
SerSpec == SerInit /\ [][SerNext]_svars

-----------------------------------------------------------------------------
(* Properties *)

\* What a trade tick looks like after the compressor: without volume unless it
\* is kept, with a side, and with the mark of the last price on the first only.
Visible(ticks, c) ==
    [i \in DOMAIN ticks |->
        [time |-> ticks[i].time, last |-> ticks[i].last,
         volume |-> IF "ENABLE_VOLUME" \in c.flags THEN ticks[i].volume ELSE 0,
         flags |-> (IF "TICK_FROM_BUY" \in ticks[i].flags THEN {"TICK_FROM_BUY"} ELSE {"TICK_FROM_SELL"})
                   \cup (IF i = 1 THEN ticks[i].flags \cap {"LAST_UPDATED"} ELSE {})
                   \cup (IF "ENABLE_VOLUME" \in c.flags THEN {"VOLUME_UPDATED"} ELSE {})]]

\* A successful read gives back what the block was made from, whatever the
\* serializer was used for before (TickSerializer.hpp:74-93,
\* BarSerializer.hpp:71-89): raw items exactly and in place of what the vector
\* held, compressed ticks as they are visible and after it.
ReadGivesBackTheItems ==
    call.name = "deserialize" /\ call.ok =>
        LET origin == output[1].origin
        IN  items = IF output[1].signature = "raw" THEN origin.input
                    ELSE call.input \o Visible(origin.input, origin.config)

\* The configuration a read returns is the one the block was written with, in
\* the fields every header has; only the compressor keeps the tick size.
ReadGivesBackTheConfig ==
    call.name = "deserialize" /\ call.ok =>
        LET c == m_config[m_serializer]
            origin == output[1].origin.config
        IN  /\ <<c.digits, c.expiration>> = <<origin.digits, origin.expiration>>
            /\ kind = "bars" => c.time_frame = origin.time_frame
            /\ m_serializer = "compressor" => c.tick_size = origin.tick_size

\* Ticks can be written again with the configuration they were read with
\* (TickSerializer.hpp:103-111, TickBinarySerializerV1.hpp:119-132).
ReadTicksCanBeWritten ==
    kind = "ticks" /\ call.name = "deserialize" /\ call.ok =>
        LET c == m_config[m_serializer]
        IN  /\ select_serializer(c) = m_serializer
            /\ Serialized(m_serializer, output[1].origin.input, c, <<>>).ok

\* A call that throws leaves the buffer as it was: no block is lost and none
\* is begun (BarBinarySerializerV1.hpp:40-59, TickCompressorV1.hpp:95-183).
FailedCallsKeepTheBuffer ==
    call.name = "serialize" /\ ~call.ok => output = call.before

\* Through any calls of a serializer with one buffer: what is read is what was
\* written, it can be written again, and a failure costs nothing.
SerializersAreExact ==
    ReadGivesBackTheItems /\ ReadGivesBackTheConfig /\ ReadTicksCanBeWritten /\ FailedCallsKeepTheBuffer
=============================================================================
