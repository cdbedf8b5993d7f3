----------------------------- MODULE Conversions -----------------------------
(***************************************************************************)
(* The conversions between the program and what is outside of it, each     *)
(* called once, in the variables of Algorithms: names and JSON, packed     *)
(* bytes, metadata, trade files, fixed-point numbers.                      *)
(***************************************************************************)
EXTENDS Algorithms, TradeRecords, PackedIntegers, FixedPoint, TradeParsers, MetadataBytes

CONSTANTS
    PackPlans,      \* sequences of arrays [how, values] to write to one buffer
    BITS,           \* the width simd_bit is called with
    Values,         \* numbers in units of 10^-PLACES
    FuturesFiles, SpotFiles, BybitFiles,
    MetadataRecords

-----------------------------------------------------------------------------
NameValues == \E enum \in EnumTypes : \E v \in ToSet(enum.values), before \in {enum.values[1], Last(enum.values)} :
    \/ \E text \in {to_str(enum, v), InLowerCase(v), Text("NO_SUCH_NAME"), NotText} :
        Returns("name", [enum |-> enum, text |-> text], before,
                [written |-> to_str(enum, v).name = v,
                 read |-> to_enum(enum, text, before), from_json |-> from_json(enum, text, before)])
    \/ enum = AccountType /\ \E mode \in {0, 1} :
        Returns("account_name", <<v, mode>>, before, to_enum(AccountType, to_str_account(v, mode), before))
    \/ enum = ExchangeType /\ Returns("name_view", v, before, to_str_view(v))

\* A record with a value in each member, and one as it is constructed.
RecordOf(type, Value(_)) ==
    [m \in ToSet(type.written) \cup type.unwritten |->
        IF IsEnum(type, m) THEN Value(type.enums[m].values) ELSE Value(<<"", "some">>)]
Filled(type) == RecordOf(type, Last)
Fresh(type) == RecordOf(type, Head)

\* The JSON object as it was written, without one key, or with a name in it
\* that no enumeration has.
WriteRecords == \E type \in RecordTypes :
    LET json == to_json(type, Filled(type))
    IN  \/ Returns("record", [type |-> type, at |-> Len(type.written) + 1], "whole",
                   record_from_json(type, json, Fresh(type)))
        \/ \E k \in DOMAIN type.written :
            \/ Returns("record", [type |-> type, at |-> k], "missing",
                       record_from_json(type, [m \in DOMAIN json \ {type.written[k]} |-> json[m]], Fresh(type)))
            \/ /\ IsEnum(type, type.written[k]) /\ type.enums[type.written[k]].json = "throws"
               /\ Returns("record", [type |-> type, at |-> k], "unknown name",
                          record_from_json(type, [json EXCEPT ![type.written[k]] = Text("NO_SUCH_NAME")],
                                           Fresh(type)))

-----------------------------------------------------------------------------
AppendArray(build, buffer, array) ==
    CASE array.how = "vbyte" -> append_vbytes(buffer, array.values)
      [] array.how = "one" -> append_vbyte(buffer, array.values[1])
      [] array.how = "simd" -> append_simdcomp(build, buffer, array.values)
      [] array.how = "simd_bit" -> append_simdcomp_bit(buffer, array.values, BITS)
ExtractArray(buffer, offset, how, length) ==
    CASE how = "vbyte" -> extract_vbytes(buffer, offset, length)
      [] how = "one" -> LET one == extract_vbyte(buffer, offset)
                        IN  [values |-> <<one.value>>, offset |-> one.offset]
      [] how = "simd" -> extract_simdcomp(buffer, offset, length)
      [] how = "simd_bit" -> extract_simdcomp_bit(buffer, offset, length, BITS)

Packed_bytes(build, plan) == FoldLeft(LAMBDA buffer, array : AppendArray(build, buffer, array), <<>>, plan)
PackArrays == \E plan \in PackPlans :
    \/ LET buffer == Packed_bytes("cancels", plan)
       IN  Returns("packed", plan, Len(buffer),
                   FoldLeft(LAMBDA r, array :
                                LET read == ExtractArray(buffer, r.offset, array.how, Len(array.values))
                                IN  [arrays |-> Append(r.arrays, read.values), offset |-> read.offset],
                            [arrays |-> <<>>, offset |-> 0], plan))
    \/ Returns("packed_size", plan, Len(Packed_bytes("cancels", plan)), Len(Packed_bytes("divides", plan)))

Dictionaries == {<<>>, <<MAGIC, 7>>, <<MAGIC, 8>>, <<7>>, <<8>>}
\* data compressed behind before with dictionary and read with other, and
\* again with a signature and n samples in front.
Framed(data, before, dictionary, n, back) ==
    LET plain == compress_zstd_data(data, dictionary, before)
        headed == compress_zstd_samples(data, dictionary, 5, n, <<>>)
    IN  IF ~plain.ok THEN [ok |-> headed.ok]
        ELSE [ok |-> headed.ok, kept |-> SubSeq(plain.out, 1, Len(before)), back |-> back,
              twice |-> decompress_zstd_data(<<Last(plain.out), Last(plain.out)>>, dictionary, before),
              signature |-> extract_signature(headed.out), samples |-> extract_num_samples(headed.out),
              body |-> decompress_zstd_data(<<Last(headed.out)>>, dictionary, before)]
\* The bytes behind before, none of them when nothing was compressed.
FrameBehind(data, before, dictionary) ==
    LET plain == compress_zstd_data(data, dictionary, before)
    IN  SubSeq(plain.out, Len(before) + 1, Len(plain.out))

CompressBytes == \E data, before \in {<<>>, <<2, 1>>}, dictionary, other \in Dictionaries, n \in {0, 1, 40} :
    \E back \in decompress_zstd_data(FrameBehind(data, before, dictionary), other, before) :
        Returns("zstd", [data |-> data, before |-> before, n |-> n], <<dictionary, other>>,
                Framed(data, before, dictionary, n, back))

-----------------------------------------------------------------------------
StoreMetadata == \E m, before \in MetadataRecords :
    LET data == serialize_metadata(m)
    IN  \E n \in 0..Len(data) :
            Returns("metadata", <<m, before>>, Len(data) - n, deserialize_metadata(SubSeq(data, 1, n), before))

RoundNumbers == \E v, w \in Values, d \in 0..MAX_PRECISION + 1 :
    Returns("fixed", <<v, w>>, d,
        IF DigitsRefused(d) THEN [throws |-> TRUE]
        ELSE [throws |-> FALSE, normal |-> normalize_double(v, d), again |-> normalize_double(normalize_double(v, d), d),
              other |-> normalize_double(w, d), fixed |-> from_fixed_point(to_fixed_point(v, d), d),
              same |-> compare_with_precision(v, w, d)])

SomeSequence == Sequence(<<Trade_tick(1, 1, 1, {})>>, 9, 9)
ParseTrades == \E detect \in BOOLEAN :
    \/ \E file \in FuturesFiles :
        Returns("futures", file, detect, parse_binance_futures_trades(SomeSequence, file, detect))
    \/ \E file \in SpotFiles : Returns("spot", file, detect, parse_binance_spot_trades(SomeSequence, file, detect))
    \/ \E file \in BybitFiles : Returns("bybit", file, detect, parse_bybit_trades(SomeSequence, file, detect))

ConvNext ==
    /\ op = "none"
    /\ NameValues \/ WriteRecords \/ PackArrays \/ CompressBytes \/ StoreMetadata \/ RoundNumbers \/ ParseTrades

\* One call to a behaviour, of either module.
AlgSpec == AlgInit /\ [][AlgNext \/ ConvNext]_avars

-----------------------------------------------------------------------------
(* Properties *)

\* What an enumeration writes it reads back, whatever the value read into held;
\* a name it does not know is told, thrown or becomes UNKNOWN as its JSON form
\* has it, and never leaves a third value; lower case is read by the four
\* enumerations that fold it, and the mixed-case names of AccountType by none
\* (trading/enums.hpp:12-908, common/enums.hpp:12-264).
NamesAreRead ==
    /\ op = "name" =>
        LET enum == input.enum
            known == input.text.name \in ToSet(enum.values) /\ (input.text.upper \/ enum.folds)
        IN  /\ answer.written
            /\ answer.read = [found |-> known, value |-> IF known THEN input.text.name ELSE base]
            /\ answer.from_json.value \in {answer.read.value, "UNKNOWN"}
            /\ known => answer.from_json = [throws |-> FALSE, value |-> input.text.name]
            /\ answer.from_json.throws => answer.from_json.value = base
            /\ ~known /\ ~answer.from_json.throws /\ enum.json # "none" => enum \in {MarketType, ExchangeType}
    /\ op = "account_name" => answer.found = (input[2] = 0) /\ (answer.found => answer.value = input[1])
    /\ op = "name_view" => answer = input

\* A record read from what was written of it is that record but for the members
\* that are not written, the error of a TradeResult among them; JSON that
\* cannot be read throws at the first such member, which leaves the members
\* before it replaced and the others as they were (OrderRequest.hpp:53-81,
\* OrderResult.hpp:50-68, TradeRequest.hpp:83-110, TradeResult.hpp:68-97).
RecordsAreRead ==
    op = "record" =>
        LET type == input.type
            taken == {type.written[k] : k \in 1..input.at - 1}
        IN  /\ answer.ok = (base = "whole")
            /\ \A m \in DOMAIN answer.record :
                  answer.record[m] = IF m \in taken THEN Filled(type)[m] ELSE Fresh(type)[m]

\* Arrays appended to one buffer are read back one after the other, but for
\* values wider than the width a caller gives, and the offset ends where the
\* buffer does, when append_simdcomp is built so that the difference of
\* pointers counts bytes; a build that counts whole units cuts a byte for each
\* block off an array with a short block (vbyte.hpp:24-115, simdcomp.hpp:20-171).
PackedIsExact ==
    /\ op = "packed" =>
        /\ answer.offset = base
        /\ \A k \in DOMAIN input : \A values \in {input[k].values} :
              \/ answer.arrays[k] = values
              \/ input[k].how = "simd_bit" /\ \E i \in DOMAIN values : values[i] >= 2^BITS
    /\ op = "packed_size" =>
        base - answer = FoldSeq(+, 0, [k \in DOMAIN input |->
            IF input[k].how = "simd" /\ Len(input[k].values) % BLOCK # 0
            THEN Ceil(Len(input[k].values), BLOCK) % UNIT ELSE 0])

\* A compressed frame is added behind what the buffer holds and gives the data
\* back to the dictionary it was made with, replacing the buffer; another
\* dictionary is refused if the frame's own one was trained, and if it was raw,
\* without an ID, nothing but the length can be relied on.  Two frames in one
\* buffer are refused, and the header tells signature and count without the
\* dictionary (zstd_utils.hpp:19-191).
FramesAreExact ==
    op = "zstd" =>
        LET valid == input.data # <<>> /\ base[1] # <<>>
            back == answer.back
        IN  /\ answer.ok = valid
            /\ valid => /\ answer.kept = input.before
                        /\ base[2] = base[1] => back = [ok |-> TRUE, out |-> input.data]
                        /\ base[2] # base[1] /\ Trained(base[1]) => ~back.ok
                        /\ base[2] # <<>> => Len(back.out) = Len(input.data)
                        /\ \A result \in answer.twice : ~result.ok
                        /\ <<answer.signature, answer.samples>> = <<5, input.n>>
                        /\ answer.body = {[ok |-> TRUE, out |-> input.data]}

\* Stored metadata read into any record gives the metadata; data cut short
\* throws, and each list is then the old or the new one, whole
\* (StorageMetadata.hpp:184-248).
MetadataIsRead ==
    op = "metadata" =>
        /\ answer.ok = (base = 0)
        /\ answer.ok => answer.m = input[1]
        /\ \A k \in Kind : answer.m.ids[k] \in {input[1].ids[k], input[2].ids[k]}

\* Normal forms are stable, within half a unit of 10^-digits, and those of
\* fixed point.  Numbers compare equal up to a whole unit: so many does the
\* table of precision_tolerance hold (fixed_point.hpp:61-81), and not the half
\* unit that the comment above it tells (:53).  So numbers of one normal form
\* compare equal, and numbers of one sign that compare equal have normal forms
\* one unit apart at most (:23-131).
NumbersAreRounded ==
    op = "fixed" =>
        /\ answer.throws = (base > MAX_PRECISION)
        /\ ~answer.throws =>
            /\ answer.again = answer.normal /\ answer.fixed = answer.normal
            /\ 2 * abs(answer.normal - input[1]) <= UnitsOf(base)
            /\ answer.same <=> abs(input[1] - input[2]) <= UnitsOf(base)
            /\ answer.normal = answer.other => answer.same
            /\ answer.same /\ (input[1] >= 0 <=> input[2] >= 0) =>
                  abs(answer.normal - answer.other) <= UnitsOf(base)

-----------------------------------------------------------------------------
\* The lines of a file that hold trades, up to the first that cannot be read.
Header(file) == op = "bybit" \/ ~file[1][1].numeric
TradeLines(file) == IF file = <<>> THEN <<>> ELSE IF Header(file) THEN Tail(file) ELSE file
Columns == IF op = "bybit" THEN [time |-> 1, price |-> 5, volume |-> 4, last |-> 6]
           ELSE [time |-> 5, price |-> 2, volume |-> 3, last |-> 6]
\* The number of the last line up to k that reaches column c, 0 if none does.
Reaching(lines, k, c) == Max({0} \cup {j \in 1..k : Len(lines[j]) >= c})
\* A line cut short, completed to the columns it is read as: a missing one
\* repeats the last one there is, and of a Bybit line, whose side and direction
\* have strings of their own, those of the last line before that has them.
Completed(lines, k) ==
    LET line == lines[k]
        own(c) == IF c <= Len(line) THEN line[c] ELSE Last(line)
        kept(c) == LET j == Reaching(lines, k, c) IN IF j = 0 THEN Word("") ELSE lines[j][c]
        size == IF Len(line) >= 4 THEN line[4] ELSE line[1]
    IN  [c \in 1..7 |-> CASE op # "bybit" -> own(c)
                         [] op = "bybit" /\ c \in {3, 6} -> kept(c)
                         [] op = "bybit" /\ c = 4 -> size
                         [] op = "bybit" /\ c = 5 -> IF Len(line) >= 5 THEN line[5] ELSE size
                         [] OTHER -> line[1]]
LastTicks(ticks, n) == [k \in 1..n |-> ticks[Len(ticks) - n + k]]
Readable(line) == \A c \in {Columns.time, Columns.price, Columns.volume} : line[c].numeric

\* A file becomes its trades in order, up to the first line that cannot be
\* read, which throws and leaves the digits as they were: price and volume are
\* those of the line, distances in time are those of the file, and LAST_UPDATED
\* tells, in Binance's files, that the price is not the one before.  A line cut
\* short is not refused: it is read as Completed says, and so a Bybit line
\* passes its side and its direction on to the cut ones after it.  The
\* comments say that the ticks are appended (binance_parser.hpp:22, :135,
\* bybit_parser.hpp:20); the code drops what the vector held (:33, :37, :150,
\* bybit_parser.hpp:31).  The property speaks of the last ticks of the vector,
\* true of either (binance_parser.hpp:27-245, bybit_parser.hpp:25-100).
TradesAreRead ==
    op \in {"futures", "spot", "bybit"} =>
        LET given == TradeLines(input)
            lines == [k \in DOMAIN given |-> Completed(given, k)]
            good == Max({n \in 0..Len(lines) : \A k \in 1..n : Readable(lines[k])})
            all == answer.sequence.ticks
            ticks == LastTicks(all, good)
        IN  /\ Len(all) >= good /\ answer.ok = (good = Len(lines))
            /\ \A k \in 1..good :
                /\ ticks[k].last = lines[k][Columns.price].number
                /\ ticks[k].volume = lines[k][Columns.volume].number
                /\ op # "bybit" =>
                      /\ Cardinality(ticks[k].flags \cap {"TICK_FROM_BUY", "TICK_FROM_SELL"}) = 1
                      /\ k > 1 => ("LAST_UPDATED" \in ticks[k].flags <=> ticks[k].last # ticks[k - 1].last)
                /\ op = "bybit" =>
                      /\ ticks[k].time = (lines[k][1].number * MS_PER_SEC) \div 100
                      /\ "TICK_FROM_BUY" \in ticks[k].flags <=> lines[k][3].text = "Buy"
                      /\ "TICK_FROM_SELL" \in ticks[k].flags <=> lines[k][3].text = "Sell"
                      /\ "LAST_UPDATED" \in ticks[k].flags <=> lines[k][6].text \in {"PlusTick", "MinusTick"}
            /\ op # "bybit" /\ good > 0 =>
                LET unit == time_mode(stoll(lines[1][5]))
                IN  (\A k \in 1..good : time_mode(stoll(lines[k][5])) = unit) =>
                        \A k \in 1..good : ticks[k].time = time_of(unit, stoll(lines[k][5]))
            /\ IF base /\ answer.ok /\ input # <<>>
               THEN answer.sequence.price_digits = Max({0} \cup {lines[k][Columns.price].places : k \in DOMAIN lines})
               ELSE answer.sequence.price_digits = SomeSequence.price_digits

\* No line of a Binance file leaves a mark on the ticks after the next: each is
\* that of its own line, of the unit of the first one and of the price before,
\* however the lines before were cut short (binance_parser.hpp:88-120).
LinesStandAlone ==
    op \in {"futures", "spot"} =>
        LET lines == TradeLines(input)
            ticks == answer.sequence.ticks
            Alone(k) == LET three == <<<<Word("id")>>, lines[1], lines[k - 1], lines[k]>>
                        IN  Last((IF op = "futures" THEN parse_binance_futures_trades(SomeSequence, three, FALSE)
                                  ELSE parse_binance_spot_trades(SomeSequence, three, FALSE)).sequence.ticks)
        IN  \A k \in 2..Len(ticks) : Alone(k) = ticks[k]

-----------------------------------------------------------------------------

\* A file of trades is taken line by line, with nothing of a line in another
\* but what the formats leave to it.
FilesAreRead == TradesAreRead /\ LinesStandAlone
=============================================================================
