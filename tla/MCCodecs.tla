------------------------------ MODULE MCCodecs ------------------------------
(***************************************************************************)
(* The library's stateless parts and its three small stateful ones, one    *)
(* part to a behaviour: the parts share nothing, and the others stand      *)
(* still.                                                                  *)
(***************************************************************************)
EXTENDS Conversions, Serializers, DynamicBitset, FundingDB

VARIABLE part
Parts == {"algorithms", "serializers", "bitset", "funding"}
codecs_vars == <<part, avars, svars, bvars, fvars>>

CodecsInit == /\ part \in Parts
              /\ AlgInit /\ SerInit /\ BitInit /\ FundingInit
              /\ part # "serializers" => kind = "ticks"
Algorithm == part = "algorithms" /\ (AlgNext \/ ConvNext) /\ UNCHANGED <<part, svars, bvars, fvars>>
Serializer == part = "serializers" /\ SerNext /\ UNCHANGED <<part, avars, bvars, fvars>>
Bitset == part = "bitset" /\ BitNext /\ UNCHANGED <<part, avars, svars, fvars>>
Funding == part = "funding" /\ FundingNext /\ UNCHANGED <<part, avars, svars, bvars>>
CodecsNext == Algorithm \/ Serializer \/ Bitset \/ Funding
CodecsSpec == CodecsInit /\ [][CodecsNext]_codecs_vars

-----------------------------------------------------------------------------
Short(values, n) == UNION {[1..k -> values] : k \in 0..n}
MCSigned == Short({-64, -16, -9, 0, 7, 15, 63}, 3) \cup Short({-8, 0, 15}, 5)
MCUnsigned == Short({0, 1, 2, 5, 15, 31, 32, 63, 127}, 3) \cup Short({0, 1, 2}, 6)
MCBases == {-16, 0, 5, 15, 63}

Bar(t, o, h, l, c, v, s) ==
    [time |-> t, open |-> o, high |-> h, low |-> l, close |-> c, volume |-> v, spread |-> s]
MCBars == [t \in 0..9 |-> Bar(t, 2 + ((t * 3) % 5), 6 + ((t * 2) % 3), (t * 5) % 3, 2 + ((t * 4) % 5),
                             t + 1, (t * 7) % 5)]
Ordered(times) == SelectSeq([i \in 1..10 |-> MCBars[i - 1]], LAMBDA bar : bar.time \in times)
MCBarSeqs == {Ordered(times) : times \in {x \in SUBSET (0..8) : Cardinality(x) <= 5}} \cup {Ordered(0..8)}
MCAnyBars == {[i \in DOMAIN s |-> MCBars[s[i]]] : s \in Short({0, 1, 3, 4, 8}, 4)}
MCIntervals == {1, 2, 3}
MCTimes == {0, 2, 4, 9}
MCStale == {Bar(0, 9, 9, 9, 9, 9, 9)}

-----------------------------------------------------------------------------
Trade(t, p, v, f) == [time |-> t, last |-> p, volume |-> v, flags |-> f]
MCTickInputs == {
    <<>>,
    <<Trade(9, 5, 2, {"TICK_FROM_BUY", "LAST_UPDATED"}), Trade(9, 40, 40, {"TICK_FROM_SELL"}),
      Trade(11, 40, 0, {"TICK_FROM_BUY", "LAST_UPDATED"})>>,
    <<Trade(9, 6, 1, {}), Trade(8, 5, 1, {"TICK_FROM_BUY"})>>}
Config(flags, digits, frame) ==
    [flags |-> flags, digits |-> digits, tick_size |-> 1, expiration |-> 21, time_frame |-> frame]
MCTickConfigs == {
    Config({"STORE_RAW_BINARY"}, 2, 0),
    Config({"STORE_RAW_BINARY", "ENABLE_VOLUME"}, 3, 0),
    Config({"TRADE_BASED", "ENABLE_TICK_FLAGS", "ENABLE_VOLUME"}, 2, 0),
    Config({"TRADE_BASED", "ENABLE_TICK_FLAGS"}, 1, 0),
    Config({"TRADE_BASED"}, 2, 0),
    Config({}, 1, 0)}
MCBarInputs == {<<>>, <<[time |-> 9, open |-> 1], [time |-> 13, open |-> 2]>>}
MCBarConfigs == {
    Config({"STORE_RAW_BINARY"}, 2, 60),
    Config({"STORE_RAW_BINARY"}, 3, 3600),
    Config({"STORE_RAW_BINARY"}, 1, 604800),
    Config({"SPREAD_LAST"}, 2, 60)}

MCOperands == {{}, {0, 3}, 0..7, {1, 2, 4, 5}}

-----------------------------------------------------------------------------
MCArrays == {[how |-> "one", values |-> <<40>>], [how |-> "vbyte", values |-> <<0, 3, 4, 63>>],
             [how |-> "vbyte", values |-> <<>>]}
    \cup {[how |-> how, values |-> v] : how \in {"simd", "simd_bit"},
              v \in {<<>>, <<0>>, <<5, 63>>, <<1, 2, 3, 4>>, <<0, 0, 0, 0, 9>>, <<8, 8, 8, 8, 1, 1, 1, 1, 0, 2>>}}
MCPlans == {<<a>> : a \in MCArrays} \cup {<<a, b>> : a, b \in MCArrays}
               \cup {<<a, b, a>> : a, b \in MCArrays}

MCValues == {-1500, -1499, -501, -500, -499, -151, -51, -50, -49, -5, -4, 0, 4, 5, 6, 14, 15, 49, 50, 51,
             149, 150, 499, 500, 501, 949, 1000, 1499, 1500}

MCFlags == {"ticks", "bars"}
Meta(flags, s, e, symbols, exchanges, markets) ==
    [flags |-> flags, start |-> s, end |-> e,
     ids |-> [k \in Kind |-> CASE k = "symbol" -> symbols [] k = "exchange" -> exchanges [] k = "market" -> markets]]
MCMetadata == {NoMetadata, Meta({"ticks"}, 3, 9, {1, 2}, {1}, {2}), Meta(MCFlags, 0, 5, {3}, {}, {1, 2, 3}),
               Meta({}, 4, 4, {}, {2, 3}, {})}

-----------------------------------------------------------------------------
\* Lines of a file: whole ones of each unit of time, cut ones, unreadable ones.
Short_files(header, lines, n) == {header} \cup {header \o x : x \in Short(lines, n)} \cup Short(lines, n)
BinanceRow(price, time, maker) == <<Number(100, 0), price, Number(250, 1), Number(9, 0), Number(time, 0), Word(maker)>>
BinanceRows == {
    BinanceRow(Number(500, 0), 900, "true"), BinanceRow(Number(500, 1), 800, "false"),
    BinanceRow(Number(725, 2), 4000, "True"), BinanceRow(Number(500, 0), 50000, "true"),
    BinanceRow(Word("price"), 900, "true"),
    SubSeq(BinanceRow(Number(725, 2), 900, "true"), 1, 2), <<Word("")>>}
MCSpotFiles == Short_files(<<<<Word("id")>>>>, BinanceRows, 3)
MCFuturesFiles == Short_files(<<<<Word("id")>>>>,
    {Append(r, Word("True")) : r \in {x \in BinanceRows : Len(x) = 6}} \cup BinanceRows, 2)
BybitRow(time, side, price, direction) ==
    <<Number(time, 2), Word("symbol"), Word(side), Number(300, 0), price, Word(direction)>>
BybitRows == {
    BybitRow(125, "Buy", Number(500, 0), "PlusTick"), BybitRow(150, "Sell", Number(500, 1), "ZeroPlusTick"),
    BybitRow(150, "Sell", Number(450, 1), "MinusTick"), BybitRow(150, "Buy", Word("nan"), "MinusTick"),
    SubSeq(BybitRow(175, "Buy", Number(500, 0), "PlusTick"), 1, 4),
    SubSeq(BybitRow(200, "None", Number(475, 2), "PlusTick"), 1, 5),
    SubSeq(BybitRow(175, "Sell", Number(500, 0), "PlusTick"), 1, 2)}
MCBybitFiles == {<<>>} \cup Short_files(<<<<Word("timestamp")>>>>, BybitRows, 3)

-----------------------------------------------------------------------------
Rate(t, r) == [time |-> t, rate |-> r]
MCRateBatches == {<<Rate(5, 1)>>, <<Rate(6, 2), Rate(9, 2)>>, <<Rate(9, 3)>>, <<Rate(10, 1), Rate(13, 1)>>,
                  <<Rate(6, 4), Rate(7, 4)>>, <<Rate(9, 5), Rate(4, 5)>>}
=============================================================================
