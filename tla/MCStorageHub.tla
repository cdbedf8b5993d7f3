---------------------------- MODULE MCStorageHub ----------------------------
(* Instances of StorageHub for TLC.                                        *)
EXTENDS StorageHub, TLC

TheFlags == {"BARS", "TICKS"}
Ids == {"spot", "binance", "btc"}

OneInstrument == {[k \in Kind |-> CASE k = "market" -> "spot"
                                    [] k = "exchange" -> "binance"
                                    [] OTHER -> "btc"]}

\* Metadata for the bars of this instrument, without a time range.
AnyTime ==
    [NoMetadata EXCEPT !.flags = {"BARS"},
        !.ids = [k \in Kind |-> {i[k] : i \in OneInstrument}]]

\* Segments of two ticks: 1 is 2..3, 2 is 4..5.
FirstSegment  == set_time_range(AnyTime, 2, 3, 2)
SecondSegment == set_time_range(AnyTime, 4, 4, 2)

Patches == {FirstSegment, SecondSegment}
EraseFirst == {<<1, AnyTime>>}
Batches == {{3}, {3, 4}}
=============================================================================
