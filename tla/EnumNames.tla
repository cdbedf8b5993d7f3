----------------------------- MODULE EnumNames -----------------------------
(***************************************************************************)
(* data/trading/enums.hpp and data/common/enums.hpp: the names of the      *)
(* enumerations, to text and to JSON and back.  A text is a name and       *)
(* whether it is in upper case.                                            *)
(***************************************************************************)
EXTENDS Naturals, Sequences, SequencesExt

\* The enumerators in the order of their values, the table of to_str, which is
\* indexed by the value, whether to_enum folds the case of a text, and what
\* from_json does with a text it does not know.
Enum(values, table, folds, json) == [values |-> values, table |-> table, folds |-> folds, json |-> json]

OrderSide == Enum(<<"UNKNOWN", "BUY", "SELL">>, <<"UNKNOWN", "BUY", "SELL">>, FALSE, "throws")
OrderType == Enum(
    <<"UNKNOWN", "MARKET", "LIMIT", "STOP", "STOP_LIMIT">>,
    <<"UNKNOWN", "MARKET", "LIMIT", "STOP", "STOP_LIMIT">>, FALSE, "throws")
TimeInForce == Enum(
    <<"UNKNOWN", "GTC", "IOC", "FOK", "GTX">>,
    <<"UNKNOWN", "GTC", "IOC", "FOK", "GTX">>, FALSE, "throws")
SlippageType == Enum(
    <<"UNKNOWN", "ABSOLUTE_VALUE", "PERCENT_VALUE">>,
    <<"UNKNOWN", "ABSOLUTE_VALUE", "PERCENT_VALUE">>, FALSE, "throws")
TradeMode == Enum(
    <<"UNKNOWN", "SPOT", "LINEAR", "INVERSE", "OPTION">>,
    <<"UNKNOWN", "SPOT", "LINEAR", "INVERSE", "OPTION">>, FALSE, "throws")
PriceTriggerType == Enum(
    <<"UNKNOWN", "MARK_PRICE", "INDEX_PRICE", "LAST_PRICE">>,
    <<"UNKNOWN", "MARK_PRICE", "INDEX_PRICE", "LAST_PRICE">>, FALSE, "throws")
MarginMode == Enum(
    <<"UNKNOWN", "CROSS", "ISOLATED">>,
    <<"UNKNOWN", "CROSS", "ISOLATED">>, FALSE, "throws")
TradeState == Enum(
    <<"UNKNOWN", "OPEN_PLACE", "OPEN_SEND", "OPEN_PENDING", "OPEN_PARTIAL", "OPENED",
      "ACTIVE", "CLOSE_PLACE", "CLOSE_SEND", "CLOSE_PENDING", "CLOSE_PARTIAL", "CLOSED",
      "CANCELED", "REJECTED", "EXPIRED", "CLOSE_ERROR", "FAILED_OPEN", "FAILED_CLOSE">>,
    <<"UNKNOWN", "OPEN_PLACE", "OPEN_SEND", "OPEN_PENDING", "OPEN_PARTIAL", "OPENED",
      "ACTIVE", "CLOSE_PLACE", "CLOSE_SEND", "CLOSE_PENDING", "CLOSE_PARTIAL", "CLOSED",
      "CANCELED", "REJECTED", "EXPIRED", "CLOSE_ERROR", "FAILED_OPEN", "FAILED_CLOSE">>,
      FALSE, "throws")
TpSlMode == Enum(<<"UNKNOWN", "FULL", "PARTIAL">>, <<"UNKNOWN", "FULL", "PARTIAL">>, TRUE, "none")
SmpType == Enum(
    <<"UNKNOWN", "CANCEL_MAKER", "CANCEL_TAKER", "CANCEL_BOTH">>,
    <<"UNKNOWN", "CANCEL_MAKER", "CANCEL_TAKER", "CANCEL_BOTH">>, TRUE, "none")
PositionIdx == Enum(
    <<"UNKNOWN", "ONE_WAY", "HEDGE_BUY", "HEDGE_SELL">>,
    <<"UNKNOWN", "ONE_WAY", "HEDGE_BUY", "HEDGE_SELL">>, TRUE, "throws")
QuantityUnit == Enum(<<"UNKNOWN", "BASE", "QUOTE">>, <<"UNKNOWN", "BASE", "QUOTE">>, TRUE, "throws")
AccountType == Enum(<<"UNKNOWN", "DEMO", "REAL">>, <<"UNKNOWN", "DEMO", "REAL">>, FALSE, "throws")
TradeErrorCode == Enum(
    <<"SUCCESS", "INVALID_SYMBOL", "INVALID_ORDER", "INVALID_ACCOUNT", "INVALID_CURRENCY",
      "AMOUNT_TOO_LOW", "AMOUNT_TOO_HIGH", "PRICE_OUT_OF_RANGE", "SLIPPAGE_EXCEEDED",
      "ORDER_NOT_FILLED", "ORDER_PARTIALLY_FILLED", "ORDER_ALREADY_CLOSED",
      "ORDER_CANCELLED", "ORDER_REJECTED", "INSUFFICIENT_BALANCE", "INSUFFICIENT_MARGIN",
      "POSITION_NOT_FOUND", "POSITION_MODE_MISMATCH", "DUPLICATE_ORDER",
      "INVALID_TIME_IN_FORCE", "INVALID_STOP_PRICE", "RATE_LIMIT_EXCEEDED",
      "CONNECTION_ERROR", "SERVER_ERROR", "INVALID_REQUEST", "TIMEOUT", "PARSING_ERROR",
      "UNKNOWN_ERROR">>,
    <<"SUCCESS", "INVALID_SYMBOL", "INVALID_ORDER", "INVALID_ACCOUNT", "INVALID_CURRENCY",
      "AMOUNT_TOO_LOW", "AMOUNT_TOO_HIGH", "PRICE_OUT_OF_RANGE", "SLIPPAGE_EXCEEDED",
      "ORDER_NOT_FILLED", "ORDER_PARTIALLY_FILLED", "ORDER_ALREADY_CLOSED",
      "ORDER_CANCELLED", "ORDER_REJECTED", "INSUFFICIENT_BALANCE", "INSUFFICIENT_MARGIN",
      "POSITION_NOT_FOUND", "POSITION_MODE_MISMATCH", "DUPLICATE_ORDER",
      "INVALID_TIME_IN_FORCE", "INVALID_STOP_PRICE", "RATE_LIMIT_EXCEEDED",
      "CONNECTION_ERROR", "SERVER_ERROR", "INVALID_REQUEST", "TIMEOUT", "PARSING_ERROR",
      "UNKNOWN_ERROR">>, FALSE, "throws")

MarketType == Enum(
    <<"UNKNOWN", "SPOT", "FUTURES_PERPETUAL_LINEAR", "FUTURES_PERPETUAL_INVERSE",
      "FUTURES_DATED_LINEAR", "FUTURES_DATED_INVERSE", "OPTIONS_LINEAR",
      "OPTIONS_INVERSE">>,
    <<"UNKNOWN", "SPOT", "FUTURES_PERPETUAL_LINEAR", "FUTURES_PERPETUAL_INVERSE",
      "FUTURES_DATED_LINEAR", "FUTURES_DATED_INVERSE", "OPTIONS_LINEAR",
      "OPTIONS_INVERSE">>, FALSE, "unknown")
ExchangeType == Enum(
    <<"UNKNOWN", "METATRADER", "BINANCE", "BITSTAMP", "BYBIT", "COINBASE", "ECB", "GATE_IO",
      "GEMINI", "KRAKEN", "LMAX_DIGITAL", "BIBOX", "BINANCE_US", "BITBAY", "BITFINEX",
      "BITHUMB", "BITMEX", "BITTREX", "BTC_CHINA", "BTC_TRADE", "COINONE", "DERIBIT",
      "HITBTC", "HUOBI", "HUOBI_PRO", "ITBIT", "KUCOIN", "KUCOIN_FTS", "OKCOIN_CNY",
      "OKCOIN_USD", "OKEX", "POLONIEX", "UPBIT">>,
    <<"UNKNOWN", "METATRADER", "BINANCE", "BITSTAMP", "BYBIT", "COINBASE", "ECB", "GATE_IO",
      "GEMINI", "KRAKEN", "LMAX_DIGITAL", "BIBOX", "BINANCE_US", "BITBAY", "BITFINEX",
      "BITHUMB", "BITMEX", "BITTREX", "BTC_CHINA", "BTC_TRADE", "COINONE", "DERIBIT",
      "HITBTC", "HUOBI", "HUOBI_PRO", "ITBIT", "KUCOIN", "KUCOIN_FTS", "OKCOIN_CNY",
      "OKCOIN_USD", "OKEX", "POLONIEX", "UPBIT">>, FALSE, "unknown")

EnumTypes == {OrderSide, OrderType, TimeInForce, SlippageType, TradeMode, PriceTriggerType,
              MarginMode, TradeState, TpSlMode, SmpType, PositionIdx, QuantityUnit,
              AccountType, TradeErrorCode, MarketType, ExchangeType}

-----------------------------------------------------------------------------
Text(name) == [name |-> name, upper |-> TRUE]
InLowerCase(name) == [name |-> name, upper |-> FALSE]
NotText == [name |-> "a number", upper |-> FALSE]

\* The place of a value in its enumeration, and what to_str finds there.
ValueOf(enum, v) == CHOOSE i \in DOMAIN enum.values : enum.values[i] = v
to_str(enum, v) == Text(enum.table[ValueOf(enum, v)])

\* AccountType has a second table in mixed case.
to_str_account(v, mode) ==
    IF mode = 1 THEN [to_str(AccountType, v) EXCEPT !.upper = FALSE] ELSE to_str(AccountType, v)
to_str_view(v) == to_str(ExchangeType, v).name

Known(enum, text) == text.name \in ToSet(enum.values) /\ (text.upper \/ enum.folds)
\* to_enum(str, value) tells whether it knew the text and else leaves value.
to_enum(enum, text, value) ==
    IF Known(enum, text) THEN [found |-> TRUE, value |-> text.name] ELSE [found |-> FALSE, value |-> value]
\* to_enum<T>(str) throws; so does from_json of the trading enumerations, and
\* everywhere when the JSON value is no string.
from_json(enum, text, value) ==
    LET read == to_enum(enum, text, value)
    IN  [throws |-> ~read.found /\ (text = NotText \/ enum.json = "throws"),
         value |-> IF ~read.found /\ text # NotText /\ enum.json = "unknown" THEN "UNKNOWN" ELSE read.value]
=============================================================================
