---------------------------- MODULE TradeRecords ----------------------------
(***************************************************************************)
(* data/trading/OrderRequest.hpp, OrderResult.hpp, TradeRequest.hpp and    *)
(* TradeResult.hpp: the records a strategy and an exchange exchange, and   *)
(* their JSON form.  What from_json reads it reads member by member.       *)
(***************************************************************************)
EXTENDS EnumNames

\* The members in the order they are written, their enumerations, and the
\* members that are not written.
Members(written, enums, unwritten) == [written |-> written, enums |-> enums, unwritten |-> unwritten]

OrderRequest == Members(
    <<"symbol", "order_link_id", "unique_id", "account_id", "side", "order_type", "trade_mode",
      "account_type", "currency", "quantity", "price", "trigger_price", "sl_limit_price",
      "tp_limit_price", "time_in_force", "reduce_only", "close_on_trigger", "sl_order_type",
      "tp_order_type", "trigger_price_type", "trigger_direction", "tpsl_mode", "quantity_unit",
      "smp_type", "mmp", "expiry_time">>,
    [side |-> OrderSide, order_type |-> OrderType, trade_mode |-> TradeMode,
     account_type |-> AccountType, time_in_force |-> TimeInForce, sl_order_type |-> OrderType,
     tp_order_type |-> OrderType, trigger_price_type |-> PriceTriggerType, tpsl_mode |-> TpSlMode,
     quantity_unit |-> QuantityUnit, smp_type |-> SmpType],
    {})

OrderResult == Members(
    <<"order_id", "exchange_order_id", "client_order_id", "error_code", "error_desc", "order_type",
      "trade_state", "requested_price", "executed_price", "amount", "commission", "place_time",
      "send_time", "exec_time", "ping_time", "delay", "order_link_id">>,
    [error_code |-> TradeErrorCode, order_type |-> OrderType, trade_state |-> TradeState],
    {})

TradeRequest == Members(
    <<"symbol", "signal_name", "user_data", "comment", "unique_hash", "unique_id", "account_id",
      "side", "order_type", "trade_mode", "account_type", "currency", "amount", "price",
      "stop_loss", "take_profit", "slippage_value", "slippage_type", "time_in_force",
      "reduce_only", "close_on_trigger", "tp_trigger", "sl_trigger", "hedge_mode", "expiry_time">>,
    [side |-> OrderSide, order_type |-> OrderType, trade_mode |-> TradeMode,
     account_type |-> AccountType, slippage_type |-> SlippageType, time_in_force |-> TimeInForce,
     tp_trigger |-> PriceTriggerType, sl_trigger |-> PriceTriggerType],
    {"m_callbacks"})

\* The error of a result and its text are not written.
TradeResult == Members(
    <<"trade_id", "exchange_trade_id", "requested_price", "entry_price", "close_request_price",
      "exit_price", "amount", "commission_open", "commission_close", "gross_pnl", "net_pnl",
      "balance_before", "balance_after_open", "balance_after_close", "place_time", "send_time",
      "open_time", "close_place_time", "close_send_time", "close_time", "open_ping", "close_ping",
      "open_delay", "close_delay", "order_requests", "order_results", "trade_state">>,
    [trade_state |-> TradeState],
    {"error_code", "error_desc"})

RecordTypes == {OrderRequest, OrderResult, TradeRequest, TradeResult}

-----------------------------------------------------------------------------
(* A JSON value is a text, here; an enumeration without to_json is written *)
(* as its number, which stands for the name too.                           *)

IsEnum(type, m) == m \in DOMAIN type.enums
to_json(type, record) ==
    [m \in ToSet(type.written) |-> IF IsEnum(type, m) THEN to_str(type.enums[m], record[m]) ELSE Text(record[m])]

\* One member: a key that is missing throws, and so does what its type refuses.
member_from_json(type, json, m, value) ==
    IF m \notin DOMAIN json THEN [throws |-> TRUE, value |-> value]
    ELSE IF IsEnum(type, m) /\ type.enums[m].json # "none" THEN from_json(type.enums[m], json[m], value)
    ELSE [throws |-> FALSE, value |-> json[m].name]

\* Mutant of record_from_json: a member that cannot be read is passed over.
record_from_json_lenient(type, json, record) ==
    FoldLeft(LAMBDA r, m :
                LET read == member_from_json(type, json, m, r.record[m])
                IN  [ok |-> r.ok /\ ~read.throws, record |-> [r.record EXCEPT ![m] = read.value]],
             [ok |-> TRUE, record |-> record], type.written)

record_from_json(type, json, record) ==
    FoldLeft(LAMBDA r, m :
                LET read == member_from_json(type, json, m, r.record[m])
                IN  IF ~r.ok THEN r
                    ELSE [ok |-> ~read.throws, record |-> [r.record EXCEPT ![m] = read.value]],
             [ok |-> TRUE, record |-> record], type.written)
=============================================================================
