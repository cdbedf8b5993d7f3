---------------------------- MODULE TradeParsers ----------------------------
(***************************************************************************)
(* utils/binance_parser.hpp and utils/bybit_parser.hpp: trades of a file   *)
(* of comma separated lines.  A line is the sequence of its fields, and a  *)
(* field is a text: whether it starts as a number, that number in          *)
(* hundredths, and how many places were written after the point.           *)
(***************************************************************************)
EXTENDS TimeFrames, SequencesExt, FiniteSetsExt

CONSTANTS
    SEC_LIMIT,      \* below it a time is in seconds, 10^10 in the code
    MS_LIMIT        \* below it a time is in milliseconds, 10^13 in the code

Word(text) == [text |-> text, numeric |-> FALSE, number |-> 0, places |-> 0]
Number(number, places) == [text |-> "", numeric |-> TRUE, number |-> number, places |-> places]
stoll(field) == field.number \div 100

\* std::getline at the end of a line leaves the string as it was, so a missing
\* column has the text of the last column that was read into the same string.
ColumnText(line, k) == IF k <= Len(line) THEN line[k] ELSE Last(line)

Sequence(ticks, price_digits, volume_digits) ==
    [ticks |-> ticks, price_digits |-> price_digits, volume_digits |-> volume_digits]
Trade_tick(time, last, volume, flags) == [time |-> time, last |-> last, volume |-> volume, flags |-> flags]
FlagIf(condition, flag) == IF condition THEN {flag} ELSE {}

\* Mutant of Parsed: the digits are set as far as the parser came.
ParsedEarly(sequence, detect, state) ==
    [ok |-> state.ok,
     sequence |-> Sequence(state.ticks,
        IF detect THEN state.price_digits ELSE sequence.price_digits,
        IF detect THEN state.volume_digits ELSE sequence.volume_digits)]

\* What a parser leaves in sequence: the ticks read so far, and the digits only
\* when it came to the end and was asked to detect them.
Parsed(sequence, detect, state) ==
    [ok |-> state.ok,
     sequence |-> Sequence(state.ticks,
        IF state.ok /\ detect THEN state.price_digits ELSE sequence.price_digits,
        IF state.ok /\ detect THEN state.volume_digits ELSE sequence.volume_digits)]
StartState == [ok |-> TRUE, ticks |-> <<>>, price_digits |-> 0, volume_digits |-> 0]

-----------------------------------------------------------------------------
(* Binance: id, price, qty, quote_qty, time, is_buyer_maker[, is_best_match] *)

time_mode(timestamp) == IF timestamp < SEC_LIMIT THEN 1 ELSE IF timestamp < MS_LIMIT THEN 2 ELSE 3
time_of(mode, timestamp) ==
    CASE mode = 1 -> MS_PER_SEC * timestamp
      [] mode = 2 -> timestamp
      [] mode = 3 -> timestamp \div MS_PER_SEC

\* The flags of a line of either market.
FuturesFlags(line) ==
    {IF ColumnText(line, 6).text \in {"true", "True"} THEN "TICK_FROM_BUY" ELSE "TICK_FROM_SELL"}
    \cup FlagIf(ColumnText(line, 7).text \in {"true", "True"}, "BEST_MATH")
SpotFlags(line) == {IF ColumnText(line, 6).text = "true" THEN "TICK_FROM_BUY" ELSE "TICK_FROM_SELL"}

\* The unit of the times is told from the first line.  A line that cannot be
\* read ends the parse with an exception.
BinanceLine(state, line, flags) ==
    LET price == ColumnText(line, 2)
        qty == ColumnText(line, 3)
        timestamp == stoll(ColumnText(line, 5))
        mode == IF state.mode = 0 THEN time_mode(timestamp) ELSE state.mode
    IN  IF ~state.ok THEN state
        ELSE IF ~(price.numeric /\ qty.numeric /\ ColumnText(line, 5).numeric) THEN [state EXCEPT !.ok = FALSE]
        ELSE [state EXCEPT
                !.mode = mode,
                !.last_price = price.number,
                !.price_digits = Max({@, price.places}),
                !.volume_digits = Max({@, qty.places}),
                !.ticks = Append(@, Trade_tick(time_of(mode, timestamp), price.number, qty.number,
                    flags \cup FlagIf(price.number # state.last_price, "LAST_UPDATED")))]

\* The first line is a header unless it starts with a digit.
BinanceBody(lines) == IF lines[1][1].numeric THEN lines ELSE Tail(lines)
BinanceStart == StartState @@ [mode |-> 0, last_price |-> -1]

parse_binance_futures_trades(sequence, lines, detect) ==
    IF lines = <<>> THEN [ok |-> TRUE, sequence |-> [sequence EXCEPT !.ticks = <<>>]]
    ELSE Parsed(sequence, detect,
            FoldLeft(LAMBDA s, line : BinanceLine(s, line, FuturesFlags(line)), BinanceStart, BinanceBody(lines)))
parse_binance_spot_trades(sequence, lines, detect) ==
    IF lines = <<>> THEN [ok |-> TRUE, sequence |-> [sequence EXCEPT !.ticks = <<>>]]
    ELSE Parsed(sequence, detect,
            FoldLeft(LAMBDA s, line : BinanceLine(s, line, SpotFlags(line)), BinanceStart, BinanceBody(lines)))

-----------------------------------------------------------------------------
(* Bybit: timestamp, symbol, side, size, price, tickDirection, ...          *)

\* symbol, side and tickDirection have strings of their own, declared before
\* the loop; field takes the other columns in order.
BybitField(line, k) ==
    line[Max({c \in {1, 4, 5} : c <= k /\ c <= Len(line)})]
BybitLine(state, line) ==
    LET volume == BybitField(line, 4)
        last == BybitField(line, 5)
        side == IF Len(line) >= 3 THEN line[3].text ELSE state.side
        direction == IF Len(line) >= 6 THEN line[6].text ELSE state.direction
    IN  IF ~state.ok THEN state
        ELSE IF ~(line[1].numeric /\ volume.numeric /\ last.numeric) THEN [state EXCEPT !.ok = FALSE]
        ELSE [state EXCEPT
                !.side = side, !.direction = direction,
                !.price_digits = Max({@, last.places}),
                !.volume_digits = Max({@, volume.places}),
                !.ticks = Append(@, Trade_tick((line[1].number * MS_PER_SEC) \div 100, last.number, volume.number,
                    FlagIf(side = "Buy", "TICK_FROM_BUY") \cup FlagIf(side = "Sell", "TICK_FROM_SELL")
                    \cup FlagIf(direction \in {"PlusTick", "MinusTick"}, "LAST_UPDATED")))]

\* The first line is always taken for a header.
parse_bybit_trades(sequence, lines, detect) ==
    IF lines = <<>> THEN [ok |-> TRUE, sequence |-> [sequence EXCEPT !.ticks = <<>>]]
    ELSE Parsed(sequence, detect,
            FoldLeft(BybitLine, StartState @@ [side |-> "", direction |-> ""], Tail(lines)))
=============================================================================
