----------------------------- MODULE SymbolKeys -----------------------------
(***************************************************************************)
(* utils/symbol_key_utils.hpp: a market type, an exchange, a symbol and a  *)
(* time in one key.  A field of n bits has 2^n values: MARKETS, EXCHANGES, *)
(* SYMBOLS and TIMES (of 3, 10, 16 and 35 bits in the code), and a shift   *)
(* by n bits multiplies by that number.  The arguments fit their fields,   *)
(* as the comments of the code demand, except for the time.                *)
(***************************************************************************)
EXTENDS Integers

CONSTANTS MARKETS, EXCHANGES, SYMBOLS, TIMES
ASSUME FieldsAssumption == {MARKETS, EXCHANGES, SYMBOLS, TIMES} \subseteq Nat \ {0} /\ TIMES % 4 = 0

\* The field of the given size in key, above the fields of unit values.
Field(key, unit, size) == (key \div unit) % size

make_symbol_key32(market_type, exchange_id, symbol_id) ==
    market_type * (EXCHANGES * SYMBOLS) + exchange_id * SYMBOLS + symbol_id
extract_market_type(key) == Field(key, EXCHANGES * SYMBOLS, MARKETS)
extract_exchange_id(key) == Field(key, SYMBOLS, EXCHANGES)
extract_symbol_id(key) == Field(key, 1, SYMBOLS)
extract_symbol_key32(key) == <<extract_market_type(key), extract_exchange_id(key), extract_symbol_id(key)>>

make_symbol_key64(market_type, exchange_id, symbol_id, timestamp) ==
    market_type * (EXCHANGES * (SYMBOLS * TIMES)) + exchange_id * (SYMBOLS * TIMES)
    + symbol_id * TIMES + (timestamp % TIMES)
extract_symbol_key64(key) ==
    <<Field(key, EXCHANGES * (SYMBOLS * TIMES), MARKETS),
      Field(key, SYMBOLS * TIMES, EXCHANGES),
      Field(key, TIMES, SYMBOLS),
      Field(key, 1, TIMES)>>

combine_symbol_key64(key32, timestamp) == key32 * TIMES + (timestamp % TIMES)
split_symbol_key64(key) == <<key \div TIMES, Field(key, 1, TIMES)>>

\* key & KEY64_SYMBOL_PART_MASK: the mask keeps the two highest bits of the time.
symbol_part(key) == key - (key % (TIMES \div 4))
=============================================================================
