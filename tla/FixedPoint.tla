----------------------------- MODULE FixedPoint -----------------------------
(***************************************************************************)
(* utils/fixed_point.hpp on numbers that are exact: a value is an integer  *)
(* in units of 10^-PLACES, and what the code rounds to a whole number is a *)
(* whole number here.  The rounding of double itself is left out.          *)
(***************************************************************************)
EXTENDS Integers

CONSTANTS
    PLACES,         \* the finest value has so many decimal places
    MAX_PRECISION   \* digits above it are refused, 18 in the code

UnitsOf(digits) == 10^(PLACES - digits)
DigitsRefused(digits) == digits > MAX_PRECISION

\* std::round of n / d, halves away from zero.
round_div(n, d) == IF n >= 0 THEN (2 * n + d) \div (2 * d) ELSE -((2 * (-n) + d) \div (2 * d))
abs(n) == IF n < 0 THEN -n ELSE n

normalize_double(value, digits) == round_div(value, UnitsOf(digits)) * UnitsOf(digits)
precision_tolerance(digits) == UnitsOf(digits)

\* The factor is 10^digits.
to_fixed_point(value, digits) == round_div(value, UnitsOf(digits))
from_fixed_point(value, digits) == value * UnitsOf(digits)

compare_with_precision(value1, value2, digits) == abs(value1 - value2) <= precision_tolerance(digits)
=============================================================================
