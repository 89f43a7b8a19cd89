------------------------------ MODULE PriceObs ------------------------------
(***************************************************************************)
(* price_obs.rs of oracle_node/common: what a provider quotes becomes an   *)
(* i64 of PRICE_OBSERVATION_DECIMAL digits after the point.                *)
(*                                                                         *)
(* A quote is a mantissa and the side of those digits it ends on: a "fine" *)
(* one has k digits too many, a "coarse" one k too few.  Step is 10^k.     *)
(* The three conversions do not do the same with either.                   *)
(***************************************************************************)
EXTENDS Median

CONSTANT Step

ASSUME StepAssumption == Step \in Nat \ {0}

Quote == [provider : {"binance", "redstone", "pyth"},
          scale    : {"fine", "coarse"},
          mantissa : Int]

(* Truncation: i64::checked_div. *)
TowardZero(n) == IF n >= 0 THEN n \div Step ELSE -((-n) \div Step)

(* Decimal::rescale of rust_decimal: a half is rounded away from zero. *)
HalfAway(n) ==
  IF n >= 0 THEN (2 * n + Step) \div (2 * Step) ELSE -((-2 * n + Step) \div (2 * Step))

(* Mutant: the decimal is not rescaled. *)
Rescale_Missing(quote) == quote.mantissa

Rescale(quote) ==
  IF quote.scale = "fine" THEN HalfAway(quote.mantissa) ELSE quote.mantissa * Step

(* Price::scale_to_exponent of pyth_sdk. *)
ScaleToExponent(quote) ==
  IF quote.scale = "fine" THEN TowardZero(quote.mantissa) ELSE quote.mantissa * Step

(* Whether try_from returns Ok: pyth_sdk checks its multiplications and    *)
(* the mantissa is parsed as an i64; `mantissa() as i64` never fails.      *)
Converts(quote) ==
  quote.provider = "pyth" => quote.mantissa \in I64 /\ ScaleToExponent(quote) \in I64

(* The field price of the observation.  `as` cuts the i128 to 64 bits.     *)
Price(quote) ==
  IF quote.provider = "pyth" THEN ScaleToExponent(quote) ELSE Wrap(Rescale(quote))

(* No bit was cut off. *)
Fits(quote) == quote.provider = "pyth" \/ Rescale(quote) \in I64

(* The exact value quoted lies between two prices. *)
Within(quote, lo, hi) ==
  IF quote.scale = "fine"
  THEN lo * Step <= quote.mantissa /\ quote.mantissa <= hi * Step
  ELSE lo <= quote.mantissa * Step /\ quote.mantissa * Step <= hi
=============================================================================
