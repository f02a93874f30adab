------------------------------ MODULE MCDecimal ------------------------------
(***************************************************************************)
(* parse_unsigned_decimal on every string of at most MaxDigits characters *)
(* over the ten digits and one non-digit, with an 8-bit size_t: the same  *)
(* comparison as on the device, at a width where three digits overflow.   *)
(***************************************************************************)
EXTENDS Decimal

MaxDigits == 3

AllInputs == SeqOf((0..9) \cup {NonDigit}, MaxDigits)
=============================================================================
