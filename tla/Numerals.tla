------------------------------ MODULE Numerals ------------------------------
(***************************************************************************)
(* Uint256 and its text, as the code uses them (cosmwasm_std): a numeral   *)
(* is the sequence of its decimal digits. Parsing allows leading zeros,    *)
(* printing gives none. An operation that has no number to return returns  *)
(* Malformed or Panic.                                                     *)
(***************************************************************************)
EXTENDS Integers, SequencesExt

CONSTANTS
    MaxUint,            \* Uint256::MAX
    None,               \* an absent value
    Malformed, Panic    \* what is not a number, nor anything else decoded

ASSUME MaxUintAssumption == MaxUint \in Nat

Digit == 0 .. 9

ASSUME FailureAssumption ==
    /\ {Malformed, Panic} \cap Nat = {}
    /\ Malformed \notin Seq(Digit)

Uint == 0 .. MaxUint
Fits(n, error) == IF n \in Uint THEN n ELSE error

(* b ^ n, and 10 ^ n. *)
PowerOf(b, n) ==
    LET power[i \in 0 .. n] == IF i = 0 THEN 1 ELSE b * power[i - 1]
    IN  power[n]
TenTo(n) == PowerOf(10, n)

ValueOf(numeral) ==
    LET value[i \in 0 .. Len(numeral)] ==
            IF i = 0 THEN 0 ELSE 10 * value[i - 1] + numeral[i]
    IN  value[Len(numeral)]

Numeral(n) ==
    LET digits[m \in 0 .. n] ==
            IF m < 10 THEN <<m>> ELSE Append(digits[m \div 10], m % 10)
    IN  digits[n]

ParsedUint(numeral) ==
    IF numeral \in {<<>>, Malformed}
    THEN Malformed
    ELSE Fits(ValueOf(numeral), Malformed)
=============================================================================
