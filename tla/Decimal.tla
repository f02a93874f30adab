------------------------------- MODULE Decimal -------------------------------
(***************************************************************************)
(* parse_unsigned_decimal of src/src/common/wallet.c (component C3): the  *)
(* digit loop with its leading-zero and overflow checks, in size_t        *)
(* arithmetic of W bits.  The parser and the key-info reader call it for  *)
(* thresholds, key indexes, older/after values and derivation steps.      *)
(***************************************************************************)
EXTENDS Integers, Sequences, SequencesExt

CONSTANTS
    W,        \* width of size_t in bits (32 on the device)
    Inputs    \* the character sequences tried: digits 0..9 and NonDigit

NonDigit == 10     \* stands for any character that is not a decimal digit

VARIABLES
    input,        \* the characters from the cursor on
    pos,          \* characters consumed
    result,       \* the size_t accumulator
    digits_read,  \* digits seen, including the one being examined
    ret           \* "running", then the return value: "ok" (0) or "error" (-1)

vars == <<input, pos, result, digits_read, ret>>

Modulus == 2 ^ W

IsDigit(c) == c \in 0..9

\* Mutant: the comparison also refuses an unchanged accumulator.
OverflowsOrEqual(r, d) == (10 * r + d) % Modulus <= r

\* The comparison guarding the accumulation: 10 * result + next_digit,
\* computed in size_t, is smaller than result.
Overflows(r, d) == (10 * r + d) % Modulus < r

\* Mutant: the accumulation done in unbounded arithmetic.
AccumulateUnbounded(r, d) == 10 * r + d

\* The accumulation itself, in size_t.
Accumulate(r, d) == (10 * r + d) % Modulus

Init ==
    /\ input \in Inputs
    /\ pos = 0
    /\ result = 0
    /\ digits_read = 0
    /\ ret = "running"

\* One turn of the loop: the next character is a digit.
ReadDigit ==
    /\ ret = "running"
    /\ pos < Len(input) /\ IsDigit(input[pos + 1])
    /\ LET d == input[pos + 1]
           n == digits_read + 1
       IN /\ digits_read' = n
          /\ \/ /\ n = 2 /\ result = 0           \* a leading zero
                /\ ret' = "error"
                /\ UNCHANGED <<pos, result>>
             \/ /\ ~(n = 2 /\ result = 0)
                /\ Overflows(result, d)
                /\ ret' = "error"
                /\ UNCHANGED <<pos, result>>
             \/ /\ ~(n = 2 /\ result = 0)
                /\ ~Overflows(result, d)
                /\ result' = Accumulate(result, d)
                /\ pos' = pos + 1
                /\ UNCHANGED ret
    /\ UNCHANGED input

\* The loop ends at the end of the buffer or at a non-digit.
Stop ==
    /\ ret = "running"
    /\ ~(pos < Len(input) /\ IsDigit(input[pos + 1]))
    /\ ret' = IF digits_read = 0 THEN "error" ELSE "ok"
    /\ UNCHANGED <<input, pos, result, digits_read>>

Next == ReadDigit \/ Stop

Spec == Init /\ [][Next]_vars /\ WF_vars(Next)

-----------------------------------------------------------------------------
\* The number a digit sequence denotes, in unbounded integers.
ValueOf(s) == FoldLeft(LAMBDA acc, d : 10 * acc + d, 0, s)

Consumed == SubSeq(input, 1, pos)

TypeOK ==
    /\ pos \in 0..Len(input)
    /\ result \in 0..(Modulus - 1)
    /\ digits_read \in 0..(pos + 1)
    /\ ret \in {"running", "ok", "error"}

\* The overflow check of parse_unsigned_decimal never refuses a number
\* that fits: a rejection at a digit that is not a second digit after a
\* leading zero means the digits so far really exceed size_t.
OverflowNoFalseAlarm ==
    (ret = "error" /\ pos < Len(input) /\ IsDigit(input[pos + 1])
              /\ ~(digits_read = 2 /\ result = 0))
        => ValueOf(SubSeq(input, 1, pos + 1)) >= Modulus

\* "Overflow on 10*r + d over size_t is an error": a successful parse
\* returns exactly the number its digits denote.
DecimalExact ==
    ret = "ok" => result = ValueOf(Consumed)
=============================================================================
