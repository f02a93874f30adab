----------------------------- MODULE HeaderDecoder ----------------------------
(***************************************************************************)
(* What the header decoder (component C4, specification 4.4 and the wire  *)
(* format of section 8) promises, without a cursor: in one step the input *)
(* is mapped to a verdict.  The fields sit at fixed offsets of the wire    *)
(* format; the verdict is the error code of the first stage, in wire      *)
(* order, whose field is missing or out of range, and otherwise the       *)
(* header with every field.                                                *)
(*                                                                         *)
(* Two choices follow the header struct rather than the wire text: a      *)
(* length is the uint16 the struct stores, and the bytes after the Merkle *)
(* root are not part of the verdict.  Both are recorded as findings of    *)
(* the project (runs wallet_id_truncation and header_trailing).          *)
(***************************************************************************)
EXTENDS Integers, Sequences, FiniteSets, FiniteSetsExt

CONSTANTS MaxWalletNameLength, MaxPolicyMapStrLength, RootLength, Inputs

VARIABLES input, result

Unread == [done |-> FALSE, code |-> 0,
           header |-> [type |-> 0, name_len |-> 0, name |-> <<>>, policy_map_len |-> 0,
                       policy_map |-> <<>>, n_keys |-> 0, root |-> <<>>]]

\* The verdict on byte string b.  Byte(i) is 0 past the end so that every
\* offset is defined; Has(i, k) says bytes i..i+k-1 are there.
Verdict(b) ==
    LET Byte(i) == IF i <= Len(b) THEN b[i] ELSE 0
        Has(i, k) == i + k - 1 <= Len(b)
        Size(i) == CASE Byte(i) < 253 -> 1 [] Byte(i) = 253 -> 3
                     [] Byte(i) = 254 -> 5 [] Byte(i) = 255 -> 9
        HasVarint(i) == Has(i, 1) /\ Has(i, Size(i))
        Lo16(i) == IF Size(i) = 1 THEN Byte(i) ELSE Byte(i + 1) + 256 * Byte(i + 2)
        High(i) == \E j \in (i + 3)..(i + Size(i) - 1) : Byte(j) # 0
        nameAt == 3
        nl == Byte(2)
        plAt == nameAt + nl
        polAt == plAt + Size(plAt)
        pl == Lo16(plAt)
        nkAt == polAt + pl
        rootAt == nkAt + Size(nkAt)
        \* the stages of the wire format, in order, with their codes
        fails == << ~Has(1, 1), Byte(1) # 2, ~Has(2, 1), nl > MaxWalletNameLength,
                    ~Has(nameAt, nl), ~HasVarint(plAt), pl > MaxPolicyMapStrLength,
                    ~Has(polAt, pl),
                    ~HasVarint(nkAt) \/ High(nkAt) \/ Lo16(nkAt) > 252,
                    ~Has(rootAt, RootLength) >>
        failing == {s \in 1..10 : fails[s]}
    IN IF failing = {}
       THEN [done |-> TRUE, code |-> 0,
             header |-> [type |-> 2, name_len |-> nl,
                         name |-> SubSeq(b, nameAt, plAt - 1),
                         policy_map_len |-> pl,
                         policy_map |-> SubSeq(b, polAt, nkAt - 1),
                         n_keys |-> Lo16(nkAt),
                         root |-> SubSeq(b, rootAt, rootAt + RootLength - 1)]]
       ELSE [Unread EXCEPT !.done = TRUE, !.code = -Min(failing)]

Init == input \in Inputs /\ result = Unread

Decode == ~result.done /\ result' = Verdict(input) /\ UNCHANGED input

Spec == Init /\ [][Decode]_<<input, result>> /\ WF_<<input, result>>(Decode)
=============================================================================
