------------------------------- MODULE KeyInfo -------------------------------
(***************************************************************************)
(* parse_policy_map_key_info of src/src/common/wallet.c (component C5):   *)
(* the optional key origin "[fingerprint/step/...]", the extended public  *)
(* key and the optional "/**" suffix, read left to right from a cursor.   *)
(*                                                                         *)
(* The text is a sequence of lexemes: "[", "]", "/", a fingerprint of     *)
(* eight characters (lowercase hex or not), a derivation step (the digits *)
(* of buffer_read_derivation_step, with or without the hardened mark, or  *)
(* one of 2^31 or more), a run of alphanumeric characters of a given      *)
(* length, and the suffixes "/**" and "/*".                                *)
(***************************************************************************)
EXTENDS Integers, Sequences, SequencesExt

CONSTANTS
    MaxBip32PathSteps,  \* MAX_BIP32_PATH_STEPS: length of master_key_derivation
    Inputs              \* the key-info strings tried

\* Derivation-step lexemes and the value buffer_read_derivation_step gives:
\* the index and whether BIP32_FIRST_HARDENED_CHILD is or-ed in.  Any
\* other step text (such as "2147483648", which is not below
\* BIP32_FIRST_HARDENED_CHILD) makes it return -1.
StepValue == ("0" :> [index |-> 0, hardened |-> FALSE])
             @@ ("1'" :> [index |-> 1, hardened |-> TRUE])
\* Runs of alphanumeric characters and their lengths.
KeyLength == ("xpub110" :> 110) @@ ("xpub111" :> 111) @@ ("xpub112" :> 112)

VARIABLES
    input, pos,
    pc,              \* where parse_policy_map_key_info is
    has_key_origin,
    fingerprint,     \* the fingerprint lexeme read, or "none"
    derivation,      \* master_key_derivation[0 .. master_key_derivation_len - 1]
    ext_pubkey_len,
    has_wildcard,
    ret              \* "running", "ok" (0) or "error" (-1)

vars == <<input, pos, pc, has_key_origin, fingerprint, derivation,
          ext_pubkey_len, has_wildcard, ret>>

Peek(i) == IF pos + i <= Len(input) THEN input[pos + i] ELSE "<eof>"
Remaining == Len(input) - pos

Error == ret' = "error" /\ pc' = "done"

\* memset(out, 0, ...) and the cursor at the start of the entry.
Init ==
    /\ input \in Inputs
    /\ pos = 0
    /\ pc = "origin"
    /\ has_key_origin = 0
    /\ fingerprint = "none"
    /\ derivation = <<>>
    /\ ext_pubkey_len = 0
    /\ has_wildcard = 0
    /\ ret = "running"

\* '[' and then at least nine bytes, of which the first eight are
\* lowercase hex: the fingerprint.
Origin ==
    /\ pc = "origin"
    /\ \/ /\ Peek(1) = "["
          /\ has_key_origin' = 1
          /\ \/ /\ Peek(2) = "fp" /\ Remaining >= 3
                /\ fingerprint' = "fp"
                /\ pos' = pos + 2
                /\ pc' = "steps"
                /\ UNCHANGED ret
             \/ /\ ~(Peek(2) = "fp" /\ Remaining >= 3)
                /\ pos' = pos + 1
                /\ Error
                /\ UNCHANGED fingerprint
       \/ /\ Peek(1) # "["
          /\ pc' = "key"
          /\ UNCHANGED <<pos, has_key_origin, fingerprint, ret>>
    /\ UNCHANGED <<input, derivation, ext_pubkey_len, has_wildcard>>

\* The bound test made before a step is stored.
StepsFull == Len(derivation) > MaxBip32PathSteps

\* One turn of the derivation loop: '/', the bound test, then a step.
Step ==
    /\ pc = "steps"
    /\ Peek(1) = "/"
    /\ \/ /\ StepsFull
          /\ pos' = pos + 1
          /\ Error
          /\ UNCHANGED derivation
       \/ /\ ~StepsFull
          /\ Peek(2) \in DOMAIN StepValue
          /\ derivation' = Append(derivation, StepValue[Peek(2)])
          /\ pos' = pos + 2
          /\ UNCHANGED <<pc, ret>>
       \/ /\ ~StepsFull
          /\ Peek(2) \notin DOMAIN StepValue
          /\ pos' = pos + 1
          /\ Error
          /\ UNCHANGED derivation
    /\ UNCHANGED <<input, has_key_origin, fingerprint, ext_pubkey_len, has_wildcard>>

\* The loop ends at a character other than '/'; it must be ']'.
CloseOrigin ==
    /\ pc = "steps"
    /\ Peek(1) # "/"
    /\ \/ /\ Peek(1) = "]"
          /\ pos' = pos + 1
          /\ pc' = "key"
          /\ UNCHANGED ret
       \/ /\ Peek(1) # "]"
          /\ Error
          /\ UNCHANGED pos
    /\ UNCHANGED <<input, has_key_origin, fingerprint, derivation,
                   ext_pubkey_len, has_wildcard>>

\* Mutant: the cursor moves past the run even when it is empty.
ReadPubkeyAlwaysSeek ==
    /\ pc = "key"
    /\ LET n == IF Peek(1) \in DOMAIN KeyLength THEN KeyLength[Peek(1)] ELSE 0
       IN /\ ext_pubkey_len' = n
          /\ pos' = pos + 1
          /\ IF n \in {111, 112} THEN pc' = "suffix" /\ UNCHANGED ret
                                 ELSE Error
    /\ UNCHANGED <<input, has_key_origin, fingerprint, derivation, has_wildcard>>

\* Mutant: the length test is off by one at the top ("> 111").
ReadPubkeyOffByOne ==
    /\ pc = "key"
    /\ LET n == IF Peek(1) \in DOMAIN KeyLength THEN KeyLength[Peek(1)] ELSE 0
       IN /\ ext_pubkey_len' = n
          /\ pos' = IF n > 0 THEN pos + 1 ELSE pos
          /\ IF n = 111 THEN pc' = "suffix" /\ UNCHANGED ret
                        ELSE Error
    /\ UNCHANGED <<input, has_key_origin, fingerprint, derivation, has_wildcard>>

\* The alphanumeric run is the extended public key; it must have 111 or
\* 112 characters.
ReadPubkey ==
    /\ pc = "key"
    /\ LET n == IF Peek(1) \in DOMAIN KeyLength THEN KeyLength[Peek(1)] ELSE 0
       IN /\ ext_pubkey_len' = n
          /\ pos' = IF n > 0 THEN pos + 1 ELSE pos
          /\ IF n \in {111, 112} THEN pc' = "suffix" /\ UNCHANGED ret
                                 ELSE Error
    /\ UNCHANGED <<input, has_key_origin, fingerprint, derivation, has_wildcard>>

\* Mutant: three bytes "/**" are required, but not that nothing follows.
SuffixOKUnbounded == Peek(1) = "/**"

\* Exactly "/**" and nothing after it.
SuffixOK == Peek(1) = "/**" /\ Remaining = 1

\* Either the entry ends here, or only the wildcard suffix is left.
Suffix ==
    /\ pc = "suffix"
    /\ \/ /\ Remaining = 0
          /\ ret' = "ok" /\ pc' = "done"
          /\ UNCHANGED <<pos, has_wildcard>>
       \/ /\ Remaining > 0
          /\ has_wildcard' = 1
          /\ pos' = IF Peek(1) = "/**" THEN pos + 1 ELSE Len(input)
          /\ IF SuffixOK THEN ret' = "ok" /\ pc' = "done" ELSE Error
    /\ UNCHANGED <<input, has_key_origin, fingerprint, derivation, ext_pubkey_len>>

Next == Origin \/ Step \/ CloseOrigin \/ ReadPubkey \/ Suffix

Spec == Init /\ [][Next]_vars /\ WF_vars(Next)

-----------------------------------------------------------------------------
StepLexeme(v) == CHOOSE s \in DOMAIN StepValue : StepValue[s] = v
KeyLexeme(n) == CHOOSE s \in DOMAIN KeyLength : KeyLength[s] = n

\* The text the parsed record stands for.
Render ==
    (IF has_key_origin = 1
     THEN <<"[", fingerprint>>
          \o FlattenSeq([j \in DOMAIN derivation |-> <<"/", StepLexeme(derivation[j])>>])
          \o <<"]">>
     ELSE <<>>)
    \o <<KeyLexeme(ext_pubkey_len)>>
    \o (IF has_wildcard = 1 THEN <<"/**">> ELSE <<>>)

TypeOK ==
    /\ pos \in 0..Len(input)
    /\ pc \in {"origin", "steps", "key", "suffix", "done"}
    /\ has_key_origin \in {0, 1} /\ has_wildcard \in {0, 1}
    /\ \A j \in DOMAIN derivation : derivation[j] \in Range(StepValue)
    /\ ret \in {"running", "ok", "error"}

\* A key-info entry parse_policy_map_key_info accepts is exactly what its
\* record holds: origin, fingerprint, steps in order, key and "/**" suffix,
\* with no byte of the entry left unread.
KeyInfoMatchesInput ==
    ret = "ok" => Render = input

\* The entries of the grammar of specification 4.5: an optional origin of
\* a lowercase-hex fingerprint and at most MAX_BIP32_PATH_STEPS steps, a
\* key of 111 or 112 alphanumeric characters, and an optional "/**".
WellFormedOrigins ==
    {<<>>} \cup
    { <<"[", "fp">> \o FlattenSeq([j \in DOMAIN p |-> <<"/", p[j]>>]) \o <<"]">>
      : p \in SeqOf(DOMAIN StepValue, MaxBip32PathSteps) }
WellFormed ==
    { o \o <<k>> \o w : o \in WellFormedOrigins, k \in {"xpub111", "xpub112"},
                        w \in {<<>>, <<"/**">>} }

\* parse_policy_map_key_info rejects no entry the grammar allows: every
\* early return -1 (the origin, the step loop and its bound, ']', the key
\* length, the suffix) is reached only by an entry outside the grammar.
\* With KeyInfoMatchesInput this pins the accepted set from both sides.
KeyInfoComplete ==
    ret = "error" => input \notin WellFormed

\* "At most MAX_BIP32_PATH_STEPS steps": a derivation step is only ever
\* stored inside master_key_derivation.
DerivationInBounds ==
    Len(derivation) <= MaxBip32PathSteps
=============================================================================
