------------------------------ MODULE MCKeyInfo ------------------------------
(***************************************************************************)
(* parse_policy_map_key_info on every entry assembled from an origin      *)
(* part, up to MaxPathParts derivation parts, an optional ']', a key run  *)
(* and a suffix, each part chosen among well-formed and malformed forms.  *)
(***************************************************************************)
EXTENDS KeyInfo

MaxPathParts == 3

OriginParts == {<<>>, <<"[">>, <<"[", "fp">>, <<"[", "FP">>}
PathParts == {<<"/", s>> : s \in DOMAIN StepValue \cup {"2147483648"}} \cup {<<"/">>}
CloseParts == {<<>>, <<"]">>}
KeyParts == {<<>>} \cup {<<k>> : k \in DOMAIN KeyLength}
SuffixParts == {<<>>, <<"/**">>, <<"/*">>, <<"/**", "/**">>}

AllEntries ==
    {o \o FlattenSeq(p) \o c \o k \o x :
        o \in OriginParts, p \in SeqOf(PathParts, MaxPathParts), c \in CloseParts,
        k \in KeyParts, x \in SuffixParts}
=============================================================================
