--------------------------- MODULE MCWalletHeader ---------------------------
(***************************************************************************)
(* Headers for WalletHeader: every choice of field encodings below, cut   *)
(* at every length and with one trailing byte added.                       *)
(***************************************************************************)
EXTENDS WalletHeader

\* The scaled bounds: names of up to 2 bytes, policies of up to 2 bytes.
TypeChoices == {1, WalletTypePolicyMap}
NameLenChoices == {0, 1, 3}
\* policy_map_len encodings: 1 as one byte, as 0xFD-prefixed 2 bytes, and
\* 65537 (1 + 2^16) as 0xFE-prefixed 4 bytes; and 3, above the bound.
PolicyLenChoices == {<<1>>, <<253, 1, 0>>, <<254, 1, 0, 1, 0>>, <<3>>}
\* n_keys: 1, 256 (above 252), and 65537, whose low 16 bits are 1.
NKeysChoices == {<<1>>, <<253, 0, 1>>, <<254, 1, 0, 1, 0>>}

NameByte == 110
PolicyByte == 112
RootByte == 114

PolicyBytesFor(v) == IF v = <<3>> THEN <<PolicyByte, PolicyByte, PolicyByte>> ELSE <<PolicyByte>>

\* Every header from the choices, cut at every length, and with one
\* trailing byte.
HeadersFrom(policyLens) ==
    LET full == { <<t, nl>> \o [j \in 1..nl |-> NameByte] \o pl \o PolicyBytesFor(pl)
                      \o nk \o [j \in 1..RootLength |-> RootByte]
                  : t \in TypeChoices, nl \in NameLenChoices, pl \in policyLens,
                    nk \in NKeysChoices }
    IN UNION { {SubSeq(h, 1, k) : k \in 0..Len(h)} \cup {h \o <<0>>} : h \in full }

AllHeaders == HeadersFrom(PolicyLenChoices)

\* Only shortest varint encodings: 1 is not written as 0xFD 01 00.
CanonicalHeaders == HeadersFrom(PolicyLenChoices \ {<<253, 1, 0>>})
=============================================================================
