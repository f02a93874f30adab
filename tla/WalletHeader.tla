----------------------------- MODULE WalletHeader -----------------------------
(***************************************************************************)
(* read_policy_map_wallet and get_policy_wallet_id of                      *)
(* src/src/common/wallet.c (components C4 and C8): the binary wallet      *)
(* header read field by field from a cursor, and the byte string the      *)
(* wallet id hashes.                                                       *)
(*                                                                         *)
(* Bytes are integers 0..255.  The lengths of name, policy and Merkle     *)
(* root are scaled down (MaxWalletNameLength, MaxPolicyMapStrLength,      *)
(* RootLength); the widths of the integers are not: a varint is read in   *)
(* full and cast to uint16 as the code casts it.                          *)
(***************************************************************************)
EXTENDS Integers, Sequences, SequencesExt

CONSTANTS
    MaxWalletNameLength,     \* MAX_WALLET_NAME_LENGTH (64)
    MaxPolicyMapStrLength,   \* MAX_POLICY_MAP_STR_LENGTH (74)
    RootLength,              \* bytes of keys_info_merkle_root (32)
    Inputs                   \* the byte strings tried

WalletTypePolicyMap == 2     \* WALLET_TYPE_POLICY_MAP
MaxKeys == 252

VARIABLES
    input, pos,
    pc,       \* the field read next
    header,   \* policy_map_wallet_header_t as filled so far
    ret       \* the return value once pc = "done": 0 or a negative error code

vars == <<input, pos, pc, header, ret>>

Avail(n) == pos + n <= Len(input)
Bytes(n) == SubSeq(input, pos + 1, pos + n)

\* buffer_read_varint (buffer.c, not in this repository): one byte below
\* 0xFD, else 2, 4 or 8 little-endian bytes after the prefix.  The value
\* is kept as its low 16 bits and whether any higher bit is set, which is
\* all the callers look at.
VarintSize(b) == CASE b < 253 -> 1 [] b = 253 -> 3 [] b = 254 -> 5 [] b = 255 -> 9
ReadVarint ==
    LET b == input[pos + 1]
        sz == VarintSize(b)
        body == SubSeq(input, pos + 2, pos + sz)
    IN IF sz = 1 THEN [size |-> 1, lo16 |-> b, high |-> FALSE]
       ELSE [size |-> sz, lo16 |-> body[1] + 256 * body[2],
             high |-> \E j \in 3..(sz - 1) : body[j] # 0]
VarintAvail == Avail(1) /\ Avail(VarintSize(input[pos + 1]))

Empty == [type |-> 0, name_len |-> 0, name |-> <<>>, policy_map_len |-> 0,
          policy_map |-> <<>>, n_keys |-> 0, root |-> <<>>]

Init ==
    /\ input \in Inputs
    /\ pos = 0
    /\ pc = "type"
    /\ header = Empty
    /\ ret = 0

Fail(code) == ret' = code /\ pc' = "done" /\ UNCHANGED <<pos, header>>

\* type: one byte, equal to WALLET_TYPE_POLICY_MAP.
ReadType ==
    /\ pc = "type"
    /\ IF ~Avail(1) THEN Fail(-1)
       ELSE /\ header' = [header EXCEPT !.type = input[pos + 1]]
            /\ pos' = pos + 1
            /\ IF input[pos + 1] # WalletTypePolicyMap
               THEN ret' = -2 /\ pc' = "done" ELSE pc' = "name_len" /\ UNCHANGED ret
    /\ UNCHANGED input

\* Mutant: name_len is stored without the MAX_WALLET_NAME_LENGTH check.
ReadNameLenUnchecked ==
    /\ pc = "name_len"
    /\ IF ~Avail(1) THEN Fail(-3)
       ELSE /\ header' = [header EXCEPT !.name_len = input[pos + 1]]
            /\ pos' = pos + 1
            /\ pc' = "name" /\ UNCHANGED ret
    /\ UNCHANGED input

\* name_len: one byte, at most MAX_WALLET_NAME_LENGTH; then the name.
ReadNameLen ==
    /\ pc = "name_len"
    /\ IF ~Avail(1) THEN Fail(-3)
       ELSE /\ header' = [header EXCEPT !.name_len = input[pos + 1]]
            /\ pos' = pos + 1
            /\ IF input[pos + 1] > MaxWalletNameLength
               THEN ret' = -4 /\ pc' = "done" ELSE pc' = "name" /\ UNCHANGED ret
    /\ UNCHANGED input

ReadName ==
    /\ pc = "name"
    /\ IF ~Avail(header.name_len) THEN Fail(-5)
       ELSE /\ header' = [header EXCEPT !.name = Bytes(header.name_len)]
            /\ pos' = pos + header.name_len
            /\ pc' = "policy_len"
            /\ UNCHANGED ret
    /\ UNCHANGED input

\* policy_map_len: a varint, cast to uint16, then compared with the bound.
ReadPolicyLen ==
    /\ pc = "policy_len"
    /\ IF ~VarintAvail THEN Fail(-6)
       ELSE LET v == ReadVarint IN
            /\ header' = [header EXCEPT !.policy_map_len = v.lo16]
            /\ pos' = pos + v.size
            /\ IF v.lo16 > MaxPolicyMapStrLength
               THEN ret' = -7 /\ pc' = "done" ELSE pc' = "policy" /\ UNCHANGED ret
    /\ UNCHANGED input

ReadPolicy ==
    /\ pc = "policy"
    /\ IF ~Avail(header.policy_map_len) THEN Fail(-8)
       ELSE /\ header' = [header EXCEPT !.policy_map = Bytes(header.policy_map_len)]
            /\ pos' = pos + header.policy_map_len
            /\ pc' = "n_keys"
            /\ UNCHANGED ret
    /\ UNCHANGED input

\* Mutant: n_keys is cast to uint16 before it is compared with 252, as
\* policy_map_len is.
ReadNKeysCastFirst ==
    /\ pc = "n_keys"
    /\ IF ~VarintAvail THEN Fail(-9)
       ELSE LET v == ReadVarint IN
            /\ pos' = pos + v.size
            /\ IF v.lo16 > MaxKeys
               THEN ret' = -9 /\ pc' = "done" /\ UNCHANGED header
               ELSE /\ header' = [header EXCEPT !.n_keys = v.lo16]
                    /\ pc' = "root"
                    /\ UNCHANGED ret
    /\ UNCHANGED input

\* n_keys: a varint of at most 252, compared before the cast.
ReadNKeys ==
    /\ pc = "n_keys"
    /\ IF ~VarintAvail THEN Fail(-9)
       ELSE LET v == ReadVarint IN
            /\ pos' = pos + v.size
            /\ IF v.high \/ v.lo16 > MaxKeys
               THEN ret' = -9 /\ pc' = "done" /\ UNCHANGED header
               ELSE /\ header' = [header EXCEPT !.n_keys = v.lo16]
                    /\ pc' = "root"
                    /\ UNCHANGED ret
    /\ UNCHANGED input

\* Mutant: the Merkle root is copied without checking that it is there
\* (the bytes past the buffer are not modelled).
ReadRootUnchecked ==
    /\ pc = "root"
    /\ header' = [header EXCEPT !.root = SubSeq(input, pos + 1, Len(input))]
    /\ pos' = pos + RootLength
    /\ ret' = 0 /\ pc' = "done"
    /\ UNCHANGED input

\* keys_info_merkle_root: 32 bytes; then the header is complete.
ReadRoot ==
    /\ pc = "root"
    /\ IF ~Avail(RootLength) THEN Fail(-10)
       ELSE /\ header' = [header EXCEPT !.root = Bytes(RootLength)]
            /\ pos' = pos + RootLength
            /\ ret' = 0 /\ pc' = "done"
    /\ UNCHANGED input

Next == ReadType \/ ReadNameLen \/ ReadName \/ ReadPolicyLen \/ ReadPolicy
        \/ ReadNKeys \/ ReadRoot

Spec == Init /\ [][Next]_vars /\ WF_vars(Next)

-----------------------------------------------------------------------------
\* crypto_hash_update_varint: the canonical encoding of a value.
VarintBytes(v) == IF v < 253 THEN <<v>> ELSE <<253, v % 256, v \div 256>>

\* The bytes get_policy_wallet_id feeds to SHA-256, in order.
WalletIdPreimage(h) ==
    <<h.type, h.name_len>> \o h.name \o VarintBytes(h.policy_map_len) \o h.policy_map
    \o VarintBytes(h.n_keys) \o h.root

Consumed == SubSeq(input, 1, pos)

Accepted == pc = "done" /\ ret = 0

\* The refinement mapping: the decoder has decided once pc = "done", with
\* ret as its code; the header is its verdict only when it was accepted
\* (a rejected header struct holds whatever the fields before the failing
\* one left in it, which the caller never reads).
Decoder == INSTANCE HeaderDecoder
    WITH result <- [done |-> pc = "done",
                    code |-> IF pc = "done" THEN ret ELSE 0,
                    header |-> IF Accepted THEN header ELSE Empty]

TypeOK ==
    /\ pos \in 0..Len(input)
    /\ pc \in {"type", "name_len", "name", "policy_len", "policy", "n_keys", "root", "done"}
    /\ ret \in {0} \cup {-k : k \in 1..10}
    /\ header.policy_map_len \in 0..65535

\* read_policy_map_wallet never writes past the header's arrays: in every
\* state, accepted or rejected at any field, the name fits name[] and the
\* policy fits policy_map[], because each length is checked between the
\* read of the length and the read of the bytes.
HeaderBuffersInBounds ==
    /\ Len(header.name) <= MaxWalletNameLength
    /\ Len(header.policy_map) <= MaxPolicyMapStrLength

\* read_policy_map_wallet implements the header decoder of specification
\* 4.4: every run of the field-by-field reader, cursor moves and early
\* returns included, is a run of the one-step decoder, so its code is that
\* of the first stage in wire order that fails, whatever later fields
\* hold, and an accepted header has every field at its wire offset.  The
\* decoder's fairness makes this also say that the reader always returns.
DecoderRefinement == Decoder!Spec

\* The wallet id commits to the header (specification 8.6: "flipping any
\* header byte changes the id"): the bytes hashed are exactly the header
\* bytes read_policy_map_wallet accepted.
WalletIdCommitsToHeader ==
    Accepted => WalletIdPreimage(header) = Consumed

\* The header slice holds the header and nothing else (specification 3
\* and 8: "No trailing bytes permitted after the Merkle root"): when
\* read_policy_map_wallet returns 0 the cursor is at the end of the input.
NoTrailingBytes ==
    Accepted => pos = Len(input)
=============================================================================
