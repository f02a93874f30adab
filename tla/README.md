# TLA+ models of the wallet-policy parser

This directory holds TLA+ models of `src/src/common/wallet.c`. That file is the wallet-policy
parser of the Bitcoin app. It covers:

- the binary wallet header;
- the policy-descriptor parser with its Miniscript type calculator;
- the key-information parser;
- the wallet id.

The models are checked with TLC. `spec.md` describes the same code. Its component numbering
(C1–C8) is used below.

## The system

| # | Component | Code | State | Operations |
|---|---|---|---|---|
| C1 | Byte cursor | `buffer_t` (buffer.c, not in this repository) | input bytes, offset | peek, read u8, read bytes, read varint, seek |
| C2 | Arena | the `out_buf` of `parse_policy_map` | allocated bytes, capacity | `buffer_alloc`, `buffer_get_cur` |
| C3 | Lexical primitives | `is_digit` … `parse_token` (175–238), `parse_unsigned_decimal` (246–274), `buffer_read_hex_hash` (281–298), `buffer_read_derivation_step` (302–316), `parse_key_index` (400–411) | cursor only | one read each |
| C4 | Header decoder | `read_policy_map_wallet` (126–173) | header record, cursor | one read per field, error codes −1…−10 |
| C5 | Key-info parser | `parse_policy_map_key_info` (322–398) | key-info record, cursor | origin, step loop, pubkey run, suffix |
| C6 | Script parser | `parse_policy_map`, `parse_script`, `parse_child_scripts` (417–1586) | call stack (depth, context flags, wrappers), cursor, arena | wrapper prefix, token dispatch, about 30 token cases, `)` and end-of-input tail, wrapper-flag loop |
| C7 | Type calculator | the `flags` assignments in every case of `parse_script` | node flags | one rule per leaf, combinator, `thresh` and wrapper |
| C8 | Wallet ID | `get_policy_wallet_id` (1590–1608) | — | hash of the header fields |

How the parts interact:

- C6 drives C3 through the cursor and builds the tree in C2.
- A child pointer is the arena's *current position*, taken before the child is parsed (`buffer_get_cur`).
- A node's flags (C7) are computed from its children's flags once the children are parsed.
- Wrapper flags are computed last, from the innermost wrapper outwards, by re-walking the chain from the outermost node.
- C4 reads the header. C8 hashes the header fields, re-encoding the varints.
- C5 parses one key-info entry with its own cursor.

Nothing runs concurrently, and nothing is persisted. The hard behaviours are these:

- pointers taken before the thing they point to exists;
- every allocation can fail;
- context that is passed only one level down;
- integer widths (size_t, uint16 casts, varints);
- bounds checked before or after a write;
- about forty flag-composition rules whose soundness depends on the whole tree.

## Modules

| Module | Models | State ↔ code |
|---|---|---|
| `MiniscriptTypes` | C7 | Pure operators. `Andor`, `AndV`, …, `OrI`, `ThreshChildOK`, `ThreshFlags` and `WrapperRule` return `[ok, f]`. `ok` is FALSE exactly where the code returns "invalid type". `f` is the flag vector (`ms`, `t`, `z`, `o`, `n`, `d`, `u`). |
| `ScriptParser` | C6 (with C2, C3) | See below. |
| `Decimal` | `parse_unsigned_decimal` | Variables: `input`, `pos`, `result` (in W-bit size_t) and `digits_read`. The action `ReadDigit` is one loop turn: the leading-zero test, then the overflow test, then accumulate. The action `Stop` is the loop exit. |
| `KeyInfo` | C5 | Variables: `pc`, `has_key_origin`, `fingerprint`, `derivation`, `ext_pubkey_len`, `has_wildcard`. Actions: `Origin`, `Step` (one turn of the `/` loop, with the bound test before the write), `CloseOrigin`, `ReadPubkey`, `Suffix`. |
| `WalletHeader` | C4, C8 | Variables: `pc` (the field read next), `header`, `ret`. There is one action per field read: `ReadType`, `ReadNameLen`, `ReadName`, `ReadPolicyLen`, `ReadPolicy`, `ReadNKeys`, `ReadRoot`. `WalletIdPreimage` is the exact byte string that `get_policy_wallet_id` hashes. `Decoder` is the refinement mapping to `HeaderDecoder`. |
| `HeaderDecoder` | C4, abstract | What the header decoder promises (specification 4.4), without a cursor. Variables: `input` and `result`. `Decode` maps the input to its `Verdict` in one step. The verdict is the code of the first stage, in wire order, whose field is missing or out of range; otherwise it is the header with every field at its wire offset. |

In `ScriptParser`:

- **Variables.**
  - `stack` holds one frame per active `parse_script` call. A frame has `depth`, context flags `ctx`, `outer` (`outermost_node`), `nw` (the number of wrappers) and `inner` (`inner_wrapper`). A frame's `pc` says where the call is.
  - `arena` is the out buffer as a sequence of allocations, with pointers as indexes and 0 as NULL.
  - `pos` is the cursor.
- **Actions.** Each action is one stretch of `parse_script` between two calls:
  - `ParseWrappers` covers lines 457–528.
  - Each token case is one action: `ParseConst`, `ParseShWsh`, `ParseHash`, `ParseKey`, `ParseTr`, `ParseLock`, `ParseNAry`, `ParseThresh`, `ParseMulti`.
  - `NextChild` and `ChildrenDone` cover `parse_child_scripts` and the combinator type checks.
  - `ThreshChild` is one turn of the `thresh` loop.
  - `MultiKey` and `MultiEnd` cover the key loop and the k/n check.
  - `Close` covers the tail: `)`, the depth-0 end-of-input check, the inner-wrapper link and the wrapper-flag loop.
  - Every failing path takes `status` to `"rejected"`. This is −1 returned through every caller.
- **The input.** The input is a sequence of *lexemes*: keywords, wrapper letters, `(`, `)`, `,`, `:`, numerals, `@i`, hex images. It is not fixed in `Init`. When every parser step is blocked on an unknown lexeme, `Extend` appends one lexeme of `Alphabet`, or ends the input. The reachable states therefore cover every input of at most `MaxLen` lexemes. There are two restrictions:
  - a numeral never directly follows a numeral or key (in the text they would merge);
  - wrapper runs are limited to `MaxWrapperRun` letters.
- **Abstractions.** Decimal, hex and key parsing are lookup tables here. Digit-level decimal parsing is in `Decimal`.
- **Key indexes.** `KeyValue` gives the `size_t` that `parse_key_index` returns for a key reference. `KeyIndex` is that value read as an `int` (`int key_index = ...`, through `AsInt`). `IsKey` rejects -1, and `StoredKey` casts back to `size_t`. The widths (`SizeTBits`, `IntBits`) are the device's 32 bits scaled to 8, as in `Decimal`. `@128` becomes a negative `int` and `@255` becomes -1.

`MC*` modules give the constants for TLC:

- `MCScriptParser` defines the alphabets.
- `MCDecimal` defines all digit strings up to length 3.
- `MCKeyInfo` defines key-info entries built from origin, path, close, key and suffix parts.
- `MCWalletHeader` defines headers built from field choices, each cut at every length and also followed by one extra byte.

## Runs

### Passing runs

All of these finish in under two minutes.

| Run | Checks | Bounds | What it shows |
|---|---|---|---|
| `parser_segwit` | `TypeOK`, `TreeMatchesInput`, `ContextRules` | sh/wsh/wpkh/tr/pkh/multi/sortedmulti with keys `@0`, `@1`, `@128`, `@255`; `MaxLen` 16, `ArenaCap` 6 | Covered below the table. 261k states. |
| `parser_types` | `DissatSound` | the combinators with `a`, `v`, `0`, `1` and `pk`; `MaxLen` 8, `ArenaCap` 4 | Every accepted node marked `d` really has a dissatisfaction, going by the witness-size semantics in `Sizes`. At 8 lexemes every combinator is reached with leaf and wrapped-leaf children, one level deep. 1.9M states. |
| `parser_thresh` | `TreeMatchesInput` | `thresh` over every leaf kind, `MaxLen` 15, `ArenaCap` 9 | The `thresh` list (cell allocated after each `,`, linked from the previous one) holds every child in order. Lists of three children (`thresh(1,0,a:0,a:0)`) and key children under `s:` (`thresh(1,pk(@0),s:pk(@0))`) are reached. 2.0M states. |
| `decimal` | `TypeOK`, `OverflowNoFalseAlarm` | W = 8; every string of ≤ 3 digits or a non-digit | The overflow test never rejects a number that fits. |
| `key_info` | `TypeOK`, `KeyInfoMatchesInput`, `KeyInfoComplete` | ≤ 3 path parts, `MaxBip32PathSteps` 2 | Every accepted entry is rendered back exactly by its record, so no byte is silently skipped. No entry of the specification's grammar (`WellFormed`) is rejected. |
| `header` | `TypeOK`, `HeaderBuffersInBounds`, `DecoderRefinement` | names ≤ 2, policies ≤ 2, root 2 bytes; lengths and n_keys also as 0xFD/0xFE varints | No state, accepted or rejected at any field, holds a name or policy longer than its array. The reader refines `HeaderDecoder` (see below). |

`parser_segwit` shows the following for every accepted input:

- the tree spells the input;
- sh, wsh and wpkh appear only where the context checks allow;
- the arena bound holds.

**The header refinement.** `WalletHeader` defines
`Decoder == INSTANCE HeaderDecoder WITH result <- [...]`. The mapping reads:

- `done` is `pc = "done"`;
- `code` is `ret` once done;
- `header` is the struct when the header was accepted, and `Empty` otherwise. A rejected struct holds whatever the fields before the failing one left in it, and the caller never reads it.

`DecoderRefinement == Decoder!Spec` is checked as a `PROPERTY`. It says three things:

- every run of the seven-step reader is a run of the one-step decoder;
- the error codes follow wire order whatever later bytes hold;
- the reader always returns, from the decoder's fairness.

The abstract decoder follows the header struct in two places where the wire text of the specification says otherwise:

- lengths are the stored uint16;
- bytes after the root are outside the verdict.

Each is a finding of its own (`wallet_id_truncation`, `header_trailing`). The mutant that casts `n_keys` to uint16 before comparing it with 252 (as the code does for `policy_map_len`) accepts 65537 keys as 1, and the refinement fails.

### Violation runs

Each checks one property, and TLC finds it violated.

| Run | Property | Counterexample |
|---|---|---|
| `parser_thresh_k` | `ThreshKAtMostN` | `thresh(2,0)` is accepted (the code never checks k ≤ n) |
| `parser_sortedmulti_nested` | `NoNestedSegwitSortedMulti` | `sh(wsh(sortedmulti(1,@0)))` is accepted (wsh passes only `CONTEXT_WITHIN_WSH` down) |
| `decimal_exact` | `DecimalExact` | in 8 bits, "284" gives 28. On 32 bits, "5000000000" gives 705032704. |
| `key_info_steps` | `DerivationInBounds` | `[fp/0/0/0` stores 3 steps into a 2-step array |
| `wallet_id_truncation` | `WalletIdCommitsToHeader` | `policy_map_len` 65537 (0xFE varint) is stored and hashed as 1 |
| `header_trailing` | `NoTrailingBytes` | `02 00 01 'p' 01 <root>` followed by one 0 byte is accepted: the reader returns 0 after the root without checking that the buffer is exhausted |

`PROJECT.json` records each violation as a finding: a code bug, a spec/code divergence or a spec gap.

The project keeps twelve runs. Several more disagreements were observed while modelling but are not run:

- `sortedmulti(1,@0)` is accepted at the top level, although its error message says "only directly under sh or wsh".
- Hash fragments get the flag z, and `or_d` and `or_c` get o, contrary to the glossary's meaning of z and o. The specification's own table gives the same flags as the code.
- `name_len` 0 is accepted.
- The comment at `wallet.c:849` says `and_n(X,Y)` is `andor(X,Y,1)`. The code's flags (d = 1 at line 871, u = Y.u) and the specification's table (section 4.7) are those of `andor(X,Y,0)`, which is also miniscript's `and_n`. The comment is wrong and the code is right; `Sizes` follows the code. The error message at line 846 also names `or_d` instead of `and_n`.
- `sh(tr(@0))` is accepted, since the check is `depth > 1`. Scenario 6 of the specification rejects it, but its section 4.6 ("`tr(K)`: require depth ≤ 1") agrees with the code. Because the specification contradicts itself here, this run gave way to `header_trailing`.
- On a build where `size_t` is wider than `int` (a 64-bit host), `parse_key_index` narrows `@4294967296` to 0, and the policy is accepted as `@0`. `parser_segwit` checks the device widths, where the key indexes round-trip. Its mutant `KeyIndexNarrowed` keeps the index in an `int` half as wide, and `TreeMatchesInput` then fails on `@128` read as `@0`.
- A non-shortest varint is re-encoded canonically into the wallet id.

`PROJECT.json` lists them among the hazards.

### Mutants

Every property of a passing run has a mutant in `PROJECT.json`. A mutant is a plausible bug in the modelled code, for example:

- an unchecked allocation;
- a self-pointer;
- an unlinked list cell;
- a dropped `X.d` guard;
- `<=` for `<`;
- unbounded arithmetic;
- a length stored without its bound check;
- a cast moved before a comparison;
- a length test off by one;
- an index kept in a narrower int.

TLC finds each mutant violating its property.

## Bounds and why they are enough

- **Arena capacity.** `ArenaCap` is just large enough for the deepest tree of the run's alphabet. The out-of-memory path is still reached, because longer inputs exist within `MaxLen`.
- **`MaxLen`.** `MaxLen` covers the shortest counterexample to each property. `sh(wsh(sortedmulti(1,@0)))` is 12 lexemes. A three-child `thresh` is 14, and `sh(wsh(sortedmulti(1,@0,@1)))` is 14.
- **Run alphabets.** Each alphabet is chosen so that its run's question arises.
- **Type rules, depth.** `parser_types` stops at 8 lexemes, so a combinator's children are leaves or wrapped leaves. Two levels need 11 lexemes. With `0`, `1`, `a`, `v` and the combinators that is 66.9M distinct states and about 20 minutes on two workers: `DissatSound` holds, but the run is too long to keep. The two-wrapper chain of the wrapper-flag loop (`wallet.c:1412`) is not reached either; `PROJECT.json` lists it as an open hazard.
- **Header lengths.** The header's array lengths are scaled to 2. The checks compare lengths with constants, so the structure does not depend on 64 or 74.
- **Integer widths.** The widths are kept:
  - varints are read with all their bytes and then cast to uint16;
  - `Decimal` uses W = 8. Its wrap-around behaviour is the 32-bit one at a smaller modulus, and the 32-bit counterexample is stated in the finding.

## Fairness

Each module models one sequential function call. `Spec` asserts weak fairness of `Next`: the call keeps running while it can take a step.

Liveness is checked in the header run: `DecoderRefinement` includes the abstract decoder's fairness, so the reader must always return. The parser runs check invariants only. Each parser loop consumes a lexeme per turn or returns, so within a bounded input it cannot spin. A liveness property there would hold whatever the error returns are, because a missing return makes the parser accept or reject differently, not hang. Those cases are caught by `TreeMatchesInput` and `ContextRules`.

The runs end when the call returns, so every cfg sets `CHECK_DEADLOCK FALSE`.

## Not modelled

The project keeps twelve runs. A component that would need a run of its own cannot be added without dropping one. This applies to a character-level `read_token` (C3), for example.

- **Recursion depth.** `parse_script` has no depth limit, which specification section 5 asks for. The depth is bounded only by the 74-byte policy: at least 8 bytes per level (`or_i(0,` … `)`) gives about 9 levels. The model's stack is bounded by `MaxLen`.
- **Key index range.** Comparing a key index with `n_keys` is the caller's job, and it is not in this repository.

- **Byte offsets and alignment of the arena.** This covers `buffer_alloc(…, true)` padding and `parse_policy_map`'s unaligned-pointer check. An allocation is one arena cell.
- **Characters inside lexemes.** The model does not see the individual characters of a lexeme. This includes:
  - the `MAX_TOKEN_LENGTH` cut-off of `read_token`;
  - uppercase hex;
  - a fingerprint that is too short.

  Within its own module, `Decimal` covers the digit loop.
- **SHA-256.** It is taken as injective.
- **`buffer.c` and `crypto.c`.** They are not in this repository. `buffer_read_varint` and `crypto_hash_update_varint` are modelled from the specification, and the map marks them `spec_modelled`.
- **`ext_pubkey` buffer length.** `MAX_SERIALIZED_PUBKEY_LENGTH` is not in the repository. The key lengths tried are 110–112.

## Plan for later sittings

- Check the z, o, n and u modifiers and the type letters against the witness semantics in `Sizes` (only d is checked now). Check the wrapper-flag loop over every wrapper letter.
- Refine `Decimal` against an abstract "parse a natural number" spec with `INSTANCE … WITH`. Its abstract verdict would have to restate the code's wrapped overflow test (finding `decimal_exact`), so it would add little beyond `OverflowNoFalseAlarm`.
- Model `read_token`'s length cut-off and the hex/fingerprint character loops at character level.
