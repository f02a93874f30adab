----------------------------- MODULE ScriptParser -----------------------------
(***************************************************************************)
(* The recursive-descent policy parser of src/src/common/wallet.c          *)
(* (parse_policy_map, parse_script, parse_child_scripts; component C6).   *)
(*                                                                         *)
(* The C recursion is an explicit stack of frames, one per active call of *)
(* parse_script; a frame's pc says where in parse_script it is.  The out  *)
(* buffer is `arena`, a sequence of allocations; a pointer is an index    *)
(* into it and 0 is NULL.  A child pointer is taken as "the current       *)
(* position" before the child is parsed, exactly as the code does with    *)
(* buffer_get_cur, so whether it really names the child is a property.    *)
(*                                                                         *)
(* The input is a sequence of lexemes (keywords, wrapper letters, "(",    *)
(* ")", ",", ":", decimal numerals, key references "@i", hex images).     *)
(* It is not fixed up front: when every parser step is blocked on a       *)
(* lexeme not yet known, Extend appends any lexeme of Alphabet or ends    *)
(* the input, so the reachable states cover every input of at most        *)
(* MaxLen lexemes.  Decimal, hex and key parsing are abstracted to        *)
(* lookup tables here; parse_unsigned_decimal is modelled digit by digit  *)
(* in module Decimal.                                                     *)
(***************************************************************************)
EXTENDS Integers, Sequences, FiniteSets, SequencesExt, MiniscriptTypes

CONSTANTS
    Alphabet,       \* lexemes an input may contain
    MaxLen,         \* bound on the number of lexemes in an input
    ArenaCap,       \* allocations that fit in the out buffer
    MaxCosigners,   \* MAX_POLICY_MAP_COSIGNERS (16 in the firmware)
    LockTimeLimit,  \* 2^31 in the code: older/after need 1 <= n < LockTimeLimit
    MaxWrapperRun   \* bound on consecutive wrapper letters in an input

VARIABLES
    input,   \* lexemes of the policy string known so far
    eof,     \* TRUE once the end of the input is known
    pos,     \* lexemes consumed by the in_buf cursor
    stack,   \* active parse_script calls, innermost last
    arena,   \* the out buffer: allocated nodes, list cells and key slots
    status   \* "parsing", "accepted" (returned 0) or "rejected" (returned -1)

vars == <<input, eof, pos, stack, arena, status>>

\* KNOWN_TOKENS and is_valid_miniscript_wrapper.
KnownTokens == {"sh", "wsh", "pkh", "wpkh", "multi", "sortedmulti", "tr",
                "0", "1", "pk", "pk_k", "pk_h", "older", "after",
                "sha256", "hash256", "ripemd160", "hash160",
                "andor", "and_v", "and_b", "and_n", "or_b", "or_c", "or_d",
                "or_i", "thresh"}
WrapperLetters == {"a", "c", "d", "j", "l", "n", "s", "t", "u", "v"}
HashTokens == {"sha256", "hash256", "ripemd160", "hash160"}
KeyTokens == {"pk", "pkh", "pk_k", "pk_h", "wpkh"}

\* Lexeme tables: the value of a decimal numeral, of a key reference "@i"
\* (parse_key_index) and the byte length of a lowercase hex image.
DecimalValue == ("0" :> 0) @@ ("1" :> 1) @@ ("2" :> 2) @@ ("3" :> 3)
KeyValue == ("@0" :> 0) @@ ("@1" :> 1) @@ ("@2" :> 2) @@ ("@128" :> 128) @@ ("@255" :> 255)
HexBytes == ("h32" :> 32) @@ ("h20" :> 20)

EOF == "<eof>"   \* what a peek returns once the input is exhausted

Peek(i) == IF pos + i <= Len(input) THEN input[pos + i] ELSE EOF
\* Lexeme pos+i is known, or known to be absent.
Ready(i) == pos + i <= Len(input) \/ eof

IsNumeral(s) == s \in DOMAIN DecimalValue
\* size_t and int of the build, 32 bits on the device, scaled to 8 bits as
\* in module Decimal; a value of width w read as a two's-complement int.
SizeTBits == 8
IntBits == 8
AsInt(v, w) == LET m == v % 2^w IN IF m >= 2^(w - 1) THEN m - 2^w ELSE m

\* Mutant: the index kept in an int half as wide as size_t (a 64-bit host
\* with a 32-bit int).
KeyIndexNarrowed(s) == AsInt(KeyValue[s], SizeTBits \div 2)

\* int key_index = parse_key_index(in_buf): the size_t read as an int.
KeyIndex(s) == AsInt(KeyValue[s], IntBits)

\* parse_key_index succeeded and key_index is not the error value -1; the
\* node then stores (size_t) key_index.
IsKey(s) == s \in DOMAIN KeyValue /\ KeyIndex(s) # -1
StoredKey(s) == KeyIndex(s) % 2^SizeTBits
\* buffer_read_hex_hash(in, out, n): exactly 2n lowercase hex characters.
ReadHexHash(s, n) == s \in DOMAIN HexBytes /\ HexBytes[s] = n

\* parse_token: the word under the cursor, or TOKEN_INVALID.
TokenOf(s) == IF s \in KnownTokens THEN s ELSE "invalid"
HasParentheses(tok) == tok \notin {"0", "1"}

\* A fresh call of parse_script(in, out, depth, context_flags); `outer` is
\* outermost_node, the current out position when the call starts.
Frame(depth, ctx, outer) ==
    [pc |-> "wrappers", depth |-> depth, ctx |-> ctx, outer |-> outer,
     nw |-> 0, inner |-> 0, tok |-> "", node |-> 0, i |-> 0,
     cz |-> 0, co |-> 0, cell |-> 0]

Top == stack[Len(stack)]
SetTop(f) == [stack EXCEPT ![Len(stack)] = f]
Cur == Len(arena) + 1                 \* buffer_get_cur(out_buf)
AllocOK(m) == Len(arena) + m <= ArenaCap
NewNode(kind) == [kind |-> kind, f |-> NoFlags, ptr |-> <<>>, k |-> 0, n |-> 0]

\* Every failing path of parse_script returns -1 to every caller at once.
Fail ==
    /\ status' = "rejected"
    /\ UNCHANGED <<input, eof, pos, stack, arena>>

Parsing(pc) == status = "parsing" /\ Top.pc = pc

-----------------------------------------------------------------------------
(* Wrapper prefix: look ahead over wrapper letters; if a ':' follows,      *)
(* allocate one wrapper node per letter, outermost first, each pointing   *)
(* to the next, and skip the ':'.                                          *)

RunLen ==
    CHOOSE r \in 0..(Len(input) - pos) :
        /\ \A j \in 1..r : Peek(j) \in WrapperLetters
        /\ r = Len(input) - pos \/ Peek(r + 1) \notin WrapperLetters

ParseWrappers ==
    /\ Parsing("wrappers")
    /\ Ready(RunLen + 1)
    /\ LET r == RunLen IN
       \/ /\ Peek(r + 1) = ":"
          /\ AllocOK(r)
          /\ arena' = arena \o
                [j \in 1..r |-> [NewNode(Peek(j)) EXCEPT
                                    !.ptr = <<IF j < r THEN Cur + j ELSE 0>>]]
          /\ pos' = pos + r + 1
          /\ stack' = SetTop([Top EXCEPT !.pc = "token", !.nw = r,
                                         !.inner = IF r > 0 THEN Cur + r - 1 ELSE 0])
          /\ UNCHANGED <<input, eof, status>>
       \/ /\ Peek(r + 1) = ":"
          /\ ~AllocOK(r)
          /\ Fail
       \/ /\ Peek(r + 1) # ":"             \* not a wrapper prefix: n_wrappers = 0
          /\ stack' = SetTop([Top EXCEPT !.pc = "token"])
          /\ UNCHANGED <<input, eof, pos, arena, status>>

-----------------------------------------------------------------------------
(* Token dispatch.  Each action reads the token, its '(' and, for leaves, *)
(* the whole argument list; OK is the conjunction of the code's checks    *)
(* and any failing one returns -1.                                         *)

AtToken(S) == Parsing("token") /\ Ready(1) /\ TokenOf(Peek(1)) \in S

\* Unknown word, or no word at all: the switch's default case.
ParseInvalid ==
    /\ AtToken({"invalid"})
    /\ Fail

ParseConst ==
    /\ AtToken({"0", "1"})
    /\ LET tok == Peek(1) IN
       \/ /\ AllocOK(1)
          /\ arena' = Append(arena, [NewNode(tok) EXCEPT !.f = ConstFlags(tok)])
          /\ pos' = pos + 1
          /\ stack' = SetTop([Top EXCEPT !.pc = "close", !.tok = tok, !.node = Cur])
          /\ UNCHANGED <<input, eof, status>>
       \/ /\ ~AllocOK(1)
          /\ Fail

\* sh only at depth 0; wsh at depth 0 or with CONTEXT_WITHIN_SH.
ShWshContextOK(tok, depth, ctx) ==
    IF tok = "sh" THEN depth = 0 ELSE depth = 0 \/ "SH" \in ctx

\* Mutant: the child pointer is taken before the node is allocated.
ParseShWshSelfPointer ==
    /\ AtToken({"sh", "wsh"})
    /\ Ready(2)
    /\ LET tok == Peek(1)
           ok == Peek(2) = "(" /\ ShWshContextOK(tok, Top.depth, Top.ctx) /\ AllocOK(1)
       IN \/ /\ ok
             /\ arena' = Append(arena, [NewNode(tok) EXCEPT !.ptr = <<Cur>>])
             /\ pos' = pos + 2
             /\ stack' = Append(SetTop([Top EXCEPT !.pc = "close", !.tok = tok, !.node = Cur]),
                                Frame(Top.depth + 1,
                                      IF tok = "sh" THEN {"SH"} ELSE {"WSH"}, Cur + 1))
             /\ UNCHANGED <<input, eof, status>>
          \/ /\ ~ok
             /\ Fail

ParseShWsh ==
    /\ AtToken({"sh", "wsh"})
    /\ Ready(2)
    /\ LET tok == Peek(1)
           ok == Peek(2) = "(" /\ ShWshContextOK(tok, Top.depth, Top.ctx) /\ AllocOK(1)
       IN \/ /\ ok
             /\ arena' = Append(arena, [NewNode(tok) EXCEPT !.ptr = <<Cur + 1>>])
             /\ pos' = pos + 2
             /\ stack' = Append(SetTop([Top EXCEPT !.pc = "close", !.tok = tok, !.node = Cur]),
                                Frame(Top.depth + 1,
                                      IF tok = "sh" THEN {"SH"} ELSE {"WSH"}, Cur + 1))
             /\ UNCHANGED <<input, eof, status>>
          \/ /\ ~ok
             /\ Fail

ParseHash ==
    /\ AtToken(HashTokens)
    /\ Ready(3)
    /\ LET tok == Peek(1)
           ok == /\ Peek(2) = "(" /\ AllocOK(1)
                 /\ ReadHexHash(Peek(3), IF tok \in {"sha256", "hash256"} THEN 32 ELSE 20)
       IN \/ /\ ok
             /\ arena' = Append(arena, [NewNode(tok) EXCEPT !.f = HashFlags])
             /\ pos' = pos + 3
             /\ stack' = SetTop([Top EXCEPT !.pc = "close", !.tok = tok, !.node = Cur])
             /\ UNCHANGED <<input, eof, status>>
          \/ /\ ~ok
             /\ Fail

\* Mutant: any context flag admits wpkh.
WpkhContextOKAnyScript(tok, depth, ctx) == tok = "wpkh" => depth = 0 \/ ctx # {}

\* wpkh only at depth 0 or with CONTEXT_WITHIN_SH.
WpkhContextOK(tok, depth, ctx) == tok = "wpkh" => depth = 0 \/ "SH" \in ctx

ParseKey ==
    /\ AtToken(KeyTokens)
    /\ Ready(3)
    /\ LET tok == Peek(1)
           ok == /\ Peek(2) = "(" /\ AllocOK(1)
                 /\ WpkhContextOK(tok, Top.depth, Top.ctx) /\ IsKey(Peek(3))
       IN \/ /\ ok
             /\ arena' = Append(arena, [NewNode(tok) EXCEPT !.f = KeyFlags(tok),
                                                            !.k = StoredKey(Peek(3))])
             /\ pos' = pos + 3
             /\ stack' = SetTop([Top EXCEPT !.pc = "close", !.tok = tok, !.node = Cur])
             /\ UNCHANGED <<input, eof, status>>
          \/ /\ ~ok
             /\ Fail

ParseTr ==
    /\ AtToken({"tr"})
    /\ Ready(3)
    /\ LET ok == Peek(2) = "(" /\ AllocOK(1) /\ Top.depth <= 1 /\ IsKey(Peek(3))
       IN \/ /\ ok
             /\ arena' = Append(arena, [NewNode("tr") EXCEPT !.k = StoredKey(Peek(3))])
             /\ pos' = pos + 3
             /\ stack' = SetTop([Top EXCEPT !.pc = "close", !.tok = "tr", !.node = Cur])
             /\ UNCHANGED <<input, eof, status>>
          \/ /\ ~ok
             /\ Fail

ParseLock ==
    /\ AtToken({"older", "after"})
    /\ Ready(3)
    /\ LET tok == Peek(1)
           ok == /\ Peek(2) = "(" /\ AllocOK(1) /\ IsNumeral(Peek(3))
                 /\ 1 <= DecimalValue[Peek(3)] /\ DecimalValue[Peek(3)] < LockTimeLimit
       IN \/ /\ ok
             /\ arena' = Append(arena, [NewNode(tok) EXCEPT !.f = LockFlags,
                                                            !.n = DecimalValue[Peek(3)]])
             /\ pos' = pos + 3
             /\ stack' = SetTop([Top EXCEPT !.pc = "close", !.tok = tok, !.node = Cur])
             /\ UNCHANGED <<input, eof, status>>
          \/ /\ ~ok
             /\ Fail

ParseNAry ==
    /\ AtToken(NAryTokens)
    /\ Ready(2)
    /\ LET tok == Peek(1)
           ok == Peek(2) = "(" /\ AllocOK(1)
       IN \/ /\ ok
             /\ arena' = Append(arena, [NewNode(tok) EXCEPT
                            !.ptr = [j \in 1..Arity[tok] |-> IF j = 1 THEN Cur + 1 ELSE 0]])
             /\ pos' = pos + 2
             /\ stack' = Append(SetTop([Top EXCEPT !.pc = "children", !.tok = tok,
                                                   !.node = Cur, !.i = 1]),
                                Frame(Top.depth + 1, {}, Cur + 1))
             /\ UNCHANGED <<input, eof, status>>
          \/ /\ ~ok
             /\ Fail

\* parse_child_scripts, after child i returned: a ',' must follow unless
\* it was the last child; the next child's pointer is the current position.
NextChild ==
    /\ Parsing("children")
    /\ Top.i < Arity[Top.tok]
    /\ Ready(1)
    /\ \/ /\ Peek(1) = ","
          /\ arena' = [arena EXCEPT ![Top.node].ptr[Top.i + 1] = Cur]
          /\ pos' = pos + 1
          /\ stack' = Append(SetTop([Top EXCEPT !.i = Top.i + 1]),
                             Frame(Top.depth + 1, {}, Cur))
          /\ UNCHANGED <<input, eof, status>>
       \/ /\ Peek(1) # ","
          /\ Fail

\* After the last child: every child must be miniscript and pass the
\* combinator's type check; then the node's flags are set.
ChildrenDone ==
    /\ Parsing("children")
    /\ Top.i = Arity[Top.tok]
    /\ LET c == [j \in 1..Top.i |-> arena[arena[Top.node].ptr[j]].f]
           r == Compose(Top.tok, c)
           ok == (\A j \in 1..Top.i : c[j].ms) /\ r.ok
       IN \/ /\ ok
             /\ arena' = [arena EXCEPT ![Top.node].f = r.f]
             /\ stack' = SetTop([Top EXCEPT !.pc = "close"])
             /\ UNCHANGED <<input, eof, pos, status>>
          \/ /\ ~ok
             /\ Fail

\* thresh(k, ...): the node, then k and ',', then the first list cell,
\* whose script is the first child.  node->n counts the children begun.
ParseThresh ==
    /\ AtToken({"thresh"})
    /\ Ready(4)
    /\ LET ok == /\ Peek(2) = "(" /\ IsNumeral(Peek(3)) /\ Peek(4) = ","
                 /\ DecimalValue[Peek(3)] >= 1 /\ AllocOK(2)
       IN \/ /\ ok
             /\ arena' = arena \o
                  << [NewNode("thresh") EXCEPT !.ptr = <<Cur + 1>>,
                                               !.k = DecimalValue[Peek(3)], !.n = 1],
                     [NewNode("cell") EXCEPT !.ptr = <<Cur + 2, 0>>] >>
             /\ pos' = pos + 4
             /\ stack' = Append(SetTop([Top EXCEPT !.pc = "thresh", !.tok = "thresh",
                                                   !.node = Cur, !.cell = Cur + 1]),
                                Frame(Top.depth + 1, {}, Cur + 2))
             /\ UNCHANGED <<input, eof, status>>
          \/ /\ ~ok
             /\ Fail

\* Mutant: the new list cell is never linked from the previous one.
ThreshChildUnlinked ==
    /\ Parsing("thresh")
    /\ LET nd == arena[Top.node]
           X == arena[arena[Top.cell].ptr[1]].f
           cz == Top.cz + (IF X.z THEN 1 ELSE 0)
           co == Top.co + (IF X.o THEN 1 ELSE 0)
       IN \/ /\ ~ThreshChildOK(nd.n, X)
             /\ Fail
          \/ /\ ThreshChildOK(nd.n, X)
             /\ Ready(1)
             /\ \/ /\ Peek(1) = "," /\ AllocOK(1)
                   /\ arena' = [arena EXCEPT ![Top.node].n = nd.n + 1]
                               \o << [NewNode("cell") EXCEPT !.ptr = <<Cur + 1, 0>>] >>
                   /\ pos' = pos + 1
                   /\ stack' = Append(SetTop([Top EXCEPT !.cell = Cur, !.cz = cz, !.co = co]),
                                      Frame(Top.depth + 1, {}, Cur + 1))
                   /\ UNCHANGED <<input, eof, status>>
                \/ /\ Peek(1) = "," /\ ~AllocOK(1)
                   /\ Fail
                \/ /\ Peek(1) # ","
                   /\ arena' = [arena EXCEPT ![Top.node].f = ThreshFlags(nd.n, cz, co)]
                   /\ stack' = SetTop([Top EXCEPT !.pc = "close", !.cz = cz, !.co = co])
                   /\ UNCHANGED <<input, eof, pos, status>>

\* One turn of the thresh loop after a child returned: check it, count its
\* z and o, then either a ',' and a new cell for the next child, or done.
ThreshChild ==
    /\ Parsing("thresh")
    /\ LET nd == arena[Top.node]
           X == arena[arena[Top.cell].ptr[1]].f
           cz == Top.cz + (IF X.z THEN 1 ELSE 0)
           co == Top.co + (IF X.o THEN 1 ELSE 0)
       IN \/ /\ ~ThreshChildOK(nd.n, X)
             /\ Fail
          \/ /\ ThreshChildOK(nd.n, X)
             /\ Ready(1)
             /\ \/ /\ Peek(1) = "," /\ AllocOK(1)
                   /\ arena' = [arena EXCEPT ![Top.cell].ptr[2] = Cur,
                                             ![Top.node].n = nd.n + 1]
                               \o << [NewNode("cell") EXCEPT !.ptr = <<Cur + 1, 0>>] >>
                   /\ pos' = pos + 1
                   /\ stack' = Append(SetTop([Top EXCEPT !.cell = Cur, !.cz = cz, !.co = co]),
                                      Frame(Top.depth + 1, {}, Cur + 1))
                   /\ UNCHANGED <<input, eof, status>>
                \/ /\ Peek(1) = "," /\ ~AllocOK(1)
                   /\ Fail
                \/ /\ Peek(1) # ","
                   /\ arena' = [arena EXCEPT ![Top.node].f = ThreshFlags(nd.n, cz, co)]
                   /\ stack' = SetTop([Top EXCEPT !.pc = "close", !.cz = cz, !.co = co])
                   /\ UNCHANGED <<input, eof, pos, status>>

\* sortedmulti is refused only when both context bits are set.
SortedMultiContextOK(tok, ctx) ==
    tok = "sortedmulti" => ~("SH" \in ctx /\ "WSH" \in ctx)

\* multi / sortedmulti: the node, k, and key_indexes = the current position.
ParseMulti ==
    /\ AtToken({"multi", "sortedmulti"})
    /\ Ready(3)
    /\ LET tok == Peek(1)
           ok == /\ Peek(2) = "(" /\ AllocOK(1)
                 /\ SortedMultiContextOK(tok, Top.ctx) /\ IsNumeral(Peek(3))
       IN \/ /\ ok
             /\ arena' = Append(arena, [NewNode(tok) EXCEPT !.ptr = <<Cur + 1>>,
                                                            !.k = DecimalValue[Peek(3)]])
             /\ pos' = pos + 3
             /\ stack' = SetTop([Top EXCEPT !.pc = "keys", !.tok = tok, !.node = Cur])
             /\ UNCHANGED <<input, eof, status>>
          \/ /\ ~ok
             /\ Fail

\* Mutant: the key slot is written without checking buffer_alloc's result.
MultiKeyUnchecked ==
    /\ Parsing("keys")
    /\ Ready(1)
    /\ Peek(1) # ")"
    /\ \/ /\ Peek(1) = ","
          /\ Ready(2)
          /\ IsKey(Peek(2))
          /\ arena' = Append([arena EXCEPT ![Top.node].n = @ + 1],
                             [NewNode("key") EXCEPT !.k = StoredKey(Peek(2))])
          /\ pos' = pos + 2
          /\ UNCHANGED <<input, eof, stack, status>>
       \/ /\ Peek(1) = ","
          /\ Ready(2)
          /\ ~IsKey(Peek(2))
          /\ Fail
       \/ /\ Peek(1) # ","
          /\ Fail

\* One turn of the key loop: ',' and a key index, stored in a new slot.
MultiKey ==
    /\ Parsing("keys")
    /\ Ready(1)
    /\ Peek(1) # ")"
    /\ \/ /\ Peek(1) = ","
          /\ Ready(2)
          /\ IsKey(Peek(2)) /\ AllocOK(1)
          /\ arena' = Append([arena EXCEPT ![Top.node].n = @ + 1],
                             [NewNode("key") EXCEPT !.k = StoredKey(Peek(2))])
          /\ pos' = pos + 2
          /\ UNCHANGED <<input, eof, stack, status>>
       \/ /\ Peek(1) = ","
          /\ Ready(2)
          /\ ~(IsKey(Peek(2)) /\ AllocOK(1))
          /\ Fail
       \/ /\ Peek(1) # ","
          /\ Fail

\* The loop stops at ')' (left in the buffer); then 1 <= k <= n <= MaxCosigners.
MultiEnd ==
    /\ Parsing("keys")
    /\ Ready(1)
    /\ Peek(1) = ")"
    /\ LET nd == arena[Top.node]
           ok == 1 <= nd.k /\ nd.k <= nd.n /\ nd.n <= MaxCosigners
       IN \/ /\ ok
             /\ arena' = [arena EXCEPT ![Top.node].f = MultiFlags(Top.tok)]
             /\ stack' = SetTop([Top EXCEPT !.pc = "close"])
             /\ UNCHANGED <<input, eof, pos, status>>
          \/ /\ ~ok
             /\ Fail

-----------------------------------------------------------------------------
(* The tail of parse_script: ')', the end-of-input check at depth 0, the  *)
(* innermost wrapper linked to the parsed node, and the wrapper flags     *)
(* computed from the innermost wrapper outwards; then the call returns.   *)

\* The frame's wrapper nodes, outermost first, found as the code finds
\* them: from outermost_node, following `script` pointers.
WrapperChain(a, outer, nw) ==
    LET ch[j \in 1..nw] == IF j = 1 THEN outer ELSE a[ch[j - 1]].ptr[1]
    IN ch

\* res[j]: the check and flags of the j-th wrapper from the outside, whose
\* child X is the parsed node (j = nw) or the wrapper just inside it.
WrapperResults(a, chain) ==
    LET nw == Len(chain)
        res[j \in 1..nw] ==
            LET X == IF j = nw THEN a[a[chain[j]].ptr[1]].f ELSE res[j + 1].f
                r == WrapperRule(a[chain[j]].kind, X)
            IN [ok |-> X.ms /\ r.ok, f |-> r.f]
    IN res

Close ==
    /\ Parsing("close")
    /\ LET fr == Top
           k == IF HasParentheses(fr.tok) THEN 1 ELSE 0
           top == fr.depth = 0
           linked == IF fr.inner = 0 THEN arena
                     ELSE [arena EXCEPT ![fr.inner].ptr = <<fr.node>>]
           chain == WrapperChain(linked, fr.outer, fr.nw)
           res == WrapperResults(linked, chain)
           ok == /\ k = 1 => Peek(1) = ")"
                 /\ top => Peek(k + 1) = EOF
                 /\ \A j \in 1..fr.nw : res[j].ok
       IN /\ Ready(k + IF top THEN 1 ELSE 0)
          /\ \/ /\ ok
                /\ arena' = [a \in DOMAIN linked |->
                               IF \E j \in 1..fr.nw : chain[j] = a
                               THEN [linked[a] EXCEPT
                                       !.f = res[CHOOSE j \in 1..fr.nw : chain[j] = a].f]
                               ELSE linked[a]]
                /\ pos' = pos + k
                /\ stack' = SubSeq(stack, 1, Len(stack) - 1)
                /\ status' = IF Len(stack) = 1 THEN "accepted" ELSE "parsing"
                /\ UNCHANGED <<input, eof>>
             \/ /\ ~ok
                /\ Fail

-----------------------------------------------------------------------------

ParserStep ==
    \/ ParseWrappers \/ ParseInvalid \/ ParseConst \/ ParseShWsh \/ ParseHash
    \/ ParseKey \/ ParseTr \/ ParseLock \/ ParseNAry \/ NextChild \/ ChildrenDone
    \/ ParseThresh \/ ThreshChild \/ ParseMulti \/ MultiKey \/ MultiEnd \/ Close

\* The input is all in memory in the code; the model learns it one lexeme
\* at a time, only when no parser step can proceed without it.  A numeral
\* never directly follows a numeral or a key: in the character string the
\* two would read as one number ("1" "2" is "12", "@1" "0" is "@10").
Glued(prev, s) == IsNumeral(s) /\ (IsNumeral(prev) \/ prev \in DOMAIN KeyValue)

\* The input ends with a run of MaxWrapperRun wrapper letters.
RunFull ==
    /\ Len(input) >= MaxWrapperRun
    /\ \A j \in 0..(MaxWrapperRun - 1) : input[Len(input) - j] \in WrapperLetters

Extend ==
    /\ status = "parsing"
    /\ ~eof
    /\ ~ENABLED ParserStep
    /\ \/ /\ Len(input) < MaxLen
          /\ \E s \in Alphabet :
                /\ ~(Len(input) > 0 /\ Glued(input[Len(input)], s))
                /\ ~(RunFull /\ s \in WrapperLetters)
                /\ input' = Append(input, s)
          /\ UNCHANGED eof
       \/ /\ eof' = TRUE
          /\ UNCHANGED input
    /\ UNCHANGED <<pos, stack, arena, status>>

\* parse_policy_map(in, out, len) with an aligned out buffer: one
\* parse_script call at depth 0 with no context flags, rooted at out[1].
Init ==
    /\ input = <<>>
    /\ eof = FALSE
    /\ pos = 0
    /\ stack = <<Frame(0, {}, 1)>>
    /\ arena = <<>>
    /\ status = "parsing"

\* Once parse_policy_map has returned nothing moves: the run ends there.
Next == ParserStep \/ Extend

\* One sequential call: whenever it can take a step, it eventually does.
Spec == Init /\ [][Next]_vars /\ WF_vars(Next)

-----------------------------------------------------------------------------
(* Reading the tree back.  Every walk carries `fuel`, the number of arena  *)
(* cells, so that a pointer cycle ends the walk instead of looping.        *)

\* The scripts of a thresh list, following `next` from cell c.
RECURSIVE ListScripts(_, _)
ListScripts(c, fuel) ==
    IF c = 0 \/ fuel = 0 THEN <<>>
    ELSE <<arena[c].ptr[1]>> \o ListScripts(arena[c].ptr[2], fuel - 1)

\* The child scripts of node i, in source order.
Subtrees(i) ==
    LET nd == arena[i] IN
    CASE nd.kind \in WrapperLetters \cup {"sh", "wsh"} \cup NAryTokens -> nd.ptr
      [] nd.kind = "thresh" -> ListScripts(nd.ptr[1], Len(arena))
      [] OTHER -> <<>>

\* The nodes of the tree rooted at i.
RECURSIVE TreeNodes(_, _)
TreeNodes(i, fuel) ==
    IF fuel = 0 THEN {i}
    ELSE {i} \cup UNION {TreeNodes(c, fuel - 1) : c \in ToSet(Subtrees(i))}

Nodes == IF status = "accepted" THEN TreeNodes(1, Len(arena)) ELSE {}
Edges == {<<p, c>> \in Nodes \X Nodes : c \in ToSet(Subtrees(p))}
MsNodes == {i \in Nodes : arena[i].f.ms}

NumLexeme(v) == CHOOSE s \in DOMAIN DecimalValue : DecimalValue[s] = v
KeyLexeme(v) == CHOOSE s \in DOMAIN KeyValue : KeyValue[s] = v
HexLexeme(tok) ==
    CHOOSE s \in DOMAIN HexBytes :
        HexBytes[s] = IF tok \in {"sha256", "hash256"} THEN 32 ELSE 20

\* The policy text of the tree rooted at i, as lexemes: the canonical form
\* of what the node records.
RECURSIVE Ser(_, _)
Ser(i, fuel) ==
    LET nd == arena[i]
        Sub(j) == Ser(j, fuel - 1)
        List(s) == FlattenSeq([j \in DOMAIN s |->
                                  (IF j = 1 THEN <<>> ELSE <<",">>) \o Sub(s[j])])
        Paren(body) == <<nd.kind, "(">> \o body \o <<")">>
    IN
    IF fuel = 0 THEN <<"?">>
    ELSE CASE nd.kind \in WrapperLetters ->
                  <<nd.kind>>
                  \o (IF arena[nd.ptr[1]].kind \in WrapperLetters THEN <<>> ELSE <<":">>)
                  \o Sub(nd.ptr[1])
           [] nd.kind \in {"0", "1"} -> <<nd.kind>>
           [] nd.kind \in {"sh", "wsh"} \cup NAryTokens -> Paren(List(nd.ptr))
           [] nd.kind \in HashTokens -> Paren(<<HexLexeme(nd.kind)>>)
           [] nd.kind \in KeyTokens \cup {"tr"} -> Paren(<<KeyLexeme(nd.k)>>)
           [] nd.kind \in {"older", "after"} -> Paren(<<NumLexeme(nd.n)>>)
           [] nd.kind = "thresh" ->
                  Paren(<<NumLexeme(nd.k), ",">> \o List(Subtrees(i)))
           [] nd.kind \in {"multi", "sortedmulti"} ->
                  Paren(<<NumLexeme(nd.k)>>
                        \o FlattenSeq([j \in 1..nd.n |->
                                          <<",", KeyLexeme(arena[nd.ptr[1] + j - 1].k)>>]))

\* The input without the ':' that no wrapper letter precedes: the code
\* consumes a ':' after a run of zero wrapper letters and builds nothing.
WithoutStrayColons(s) ==
    LET Stray(j) == s[j] = ":" /\ (j = 1 \/ s[j - 1] \notin WrapperLetters)
        kept == SelectSeq([j \in DOMAIN s |-> j], LAMBDA j : ~Stray(j))
    IN [j \in DOMAIN kept |-> s[kept[j]]]

-----------------------------------------------------------------------------
(* Properties *)

TypeOK ==
    /\ input \in Seq(Alphabet) /\ Len(input) <= MaxLen
    /\ eof \in BOOLEAN
    /\ pos \in 0..Len(input)
    /\ status \in {"parsing", "accepted", "rejected"}
    /\ Len(arena) <= ArenaCap
    /\ \A a \in DOMAIN arena :
          /\ arena[a].f \in Flags
          /\ \A j \in DOMAIN arena[a].ptr : arena[a].ptr[j] \in 0..ArenaCap + 1
    /\ \A j \in DOMAIN stack : stack[j].depth = j - 1

\* parse_script's pointers and cursor: when parse_policy_map accepts, the
\* tree in the out buffer (child pointers taken before the child was parsed,
\* wrapper chains, thresh lists, multi key slots) spells exactly the input,
\* up to a ':' that follows no wrapper letter.
TreeMatchesInput ==
    status = "accepted" => Ser(1, Len(arena)) = WithoutStrayColons(input)

\* The context checks of sh, wsh and wpkh (context_flags): in an accepted
\* tree sh is only the root, and wsh and wpkh are the root or a direct
\* child of sh.
ContextRules ==
    /\ \A e \in Edges : arena[e[2]].kind # "sh"
    /\ \A e \in Edges : arena[e[2]].kind \in {"wsh", "wpkh"} => arena[e[1]].kind = "sh"

-----------------------------------------------------------------------------
(* What a witness for a miniscript node may look like: the numbers of     *)
(* stack elements of its canonical satisfactions and dissatisfactions,    *)
(* from the Script each fragment compiles to.  This is the meaning of the *)
(* modifiers z (zero-arg witness), o (one-arg witness) and d              *)
(* (dissatisfiable) that the glossary of the specification gives.         *)
(* and_n(X,Y) compiles to [X] NOTIF 0 ELSE [Y] ENDIF, i.e. andor(X,Y,0):   *)
(* it is dissatisfied by dissatisfying X.  The comment at wallet.c:849    *)
(* says andor(X,Y,1), which has no dissatisfaction; the flags the code    *)
(* sets (d = 1, u = Y.u) and the specification's table are those of      *)
(* andor(X,Y,0), and so is the row below.                                 *)

Plus(A, B) == {a + b : a \in A, b \in B}
Witness(sat, dsat) == [sat |-> sat, dsat |-> dsat]

\* thresh(k, X1..Xn): k children satisfied, the others dissatisfied; all
\* dissatisfied for the dissatisfaction.  w[j][c]: first j children, c sats.
ThreshWitness(k, cs) ==
    LET n == Len(cs)
        w[j \in 0..n] ==
            [c \in 0..n |->
                IF j = 0 THEN (IF c = 0 THEN {0} ELSE {})
                ELSE Plus(w[j - 1][c], cs[j].dsat)
                     \cup (IF c > 0 THEN Plus(w[j - 1][c - 1], cs[j].sat) ELSE {})]
    IN Witness(IF k <= n THEN w[n][k] ELSE {}, w[n][0])

RECURSIVE Sizes(_, _)
Sizes(i, fuel) ==
    LET nd == arena[i]
        c == Subtrees(i)
        S(j) == Sizes(c[j], fuel - 1)
        One == {1}
    IN
    IF fuel = 0 THEN Witness({}, {})
    ELSE CASE nd.kind = "0" -> Witness({}, {0})
           [] nd.kind = "1" -> Witness({0}, {})
           [] nd.kind \in {"pk", "pk_k"} \cup HashTokens -> Witness(One, One)
           [] nd.kind \in {"pkh", "pk_h"} -> Witness({2}, {2})
           [] nd.kind \in {"older", "after"} -> Witness({0}, {})
           [] nd.kind = "multi" -> Witness({nd.k + 1}, {nd.k + 1})
           [] nd.kind \in {"a", "s", "c", "n"} -> S(1)
           [] nd.kind = "d" -> Witness(Plus(S(1).sat, One), One)
           [] nd.kind \in {"v", "t"} -> Witness(S(1).sat, {})
           [] nd.kind = "j" -> Witness(S(1).sat, One)
           [] nd.kind \in {"l", "u"} ->
                  Witness(Plus(S(1).sat, One), One \cup Plus(S(1).dsat, One))
           [] nd.kind = "and_v" -> Witness(Plus(S(1).sat, S(2).sat), {})
           [] nd.kind = "and_b" ->
                  Witness(Plus(S(1).sat, S(2).sat), Plus(S(1).dsat, S(2).dsat))
           [] nd.kind = "and_n" -> Witness(Plus(S(1).sat, S(2).sat), S(1).dsat)
           [] nd.kind = "andor" ->
                  Witness(Plus(S(1).sat, S(2).sat) \cup Plus(S(1).dsat, S(3).sat),
                          Plus(S(1).dsat, S(3).dsat))
           [] nd.kind = "or_b" ->
                  Witness(Plus(S(1).sat, S(2).dsat) \cup Plus(S(1).dsat, S(2).sat),
                          Plus(S(1).dsat, S(2).dsat))
           [] nd.kind = "or_c" -> Witness(S(1).sat \cup Plus(S(1).dsat, S(2).sat), {})
           [] nd.kind = "or_d" ->
                  Witness(S(1).sat \cup Plus(S(1).dsat, S(2).sat),
                          Plus(S(1).dsat, S(2).dsat))
           [] nd.kind = "or_i" ->
                  Witness(Plus(S(1).sat \cup S(2).sat, One),
                          Plus(S(1).dsat \cup S(2).dsat, One))
           [] nd.kind = "thresh" ->
                  ThreshWitness(nd.k, [j \in DOMAIN c |-> S(j)])

WitnessOf(i) == Sizes(i, Len(arena))

\* The type calculator (the flags set by every case of parse_script and by
\* the wrapper loop): a node of an accepted tree marked d has a
\* dissatisfaction.
DissatSound ==
    \A i \in MsNodes : arena[i].f.d => WitnessOf(i).dsat # {}

-----------------------------------------------------------------------------
(* Nesting rules of the specification's data model that the parser's     *)
(* context checks are meant to enforce.                                   *)

\* "thresh: k >= 1, k <= n": the threshold of an accepted thresh is at most
\* its number of children (the TOKEN_THRESH case checks k >= 1 only).
ThreshKAtMostN ==
    \A i \in Nodes : arena[i].kind = "thresh" => arena[i].k <= arena[i].n

\* The sortedmulti context check (both CONTEXT_WITHIN_SH and
\* CONTEXT_WITHIN_WSH set): sh(wsh(sortedmulti(...))) is never accepted.
NoNestedSegwitSortedMulti ==
    \A e1, e2 \in Edges :
        ~(/\ e1[2] = e2[1]
          /\ arena[e1[1]].kind = "sh" /\ arena[e1[2]].kind = "wsh"
          /\ arena[e2[2]].kind = "sortedmulti")
=============================================================================
