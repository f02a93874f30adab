--------------------------- MODULE MiniscriptTypes ---------------------------
(***************************************************************************)
(* The Miniscript type calculator of src/src/common/wallet.c (component   *)
(* C7): the flags a node of the policy tree receives, as pure operators.  *)
(* A flag vector is the bit field `flags` of policy_node_t: is_miniscript *)
(* (ms), miniscript_type (t) and the modifiers z, o, n, d, u.  Bits are   *)
(* modelled as BOOLEAN, `&` as /\ and `|` as \/.                           *)
(*                                                                         *)
(* A composition rule returns [ok |-> guard, f |-> flags]: ok is FALSE    *)
(* exactly when the code returns "invalid type".                           *)
(***************************************************************************)
EXTENDS Integers

Types == {"B", "V", "K", "W"}

Flags == [ms : BOOLEAN, t : Types, z : BOOLEAN, o : BOOLEAN,
          n : BOOLEAN, d : BOOLEAN, u : BOOLEAN]

Ms(t, z, o, n, d, u) ==
    [ms |-> TRUE, t |-> t, z |-> z, o |-> o, n |-> n, d |-> d, u |-> u]

\* sh, wsh, wpkh, tr and sortedmulti only set is_miniscript = 0; their
\* other bits keep whatever the arena held.  No code path reads them (every
\* reader tests is_miniscript first), so one fixed vector stands for them.
NoFlags == [ms |-> FALSE, t |-> "B", z |-> FALSE, o |-> FALSE,
            n |-> FALSE, d |-> FALSE, u |-> FALSE]

Rule(ok, f) == [ok |-> ok, f |-> f]

\* Leaf flags ------------------------------------------------------------

ConstFlags(tok) ==                           \* TOKEN_0 / TOKEN_1
    Ms("B", TRUE, FALSE, FALSE, tok = "0", TRUE)

HashFlags == Ms("B", TRUE, TRUE, FALSE, TRUE, TRUE)   \* sha256 .. hash160

KeyFlags(tok) ==                             \* pk, pkh, pk_k, pk_h; wpkh is not miniscript
    IF tok = "wpkh" THEN NoFlags
    ELSE Ms(IF tok \in {"pk", "pkh"} THEN "B" ELSE "K",
            FALSE, tok \in {"pk", "pk_k"}, TRUE, TRUE, TRUE)

LockFlags == Ms("B", TRUE, FALSE, FALSE, FALSE, FALSE)  \* older / after

MultiFlags(tok) ==
    IF tok = "sortedmulti" THEN NoFlags
    ELSE Ms("B", FALSE, FALSE, TRUE, TRUE, TRUE)

\* Compositions: X, Y, Z are the children's flag vectors -----------------

Andor(X, Y, Z) ==
    Rule(/\ X.t = "B" /\ X.d /\ X.u
         /\ Y.t = Z.t /\ Y.t # "W",
         Ms(Y.t, X.z /\ Y.z /\ Z.z,
            (X.z /\ Y.o /\ Z.o) \/ (X.o /\ Y.z /\ Z.z),
            FALSE, Z.d, Y.u /\ Z.u))

AndV(X, Y) ==
    Rule(X.t = "V" /\ Y.t # "W",
         Ms(Y.t, X.z /\ Y.z, (X.z /\ Y.o) \/ (X.o /\ Y.z),
            X.n \/ (X.z /\ Y.n), FALSE, Y.u))

AndB(X, Y) ==
    Rule(X.t = "B" /\ Y.t = "W",
         Ms("B", X.z /\ Y.z, (X.z /\ Y.o) \/ (X.o /\ Y.z),
            X.n \/ (X.z /\ Y.n), X.d /\ Y.d, Y.u))

\* Mutant: and_n without the X.d precondition.
AndNWithoutXd(X, Y) ==
    Rule(X.t = "B" /\ X.u /\ Y.t = "B",
         Ms("B", X.z /\ Y.z, X.o /\ Y.z, FALSE, TRUE, Y.u))

AndN(X, Y) ==
    Rule(X.t = "B" /\ X.d /\ X.u /\ Y.t = "B",
         Ms("B", X.z /\ Y.z, X.o /\ Y.z, FALSE, TRUE, Y.u))

OrB(X, Z) ==
    Rule(X.t = "B" /\ X.d /\ Z.t = "W" /\ Z.d,
         Ms("B", X.z /\ Z.z, (X.z /\ Z.o) \/ (X.o /\ Z.z), FALSE, TRUE, TRUE))

OrC(X, Z) ==
    Rule(X.t = "B" /\ X.d /\ X.u /\ Z.t = "V",
         Ms("V", X.z /\ Z.z, X.o /\ Z.o, FALSE, FALSE, FALSE))

OrD(X, Z) ==
    Rule(X.t = "B" /\ X.d /\ X.u /\ Z.t = "B",
         Ms("B", X.z /\ Z.z, X.o /\ Z.o, FALSE, Z.d, Z.u))

OrI(X, Z) ==
    Rule(X.t # "W" /\ X.t = Z.t,
         Ms(X.t, FALSE, X.z /\ Z.z, FALSE, X.d \/ Z.d, X.u /\ Z.u))

\* Number of children of each fixed-arity combinator (parse_child_scripts).
Arity == [andor |-> 3, and_v |-> 2, and_b |-> 2, and_n |-> 2,
          or_b |-> 2, or_c |-> 2, or_d |-> 2, or_i |-> 2]

NAryTokens == DOMAIN Arity

\* The `case TOKEN_...` dispatch over a combinator's children c.
Compose(tok, c) ==
    CASE tok = "andor" -> Andor(c[1], c[2], c[3])
      [] tok = "and_v" -> AndV(c[1], c[2])
      [] tok = "and_b" -> AndB(c[1], c[2])
      [] tok = "and_n" -> AndN(c[1], c[2])
      [] tok = "or_b"  -> OrB(c[1], c[2])
      [] tok = "or_c"  -> OrC(c[1], c[2])
      [] tok = "or_d"  -> OrD(c[1], c[2])
      [] tok = "or_i"  -> OrI(c[1], c[2])

\* thresh: the check applied to the i-th child X as soon as it is parsed.
ThreshChildOK(i, X) ==
    /\ X.ms
    /\ X.t = IF i = 1 THEN "B" ELSE "W"
    /\ X.d /\ X.u

\* thresh flags from the child count n and the running counters.
ThreshFlags(n, cz, co) ==
    Ms("B", cz = n, cz = n - 1 /\ co = 1, FALSE, FALSE, FALSE)

\* n:X (X 0NOTEQUAL) keeps X's modifiers and is a unit.
NWrapperFlags(X) == Ms("B", X.z, X.o, X.n, X.d, TRUE)

\* Wrapper w applied to child X (the switch of the wrapper loop).
WrapperRule(w, X) ==
    CASE w = "a" -> Rule(X.t = "B", Ms("W", FALSE, FALSE, FALSE, X.d, X.u))
      [] w = "s" -> Rule(X.t = "B" /\ X.o, Ms("W", FALSE, FALSE, FALSE, X.d, X.u))
      [] w = "c" -> Rule(X.t = "K", Ms("B", FALSE, X.o, X.n, X.d, TRUE))
      [] w = "t" -> Rule(X.t = "V", Ms("B", X.z, X.o, X.n, FALSE, TRUE))
      [] w = "d" -> Rule(X.t = "V" /\ X.z, Ms("B", FALSE, TRUE, TRUE, TRUE, FALSE))
      [] w = "v" -> Rule(X.t = "B", Ms("V", X.z, X.o, X.n, FALSE, FALSE))
      [] w = "j" -> Rule(X.t = "B" /\ X.n, Ms("B", FALSE, X.o, TRUE, TRUE, X.u))
      [] w = "n" -> Rule(X.t = "B", NWrapperFlags(X))
      [] w = "l" -> Rule(X.t = "B", Ms("B", FALSE, X.z, FALSE, TRUE, X.u))
      [] w = "u" -> Rule(X.t = "B", Ms("B", FALSE, X.z, FALSE, TRUE, X.u))
=============================================================================
