--------------------------- MODULE MCScriptParser ---------------------------
(***************************************************************************)
(* Instances of ScriptParser for TLC.  Each run picks an alphabet of       *)
(* lexemes that makes its question reachable in short inputs.              *)
(***************************************************************************)
EXTENDS ScriptParser

\* Descriptor-level policies: sh, wsh, wpkh, tr, pkh and multisig.
SegwitAlphabet ==
    {"sh", "wsh", "wpkh", "tr", "pkh", "multi", "sortedmulti",
     "(", ")", ",", "1", "2", "@0", "@1", "@128", "@255"}

\* The binary combinators over constants and keys, with the wrappers a
\* and v that make their operands fit.
CombinatorAlphabet ==
    {"0", "1", "pk", "@0", "and_v", "and_b", "and_n", "or_b", "or_c", "or_d",
     "or_i", "andor", "a", "v", "(", ")", ",", ":"}

\* thresh lists over leaves of every kind, with the W wrappers a and s.
ThreshListAlphabet ==
    {"thresh", "0", "1", "pk", "@0", "sha256", "h32", "older",
     "a", "s", "(", ")", ",", ":"}

\* thresh with a threshold above its number of children.
ThreshAlphabet == {"thresh", "0", "2", "(", ")", ","}

\* sh(wsh(sortedmulti(...))).
SortedMultiAlphabet == {"sh", "wsh", "sortedmulti", "1", "@0", "(", ")", ","}
=============================================================================
