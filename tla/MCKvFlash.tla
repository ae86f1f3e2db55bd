----------------------------- MODULE MCKvFlash -----------------------------
(***************************************************************************)
(* Instances of KvFlash for TLC.                                           *)
(***************************************************************************)
EXTENDS KvFlash, TLC

EvenSize(k, v) == 3
\* v1 and v2 are the two values; a key's items differ in size.
CONSTANT LongVal
MixedSize(k, v) == IF v = LongVal THEN 4 ELSE 3

Symmetry == Permutations(Keys) \cup Permutations(Vals)

NoPrefix  == {}
AllKeys   == {Keys, {}}     \* a prefix every key has, and one none has
AllPoints == Points
\* Everywhere but where GC holds items in two blocks: see OnlyExposedLost.
NotInGc   == Points \ {"copy", "erase"}
WhenIdle  == {"idle"}
=============================================================================
