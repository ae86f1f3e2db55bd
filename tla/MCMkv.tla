------------------------------- MODULE MCMkv -------------------------------
(***************************************************************************)
(* An instance of Mkv for TLC: two keys that share a prefix, for one of    *)
(* which the factory has stored a value, and buffers that hold short       *)
(* values or both. One thread writes, one reads, one deletes. The reader   *)
(* meets AmpleBuffers: it has a large buffer for the key with a factory    *)
(* value, and for the other a small one.                                   *)
(***************************************************************************)
EXTENDS Mkv, TLC

CONSTANTS k1, short, long, c1, c2, c3

OneOrTwo     == (short :> 1) @@ (long :> 2)
FactoryShort == [k \in Keys |-> IF k = k1 THEN short ELSE NoVal]
AllKeys      == {Keys}
Roles        == (c1 :> {"SET"}) @@ (c2 :> {"GET"}) @@ (c3 :> {"DEL", "DEL_PREFIX"})
ByRole       == [c \in Clients |->
                   {r \in Requests : r.cmd \in Roles[c]
                                     /\ (r.cmd = "SET" /\ r.key # k1 => r.val = long)}]
AmpleByRole  == [c \in Clients |->
   {r \in ByRole[c] : /\ r.cmd = "GET" => (r.cap = 2 <=> r.key = k1)
                      /\ r.cmd = "DEL" => r.key = k1}]
=============================================================================
