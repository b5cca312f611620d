--------------------------- MODULE MCProcessPool ---------------------------
(***************************************************************************)
(* Properties of ProcessPool and the instances TLC checks them on.         *)
(***************************************************************************)
EXTENDS ProcessPoolProps, TLC

CONSTANTS c1, c2, c3, k1, k2, k3, p1, p2, p3, t1

(* Two calls on one key and a third on another: races inside a key and     *)
(* eviction between keys.                                                  *)
MCCallKey == (c1 :> k1) @@ (c2 :> k1) @@ (c3 :> k2)

(* Three calls on one key.                                                 *)
MCOneKey == (c1 :> k1) @@ (c2 :> k1) @@ (c3 :> k1)

MCTwoKeys == (c1 :> k1) @@ (c2 :> k2)

MCThreeKeys == (c1 :> k1) @@ (c2 :> k2) @@ (c3 :> k3)

MCPair == (c1 :> k1) @@ (c2 :> k1)

MCTermKeys == t1 :> {k1, k2}

MCNoTerm == <<>>

ProcSymmetry == Permutations({p1, p2, p3})
=============================================================================
