---------------------------- MODULE MCReassembly ----------------------------
(* m1 and m2 share a key; of m2 and m3 a part is sent, of d only in +CMT.    *)
EXTENDS Reassembly
CONSTANTS m1, m2, m3, d, k1, k2, k3
MCKeyOf == (m1 :> k1) @@ (m2 :> k1) @@ (m3 :> k2) @@ (d :> k3)
MCCopies ==
  [c \in {<<m1, 1>>, <<m1, 2>>, <<m2, 1>>, <<m3, 1>>, <<d, 1>>, <<d, 3>>} |->
     IF c = <<m1, 1>> THEN 2 ELSE 1]
MCTotal == (k1 :> 2) @@ (k2 :> 2) @@ (k3 :> 2)
=============================================================================
