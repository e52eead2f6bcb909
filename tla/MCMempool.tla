----------------------------- MODULE MCMempool -----------------------------
(***************************************************************************)
(* Instances of Mempool: w spends d, d spends a and b, b spends a; r       *)
(* conflicts with a; y and z spend one serial; s spends the coinbase k and *)
(* the output of z.                                                        *)
(***************************************************************************)
EXTENDS Mempool

CONSTANTS a, b, d, w, r, y, z, k, s

MCIns ==
    a :> {"c0"} @@ b :> {"a0"} @@ d :> {"a1", "b0"} @@ w :> {"d0"} @@ r :> {"c0"} @@
    y :> {} @@ z :> {} @@ k :> {} @@ s :> {"k0", "z0"}
MCOuts ==
    a :> {"a0", "a1"} @@ b :> {"b0"} @@ d :> {"d0"} @@ w :> {"w0"} @@ r :> {"r0"} @@
    y :> {"y0"} @@ z :> {"z0"} @@ k :> {"k0"} @@ s :> {"s0"}
MCSerials == [t \in Tx |-> IF t \in ZerocoinSpend THEN {"serial"} ELSE {}]
MCFee == [t \in Tx |-> CASE t = a -> 1 [] t = b -> 3 [] t = d -> 2 [] t = r -> 4 [] t = s -> 1 [] t = w -> 2 [] OTHER -> 0]
MCLockHeight == [t \in Tx |-> IF t = d THEN 2 ELSE 0]
MCBlocks == {<<a>>, <<a, b>>, <<b>>, <<r>>, <<z>>, <<y>>, <<k>>}
=============================================================================
