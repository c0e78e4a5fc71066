--------------------------- MODULE MC_ChainStorage ---------------------------
(* A block tree for the chain store: G is genesis; A1 extends G and burns *)
(* one of its outputs; A2 extends A1 and spends an output of its own      *)
(* (0-conf) and one of A1; B1 is a fork of G; B2 extends A1 and spends an  *)
(* output A1 already spent (a double spend only the store can refuse).     *)
(* o3 registers a code template where a cfg says Templates <- MCTemplates. *)
EXTENDS ChainStorage

CONSTANTS G, A1, A2, B1, B2, NoBlock,
          k0, k1, k2, k3, k4, k5,
          o1, o2, o3, o4, o5, o6, o7, o8

MCBlocks  == {G, A1, A2, B1, B2}
MCKernels == {k0, k1, k2, k3, k4, k5}
MCOutputs == {o1, o2, o3, o4, o5, o6, o7, o8}
MCBurned  == {o4}
MCInvalid == {B1}
MCTemplates   == {o3}
MCNoTemplates == {}

MCParent    == (G :> NoBlock) @@ (A1 :> G) @@ (A2 :> A1) @@ (B1 :> G) @@ (B2 :> A1)
MCKernelsOf == (G :> <<k0, k1>>) @@ (A1 :> <<k2>>) @@ (A2 :> <<k3>>)
                 @@ (B1 :> <<k4>>) @@ (B2 :> <<k5>>)
MCOutputsOf == (G :> <<o1, o2>>) @@ (A1 :> <<o3, o4>>) @@ (A2 :> <<o5, o6>>)
                 @@ (B1 :> <<o7>>) @@ (B2 :> <<o8>>)
MCInputsOf  == (G :> <<>>) @@ (A1 :> <<o1>>) @@ (A2 :> <<o5, o3>>)
                 @@ (B1 :> <<o2>>) @@ (B2 :> <<o1>>)
=============================================================================
