------------------------- MODULE MC_NewBlockHandler -------------------------
(* Two honest peers announce b1 (one transaction, on genesis); p2 also    *)
(* announces b2 (one transaction, on b1), which is an orphan when it      *)
(* comes first; peer m announces an invalid block bad; local services     *)
(* submit bl, an empty block on genesis that competes with b1.            *)
EXTENDS NewBlockHandler, TLC

CONSTANTS t1, t2, t3, t4, t5, p1, p2, m, G, b1, b2, bad, bl, x1, x2, x3, LocalSrc, None

MCTasks == {t1, t2, t3, t4, t5}
MCSrc == (t1 :> p1) @@ (t2 :> p2) @@ (t3 :> p2) @@ (t4 :> m) @@ (t5 :> LocalSrc)
MCBlk == (t1 :> b1) @@ (t2 :> b1) @@ (t3 :> b2) @@ (t4 :> bad) @@ (t5 :> bl)
MCParent == (b1 :> G) @@ (b2 :> b1) @@ (bad :> G) @@ (bl :> G)
MCTxs == (b1 :> {x1}) @@ (b2 :> {x2}) @@ (bad :> {x3}) @@ (bl :> {})
====
