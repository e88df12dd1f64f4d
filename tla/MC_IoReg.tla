----------------------------- MODULE MC_IoReg -----------------------------
(* Two buttons, three bytes of object memory, the ports at offsets 1 and   *)
(* 2, and two states of the keyboard.                                      *)
EXTENDS IoReg, TLC

MCPortAt   == (0 :> 1) @@ (1 :> 2)
MCByte     == [hi : {0}, lo : {0, 1}]
MCPageByte == [pg \in {"ram", "io"} |-> Zero]
MCRam      == (0 :> [hi |-> 0, lo |-> 1]) @@ (1 :> [hi |-> 0, lo |-> 1]) @@ (2 :> Zero)
Hold(x, y) == (0 :> ((0 :> x[1]) @@ (1 :> x[2]))) @@ (1 :> ((0 :> y[1]) @@ (1 :> y[2])))
MCKeyStates == {Hold(<<TRUE, FALSE>>, <<FALSE, TRUE>>), Hold(<<FALSE, TRUE>>, <<TRUE, TRUE>>)}
=============================================================================
