----------------------------- MODULE MC_Machine -----------------------------
(***************************************************************************)
(* A small picture whose vblank is a little longer than a copy, and an     *)
(* 8-byte copy, which passes every register of the picture unit once.      *)
(***************************************************************************)
EXTENDS Machine

MCCtrl  == {[nt |-> 0, inc |-> FALSE, nmi |-> n, tall |-> FALSE] : n \in BOOLEAN}
MCMasks == {{}}
None    == {}
=============================================================================
