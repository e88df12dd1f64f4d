----------------------------- MODULE MC_Picture -----------------------------
(***************************************************************************)
(* A small picture: 6 visible lines of 3 tiles, two sprites to a line, a   *)
(* post-render line, the vblank line and the pre-render line, of 59 dots.  *)
(* The guest acts in the vblank and in the middle of a line.               *)
(***************************************************************************)
EXTENDS Picture

MCCtrl    == {[nt |-> 3, inc |-> FALSE, nmi |-> FALSE, tall |-> h] : h \in BOOLEAN}
MCMasks   == {{}, MaskBits, {"bg", "sprite", "left_bg"}, {"bg", "sprite", "left_sprite"}}
MCScrolls == {[coarse |-> 2, fine |-> 5], [coarse |-> 0, fine |-> 3]}
MCAddrs   == {[hi |-> 1, lo |-> 7]}

Sprite(y, x, n, h, u) == [y |-> y, x |-> x, tile |-> n, horiz |-> h, verti |-> u]
Hidden(n) == Sprite(240, 240, n, FALSE, FALSE)
(* Overlapping sprites, one at either edge, three on a line, flips, and    *)
(* one that reaches below the picture.                                     *)
MCOam ==
  {<<Sprite(1, 4, 1, FALSE, FALSE), Sprite(0, 6, 2, TRUE, FALSE),
     Sprite(2, 20, 3, FALSE, TRUE), Hidden(4)>>,
   <<Sprite(3, 20, 1, TRUE, TRUE), Sprite(5, 0, 2, FALSE, FALSE), Hidden(3), Hidden(4)>>}

(* Some cells are opaque, in one plane or in both.  The pixels of a sprite *)
(* have the colours 0 to 3 in a pattern that no flip leaves as it is.      *)
MCBgBit(plane, bits, k) == bits[1][1] \in (IF plane = 1 THEN {0, 2, 5} ELSE {5, 7})
MCSpriteBit(plane, bits, k) ==
  IF plane = 1 THEN (bits[2] + k) % 3 = 0 ELSE (bits[2] + 2 * k) % 4 = 1
MCAccess == {<<7, 6>>, <<2, 20>>}
=============================================================================
