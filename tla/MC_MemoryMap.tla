---------------------------- MODULE MC_MemoryMap ----------------------------
(***************************************************************************)
(* Pages of 1K, so 8 to 8K.  SxROM cartridges smaller than and as large as *)
(* the bank numbers reach, one of a size that is no power of two, and      *)
(* values that set every field of every register both ways; NROM           *)
(* cartridges of both sizes and mirrorings with every size of work RAM;    *)
(* and files that are refused, each for another reason.                    *)
(***************************************************************************)
EXTENDS MemoryMap

MCValues == {0, 9, 14, 31}

Ines == [format |-> "ines", version |-> 0, mapper |-> 0, higher |-> 0, mirroring |-> 0,
         prg |-> 1, prghi |-> 0, chr |-> 1, chrhi |-> 0, wram_present |-> FALSE, wram |-> 0,
         nbbwram |-> 0, bbwram |-> 0, nbbchram |-> 0, bbchram |-> 0, unsupported |-> FALSE]
Ines2 == [Ines EXCEPT !.version = 2]

SxromHeaders ==
  {[Ines EXCEPT !.mapper = 1, !.prg = 6, !.chr = 5, !.wram_present = TRUE],
   [Ines2 EXCEPT !.mapper = 1, !.prg = 16, !.chr = 16, !.nbbwram = 5]}
NromHeaders ==
  {[Ines EXCEPT !.prg = n, !.mirroring = m, !.wram_present = u] : n \in {1, 2}, m \in {0, 1}, u \in BOOLEAN}
    \cup {[Ines2 EXCEPT !.nbbwram = a, !.bbwram = b] : a \in 0..5, b \in 0..4}
Refused ==
  {[Ines EXCEPT !.unsupported = TRUE], [Ines EXCEPT !.prg = 3], [Ines EXCEPT !.prg = 0],
   [Ines EXCEPT !.chr = 0], [Ines EXCEPT !.wram_present = TRUE, !.wram = 2],
   [Ines2 EXCEPT !.prghi = 1], [Ines2 EXCEPT !.higher = 1], [Ines2 EXCEPT !.bbchram = 3],
   [Ines EXCEPT !.mapper = 1, !.prg = 3], [Ines EXCEPT !.mapper = 4]}
MCHeaders == SxromHeaders \cup NromHeaders \cup Refused \cup {Hawknest}

MCCarts == {[prg |-> 6, chr |-> 10], [prg |-> 16, chr |-> 32]}
MCWritePages == {32, 47, 48, 63}
=============================================================================
