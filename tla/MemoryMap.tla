----------------------------- MODULE MemoryMap -----------------------------
(***************************************************************************)
(* The memory maps of a system, from the header of its ROM file to the     *)
(* pages a program sees: the iNES header's sizes (emu/ines.c), the map     *)
(* common to every NES, the NROM and SxROM cartridges (emu/nes/nrom.c,     *)
(* emu/nes/sxrom.c) and the Hawknest system (emu/main.c).  It composes the *)
(* two buses of Membus with the MMC1 of Sxrom: a program's write reaches   *)
(* the mapper through the page it falls on, and the mapper's answer is the *)
(* pages that are mapped anew.                                             *)
(*                                                                         *)
(* Everything is in proportion to K, the pages of 8K.  Memory contents are *)
(* left out, failures of allocation and of the file are in Lifetime.       *)
(***************************************************************************)
EXTENDS Sxrom, Membus

CONSTANTS
  K,          \* 32: pages in 0x2000 bytes
  RamUnit,    \* 64 bytes: encoded RAM sizes double from here
  Headers,    \* the files: iNES headers, or "hawknest"
  WritePages  \* bound: the pages of the upper half the program writes to

B == K * PageSize          \* 0x2000

ASSUME KAssumption == K \in Nat \ {0} /\ K % 8 = 0 /\ RamUnit \in Nat \ {0}

Fields == [format : {"ines"}, version : 0..3, mapper : 0..255, higher : 0..15, mirroring : {0, 1},
           prg : 0..255, prghi : 0..15, chr : 0..255, chrhi : 0..15,
           wram_present : BOOLEAN, wram : 0..255,
           nbbwram : 0..15, bbwram : 0..15, nbbchram : 0..15, bbchram : 0..15,
           unsupported : BOOLEAN]     \* a trainer, Vs. Unisystem or Playchoice

Hawknest == [format |-> "hawknest"]

ASSUME HeadersAssumption == \A f \in Headers : f = Hawknest \/ f \in Fields

ASSUME WritePagesAssumption == WritePages \subseteq (4 * K)..(8 * K - 1)

VARIABLES
  header,     \* of the file that is loaded
  phase,      \* "file", "loaded", "refused", "running"
  cpu, ppu    \* the two buses

bvars == <<vars, header, phase, cpu, ppu>>

-----------------------------------------------------------------------------
(* inesrom_load: the sizes                                                 *)
ines2 == header.version = 2
mapper == IF header = Hawknest THEN -1 ELSE header.mapper + IF ines2 THEN 256 * header.higher ELSE 0

decode_ram_size(n) == IF n = 0 THEN 0 ELSE RamUnit * 2^n

prgrom_size == 2 * B * (header.prg + IF ines2 THEN 256 * header.prghi ELSE 0)
chrom_size  == B * (header.chr + IF ines2 THEN 256 * header.chrhi ELSE 0)

wram_size ==
  CASE ines2 -> decode_ram_size(header.nbbwram) + decode_ram_size(header.bbwram)
    [] ~ines2 /\ header.wram_present -> IF header.wram # 0 THEN B * header.wram ELSE B
    [] ~ines2 /\ ~header.wram_present -> 0

chram_size ==
  IF ines2 THEN decode_ram_size(header.nbbchram) + decode_ram_size(header.bbchram)
  ELSE IF chrom_size = 0 THEN B ELSE 0

Rom(n, s) == [name |-> n, size |-> s, writeable |-> FALSE]
Ram(n, s) == [name |-> n, size |-> s, writeable |-> TRUE]
ram    == Ram("ram", IF header = Hawknest THEN 4 * B ELSE B \div 4)
wram   == Ram("wram", wram_size)
vram   == Ram("vram", B \div 4)
prgrom == Rom("prgrom", prgrom_size)
chrom  == Rom("chrom", chrom_size)
cartrom == Rom("cartrom", 3 * B)

(* What the setup functions of the two mappers refuse                      *)
NromTakes ==
  /\ wram_size <= B /\ prgrom_size # 0 /\ prgrom_size <= 4 * B
  /\ chrom_size = B /\ chram_size = 0
SxromTakes ==
  /\ wram_size \in {0, B} /\ prgrom_size # 0 /\ prgrom_size % (4 * B) = 0
  /\ chrom_size # 0 /\ chrom_size % B = 0 /\ chram_size = 0

Accepted ==
  IF header = Hawknest THEN TRUE
  ELSE /\ ~header.unsupported
       /\ (mapper = 0 /\ NromTakes) \/ (mapper = 1 /\ SxromTakes)

-----------------------------------------------------------------------------
(* setup_common, io_reg_setup and ppu_map: the RAM at the bottom, the PPU  *)
(* on 32 pages and the I/O registers on the next.                          *)
CommonMap ==
  LET bus == memory_map(EmptyBus(8 * K), ram, 0, ram.size, 0)
      Devices(entries) == Handled(Handled(entries, "ppu", [p \in K..(2 * K - 1) |-> 0]),
                                  "io", [p \in {2 * K} |-> 0])
  IN  [read |-> Devices(bus.read), write |-> Devices(bus.write)]

(* hawknest_rom_load                                                       *)
HawknestMap ==
  memory_map(memory_map(EmptyBus(8 * K), cartrom, 5 * B, cartrom.size, 0), ram, 0, ram.size, 0)

(* nrom_setup; a size that does not divide the window leaves its rest      *)
(* unmapped.                                                               *)
NromCpu ==
  LET work == IF wram_size = 0 THEN CommonMap
              ELSE memory_map_mirroring(CommonMap, wram, 3 * B, wram_size, 0, B \div wram_size)
  IN  memory_map_mirroring(work, prgrom, 4 * B, prgrom_size, 0, (4 * B) \div prgrom_size)

NromPpu ==
  LET nt == B \div 8
      pattern == memory_map(EmptyBus(8 * K), chrom, 0, chrom_size, 0)
      Nt(bus, q, start) == memory_map(bus, vram, B + q * nt, nt, start)
  IN  IF header.mirroring = 0
      THEN memory_map_mirroring(memory_map_mirroring(pattern, vram, B, nt, 0, 2),
                                vram, B + 2 * nt, nt, nt, 2)
      ELSE Nt(Nt(Nt(Nt(pattern, 0, 0), 1, nt), 2, 0), 3, nt)

(* sxrom_setup: the register window.  A page is mapped by its number, and  *)
(* its handler gets addresses from the start of the window.                *)
RegisterPages == (4 * K)..(8 * K - 1)
(* Mutant: every page's handler gets the address of the window's start.    *)
Mutant_SxromCpu ==
  [CommonMap EXCEPT !.write = Handled(CommonMap.write, "cart", [p \in RegisterPages |-> 0])]
SxromCpu ==
  [CommonMap EXCEPT !.write =
     Handled(CommonMap.write, "cart", [p \in RegisterPages |-> (p - 4 * K) * PageSize])]

(* remap, with the windows m that the registers r ask for                  *)
RemapCpu(bus, r, m) ==
  LET bank == 2 * B
      Prg(b, from, size, k) == memory_map(b, prgrom, from, size, m.prg[k] * bank)
      rom == IF Switching16(r) THEN Prg(Prg(bus, 4 * B, bank, 1), 6 * B, bank, 2)
             ELSE Prg(bus, 4 * B, 2 * bank, 1)
  IN  IF wram_size = 0 THEN rom ELSE memory_map(rom, wram, 3 * B, B, 0)

RemapPpu(bus, r, m) ==
  LET nt == B \div 8
      bank == B \div 2
      Nt(b, q) == memory_map(b, vram, B + (q - 1) * nt, nt, m.nt[q] * nt)
      Chr(b, from, size, k) == memory_map(b, chrom, from, size, m.chr[k] * bank)
      names == Nt(Nt(Nt(Nt(bus, 1), 2), 3), 4)
  IN  IF Switching4(r) THEN Chr(Chr(names, 0, bank, 1), bank, bank, 2)
      ELSE Chr(names, 0, B, 1)

-----------------------------------------------------------------------------
(* The sizes of an MMC1's ROMs in banks, for Sxrom                         *)
CartOfHeader == [prg |-> prgrom_size \div (2 * B), chr |-> chrom_size \div (B \div 2)]

MapInit ==
  /\ header \in Headers /\ phase = "file"
  /\ cpu = EmptyBus(8 * K) /\ ppu = EmptyBus(8 * K)
  /\ Init
  /\ cart = IF Accepted /\ mapper = 1 THEN CartOfHeader ELSE CHOOSE c \in Carts : TRUE

(* load_rom.  A cartridge that is refused has its NES set up already.      *)
Load ==
  /\ phase = "file"
  /\ phase' = IF Accepted THEN "loaded" ELSE "refused"
  /\ CASE header = Hawknest -> cpu' = HawknestMap /\ ppu' = ppu
       [] header # Hawknest /\ header.unsupported -> UNCHANGED <<cpu, ppu>>
       [] header # Hawknest /\ ~header.unsupported /\ ~Accepted -> cpu' = CommonMap /\ ppu' = ppu
       [] Accepted /\ mapper = 0 -> cpu' = NromCpu /\ ppu' = NromPpu
       [] Accepted /\ mapper = 1 -> cpu' = SxromCpu /\ ppu' = ppu
  /\ UNCHANGED <<vars, header>>

(* The reset that main issues: an SxROM cartridge maps its memories now.   *)
(* Its registers are as Sxrom's Init has them.                             *)
PowerOn ==
  /\ phase = "loaded" /\ phase' = "running"
  /\ IF mapper = 1
     THEN cpu' = RemapCpu(cpu, reg, map) /\ ppu' = RemapPpu(ppu, reg, map)
     ELSE UNCHANGED <<cpu, ppu>>
  /\ UNCHANGED <<vars, header>>

Execute ==
  /\ phase = "running" /\ mapper = 1
  /\ Instruction /\ UNCHANGED <<header, phase, cpu, ppu>>

(* A write through the bus to a page of the upper half: membus_write finds *)
(* the cartridge's handler, reg_write the register; then the maps follow.  *)
(* Without a handler, on an NROM, the write goes nowhere.                  *)
RegisterOf(entry) == Landing(entry, 0) \div B

Write(p) ==
  /\ phase = "running" /\ cpu.write[p].kind = "handler"
  /\ \/ \E b \in {0, 1} : Writing(b) /\ WriteBit(RegisterOf(cpu.write[p]), b)
     \/ WriteReset
  /\ cpu' = RemapCpu(cpu, reg', map') /\ ppu' = RemapPpu(ppu, reg', map')
  /\ UNCHANGED <<header, phase>>

MapNext == Load \/ PowerOn \/ Execute \/ \E p \in WritePages : Write(p)

MapSpec == MapInit /\ [][MapNext]_bvars

-----------------------------------------------------------------------------
SizeOf(name) ==
  CASE name = "ram" -> ram.size [] name = "wram" -> wram.size [] name = "vram" -> vram.size
    [] name = "prgrom" -> prgrom.size [] name = "chrom" -> chrom.size
    [] name = "cartrom" -> cartrom.size

(* Whatever the file's header and the registers hold, no page of either    *)
(* bus shows memory beyond the end of the memory it is mapped to           *)
(* (memory.c:29, an assertion that is compiled out).                       *)
PagesInBounds ==
  \A bus \in {cpu, ppu} : \A p \in DOMAIN bus.read : \A entry \in {bus.read[p], bus.write[p]} :
    entry.kind = "data" => entry.at >= 0 /\ entry.at + PageSize <= SizeOf(entry.obj)

(* The two tables of a bus agree: a page whose writes go to a memory reads *)
(* the same place, and a ROM is never written -- however often pages are   *)
(* mapped anew, and though a ROM's mapping leaves a page's writes to what  *)
(* was there before.                                                       *)
Coherent ==
  \A bus \in {cpu, ppu} : \A p \in DOMAIN bus.read :
    bus.write[p].kind = "data" => /\ bus.read[p] = bus.write[p]
                                  /\ bus.write[p].obj \in {"ram", "wram", "vram"}

(* The pages of a running SxROM show its mapper's windows, every page of   *)
(* them, and a write to any page above 0x8000 reaches the register of its  *)
(* quarter, after any history of mappings.                                 *)
SxromMapped ==
  /\ \A p \in (4 * K)..(8 * K - 1) :
       LET n == p - 4 * K
       IN  /\ cpu.read[p] = Data("prgrom", map.prg[n \div (2 * K) + 1] * 2 * B
                                             + (n % (2 * K)) * PageSize)
           /\ cpu.write[p].obj = "cart" /\ RegisterOf(cpu.write[p]) = n \div K
  /\ \A p \in 0..(K - 1) :
       ppu.read[p] = Data("chrom", map.chr[p \div (K \div 2) + 1] * (B \div 2)
                                    + (p % (K \div 2)) * PageSize)
  /\ \A p \in K..((3 * K) \div 2 - 1) :
       ppu.read[p] = Data("vram", map.nt[(p - K) \div (K \div 8) + 1] * (B \div 8)
                                   + (p % (K \div 8)) * PageSize)

(* The windows of an NROM are full: its PRG ROM repeats up to the last     *)
(* page, where the reset vector is, and so does work RAM whose size is a   *)
(* whole number of pages that divides the window.  For other sizes an      *)
(* iNES 2 header can name (0x80, or a sum of two) pages stay unmapped.     *)
NromMapped ==
  /\ \A p \in (4 * K)..(8 * K - 1) :
       cpu.read[p] = Data("prgrom", ((p - 4 * K) * PageSize) % prgrom_size)
  /\ wram_size # 0 /\ wram_size % PageSize = 0 /\ B % wram_size = 0 =>
       \A p \in (3 * K)..(4 * K - 1) :
         cpu.write[p] = Data("wram", ((p - 3 * K) * PageSize) % wram_size)

(* A program finds the cartridge its header describes: every page of the   *)
(* cartridge's windows shows what the mapper promises.                     *)
CartridgeMapped ==
  phase = "running" => /\ mapper = 0 => NromMapped
                       /\ mapper = 1 => SxromMapped

(* The four nametables of a mirroring: a vertical one repeats downwards, a *)
(* horizontal one repeats to the right, a single screen everywhere; and    *)
(* what is not repeated is not shared.  NROM's comes from the file, an     *)
(* SxROM's from its register.                                              *)
Repeats(a, b) == \A i \in 0..(K \div 8 - 1) :
  LET page(q) == ppu.read[K + q * (K \div 8) + i] IN page(a) = page(b)
Apart(a, b) == \A i \in 0..(K \div 8 - 1), j \in 0..(K \div 8 - 1) :
  ppu.read[K + a * (K \div 8) + i] # ppu.read[K + b * (K \div 8) + j]
Mirroring ==
  CASE mapper = 0 -> IF header.mirroring = 1 THEN "vertical" ELSE "horizontal"
    [] mapper = 1 -> <<"single", "single", "vertical", "horizontal">>[mirroring(reg) + 1]

NametableGeometry ==
  phase = "running" /\ header # Hawknest =>
    CASE Mirroring = "vertical" -> Repeats(0, 2) /\ Repeats(1, 3) /\ Apart(0, 1)
      [] Mirroring = "horizontal" -> Repeats(0, 1) /\ Repeats(2, 3) /\ Apart(0, 2)
      [] Mirroring = "single" -> Repeats(0, 1) /\ Repeats(0, 2) /\ Repeats(0, 3)
=============================================================================
