------------------------------ MODULE Lifetime ------------------------------
(***************************************************************************)
(* Who keeps which object of the emulated system alive, from main() to its *)
(* end: the reference counts of emu/rc.c, the mappings of emu/membus.c,    *)
(* the weak list of emu/reset_manager.c, and the functions that build the  *)
(* system, map it, reset it and release it, with every failure they handle *)
(* (emu/main.c, ines.c, nes/nrom.c, sxrom.c, io_reg.c, ppu.c,              *)
(* mos6502-common.c, timekeeper.c, memory.c).                              *)
(*                                                                         *)
(* todo is the stack of the sequential program: the calls that are still   *)
(* to be made, the next one first.  A function replaces itself with what   *)
(* it calls; a "goto" to its clean-up leaves the calls in between out.  A  *)
(* deinitializer runs in the middle of the rc_release that brought a count *)
(* to 0, in front of everything else.                                      *)
(*                                                                         *)
(* A slot stands for all the pages of a bus that are mapped together in    *)
(* one direction.                                                          *)
(***************************************************************************)
EXTENDS Integers, Sequences, FiniteSets, TLC

VARIABLES
  todo,
  strong, weak, \* the counts in front of every object
  state,        \* whether its memory is allocated: "none", "here", "freed"
  slots,        \* the obj of a mapping
  own,          \* the strong references in the fields of an object; in a
                \* local of inesrom_load; and those that are in no variable
  devices,      \* the reset manager's list of weak references
  ret,          \* "fail" once a function returned an error
  info          \* the ROM: its mapper, and the memories it asks for

vars == <<todo, strong, weak, state, slots, own, devices, ret, info>>

Nobody     == "nobody"
Objects    == {"rm", "tk", "cpu", "bus", "rom", "ram", "io", "ppu", "vbus", "wram",
               "prg", "chr", "chram", "vram", "cart"}
Owners     == Objects \cup {"inesrom_load", "lost"}
CpuSlots   == <<"rom.r", "ram.r", "ram.w", "ppu.r", "ppu.w", "io.r", "io.w",
                "wram.r", "wram.w", "prg.r", "cart.w">>
PpuSlots   == <<"chr.r", "nt.r", "nt.w">>
Elems(s)   == {s[k] : k \in DOMAIN s}
Slots      == Elems(CpuSlots) \cup Elems(PpuSlots)
Optional   == <<"wram", "prg", "chr", "chram">>
Writeable  == {"wram", "chram", "vram"}
Infos      == [mapper : {"nrom", "sxrom", "other"}, mem : SUBSET Elems(Optional)]

(* The members of seq that are in S, each as a call of f                   *)
Each(f, seq, S) ==
  LET kept == SelectSeq(seq, LAMBDA o : o \in S)
  IN  [k \in DOMAIN kept |-> <<f, kept[k]>>]

Adding(count, more) ==
  [o \in Objects |-> count[o] + IF o \in DOMAIN more THEN more[o] ELSE 0]

-----------------------------------------------------------------------------
Init ==
  /\ todo = <<<<"main">>>>
  /\ strong = [o \in Objects |-> 0] /\ weak = [o \in Objects |-> 0]
  /\ state = [o \in Objects |-> "none"]
  /\ slots = [s \in Slots |-> Nobody]
  /\ own = [o \in Owners |-> {}]
  /\ devices = <<>>
  /\ ret = "ok"
  /\ info \in Infos

Calls(f) == todo # <<>> /\ Head(todo) = <<f>>
Push(calls) == todo' = calls \o Tail(todo)
Fail(calls) == ret' = "fail" /\ Push(calls)

(* New references: to objects that rc_alloc makes now, or by rc_retain.    *)
Refer(more) ==
  /\ strong' = Adding(strong, more)
  /\ state' = [o \in Objects |->
                 IF o \in DOMAIN more /\ state[o] = "none" THEN "here" ELSE state[o]]

(* reset_manager_add_device, of one device after the other                 *)
Register(devs) ==
  /\ devices' = devices \o devs
  /\ weak' = Adding(weak, [o \in Elems(devs) |-> 1])

-----------------------------------------------------------------------------
(* rc.c                                                                    *)

(* Mutants of the deinitializers: the PPU keeps its bus.                   *)
Mutant_DeinitPpuBus(o) ==
  CASE o = "bus" -> Each("clear", CpuSlots, Slots)
    [] o = "vbus" -> Each("clear", PpuSlots, Slots)
    [] o = "cpu" -> <<<<"release", "bus">>, <<"release", "tk">>>>
    [] o = "tk" -> Each("release", <<"ppu">>, own[o])
    [] o = "cart" -> Each("release", <<"prg", "chr", "vram", "wram">>, own[o])
    [] o = "rm" -> Each("weak_release", devices, Objects)
    [] OTHER -> <<>>

(* The deinitializers                                                      *)
Deinit(o) ==
  CASE o = "bus" -> Each("clear", CpuSlots, Slots)
    [] o = "vbus" -> Each("clear", PpuSlots, Slots)
    [] o = "cpu" -> <<<<"release", "bus">>, <<"release", "tk">>>>
    [] o = "tk" -> Each("release", <<"ppu">>, own[o])
    [] o = "ppu" -> <<<<"release", "vbus">>>>
    [] o = "cart" -> Each("release", <<"prg", "chr", "vram", "wram">>, own[o])
    [] o = "rm" -> Each("weak_release", devices, Objects)
    [] OTHER -> <<>>

Releases(o) == todo # <<>> /\ Head(todo) = <<"release", o>>

ReleaseOne(o) ==
  /\ Releases(o) /\ strong[o] # 1
  /\ strong' = [strong EXCEPT ![o] = @ - 1]
  /\ Push(<<>>)
  /\ UNCHANGED <<weak, state, slots, own, devices, ret, info>>

ReleaseLast(o) ==
  /\ Releases(o) /\ strong[o] = 1
  /\ strong' = [strong EXCEPT ![o] = 0]
  /\ Push(Deinit(o) \o <<<<"free", o>>>>)
  /\ own' = [own EXCEPT ![o] = {}]
  /\ devices' = IF o = "rm" THEN <<>> ELSE devices
  /\ UNCHANGED <<weak, state, slots, ret, info>>

(* Mutant: the weak references are forgotten.                              *)
Mutant_FreeWeak(o) ==
  /\ todo # <<>> /\ Head(todo) = <<"free", o>>
  /\ state' = [state EXCEPT ![o] = "freed"]
  /\ Push(<<>>)
  /\ UNCHANGED <<strong, weak, slots, own, devices, ret, info>>

(* After the deinitializer: free, unless there are weak references.        *)
Free(o) ==
  /\ todo # <<>> /\ Head(todo) = <<"free", o>>
  /\ state' = [state EXCEPT ![o] = IF weak[o] = 0 THEN "freed" ELSE @]
  /\ Push(<<>>)
  /\ UNCHANGED <<strong, weak, slots, own, devices, ret, info>>

WeakRelease(o) ==
  /\ todo # <<>> /\ Head(todo) = <<"weak_release", o>>
  /\ weak' = [weak EXCEPT ![o] = @ - 1]
  /\ state' = [state EXCEPT ![o] = IF strong[o] = 0 /\ weak'[o] = 0 THEN "freed" ELSE @]
  /\ Push(<<>>)
  /\ UNCHANGED <<strong, slots, own, devices, ret, info>>

-----------------------------------------------------------------------------
(* membus.c: membus_clear_page, and the four setters, which release the    *)
(* object of the mapping they replace before they retain the new one.      *)
Clear(s) ==
  /\ todo # <<>> /\ Head(todo) = <<"clear", s>>
  /\ Push(IF slots[s] = Nobody THEN <<>> ELSE <<<<"release", slots[s]>>>>)
  /\ slots' = [slots EXCEPT ![s] = Nobody]
  /\ UNCHANGED <<strong, weak, state, own, devices, ret, info>>

Replace(s, o) ==
  /\ todo # <<>> /\ Head(todo) = <<"set", s, o>>
  /\ slots[s] # Nobody
  /\ todo' = <<<<"release", slots[s]>>>> \o todo
  /\ slots' = [slots EXCEPT ![s] = Nobody]
  /\ UNCHANGED <<strong, weak, state, own, devices, ret, info>>

Install(s, o) ==
  /\ todo # <<>> /\ Head(todo) = <<"set", s, o>>
  /\ slots[s] = Nobody
  /\ Refer(o :> 1)
  /\ slots' = [slots EXCEPT ![s] = o]
  /\ Push(<<>>)
  /\ UNCHANGED <<weak, own, devices, ret, info>>

(* memory_map of a memory that is written to, and of one that is not; a    *)
(* device's two handlers                                                   *)
MapRw(o, r, w) == <<<<"set", r, o>>, <<"set", w, o>>>>
MapRo(o, r)    == <<<<"set", r, o>>>>

-----------------------------------------------------------------------------
(* main.c, mos6502-common.c, timekeeper.c                                  *)
Main ==
  /\ Calls("main")
  /\ Refer("rm" :> 1 @@ "tk" :> 1)
  /\ Register(<<"tk">>)
  /\ Push(<<<<"mos6502_new">>, <<"release", "tk">>, <<"release", "rm">>>>)
  /\ UNCHANGED <<slots, own, ret, info>>

(* ... and what main does with the CPU it returned                         *)
Mos6502New ==
  /\ Calls("mos6502_new")
  /\ Refer("cpu" :> 2 @@ "bus" :> 2 @@ "tk" :> 1)
  /\ own' = [own EXCEPT !["cpu"] = {"bus", "tk"}]
  /\ Register(<<"bus">>)
  /\ Push(<<<<"release", "bus">>, <<"release", "cpu">>,
            <<"load_rom">>, <<"power_on">>, <<"release", "cpu">>>>)
  /\ UNCHANGED <<slots, ret, info>>

LoadRom ==
  /\ Calls("load_rom")
  /\ \/ Fail(<<>>)
     \/ \E f \in {"hawknest_rom_load", "inesrom_load"} : Push(<<<<f>>>>) /\ UNCHANGED ret
  /\ UNCHANGED <<strong, weak, state, slots, own, devices, info>>

HawknestRomLoad ==
  /\ Calls("hawknest_rom_load")
  /\ Refer("rom" :> 1)
  /\ \/ Fail(<<<<"release", "rom">>>>)
     \/ /\ Push(MapRo("rom", "rom.r") \o <<<<"hawknest_ram">>, <<"release", "rom">>>>)
        /\ UNCHANGED ret
  /\ UNCHANGED <<weak, slots, own, devices, info>>

(* The RAM of a Hawknest system, and of an NES                             *)
NewRam(next) ==
  /\ Refer("ram" :> 1)
  /\ Register(<<"ram">>)
  /\ Push(MapRw("ram", "ram.r", "ram.w") \o next \o <<<<"release", "ram">>>>)
  /\ UNCHANGED <<slots, own, ret, info>>

HawknestRam == Calls("hawknest_ram") /\ NewRam(<<>>)

-----------------------------------------------------------------------------
(* ines.c: the header may be refused, before anything is built.            *)
InesromLoad ==
  /\ Calls("inesrom_load")
  /\ \/ Fail(<<>>)
     \/ Push(<<<<"setup_common">>, <<"memories">>>>) /\ UNCHANGED ret
  /\ UNCHANGED <<strong, weak, state, slots, own, devices, info>>

SetupCommon == Calls("setup_common") /\ NewRam(<<<<"io_reg_setup">>>>)

(* Mutant: io_reg_setup keeps the reference io_reg_new returned.           *)
Mutant_IoRegSetupKeeps ==
  /\ Calls("io_reg_setup")
  /\ Register(<<"io">>)
  /\ \/ Refer("io" :> 1) /\ Fail(<<<<"release", "io">>>>)
     \/ /\ Refer("io" :> 2)
        /\ Push(<<<<"release", "io">>>> \o MapRw("io", "io.r", "io.w")
                  \o <<<<"ppu_new">>>>)
        /\ UNCHANGED ret
  /\ UNCHANGED <<slots, own, info>>

(* io_reg_new fails when the controller scheme cannot be read; what        *)
(* setup_common does next depends on it.                                   *)
IoRegSetup ==
  /\ Calls("io_reg_setup")
  /\ Register(<<"io">>)
  /\ \/ Refer("io" :> 1) /\ Fail(<<<<"release", "io">>>>)
     \/ /\ Refer("io" :> 2)
        /\ Push(<<<<"release", "io">>>> \o MapRw("io", "io.r", "io.w")
                  \o <<<<"release", "io">>, <<"ppu_new">>>>)
        /\ UNCHANGED ret
  /\ UNCHANGED <<slots, own, info>>

(* ppu_new: the timer takes a reference of its own.  When SDL's video      *)
(* cannot be initialised, the one of ppu_new is lost; when the window, the *)
(* renderer or the texture fails, it is released.                          *)
PpuNew ==
  /\ Calls("ppu_new")
  /\ Refer("ppu" :> 2 @@ "vbus" :> 1)
  /\ Register(<<"ppu", "vbus">>)
  /\ \/ Fail(<<>>) /\ own' = [own EXCEPT !["tk"] = {"ppu"}, !["ppu"] = {"vbus"},
                                         !["lost"] = {"ppu"}]
     \/ /\ own' = [own EXCEPT !["tk"] = {"ppu"}, !["ppu"] = {"vbus"}]
        /\ \/ Fail(<<<<"release", "ppu">>>>)
           \/ /\ Push(MapRw("ppu", "ppu.r", "ppu.w") \o <<<<"palette">>, <<"release", "ppu">>>>)
              /\ UNCHANGED ret
  /\ UNCHANGED <<slots, info>>

(* The palette is read; the PPU is returned to inesrom_load.               *)
Palette ==
  /\ Calls("palette")
  /\ \/ Fail(<<>>) /\ UNCHANGED <<strong, state, own>>
     \/ /\ Refer("ppu" :> 1)
        /\ own' = [own EXCEPT !["inesrom_load"] = {"ppu"}]
        /\ Push(<<>>)
        /\ UNCHANGED ret
  /\ UNCHANGED <<weak, slots, devices, info>>

(* The memories, in this order, and their releases in the opposite one     *)
Memories ==
  /\ Calls("memories") /\ ret = "ok"
  /\ Refer([o \in info.mem \cup {"vram"} |-> 1])
  /\ Register(SelectSeq(<<"wram", "chram", "vram">>, LAMBDA o : o \in info.mem \cup {"vram"}))
  /\ Push(<<<<"mapper">>, <<"release", "vram">>>>
            \o Each("release", <<"chram", "chr", "prg", "wram">>, info.mem)
            \o <<<<"release", "ppu">>>>)
  /\ own' = [own EXCEPT !["inesrom_load"] = {}]
  /\ UNCHANGED <<slots, ret, info>>

NoPpu ==
  /\ Calls("memories") /\ ret = "fail"
  /\ Push(<<>>)
  /\ UNCHANGED <<strong, weak, state, slots, own, devices, ret, info>>

(* The contents cannot be read, or the mapper is not supported, or refuses *)
(* the sizes.                                                              *)
MapperFails ==
  /\ Calls("mapper")
  /\ Fail(<<>>)
  /\ UNCHANGED <<strong, weak, state, slots, own, devices, info>>

Suits == {"prg", "chr"} \subseteq info.mem /\ "chram" \notin info.mem

(* nrom_setup.  A WRAM of less than a page maps no page.                   *)
NromSetup ==
  /\ Calls("mapper") /\ info.mapper = "nrom" /\ Suits
  /\ \E wram \in {<<>>} \cup {MapRw(o, "wram.r", "wram.w") : o \in info.mem \cap {"wram"}} :
       Push(wram \o MapRo("prg", "prg.r") \o MapRo("chr", "chr.r") \o MapRw("vram", "nt.r", "nt.w"))
  /\ UNCHANGED <<strong, weak, state, slots, own, devices, ret, info>>

(* sxrom_setup: the cartridge is kept by its write handlers only.          *)
SxromSetup ==
  /\ Calls("mapper") /\ info.mapper = "sxrom" /\ Suits
  /\ Refer([o \in info.mem \cup {"vram", "cart"} |-> 1])
  /\ own' = [own EXCEPT !["cart"] = info.mem \cup {"vram"}]
  /\ Register(<<"cart">>)
  /\ Push(<<<<"set", "cart.w", "cart">>, <<"release", "cart">>>>)
  /\ UNCHANGED <<slots, ret, info>>

-----------------------------------------------------------------------------
(* sxrom.c's remap                                                         *)
Remap ==
  MapRw("vram", "nt.r", "nt.w") \o MapRo("prg", "prg.r") \o MapRo("chr", "chr.r")
    \o IF "wram" \in own["cart"] THEN MapRw("wram", "wram.r", "wram.w") ELSE <<>>

(* main: a system that could be loaded is reset, device by device, then    *)
(* the CPU, which reads its vector through the bus, and the shell runs.    *)
PowerOn ==
  /\ Calls("power_on")
  /\ Push(IF ret = "ok"
          THEN Each("reset", devices, Objects)
                 \o <<<<"mos6502_reset">>, <<"run_shell">>>>
          ELSE <<>>)
  /\ UNCHANGED <<strong, weak, state, slots, own, devices, ret, info>>

(* Mutant: the cartridge's reset does not map its banks.                   *)
Mutant_ResetDeviceUnmapped(o) ==
  /\ todo # <<>> /\ Head(todo) = <<"reset", o>>
  /\ IF strong[o] = 0
     THEN /\ Push(<<<<"weak_release", o>>>>)
          /\ devices' = [k \in DOMAIN devices |-> IF devices[k] = o THEN Nobody ELSE devices[k]]
     ELSE Push(<<>>) /\ UNCHANGED devices
  /\ UNCHANGED <<strong, weak, state, slots, own, ret, info>>

(* reset_manager_issue_reset, for one device: a dead one is dropped, a     *)
(* cartridge maps its banks, others touch nobody else.                     *)
ResetDevice(o) ==
  /\ todo # <<>> /\ Head(todo) = <<"reset", o>>
  /\ IF strong[o] = 0
     THEN /\ Push(<<<<"weak_release", o>>>>)
          /\ devices' = [k \in DOMAIN devices |-> IF devices[k] = o THEN Nobody ELSE devices[k]]
     ELSE /\ Push(IF o = "cart" THEN Remap ELSE <<>>)
          /\ UNCHANGED devices
  /\ UNCHANGED <<strong, weak, state, slots, own, ret, info>>

ResetCpu ==
  /\ Calls("mos6502_reset")
  /\ Push(<<>>)
  /\ UNCHANGED <<strong, weak, state, slots, own, devices, ret, info>>

(* The guest writes to the cartridge's port, any number of times, ...      *)
RegWrite ==
  /\ Calls("run_shell") /\ slots["cart.w"] = "cart"
  /\ todo' = Remap \o todo
  /\ UNCHANGED <<strong, weak, state, slots, own, devices, ret, info>>

(* ... until the shell returns.                                            *)
ShellReturns ==
  /\ Calls("run_shell")
  /\ Push(<<>>)
  /\ UNCHANGED <<strong, weak, state, slots, own, devices, ret, info>>

-----------------------------------------------------------------------------
Counting ==
  \/ \E o \in Objects : ReleaseOne(o) \/ ReleaseLast(o) \/ Free(o) \/ WeakRelease(o)
  \/ \E s \in Slots : Clear(s) \/ \E o \in Objects : Replace(s, o) \/ Install(s, o)

Building ==
  \/ Main \/ Mos6502New \/ LoadRom \/ HawknestRomLoad \/ HawknestRam
  \/ InesromLoad \/ SetupCommon \/ IoRegSetup \/ PpuNew \/ Palette
  \/ Memories \/ NoPpu \/ MapperFails \/ NromSetup \/ SxromSetup

Using ==
  \/ PowerOn \/ ResetCpu \/ RegWrite \/ ShellReturns
  \/ \E o \in Objects : ResetDevice(o)

Next == Counting \/ Building \/ Using

Spec == Init /\ [][Next]_vars

-----------------------------------------------------------------------------
TypeOK ==
  /\ strong \in [Objects -> Nat] /\ weak \in [Objects -> Nat]
  /\ state \in [Objects -> {"none", "here", "freed"}]
  /\ slots \in [Slots -> Objects \cup {Nobody}]
  /\ own \in [Owners -> SUBSET Objects]
  /\ Elems(devices) \subseteq Objects \cup {Nobody}
  /\ ret \in {"ok", "fail"} /\ info \in Infos

Pending(call) == {k \in DOMAIN todo : todo[k] = call}

(* Every count is the number of references there are: mappings, fields,    *)
(* and locals whose release is still to come -- at every call, on every    *)
(* path through the failures.                                              *)
Accounting ==
  \A o \in Objects :
    /\ strong[o] = Cardinality({s \in Slots : slots[s] = o})
                     + Cardinality({p \in Owners : o \in own[p]})
                     + Cardinality(Pending(<<"release", o>>))
    /\ weak[o] = Cardinality({k \in DOMAIN devices : devices[k] = o})
                   + Cardinality(Pending(<<"weak_release", o>>))

(* Nothing refers to freed memory, and nothing is about to retain an       *)
(* object whose deinitializer has run: the assertions of rc.c, which are   *)
(* compiled out, and the unowned pointers to the CPU and the PPU.          *)
NoDangling ==
  /\ \A o \in Objects : state[o] = "freed" =>
       /\ strong[o] = 0 /\ weak[o] = 0
       /\ \A k \in DOMAIN todo : \A j \in 2..Len(todo[k]) : todo[k][j] # o
  /\ \A k \in DOMAIN todo : todo[k][1] = "set" => strong[todo[k][3]] > 0
  /\ Calls("run_shell") =>
       /\ strong["cpu"] > 0
       /\ slots["cart.w"] # Nobody => strong["ppu"] > 0 /\ slots["nt.r"] = "vram"

(* At the end nothing is left, whatever failed -- except the PPU and its   *)
(* bus when SDL's video could not be initialised.                          *)
CleanExit ==
  todo = <<>> =>
    {o \in Objects : state[o] = "here"} = IF own["lost"] = {} THEN {} ELSE {"ppu", "vbus"}

(* The CPU's reset vector is read from a ROM: each cartridge has mapped    *)
(* its banks by then, some as they were built, some by their reset.        *)
VectorMapped ==
  Calls("mos6502_reset") => slots["rom.r"] = "rom" \/ slots["prg.r"] = "prg"
=============================================================================
