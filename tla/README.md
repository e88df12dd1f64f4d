# A formal model of the MOS 6502 / NES emulator

TLA+ modules for the emulator in `src/emu`, the TLC configurations that check
them on small instances, and TLAPS proofs about them. Definitions are
translated from the C source; `PROJECT.json` maps each of them to its lines
and lists, for each property, a mutated definition (`Mutant_...`, next to the
original) under which TLC finds the property violated.

The emulator is one sequential program. What makes it hard is not threads but
code that runs in the middle of other code: a timer's callback inside the
clock's sweep, a guest's register access between two dots of the picture, a
memory read inside an OAMDMA copy, a deinitializer inside a release, a SIGINT
handler between two instructions.

## 1. Inventory

| Component (source) | State | Operations | What makes it correct |
|---|---|---|---|
| Master clock (`timekeeper.c`) | `clk_cyclenum`, the timers' countdowns, `t_ref`, `t_pause` | `advance_clk` (recursive), `add_timer`, `pause`, `resume`, `sync`, `reset` | no timer drifts, no cycle of a request is lost or repeated, every call returns, time spent at the prompt is not emulated |
| CPU (`mos6502/mos6502.c`, `mos6502-common.c`) | a, x, y, sp, pc, p, `intr_status` | `mos6502_step` and its table of handlers, `reset`, `raise_irq`, `raise_nmi` | programs compute what they should; flags, lengths, branches and the stack compose |
| Paravirtual calls (`mos6502/vmcall.c`) | the guest's registers and memory | `args`, `exit`, `open`, `close`, `read`, `write`, `break` | arguments and results go to the right registers and cells |
| PPU (`nes/ppu.c`) | cursor, status flags, `ctrl`, `mask`, scroll registers `t`/`v`, write toggle; latches and shift registers of background and sprites, object memory | `step` (one dot), register reads and writes, `palette_load`, `new` | a frame comes again and again and never drifts against the program, flags are set between their dots only and each vblank is seen once, each pixel is the one scrolled to, sprites show on their lines |
| Register page (`nes/io_reg.c`) | strobe, two shift registers, OAMDMA | strobe write, port read, DMA | a poll reads the latched buttons, a copy is whole, starts anywhere, takes its cycles |
| Memory bus (`membus.c`) | mappings per page and direction | set, clear, read, write, open bus | a mapping keeps its object alive, the tables for reads and writes agree |
| Memories (`memory.c`) | contents | map, mirror, reset | no page shows memory beyond its end |
| Reset manager (`reset_manager.c`) | list of weak references | add device, issue reset, clear | dead devices are dropped, living ones reset |
| Reference counts (`rc.c`) | strong and weak count per object | new, retain, release, weak retain/release | every count equals the references there are |
| MMC1 and SxROM (`nes/mmc1.c`, `nes/sxrom.c`) | serial shift register, four registers, the windows | register write, reset, `remap` | five writes deliver five bits, none is lost; the pages show the windows the registers ask for, and a page's writes reach its register |
| NROM (`nes/nrom.c`) | none | setup | its windows are full, its nametables shared as the file says |
| iNES loader (`ines.c`), `main.c` | the objects under construction | load, power-on, release | a program finds the cartridge its header describes; nothing leaks or dangles whatever fails |
| Shell (`shell.c`) | breakpoints, `sigint_received`, loop counters | commands, step and continue loops | a signal stops the guest, counts and breakpoints are exact |
| File helpers, macros, guest runtime, build files | - | - | not modelled, see section 6 |

**Interactions.** `mos6502_step` hands an instruction's cycles to
`timekeeper_advance_clk`, which calls the PPU's `step` from its sweep; the PPU
calls `raise_nmi`. All reads and writes of the CPU go through the bus to
memories, the PPU's registers, the register page or a cartridge, and OAMDMA
reads through the same bus. Devices register with the reset manager, which
`main` calls before the CPU's reset reads its vector. The shell calls
`mos6502_step` in its loops and pauses the clock around them.

**The hazards** of this code, each at its line, with the properties that
would catch it going wrong, are listed in `PROJECT.json`. Those that no
property covers say why.

## 2. Modules and the code

### The clock: `TimerService`, `Timekeeper`, `TimekeeperProofs`
`Timekeeper` is `timekeeper_advance_clk` step by step. `phase` and `pos` are
where the function stands: on entry (`mincount` is chosen), in the sweep at a
timer, in that timer's callback, at its end where it recurses or returns. A
callback is a step of its own because it may look at the clock and at other
countdowns. `fires` counts callbacks and is a history variable. `TimerService`
is what a device expects: time never passes the moment a timer is due, and a
due timer is served once before time moves on. `ServesTimers` is the
refinement: the clock implements it, with fairness.

### The CPU: `Mos6502Isa`, `Vmcall`, `Mos6502`, `CpuStackProofs`
`Mos6502Isa` has the dispatch table and what the arithmetic handlers compute,
with each of their deviations (section 5). `Mos6502` has one action for each
family of handlers; `Source` and `Target` are its addressing modes, `Op`,
`Mode` and `Length` come from the table. `mem` holds the cells that differ
from untouched RAM. `elapsed` is what the step hands to the clock. The
memory map is Hawknest's: RAM below 32768, ROM above it. `Vmcall` has the
paravirtual calls; what the host's file calls return is a parameter. The
proofs about the CPU itself are the first and the last part of `CpuStackProofs`.

### The stack: `BoundedStack`, `Mos6502Stack`, `CpuStack`, and their proofs
`Mos6502Stack` has the instructions that touch page one (PHA/PHP, PLA/PLP,
JSR, RTS, BRK, RTI, TXS, stores) over a page of any size and any bytes, so
that TLC can explore every sequence and TLAPS can prove about all pages.
JSR and RTS address `0x100|S` with an offset of one in 16 bits while S wraps
in 8: at the ends of the page bytes go elsewhere, and `ok` becomes false. BRK
and RTI use other pages in the code. `BoundedStack` is what a guest may
expect while it keeps the discipline.

`CpuStack` is the CPU of `Mos6502` seen through that page. `page` is the guest's
memory from `0xFF` to `0x201` (the page and the cells that a JSR or RTS at its
ends reaches), `Top` is S, and `Page` is `Mos6502Stack` with these two for its
page and its S. The history variables see registers only: what PHA, PHP and JSR
are about to save, what PLA, PLP and RTS have restored, the S that TXS loaded.
Every other instruction, interrupt request and paravirtual call is one case
(`Others`): it keeps the discipline unless it writes to a byte in use. BRK and RTI end it.

### The picture unit: `Ppu`, `Picture`, `PpuProofs`, `PictureProofs`
`Step` is one call of `step()` that has reached a dot: the cursor, the scroll
increments and copies, vblank and its NMI, the delayed sprite flags,
presentation. `ReadStatus`, `WriteCtrl`, `WriteMask`, `WriteScroll`,
`WriteAddr` and `AccessData` are a guest's accesses between any two dots.
What sprite evaluation and drawing find is chosen by `\E` here. The geometry is a
parameter. `events` is what the last step told the CPU and the screen (an NMI,
a presentation); `quiet` is a history variable: how long the guest has left
the scroll alone, from the last visible line through the vertical copy.

`Picture` adds the data path to it and decides what `Ppu` leaves open: the four
bytes of a tile fetched at every other dot (`FetchBackground`), the shift
registers and their loading (`ShiftAndLoad`), sprite evaluation for the next
line with its overflow (`EvaluateSprites`), the sprites' fetches, their
x-counters and shift registers (`FetchAndDrawSprites`) and the pixel
(`DrawPixel`). A byte is represented by the place it was read from, so
`shown`, the pixel of the last dot, says which cell, row, bit and palette
quadrant it came from, and a property can compare that with the place it
should have come from. A pixel has a bit in each of two planes and is opaque if
one of them is 1. `BgBit` and `SpriteBit` are constants that say which bits are,
by place, so the properties and proofs hold for any bitmaps. `DrawPixel` takes
the first arrived sprite whose pixel is opaque (`OnTop`), then asks the switches
of both layers and of their leftmost columns (`DrawnHere`), then sprite 0's hit.
Sprites are of one tile or, if PPUCTRL says so, of two (`Height`, `SpriteRow`). `PictureStep` is a step of `Ppu` joined with these, and
`StepAllowed` says that `Ppu` always allows one.

### One clock: `Machine`
`Machine` puts the CPU's instructions and OAMDMA on the clock of the picture:
`Execute` makes its accesses and then asks for its cycles, `StartDma`,
`Align`, `Get`, `Put` and `EndDma` ask for theirs between the accesses of the
loop, and `Dot` hands every cycle out as three of `Ppu`'s steps. That the
clock does this is what `ServesTimers` shows; a request is the number of dots
still owed. A copy of the PPU's own page reads its registers, with what
such a read does. `now`, `polled` and `seen` are history variables. Its
proofs are the last part of `PpuProofs`.

### The register page: `IoReg`, `IoRegProofs`
The strobe, the ports, the keys that change between any two steps, and the
DMA loop cycle by cycle (`Align`, `Get`, `Put`), including the copy that reads
the register page itself and so clocks the controllers. `latched`, `got`,
`clean`, `elapsed` and `startOdd` are history variables.

### The mapper: `SerialPort`, `Sxrom`
`Sxrom` composes `mmc1_reg_write` (the shift register with its sentinel, the
filter for consecutive writes) with sxrom.c's `remap`, which runs after every
write. `SerialPort` is what a program expects of the port, and
`ImplementsPort` the refinement. `gap` is the number of CPU cycles since the last
bit write, up to 3. Its proofs are the first part of `MemoryMapProofs`.

### Memory maps: `Membus`, `MemoryMap`, `MemoryMapProofs`
`Membus` is the bus's two tables by page and the page arithmetic of
`memory_map` and `memory_map_mirroring`. `MemoryMap` goes from a file's header
to the pages: `inesrom_load`'s sizes for both versions of the format, what the
two mappers refuse, the map common to all systems, NROM's mirrors, Hawknest's
map, and SxROM's `remap` after power-on and after each write. A program's
write goes through the bus: the entry of its page gives the register
(`RegisterOf`), `Sxrom`'s `WriteBit` or `WriteReset` is the mapper's half of
the step, and the pages are mapped anew in the same step.

### The shell: `Shell`, `ShellProofs`
The prompt, `cmd_step` and `cmd_cont` as `LoopTest`, `Execute` and `Stop`,
breakpoints, the SIGINT handler and a tick of the millisecond counter between
any two steps. The guest is a relation between program counters. Commands
that only show or poke memory are one action. `asked`, `executed`, `late` and
`ran` are history variables.

### Construction and release: `Lifetime`
`main`, the two loaders, the constructors with every failure they handle, the
mappings, the reset list and the counts. `todo` is the stack of the
sequential program: a call is replaced by the calls it makes, a `goto` leaves
the ones in between out, and a deinitializer goes in front of everything
else. `info`, the ROM's mapper and the memories its header asks for, is
chosen when the program starts.

## 3. Runs

| Run | Instance | What it asks |
|---|---|---|
| `timekeeper` | three timers with periods 2, 3, 4; requests 1, 2, 5, 7; clock up to 40 | exact charges, countdowns in range, no cycle lost, every call returns, `TimerService` |
| `cpu` | 94 ROM images. 79 that compute: additions of 24 bits, counting loops, products, comparisons, parities, a table copy, nested calls, RTI, BRK, five paravirtual calls. 15 about the stack: calls mixed with PHA and PHP, S run off the end of the page from 0, 1, 2 and 5, stores into the page followed by too many pulls, BRK, RTI, a paravirtual call. Interrupts at any point | what a guest has computed when it halts and where S is then, that it halts, and the stack it has on the whole CPU for as long as it keeps the discipline |
| `stack` | page of 4 bytes, two values | every sequence of stack instructions against `BoundedStack` |
| `machine` | a frame of 1 visible line, vblank on line 2, pre-render on line 8, 11 dots; 3 dots a cycle, instructions of 2 and 3 cycles, copies of 8 bytes of RAM or of the PPU's page; polls, PPUCTRL and PPUMASK writes and PPUDATA accesses of a copy anywhere | vblank's window, the picture on time, each vblank seen once, frames for ever, and that `Ppu`'s fairness follows |
| `picture` | 6 visible lines of 24 pixels, 59 dots; 4 sprites, two to a line; two images of object memory, sprites of one tile and two, two scroll positions, an address; everything drawn, nothing, and both layers with either left column off; three accesses | what each pixel of background and sprites is, sprite 0's hit, the scroll position, flags on their line |
| `shell` | 3 program counters with a loop and a branch, step counts 0, 1, 3, a counter that wraps at 3 | signals, counts, breakpoints, the clock at the prompt |
| `io_reg` | 2 buttons, 3 bytes of object memory, ports at 1 and 2, two states of the keys, at most 3 reads in a poll | polls, DMA timing, whole copies, copies end |
| `memory_map` | pages of 1K; 47 files: NROM of both sizes and mirrorings with every size of work RAM, two SxROMs of 6/10 and 16/32 banks, Hawknest, refused files; values 0, 9, 14, 31 written to four pages | pages in bounds, tables that agree, the windows and nametables a program sees, no write lost, `SerialPort` |
| `lifetime` | the system as it is, both loaders, all mappers, memories and failures | counts, dangling references, leaks, the reset vector |
| `vmcall_pc`, `rol_length`, `strobe` | as `cpu` with three images, and as `io_reg` | a comment of the code that the code contradicts (section 5) |

### Why the bounds are enough
- **timekeeper**: the periods make expiries coincide, alternate and fall
  inside a request. The clock passes three times their common multiple. It
  stops at `MaxClk`, which is why deadlock is allowed. The proofs remove all
  of these bounds.
- **cpu**: no bound on a guest's length of run; a guest's states repeat at its
  halt loop. Inputs sit at the edges (0, 1, 127, 128, 255 and carries out of
  each byte). `post` is computed with ordinary arithmetic, not with the
  operators of `Mos6502Isa`. Guests that are not meant to halt (and calls
  through NULL) only add behaviours and are outside `GuestHalts`. The guests
  that stop keeping the stack's discipline are followed to that point and
  beyond it, so that it is not assumed: a JSR and a PHA that just fit the page
  and that do not, a store to the byte in use and to others beside it and above.
  For the stack the proofs remove the choice of guests.
- **stack**: four cells let S wrap both ways, with and without two bytes
  in use on each side of the end.
- **machine**: the frame is short so that the whole pair of frames closes and the run goes
  on for ever. A copy takes nearly as long as the vblank (in the code 514 of
  its 2273 cycles), so it can begin before, in and after it and swallow most
  of it. PPUMASK is written, but rendering stays off: the machine's properties
  do not depend on it, except for what the proofs show in general. A window
  may be closed, so deadlock is allowed.
- **picture**: a line has three tiles and its two prefetches, two sprite
  fetches and every special dot at a place of its own; 6 lines cross a row of
  tiles. The scroll positions make both wraps of x and a fine scroll in both directions. The
  sprites overlap, stand at either edge, flip both ways, are three on a line and
  reach below the picture; a tall one and its flip cross the row between its
  tiles. Their bitmaps have all four colours in a pattern that no flip leaves
  as it is, so that a transparent pixel of one sprite meets an opaque one of
  another and of the background. The guest acts at a dot in vblank and one in
  the middle of a line, three times: enough for a whole scroll or address and
  one access that switches the rendering, the height or the object memory in
  between. `PictureProofs` has no bound on any of these.
- **io_reg**: a copy starts at any OAMADDR and wraps, of either page, on
  either parity, in the middle of a poll. Three reads of two buttons
  go beyond the last.
- **memory_map**: the SxROM sizes are at and beyond what bank numbers reach,
  one of them no power of two; the values set each field of each register both ways; the four
  pages written to are the first of registers 0 and 2 and the last of 1 and 3. iNES 2 work
  RAM takes each encoded size up to the window and the sums of two, the ones
  below a page and that divide nothing included.
- **shell**: the counter wraps within one pause, a loop can be interrupted at
  each of its steps, and a step count is smaller than, equal to and larger
  than what the guest does before a breakpoint.

### Fairness
- `Timekeeper`: `WF(Running)`. `advance_clk` is a sequential function; once
  called, it goes on. Nobody is obliged to call it.
- `Mos6502`: `WF(Reset)` and `WF(Step)`: `run_shell` without `-i` steps the CPU in a
  loop. Interrupt requests may come at any time or never.
- `Machine`: `WF(MachineNext)`: one thread runs everything, and while something
  can happen it does. That the dots keep coming, `Ppu`'s own `WF(Step)`, is not
  assumed but checked (`PpuIsFair`): instructions always cost cycles and copies end. A
  closed window ends the process.
- `Shell`: `WF(Start)` and `WF(Loop)`: the loops run by themselves; the user
  and the signal owe nothing.
- `IoReg`: `WF(Dma)`: the copy is a loop inside one call of a write handler.

## 4. Proofs

Each proof module extends the module it is about. The assumptions are those
its CONSTANTS have there (`NTimersAssumption`, `PeriodAssumption`,
`GeometryAssumption`, `ButtonsAssumption`, `WrapAssumption`,
`CartsAssumption` and so on), and TLC evaluates them on the instances above.

- **TimekeeperProofs** (any timers, periods and requests). A charge being
  exact is not inductive: a sweep subtracts `mincount`, and only the range of the
  countdowns says that this neither wraps nor skips an expiry; `IInv`
  therefore joins `TypeOK`, `ExactCharge`, `CountdownInRange`, `NoCycleLost`
  and what holds before the reset. `ClockImplementsService`: every step of
  the sweep is a step of `TimerService` or stutters.
- **Mos6502StackProofs** (any page of at least four bytes, any values).
  `IInv` adds the position of S relative to the cells in use;
  `LiveCellsIntact` and `ImplementsBoundedStack` follow.
- **CpuStackProofs** (every ROM image, size of RAM, command line and host).
  `CpuTypes`: `TypeOK` is inductive by itself, with a lemma for each family of
  handlers. It needs that the table gives every handler that writes a mode
  that says where (`WellModed`, read off the entries), that no operator of
  `Mos6502Isa` leaves the bytes or the flags, and what the loop over the
  command line leaves behind (`Unrolls`, `ArgvLoopTypes`: by the least argument
  at which it would fail, since induction is out of reach).
  `CpuRunsThePage` needs `PageInRam`: RAM holds the page and the cells beyond
  its ends. `PInv` is the page's types with `StackInPage`; under it each step of
  the CPU is one of `Mos6502Stack`: TXS loads (`LoadsPage`), PHA and PHP push,
  down to `OthersPage`, which covers every other action by what it leaves of S
  and of the bytes in use. `GuestStack` and `GuestStackRefines` then follow from
  `StackInPage` and the refinement of `BoundedStack`, for the page the code has.
  The rest is about the instruction set, for all bytes and flags: `StatusRoundTrip`
  (PHP and PLP, by the bits of a byte), `AdcAdds` and `AdcAddsWords`,
  `SbcSubtracts` (where nothing is borrowed: beyond that the code's result is
  another), `CompareThenBranch`, and `InstructionCosts`, which is what
  `NoWriteIsLost` below assumes of the table.
- **PpuProofs** (every geometry, every guest). `CursorStaysInFrame`,
  `VblankOnlyInWindow` and `FlagsDueOnTheirLine` from one invariant `IInv`: the
  cursor in its frame (odd frames included), the window and what is due.
  `PpuTypes`: increments, copies and writes keep both address registers in 16
  bits (`AddrFields` takes an address apart and puts it together again).
  `ScrollAsWritten`: `ScrollPosition` speaks of the dots of a line only up to
  its last pixel; to be inductive it needs where the address is in the rest of
  the frame. `Scroll` says it region by region: the column while a line is
  drawn (`LineColumn`), while the next is fetched (`AheadColumn`), outside the
  picture (`BlankColumn`); the row before and after the increment at the
  line's end (`LineRow`, `NextLineRow`) and after the vertical copy
  (`FrameRow`); and when a frame can be undisturbed at all (`QuietWhere`). It
  rests on a line being of whole tiles: the line's last x-increment and
  its y-increment then fall on the same dot, as `update_vram_addr` needs.
- **PictureProofs** (every geometry, every guest, anything in the registers
  before). `BackgroundAsScrolled` relates a pixel to tiles that were fetched
  up to two tiles before. `Pipe(e)` says what the whole pipeline holds `e` dots
  after the first tile of a line was begun: which pixels are in which cells
  of the shift registers, which palettes wait, and which of the latches are
  already the next tile's. One dot turns `Pipe(e)` into `Pipe(e + 1)`
  (`PipeMoves`, from `PipeShift`, `PipeLoad` and `FetchSlot`), the dots between
  two lines keep it (`PipeIdle`), and it starts, with nothing to claim, at
  the first fetch ahead, where `SInv` of PpuProofs has the column
  (`PipeStarts`). `PInv` joins both. `PipelineAssumption` is what it takes: a
  tile has room for its four fetches, the fine x-scroll stays within one, and
  a line ends after the second tile of the next and before a third.
  `SpritesOnTheirLines` and `HitsAreSprite0s` hold for any bitmaps of tiles, any masks
  and either height of sprites. They follow a sprite through the line after the one it
  was found on. `SpriteInv` adds to `PInv` what was found last and the flag that goes
  with it (`Evaluated`, a line later `Carried`), what the registers hold after their
  fetches (`Fetched`: the row of the address register, which keeps its row from there
  on), and what is left of each sprite when `c` dots of the line have been drawn
  (`Ready`: its position less `c`, its pixels less those passed). A dot takes `Ready`
  one further (`PlacedMoves`, `ReadyMoves`). The sprite on top is then the first of
  those that cover the pixel with an opaque pixel, in either plane (`FrontSprite`,
  `Solid`, `TopSprite`), and its row is its own where the address register's row is
  the line's (`OwnRow`, which needs a picture no taller than a nametable, and for two
  tiles that rows counted from the other end are those of the exchanged tiles). That
  sprite 0 is in the first register whenever its flag is set is `FirstOfMemory`: the
  sprite of rank 1. `PictureTypes`, `PictureScroll` and `PictureFlags` are read off
  the same invariant.
- **PpuProofs**, last part: `Machine` (every geometry, any lengths of instructions and copies, any number of dots to
  a cycle). `ImplementsPpu`: every step is one of `Ppu`'s or stutters, so
  what PpuProofs shows carries over (`MachineVblank`, `MachineScroll`). `NeverDrifts`: one dot
  takes `Position` one further modulo a pair of frames (`PositionAdvances`), nothing else
  moves it. `SeenOnce` needs `Handshake`, which relates the flag and the
  two history variables inside the vblank.
- **IoRegProofs** (any number of buttons, size of object memory and position of the
  ports). `PollsDeliver` needs `ShiftInv`: what a register that was empty at the last
  poll holds, the rest of the latched keys. `DmaTakesTheBus` needs
  `DmaInv`: how many cycles have gone by when the copy is at byte `i`.
  `CopiesAreWhole` needs `CopyInv`: the bytes below `i` are in their places and OAMADDR is
  the place of the `i`-th, modulo the size.
- **ShellProofs** (any guest, any counts, any width of the counter).
  `SignalInv` says what a loop knows of the signal in each of its steps,
  `CountInv` how much of the count is left, `ExecInv` what was tested just
  before an execution, `ClockInv` how the two clock references and the time
  the loops ran relate, modulo the width.
- **MemoryMapProofs** (any header, page size, K and pages written; any values).
  For the mapper alone, `MapInv`: the windows are what the registers say; the
  lemmas `BankInRom`, `PairInRom` and `RemapInBounds` bound them.
  `NoWriteIsLost` rests on instructions of at least two cycles
  (`CyclesAssumption`, the least entry of `instr_cycles`). `PortImplemented`
  is the refinement of the serial port: `Holds` says where the sentinel is, a
  shift moves it and every bit above it by one (`HoldsShift`, `AppendBit`),
  and the fifth delivers the bits in order (`DeliveredBits`).
  For the buses, `MInv`
  joins that invariant with `CpuGood` and `PpuGood`: each entry lies in its memory,
  RAM is mapped for writing only on the pages a ROM never takes, and a
  handler in the upper half gets an address of that half. That split is what makes
  `TablesAgree` inductive: a ROM's mapping leaves write entries as they were,
  and none of them leads to a RAM. `EveryPageInBounds` rests on how pages
  of a window and of its mirrors divide (`EntryOfWindow`, `EntryOfMirror`, `MirrorFits`).
  `PortThroughTheBus`: every write through the bus reaches one of the four registers, so
  the composition is a behaviour of `Sxrom` and of the port.
  `CartridgeAsDescribed` and `NametablesAsDescribed` are about what the last of several
  mappings left: `CInv` adds to `MInv` that an NROM's buses are still those
  its setup made and that an SxROM's pages show what its registers ask
  for, from the reset on.

**Only model-checked.** Liveness (`AdvanceReturns`, `FramesForever`, `PpuIsFair`,
`DmaEnds`, `SigintLeadsToPrompt`, `GuestHalts`, and the fair part of
`ServesTimers`): liveness under fairness and ENABLED are out of the prover's
reach. `StepAllowed` is an ENABLED too. `GuestResult` is about given guests on
the whole instruction set; what an instruction computes for all bytes is proved
for those named above only. `Lifetime` has no constants: its run visits every
construction, failure and release there is. What a recursive function
computes for every input needs an induction the prover's library cannot
instantiate: of the loop over the command line (`ArgvLoop`) it is proved what
each of its steps preserves, not what the finished argv looks like. No module uses a
RECURSIVE operator.

## 5. Where the code and its comments disagree

Three runs expect a violation, each a claim of the repository:

1. **A paravirtual call does not move the PC** (`vmcall_pc`).
   `vmcall.c:214`: "PC will have been moved to the next opcode at this
   point"; nothing moves it, so every call except exit runs again for ever.
2. **ROL absolute has the wrong length** (`rol_length`). Its handler adds 2 to
   the PC (`mos6502.c:1694`); the table above it says 3.
3. **A strobe does not replace the shift registers** (`strobe`). `io_reg.c:24`
   or-s the keys in; line 20 speaks of the current state of the keys.

Four more places say something else than the code does. No run is spent on
them, because one line of the code against one line of text shows it:

- **Dispatch table.** Entries 0x76, 0xD1 and 0xF1 name another handler
  (`mos6502.c:194`, `200`, `202`: `STX_ZP`, and the handlers of `(zp,X)` for
  CMP and SBC); the disassembler prints `ROR zpg,X`, `CMP ind,Y` and
  `SBC ind,Y` for them (lines 255, 261, 263).
- **Interrupts.** `mos6502.h:64` calls `intr_status` "whether or not an interrupt
  has been raised and needs to be processed"; `raise_irq` and `raise_nmi` set it
  and `mos6502_step` never looks.
- **CMP.** The comment at `mos6502.c:749` lets the carry and the sign tell how the
  accumulator compares; the handlers set the carry and never clear it, and take
  N from the borrow of the difference. `CompareThenBranch` says what a branch
  then decides.
- **Results of a step.** `shell.c:252-272` has words for a VMBREAK, an unhandled
  paravirtual call and an illegal instruction, and the loops (lines 307, 426)
  stop on them. `mos6502.c:285` drops what `handle_vmcall` returns and line 292
  always returns success, so none of them stops a loop: `LoopTest` leaves that
  part of the condition out.

The rest is modelled as the code has it, too, where a reader who knows the
hardware would expect something else: BRK and RTI use addresses outside page
one and do not restore the flags; opcodes without a handler are calls through
NULL; a paravirtual call's result reaches the guest only where the code stores
it; a port read while the strobe is high indexes its array by button first;
the overflow condition of sprite evaluation joins its comparisons with `||`;
`write_toggle` is cleared on the pre-render line; the vertical copy's mask is
0x3BE0, so that a bit of the fine row stays (`ScrollPosition` says so);
switching NMIs off during vblank raises one as well; a memory of less than a page maps
nothing; when SDL's video cannot be initialised, `ppu_new` returns without
releasing the PPU and its bus (`CleanExit` states exactly this exception).

## 6. What is not modelled

- `timekeeper_sync`: a sleep computed in a double; it changes no state of the
  emulator. Its inputs are in `Shell`.
- In the PPU: colours and palette memory, the pattern tables' base addresses,
  and which of two opaque layers is on the screen (`behind_bg`, looked at only
  after a hit was decided). They choose the colour of a dot; whether a pixel
  of either layer is opaque and drawn is modelled. SDL's presentation is an event.
- The values that PPUSTATUS and PPUDATA return beyond the vblank flag, and OAMDATA's reads.
- The disassembler, the shell's argument parsing, dumps, `main`'s options,
  `fileio.c`: text and host I/O. Their failures are in `Lifetime`.
- Memory contents on the NES bus; those of a Hawknest system are in `Mos6502`.
- Bytes of an iNES header that the loader only warns about.
- `src/lib`, `src/test`, ROMs, palette, build files: guests and data.

## 7. Plan

Done, in this order: the clock and its contract; the instruction set, its
machine and guests; the stack; the PPU's status and scroll; the shell; the
register page; the cartridge; construction and release; the CPU and the PPU on one clock;
what a picture shows; the memory maps; the stack on the whole CPU; proofs for the
clock, the stack, the machine, the register page, the shell, the mapper and the memory
maps, for the PPU's cursor, flags, scroll, background, sprites and hits, and for the CPU: its
types, its stack under any guest, what its additions, comparisons and status bytes are.

Next:
1. `GuestResult` for guests that use every addressing mode of every family.
2. The sprites of a vertically scrolled picture: which row the code shows there.
3. The shell's memory commands through the bus (a peek clocks a controller or
   clears vblank as a program's read does).
