------------------------------- MODULE Membus -------------------------------
(***************************************************************************)
(* The memory bus, emu/membus.c, and how a memory is mapped to it,         *)
(* emu/memory.c.  A bus has two tables, for reads and for writes, with one *)
(* entry a page: nothing, a place in a memory, or a device's handler.      *)
(* References to the mapped objects are in Lifetime.                       *)
(***************************************************************************)
EXTENDS Integers

CONSTANT PageSize    \* 256, in the units that sizes are given in

ASSUME PageAssumption == PageSize \in Nat \ {0}

NoMapping          == [kind |-> "none", obj |-> "none", at |-> 0]
Data(obj, at)      == [kind |-> "data", obj |-> obj, at |-> at]
Handler(obj, from) == [kind |-> "handler", obj |-> obj, at |-> from]

EmptyBus(npages) ==
  LET none == [p \in 0..(npages - 1) |-> NoMapping] IN [read |-> none, write |-> none]

(* membus_set_read_handler, membus_set_write_handler, page by page, with   *)
(* the address a page's first byte has for the handler                     *)
Handled(entries, obj, from) ==
  [p \in DOMAIN entries |-> IF p \in DOMAIN from THEN Handler(obj, from[p]) ELSE entries[p]]

(* The address that membus_write hands to what is mapped                   *)
Landing(entry, addr) == entry.at + (addr % PageSize)

-----------------------------------------------------------------------------
(* memory_map: the whole pages of a size, from the page of an address on.  *)
Window(from, size) == (from \div PageSize)..((from \div PageSize) + (size \div PageSize) - 1)

Shown(entries, mem, from, size, start) ==
  [p \in DOMAIN entries |->
     IF p \in Window(from, size)
     THEN Data(mem.name, start + (p - (from \div PageSize)) * PageSize)
     ELSE entries[p]]

(* Mutant: a ROM is mapped for writing as well.                            *)
Mutant_memory_map(bus, mem, from, size, start) ==
  [read |-> Shown(bus.read, mem, from, size, start),
   write |-> Shown(bus.write, mem, from, size, start)]

(* Only a writeable memory replaces what a page's writes go to.            *)
memory_map(bus, mem, from, size, start) ==
  [read |-> Shown(bus.read, mem, from, size, start),
   write |-> IF mem.writeable THEN Shown(bus.write, mem, from, size, start) ELSE bus.write]

(* memory_map_mirroring: where two mirrors meet a page, the later one has  *)
(* it.                                                                     *)
LastMirror(p, from, size, n) ==
  LET showing == {i \in 0..(n - 1) : p \in Window(from + i * size, size)}
  IN  {i \in showing : \A j \in showing : j <= i}

Mirrored(entries, mem, from, size, start, n) ==
  [p \in DOMAIN entries |->
     IF LastMirror(p, from, size, n) = {} THEN entries[p]
     ELSE LET i == CHOOSE i \in LastMirror(p, from, size, n) : TRUE
          IN  Data(mem.name, start + (p - ((from + i * size) \div PageSize)) * PageSize)]

memory_map_mirroring(bus, mem, from, size, start, n) ==
  [read |-> Mirrored(bus.read, mem, from, size, start, n),
   write |-> IF mem.writeable THEN Mirrored(bus.write, mem, from, size, start, n) ELSE bus.write]
=============================================================================
