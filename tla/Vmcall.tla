------------------------------- MODULE Vmcall -------------------------------
(***************************************************************************)
(* The paravirtual calls of emu/mos6502/vmcall.c as operators on the       *)
(* registers and the memory of a guest.  The host (file descriptors, the   *)
(* command line) is outside the repository: what it returns is a parameter.*)
(*                                                                         *)
(* Memory is the Hawknest system of emu/main.c: RAM below RamSize, a ROM,  *)
(* and nothing in between.  RAM is filled with 0xFF by its reset           *)
(* (emu/memory.c) and an unmapped read gives 0xFF in the OPEN_BUS_TO_VCC   *)
(* build, so a memory is a function on the cells that hold something else. *)
(***************************************************************************)
EXTENDS Integers, Sequences

CONSTANTS RamSize,      \* 32768 in hawknest_rom_load
          ParavirtArgv  \* paravirt_argv: strings of bytes other than NUL

ASSUME RamSizeAssumption == RamSize \in 0..65536
ASSUME ArgvAssumption    == ParavirtArgv \in Seq(Seq(1..255))

Lo(w) == w % 256
Hi(w) == (w \div 256) % 256
MakeWord(hi, lo) == 256 * hi + lo

MemRead(m, ad) == IF ad \in DOMAIN m THEN m[ad] ELSE 255

MemWrite(m, ad, v) ==
  IF ad < RamSize THEN [c \in DOMAIN m \cup {ad} |-> IF c = ad THEN v ELSE m[c]] ELSE m

Read16(m, ad) == MakeWord(MemRead(m, (ad + 1) % 65536), MemRead(m, ad))
Write16(m, ad, w) == MemWrite(MemWrite(m, ad, Lo(w)), (ad + 1) % 65536, Hi(w))

(* A block of at most 64K bytes, written from ad upwards                   *)
WriteBlock(m, ad, bytes) ==
  LET at(c)   == 1 + ((c - ad) % 65536)
      written == {(ad + i - 1) % 65536 : i \in 1..Len(bytes)} \cap 0..(RamSize - 1)
  IN  [c \in DOMAIN m \cup written |-> IF c \in written THEN bytes[at(c)] ELSE m[c]]

-----------------------------------------------------------------------------
GetAX(r)    == MakeWord(r.x, r.a)
SetAX(r, w) == [r EXCEPT !.a = Lo(w), !.x = Hi(w)]

(* pop_parm: a word from the C parameter stack, whose pointer is the zero  *)
(* page word 0.                                                            *)
PopParm(m, incr) ==
  LET sp == Read16(m, 0)
  IN  [val |-> Read16(m, sp), mem |-> Write16(m, 0, (sp + incr) % 65536)]

(* handle_args: argv is built below the C stack, strings under pointers.   *)
(* ArgvLoop(start)[k] is the state of its loop after k arguments.          *)
PushArg(s, arg) ==
  LET sp == (s.sp - (Len(arg) + 1)) % 65536
  IN  [mem  |-> Write16(WriteBlock(s.mem, sp, Append(arg, 0)), s.args, sp),
       sp   |-> sp,
       args |-> (s.args + 2) % 65536]

ArgvLoop(start) ==
  LET built[k \in 0..Len(ParavirtArgv)] ==
        IF k = 0 THEN start ELSE PushArg(built[k - 1], ParavirtArgv[k])
  IN  built

ArgsCall(r, m) ==
  LET argc == Len(ParavirtArgv)
      args == (Read16(m, 0) - 2 * (argc + 1)) % 65536
      end  == ArgvLoop([mem |-> Write16(m, GetAX(r), args), sp |-> args, args |-> args])[argc]
  IN  [regs |-> SetAX(r, argc), mem |-> Write16(end.mem, 0, end.sp)]

(* handle_open: three parameters; the first pop also drops the variadic    *)
(* ones beyond it (Y counts the bytes passed).                             *)
OpenCall(r, m, ret) ==
  LET mode  == PopParm(m, r.y - 4)
      flags == PopParm(mode.mem, 2)
      name  == PopParm(flags.mem, 2)
  IN  [regs |-> SetAX(r, ret), mem |-> name.mem]

CloseCall(r, m, ret) == [regs |-> SetAX(r, ret), mem |-> m]

(* handle_read: ret bytes of the file (here all equal to data) go to buf.  *)
ReadCall(r, m, ret, data) ==
  LET buf == PopParm(m, 2)
      fd  == PopParm(buf.mem, 2)
      n   == IF ret = 65535 THEN 0 ELSE ret
  IN  [regs |-> SetAX(r, ret),
       mem  |-> WriteBlock(fd.mem, buf.val, [i \in 1..n |-> data])]

WriteCall(r, m, ret) ==
  LET buf == PopParm(m, 2)
      fd  == PopParm(buf.mem, 2)
  IN  [regs |-> SetAX(r, ret), mem |-> fd.mem]
=============================================================================
