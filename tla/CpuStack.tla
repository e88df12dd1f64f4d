------------------------------ MODULE CpuStack ------------------------------
(***************************************************************************)
(* The CPU of Mos6502 with what a guest knows of its own stack.  The       *)
(* history variables see registers only: what PHA, PHP and JSR are about   *)
(* to save, and what PLA, PLP and RTS have restored, in A, P and the PC.   *)
(* That the bytes in between are kept is the work of the memory, of S and  *)
(* of every other instruction; Mos6502Stack says how, for a page on its    *)
(* own, and this module is where the two meet: the page is the one at      *)
(* 0x100 of the guest's memory, S is the CPU's.                            *)
(***************************************************************************)
EXTENDS Mos6502

(* The cells the stack handlers reach are RAM: 32768 bytes in the code.    *)
ASSUME PageInRam == RamSize >= 514

VARIABLES out,   \* what the last step pulled or returned to
          stack, \* the bytes pushed since S was last loaded, ...
          depth, \* ... how many they are,
          cap,   \* the S that was loaded,
          ok     \* and whether the guest has kept the discipline since

hist  == <<out, stack, depth, cap, ok>>
hvars == <<vars, hist>>

page == [c \in -1..257 |-> MemRead(mem, 256 + c)]
Top  == IF status = "off" THEN 253 ELSE cpu.sp

Page == INSTANCE Mos6502Stack WITH N <- 256, Value <- Byte, cell <- page, sp <- Top

-----------------------------------------------------------------------------
HInit ==
  /\ Init
  /\ stack = [i \in 1..256 |-> 255] /\ depth = 0 /\ cap = 253
  /\ out = <<>> /\ ok = TRUE

Loads ==
  /\ Transfer /\ Op = "TXS"
  /\ cap' = cpu.x /\ depth' = 0 /\ ok' = TRUE
  /\ out' = <<>> /\ UNCHANGED stack

Pushes ==
  /\ Push
  /\ LET v == IF Op = "PHA" THEN cpu.a ELSE PVal(cpu.p)
     IN  Page!Track(depth < cap, [stack EXCEPT ![depth + 1] = v], depth + 1)
  /\ out' = <<>>

Pulls ==
  /\ Pull
  /\ out' = <<IF Op = "PLA" THEN cpu'.a ELSE PVal(cpu'.p)>>
  /\ Page!Track(depth >= 1, stack, depth - 1)

Calls ==
  /\ Jsr
  /\ LET ret == U16(cpu.pc + 3)
     IN  Page!Track(depth + 2 <= cap,
                    [stack EXCEPT ![depth + 1] = Hi(ret), ![depth + 2] = Lo(ret)], depth + 2)
  /\ out' = <<>>

Returns ==
  /\ Rts
  /\ out' = <<Hi(cpu'.pc), Lo(cpu'.pc)>>
  /\ Page!Track(depth >= 2, stack, depth - 2)

Interrupts ==
  /\ Brk \/ Rti
  /\ ok' = FALSE /\ out' = <<>>
  /\ UNCHANGED <<stack, depth, cap>>

(* Whatever else the CPU does must not write to the bytes in use.          *)
Others ==
  /\ \/ Reset \/ RaiseIrq \/ RaiseNmi
     \/ Load \/ Store \/ LogicOp \/ AddSub \/ CompareOp \/ BitOp \/ ShiftAcc \/ ShiftMem
     \/ IncDecMem \/ IncDecReg \/ (Transfer /\ Op # "TXS") \/ SetFlag \/ Nop \/ Branch \/ Jump
     \/ VmCallStep \/ CallNull
  /\ ok' = (ok /\ \A c \in Page!Cells : Page!Live(c) => page'[c] = page[c])
  /\ out' = <<>>
  /\ UNCHANGED <<stack, depth, cap>>

HNext == Loads \/ Pushes \/ Pulls \/ Calls \/ Returns \/ Interrupts \/ Others

HSpec == HInit /\ [][HNext]_hvars

(* run_shell's loop, as in FairSpec                                        *)
FairHSpec == HSpec /\ WF_vars(Reset) /\ WF_vars(Step)

-----------------------------------------------------------------------------
(***************************************************************************)
(* As long as a guest balances its pushes and pulls, stays within the room *)
(* above the bottom of the page and does not store into its own stack, S   *)
(* is where the guest left it and the page holds what the guest saved,     *)
(* whatever its other instructions and paravirtual calls did in between.   *)
(***************************************************************************)
GuestStackIntact == Page!StackInPage

(***************************************************************************)
(* Such a guest has a stack: PLA and PLP give back the byte or the flags   *)
(* last saved, RTS goes to where the matching JSR said, whichever of the   *)
(* stack's instructions are mixed (mos6502.c JSR_ABS_handler, RTS_handler, *)
(* PHA_handler .. PLP_handler, TXS_handler).                               *)
(***************************************************************************)
GuestHasStack == Page!ImplementsStack
=============================================================================
