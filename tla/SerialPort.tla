----------------------------- MODULE SerialPort -----------------------------
(***************************************************************************)
(* What an MMC1 promises to a program: a register is written bit by bit,   *)
(* five writes from its lowest bit on, and takes its value -- all five     *)
(* bits at once -- at the fifth write, whose address alone names it.  A    *)
(* write with bit 7 set throws the bits collected away and nothing else.   *)
(***************************************************************************)
EXTENDS Integers, Sequences

CONSTANTS Regs,   \* the register numbers
          NBits   \* the writes it takes (5)

VARIABLES bits,   \* those collected so far, the lowest first
          regs    \* the registers: bit k of register r

Init ==
  /\ bits = <<>>
  /\ regs \in [Regs -> [1..NBits -> {0, 1}]]

Collect(b) ==
  /\ Len(bits) + 1 < NBits
  /\ bits' = Append(bits, b)
  /\ UNCHANGED regs

Deliver(r, b) ==
  /\ Len(bits) + 1 = NBits
  /\ bits' = <<>>
  /\ regs' = [regs EXCEPT ![r] = Append(bits, b)]

Clear == bits' = <<>> /\ UNCHANGED regs

Next ==
  \/ \E b \in {0, 1} : Collect(b)
  \/ \E r \in Regs, b \in {0, 1} : Deliver(r, b)
  \/ Clear

Spec == Init /\ [][Next]_<<bits, regs>>
=============================================================================
