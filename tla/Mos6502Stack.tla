---------------------------- MODULE Mos6502Stack ----------------------------
(***************************************************************************)
(* The stack instructions of emu/mos6502/mos6502.c over a page of N bytes  *)
(* (256 in the code), with bytes as abstract values: what Mos6502 runs on  *)
(* one guest is stated here for every guest.  Cell 0 is address 0x100;     *)
(* cell -1 is the last byte of page zero and cells N and N+1 are the first *)
(* of page two: the handlers compute 16-bit addresses from 0x100 | S and   *)
(* only S itself wraps, so at the ends of the page they leave it.          *)
(*                                                                         *)
(* stack, depth, cap and ok are history variables: the bytes a guest has   *)
(* pushed since it last loaded S, and whether it kept the discipline.      *)
(***************************************************************************)
EXTENDS Integers

CONSTANTS N,      \* bytes in a page
          Value   \* what a byte can hold

ASSUME PageAssumption  == N \in Nat /\ N > 3
ASSUME ValueAssumption == Value # {}

VARIABLES cell,   \* the stack page and the bytes around it
          sp,     \* S
          out,    \* what the last step pulled or returned to
          stack, depth, cap, ok

code  == <<cell, sp, out>>
ghost == <<stack, depth, cap, ok>>
vars  == <<cell, sp, out, stack, depth, cap, ok>>

Cells   == -1..(N + 1)
Outputs == {<<>>} \cup {<<v>> : v \in Value} \cup {<<h, l>> : h, l \in Value}

(* The cells that hold the guest's pushed bytes.                           *)
Live(c) == cap - depth < c /\ c <= cap

(* The history of a step: kept if cond, else the discipline is lost.       *)
Track(cond, newStack, newDepth) ==
  IF ok /\ cond
  THEN stack' = newStack /\ depth' = newDepth /\ UNCHANGED <<cap, ok>>
  ELSE ok' = FALSE /\ UNCHANGED <<stack, depth, cap>>

-----------------------------------------------------------------------------
(* After mos6502_reset S is N - 3; crt0 loads N - 1 with TXS.              *)
Init ==
  /\ cell \in [Cells -> Value]
  /\ sp = N - 3 /\ cap = N - 3
  /\ stack \in [1..N -> Value] /\ depth = 0
  /\ out = <<>> /\ ok = TRUE

(* TXS *)
LoadS(s) ==
  /\ sp' = s /\ cap' = s /\ depth' = 0 /\ ok' = TRUE
  /\ out' = <<>>
  /\ UNCHANGED <<cell, stack>>

(* PHA, PHP *)
Push(v) ==
  /\ cell' = [cell EXCEPT ![sp] = v]
  /\ sp' = (sp - 1) % N
  /\ Track(depth < cap, [stack EXCEPT ![depth + 1] = v], depth + 1)
  /\ out' = <<>>

(* PLA, PLP *)
Pull ==
  /\ out' = <<cell[sp + 1]>>
  /\ sp' = (sp + 1) % N
  /\ Track(depth >= 1, stack, depth - 1)
  /\ UNCHANGED cell

(* JSR: the high byte, then the low byte at the address below it.          *)
Call(h, l) ==
  /\ cell' = [cell EXCEPT ![sp] = h, ![sp - 1] = l]
  /\ sp' = (sp - 2) % N
  /\ Track(depth + 2 <= cap, [stack EXCEPT ![depth + 1] = h, ![depth + 2] = l], depth + 2)
  /\ out' = <<>>

(* Mutant: the bytes of the return address are swapped.                    *)
Mutant_ReturnSwapped ==
  /\ out' = <<cell[sp + 1], cell[sp + 2]>>
  /\ sp' = (sp + 2) % N
  /\ Track(depth >= 2, stack, depth - 2)
  /\ UNCHANGED cell

(* RTS *)
Return ==
  /\ out' = <<cell[sp + 2], cell[sp + 1]>>
  /\ sp' = (sp + 2) % N
  /\ Track(depth >= 2, stack, depth - 2)
  /\ UNCHANGED cell

(* BRK pushes three bytes to page zero, RTI takes two from there.          *)
Brk ==
  /\ \E v \in Value : cell' = IF sp \in {0, 1, N - 1} THEN [cell EXCEPT ![-1] = v] ELSE cell
  /\ sp' = (sp - 3) % N
  /\ ok' = FALSE
  /\ out' = <<>>
  /\ UNCHANGED <<stack, depth, cap>>

Rti ==
  /\ sp' = (sp + 2) % N
  /\ ok' = FALSE
  /\ out' = <<>>
  /\ UNCHANGED <<cell, stack, depth, cap>>

(* Anything else: an instruction writes at most one byte, a paravirtual    *)
(* call any number of them.                                                *)
Store ==
  /\ cell' \in [Cells -> Value]
  /\ ok' = (ok /\ \A c \in Cells : Live(c) => cell'[c] = cell[c])
  /\ out' = <<>>
  /\ UNCHANGED <<sp, stack, depth, cap>>

Next ==
  \/ \E s \in 0..(N - 1) : LoadS(s)
  \/ \E v \in Value : Push(v)
  \/ Pull
  \/ \E h, l \in Value : Call(h, l)
  \/ Return
  \/ Brk
  \/ Rti
  \/ Store

Spec == Init /\ [][Next]_vars

-----------------------------------------------------------------------------
TypeOK ==
  /\ cell \in [Cells -> Value]
  /\ sp \in 0..(N - 1) /\ cap \in 0..(N - 1) /\ depth \in 0..cap
  /\ stack \in [1..N -> Value]
  /\ out \in Outputs
  /\ ok \in BOOLEAN

(* While the guest keeps the discipline S has not wrapped and the live     *)
(* cells hold exactly what it pushed, so no handler left the page.         *)
StackInPage ==
  ok => /\ sp = cap - depth
        /\ \A i \in 1..depth : cell[cap - i + 1] = stack[i]

(* PHA, PHP, PLA, PLP, JSR, RTS and TXS are the stack a guest expects, up  *)
(* to a depth of the S it loaded (one byte less than the page has room     *)
(* for, the byte at which the handlers' addresses and S part).             *)
Abstract == INSTANCE BoundedStack
ImplementsStack == Abstract!ASpec
=============================================================================
