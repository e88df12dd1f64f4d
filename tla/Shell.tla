------------------------------- MODULE Shell -------------------------------
(***************************************************************************)
(* The debugger shell, emu/shell.c: a prompt, the step and continue loops, *)
(* breakpoints, and the SIGINT handler that may run between any two of     *)
(* their steps.  The loops stop and restart the wall clock reference of    *)
(* emu/timekeeper.c.  The guest is a relation between program counters.    *)
(*                                                                         *)
(* SDL's millisecond counter is now, modulo Wrap (2^32).  asked, executed, *)
(* late and ran are history variables.                                     *)
(***************************************************************************)
EXTENDS Integers, FiniteSets

CONSTANTS Pcs,      \* program counters
          Succ,     \* Succ[pc]: where the instruction at pc may lead
          Counts,   \* arguments of the step command
          Wrap,     \* 2^32: SDL_GetTicks() and t_ref, t_pause wrap there
          Interactive \* the -i flag

ASSUME GuestAssumption == Succ \in [Pcs -> SUBSET Pcs] /\ \A pc \in Pcs : Succ[pc] # {}
ASSUME CountsAssumption == Counts \subseteq Nat
ASSUME WrapAssumption == Wrap \in Nat \ {0}
ASSUME InteractiveAssumption == Interactive \in BOOLEAN

Forever == -1       \* the count of a continue

VARIABLES
  at,       \* "start", "prompt", "test", "exec", "stop" or "gone"
  pc, bps,  \* the program counter; the breakpoints present in bptl2
  sigint,   \* sigint_received
  n,        \* instructions the loop still has to do; Forever in cmd_cont
  hit,      \* bp_hit
  now, tref, tpause, \* the millisecond counter, t_ref and t_pause
  asked, executed,   \* history: the count of the last loop, what it has done
  late,     \* history: instructions since sigint was set in this loop
  ran       \* history: the time spent outside the prompt, modulo Wrap

loop  == <<n, hit, asked, executed, late>>
clock == <<now, tref, tpause, ran>>
vars  == <<at, pc, bps, sigint, loop, clock>>

Running == at \in {"test", "exec", "stop"}

-----------------------------------------------------------------------------
(* main() resets the devices and the CPU and pauses the clock.             *)
Init ==
  /\ at = IF Interactive THEN "prompt" ELSE "start"
  /\ pc \in Pcs /\ bps = {}
  /\ sigint \in BOOLEAN
  /\ n = 0 /\ hit = FALSE /\ asked = 0 /\ executed = 0 /\ late = 0
  /\ now = 0 /\ tref = 0 /\ tpause = 0 /\ ran = 0

(* handle_sigint, at any moment                                            *)
Sigint ==
  /\ at # "gone"
  /\ sigint' = TRUE
  /\ UNCHANGED <<at, pc, bps, loop, clock>>

Tick ==
  /\ at # "gone"
  /\ now' = (now + 1) % Wrap
  /\ ran' = IF Running THEN (ran + 1) % Wrap ELSE ran
  /\ UNCHANGED <<at, pc, bps, sigint, loop, tref, tpause>>

(* timekeeper_resume and the entry of a loop                               *)
Resume(count) ==
  /\ sigint' = FALSE
  /\ tref' = (tref + (now - tpause)) % Wrap
  /\ n' = count /\ hit' = FALSE
  /\ asked' = count /\ executed' = 0 /\ late' = 0
  /\ at' = "test"
  /\ UNCHANGED <<pc, bps, now, tpause, ran>>

(* Without -i there is no line yet, and the shell continues at once.       *)
Start    == at = "start" /\ Resume(Forever)
CmdCont  == at = "prompt" /\ Resume(Forever)
CmdStep(count) == at = "prompt" /\ Resume(count)

(* The breakpoint tables bptl2, two levels of 256 entries: the set of the  *)
(* addresses that are marked present.                                      *)
insert_bp(ad)   == bps \cup {ad}
remove_bp(ad)   == bps \ {ad}
is_valid_bp(ad) == ad \in bps

(* Every recognised command clears sigint_received before its handler.     *)
Command == at = "prompt" /\ sigint' = FALSE /\ UNCHANGED <<loop, clock>>

CmdJump(ad)    == Command /\ pc' = ad /\ UNCHANGED <<at, bps>>
CmdBreak(ad)   == Command /\ bps' = insert_bp(ad) /\ UNCHANGED <<at, pc>>
CmdBreakRm(ad) == Command /\ bps' = remove_bp(ad) /\ UNCHANGED <<at, pc>>
(* Commands that show or poke memory, raise an interrupt, or are refused   *)
(* because of their arguments                                              *)
CmdOther       == Command /\ UNCHANGED <<at, pc, bps>>
CmdQuit        == Command /\ at' = "gone" /\ UNCHANGED <<pc, bps>>

(* readline returns NULL: run_shell returns and main releases the system.  *)
EndOfInput == at = "prompt" /\ at' = "gone" /\ UNCHANGED <<pc, bps, sigint, loop, clock>>

-----------------------------------------------------------------------------
(* Mutants: continue does not look at the signal; step stops one short; a  *)
(* breakpoint under the first instruction is stepped over.                 *)
Mutant_LoopTestDeaf ==
  /\ at = "test"
  /\ hit' = (n # 0 /\ pc \in bps)
  /\ at' = IF n = 0 \/ pc \in bps \/ (sigint /\ n # Forever) THEN "stop" ELSE "exec"
  /\ UNCHANGED <<pc, bps, sigint, n, asked, executed, late, clock>>
Mutant_LoopTestShort ==
  /\ at = "test"
  /\ hit' = (n # 0 /\ pc \in bps)
  /\ at' = IF n \in {0, 1} \/ pc \in bps \/ sigint THEN "stop" ELSE "exec"
  /\ UNCHANGED <<pc, bps, sigint, n, asked, executed, late, clock>>
Mutant_LoopTestStepsOff ==
  /\ at = "test"
  /\ hit' = (n # 0 /\ pc \in bps /\ n # asked)
  /\ at' = IF n = 0 \/ (pc \in bps /\ n # asked) \/ sigint THEN "stop" ELSE "exec"
  /\ UNCHANGED <<pc, bps, sigint, n, asked, executed, late, clock>>

(* The condition of the loop: the count, the breakpoint, then the signal.  *)
(* It also asks for the result of the last step, between the two, but      *)
(* mos6502_step drops what a paravirtual call reports and returns success  *)
(* (mos6502.c:292), so that part never stops a loop.                       *)
LoopTest ==
  /\ at = "test"
  /\ hit' = (n # 0 /\ is_valid_bp(pc))
  /\ at' = IF n = 0 \/ is_valid_bp(pc) \/ sigint THEN "stop" ELSE "exec"
  /\ UNCHANGED <<pc, bps, sigint, n, asked, executed, late, clock>>

(* Mutant: the signal is forgotten at the next instruction.                *)
Mutant_ExecuteForgets ==
  /\ at = "exec"
  /\ pc' \in Succ[pc]
  /\ n' = IF n = Forever THEN Forever ELSE n - 1
  /\ executed' = IF n = Forever THEN executed ELSE executed + 1
  /\ late' = IF sigint THEN late + 1 ELSE 0
  /\ at' = "test" /\ sigint' = FALSE
  /\ UNCHANGED <<bps, hit, asked, clock>>

(* mos6502_step; its result is always success.                             *)
Execute ==
  /\ at = "exec"
  /\ pc' \in Succ[pc]
  /\ n' = IF n = Forever THEN Forever ELSE n - 1
  /\ executed' = IF n = Forever THEN executed ELSE executed + 1
  /\ late' = IF sigint THEN late + 1 ELSE 0
  /\ at' = "test"
  /\ UNCHANGED <<bps, sigint, hit, asked, clock>>

(* Mutant: a loop that reached a breakpoint returns before the pause.      *)
Mutant_StopUnpaused ==
  /\ at = "stop"
  /\ tpause' = IF hit THEN tpause ELSE now
  /\ bps' = IF hit THEN bps \ {pc} ELSE bps
  /\ at' = "prompt"
  /\ UNCHANGED <<pc, sigint, loop, now, tref, ran>>

(* timekeeper_pause; a breakpoint that was reached is removed.             *)
Stop ==
  /\ at = "stop"
  /\ tpause' = now
  /\ bps' = IF hit THEN remove_bp(pc) ELSE bps
  /\ at' = "prompt"
  /\ UNCHANGED <<pc, sigint, loop, now, tref, ran>>

Loop == LoopTest \/ Execute \/ Stop

Commands ==
  \/ CmdCont \/ CmdOther \/ CmdQuit \/ EndOfInput
  \/ \E count \in Counts : CmdStep(count)
  \/ \E ad \in Pcs : CmdJump(ad) \/ CmdBreak(ad) \/ CmdBreakRm(ad)

Next == Start \/ Sigint \/ Tick \/ Loop \/ Commands

Spec == Init /\ [][Next]_vars

(* The loops run by themselves; the user and the signal owe nothing.       *)
FairSpec == Spec /\ WF_vars(Start) /\ WF_vars(Loop)

-----------------------------------------------------------------------------
TypeOK ==
  /\ at \in {"start", "prompt", "test", "exec", "stop", "gone"}
  /\ pc \in Pcs /\ bps \in SUBSET Pcs
  /\ sigint \in BOOLEAN /\ hit \in BOOLEAN
  /\ n \in Nat \cup {Forever} /\ asked \in Nat \cup {Forever}
  /\ executed \in Nat /\ late \in Nat
  /\ now \in 0..(Wrap - 1) /\ tref \in 0..(Wrap - 1)
  /\ tpause \in 0..(Wrap - 1) /\ ran \in 0..(Wrap - 1)

(* A SIGINT stops a loop within one instruction, wherever it falls, and no *)
(* signal that came during a loop is wiped out by the loop itself.         *)
PromptSigint == Running /\ sigint => late <= 1

(* Breaking a loop does not depend on luck: a signal leads to the prompt.  *)
SigintLeadsToPrompt == (Running /\ sigint) ~> (at = "prompt")

(* "step n" executes n instructions, or fewer when a breakpoint or a       *)
(* signal stopped it: never one more, and never one less for free.         *)
StepCount ==
  asked # Forever =>
    /\ Running => executed + n = asked
    /\ at = "exec" => executed < asked
    /\ at = "stop" => executed = asked \/ hit \/ sigint

(* The time at the prompt never counts: t_ref lags the counter by exactly  *)
(* the time the loops ran, through every pause, resume and wrap-around.    *)
ClockExcludesPrompt ==
  IF Running THEN (now - tref) % Wrap = ran ELSE (tpause - tref) % Wrap = ran

(* A breakpoint is where it was put until the guest stops there or the     *)
(* user removes it, and stopping there happens before its instruction.     *)
BreakpointsHold ==
  [][/\ Execute => pc \notin bps
     /\ \A ad \in bps : ad \in bps' \/ CmdBreakRm(ad) \/ (Stop /\ ad = pc)]_vars
=============================================================================
