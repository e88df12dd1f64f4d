---------------------------- MODULE ShellProofs ----------------------------
(***************************************************************************)
(* Proofs about Shell, for any program counters, any guest, any step       *)
(* counts, any width of the millisecond counter, and signals at any time.  *)
(***************************************************************************)
EXTENDS Shell, TLAPS

(* What a loop knows of the signal: nothing has been executed since it     *)
(* unless the loop is about to look at it.                                 *)
SignalInv ==
  Running => /\ late <= 1
             /\ ~sigint => late = 0
             /\ at = "exec" => late = 0

(* How much of a step command is left                                      *)
CountInv ==
  Running => /\ n = Forever <=> asked = Forever
             /\ asked # Forever => executed + n = asked
             /\ at = "exec" => n # 0
             /\ at = "stop" /\ asked # Forever => n = 0 \/ hit \/ sigint

ClockType ==
  /\ now \in 0..(Wrap - 1) /\ tref \in 0..(Wrap - 1)
  /\ tpause \in 0..(Wrap - 1) /\ ran \in 0..(Wrap - 1)
LoopType ==
  /\ at \in {"start", "prompt", "test", "exec", "stop", "gone"}
  /\ pc \in Pcs /\ bps \in SUBSET Pcs
  /\ sigint \in BOOLEAN /\ hit \in BOOLEAN
  /\ n \in Nat \cup {Forever} /\ asked \in Nat \cup {Forever}
  /\ executed \in Nat /\ late \in Nat

LEMMA TypeParts == TypeOK <=> LoopType /\ ClockType
BY DEF TypeOK, LoopType, ClockType

LEMMA WrapFacts ==
  /\ 0 \in 0..(Wrap - 1)
  /\ \A x \in Int : x % Wrap \in 0..(Wrap - 1)
BY WrapAssumption

-----------------------------------------------------------------------------
LEMMA ResumeType ==
  ASSUME TypeOK, NEW count \in Nat \cup {Forever}, Resume(count)
  PROVE  LoopType' /\ ClockType'
<1>1. LoopType'
  BY TypeParts DEF Resume, LoopType
<1>2. ClockType'
  <2>1. tref + (now - tpause) \in Int
    BY WrapAssumption DEF TypeOK
  <2>2. tref' \in 0..(Wrap - 1)
    BY <2>1, WrapFacts DEF Resume
  <2> QED
    BY <2>2, TypeParts DEF Resume, ClockType
<1> QED
  BY <1>1, <1>2

LEMMA ExecuteType ==
  ASSUME TypeOK, CountInv, Execute
  PROVE  LoopType' /\ ClockType'
<1>1. ClockType'
  BY TypeParts DEF Execute, ClockType, clock
<1>2. pc' \in Pcs
  BY GuestAssumption DEF Execute, TypeOK
<1>3. n' \in Nat \cup {Forever}
  <2>1. n # 0 /\ n \in Nat \cup {Forever}
    BY DEF CountInv, Running, Execute, TypeOK
  <2>2. n' = n \/ (n # Forever /\ n' = n - 1)
    BY Zenon DEF Execute
  <2> QED
    BY <2>1, <2>2
<1>4. executed' \in Nat /\ late' \in Nat
  <2>1. executed \in Nat /\ late \in Nat
    BY DEF TypeOK
  <2>2. /\ executed' = executed \/ executed' = executed + 1
        /\ late' = 0 \/ late' = late + 1
    BY Zenon DEF Execute
  <2> QED
    BY <2>1, <2>2
<1>5. LoopType'
  BY <1>2, <1>3, <1>4, TypeParts, Zenon DEF Execute, LoopType
<1> QED
  BY <1>1, <1>5

LEMMA InitInv == Init => TypeOK /\ CountInv /\ SignalInv
<1> SUFFICES ASSUME Init PROVE TypeOK /\ CountInv /\ SignalInv
  OBVIOUS
<1>1. at \in {"prompt", "start"}
  BY Zenon DEF Init
<1>2. LoopType
  BY <1>1 DEF Init, LoopType
<1>3. ClockType
  BY WrapFacts DEF Init, ClockType
<1>4. ~Running
  BY <1>1 DEF Running
<1> QED
  BY <1>2, <1>3, <1>4, TypeParts DEF CountInv, SignalInv

LEMMA TypeStep == TypeOK /\ CountInv /\ [Next]_vars => TypeOK'
<1> SUFFICES ASSUME TypeOK, CountInv, [Next]_vars PROVE LoopType' /\ ClockType'
  BY DEF TypeOK, LoopType, ClockType
<1>0. LoopType /\ ClockType
  BY TypeParts
<1>1. CASE Start
  BY <1>1, ResumeType DEF Start
<1>2. CASE Sigint
  BY <1>0, <1>2 DEF Sigint, LoopType, ClockType, loop, clock
<1>3. CASE Tick
  <2>1. now + 1 \in Int /\ ran + 1 \in Int
    BY WrapAssumption DEF TypeOK
  <2>2. now' \in 0..(Wrap - 1)
    BY <1>3, <2>1, WrapFacts DEF Tick
  <2>3. ran' = ran \/ ran' = (ran + 1) % Wrap
    BY <1>3, Zenon DEF Tick
  <2>4. ran' \in 0..(Wrap - 1)
    BY <1>0, <2>1, <2>3, WrapFacts DEF ClockType
  <2> QED
    BY <1>0, <1>3, <2>2, <2>4 DEF Tick, LoopType, ClockType, loop
<1>4. CASE LoopTest
  <2>1. at' \in {"stop", "exec"} /\ hit' \in BOOLEAN
    BY <1>4, Zenon DEF LoopTest, is_valid_bp
  <2> QED
    BY <1>0, <1>4, <2>1, Zenon DEF LoopTest, LoopType, ClockType, clock, is_valid_bp
<1>5. CASE Execute
  BY <1>5, ExecuteType
<1>6. CASE Stop
  <2>1. bps' \subseteq bps
    BY <1>6, Zenon DEF Stop, remove_bp
  <2> QED
    BY <1>0, <1>6, <2>1 DEF Stop, LoopType, ClockType, loop, remove_bp
<1>7. CASE CmdCont
  BY <1>7, ResumeType DEF CmdCont
<1>8. CASE CmdOther
  BY <1>0, <1>8 DEF CmdOther, Command, LoopType, ClockType, loop, clock
<1>9. CASE CmdQuit
  BY <1>0, <1>9 DEF CmdQuit, Command, LoopType, ClockType, loop, clock
<1>10. CASE EndOfInput
  BY <1>0, <1>10 DEF EndOfInput, LoopType, ClockType, loop, clock
<1>11. ASSUME NEW count \in Counts, CmdStep(count) PROVE LoopType' /\ ClockType'
  BY <1>11, ResumeType, CountsAssumption DEF CmdStep
<1>12. ASSUME NEW ad \in Pcs, CmdJump(ad) \/ CmdBreak(ad) \/ CmdBreakRm(ad) PROVE LoopType' /\ ClockType'
  BY <1>0, <1>12
  DEF CmdJump, CmdBreak, CmdBreakRm, Command, LoopType, ClockType, loop, clock, insert_bp, remove_bp
<1>13. CASE UNCHANGED vars
  BY <1>0, <1>13 DEF vars, LoopType, ClockType, loop, clock
<1> QED
  BY <1>1, <1>2, <1>3, <1>4, <1>5, <1>6, <1>7, <1>8, <1>9, <1>10, <1>11, <1>12, <1>13
  DEF Next, Loop, Commands

(* Only these steps are made while a loop runs, or start one.              *)
LEMMA StepsOfALoop ==
  ASSUME TypeOK, [Next]_vars
  PROVE  \/ ~Running'
         \/ UNCHANGED <<at, sigint, loop>>
         \/ Sigint
         \/ LoopTest \/ Execute
         \/ \E count \in Nat \cup {Forever} : Resume(count)
<1>1. CASE CmdQuit \/ EndOfInput \/ Stop
  BY <1>1 DEF CmdQuit, EndOfInput, Stop, Running, remove_bp
<1>2. CASE CmdOther \/ \E ad \in Pcs : CmdJump(ad) \/ CmdBreak(ad) \/ CmdBreakRm(ad)
  BY <1>2 DEF CmdOther, CmdJump, CmdBreak, CmdBreakRm, Command, Running, insert_bp, remove_bp
<1>3. CASE Start \/ CmdCont \/ \E count \in Counts : CmdStep(count)
  BY <1>3, CountsAssumption DEF Start, CmdCont, CmdStep
<1>4. CASE Tick \/ UNCHANGED vars
  BY <1>4 DEF Tick, vars
<1> QED
  BY <1>1, <1>2, <1>3, <1>4 DEF Next, Loop, Commands

-----------------------------------------------------------------------------
LEMMA CountStep == TypeOK /\ CountInv /\ [Next]_vars => CountInv'
<1> SUFFICES ASSUME TypeOK, CountInv, [Next]_vars, Running' PROVE CountInv'
  BY DEF CountInv
<1>0. n \in Int /\ executed \in Int /\ asked \in Int
  BY DEF TypeOK, Forever
<1>1. CASE UNCHANGED <<at, sigint, loop>>
  BY <1>1, Zenon DEF CountInv, Running, loop
<1>2. CASE Sigint
  <2>1. UNCHANGED <<at, loop>> /\ sigint'
    BY <1>2 DEF Sigint
  <2> QED
    BY <2>1, Zenon DEF CountInv, Running, loop
<1>3. CASE LoopTest
  <2>1. Running /\ UNCHANGED <<n, asked, executed, sigint>>
    BY <1>3 DEF LoopTest, Running, is_valid_bp
  <2>2. at' = "exec" => n # 0
    BY <1>3, Zenon DEF LoopTest, is_valid_bp
  <2>3. at' = "stop" => n = 0 \/ hit' \/ sigint
    BY <1>3, Zenon DEF LoopTest, is_valid_bp
  <2> QED
    BY <2>1, <2>2, <2>3, Zenon DEF CountInv
<1>4. CASE Execute
  <2>1. Running /\ n # 0 /\ at' = "test" /\ asked' = asked
    BY <1>4 DEF Execute, Running, CountInv
  <2>2. CASE n = Forever
    <3>1. n' = Forever /\ asked = Forever
      BY <1>4, <2>1, <2>2, Zenon DEF Execute, CountInv
    <3> QED
      BY <2>1, <3>1 DEF CountInv
  <2>3. CASE n # Forever
    <3>1. n' = n - 1 /\ executed' = executed + 1
      BY <1>4, <2>3, Zenon DEF Execute
    <3>2. asked # Forever /\ executed + n = asked
      BY <2>1, <2>3 DEF CountInv
    <3>3. n' # Forever
      BY <1>0, <2>1, <3>1 DEF Forever
    <3> QED
      BY <1>0, <2>1, <3>1, <3>2, <3>3 DEF CountInv
  <2> QED
    BY <2>2, <2>3
<1>5. ASSUME NEW count \in Nat \cup {Forever}, Resume(count) PROVE CountInv'
  <2>1. count \in Int /\ n' = count /\ asked' = count /\ executed' = 0 /\ at' = "test"
    BY <1>5 DEF Resume, Forever
  <2> QED
    BY <2>1 DEF CountInv
<1> QED
  BY <1>1, <1>2, <1>3, <1>4, <1>5, StepsOfALoop

LEMMA SignalStep == TypeOK /\ SignalInv /\ [Next]_vars => SignalInv'
<1> SUFFICES ASSUME TypeOK, SignalInv, [Next]_vars, Running' PROVE SignalInv'
  BY DEF SignalInv
<1>0. late \in Int /\ (late = 0 => late <= 1)
  BY DEF TypeOK
<1>1. CASE UNCHANGED <<at, sigint, loop>>
  BY <1>1, Zenon DEF SignalInv, Running, loop
<1>2. CASE Sigint
  <2>1. UNCHANGED <<at, loop>> /\ sigint'
    BY <1>2 DEF Sigint
  <2> QED
    BY <2>1, Zenon DEF SignalInv, Running, loop
<1>3. CASE LoopTest
  <2>1. Running /\ late' = late /\ sigint' = sigint
    BY <1>3 DEF LoopTest, Running, is_valid_bp
  <2>2. at' = "exec" => ~sigint
    BY <1>3, Zenon DEF LoopTest, is_valid_bp
  <2> QED
    BY <2>1, <2>2, Zenon DEF SignalInv
<1>4. CASE Execute
  <2>1. Running /\ late = 0 /\ at' = "test" /\ sigint' = sigint
    BY <1>4 DEF Execute, Running, SignalInv
  <2>2. CASE sigint
    <3>1. late' = late + 1 /\ sigint'
      BY <1>4, <2>1, <2>2, Zenon DEF Execute
    <3> QED
      BY <2>1, <3>1 DEF SignalInv
  <2>3. CASE ~sigint
    <3>1. late' = 0
      BY <1>4, <2>3, Zenon DEF Execute
    <3> QED
      BY <2>1, <3>1 DEF SignalInv
  <2> QED
    BY <2>2, <2>3
<1>5. ASSUME NEW count \in Nat \cup {Forever}, Resume(count) PROVE SignalInv'
  BY <1>5 DEF Resume, SignalInv
<1> QED
  BY <1>1, <1>2, <1>3, <1>4, <1>5, StepsOfALoop

-----------------------------------------------------------------------------
(* Type correctness; a count that is run down never passes below zero,     *)
(* where it would be taken for "forever".                                  *)
THEOREM TypeCorrect == Spec => []TypeOK
BY InitInv, TypeStep, CountStep, PTL DEF Spec

(* Whenever the signal falls, at most one more instruction is executed.    *)
THEOREM SignalStopsLoops == Spec => []PromptSigint
<1>1. SignalInv => PromptSigint
  BY Zenon DEF SignalInv, PromptSigint
<1> QED
  BY <1>1, InitInv, SignalStep, TypeCorrect, PTL DEF Spec

(* A step command of any count executes that many instructions, unless a   *)
(* breakpoint or a signal is the reason.                                   *)
THEOREM StepsAreCounted == Spec => []StepCount
<1>1. TypeOK /\ CountInv => StepCount
  <2> SUFFICES ASSUME TypeOK, CountInv, asked # Forever, Running
               PROVE  /\ executed + n = asked
                      /\ at = "exec" => executed < asked
                      /\ at = "stop" => executed = asked \/ hit \/ sigint
    BY DEF StepCount, Running
  <2>1. n \in Nat /\ executed \in Nat /\ executed + n = asked
    BY DEF TypeOK, CountInv
  <2>2. at = "exec" => n # 0
    BY DEF CountInv
  <2>3. at = "stop" => n = 0 \/ hit \/ sigint
    BY DEF CountInv
  <2>4. n # 0 => executed < asked
    BY <2>1
  <2>5. n = 0 => executed = asked
    BY <2>1
  <2> QED
    BY <2>1, <2>2, <2>3, <2>4, <2>5, Zenon
<1> QED
  BY <1>1, InitInv, CountStep, TypeCorrect, PTL DEF Spec

-----------------------------------------------------------------------------
(* The instruction about to be executed has no breakpoint: LoopTest found  *)
(* none, and the user cannot set one until the loop is over.               *)
ExecInv == at = "exec" => pc \notin bps

(* Breakpoints are neither lost nor stepped over.                          *)
THEOREM BreakpointsStay == Spec => BreakpointsHold
<1>1. Init => ExecInv
  <2>1. Init => at \in {"prompt", "start"}
    BY Zenon DEF Init
  <2> QED
    BY <2>1 DEF ExecInv
<1>2. ExecInv /\ [Next]_vars => ExecInv'
  <2> SUFFICES ASSUME ExecInv, [Next]_vars, at' = "exec" PROVE pc' \notin bps'
    BY DEF ExecInv
  <2>1. CASE LoopTest
    BY <2>1, Zenon DEF LoopTest, is_valid_bp
  <2>2. CASE UNCHANGED <<at, pc, bps>>
    BY <2>2 DEF ExecInv
  <2> QED
    BY <2>1, <2>2
    DEF Next, Loop, Commands, Start, Sigint, Tick, Execute, Stop, Resume, CmdCont, CmdStep, CmdOther,
        CmdQuit, CmdJump, CmdBreak, CmdBreakRm, Command, EndOfInput, vars, insert_bp, remove_bp
<1>3. ExecInv /\ [Next]_vars =>
        [/\ Execute => pc \notin bps
         /\ \A ad \in bps : ad \in bps' \/ CmdBreakRm(ad) \/ (Stop /\ ad = pc)]_vars
  <2> SUFFICES ASSUME ExecInv, Next
               PROVE  /\ Execute => pc \notin bps
                      /\ \A ad \in bps : ad \in bps' \/ CmdBreakRm(ad) \/ (Stop /\ ad = pc)
    OBVIOUS
  <2>1. Execute => pc \notin bps
    BY DEF Execute, ExecInv
  <2>2. CASE bps \subseteq bps'
    BY <2>1, <2>2
  <2>3. CASE Stop
    <3>1. bps' = bps \/ bps' = bps \ {pc}
      BY <2>3, Zenon DEF Stop, remove_bp
    <3> QED
      BY <2>1, <2>3, <3>1
  <2>4. ASSUME NEW a \in Pcs, CmdBreakRm(a)
        PROVE  \A ad \in bps : ad \in bps' \/ CmdBreakRm(ad)
    <3>1. bps' = bps \ {a}
      BY <2>4 DEF CmdBreakRm, remove_bp
    <3> QED
      BY <2>4, <3>1
  <2>5. bps \subseteq bps' \/ Stop \/ \E a \in Pcs : CmdBreakRm(a)
    BY DEF Next, Loop, Commands, Start, Sigint, Tick, LoopTest, Execute, Resume, CmdCont, CmdStep,
           CmdOther, CmdQuit, CmdJump, CmdBreak, Command, EndOfInput, is_valid_bp, insert_bp
  <2> QED
    BY <2>1, <2>2, <2>3, <2>4, <2>5
<1> QED
  BY <1>1, <1>2, <1>3, PTL DEF Spec, BreakpointsHold

-----------------------------------------------------------------------------
(* The difference of two readings of the counter                           *)
Since(a, b) == IF a >= b THEN a - b ELSE a - b + Wrap

LEMMA SinceIsModulo ==
  ASSUME NEW a \in 0..(Wrap - 1), NEW b \in 0..(Wrap - 1)
  PROVE  (a - b) % Wrap = Since(a, b)
<1>1. ASSUME NEW x \in Int, 0 <= x, x < Wrap PROVE x % Wrap = x
  BY <1>1, WrapAssumption
<1>2. ASSUME NEW x \in Int, -Wrap <= x, x < 0 PROVE x % Wrap = x + Wrap
  BY <1>2, WrapAssumption
<1>3. CASE a >= b
  BY <1>1, <1>3, WrapAssumption DEF Since
<1>4. CASE ~(a >= b)
  BY <1>2, <1>4, WrapAssumption DEF Since
<1> QED
  BY <1>3, <1>4

(* A tick moves it on by one, and so does it the time that has run ...     *)
LEMMA NextTick ==
  ASSUME NEW a \in 0..(Wrap - 1)
  PROVE  (a + 1) % Wrap = IF a + 1 = Wrap THEN 0 ELSE a + 1
<1>1. CASE a + 1 = Wrap
  <2>1. Wrap % Wrap = 0
    BY WrapAssumption
  <2> QED
    BY <1>1, <2>1
<1>2. CASE a + 1 # Wrap
  <2>1. ASSUME NEW x \in Int, 0 <= x, x < Wrap PROVE x % Wrap = x
    BY <2>1, WrapAssumption
  <2> QED
    BY <1>2, <2>1, WrapAssumption
<1> QED
  BY <1>1, <1>2

LEMMA SinceTicks ==
  ASSUME NEW a \in 0..(Wrap - 1), NEW b \in 0..(Wrap - 1)
  PROVE  Since((a + 1) % Wrap, b) = (Since(a, b) + 1) % Wrap
<1>1. Since(a, b) \in 0..(Wrap - 1)
  BY WrapAssumption DEF Since
<1>2. (a + 1) % Wrap = IF a + 1 = Wrap THEN 0 ELSE a + 1
  BY NextTick
<1>3. (Since(a, b) + 1) % Wrap = IF Since(a, b) + 1 = Wrap THEN 0 ELSE Since(a, b) + 1
  BY <1>1, NextTick
<1> QED
  BY <1>2, <1>3, WrapAssumption DEF Since

(* ... and a reference moved by the time of a pause is as far behind.      *)
LEMMA SincePause ==
  ASSUME NEW a \in 0..(Wrap - 1), NEW b \in 0..(Wrap - 1), NEW p \in 0..(Wrap - 1)
  PROVE  Since(a, (b + (a - p)) % Wrap) = Since(p, b)
<1> DEFINE x == b + (a - p)
<1>1. ASSUME NEW y \in Int, 0 <= y, y < Wrap PROVE y % Wrap = y
  BY <1>1, WrapAssumption
<1>2. ASSUME NEW y \in Int, -Wrap <= y, y < 0 PROVE y % Wrap = y + Wrap
  BY <1>2, WrapAssumption
<1>3. ASSUME NEW y \in Int, Wrap <= y, y < 2 * Wrap PROVE y % Wrap = y - Wrap
  BY <1>3, WrapAssumption
<1>4. x \in Int /\ -Wrap <= x /\ x < 2 * Wrap
  BY WrapAssumption
<1>5. CASE x < 0
  <2>1. x % Wrap = x + Wrap
    BY <1>2, <1>4, <1>5
  <2> QED
    BY <1>5, <2>1, WrapAssumption DEF Since
<1>6. CASE 0 <= x /\ x < Wrap
  <2>1. x % Wrap = x
    BY <1>1, <1>4, <1>6
  <2> QED
    BY <1>6, <2>1, WrapAssumption DEF Since
<1>7. CASE Wrap <= x
  <2>1. x % Wrap = x - Wrap
    BY <1>3, <1>4, <1>7
  <2> QED
    BY <1>7, <2>1, WrapAssumption DEF Since
<1> QED
  BY <1>4, <1>5, <1>6, <1>7, WrapAssumption

(* The same statement without the modulo                                   *)
ClockInv == ran = IF Running THEN Since(now, tref) ELSE Since(tpause, tref)

LEMMA ResumeKeepsClock ==
  ASSUME TypeOK, ClockInv, ~Running, NEW count, Resume(count)
  PROVE  ClockInv'
<1>1. Running' /\ now' = now /\ ran' = ran /\ tref' = (tref + (now - tpause)) % Wrap
  BY DEF Resume, Running
<1>2. Since(now, (tref + (now - tpause)) % Wrap) = Since(tpause, tref)
  BY SincePause DEF TypeOK
<1>3. Since(now, tref)' = Since(now', tref')
  BY DEF Since
<1>4. ran = Since(tpause, tref)
  BY Zenon DEF ClockInv
<1> QED
  BY <1>1, <1>2, <1>3, <1>4, Zenon DEF ClockInv

(* A width and a history of any length: the clock counts the loops' time   *)
(* and nothing else.                                                       *)
THEOREM PromptIsFree == Spec => []ClockExcludesPrompt
<1>1. Init => ClockInv
  <2> SUFFICES ASSUME Init PROVE ClockInv
    OBVIOUS
  <2>1. Since(0, 0) = 0
    BY DEF Since
  <2> QED
    BY <2>1, Zenon DEF Init, ClockInv
<1>2. TypeOK /\ ClockInv /\ [Next]_vars => ClockInv'
  <2> SUFFICES ASSUME TypeOK, ClockInv, [Next]_vars PROVE ClockInv'
    OBVIOUS
  <2>1. CASE UNCHANGED <<clock, Running>>
    BY <2>1, Zenon DEF ClockInv, clock, Since
  <2>2. CASE Tick
    <3>1. now' = (now + 1) % Wrap /\ UNCHANGED <<tref, tpause, Running>>
      BY <2>2 DEF Tick, Running
    <3>2. CASE Running
      <4>1. ran' = (ran + 1) % Wrap /\ ran = Since(now, tref)
        BY <2>2, <3>2, Zenon DEF Tick, ClockInv
      <4>2. Since((now + 1) % Wrap, tref) = (Since(now, tref) + 1) % Wrap
        BY SinceTicks DEF TypeOK
      <4> QED
        BY <3>1, <3>2, <4>1, <4>2, Zenon DEF ClockInv, Since
    <3>3. CASE ~Running
      <4>1. ran' = ran
        BY <2>2, <3>3, Zenon DEF Tick
      <4> QED
        BY <3>1, <3>3, <4>1, Zenon DEF ClockInv, Since
    <3> QED
      BY <3>2, <3>3
  <2>3. ASSUME NEW count, ~Running, Resume(count) PROVE ClockInv'
    BY <2>3, ResumeKeepsClock
  <2>4. CASE Stop
    <3>1. /\ Running /\ ~Running' /\ tpause' = now /\ UNCHANGED <<tref, ran>>
      BY <2>4 DEF Stop, Running, remove_bp
    <3> QED
      BY <3>1, Zenon DEF ClockInv, Since
  <2>5. CASE LoopTest
    <3>1. at' \in {"stop", "exec"} /\ at = "test" /\ UNCHANGED clock
      BY <2>5, Zenon DEF LoopTest, is_valid_bp
    <3>2. Running /\ Running'
      BY <3>1 DEF Running
    <3> QED
      BY <2>1, <3>1, <3>2
  <2>6. CASE Start \/ CmdCont \/ \E count \in Counts : CmdStep(count)
    BY <2>3, <2>6 DEF Start, CmdCont, CmdStep, Running
  <2>7. CASE Sigint \/ Execute \/ CmdOther \/ CmdQuit \/ EndOfInput \/ UNCHANGED vars
             \/ \E ad \in Pcs : CmdJump(ad) \/ CmdBreak(ad) \/ CmdBreakRm(ad)
    BY <2>1, <2>7
    DEF Sigint, Execute, CmdOther, CmdQuit, CmdJump, CmdBreak, CmdBreakRm, Command, EndOfInput, vars,
        Running, insert_bp, remove_bp
  <2> QED
    BY <2>2, <2>4, <2>5, <2>6, <2>7 DEF Next, Loop, Commands
<1>3. TypeOK /\ ClockInv => ClockExcludesPrompt
  <2> SUFFICES ASSUME TypeOK, ClockInv PROVE ClockExcludesPrompt
    OBVIOUS
  <2>1. (now - tref) % Wrap = Since(now, tref) /\ (tpause - tref) % Wrap = Since(tpause, tref)
    BY SinceIsModulo DEF TypeOK
  <2> QED
    BY <2>1, Zenon DEF ClockInv, ClockExcludesPrompt
<1> QED
  BY <1>1, <1>2, <1>3, TypeCorrect, PTL DEF Spec
=============================================================================
