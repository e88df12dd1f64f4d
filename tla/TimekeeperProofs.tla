-------------------------- MODULE TimekeeperProofs --------------------------
(***************************************************************************)
(* Proofs about the master clock, for any number of timers, any periods    *)
(* and any requests: types, the exact charge of every timer, no cycle lost *)
(* by the recursion, and the contract of TimerService.                     *)
(***************************************************************************)
EXTENDS Timekeeper, TLAPS

(* The inductive invariant.  Exactness of a charge alone is not inductive: *)
(* a sweep subtracts mincount, and only the range of the countdowns says   *)
(* that this neither wraps nor skips an expiry.                            *)
PowerOff == phase = "off" => /\ clk_cyclenum = 0
                             /\ fires = [i \in Timers |-> 0]
IInv == TypeOK /\ ExactCharge /\ CountdownInRange /\ NoCycleLost /\ PowerOff

(* Distributivity, the only nonlinear fact of the development: a timer     *)
(* that fires is charged one more period.                                  *)
LEMMA OnePeriodMore ==
  ASSUME NEW k \in Nat, NEW p \in Nat
  PROVE  /\ k * p \in Nat
         /\ (k + 1) * p = k * p + p
BY SMT

LEMMA InitInv == Init => IInv
BY NTimersAssumption, SMT
   DEF Init, IInv, TypeOK, ExactCharge, CountdownInRange, NoCycleLost, PowerOff, Timers

(* Entering the function, the first time or by recursion: when no timer is *)
(* behind the clock, the new sweep is behind by exactly its mincount.      *)
LEMMA EnterInv ==
  ASSUME TypeOK, CountdownInRange, phase # "off",
         \A i \in Timers : Charged(i) = clk_cyclenum,
         NEW n \in Nat, Enter(n), phase' = "sweep",
         UNCHANGED <<countdown, fires>>
  PROVE  /\ \E m \in 0..n : /\ mincount' = m /\ ncycles' = n /\ next' = 1
                            /\ clk_cyclenum' = clk_cyclenum + m
         /\ ExactCharge' /\ CountdownInRange'
<1>1. PICK m \in {n} \cup {countdown[i] : i \in Timers} :
         /\ IsMinCount(m, n)
         /\ mincount' = m
         /\ ncycles' = n
         /\ clk_cyclenum' = clk_cyclenum + m
         /\ next' = 1
  BY DEF Enter
<1>2. m \in Nat /\ m <= n /\ \A i \in Timers : m <= countdown[i]
  BY <1>1 DEF IsMinCount, TypeOK
<1>3. m \in 0..n
  BY <1>2
<1>4. ExactCharge'
  <2> SUFFICES ASSUME NEW i \in Timers
               PROVE  Charged(i)' = clk_cyclenum' - mincount'
    BY <1>1, NTimersAssumption DEF ExactCharge, Timers
  <2>1. Charged(i)' = Charged(i)
    BY DEF Charged
  <2> QED BY <2>1, <1>1, <1>2 DEF TypeOK
<1>5. CountdownInRange'
  BY <1>1, <1>2 DEF CountdownInRange
<1> QED BY <1>1, <1>3, <1>4, <1>5

LEMMA StepInv == IInv /\ [Next]_vars => IInv'
<1> SUFFICES ASSUME IInv, [Next]_vars PROVE IInv'
  OBVIOUS
<1> USE NTimersAssumption, PeriodAssumption, RequestsAssumption
<1>1. CASE Reset
  BY <1>1, SMT
     DEF Reset, IInv, TypeOK, ExactCharge, CountdownInRange, NoCycleLost, PowerOff, Charged, Timers
<1>2. ASSUME NEW n \in Requests, AdvanceClk(n) PROVE IInv'
  <2>1. /\ phase = "idle" /\ phase' = "sweep" /\ n \in Nat
        /\ Enter(n) /\ UNCHANGED <<countdown, fires>> /\ asked' = asked + n
    BY <1>2 DEF AdvanceClk
  <2>2. \A i \in Timers : Charged(i) = clk_cyclenum
    BY <2>1 DEF IInv, ExactCharge
  <2>3. ExactCharge' /\ CountdownInRange'
    BY <2>1, <2>2, EnterInv DEF IInv
  <2>4. PICK m \in 0..n : /\ mincount' = m /\ ncycles' = n /\ next' = 1
                          /\ clk_cyclenum' = clk_cyclenum + m
    BY <2>1, <2>2, EnterInv DEF IInv
  <2>5. /\ phase = "idle" /\ phase' = "sweep" /\ n \in Nat
        /\ UNCHANGED <<countdown, fires>> /\ asked' = asked + n
    BY <2>1
  <2>6. TypeOK'
    BY <2>4, <2>5 DEF IInv, TypeOK
  <2>7. NoCycleLost'
    BY <2>4, <2>5 DEF IInv, TypeOK, NoCycleLost
  <2> QED BY <2>1, <2>3, <2>6, <2>7 DEF IInv, PowerOff
<1>3. CASE Tick
  <2>1. /\ phase = "sweep" /\ phase' = "sweep" /\ next \in Timers
        /\ mincount <= countdown[next] /\ countdown[next] # mincount
        /\ countdown' = [countdown EXCEPT ![next] = @ - mincount]
        /\ next' = next + 1
        /\ UNCHANGED <<clk_cyclenum, ncycles, mincount, fires, asked>>
    BY <1>3 DEF Tick, IInv, TypeOK, CountdownInRange, Timers
  <2>2. countdown[next] - mincount \in Nat \ {0}
    BY <2>1 DEF IInv, TypeOK
  <2>3. TypeOK'
    BY <2>1, <2>2 DEF IInv, TypeOK, Timers
  <2>4. ExactCharge'
    <3> SUFFICES ASSUME NEW i \in Timers
                 PROVE  Charged(i)' = IF i >= next + 1 THEN clk_cyclenum - mincount
                                                       ELSE clk_cyclenum
      BY <2>1 DEF ExactCharge
    <3>1. fires[i] * Period[i] \in Nat
      BY OnePeriodMore DEF IInv, TypeOK, Timers
    <3>2. Charged(i) = IF i >= next THEN clk_cyclenum - mincount ELSE clk_cyclenum
      BY <2>1 DEF IInv, ExactCharge
    <3>3. CASE i = next
      <4>1. Charged(i)' = Charged(i) + mincount
        BY <3>1, <3>3, <2>1 DEF Charged, IInv, TypeOK, Timers
      <4> QED BY <4>1, <3>2, <3>3, <2>1 DEF IInv, TypeOK, Timers
    <3>4. CASE i # next
      <4>1. Charged(i)' = Charged(i)
        BY <3>4, <2>1 DEF Charged, IInv, TypeOK
      <4> QED BY <4>1, <3>2, <3>4, <2>1 DEF IInv, TypeOK, Timers
    <3> QED BY <3>3, <3>4
  <2>5. CountdownInRange'
    BY <2>1, <2>2 DEF IInv, TypeOK, CountdownInRange, Timers
  <2>6. NoCycleLost'
    BY <2>1 DEF IInv, NoCycleLost
  <2> QED BY <2>1, <2>3, <2>4, <2>5, <2>6 DEF IInv, PowerOff
<1>4. CASE Fire
  <2>1. /\ phase = "sweep" /\ phase' = "sweep" /\ next \in Timers
        /\ countdown[next] = mincount
        /\ countdown' = [countdown EXCEPT ![next] = Period[next]]
        /\ fires' = [fires EXCEPT ![next] = @ + 1]
        /\ next' = next + 1
        /\ UNCHANGED <<clk_cyclenum, ncycles, mincount, asked>>
    BY <1>4 DEF Fire, IInv, TypeOK, Timers
  <2>2. TypeOK'
    BY <2>1 DEF IInv, TypeOK, Timers
  <2>3. ExactCharge'
    <3> SUFFICES ASSUME NEW i \in Timers
                 PROVE  Charged(i)' = IF i >= next + 1 THEN clk_cyclenum - mincount
                                                       ELSE clk_cyclenum
      BY <2>1 DEF ExactCharge
    <3>1. /\ fires[i] * Period[i] \in Nat
          /\ (fires[i] + 1) * Period[i] = fires[i] * Period[i] + Period[i]
      BY OnePeriodMore DEF IInv, TypeOK, Timers
    <3>2. Charged(i) = IF i >= next THEN clk_cyclenum - mincount ELSE clk_cyclenum
      BY <2>1 DEF IInv, ExactCharge
    <3>3. CASE i = next
      <4>1. /\ fires'[i] = fires[i] + 1 /\ countdown'[i] = Period[i]
            /\ countdown[i] = mincount
        BY <3>3, <2>1 DEF IInv, TypeOK
      <4>2. Charged(i)' = (fires[i] + 1) * Period[i] + Period[i] - Period[i]
        BY <4>1 DEF Charged
      <4>3. Charged(i) = fires[i] * Period[i] + Period[i] - mincount
        BY <4>1 DEF Charged
      <4>4. Period[i] \in Nat /\ mincount \in Nat
        BY DEF IInv, TypeOK, Timers
      <4>5. Charged(i)' = Charged(i) + mincount
        BY <4>2, <4>3, <4>4, <3>1
      <4> QED BY <4>5, <3>2, <3>3, <2>1 DEF IInv, TypeOK, Timers
    <3>4. CASE i # next
      <4>1. Charged(i)' = Charged(i)
        BY <3>4, <2>1 DEF Charged, IInv, TypeOK
      <4> QED BY <4>1, <3>2, <3>4, <2>1 DEF IInv, TypeOK, Timers
    <3> QED BY <3>3, <3>4
  <2>4. CountdownInRange'
    BY <2>1 DEF IInv, TypeOK, CountdownInRange, Timers
  <2>5. NoCycleLost'
    BY <2>1 DEF IInv, NoCycleLost
  <2> QED BY <2>1, <2>2, <2>3, <2>4, <2>5 DEF IInv, PowerOff
<1>5. CASE Recurse
  <2> DEFINE rest == ncycles - mincount
  <2>1. /\ phase = "sweep" /\ phase' = "sweep" /\ next > NTimers
        /\ Enter(rest) /\ UNCHANGED <<countdown, fires>> /\ asked' = asked
    BY <1>5 DEF Recurse
  <2>2. rest \in Nat
    BY DEF IInv, TypeOK
  <2>3. \A i \in Timers : Charged(i) = clk_cyclenum
    BY <2>1 DEF IInv, TypeOK, ExactCharge, Timers
  <2>4. ExactCharge' /\ CountdownInRange'
    <3> HIDE DEF rest
    <3> QED BY <2>1, <2>2, <2>3, EnterInv DEF IInv
  <2>5. PICK m \in 0..rest : /\ mincount' = m /\ ncycles' = rest /\ next' = 1
                             /\ clk_cyclenum' = clk_cyclenum + m
    <3> HIDE DEF rest
    <3> QED BY <2>1, <2>2, <2>3, EnterInv DEF IInv
  <2>6. /\ phase = "sweep" /\ phase' = "sweep"
        /\ UNCHANGED <<countdown, fires>> /\ asked' = asked
    BY <2>1
  <2>7. TypeOK'
    BY <2>2, <2>5, <2>6 DEF IInv, TypeOK
  <2>8. NoCycleLost'
    BY <2>5, <2>6 DEF IInv, TypeOK, NoCycleLost
  <2> QED BY <2>1, <2>4, <2>7, <2>8 DEF IInv, PowerOff
<1>6. CASE Return
  <2>1. /\ phase = "sweep" /\ phase' = "idle" /\ next > NTimers /\ mincount = ncycles
        /\ UNCHANGED <<clk_cyclenum, countdown, ncycles, mincount, next, fires, asked>>
    BY <1>6 DEF Return
  <2>2. TypeOK'
    BY <2>1 DEF IInv, TypeOK
  <2>3. ExactCharge'
    BY <2>1 DEF IInv, TypeOK, ExactCharge, Charged, Timers
  <2>4. CountdownInRange' /\ NoCycleLost'
    BY <2>1 DEF IInv, TypeOK, CountdownInRange, NoCycleLost
  <2> QED BY <2>1, <2>2, <2>3, <2>4 DEF IInv, PowerOff
<1>7. CASE UNCHANGED vars
  BY <1>7 DEF vars, IInv, TypeOK, ExactCharge, CountdownInRange, NoCycleLost, PowerOff, Charged
<1> QED BY <1>1, <1>2, <1>3, <1>4, <1>5, <1>6, <1>7 DEF Next

-----------------------------------------------------------------------------
LEMMA InvHolds == Spec => []IInv
BY InitInv, StepInv, PTL DEF Spec

(* The variables keep their types; in particular no subtraction of the     *)
(* sweep takes a countdown below zero (timekeeper.c:21).                   *)
THEOREM TypeCorrect == Spec => []TypeOK
BY InvHolds, PTL DEF IInv

(* Every timer has been charged for exactly the clock's cycles, for any    *)
(* split of the requests (timekeeper.c:8-28).                              *)
THEOREM ChargesAreExact == Spec => []ExactCharge
BY InvHolds, PTL DEF IInv

(* Countdowns stay between 1 and their period outside the sweep's step.    *)
THEOREM CountdownsInRange == Spec => []CountdownInRange
BY InvHolds, PTL DEF IInv

(* The recursion neither loses a cycle nor hands one out twice.            *)
THEOREM CyclesConserved == Spec => []NoCycleLost
BY InvHolds, PTL DEF IInv

-----------------------------------------------------------------------------
(* The clock moves only from due event to due event.                       *)
LEMMA EnterElapses ==
  ASSUME IInv, NEW n \in Nat, Enter(n), phase # "off", UNCHANGED fires,
         \A i \in Timers : Charged(i) = clk_cyclenum
  PROVE  [Service!Next]_(<<clk_cyclenum, fires>>)
<1> USE NTimersAssumption, PeriodAssumption
<1>1. PICK m \in {n} \cup {countdown[i] : i \in Timers} :
         IsMinCount(m, n) /\ clk_cyclenum' = clk_cyclenum + m
  BY DEF Enter
<1>2. m \in Nat /\ \A i \in Timers : m <= countdown[i]
  BY <1>1 DEF IsMinCount, IInv, TypeOK
<1>3. CASE m = 0
  BY <1>1, <1>3 DEF IInv, TypeOK
<1>4. CASE m > 0
  <2>1. ASSUME NEW i \in 1..NTimers
        PROVE  clk_cyclenum < Service!Due(i) /\ clk_cyclenum + m <= Service!Due(i)
    <3>1. /\ fires[i] * Period[i] \in Nat
          /\ (fires[i] + 1) * Period[i] = fires[i] * Period[i] + Period[i]
      BY OnePeriodMore DEF IInv, TypeOK, Timers
    <3>2. clk_cyclenum = fires[i] * Period[i] + Period[i] - countdown[i]
      BY DEF Charged, Timers
    <3>3. countdown[i] \in Nat \ {0} /\ m <= countdown[i] /\ Period[i] \in Nat
      BY <1>2 DEF IInv, TypeOK, CountdownInRange, Timers
    <3>4. Service!Due(i) = clk_cyclenum + countdown[i]
      BY <3>1, <3>2, <3>3 DEF Service!Due
    <3> QED BY <3>3, <3>4, <1>2 DEF IInv, TypeOK
  <2>2. clk_cyclenum' \in Int /\ clk_cyclenum' > clk_cyclenum
    BY <1>1, <1>2, <1>4 DEF IInv, TypeOK
  <2>3. Service!Elapse
    BY <1>1, <2>1, <2>2 DEF Service!Elapse
  <2> QED BY <2>3 DEF Service!Next
<1> QED BY <1>2, <1>3, <1>4

LEMMA StepServes == IInv /\ [Next]_vars => [Service!Next]_(<<clk_cyclenum, fires>>)
<1> SUFFICES ASSUME IInv, [Next]_vars
             PROVE  [Service!Next]_(<<clk_cyclenum, fires>>)
  OBVIOUS
<1> USE NTimersAssumption, PeriodAssumption, RequestsAssumption
<1>1. CASE Reset
  (* before the reset nothing has run, so it changes neither *)
  <2>1. clk_cyclenum = 0 /\ fires = [i \in Timers |-> 0]
    BY <1>1 DEF Reset, IInv, PowerOff
  <2> QED BY <1>1, <2>1 DEF Reset
<1>2. ASSUME NEW n \in Requests, AdvanceClk(n)
      PROVE  [Service!Next]_(<<clk_cyclenum, fires>>)
  <2>1. phase = "idle" /\ n \in Nat /\ Enter(n) /\ UNCHANGED fires
    BY <1>2 DEF AdvanceClk
  <2>2. \A i \in Timers : Charged(i) = clk_cyclenum
    BY <2>1 DEF IInv, ExactCharge
  <2> QED BY <2>1, <2>2, EnterElapses
<1>3. CASE Tick
  BY <1>3 DEF Tick
<1>4. CASE Fire
  <2>1. /\ phase = "sweep" /\ next \in Timers /\ countdown[next] = mincount
        /\ fires' = [fires EXCEPT ![next] = @ + 1] /\ clk_cyclenum' = clk_cyclenum
    BY <1>4 DEF Fire, IInv, TypeOK, Timers
  <2>2. /\ fires[next] * Period[next] \in Nat
        /\ (fires[next] + 1) * Period[next] = fires[next] * Period[next] + Period[next]
    BY <2>1, OnePeriodMore DEF IInv, TypeOK, Timers
  <2>3. fires[next] * Period[next] + Period[next] - countdown[next] = clk_cyclenum - mincount
    BY <2>1 DEF IInv, TypeOK, ExactCharge, Charged, Timers
  <2>4. /\ Period[next] \in Nat /\ mincount \in Nat /\ clk_cyclenum \in Nat
        /\ countdown[next] = mincount
    BY <2>1 DEF IInv, TypeOK, Timers
  <2>5. clk_cyclenum = Service!Due(next)
    BY <2>2, <2>3, <2>4 DEF Service!Due
  <2>6. Service!Serve(next)
    BY <2>1, <2>5 DEF Service!Serve
  <2> QED BY <2>1, <2>6 DEF Service!Next, Timers
<1>5. CASE Recurse
  <2> DEFINE rest == ncycles - mincount
  <2>1. /\ phase = "sweep" /\ next > NTimers /\ Enter(rest) /\ UNCHANGED fires
    BY <1>5 DEF Recurse
  <2>2. rest \in Nat
    BY DEF IInv, TypeOK
  <2>3. \A i \in Timers : Charged(i) = clk_cyclenum
    BY <2>1 DEF IInv, TypeOK, ExactCharge, Timers
  <2> HIDE DEF rest
  <2> QED BY <2>1, <2>2, <2>3, EnterElapses
<1>6. CASE Return
  BY <1>6 DEF Return
<1>7. CASE UNCHANGED vars
  BY <1>7 DEF vars
<1> QED BY <1>1, <1>2, <1>3, <1>4, <1>5, <1>6, <1>7 DEF Next

(* The recursive clock implements the contract of TimerService: a callback *)
(* runs at exactly the cycle it is due and time never passes one that has  *)
(* not run.  (That a due callback does run is liveness and left to TLC.)   *)
THEOREM ClockImplementsService == Spec => Service!Spec
<1>1. Init => Service!Init
  BY DEF Init, Service!Init, Timers
<1>2. QED
  BY <1>1, StepServes, InvHolds, PTL DEF Spec, Service!Spec
=============================================================================
