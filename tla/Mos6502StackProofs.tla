------------------------ MODULE Mos6502StackProofs --------------------------
(***************************************************************************)
(* Proofs about Mos6502Stack for every page size N > 3 and every set of    *)
(* byte values.  StackInPage together with the types is inductive, and it  *)
(* is what the refinement of BoundedStack needs.                           *)
(***************************************************************************)
EXTENDS Mos6502Stack, TLAPS

IInv == TypeOK /\ StackInPage

-----------------------------------------------------------------------------
(* S arithmetic: a discipline that is kept never wraps S, and S stays a    *)
(* byte when it does wrap.                                                 *)
LEMMA NoWrap ==
  ASSUME NEW i \in 0..(N - 1)
  PROVE  i % N = i
BY PageAssumption

LEMMA Wraps ==
  ASSUME NEW i \in Int
  PROVE  i % N \in 0..(N - 1)
BY PageAssumption

LEMMA NoOutput == <<>> \in Outputs
BY DEF Outputs

LEMMA InitInv == Init => IInv
BY PageAssumption DEF Init, IInv, TypeOK, StackInPage, Outputs

LEMMA LoadSInv ==
  ASSUME IInv, NEW s \in 0..(N - 1), LoadS(s)
  PROVE  IInv'
BY PageAssumption DEF IInv, TypeOK, StackInPage, LoadS, Outputs

LEMMA PushInv ==
  ASSUME IInv, NEW v \in Value, Push(v)
  PROVE  IInv'
<1> USE PageAssumption
<1>1. sp' \in 0..(N - 1)
  BY Wraps DEF IInv, TypeOK, Push
<1>2. cell' \in [Cells -> Value]
  BY DEF IInv, TypeOK, Push
<1>3. CASE ok /\ depth < cap
  <2>1. sp = cap - depth /\ sp' = cap - (depth + 1)
    <3>1. sp = cap - depth /\ sp - 1 \in 0..(N - 1)
      BY <1>3 DEF IInv, TypeOK, StackInPage
    <3>2. (sp - 1) % N = sp - 1
      BY <3>1, NoWrap
    <3> QED
      BY <3>1, <3>2 DEF IInv, TypeOK, Push
  <2>2. /\ stack' = [stack EXCEPT ![depth + 1] = v] /\ depth' = depth + 1
        /\ cap' = cap /\ ok' = ok /\ out' = <<>>
    BY <1>3 DEF Push, Track
  <2>3. TypeOK'
    BY <1>1, <1>2, <1>3, <2>2, NoOutput DEF IInv, TypeOK
  <2>4. \A i \in 1..depth' : cell'[cap' - i + 1] = stack'[i]
    BY <1>3, <2>1, <2>2 DEF IInv, TypeOK, StackInPage, Push, Cells
  <2> QED
    BY <2>1, <2>2, <2>3, <2>4 DEF IInv, StackInPage
<1>4. CASE ~(ok /\ depth < cap)
  BY <1>1, <1>2, <1>4, NoOutput DEF IInv, TypeOK, StackInPage, Push, Track
<1> QED
  BY <1>3, <1>4

LEMMA PullInv ==
  ASSUME IInv, Pull
  PROVE  IInv'
<1> USE PageAssumption
<1>1. sp' \in 0..(N - 1)
  BY Wraps DEF IInv, TypeOK, Pull
<1>2. out' \in Outputs
  BY DEF IInv, TypeOK, Pull, Outputs, Cells
<1>3. CASE ok /\ depth >= 1
  <2>1. sp = cap - depth /\ sp' = cap - (depth - 1)
    <3>1. sp = cap - depth /\ sp + 1 \in 0..(N - 1)
      BY <1>3 DEF IInv, TypeOK, StackInPage
    <3>2. (sp + 1) % N = sp + 1
      BY <3>1, NoWrap
    <3> QED
      BY <3>1, <3>2 DEF IInv, TypeOK, Pull
  <2> QED
    BY <1>1, <1>2, <1>3, <2>1 DEF IInv, TypeOK, StackInPage, Pull, Track
<1>4. CASE ~(ok /\ depth >= 1)
  BY <1>1, <1>2, <1>4 DEF IInv, TypeOK, StackInPage, Pull, Track
<1> QED
  BY <1>3, <1>4

LEMMA CallInv ==
  ASSUME IInv, NEW h \in Value, NEW l \in Value, Call(h, l)
  PROVE  IInv'
<1> USE PageAssumption
<1>1. sp' \in 0..(N - 1)
  BY Wraps DEF IInv, TypeOK, Call
<1>2. cell' \in [Cells -> Value]
  BY DEF IInv, TypeOK, Call
<1>3. CASE ok /\ depth + 2 <= cap
  <2>1. sp = cap - depth /\ sp' = cap - (depth + 2)
    <3>1. sp = cap - depth /\ sp - 2 \in 0..(N - 1)
      BY <1>3 DEF IInv, TypeOK, StackInPage
    <3>2. (sp - 2) % N = sp - 2
      BY <3>1, NoWrap
    <3> QED
      BY <3>1, <3>2 DEF IInv, TypeOK, Call
  <2>2. /\ stack' = [stack EXCEPT ![depth + 1] = h, ![depth + 2] = l]
        /\ depth' = depth + 2 /\ cap' = cap /\ ok' = ok /\ out' = <<>>
    BY <1>3 DEF Call, Track
  <2>3. TypeOK'
    BY <1>1, <1>2, <1>3, <2>2, NoOutput DEF IInv, TypeOK
  <2>4. \A i \in 1..depth' : cell'[cap' - i + 1] = stack'[i]
    <3> SUFFICES ASSUME NEW i \in 1..(depth + 2)
                 PROVE  cell'[cap - i + 1] = stack'[i]
      BY <2>2
    <3>1. /\ depth \in Nat /\ cap \in 0..(N - 1) /\ depth + 2 <= cap /\ sp = cap - depth
          /\ stack \in [1..N -> Value] /\ cell \in [Cells -> Value]
      BY <1>3, <2>1 DEF IInv, TypeOK
    <3>2. cell' = [cell EXCEPT ![sp] = h, ![sp - 1] = l]
      BY DEF Call
    <3>3. CASE i <= depth
      <4>1. cell[cap - i + 1] = stack[i]
        BY <1>3, <3>1, <3>3 DEF IInv, StackInPage
      <4>2. cap - i + 1 # sp /\ cap - i + 1 # sp - 1 /\ i # depth + 1 /\ i # depth + 2
        BY <3>1, <3>3
      <4>3. cap - i + 1 \in Cells /\ i \in 1..N
        BY <3>1, <3>3 DEF Cells
      <4> QED
        BY <2>2, <3>1, <3>2, <4>1, <4>2, <4>3
    <3>4. CASE i = depth + 1
      <4>1. cap - i + 1 = sp /\ sp # sp - 1 /\ sp \in Cells /\ sp - 1 \in Cells
        BY <3>1, <3>4 DEF Cells
      <4>2. depth + 1 \in 1..N /\ depth + 1 # depth + 2
        BY <3>1
      <4> QED
        BY <2>2, <3>1, <3>2, <3>4, <4>1, <4>2
    <3>5. CASE i = depth + 2
      <4>1. cap - i + 1 = sp - 1 /\ sp - 1 \in Cells
        BY <3>1, <3>5 DEF Cells
      <4>2. depth + 2 \in 1..N
        BY <3>1
      <4> QED
        BY <2>2, <3>1, <3>2, <3>5, <4>1, <4>2
    <3> QED
      BY <3>1, <3>3, <3>4, <3>5
  <2> QED
    BY <2>1, <2>2, <2>3, <2>4 DEF IInv, StackInPage
<1>4. CASE ~(ok /\ depth + 2 <= cap)
  BY <1>1, <1>2, <1>4, NoOutput DEF IInv, TypeOK, StackInPage, Call, Track
<1> QED
  BY <1>3, <1>4

LEMMA ReturnInv ==
  ASSUME IInv, Return
  PROVE  IInv'
<1> USE PageAssumption
<1>1. sp' \in 0..(N - 1)
  BY Wraps DEF IInv, TypeOK, Return
<1>2. out' \in Outputs
  <2>1. cell[sp + 1] \in Value /\ cell[sp + 2] \in Value
    BY DEF IInv, TypeOK, Cells
  <2> QED
    BY <2>1 DEF Return, Outputs
<1>3. CASE ok /\ depth >= 2
  <2>1. sp = cap - depth /\ sp' = cap - (depth - 2)
    <3>1. sp = cap - depth /\ sp + 2 \in 0..(N - 1)
      BY <1>3 DEF IInv, TypeOK, StackInPage
    <3>2. (sp + 2) % N = sp + 2
      BY <3>1, NoWrap
    <3> QED
      BY <3>1, <3>2 DEF IInv, TypeOK, Return
  <2> QED
    BY <1>1, <1>2, <1>3, <2>1 DEF IInv, TypeOK, StackInPage, Return, Track
<1>4. CASE ~(ok /\ depth >= 2)
  BY <1>1, <1>2, <1>4 DEF IInv, TypeOK, StackInPage, Return, Track
<1> QED
  BY <1>3, <1>4

LEMMA BrkRtiInv ==
  ASSUME IInv, Brk \/ Rti
  PROVE  IInv'
<1> USE PageAssumption
<1>1. sp' \in 0..(N - 1)
  <2>1. sp - 3 \in Int /\ sp + 2 \in Int
    BY DEF IInv, TypeOK
  <2> QED
    BY <2>1, Wraps DEF Brk, Rti
<1>2. cell' \in [Cells -> Value]
  BY DEF IInv, TypeOK, Brk, Rti
<1> QED
  BY <1>1, <1>2, NoOutput DEF IInv, TypeOK, StackInPage, Brk, Rti

LEMMA StoreInv ==
  ASSUME IInv, Store
  PROVE  IInv'
<1>1. TypeOK'
  BY DEF IInv, TypeOK, Store, Outputs
<1>2. ASSUME ok', NEW i \in 1..depth
      PROVE  cell'[cap - i + 1] = stack[i]
  <2>1. ok /\ \A c \in Cells : Live(c) => cell'[c] = cell[c]
    BY <1>2 DEF Store
  <2>2. cap - i + 1 \in Cells /\ Live(cap - i + 1)
    BY <1>2, PageAssumption DEF IInv, TypeOK, Cells, Live
  <2> QED
    BY <1>2, <2>1, <2>2 DEF IInv, StackInPage
<1>3. StackInPage'
  BY <1>2 DEF IInv, StackInPage, Store
<1> QED
  BY <1>1, <1>3 DEF IInv

LEMMA StepInv == IInv /\ [Next]_vars => IInv'
<1> SUFFICES ASSUME IInv, [Next]_vars PROVE IInv'
  OBVIOUS
<1>1. CASE UNCHANGED vars
  BY <1>1 DEF IInv, TypeOK, StackInPage, vars
<1>2. CASE Next
  BY <1>2, LoadSInv, PushInv, PullInv, CallInv, ReturnInv, BrkRtiInv, StoreInv DEF Next
<1> QED
  BY <1>1, <1>2

(* The invariant holds in every reachable state.                           *)
LEMMA InvHolds == Spec => []IInv
BY InitInv, StepInv, PTL DEF Spec

(* S stays a byte, an output is what a pull or a return can read, and the  *)
(* depth of the guest's stack never passes the S it loaded.                *)
THEOREM StackTypes == Spec => []TypeOK
<1>1. IInv => TypeOK
  BY DEF IInv
<1> QED
  BY <1>1, InvHolds, PTL

(* While a guest keeps the discipline S has not wrapped and the live cells *)
(* of the page hold what the guest pushed, in order.                       *)
THEOREM LiveCellsIntact == Spec => []StackInPage
<1>1. IInv => StackInPage
  BY DEF IInv
<1> QED
  BY <1>1, InvHolds, PTL

-----------------------------------------------------------------------------
LEMMA UndisciplinedStep ==
  ASSUME IInv', ok' = FALSE, UNCHANGED <<stack, depth, cap>>
  PROVE  Abstract!Undisciplined
BY DEF Abstract!Undisciplined, Abstract!Outputs, Outputs, IInv, TypeOK

LEMMA StepImplements == IInv /\ IInv' /\ [Next]_vars => [Abstract!ANext]_(Abstract!avars)
<1> SUFFICES ASSUME IInv, IInv', [Next]_vars
             PROVE  Abstract!ANext \/ UNCHANGED Abstract!avars
  OBVIOUS
<1> USE PageAssumption
<1>1. ASSUME NEW s \in 0..(N - 1), LoadS(s) PROVE Abstract!ANext
  BY <1>1 DEF LoadS, Abstract!ANext, Abstract!ALoadS
<1>2. ASSUME NEW v \in Value, Push(v) PROVE Abstract!ANext
  <2>1. CASE ok /\ depth < cap
    <3>1. Abstract!APush
      BY <1>2, <2>1 DEF Push, Track, Abstract!APush
    <3> QED
      BY <3>1 DEF Abstract!ANext
  <2>2. CASE ~(ok /\ depth < cap)
    BY <1>2, <2>2, UndisciplinedStep DEF Push, Track, Abstract!ANext
  <2> QED
    BY <2>1, <2>2
<1>3. ASSUME Pull PROVE Abstract!ANext
  <2>1. CASE ok /\ depth >= 1
    <3>1. cell[sp + 1] = stack[depth]
      <4>1. depth \in 1..depth /\ cap - depth + 1 = sp + 1
        BY <2>1 DEF IInv, TypeOK, StackInPage
      <4>2. cell[cap - depth + 1] = stack[depth]
        BY <2>1, <4>1 DEF IInv, StackInPage
      <4> QED
        BY <4>1, <4>2
    <3>2. Abstract!APull
      BY <1>3, <2>1, <3>1 DEF Pull, Track, Abstract!APull
    <3> QED
      BY <3>2 DEF Abstract!ANext
  <2>2. CASE ~(ok /\ depth >= 1)
    BY <1>3, <2>2, UndisciplinedStep DEF Pull, Track, Abstract!ANext
  <2> QED
    BY <2>1, <2>2
<1>4. ASSUME NEW h \in Value, NEW l \in Value, Call(h, l) PROVE Abstract!ANext
  <2>1. CASE ok /\ depth + 2 <= cap
    <3>1. Abstract!ACall
      BY <1>4, <2>1 DEF Call, Track, Abstract!ACall
    <3> QED
      BY <3>1 DEF Abstract!ANext
  <2>2. CASE ~(ok /\ depth + 2 <= cap)
    BY <1>4, <2>2, UndisciplinedStep DEF Call, Track, Abstract!ANext
  <2> QED
    BY <2>1, <2>2
<1>5. ASSUME Return PROVE Abstract!ANext
  <2>1. CASE ok /\ depth >= 2
    <3>1. cap - depth + 1 = sp + 1 /\ cap - (depth - 1) + 1 = sp + 2
      BY <2>1 DEF IInv, TypeOK, StackInPage
    <3>2. depth \in 1..depth /\ depth - 1 \in 1..depth
      BY <2>1 DEF IInv, TypeOK
    <3>3. /\ cell[cap - depth + 1] = stack[depth]
          /\ cell[cap - (depth - 1) + 1] = stack[depth - 1]
      BY <2>1, <3>2 DEF IInv, StackInPage
    <3>4. cell[sp + 1] = stack[depth] /\ cell[sp + 2] = stack[depth - 1]
      BY <3>1, <3>3
    <3>5. Abstract!AReturn
      BY <1>5, <2>1, <3>4 DEF Return, Track, Abstract!AReturn
    <3> QED
      BY <3>5 DEF Abstract!ANext
  <2>2. CASE ~(ok /\ depth >= 2)
    BY <1>5, <2>2, UndisciplinedStep DEF Return, Track, Abstract!ANext
  <2> QED
    BY <2>1, <2>2
<1>6. ASSUME Brk \/ Rti PROVE Abstract!ANext
  BY <1>6, UndisciplinedStep DEF Brk, Rti, Abstract!ANext
<1>7. ASSUME Store PROVE Abstract!ANext
  <2>1. CASE ok'
    <3>1. Abstract!AOther
      BY <1>7, <2>1 DEF Store, Abstract!AOther, IInv, TypeOK
    <3> QED
      BY <3>1 DEF Abstract!ANext
  <2>2. CASE ~ok'
    BY <1>7, <2>2, UndisciplinedStep DEF Store, Abstract!ANext
  <2> QED
    BY <2>1, <2>2
<1>8. CASE UNCHANGED vars
  BY <1>8 DEF vars, Abstract!avars
<1> QED
  BY <1>1, <1>2, <1>3, <1>4, <1>5, <1>6, <1>7, <1>8 DEF Next

(* PHA, PHP, PLA, PLP, JSR, RTS and TXS give a guest the bounded stack of  *)
(* BoundedStack, for every page size and every program.                    *)
THEOREM ImplementsBoundedStack == Spec => ImplementsStack
<1>1. Init => Abstract!AInit
  BY PageAssumption DEF Init, Abstract!AInit
<1> QED
  BY <1>1, InvHolds, StepImplements, PTL DEF Spec, Abstract!ASpec, ImplementsStack
=============================================================================
