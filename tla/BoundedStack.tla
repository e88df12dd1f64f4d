---------------------------- MODULE BoundedStack ----------------------------
(***************************************************************************)
(* What a guest may expect of the page-one stack: a stack of at most cap   *)
(* bytes, where cap is the S it started from.  Calls push two bytes and    *)
(* returns take them back.  A guest that leaves the discipline (a pull     *)
(* from an empty stack, a push beyond cap, a store into its live bytes)    *)
(* loses every promise until it loads S again.                             *)
(***************************************************************************)
EXTENDS Naturals

CONSTANTS N,      \* bytes in a page
          Value   \* what a byte can hold

VARIABLES stack, depth, cap, out, ok

avars == <<stack, depth, cap, out, ok>>

Outputs == {<<>>} \cup {<<v>> : v \in Value} \cup {<<h, l>> : h, l \in Value}

AInit ==
  /\ stack \in [1..N -> Value] /\ depth = 0 /\ cap \in 0..(N - 1)
  /\ out = <<>> /\ ok = TRUE

APush ==
  /\ ok /\ depth < cap
  /\ depth' = depth + 1
  /\ \E v \in Value : stack' = [stack EXCEPT ![depth + 1] = v]
  /\ out' = <<>>
  /\ UNCHANGED <<cap, ok>>

ACall ==
  /\ ok /\ depth + 2 <= cap
  /\ depth' = depth + 2
  /\ \E h, l \in Value : stack' = [stack EXCEPT ![depth + 1] = h, ![depth + 2] = l]
  /\ out' = <<>>
  /\ UNCHANGED <<cap, ok>>

APull ==
  /\ ok /\ depth >= 1
  /\ out' = <<stack[depth]>>
  /\ depth' = depth - 1
  /\ UNCHANGED <<stack, cap, ok>>

AReturn ==
  /\ ok /\ depth >= 2
  /\ out' = <<stack[depth - 1], stack[depth]>>
  /\ depth' = depth - 2
  /\ UNCHANGED <<stack, cap, ok>>

ALoadS(s) ==
  /\ cap' = s /\ depth' = 0 /\ ok' = TRUE
  /\ out' = <<>>
  /\ UNCHANGED stack

(* The program does something else.                                        *)
AOther ==
  /\ out' = <<>>
  /\ UNCHANGED <<stack, depth, cap, ok>>

(* Outside the discipline nothing but the shape of an output is promised.  *)
Undisciplined ==
  /\ ok' = FALSE
  /\ out' \in Outputs
  /\ UNCHANGED <<stack, depth, cap>>

ANext ==
  \/ APush
  \/ ACall
  \/ APull
  \/ AReturn
  \/ \E s \in 0..(N - 1) : ALoadS(s)
  \/ AOther
  \/ Undisciplined

ASpec == AInit /\ [][ANext]_avars
=============================================================================
