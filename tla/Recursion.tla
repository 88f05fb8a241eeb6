------------------------------ MODULE Recursion ------------------------------
(***************************************************************************)
(* Induction for the loops of the program that are written as recursive    *)
(* functions:                                                              *)
(*                                                                         *)
(*     LET f[i \in 0..n] == IF i = 0 THEN Base(x)                          *)
(*                                   ELSE Step(x, f[i - 1], i)             *)
(*     IN  f[n]                                                            *)
(*                                                                         *)
(* x is whatever the loop depends on.  The module is instantiated once for *)
(* every loop and every invariant P of it.                                 *)
(***************************************************************************)
EXTENDS Integers, TLAPS, WellFoundedInduction

CONSTANTS Base(_), Step(_, _, _), P(_, _, _)

\* f is the recursive function, with n rounds of the loop.
IsLoop(f, x, n) ==
    f = [i \in 0..n |-> IF i = 0 THEN Base(x) ELSE Step(x, f[i - 1], i)]

(***************************************************************************)
(* The principle of induction, for a set.                                  *)
(***************************************************************************)
LEMMA SetInduction ==
    ASSUME NEW S \in SUBSET Nat, 0 \in S, \A i \in S : i + 1 \in S
    PROVE  S = Nat
<1> SUFFICES ASSUME Nat \ S # {} PROVE FALSE
    OBVIOUS
<1>1. IsWellFoundedOn(OpToRel(<, Nat), Nat)
    BY NatLessThanWellFounded
<1>2. PICK k \in Nat \ S : \A j \in Nat \ S : ~(<<j, k>> \in OpToRel(<, Nat))
    BY <1>1, WFMin
<1>3. \A j \in Nat \ S : ~(j < k)
    BY <1>2 DEF OpToRel
<1>4. k # 0 /\ k - 1 \in Nat /\ k - 1 < k /\ (k - 1) + 1 = k
    OBVIOUS
<1> QED BY <1>3, <1>4

(***************************************************************************)
(* The recursive function exists: the loop computes something.             *)
(***************************************************************************)
THEOREM LoopExists ==
    ASSUME NEW x, NEW n \in Nat
    PROVE  \E f : IsLoop(f, x, n)
<1> DEFINE S == {k \in Nat : \E f : IsLoop(f, x, k)}
<1>1. 0 \in S
  <2> DEFINE f == [i \in 0..0 |-> Base(x)]
  <2>1. IsLoop(f, x, 0)
      BY DEF IsLoop
  <2> QED BY <2>1
<1>2. ASSUME NEW k \in S PROVE k + 1 \in S
  <2>1. PICK f : IsLoop(f, x, k)
      BY <1>2
  <2> DEFINE g == [i \in 0..(k + 1) |-> IF i <= k THEN f[i] ELSE Step(x, f[k], k + 1)]
  <2>2. ASSUME NEW i \in 0..(k + 1)
        PROVE  g[i] = IF i = 0 THEN Base(x) ELSE Step(x, g[i - 1], i)
    <3>1. CASE i = 0
        BY <3>1, <2>1 DEF IsLoop
    <3>2. CASE i \in 1..k
      <4>1. i - 1 \in 0..k /\ i \in 0..k /\ i - 1 \in 0..(k + 1)
          BY <3>2
      <4> QED BY <3>2, <4>1, <2>1 DEF IsLoop
    <3>3. CASE i = k + 1
      <4>1. k \in 0..(k + 1) /\ (k + 1) - 1 = k /\ ~(k + 1 <= k) /\ k + 1 # 0
          OBVIOUS
      <4> QED BY <3>3, <4>1
    <3> QED BY <3>1, <3>2, <3>3
  <2>3. g = [i \in 0..(k + 1) |-> g[i]]
      OBVIOUS
  <2> HIDE DEF g
  <2>4. IsLoop(g, x, k + 1)
      BY <2>2, <2>3 DEF IsLoop
  <2> QED BY <2>4
<1>3. S \in SUBSET Nat
    OBVIOUS
<1> HIDE DEF S
<1>4. S = Nat
    BY <1>1, <1>2, <1>3, SetInduction
<1> QED BY <1>4 DEF S

(***************************************************************************)
(* What holds before the first round of the loop and is preserved by every *)
(* round holds after every round.                                          *)
(***************************************************************************)
THEOREM LoopInvariant ==
    ASSUME NEW x, NEW n \in Nat, NEW f, IsLoop(f, x, n),
           P(x, 0, Base(x)),
           \A v : \A i \in 1..n : P(x, i - 1, v) => P(x, i, Step(x, v, i))
    PROVE  \A i \in 0..n : P(x, i, f[i])
<1> DEFINE S == {k \in Nat : k <= n => P(x, k, f[k])}
<1>1. 0 \in S
    BY DEF IsLoop
<1>2. ASSUME NEW k \in S PROVE k + 1 \in S
  <2> SUFFICES ASSUME k + 1 <= n PROVE P(x, k + 1, f[k + 1])
      OBVIOUS
  <2>1. /\ P(x, k, f[k]) /\ k + 1 \in 1..n /\ (k + 1) - 1 = k
        /\ k + 1 \in 0..n /\ k + 1 # 0
      BY <1>2
  <2>2. f[k + 1] = Step(x, f[k], k + 1)
      BY <2>1 DEF IsLoop
  <2> HIDE DEF S
  <2>3. P(x, k + 1, Step(x, f[k], k + 1))
      BY <2>1
  <2> QED BY <2>2, <2>3
<1>3. S \in SUBSET Nat
    OBVIOUS
<1> HIDE DEF S
<1>4. S = Nat
    BY <1>1, <1>2, <1>3, SetInduction
<1> QED BY <1>4 DEF S
=============================================================================
