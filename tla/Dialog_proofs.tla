--------------------------- MODULE Dialog_proofs ---------------------------
(***************************************************************************)
(* What the operator types is understood: a line that answers a prompt is  *)
(* read by this prompt, and a selection of modules is what its line says.  *)
(*                                                                         *)
(* The first part is about the parser.  Value, AddNumbers and the loop of  *)
(* parse_numbers_user_selection are recursive functions, about which Recursion *)
(* has the theorems; ReadInv is the invariant of the parser's loop.  The   *)
(* second part is about the conversation.                                  *)
(***************************************************************************)
EXTENDS Dialog, SequenceTheorems, TLAPS

(***************************************************************************)
(* The remainder of a number that is smaller than the divisor.             *)
(***************************************************************************)
LEMMA Remainder ==
    ASSUME NEW n \in Nat, NEW m \in Nat, n < m
    PROVE  n % m = n
OBVIOUS

(***************************************************************************)
(* A number that fits into an int does not wrap around.                    *)
(***************************************************************************)
LEMMA WrapSmall ==
    ASSUME NEW n \in Nat, n < IntLimit
    PROVE  Wrap(n) = n
<1>1. n + IntLimit \in Nat /\ 2 * IntLimit \in Nat /\ n + IntLimit < 2 * IntLimit
    BY IntAssumption
<1>2. (n + IntLimit) % (2 * IntLimit) = n + IntLimit
    BY <1>1, Remainder
<1> QED BY <1>2, IntAssumption DEF Wrap

-----------------------------------------------------------------------------
(* The value of a string of digits. *)

\* Before the first digit, and with one more.
ValueBase(digits) == 0

ValueStep(digits, n, i) == 10 * n + digits[i]

\* The value is a natural number.
ValueInv(digits, i, n) == n \in Nat

ValueLoop == INSTANCE Recursion WITH Base <- ValueBase, Step <- ValueStep, P <- ValueInv

(***************************************************************************)
(* Value is what its loop computes.                                        *)
(***************************************************************************)
LEMMA ValueComputed ==
    ASSUME NEW d \in Seq(0..9)
    PROVE  \E f : /\ f = [i \in 0..Len(d) |-> IF i = 0 THEN 0 ELSE 10 * f[i - 1] + d[i]]
                  /\ Value(d) = f[Len(d)]
                  /\ \A i \in 0..Len(d) : f[i] \in Nat
<1>1. Len(d) \in Nat
    OBVIOUS
<1>2. \E f : ValueLoop!IsLoop(f, d, Len(d))
    BY <1>1, ValueLoop!LoopExists
<1>3. \E f : f = [i \in 0..Len(d) |-> IF i = 0 THEN 0 ELSE 10 * f[i - 1] + d[i]]
    BY <1>2 DEF ValueLoop!IsLoop, ValueStep, ValueBase
<1>4. PICK f : /\ f = [i \in 0..Len(d) |-> IF i = 0 THEN 0 ELSE 10 * f[i - 1] + d[i]]
               /\ Value(d) = f[Len(d)]
    BY <1>3 DEF Value
<1>5. ValueLoop!IsLoop(f, d, Len(d))
    BY <1>4 DEF ValueLoop!IsLoop, ValueStep, ValueBase
<1>6. ValueInv(d, 0, ValueBase(d))
    BY DEF ValueInv, ValueBase
<1>7. ASSUME NEW n, NEW i \in 1..Len(d), ValueInv(d, i - 1, n)
      PROVE  ValueInv(d, i, ValueStep(d, n, i))
    BY <1>7 DEF ValueInv, ValueStep
<1>8. \A i \in 0..Len(d) : ValueInv(d, i, f[i])
    BY <1>1, <1>5, <1>6, <1>7, ValueLoop!LoopInvariant
<1> QED BY <1>4, <1>8 DEF ValueInv

(***************************************************************************)
(* One more digit: what the loop of the parser does with cur_num.          *)
(***************************************************************************)
LEMMA ValueFacts ==
    /\ Value(<<>>) = 0
    /\ \A d \in Seq(0..9) : Value(d) \in Nat
    /\ \A d \in Seq(0..9), c \in 0..9 : Value(Append(d, c)) = 10 * Value(d) + c
<1>1. Value(<<>>) = 0
  <2>1. <<>> \in Seq(0..9) /\ Len(<<>>) = 0
      OBVIOUS
  <2>2. PICK f : /\ f = [i \in 0..0 |-> IF i = 0 THEN 0 ELSE 10 * f[i - 1] + <<>>[i]]
                 /\ Value(<<>>) = f[0]
      BY <2>1, ValueComputed
  <2>3. 0 \in 0..0
      OBVIOUS
  <2> QED BY <2>2, <2>3
<1>2. ASSUME NEW d \in Seq(0..9) PROVE Value(d) \in Nat
  <2>1. Len(d) \in 0..Len(d)
      OBVIOUS
  <2> QED BY <2>1, ValueComputed
<1>3. ASSUME NEW d \in Seq(0..9), NEW c \in 0..9
      PROVE  Value(Append(d, c)) = 10 * Value(d) + c
  <2> DEFINE e == Append(d, c)
             n == Len(d)
  <2>1. /\ e \in Seq(0..9) /\ n \in Nat /\ Len(e) = n + 1 /\ e[n + 1] = c
        /\ \A i \in 1..n : e[i] = d[i]
      OBVIOUS
  <2> HIDE DEF e, n
  <2>2. PICK f : /\ f = [i \in 0..n |-> IF i = 0 THEN 0 ELSE 10 * f[i - 1] + d[i]]
                 /\ Value(d) = f[n]
      BY ValueComputed DEF n
  <2>3. PICK g : /\ g = [i \in 0..(n + 1) |-> IF i = 0 THEN 0 ELSE 10 * g[i - 1] + e[i]]
                 /\ Value(e) = g[n + 1]
      BY <2>1, ValueComputed
  <2> DEFINE S == {k \in Nat : k <= n => f[k] = g[k]}
  <2>4. 0 \in S
    <3>1. 0 \in 0..n /\ 0 \in 0..(n + 1)
        BY <2>1
    <3>2. f[0] = 0 /\ g[0] = 0
        BY <2>2, <2>3, <3>1
    <3> QED BY <3>2
  <2>5. ASSUME NEW k \in S PROVE k + 1 \in S
    <3> SUFFICES ASSUME k + 1 <= n PROVE f[k + 1] = g[k + 1]
        OBVIOUS
    <3>1. /\ k + 1 \in 0..n /\ k + 1 \in 0..(n + 1) /\ k + 1 # 0 /\ (k + 1) - 1 = k
          /\ k + 1 \in 1..n /\ k <= n
        BY <2>1
    <3>2. f[k + 1] = 10 * f[k] + d[k + 1]
        BY <2>2, <3>1
    <3>3. g[k + 1] = 10 * g[k] + e[k + 1]
        BY <2>3, <3>1
    <3>4. f[k] = g[k]
        BY <2>5, <3>1
    <3> QED BY <2>1, <3>1, <3>2, <3>3, <3>4
  <2>6. S \in SUBSET Nat
      OBVIOUS
  <2> HIDE DEF S
  <2>7. S = Nat
      BY <2>4, <2>5, <2>6, ValueLoop!SetInduction
  <2>8. f[n] = g[n]
      BY <2>1, <2>7 DEF S
  <2>9. g[n + 1] = 10 * g[n] + c
    <3>1. n + 1 \in 0..(n + 1) /\ n + 1 # 0 /\ (n + 1) - 1 = n
        BY <2>1
    <3> QED BY <2>1, <2>3, <3>1
  <2> QED BY <2>2, <2>3, <2>8, <2>9 DEF e
<1> QED BY <1>1, <1>2, <1>3

-----------------------------------------------------------------------------
(* The numbers that are added to a selection. *)

\* No number is in the selection twice.
Distinct(nums) == \A i, j \in DOMAIN nums : nums[i] = nums[j] => i = j

\* The numbers of a selection.
Members(nums) == {nums[i] : i \in DOMAIN nums}

\* A selection without duplicates that has these numbers.
Selects(nums, set) == nums \in Seq(Int) /\ Distinct(nums) /\ Members(nums) = set

\* The loop of AddNumbers; x is the selection, the first and the last number.
AddBase(x) == x[1]

AddStep(x, nums, k) == AddNumber(nums, x[2] + k - 1)

\* So far these numbers have been added.
AddInv(x, k, nums) == Selects(nums, Members(x[1]) \cup (x[2]..(x[2] + k - 1)))

AddLoop == INSTANCE Recursion WITH Base <- AddBase, Step <- AddStep, P <- AddInv

(***************************************************************************)
(* A number that is there already is not added.                            *)
(***************************************************************************)
LEMMA AddNumberFacts ==
    ASSUME NEW nums, NEW set, NEW n \in Int, Selects(nums, set)
    PROVE  Selects(AddNumber(nums, n), set \cup {n})
<1> USE DEF Selects
<1>1. Contains(nums, n) <=> n \in set
    BY DEF Contains, Members
<1>2. CASE n \in set
    BY <1>1, <1>2 DEF AddNumber
<1>3. CASE n \notin set
  <2> DEFINE t == Append(nums, n)
  <2>1. AddNumber(nums, n) = t
      BY <1>1, <1>3 DEF AddNumber
  <2>2. /\ t \in Seq(Int) /\ DOMAIN t = 1..(Len(nums) + 1) /\ t[Len(nums) + 1] = n
        /\ DOMAIN nums = 1..Len(nums) /\ Len(nums) \in Nat
        /\ \A i \in 1..Len(nums) : t[i] = nums[i]
      OBVIOUS
  <2>3. \A i \in DOMAIN nums : nums[i] # n
      BY <1>3 DEF Members
  <2> HIDE DEF t
  <2>4. ASSUME NEW i \in DOMAIN t, NEW j \in DOMAIN t, t[i] = t[j] PROVE i = j
    <3>1. \A k \in DOMAIN t : k \in DOMAIN nums \/ k = Len(nums) + 1
        BY <2>2
    <3>2. CASE i \in DOMAIN nums /\ j \in DOMAIN nums
        BY <2>2, <2>4, <3>2 DEF Distinct
    <3> QED BY <2>2, <2>3, <2>4, <3>1, <3>2
  <2>5. Members(t) = set \cup {n}
    <3>1. \A i \in DOMAIN t : i \in DOMAIN nums \/ i = Len(nums) + 1
        BY <2>2
    <3>2. Members(t) \subseteq set \cup {n}
        BY <3>1, <2>2 DEF Members
    <3>3. Len(nums) + 1 \in DOMAIN t /\ \A i \in DOMAIN nums : i \in DOMAIN t /\ t[i] = nums[i]
        BY <2>2
    <3>4. set \cup {n} \subseteq Members(t)
        BY <3>3, <2>2 DEF Members
    <3> QED BY <3>2, <3>4
  <2> QED BY <2>1, <2>2, <2>4, <2>5 DEF Distinct
<1> QED BY <1>2, <1>3

(***************************************************************************)
(* All numbers of an interval are added, each one once.                    *)
(***************************************************************************)
LEMMA AddNumbersFacts ==
    ASSUME NEW nums, NEW set, NEW from \in Int, NEW to \in Int, from <= to,
           Selects(nums, set)
    PROVE  Selects(AddNumbers(nums, from, to), set \cup (from..to))
<1> DEFINE x == <<nums, from>>
           n == to - from + 1
<1>1. n \in Nat /\ x[1] = nums /\ x[2] = from /\ Members(nums) = set
    BY DEF Selects
<1> HIDE DEF x, n
<1>2. \E f : AddLoop!IsLoop(f, x, n)
    BY <1>1, AddLoop!LoopExists
<1>3. PICK f : AddLoop!IsLoop(f, x, n) /\ AddNumbers(nums, from, to) = f[n]
  <2>1. \E f : f = [k \in 0..(to - from + 1) |->
                       IF k = 0 THEN nums ELSE AddNumber(f[k - 1], from + k - 1)]
      BY <1>1, <1>2 DEF AddLoop!IsLoop, AddStep, AddBase, n
  <2>2. PICK f : /\ f = [k \in 0..(to - from + 1) |->
                       IF k = 0 THEN nums ELSE AddNumber(f[k - 1], from + k - 1)]
                 /\ AddNumbers(nums, from, to) = f[to - from + 1]
      BY <2>1 DEF AddNumbers
  <2> QED BY <1>1, <2>2 DEF AddLoop!IsLoop, AddStep, AddBase, n
<1>4. AddInv(x, 0, AddBase(x))
  <2>1. from..(from + 0 - 1) = {}
      OBVIOUS
  <2> QED BY <1>1, <2>1 DEF AddInv, AddBase
<1>5. ASSUME NEW v, NEW k \in 1..n, AddInv(x, k - 1, v)
      PROVE  AddInv(x, k, AddStep(x, v, k))
  <2>1. from + k - 1 \in Int
      BY <1>1
  <2>2. (from..(from + (k - 1) - 1)) \cup {from + k - 1} = from..(from + k - 1)
      BY <1>1
  <2> QED BY <1>1, <1>5, <2>1, <2>2, AddNumberFacts DEF AddInv, AddStep
<1>6. \A k \in 0..n : AddInv(x, k, f[k])
    BY <1>1, <1>3, <1>4, <1>5, AddLoop!LoopInvariant
<1>7. AddInv(x, n, f[n])
    BY <1>1, <1>6
<1>8. from + n - 1 = to
    BY DEF n
<1> QED BY <1>1, <1>3, <1>7, <1>8 DEF AddInv

-----------------------------------------------------------------------------
(* Parts of a line.  A part is given by its first and its last index.  *)

\* All characters of the part are digits.
Digits(line, a, e) == \A k \in a..e : IsDigit(line[k])

\* The dash at q makes an interval of the part.
DashAt(line, a, e, q) ==
    /\ a < q /\ q < e /\ line[q] = Dash
    /\ Digits(line, a, q - 1) /\ Digits(line, q + 1, e)

(***************************************************************************)
(* A part of a line and the reference's view of it.                        *)
(***************************************************************************)
LEMMA PartFacts ==
    ASSUME NEW line \in Seq(Character), NEW a \in Nat \ {0}, NEW e \in 0..Len(line)
    PROVE  /\ IsNumber(SubSeq(line, a, e)) <=> a <= e /\ Digits(line, a, e)
           /\ Digits(line, a, e) => SubSeq(line, a, e) \in Seq(0..9)
           /\ Digits(line, a, e) => Value(SubSeq(line, a, e)) \in Nat
           /\ a <= e /\ Digits(line, a, e) =>
                 Value(SubSeq(line, a, e)) = 10 * Value(SubSeq(line, a, e - 1)) + line[e]
           /\ e < a => Value(SubSeq(line, a, e)) = 0
<1> DEFINE s == SubSeq(line, a, e)
<1>1. /\ Len(s) = IF a <= e THEN e - a + 1 ELSE 0
      /\ \A i \in 1..(e - a + 1) : s[i] = line[a + i - 1]
      /\ s \in Seq(Character)
  <2>1. \A i \in a..e : line[i] \in Character
      OBVIOUS
  <2> QED BY <2>1, SubSeqProperties
<1>2. Digits(line, a, e) => s \in Seq(0..9)
  <2> SUFFICES ASSUME Digits(line, a, e) PROVE s \in Seq(0..9)
      OBVIOUS
  <2>1. \A i \in a..e : line[i] \in 0..9
      BY DEF Digits, IsDigit
  <2> QED BY <2>1, SubSeqProperties
<1>3. e < a => s = <<>>
    BY SubSeqEmpty
<1> HIDE DEF s
<1>4. IsNumber(s) <=> a <= e /\ Digits(line, a, e)
  <2>1. CASE e < a
      BY <1>3, <2>1 DEF IsNumber
  <2>2. CASE a <= e
    <3>1. s # <<>> /\ DOMAIN s = 1..(e - a + 1)
        BY <1>1, <2>2
    <3>2. ASSUME Digits(line, a, e), NEW i \in 1..(e - a + 1) PROVE IsDigit(s[i])
      <4>1. a + i - 1 \in a..e
          OBVIOUS
      <4> QED BY <1>1, <3>2, <4>1 DEF Digits
    <3>3. ASSUME \A i \in 1..(e - a + 1) : IsDigit(s[i]), NEW k \in a..e
          PROVE  IsDigit(line[k])
      <4>1. k - a + 1 \in 1..(e - a + 1) /\ a + (k - a + 1) - 1 = k
          OBVIOUS
      <4> QED BY <1>1, <3>3, <4>1
    <3> QED BY <2>2, <3>1, <3>2, <3>3 DEF IsNumber, Digits
  <2> QED BY <2>1, <2>2
<1>5. Digits(line, a, e) => Value(s) \in Nat
    BY <1>2, ValueFacts
<1>6. e < a => Value(s) = 0
    BY <1>3, ValueFacts
<1>7. ASSUME a <= e, Digits(line, a, e)
      PROVE  Value(s) = 10 * Value(SubSeq(line, a, e - 1)) + line[e]
  <2> DEFINE t == SubSeq(line, a, e - 1)
  <2>1. t \in Seq(0..9) /\ line[e] \in 0..9
    <3>1. \A i \in a..(e - 1) : line[i] \in 0..9
        BY <1>7 DEF Digits, IsDigit
    <3>2. line[e] \in 0..9
        BY <1>7 DEF Digits, IsDigit
    <3> QED BY <3>1, <3>2, SubSeqProperties
  <2>2. s = t \o <<line[e]>>
    <3>1. a \in 1..Len(line) /\ e \in a..Len(line)
        BY <1>7
    <3> QED BY <3>1, SubSeqRecursiveSecond DEF s
  <2> HIDE DEF t
  <2>3. s = Append(t, line[e])
      BY <2>1, <2>2
  <2> QED BY <2>1, <2>3, ValueFacts DEF t
<1> QED BY <1>2, <1>4, <1>5, <1>6, <1>7 DEF s

(***************************************************************************)
(* A part of a part.                                                       *)
(***************************************************************************)
LEMMA PartOfPart ==
    ASSUME NEW line \in Seq(Character), NEW a \in 1..Len(line), NEW e \in a..Len(line),
           NEW m \in 1..(e - a + 2), NEW n \in 0..(e - a + 1)
    PROVE  SubSeq(SubSeq(line, a, e), m, n) = SubSeq(line, a + m - 1, a + n - 1)
<1>1. CASE n < m
    BY <1>1, SubSeqEmpty
<1>2. CASE m <= n
  <2>1. m \in 1..(e - a + 1) /\ n \in 1..(e - a + 1) /\ e \in 1..Len(line)
      BY <1>2
  <2> QED BY <2>1, SubSeqOfSubSeq
<1> QED BY <1>1, <1>2

(***************************************************************************)
(* What the reference calls an interval, in indices of the line.           *)
(***************************************************************************)
LEMMA IntervalFacts ==
    ASSUME NEW line \in Seq(Character), NEW a \in 1..Len(line), NEW e \in a..Len(line)
    PROVE  LET s == SubSeq(line, a, e)
           IN  /\ DOMAIN s = 1..(e - a + 1)
               /\ \A k \in DOMAIN s : /\ s[k] = line[a + k - 1]
                                      /\ IsInterval(s, k) <=> DashAt(line, a, e, a + k - 1)
               /\ \A k \in DOMAIN s : /\ SubSeq(s, 1, k - 1) = SubSeq(line, a, a + k - 2)
                                      /\ SubSeq(s, k + 1, Len(s)) = SubSeq(line, a + k, e)
               /\ IsOpen(s) <=> a < e /\ line[e] = Dash /\ Digits(line, a, e - 1)
<1> DEFINE s == SubSeq(line, a, e)
<1>1. s \in Seq(Character) /\ Len(s) = e - a + 1 /\ \A i \in 1..(e - a + 1) : s[i] = line[a + i - 1]
  <2>1. \A i \in a..e : line[i] \in Character
      OBVIOUS
  <2> QED BY <2>1, SubSeqProperties
<1>2. ASSUME NEW k \in 1..(e - a + 1)
      PROVE  /\ SubSeq(s, 1, k - 1) = SubSeq(line, a, a + k - 2)
             /\ SubSeq(s, k + 1, Len(s)) = SubSeq(line, a + k, e)
  <2>1. /\ 1 \in 1..(e - a + 2) /\ k - 1 \in 0..(e - a + 1)
        /\ k + 1 \in 1..(e - a + 2) /\ e - a + 1 \in 0..(e - a + 1)
      OBVIOUS
  <2>2. /\ SubSeq(s, 1, k - 1) = SubSeq(line, a + 1 - 1, a + (k - 1) - 1)
        /\ SubSeq(s, k + 1, e - a + 1) = SubSeq(line, a + (k + 1) - 1, a + (e - a + 1) - 1)
      BY <2>1, PartOfPart
  <2>3. /\ a + 1 - 1 = a /\ a + (k - 1) - 1 = a + k - 2 /\ a + (k + 1) - 1 = a + k
        /\ a + (e - a + 1) - 1 = e
      OBVIOUS
  <2> HIDE DEF s
  <2> QED BY <1>1, <2>2, <2>3
<1> HIDE DEF s
<1>3. ASSUME NEW k \in 1..(e - a + 1)
      PROVE  IsInterval(s, k) <=> DashAt(line, a, e, a + k - 1)
  <2>1. /\ a + k - 2 \in 0..Len(line) /\ a + k \in Nat \ {0} /\ a \in Nat \ {0}
        /\ e \in 0..Len(line)
        /\ (a + k - 1) - 1 = a + k - 2 /\ (a + k - 1) + 1 = a + k
        /\ a <= a + k - 2 <=> a < a + k - 1
        /\ a + k <= e <=> a + k - 1 < e
      OBVIOUS
  <2>2. /\ IsNumber(SubSeq(s, 1, k - 1)) <=> a <= a + k - 2 /\ Digits(line, a, a + k - 2)
        /\ IsNumber(SubSeq(s, k + 1, Len(s))) <=> a + k <= e /\ Digits(line, a + k, e)
      BY <1>2, <2>1, PartFacts
  <2>3. s[k] = line[a + k - 1]
      BY <1>1
  <2> QED BY <2>1, <2>2, <2>3 DEF IsInterval, DashAt
<1>4. IsOpen(s) <=> a < e /\ line[e] = Dash /\ Digits(line, a, e - 1)
  <2> DEFINE n == e - a + 1
  <2>1. /\ n \in 1..(e - a + 1) /\ a + n - 2 = e - 1 /\ a + n - 1 = e
        /\ e - 1 \in 0..Len(line) /\ a \in Nat \ {0} /\ a <= e - 1 <=> a < e
      OBVIOUS
  <2>2. Len(s) = n /\ s # <<>>
      BY <1>1
  <2> HIDE DEF n
  <2>3. s[n] = line[e] /\ SubSeq(s, 1, n - 1) = SubSeq(line, a, e - 1)
      BY <1>1, <1>2, <2>1
  <2>4. IsNumber(SubSeq(line, a, e - 1)) <=> a <= e - 1 /\ Digits(line, a, e - 1)
      BY <2>1, PartFacts
  <2>5. IsOpen(s) <=> line[e] = Dash /\ IsNumber(SubSeq(line, a, e - 1))
      BY <2>2, <2>3 DEF IsOpen
  <2> QED BY <2>1, <2>4, <2>5
<1>5. DOMAIN s = 1..(e - a + 1)
    BY <1>1
<1> QED BY <1>1, <1>2, <1>3, <1>4, <1>5 DEF s

(***************************************************************************)
(* There is at most one dash that makes an interval of a part.             *)
(***************************************************************************)
LEMMA OneDash ==
    ASSUME NEW line, NEW a \in Int, NEW e \in Int, NEW p \in Int, NEW q \in Int,
           DashAt(line, a, e, p), DashAt(line, a, e, q)
    PROVE  p = q
<1>1. ~IsDigit(Dash)
    BY DEF IsDigit, Dash
<1>2. ASSUME p < q PROVE FALSE
  <2>1. p \in a..(q - 1)
      BY <1>2 DEF DashAt
  <2> QED BY <1>1, <2>1 DEF DashAt, Digits
<1>3. ASSUME q < p PROVE FALSE
  <2>1. q \in a..(p - 1)
      BY <1>3 DEF DashAt
  <2> QED BY <1>1, <2>1 DEF DashAt, Digits
<1> QED BY <1>2, <1>3

(***************************************************************************)
(* What a part of the line stands for.                                     *)
(***************************************************************************)
LEMMA DenotesFacts ==
    ASSUME NEW line \in Seq(Character), NEW a \in 1..Len(line), NEW e \in a..Len(line)
    PROVE  LET s == SubSeq(line, a, e)
           IN  /\ Digits(line, a, e) => Denotes(s) = {Value(s)}
               /\ \A q \in a..e : DashAt(line, a, e, q) =>
                     LET x == Value(SubSeq(line, a, q - 1))
                         y == Value(SubSeq(line, q + 1, e))
                     IN  Denotes(s) = (x..y) \cup (y..x)
               /\ ~Digits(line, a, e) /\ (\A q \in a..e : ~DashAt(line, a, e, q)) =>
                     Denotes(s) = {}
<1> DEFINE s == SubSeq(line, a, e)
<1>1. /\ DOMAIN s = 1..(e - a + 1)
      /\ \A k \in DOMAIN s : /\ IsInterval(s, k) <=> DashAt(line, a, e, a + k - 1)
                             /\ SubSeq(s, 1, k - 1) = SubSeq(line, a, a + k - 2)
                             /\ SubSeq(s, k + 1, Len(s)) = SubSeq(line, a + k, e)
    BY IntervalFacts
<1>2. IsNumber(s) <=> Digits(line, a, e)
    BY PartFacts
<1> HIDE DEF s
<1>3. Digits(line, a, e) => Denotes(s) = {Value(s)}
    BY <1>2 DEF Denotes
<1>4. ASSUME NEW q \in a..e, DashAt(line, a, e, q)
      PROVE  LET x == Value(SubSeq(line, a, q - 1))
                 y == Value(SubSeq(line, q + 1, e))
             IN  Denotes(s) = (x..y) \cup (y..x)
  <2> DEFINE j == q - a + 1
  <2>1. j \in DOMAIN s /\ a + j - 1 = q /\ a + j - 2 = q - 1 /\ a + j = q + 1
      BY <1>1
  <2>2. ~Digits(line, a, e)
      BY <1>4 DEF Digits, DashAt, IsDigit, Dash
  <2> HIDE DEF j
  <2>3. IsInterval(s, j)
      BY <1>1, <1>4, <2>1
  <2>4. ASSUME NEW k \in DOMAIN s, IsInterval(s, k) PROVE k = j
    <3>1. k \in 1..(e - a + 1) /\ a + k - 1 \in Int /\ q \in Int
        BY <1>1
    <3>2. DashAt(line, a, e, a + k - 1)
        BY <1>1, <2>4
    <3>3. a + k - 1 = q
        BY <1>4, <3>1, <3>2, OneDash
    <3> QED BY <3>1, <3>3 DEF j
  <2>5. (CHOOSE k \in DOMAIN s : IsInterval(s, k)) = j
      BY <2>1, <2>3, <2>4
  <2>6. Denotes(s) = LET x == Value(SubSeq(s, 1, j - 1))
                         y == Value(SubSeq(s, j + 1, Len(s)))
                     IN  x..y \cup y..x
      BY <1>2, <2>1, <2>2, <2>3, <2>5 DEF Denotes
  <2>7. /\ SubSeq(s, 1, j - 1) = SubSeq(line, a, q - 1)
        /\ SubSeq(s, j + 1, Len(s)) = SubSeq(line, q + 1, e)
      BY <1>1, <2>1
  <2> QED BY <2>6, <2>7
<1>5. ASSUME ~Digits(line, a, e), \A q \in a..e : ~DashAt(line, a, e, q)
      PROVE  Denotes(s) = {}
  <2>1. \A k \in DOMAIN s : a + k - 1 \in a..e
      BY <1>1
  <2>2. ~\E k \in DOMAIN s : IsInterval(s, k)
      BY <1>1, <1>5, <2>1
  <2> QED BY <1>2, <1>5, <2>2 DEF Denotes
<1> QED BY <1>3, <1>4, <1>5 DEF s

\* An item without a character stands for nothing.
(***************************************************************************)
(* Nothing between two commas is no item.                                  *)
(***************************************************************************)
LEMMA DenotesEmpty == Denotes(<<>>) = {} /\ ~IsOpen(<<>>)
BY DEF Denotes, IsNumber, IsOpen

-----------------------------------------------------------------------------
(* The items of a line. *)

\* The item of which characters up to i have been read begins at b.
StartOf(line, b, i) ==
    /\ b \in 1..(i + 1)
    /\ b = 1 \/ line[b - 1] = Comma
    /\ \A k \in b..i : line[k] # Comma

\* The items that are over when the i-th character has been read.
Done(line, i) == {p \in Pieces(line) : p[2] < i}

(***************************************************************************)
(* An item is known by its last character.                                 *)
(***************************************************************************)
LEMMA OneStart ==
    ASSUME NEW line \in Seq(Character), NEW i \in 0..Len(line), NEW b, StartOf(line, b, i),
           NEW p \in Pieces(line), p[2] = i
    PROVE  p = <<b, i>>
<1>1. /\ p = <<p[1], p[2]>> /\ p[1] \in 1..(Len(line) + 1) /\ p[1] <= i + 1
      /\ p[1] = 1 \/ line[p[1] - 1] = Comma
      /\ \A k \in p[1]..i : line[k] # Comma
    BY DEF Pieces
<1>2. b \in 1..(i + 1)
    BY DEF StartOf
<1>3. ASSUME p[1] < b PROVE FALSE
  <2>1. b # 1 /\ b - 1 \in p[1]..i
      BY <1>1, <1>2, <1>3
  <2> QED BY <1>1, <2>1 DEF StartOf
<1>4. ASSUME b < p[1] PROVE FALSE
  <2>1. p[1] # 1 /\ p[1] - 1 \in b..i
      BY <1>1, <1>2, <1>4
  <2> QED BY <1>1, <2>1 DEF StartOf
<1> QED BY <1>1, <1>2, <1>3, <1>4

(***************************************************************************)
(* A comma ends the item that has been read, and nothing else does.        *)
(***************************************************************************)
LEMMA DoneFacts ==
    ASSUME NEW line \in Seq(Character), NEW i \in 1..Len(line)
    PROVE  /\ line[i] # Comma => Done(line, i) = Done(line, i - 1)
           /\ \A b : line[i] = Comma /\ StartOf(line, b, i - 1) =>
                 /\ <<b, i - 1>> \in Pieces(line)
                 /\ Done(line, i) = Done(line, i - 1) \cup {<<b, i - 1>>}
                 /\ StartOf(line, i + 1, i)
<1>1. \A p \in Pieces(line) :
          /\ p[2] \in 0..Len(line)
          /\ p[2] = Len(line) \/ line[p[2] + 1] = Comma
    BY DEF Pieces
<1>2. ASSUME NEW p \in Done(line, i) PROVE p \in Done(line, i - 1) \/ p[2] = i - 1
    BY <1>1, <1>2 DEF Done
<1>3. Done(line, i - 1) \subseteq Done(line, i)
    BY <1>1 DEF Done
<1>4. ASSUME line[i] # Comma PROVE Done(line, i) = Done(line, i - 1)
  <2>1. \A p \in Pieces(line) : p[2] # i - 1
    <3>1. (i - 1) + 1 = i /\ i - 1 # Len(line)
        OBVIOUS
    <3> QED BY <1>1, <1>4, <3>1
  <2>2. Done(line, i) \subseteq Done(line, i - 1)
      BY <1>2, <2>1 DEF Done
  <2> QED BY <1>3, <2>2
<1>5. ASSUME NEW b, line[i] = Comma, StartOf(line, b, i - 1)
      PROVE  /\ <<b, i - 1>> \in Pieces(line)
             /\ Done(line, i) = Done(line, i - 1) \cup {<<b, i - 1>>}
             /\ StartOf(line, i + 1, i)
  <2>1. <<b, i - 1>> \in Pieces(line)
    <3>1. b \in 1..i /\ i - 1 \in 0..Len(line) /\ (i - 1) + 1 = i
        BY <1>5 DEF StartOf
    <3> QED BY <1>5, <3>1 DEF StartOf, Pieces
  <2>2. <<b, i - 1>> \in Done(line, i)
      BY <2>1 DEF Done
  <2>3. ASSUME NEW p \in Pieces(line), p[2] = i - 1 PROVE p = <<b, i - 1>>
    <3>1. i - 1 \in 0..Len(line)
        OBVIOUS
    <3> QED BY <1>5, <2>3, <3>1, OneStart
  <2>4. Done(line, i) \subseteq Done(line, i - 1) \cup {<<b, i - 1>>}
      BY <1>2, <2>3 DEF Done
  <2>5. StartOf(line, i + 1, i)
      BY <1>5 DEF StartOf
  <2> QED BY <1>3, <2>1, <2>2, <2>4, <2>5
<1> QED BY <1>4, <1>5

(***************************************************************************)
(* The last item ends with the line.                                       *)
(***************************************************************************)
LEMMA AllDone ==
    ASSUME NEW line \in Seq(Character), NEW b, StartOf(line, b, Len(line))
    PROVE  Pieces(line) = Done(line, Len(line)) \cup {<<b, Len(line)>>}
<1> DEFINE n == Len(line)
<1>1. n \in 0..n
    OBVIOUS
<1>2. <<b, n>> \in Pieces(line)
    BY DEF StartOf, Pieces
<1>3. ASSUME NEW p \in Pieces(line) PROVE p \in Done(line, n) \/ p = <<b, n>>
  <2>1. p[2] \in 0..n
      BY DEF Pieces
  <2>2. CASE p[2] = n
      BY <1>1, <2>2, OneStart
  <2>3. CASE p[2] < n
      BY <2>3 DEF Done
  <2> QED BY <2>1, <2>2, <2>3
<1> QED BY <1>2, <1>3 DEF Done

(***************************************************************************)
(* Every item has an end.                                                  *)
(***************************************************************************)
LEMMA PieceAround ==
    ASSUME NEW line \in Seq(Character), NEW i \in 1..Len(line), NEW b,
           StartOf(line, b, i - 1), line[i] # Comma
    PROVE  \E j \in i..Len(line) : <<b, j>> \in Pieces(line)
<1> DEFINE n == Len(line)
           S == {k \in Nat : i + k <= n => (\A m \in b..(i + k) : line[m] # Comma)}
<1>1. n \in Nat /\ b \in 1..i /\ (b = 1 \/ line[b - 1] = Comma)
    BY DEF StartOf
<1>2. SUFFICES ASSUME ~\E j \in i..n : <<b, j>> \in Pieces(line) PROVE FALSE
    OBVIOUS
<1>3. ASSUME NEW j \in i..n, \A m \in b..j : line[m] # Comma
      PROVE  j # n /\ line[j + 1] # Comma
  <2>1. <<b, j>> \notin Pieces(line)
      BY <1>2
  <2> QED BY <1>1, <1>3, <2>1 DEF Pieces
<1>4. 0 \in S
  <2>1. ASSUME NEW m \in b..(i + 0) PROVE line[m] # Comma
    <3>1. m \in b..(i - 1) \/ m = i
        BY <1>1
    <3> QED BY <3>1 DEF StartOf
  <2> QED BY <2>1
<1>5. ASSUME NEW k \in S PROVE k + 1 \in S
  <2> SUFFICES ASSUME i + (k + 1) <= n, NEW m \in b..(i + (k + 1)) PROVE line[m] # Comma
      OBVIOUS
  <2>1. i + k \in i..n /\ (m \in b..(i + k) \/ m = (i + k) + 1)
      BY <1>1
  <2>2. \A l \in b..(i + k) : line[l] # Comma
      BY <1>5, <2>1
  <2>3. line[(i + k) + 1] # Comma
      BY <1>3, <2>1, <2>2
  <2> QED BY <2>1, <2>2, <2>3
<1>6. S \in SUBSET Nat
    OBVIOUS
<1> HIDE DEF S
<1>7. S = Nat
    BY <1>4, <1>5, <1>6, ValueLoop!SetInduction
<1>8. n - i \in S /\ i + (n - i) = n /\ n \in i..n
    BY <1>7
<1>9. \A m \in b..n : line[m] # Comma
    BY <1>8 DEF S
<1> QED BY <1>3, <1>8, <1>9

-----------------------------------------------------------------------------
(* The loop of the parser. *)

\* Its variables.
Acc == [error : BOOLEAN, is_num : BOOLEAN, is_interval : BOOLEAN,
        cur_num : Int, interval_beg : Int, nums : Seq(Int)]

\* What the variables know of the item that began at b.
Item(line, b, i, acc) ==
    IF acc.is_interval
    THEN \E q \in (b + 1)..i :
            /\ line[q] = Dash
            /\ Digits(line, b, q - 1) /\ acc.interval_beg = Value(SubSeq(line, b, q - 1))
            /\ Digits(line, q + 1, i) /\ acc.cur_num = Value(SubSeq(line, q + 1, i))
            /\ (acc.is_num <=> q < i)
    ELSE /\ Digits(line, b, i) /\ acc.cur_num = Value(SubSeq(line, b, i))
         /\ (acc.is_num <=> b <= i)

\* The numbers of the items that are over.
DoneNumbers(line, i) == UNION {Denotes(Piece(line, p)) : p \in Done(line, i)}

\* The invariant: what has been read, or that the line will have to be refused;
\* behind the last character, that the selection is what the line says.
ReadInv(line, i, acc) ==
    /\ acc \in Acc
    /\ acc.error => ~WellFormed(line)
    /\ ~acc.error /\ i < Len(line) =>
          /\ \E b : StartOf(line, b, i) /\ Item(line, b, i, acc)
          /\ Selects(acc.nums, DoneNumbers(line, i))
          /\ \A p \in Done(line, i) : Denotes(Piece(line, p)) # {}
    /\ ~acc.error /\ i = Len(line) =>
          MeansWhatItSays(line, [error |-> FALSE, nums |-> acc.nums])

ReadBase(line) == NothingRead(line)

ReadStep(line, acc, i) == ReadCharacter(acc, line[i], i = Len(line))

ReadLoop == INSTANCE Recursion WITH Base <- ReadBase, Step <- ReadStep, P <- ReadInv

\* The accumulator after one more digit, and behind a dash.
WithDigit(acc, c) == [acc EXCEPT !.is_num = TRUE, !.cur_num = Wrap(10 * @ + c)]

WithDash(acc) ==
    [acc EXCEPT !.is_num = FALSE, !.is_interval = TRUE, !.interval_beg = acc.cur_num,
                !.cur_num = 0]

(***************************************************************************)
(* The kinds of characters.                                                *)
(***************************************************************************)
LEMMA CharactersDiffer ==
    /\ \A c : IsDigit(c) => c # Comma /\ c # Dash /\ c # Letter
    /\ Comma # Dash /\ Comma # Letter /\ Dash # Letter
    /\ Character = {c \in Int : IsDigit(c)} \cup {Comma, Dash, Letter}
BY DEF IsDigit, Comma, Dash, Letter, Character

(***************************************************************************)
(* What the loop's body does with each of them.                            *)
(***************************************************************************)
LEMMA ReadCharacterFacts ==
    ASSUME NEW acc, NEW c, NEW last
    PROVE  /\ acc.error => ReadCharacter(acc, c, last) = acc
           /\ ~acc.error /\ IsDigit(c) =>
                 ReadCharacter(acc, c, last)
                    = IF last THEN EndItem(WithDigit(acc, c)) ELSE WithDigit(acc, c)
           /\ ~acc.error /\ c = Comma =>
                 ReadCharacter(acc, c, last)
                    = IF last \/ ~acc.is_num THEN Refused(acc) ELSE EndItem(acc)
           /\ ~acc.error /\ c = Dash =>
                 ReadCharacter(acc, c, last)
                    = IF acc.is_num /\ ~acc.is_interval THEN WithDash(acc) ELSE Refused(acc)
           /\ ~acc.error /\ c = Letter => ReadCharacter(acc, c, last) = Refused(acc)
<1>1. ASSUME acc.error PROVE ReadCharacter(acc, c, last) = acc
    BY <1>1, CharactersDiffer, Zenon DEF ReadCharacter
<1>2. ASSUME ~acc.error, IsDigit(c)
      PROVE  ReadCharacter(acc, c, last)
                    = IF last THEN EndItem(WithDigit(acc, c)) ELSE WithDigit(acc, c)
    BY <1>2, CharactersDiffer, Zenon DEF ReadCharacter, WithDigit
<1>3. ASSUME ~acc.error, c = Comma
      PROVE  ReadCharacter(acc, c, last)
                    = IF last \/ ~acc.is_num THEN Refused(acc) ELSE EndItem(acc)
    BY <1>3, CharactersDiffer, Zenon DEF ReadCharacter
<1>4. ASSUME ~acc.error, c = Dash
      PROVE  ReadCharacter(acc, c, last)
                    = IF acc.is_num /\ ~acc.is_interval THEN WithDash(acc) ELSE Refused(acc)
    BY <1>4, CharactersDiffer, Zenon DEF ReadCharacter, WithDash
<1>5. ASSUME ~acc.error, c = Letter PROVE ReadCharacter(acc, c, last) = Refused(acc)
    BY <1>5, CharactersDiffer, Zenon DEF ReadCharacter
<1> QED BY <1>1, <1>2, <1>3, <1>4, <1>5, Zenon

(***************************************************************************)
(* One of the variables is assigned.                                       *)
(***************************************************************************)
LEMMA AccUpdates ==
    ASSUME NEW acc \in Acc
    PROVE  /\ \A v \in BOOLEAN : LET r == [acc EXCEPT !.is_num = v]
              IN  /\ r \in Acc /\ r.is_num = v /\ r.error = acc.error
                  /\ r.is_interval = acc.is_interval /\ r.cur_num = acc.cur_num
                  /\ r.interval_beg = acc.interval_beg /\ r.nums = acc.nums
           /\ \A v \in BOOLEAN : LET r == [acc EXCEPT !.is_interval = v]
              IN  /\ r \in Acc /\ r.is_interval = v /\ r.error = acc.error
                  /\ r.is_num = acc.is_num /\ r.cur_num = acc.cur_num
                  /\ r.interval_beg = acc.interval_beg /\ r.nums = acc.nums
           /\ \A v \in Int : LET r == [acc EXCEPT !.cur_num = v]
              IN  /\ r \in Acc /\ r.cur_num = v /\ r.error = acc.error
                  /\ r.is_num = acc.is_num /\ r.is_interval = acc.is_interval
                  /\ r.interval_beg = acc.interval_beg /\ r.nums = acc.nums
           /\ \A v \in Int : LET r == [acc EXCEPT !.interval_beg = v]
              IN  /\ r \in Acc /\ r.interval_beg = v /\ r.error = acc.error
                  /\ r.is_num = acc.is_num /\ r.is_interval = acc.is_interval
                  /\ r.cur_num = acc.cur_num /\ r.nums = acc.nums
           /\ \A v \in Seq(Int) : LET r == [acc EXCEPT !.nums = v]
              IN  /\ r \in Acc /\ r.nums = v /\ r.error = acc.error
                  /\ r.is_num = acc.is_num /\ r.is_interval = acc.is_interval
                  /\ r.cur_num = acc.cur_num /\ r.interval_beg = acc.interval_beg
BY DEF Acc

(***************************************************************************)
(* The variables after an error, a dash and the end of an item.            *)
(***************************************************************************)
LEMMA AccFacts ==
    ASSUME NEW acc \in Acc
    PROVE  /\ acc.error \in BOOLEAN /\ acc.is_num \in BOOLEAN /\ acc.is_interval \in BOOLEAN
           /\ Refused(acc) \in Acc /\ Refused(acc).error
           /\ WithDash(acc) \in Acc
           /\ WithDash(acc).error = acc.error /\ ~WithDash(acc).is_num
           /\ WithDash(acc).is_interval /\ WithDash(acc).interval_beg = acc.cur_num
           /\ WithDash(acc).cur_num = 0 /\ WithDash(acc).nums = acc.nums
           /\ Gathered(acc) \in Seq(Int) =>
                 /\ EndItem(acc) \in Acc /\ EndItem(acc).error = acc.error
                 /\ EndItem(acc).nums = Gathered(acc) /\ ~EndItem(acc).is_num
                 /\ ~EndItem(acc).is_interval /\ EndItem(acc).cur_num = 0
<1>1. /\ acc.error \in BOOLEAN /\ acc.is_num \in BOOLEAN /\ acc.is_interval \in BOOLEAN
      /\ acc.cur_num \in Int /\ 0 \in Int
    BY DEF Acc
<1>2. Refused(acc) \in Acc /\ Refused(acc).error
    BY DEF Acc, Refused
<1> DEFINE one == [acc EXCEPT !.is_num = FALSE]
           two == [one EXCEPT !.is_interval = TRUE]
           three == [two EXCEPT !.interval_beg = acc.cur_num]
           four == [three EXCEPT !.cur_num = 0]
<1>3. one \in Acc /\ one.nums = acc.nums /\ one.error = acc.error /\ one.is_num = FALSE
    BY AccUpdates
<1>4. WithDash(acc) = four
    BY Zenon DEF WithDash
<1> HIDE DEF one
<1>5. /\ two \in Acc /\ two.nums = acc.nums /\ two.error = acc.error /\ two.is_num = FALSE
      /\ two.is_interval = TRUE
    BY <1>3, AccUpdates
<1> HIDE DEF two
<1>6. /\ three \in Acc /\ three.nums = acc.nums /\ three.error = acc.error
      /\ three.is_num = FALSE /\ three.is_interval = TRUE /\ three.interval_beg = acc.cur_num
    BY <1>1, <1>5, AccUpdates
<1> HIDE DEF three
<1>7. /\ four \in Acc /\ four.nums = acc.nums /\ four.error = acc.error
      /\ four.is_num = FALSE /\ four.is_interval = TRUE /\ four.interval_beg = acc.cur_num
      /\ four.cur_num = 0
    BY <1>1, <1>6, AccUpdates
<1> HIDE DEF four
<1>8. ASSUME Gathered(acc) \in Seq(Int)
      PROVE  /\ EndItem(acc) \in Acc /\ EndItem(acc).error = acc.error
             /\ EndItem(acc).nums = Gathered(acc) /\ ~EndItem(acc).is_num
             /\ ~EndItem(acc).is_interval /\ EndItem(acc).cur_num = 0
  <2> DEFINE a == [acc EXCEPT !.nums = Gathered(acc)]
             b == [a EXCEPT !.cur_num = 0]
             c == [b EXCEPT !.is_num = FALSE]
             d == [c EXCEPT !.is_interval = FALSE]
  <2>1. a \in Acc /\ a.nums = Gathered(acc) /\ a.error = acc.error
      BY <1>8, AccUpdates
  <2>2. EndItem(acc) = d
      BY Zenon DEF EndItem
  <2> HIDE DEF a
  <2>3. b \in Acc /\ b.nums = Gathered(acc) /\ b.error = acc.error /\ b.cur_num = 0
      BY <1>1, <2>1, AccUpdates
  <2> HIDE DEF b
  <2>4. /\ c \in Acc /\ c.nums = Gathered(acc) /\ c.error = acc.error /\ c.cur_num = 0
        /\ c.is_num = FALSE
      BY <2>3, AccUpdates
  <2> HIDE DEF c
  <2>5. /\ d \in Acc /\ d.nums = Gathered(acc) /\ d.error = acc.error /\ d.cur_num = 0
        /\ d.is_num = FALSE /\ d.is_interval = FALSE
      BY <2>4, AccUpdates
  <2> HIDE DEF d
  <2> QED BY <2>2, <2>5
<1> QED BY <1>1, <1>2, <1>4, <1>7, <1>8

(***************************************************************************)
(* Every number of the line fits into an int, also one half read.          *)
(***************************************************************************)
LEMMA FitsPart ==
    ASSUME NEW line \in Seq(Character), Fits(line), NEW a \in 1..Len(line),
           NEW e \in a..Len(line), Digits(line, a, e)
    PROVE  /\ Value(SubSeq(line, a, e)) \in Nat
           /\ Wrap(Value(SubSeq(line, a, e))) = Value(SubSeq(line, a, e))
<1>1. a \in Nat \ {0} /\ e \in 0..Len(line) /\ a \in DOMAIN line /\ e \in DOMAIN line /\ a <= e
    OBVIOUS
<1>2. IsNumber(SubSeq(line, a, e)) /\ Value(SubSeq(line, a, e)) \in Nat
    BY <1>1, PartFacts
<1>3. Value(SubSeq(line, a, e)) < IntLimit
    BY <1>1, <1>2, IntAssumption DEF Fits
<1> QED BY <1>2, <1>3, WrapSmall

(***************************************************************************)
(* A digit.                                                                *)
(***************************************************************************)
LEMMA ReadDigit ==
    ASSUME NEW line \in Seq(Character), Fits(line), NEW i \in 1..Len(line),
           IsDigit(line[i]), NEW b, StartOf(line, b, i - 1), NEW acc \in Acc,
           Item(line, b, i - 1, acc)
    PROVE  LET new == [acc EXCEPT !.is_num = TRUE, !.cur_num = Wrap(10 * @ + line[i])]
           IN  /\ new \in Acc /\ new.is_num /\ new.nums = acc.nums /\ new.error = acc.error
               /\ StartOf(line, b, i) /\ Item(line, b, i, new)
<1> DEFINE new == [acc EXCEPT !.is_num = TRUE, !.cur_num = Wrap(10 * @ + line[i])]
<1>1. b \in 1..i /\ i \in 0..Len(line) /\ i - 1 \in 0..Len(line) /\ i \in Int
    BY DEF StartOf
<1>2. StartOf(line, b, i)
  <2>1. line[i] # Comma
      BY DEF IsDigit, Comma
  <2>2. \A k \in b..i : k \in b..(i - 1) \/ k = i
      BY <1>1
  <2>3. b \in 1..(i + 1)
      BY <1>1
  <2> QED BY <2>1, <2>2, <2>3 DEF StartOf
<1>3. ASSUME NEW a \in 1..i, Digits(line, a, i - 1), acc.cur_num = Value(SubSeq(line, a, i - 1))
      PROVE  Digits(line, a, i) /\ Wrap(10 * acc.cur_num + line[i]) = Value(SubSeq(line, a, i))
             /\ Value(SubSeq(line, a, i)) \in Nat
  <2>1. Digits(line, a, i)
    <3>1. \A k \in a..i : k \in a..(i - 1) \/ k = i
        OBVIOUS
    <3> QED BY <1>3, <3>1 DEF Digits
  <2>2. a \in Nat \ {0} /\ a <= i /\ a \in 1..Len(line) /\ i \in a..Len(line)
      OBVIOUS
  <2>3. Value(SubSeq(line, a, i)) = 10 * acc.cur_num + line[i]
      BY <1>1, <1>3, <2>1, <2>2, PartFacts
  <2> QED BY <2>1, <2>2, <2>3, FitsPart
<1>4. /\ new.is_num = TRUE /\ new.cur_num = Wrap(10 * acc.cur_num + line[i])
      /\ new.nums = acc.nums /\ new.error = acc.error
      /\ new.is_interval = acc.is_interval /\ new.interval_beg = acc.interval_beg
    BY DEF Acc
<1>5. new.cur_num \in Int => new \in Acc
    BY DEF Acc
<1> HIDE DEF new
<1>6. CASE acc.is_interval
  <2>1. PICK q \in (b + 1)..(i - 1) :
            /\ line[q] = Dash
            /\ Digits(line, b, q - 1) /\ acc.interval_beg = Value(SubSeq(line, b, q - 1))
            /\ Digits(line, q + 1, i - 1)
            /\ acc.cur_num = Value(SubSeq(line, q + 1, i - 1))
      BY <1>6 DEF Item
  <2>2. q + 1 \in 1..i /\ q \in (b + 1)..i /\ q < i
      BY <1>1
  <2>3. /\ Digits(line, q + 1, i) /\ new.cur_num = Value(SubSeq(line, q + 1, i))
        /\ new.cur_num \in Nat
      BY <1>3, <1>4, <2>1, <2>2
  <2>4. Item(line, b, i, new)
      BY <1>4, <1>6, <2>1, <2>2, <2>3 DEF Item
  <2> QED BY <1>2, <1>4, <1>5, <2>3, <2>4 DEF new
<1>7. CASE ~acc.is_interval
  <2>1. Digits(line, b, i - 1) /\ acc.cur_num = Value(SubSeq(line, b, i - 1))
      BY <1>7 DEF Item
  <2>2. /\ Digits(line, b, i) /\ new.cur_num = Value(SubSeq(line, b, i))
        /\ new.cur_num \in Nat
      BY <1>1, <1>3, <1>4, <2>1
  <2>3. b <= i
      BY <1>1
  <2>4. Item(line, b, i, new)
      BY <1>4, <1>7, <2>2, <2>3 DEF Item
  <2> QED BY <1>2, <1>4, <1>5, <2>2, <2>4 DEF new
<1> QED BY <1>6, <1>7

(***************************************************************************)
(* The end of an item: what it stands for is added.                        *)
(***************************************************************************)
LEMMA GatheredFacts ==
    ASSUME NEW line \in Seq(Character), NEW e \in 0..Len(line), NEW b, StartOf(line, b, e),
           NEW acc \in Acc, Item(line, b, e, acc), acc.is_num,
           NEW set, Selects(acc.nums, set)
    PROVE  /\ b \in 1..Len(line) /\ e \in b..Len(line)
           /\ Denotes(SubSeq(line, b, e)) # {}
           /\ Selects(Gathered(acc), set \cup Denotes(SubSeq(line, b, e)))
<1>1. b \in 1..(e + 1) /\ e \in Nat /\ e <= Len(line)
    BY DEF StartOf
<1>2. CASE acc.is_interval
  <2>1. PICK q \in (b + 1)..e :
            /\ line[q] = Dash
            /\ Digits(line, b, q - 1) /\ acc.interval_beg = Value(SubSeq(line, b, q - 1))
            /\ Digits(line, q + 1, e) /\ acc.cur_num = Value(SubSeq(line, q + 1, e))
            /\ (acc.is_num <=> q < e)
      BY <1>2 DEF Item
  <2>9. q < e
      BY <2>1
  <2>2. /\ b \in 1..Len(line) /\ e \in b..Len(line) /\ q \in b..e /\ b < q /\ q < e
        /\ q - 1 \in 0..Len(line) /\ q + 1 \in Nat \ {0} /\ b \in Nat \ {0}
      BY <1>1, <2>9
  <2>3. DashAt(line, b, e, q)
      BY <2>1, <2>2 DEF DashAt
  <2> DEFINE x == acc.interval_beg
             y == acc.cur_num
  <2>4. Denotes(SubSeq(line, b, e)) = (x..y) \cup (y..x)
      BY <2>1, <2>2, <2>3, DenotesFacts
  <2>5. x \in Nat /\ y \in Nat
      BY <2>1, <2>2, PartFacts
  <2>6. Gathered(acc) = IF x > y THEN AddNumbers(acc.nums, y, x) ELSE AddNumbers(acc.nums, x, y)
      BY <1>2 DEF Gathered
  <2> HIDE DEF x, y
  <2>7. CASE x > y
    <3>1. x..y = {} /\ y <= x /\ x \in Int /\ y \in Int /\ y \in y..x
        BY <2>5, <2>7
    <3>2. Denotes(SubSeq(line, b, e)) = y..x
        BY <2>4, <3>1
    <3> QED BY <2>2, <2>6, <2>7, <3>1, <3>2, AddNumbersFacts
  <2>8. CASE ~(x > y)
    <3>1. x <= y /\ x \in Int /\ y \in Int /\ x \in x..y /\ y..x \subseteq x..y
        BY <2>5, <2>8
    <3>2. Denotes(SubSeq(line, b, e)) = x..y
        BY <2>4, <3>1
    <3>3. Selects(AddNumbers(acc.nums, x, y), set \cup (x..y))
        BY <3>1, AddNumbersFacts
    <3> QED BY <2>2, <2>6, <2>8, <3>1, <3>2, <3>3
  <2> QED BY <2>7, <2>8
<1>3. CASE ~acc.is_interval
  <2> DEFINE x == acc.cur_num
  <2>1. Digits(line, b, e) /\ x = Value(SubSeq(line, b, e)) /\ b <= e
      BY <1>3 DEF Item
  <2>2. b \in 1..Len(line) /\ e \in b..Len(line) /\ b \in Nat \ {0}
      BY <1>1, <2>1
  <2>3. Denotes(SubSeq(line, b, e)) = {x} /\ x \in Nat
      BY <2>1, <2>2, DenotesFacts, PartFacts
  <2>4. Gathered(acc) = IF x > x THEN AddNumbers(acc.nums, x, x) ELSE AddNumbers(acc.nums, x, x)
      BY <1>3 DEF Gathered
  <2> HIDE DEF x
  <2>5. x..x = {x} /\ x <= x /\ x \in Int
      BY <2>3
  <2>6. Gathered(acc) = AddNumbers(acc.nums, x, x)
      BY <2>4
  <2> QED BY <2>2, <2>3, <2>5, <2>6, AddNumbersFacts
<1> QED BY <1>2, <1>3

(***************************************************************************)
(* An item that is neither a number nor an interval spoils the line, unless*)
(* the line ends with it and its dash.                                     *)
(***************************************************************************)
LEMMA SpoiltItem ==
    ASSUME NEW line \in Seq(Character), NEW b \in 1..Len(line), NEW j \in b..Len(line),
           <<b, j>> \in Pieces(line),
           ~Digits(line, b, j), \A q \in b..j : ~DashAt(line, b, j, q),
           ~(j = Len(line) /\ b < j /\ line[j] = Dash /\ Digits(line, b, j - 1))
    PROVE  ~WellFormed(line)
<1> DEFINE p == <<b, j>>
<1>1. p[1] = b /\ p[2] = j /\ Piece(line, p) = SubSeq(line, b, j)
    BY DEF Piece
<1>2. Denotes(SubSeq(line, b, j)) = {}
    BY DenotesFacts
<1>3. IsOpen(SubSeq(line, b, j)) => b < j /\ line[j] = Dash /\ Digits(line, b, j - 1)
    BY IntervalFacts
<1> HIDE DEF p
<1>4. p \in Pieces(line)
    BY DEF p
<1> QED BY <1>1, <1>2, <1>3, <1>4 DEF WellFormed

(***************************************************************************)
(* A character that is refused has spoilt its item, however it goes on.    *)
(***************************************************************************)
LEMMA SpoiltBy ==
    ASSUME NEW line \in Seq(Character), NEW i \in 1..Len(line), NEW b,
           StartOf(line, b, i - 1), NEW acc, Item(line, b, i - 1, acc),
           \/ line[i] \notin 0..9 \cup {Comma, Dash}
           \/ line[i] = Dash /\ (acc.is_interval \/ ~acc.is_num)
    PROVE  ~WellFormed(line)
<1>1. line[i] # Comma /\ ~IsDigit(line[i]) /\ b \in 1..i /\ ~IsDigit(Dash)
    BY DEF IsDigit, Comma, Dash, StartOf
<1>2. PICK j \in i..Len(line) : <<b, j>> \in Pieces(line)
    BY <1>1, PieceAround
<1>3. b \in 1..Len(line) /\ j \in b..Len(line) /\ i \in b..j
    BY <1>1
<1>4. ~Digits(line, b, j)
    BY <1>1, <1>3 DEF Digits
<1>5. CASE line[i] \notin 0..9 \cup {Comma, Dash}
  <2>1. ASSUME NEW q \in b..j, DashAt(line, b, j, q) PROVE FALSE
    <3>1. q # i
        BY <1>5, <2>1 DEF DashAt
    <3>2. i \in b..(q - 1) \/ i \in (q + 1)..j
        BY <1>3, <3>1
    <3> QED BY <1>1, <2>1, <3>2 DEF DashAt, Digits
  <2>2. ASSUME line[j] = Dash, Digits(line, b, j - 1) PROVE FALSE
    <3>1. i \in b..(j - 1)
        BY <1>3, <1>5, <2>2
    <3> QED BY <1>1, <2>2, <3>1 DEF Digits
  <2> QED BY <1>2, <1>3, <1>4, <2>1, <2>2, SpoiltItem
<1>6. CASE line[i] = Dash /\ acc.is_interval
  <2>1. PICK r \in (b + 1)..(i - 1) : line[r] = Dash
      BY <1>6 DEF Item
  <2>2. r \in b..(j - 1) /\ r < i /\ r \in b..j
      BY <1>1, <1>3
  <2>3. ASSUME NEW q \in b..j, DashAt(line, b, j, q) PROVE FALSE
    <3>1. r \in b..(q - 1) \/ i \in (q + 1)..j
        BY <1>3, <2>2
    <3> QED BY <1>1, <1>6, <2>1, <2>3, <3>1 DEF DashAt, Digits
  <2>4. ~Digits(line, b, j - 1)
      BY <1>1, <2>1, <2>2 DEF Digits
  <2> QED BY <1>2, <1>3, <1>4, <2>3, <2>4, SpoiltItem
<1>7. CASE line[i] = Dash /\ ~acc.is_interval /\ ~acc.is_num
  <2>1. b = i
    <3>1. ~(b <= i - 1)
        BY <1>7 DEF Item
    <3> QED BY <1>1, <3>1
  <2>2. ASSUME NEW q \in b..j, DashAt(line, b, j, q) PROVE FALSE
    <3>1. b \in b..(q - 1)
        BY <1>1, <2>2 DEF DashAt
    <3> QED BY <1>1, <2>1, <2>2, <3>1 DEF DashAt, Digits
  <2>3. ASSUME b < j, Digits(line, b, j - 1) PROVE FALSE
    <3>1. b \in b..(j - 1)
        BY <1>1, <2>3
    <3> QED BY <1>1, <2>1, <2>3, <3>1 DEF Digits
  <2> QED BY <1>2, <1>3, <1>4, <2>2, <2>3, SpoiltItem
<1> QED BY <1>5, <1>6, <1>7

(***************************************************************************)
(* A comma at the end of the line, or with no number before it.            *)
(***************************************************************************)
LEMMA SpoiltByComma ==
    ASSUME NEW line \in Seq(Character), NEW i \in 1..Len(line), line[i] = Comma, NEW b,
           StartOf(line, b, i - 1), NEW acc, Item(line, b, i - 1, acc),
           i = Len(line) \/ ~acc.is_num
    PROVE  ~WellFormed(line)
<1>1. b \in 1..i /\ ~IsDigit(Dash)
    BY DEF StartOf, IsDigit, Dash
<1>2. <<b, i - 1>> \in Pieces(line) /\ StartOf(line, i + 1, i)
    BY DoneFacts
<1>3. CASE i = Len(line)
  <2> DEFINE p == <<i + 1, i>>
  <2>1. p \in Pieces(line)
      BY <1>2, <1>3 DEF StartOf, Pieces
  <2>2. Piece(line, p) = <<>>
    <3>1. SubSeq(line, i + 1, i) = <<>>
        BY SubSeqEmpty
    <3> QED BY <3>1 DEF Piece
  <2> HIDE DEF p
  <2> QED BY <2>1, <2>2, DenotesEmpty DEF WellFormed
<1>4. CASE i < Len(line) /\ ~acc.is_num /\ ~acc.is_interval
  <2>1. b = i
    <3>1. ~(b <= i - 1)
        BY <1>4 DEF Item
    <3> QED BY <1>1, <3>1
  <2> DEFINE p == <<b, i - 1>>
  <2>2. Piece(line, p) = <<>>
    <3>1. SubSeq(line, b, i - 1) = <<>>
        BY <1>1, <2>1, SubSeqEmpty
    <3> QED BY <3>1 DEF Piece
  <2>3. p \in Pieces(line)
      BY <1>2
  <2> HIDE DEF p
  <2> QED BY <2>2, <2>3, DenotesEmpty DEF WellFormed
<1>5. CASE i < Len(line) /\ ~acc.is_num /\ acc.is_interval
  <2>1. PICK r \in (b + 1)..(i - 1) : line[r] = Dash /\ ~(r < i - 1)
      BY <1>5 DEF Item
  <2>2. r = i - 1 /\ b \in 1..Len(line) /\ i - 1 \in b..Len(line) /\ i - 1 # Len(line)
      BY <1>1, <1>5, <2>1
  <2>3. ~Digits(line, b, i - 1)
      BY <1>1, <2>1, <2>2 DEF Digits
  <2>4. ASSUME NEW q \in b..(i - 1), DashAt(line, b, i - 1, q) PROVE FALSE
    <3>1. r \in (q + 1)..(i - 1)
        BY <1>1, <2>2, <2>4 DEF DashAt
    <3> QED BY <1>1, <2>1, <2>4, <3>1 DEF DashAt, Digits
  <2> QED BY <1>2, <2>2, <2>3, <2>4, SpoiltItem
<1> QED BY <1>3, <1>4, <1>5

(***************************************************************************)
(* The end of the line.                                                    *)
(***************************************************************************)
LEMMA EndOfLine ==
    ASSUME NEW line \in Seq(Character), line # <<>>, NEW b, StartOf(line, b, Len(line)),
           NEW last, last = SubSeq(line, b, Len(line)),
           NEW nums, Selects(nums, DoneNumbers(line, Len(line)) \cup Denotes(last)),
           \A p \in Done(line, Len(line)) : Denotes(Piece(line, p)) # {},
           Denotes(last) # {} \/ IsOpen(last)
    PROVE  MeansWhatItSays(line, [error |-> FALSE, nums |-> nums])
<1> DEFINE p == <<b, Len(line)>>
<1>1. Pieces(line) = Done(line, Len(line)) \cup {p}
    BY AllDone
<1>2. Piece(line, p) = last /\ p[2] = Len(line)
    BY DEF Piece
<1> HIDE DEF p
<1>3. WellFormed(line)
    BY <1>1, <1>2 DEF WellFormed
<1>4. UNION {Denotes(Piece(line, q)) : q \in Pieces(line)}
          = DoneNumbers(line, Len(line)) \cup Denotes(last)
    BY <1>1, <1>2 DEF DoneNumbers
<1> QED BY <1>3, <1>4 DEF MeansWhatItSays, Selects, Members, Distinct

(***************************************************************************)
(* A digit, in the middle of the line and at its end.                      *)
(***************************************************************************)
LEMMA DigitPreserves ==
    ASSUME NEW line \in Seq(Character), Fits(line), NEW i \in 1..Len(line), NEW acc,
           ReadInv(line, i - 1, acc), ~acc.error, IsDigit(line[i])
    PROVE  ReadInv(line, i, ReadStep(line, acc, i))
<1> DEFINE new == WithDigit(acc, line[i])
<1>1. /\ acc \in Acc /\ i - 1 < Len(line) /\ line[i] # Comma
      /\ i \in 0..Len(line)
    BY CharactersDiffer DEF ReadInv
<1>2. PICK b : StartOf(line, b, i - 1) /\ Item(line, b, i - 1, acc)
    BY <1>1 DEF ReadInv
<1>3. /\ Selects(acc.nums, DoneNumbers(line, i))
      /\ \A p \in Done(line, i) : Denotes(Piece(line, p)) # {}
    BY <1>1, DoneFacts DEF ReadInv, DoneNumbers
<1>4. /\ new \in Acc /\ new.is_num /\ new.nums = acc.nums /\ new.error = acc.error
      /\ StartOf(line, b, i) /\ Item(line, b, i, new)
    BY <1>1, <1>2, ReadDigit DEF WithDigit
<1>5. ReadStep(line, acc, i) = IF i = Len(line) THEN EndItem(new) ELSE new
    BY ReadCharacterFacts DEF ReadStep
<1> HIDE DEF new
<1>6. CASE i # Len(line)
    BY <1>3, <1>4, <1>5, <1>6 DEF ReadInv
<1>7. CASE i = Len(line)
  <2> DEFINE last == SubSeq(line, b, i)
             end == EndItem(new)
  <2>1. /\ Denotes(last) # {}
        /\ Selects(Gathered(new), DoneNumbers(line, i) \cup Denotes(last))
      BY <1>1, <1>3, <1>4, GatheredFacts
  <2>2. end \in Acc /\ end.error = acc.error /\ end.nums = Gathered(new)
      BY <1>4, <2>1, AccFacts DEF Selects
  <2>3. line # <<>>
      BY <1>7
  <2> HIDE DEF last, end
  <2>4. MeansWhatItSays(line, [error |-> FALSE, nums |-> end.nums])
      BY <1>3, <1>4, <1>7, <2>1, <2>2, <2>3, EndOfLine DEF last
  <2>5. ReadStep(line, acc, i) = end /\ ~(i < Len(line))
      BY <1>5, <1>7 DEF end
  <2> QED BY <2>2, <2>4, <2>5 DEF ReadInv
<1> QED BY <1>6, <1>7

(***************************************************************************)
(* A comma.                                                                *)
(***************************************************************************)
LEMMA CommaPreserves ==
    ASSUME NEW line \in Seq(Character), NEW i \in 1..Len(line), NEW acc,
           ReadInv(line, i - 1, acc), ~acc.error, line[i] = Comma
    PROVE  ReadInv(line, i, ReadStep(line, acc, i))
<1>1. /\ acc \in Acc /\ i - 1 < Len(line) /\ ~IsDigit(line[i])
      /\ i - 1 \in 0..Len(line)
    BY DEF ReadInv, IsDigit, Comma
<1>2. PICK b : StartOf(line, b, i - 1) /\ Item(line, b, i - 1, acc)
    BY <1>1 DEF ReadInv
<1>3. ReadStep(line, acc, i) = IF i = Len(line) \/ ~acc.is_num THEN Refused(acc) ELSE EndItem(acc)
    BY ReadCharacterFacts DEF ReadStep
<1>4. CASE i = Len(line) \/ ~acc.is_num
  <2>1. ~WellFormed(line)
      BY <1>2, <1>4, SpoiltByComma
  <2>2. Refused(acc) \in Acc /\ Refused(acc).error
      BY <1>1, AccFacts
  <2> QED BY <1>3, <1>4, <2>1, <2>2 DEF ReadInv
<1>5. CASE i # Len(line) /\ acc.is_num
  <2> DEFINE p == <<b, i - 1>>
             end == EndItem(acc)
  <2>1. /\ Denotes(SubSeq(line, b, i - 1)) # {}
        /\ Selects(Gathered(acc), DoneNumbers(line, i - 1) \cup Denotes(SubSeq(line, b, i - 1)))
      BY <1>1, <1>2, <1>5, GatheredFacts DEF ReadInv
  <2>2. /\ end \in Acc /\ end.error = acc.error /\ end.nums = Gathered(acc)
        /\ ~end.is_num /\ ~end.is_interval /\ end.cur_num = 0
      BY <1>1, <2>1, AccFacts DEF Selects
  <2>3. Done(line, i) = Done(line, i - 1) \cup {p} /\ StartOf(line, i + 1, i)
      BY <1>2, DoneFacts
  <2>4. Piece(line, p) = SubSeq(line, b, i - 1)
      BY DEF Piece
  <2> HIDE DEF p, end
  <2>5. DoneNumbers(line, i) = DoneNumbers(line, i - 1) \cup Denotes(SubSeq(line, b, i - 1))
      BY <2>3, <2>4 DEF DoneNumbers
  <2>6. \A q \in Done(line, i) : Denotes(Piece(line, q)) # {}
      BY <1>1, <2>1, <2>3, <2>4 DEF ReadInv
  <2>7. Item(line, i + 1, i, end)
    <3>1. Digits(line, i + 1, i) /\ ~(i + 1 <= i)
        BY DEF Digits
    <3>2. Value(SubSeq(line, i + 1, i)) = 0
      <4>1. i + 1 \in Nat \ {0} /\ i \in 0..Len(line) /\ i < i + 1
          OBVIOUS
      <4> QED BY <4>1, PartFacts
    <3> QED BY <2>2, <3>1, <3>2 DEF Item
  <2> QED BY <1>3, <1>5, <2>1, <2>2, <2>3, <2>5, <2>6, <2>7 DEF ReadInv, end
<1> QED BY <1>4, <1>5

(***************************************************************************)
(* A dash, which at the end of the line leaves an open interval.           *)
(***************************************************************************)
LEMMA DashPreserves ==
    ASSUME NEW line \in Seq(Character), NEW i \in 1..Len(line), NEW acc,
           ReadInv(line, i - 1, acc), ~acc.error, line[i] = Dash
    PROVE  ReadInv(line, i, ReadStep(line, acc, i))
<1> DEFINE new == WithDash(acc)
<1>1. /\ acc \in Acc /\ i - 1 < Len(line) /\ ~IsDigit(line[i]) /\ line[i] # Comma
      /\ i - 1 \in 0..Len(line)
    BY DEF ReadInv, IsDigit, Comma, Dash
<1>2. PICK b : StartOf(line, b, i - 1) /\ Item(line, b, i - 1, acc)
    BY <1>1 DEF ReadInv
<1>3. ReadStep(line, acc, i) = IF acc.is_num /\ ~acc.is_interval THEN new ELSE Refused(acc)
    BY ReadCharacterFacts DEF ReadStep
<1>4. CASE ~(acc.is_num /\ ~acc.is_interval)
  <2>1. ~WellFormed(line)
      BY <1>2, <1>4, SpoiltBy
  <2>2. Refused(acc) \in Acc /\ Refused(acc).error
      BY <1>1, AccFacts
  <2> QED BY <1>3, <1>4, <2>1, <2>2 DEF ReadInv
<1>5. CASE acc.is_num /\ ~acc.is_interval
  <2>1. /\ new \in Acc /\ new.nums = acc.nums /\ new.error = acc.error /\ ~new.is_num
        /\ new.is_interval /\ new.interval_beg = acc.cur_num /\ new.cur_num = 0
      BY <1>1, AccFacts
  <2>2. Digits(line, b, i - 1) /\ acc.cur_num = Value(SubSeq(line, b, i - 1)) /\ b <= i - 1
      BY <1>2, <1>5 DEF Item
  <2>3. StartOf(line, b, i) /\ b \in 1..i /\ i \in (b + 1)..i
    <3>1. \A k \in b..i : k \in b..(i - 1) \/ k = i
        BY <1>2 DEF StartOf
    <3>2. b \in 1..i /\ b \in 1..(i + 1)
        BY <1>2 DEF StartOf
    <3> QED BY <1>1, <1>2, <2>2, <3>1, <3>2 DEF StartOf
  <2>4. /\ Selects(acc.nums, DoneNumbers(line, i))
        /\ \A p \in Done(line, i) : Denotes(Piece(line, p)) # {}
      BY <1>1, DoneFacts DEF ReadInv, DoneNumbers
  <2> HIDE DEF new
  <2>5. Item(line, b, i, new)
    <3>1. Digits(line, i + 1, i) /\ ~(i < i)
        BY DEF Digits
    <3>2. Value(SubSeq(line, i + 1, i)) = 0
      <4>1. i + 1 \in Nat \ {0} /\ i \in 0..Len(line) /\ i < i + 1
          OBVIOUS
      <4> QED BY <4>1, PartFacts
    <3> QED BY <2>1, <2>2, <2>3, <3>1, <3>2 DEF Item
  <2>6. CASE i # Len(line)
      BY <1>3, <1>5, <2>1, <2>3, <2>4, <2>5, <2>6 DEF ReadInv
  <2>7. CASE i = Len(line)
    <3> DEFINE last == SubSeq(line, b, i)
    <3>1. b \in 1..Len(line) /\ i \in b..Len(line) /\ b < i
        BY <2>2, <2>3, <2>7
    <3>2. IsOpen(last)
        BY <2>2, <3>1, IntervalFacts
    <3>3. Denotes(last) = {}
      <4>1. ~IsDigit(Dash)
          BY DEF IsDigit, Dash
      <4>2. ~Digits(line, b, i)
          BY <3>1, <4>1 DEF Digits
      <4>3. ASSUME NEW q \in b..i, DashAt(line, b, i, q) PROVE FALSE
        <5>1. q \in b..(i - 1)
            BY <3>1, <4>3 DEF DashAt
        <5> QED BY <2>2, <4>1, <4>3, <5>1 DEF DashAt, Digits
      <4> QED BY <3>1, <4>2, <4>3, DenotesFacts
    <3> HIDE DEF last
    <3>4. Selects(acc.nums, DoneNumbers(line, i) \cup Denotes(last)) /\ line # <<>>
        BY <2>4, <2>7, <3>3
    <3>5. MeansWhatItSays(line, [error |-> FALSE, nums |-> acc.nums])
        BY <2>3, <2>4, <2>7, <3>2, <3>4, EndOfLine DEF last
    <3>6. ReadStep(line, acc, i) = new /\ ~(i < Len(line))
        BY <1>3, <1>5, <2>7
    <3> QED BY <2>1, <3>5, <3>6 DEF ReadInv
  <2> QED BY <2>6, <2>7
<1> QED BY <1>4, <1>5

(***************************************************************************)
(* parse_numbers_user_selection does what the line says, for every line    *)
(* whose numbers are smaller than INT_MAX: the selection has the numbers   *)
(* that are named, each once, and whatever is not a list of numbers and    *)
(* intervals is refused.                                                   *)
(***************************************************************************)
THEOREM SelectionParsed ==
    ASSUME NEW line \in Seq(Character), Fits(line)
    PROVE  MeansWhatItSays(line, parse_numbers_user_selection(line))
<1> DEFINE n == Len(line)
<1>1. n \in Nat
    OBVIOUS
<1>2. \E f : ReadLoop!IsLoop(f, line, n)
    BY <1>1, ReadLoop!LoopExists
<1>3. PICK f : /\ ReadLoop!IsLoop(f, line, n)
               /\ parse_numbers_user_selection(line)
                     = [error |-> f[n].error, nums |-> IF f[n].error THEN <<>> ELSE f[n].nums]
  <2>1. \E f : f = [i \in 0..Len(line) |->
                       IF i = 0 THEN NothingRead(line)
                       ELSE ReadCharacter(f[i - 1], line[i], i = Len(line))]
      BY <1>2 DEF ReadLoop!IsLoop, ReadBase, ReadStep
  <2>2. PICK f : /\ f = [i \in 0..Len(line) |->
                       IF i = 0 THEN NothingRead(line)
                       ELSE ReadCharacter(f[i - 1], line[i], i = Len(line))]
                 /\ parse_numbers_user_selection(line)
                     = [error |-> f[Len(line)].error,
                        nums |-> IF f[Len(line)].error THEN <<>> ELSE f[Len(line)].nums]
      BY <2>1 DEF parse_numbers_user_selection
  <2> QED BY <2>2 DEF ReadLoop!IsLoop, ReadBase, ReadStep
<1>4. ReadInv(line, 0, ReadBase(line))
  <2> DEFINE acc == NothingRead(line)
  <2>1. /\ acc \in Acc /\ (acc.error <=> line = <<>>) /\ acc.is_num = FALSE
        /\ acc.is_interval = FALSE /\ acc.cur_num = 0 /\ acc.nums = <<>>
    <3>1. /\ acc.error = (line = <<>>) /\ acc.is_num = FALSE /\ acc.is_interval = FALSE
          /\ acc.cur_num = 0 /\ acc.nums = <<>>
        BY Zenon DEF NothingRead
    <3>2. acc.error <=> line = <<>>
        BY <3>1, Zenon
    <3>3. CASE line = <<>>
      <4>1. acc = [error |-> TRUE, is_num |-> FALSE, is_interval |-> FALSE,
                   cur_num |-> 0, interval_beg |-> 0, nums |-> <<>>]
          BY <3>3, Zenon DEF NothingRead
      <4> QED BY <3>1, <3>2, <4>1 DEF Acc
    <3>4. CASE line # <<>>
      <4>1. acc = [error |-> FALSE, is_num |-> FALSE, is_interval |-> FALSE,
                   cur_num |-> 0, interval_beg |-> 0, nums |-> <<>>]
          BY <3>4, Zenon DEF NothingRead
      <4> QED BY <3>1, <3>2, <4>1 DEF Acc
    <3> QED BY <3>3, <3>4
  <2> HIDE DEF acc
  <2>2. StartOf(line, 1, 0) /\ Item(line, 1, 0, acc)
    <3>1. Digits(line, 1, 0) /\ ~(1 <= 0)
        BY DEF Digits
    <3>2. Value(SubSeq(line, 1, 0)) = 0
      <4>1. 1 \in Nat \ {0} /\ 0 \in 0..Len(line) /\ 0 < 1
          OBVIOUS
      <4> QED BY <4>1, PartFacts
    <3> QED BY <2>1, <3>1, <3>2 DEF Item, StartOf
  <2>3. Done(line, 0) = {} /\ DoneNumbers(line, 0) = {}
      BY DEF Done, DoneNumbers, Pieces
  <2>4. Selects(<<>>, {})
      BY DEF Selects, Members, Distinct
  <2>5. acc.error => ~WellFormed(line)
      BY <2>1 DEF WellFormed
  <2>6. ~acc.error => 0 # Len(line)
      BY <2>1
  <2> QED BY <2>1, <2>2, <2>3, <2>4, <2>5, <2>6 DEF ReadInv, ReadBase, acc
<1>5. ASSUME NEW acc, NEW i \in 1..n, ReadInv(line, i - 1, acc)
      PROVE  ReadInv(line, i, ReadStep(line, acc, i))
  <2>1. line[i] \in Character
      OBVIOUS
  <2>2. CASE acc.error
    <3>1. ReadStep(line, acc, i) = acc
        BY <2>2, ReadCharacterFacts DEF ReadStep
    <3> QED BY <1>5, <2>2, <3>1 DEF ReadInv
  <2>3. CASE ~acc.error /\ line[i] = Letter
    <3>1. ReadStep(line, acc, i) = Refused(acc)
        BY <2>3, ReadCharacterFacts DEF ReadStep
    <3>2. i - 1 < Len(line) /\ acc \in Acc /\ line[i] \notin 0..9 \cup {Comma, Dash}
        BY <1>5, <2>3 DEF ReadInv, Comma, Dash, Letter
    <3>3. PICK b : StartOf(line, b, i - 1) /\ Item(line, b, i - 1, acc)
        BY <1>5, <2>3, <3>2 DEF ReadInv
    <3>4. ~WellFormed(line)
        BY <3>2, <3>3, SpoiltBy
    <3>5. Refused(acc) \in Acc /\ Refused(acc).error
        BY <3>2, AccFacts
    <3> QED BY <3>1, <3>4, <3>5 DEF ReadInv
  <2> QED BY <1>5, <2>1, <2>2, <2>3, DigitPreserves, CommaPreserves, DashPreserves
          DEF Character, IsDigit
<1>6. ReadInv(line, n, f[n])
  <2>1. \A i \in 0..n : ReadInv(line, i, f[i])
      BY <1>1, <1>3, <1>4, <1>5, ReadLoop!LoopInvariant
  <2> QED BY <1>1, <2>1
<1>7. CASE f[n].error
    BY <1>3, <1>6, <1>7 DEF ReadInv, MeansWhatItSays
<1>8. CASE ~f[n].error
  <2>1. parse_numbers_user_selection(line) = [error |-> FALSE, nums |-> f[n].nums]
    <3>1. f[n].error = FALSE
        BY <1>6, <1>8 DEF ReadInv, Acc
    <3> QED BY <1>3, <3>1
  <2> QED BY <1>6, <1>8, <2>1 DEF ReadInv
<1> QED BY <1>7, <1>8

-----------------------------------------------------------------------------
(* The conversation.  *)

Prompts == {"none", "menu", "question", "logs"}

Line == [for : Prompts, text : Seq(Character)]

\* The types of the variables.
DialogTypeOK ==
    /\ cli \in {"up", "closed"} /\ shown \in Prompts
    /\ hasty \in BOOLEAN /\ zeros \in 0..3 /\ nine_cnt \in Nat
    /\ socket \in Seq(Line) /\ stream \in Seq(Line)
    /\ place \in {"select", "asking", "question", "logs", "reload", "ended"}
    /\ heard \in [by : Prompts, for : Prompts, text : Seq(Character)]

\* The prompt whose answer the client's thread waits for at this place.
WaitsFor(prompt) ==
    \/ place = "select" /\ prompt = "menu"
    \/ place = "question" /\ prompt = "question"
    \/ place = "logs" /\ prompt = "logs"

\* The operator has typed nothing but answers, so client and server are in
\* step: there is one line under way at most, it is read by the prompt it was
\* typed for, and the zeros of a Dstop come while the thread is in select().
InStep ==
    /\ stream = <<>>
    /\ heard.by = heard.for
    /\ \/ socket = <<>>
       \/ /\ Len(socket) = 1 /\ shown = "none"
          /\ place = "ended" \/ WaitsFor(socket[1].for)
    /\ shown # "none" => zeros = 0 /\ socket = <<>> /\ WaitsFor(shown)
    /\ zeros > 0 => /\ place = "select"
                    /\ socket = <<>> \/ socket[1].text = <<0>>

\* The lock is the client's as long as the question is open.
LockWhileAsked == lock = "client" <=> place = "question"

\* The inductive invariant.
DialogInv ==
    /\ DialogTypeOK
    /\ place = "ended" => cli = "closed"
    /\ cli = "closed" => shown = "none"
    /\ ~hasty => InStep

(***************************************************************************)
(* The line with a zero is the option 0.                                   *)
(***************************************************************************)
LEMMA ZeroIsRead ==
    <<0>> \in Seq(Character) /\ get_number_from_input_choosing_option(<<0>>) = 0
<1>1. <<0>> \in Seq(0..9) /\ <<0>> = Append(<<>>, 0) /\ <<>> \in Seq(0..9) /\ 0 \in 0..9
    OBVIOUS
<1>2. Value(Append(<<>>, 0)) = 10 * Value(<<>>) + 0
  <2>1. \A d \in Seq(0..9), c \in 0..9 : Value(Append(d, c)) = 10 * Value(d) + c
      BY ValueFacts
  <2> QED BY <1>1, <2>1, Zenon
<1>3. Value(<<0>>) = 0
  <2>1. Value(<<>>) = 0
      BY ValueFacts
  <2> QED BY <1>1, <1>2, <2>1
<1>4. /\ Len(<<0>>) \in 1..3 /\ \A i \in DOMAIN <<0>> : IsDigit(<<0>>[i])
    BY DEF IsDigit
<1>5. <<0>> \in Seq(Character)
    BY DEF Character
<1> QED BY <1>3, <1>4, <1>5 DEF get_number_from_input_choosing_option

(***************************************************************************)
(* A line is sent.                                                         *)
(***************************************************************************)
LEMMA SentFacts ==
    ASSUME DialogTypeOK, NEW for \in Prompts, NEW text \in Seq(Character), Sent(for, text)
    PROVE  /\ socket' \in Seq(Line)
           /\ socket = <<>> => /\ Len(socket') = 1 /\ socket'[1].for = for
                               /\ socket'[1].text = text
<1> DEFINE new == [for |-> for, text |-> text]
<1>1. new \in Line /\ new.for = for /\ new.text = text
    BY DEF Line
<1>2. socket' = Append(socket, new) /\ socket \in Seq(Line)
    BY DEF Sent, DialogTypeOK
<1> HIDE DEF new
<1>3. socket' \in Seq(Line)
    BY <1>1, <1>2
<1>4. socket = <<>> => Len(socket') = 1 /\ socket'[1] = new
    BY <1>2
<1> QED BY <1>1, <1>3, <1>4

(***************************************************************************)
(* A line is read.                                                         *)
(***************************************************************************)
LEMMA ReadFacts ==
    ASSUME DialogTypeOK, NEW prompt \in Prompts, get_input_from_stream(prompt)
    PROVE  /\ socket' \in Seq(Line) /\ stream' \in Seq(Line)
           /\ heard' \in [by : Prompts, for : Prompts, text : Seq(Character)]
           /\ heard'.by = prompt
           /\ stream = <<>> /\ (socket = <<>> \/ Len(socket) = 1) =>
                 /\ Len(socket) = 1 /\ stream' = <<>> /\ socket' = <<>>
                 /\ heard'.for = socket[1].for /\ heard'.text = socket[1].text
<1> DEFINE all == IF stream = <<>> THEN socket ELSE stream
<1>1. /\ all \in Seq(Line) /\ all # <<>> /\ stream' = Tail(all)
      /\ socket' = IF stream = <<>> THEN <<>> ELSE socket
      /\ heard' = [by |-> prompt, for |-> Head(all).for, text |-> Head(all).text]
      /\ stream = <<>> => all = socket
    BY DEF get_input_from_stream, DialogTypeOK
<1> HIDE DEF all
<1>2. Head(all) \in Line /\ Tail(all) \in Seq(Line) /\ Head(all) = all[1]
    BY <1>1
<1>3. heard' \in [by : Prompts, for : Prompts, text : Seq(Character)] /\ heard'.by = prompt
      /\ heard'.for = all[1].for /\ heard'.text = all[1].text
    BY <1>1, <1>2 DEF Line
<1>4. socket' \in Seq(Line) /\ stream' \in Seq(Line)
    BY <1>1, <1>2 DEF DialogTypeOK
<1>5. ASSUME stream = <<>>, socket = <<>> \/ Len(socket) = 1
      PROVE  /\ Len(socket) = 1 /\ stream' = <<>> /\ socket' = <<>>
             /\ heard'.for = socket[1].for /\ heard'.text = socket[1].text
  <2>1. all = socket /\ Len(socket) = 1 /\ socket \in Seq(Line)
      BY <1>1, <1>5
  <2>2. Tail(socket) = <<>>
    <3>1. Tail(socket) \in Seq(Line) /\ Len(Tail(socket)) = 0
        BY <2>1
    <3> QED BY <3>1, EmptySeq
  <2> QED BY <1>1, <1>3, <1>5, <2>1, <2>2
<1> QED BY <1>3, <1>4, <1>5

(***************************************************************************)
(* Nothing was read, since the client has hung up.                         *)
(***************************************************************************)
LEMMA NothingFacts ==
    /\ Nothing \in [by : Prompts, for : Prompts, text : Seq(Character)]
    /\ Nothing.by = Nothing.for
BY DEF Nothing, Prompts

(***************************************************************************)
(* An answer, or nothing after a hang-up: an operator who is not hasty has *)
(* the only line read by the prompt.                                       *)
(***************************************************************************)
LEMMA AnsweredFacts ==
    ASSUME DialogInv, NEW prompt \in Prompts, Answered(prompt)
    PROVE  /\ socket' \in Seq(Line) /\ stream' \in Seq(Line)
           /\ heard' \in [by : Prompts, for : Prompts, text : Seq(Character)]
           /\ ~hasty => /\ socket' = <<>> /\ stream' = <<>>
                        /\ socket # <<>> =>
                              heard'.by = prompt /\ heard'.for = socket[1].for
                        /\ socket = <<>> => heard'.by = heard'.for
<1>1. CASE get_input_from_stream(prompt)
    BY <1>1, ReadFacts DEF DialogInv, InStep
<1>2. CASE /\ stream = <<>> /\ socket = <<>> /\ cli = "closed" /\ heard' = Nothing
           /\ UNCHANGED <<socket, stream>>
    BY <1>2, NothingFacts DEF DialogInv, DialogTypeOK
<1> QED BY <1>1, <1>2 DEF Answered

(***************************************************************************)
(* The invariant holds when the first operator has connected.              *)
(***************************************************************************)
LEMMA DialogInitially == DialogInit => DialogInv /\ LockWhileAsked
<1> SUFFICES ASSUME DialogInit PROVE DialogInv /\ LockWhileAsked
    OBVIOUS
<1> USE DEF DialogInit
<1>1. <<>> \in Seq(Line)
    OBVIOUS
<1>2. DialogTypeOK
  <2>1. heard \in [by : Prompts, for : Prompts, text : Seq(Character)]
      BY NothingFacts
  <2>2. socket \in Seq(Line) /\ stream \in Seq(Line)
      BY <1>1, Zenon
  <2>3. hasty \in BOOLEAN /\ zeros \in 0..3 /\ nine_cnt \in Nat
    <3>1. hasty \in BOOLEAN
        BY Zenon
    <3> QED BY <3>1
  <2>4. /\ shown \in Prompts /\ cli \in {"up", "closed"}
        /\ place \in {"select", "asking", "question", "logs", "reload", "ended"}
      BY DEF Prompts
  <2> QED BY <2>1, <2>2, <2>3, <2>4 DEF DialogTypeOK
<1>3. InStep
    BY NothingFacts DEF InStep, WaitsFor
<1> QED BY <1>2, <1>3 DEF DialogInv, LockWhileAsked

(***************************************************************************)
(* The menu is shown again where the thread is back in select().           *)
(***************************************************************************)
LEMMA MenuFacts ==
    ASSUME shown \in Prompts, daemon_send_options_to_client
    PROVE  shown' \in Prompts /\ ((shown' = "menu" /\ cli = "up") \/ shown' = shown)
BY DEF daemon_send_options_to_client, Prompts

(***************************************************************************)
(* Every step keeps client and server in step.                             *)
(***************************************************************************)
LEMMA DialogStep ==
    ASSUME DialogInv, [DialogNext]_dvars
    PROVE  DialogInv'
<1>0. /\ DialogTypeOK /\ (~hasty => InStep)
      /\ (place = "ended" => cli = "closed") /\ (cli = "closed" => shown = "none")
    BY DEF DialogInv
<1> USE DEF operator, server
<1>1. CASE TypeLine
  <2>1. PICK text \in Seq(Character) : Sent(shown, text)
      BY <1>1, DialogAssumption DEF TypeLine
  <2>2. /\ socket' \in Seq(Line)
        /\ socket = <<>> => Len(socket') = 1 /\ socket'[1].for = shown
      BY <1>0, <2>1, SentFacts DEF DialogTypeOK
  <2>3. DialogTypeOK'
      BY <1>0, <1>1, <2>2 DEF TypeLine, Typing, DialogTypeOK, Prompts
  <2>4. InStep => InStep'
      BY <1>0, <1>1, <2>2 DEF TypeLine, Typing, InStep, WaitsFor
  <2> QED BY <1>0, <1>1, <2>3, <2>4 DEF TypeLine, DialogInv
<1>2. CASE TypeAhead
  <2>1. PICK text \in Seq(Character) : Sent("menu", text)
      BY <1>2, DialogAssumption DEF TypeAhead
  <2>2. socket' \in Seq(Line)
      BY <1>0, <2>1, SentFacts DEF Prompts
  <2> QED BY <1>0, <1>2, <2>2 DEF TypeAhead, DialogTypeOK, DialogInv
<1>3. CASE TypeDstop
  <2>1. DialogTypeOK'
      BY <1>0, <1>3 DEF TypeDstop, DialogTypeOK, Prompts
  <2>2. ~hasty' => ~hasty /\ shown = "menu"
      BY <1>3 DEF TypeDstop
  <2>3. InStep /\ shown = "menu" => InStep'
      BY <1>3 DEF TypeDstop, InStep, WaitsFor
  <2> QED BY <1>0, <1>3, <2>1, <2>2, <2>3 DEF TypeDstop, DialogInv
<1>4. CASE SendZero
  <2>1. /\ socket' \in Seq(Line)
        /\ socket = <<>> => /\ Len(socket') = 1 /\ socket'[1].for = "menu"
                            /\ socket'[1].text = <<0>>
      BY <1>0, <1>4, SentFacts, ZeroIsRead DEF SendZero, Prompts
  <2>2. DialogTypeOK'
      BY <1>0, <1>4, <2>1 DEF SendZero, DialogTypeOK
  <2>3. InStep => InStep'
      BY <1>0, <1>4, <2>1 DEF SendZero, InStep, WaitsFor, DialogTypeOK
  <2> QED BY <1>0, <1>4, <2>2, <2>3 DEF SendZero, DialogInv
<1>5. CASE CloseClient
    BY <1>0, <1>5 DEF CloseClient, Typing, DialogInv, DialogTypeOK, InStep, WaitsFor, Prompts
<1>6. CASE ReadOption
  <2> DEFINE request == get_number_from_input_choosing_option(heard'.text)
  <2>1. /\ place = "select" /\ socket # <<>> /\ get_input_from_stream("menu")
        /\ UNCHANGED <<cli, hasty, zeros, stopping, lock>>
      BY <1>6 DEF ReadOption
  <2>2. /\ socket' \in Seq(Line) /\ stream' \in Seq(Line)
        /\ heard' \in [by : Prompts, for : Prompts, text : Seq(Character)]
        /\ heard'.by = "menu"
        /\ stream = <<>> /\ (socket = <<>> \/ Len(socket) = 1) =>
              /\ Len(socket) = 1 /\ stream' = <<>> /\ socket' = <<>>
              /\ heard'.for = socket[1].for /\ heard'.text = socket[1].text
      BY <1>0, <2>1, ReadFacts DEF Prompts
  <2>3. /\ request = 0 => CountZero
        /\ request # 0 => UNCHANGED <<nine_cnt, daemon_terminated>>
      BY <1>6, Zenon DEF ReadOption
  <2>4. nine_cnt' \in Nat /\ (request = 0 => nine_cnt' # 0)
      BY <1>0, <2>3 DEF CountZero, DialogTypeOK
  <2>5. \/ AskForModules /\ request # 0
        \/ place' = "reload" /\ UNCHANGED shown /\ request # 0
        \/ /\ place' = "logs" /\ request # 0
           /\ shown' = IF cli = "up" THEN "logs" ELSE shown
        \/ UNCHANGED place /\ daemon_send_options_to_client
    <3>1. /\ ~(7 \in 1..3) /\ ~(9 \in 1..3) /\ ~(0 \in 1..3) /\ 7 # 9 /\ 7 # 0 /\ 9 # 0
        OBVIOUS
    <3>2. (CASE request \in 1..3 -> AskForModules
             [] request = 7 -> place' = "reload" /\ UNCHANGED shown
             [] request = 9 -> /\ place' = "logs"
                               /\ shown' = IF cli = "up" THEN "logs" ELSE shown
             [] OTHER -> UNCHANGED place /\ daemon_send_options_to_client)
        BY <1>6, Zenon DEF ReadOption
    <3> HIDE DEF request
    <3>3. CASE request \in 1..3
        BY <3>1, <3>2, <3>3, Zenon
    <3>4. CASE request = 7
        BY <3>1, <3>2, <3>4, Zenon
    <3>5. CASE request = 9
        BY <3>1, <3>2, <3>5, Zenon
    <3>6. CASE request \notin 1..3 /\ request # 7 /\ request # 9
        BY <3>2, <3>6, Zenon
    <3> QED BY <3>3, <3>4, <3>5, <3>6, Zenon
  <2>6. daemon_send_options_to_client =>
          /\ shown' \in Prompts
          /\ (shown' = "menu" /\ cli = "up") \/ shown' = shown
          /\ request = 0 => shown' = shown
      BY <1>0, <2>4 DEF daemon_send_options_to_client, DialogTypeOK, Prompts
  <2>7. heard'.text = <<0>> => request = 0
      BY ZeroIsRead
  <2> HIDE DEF request
  <2>8. DialogTypeOK'
      BY <1>0, <2>1, <2>2, <2>4, <2>5, <2>6 DEF DialogTypeOK, AskForModules, Prompts
  <2>9. ASSUME InStep PROVE InStep'
    <3>1. /\ Len(socket) = 1 /\ stream' = <<>> /\ socket' = <<>>
          /\ shown = "none" /\ heard'.for = "menu" /\ heard'.by = "menu"
          /\ zeros > 0 => request = 0
        BY <2>1, <2>2, <2>7, <2>9 DEF InStep, WaitsFor
    <3>2. shown' # "none" => WaitsFor(shown)' /\ zeros = 0
        BY <2>1, <2>5, <2>6, <3>1, <1>0 DEF AskForModules, WaitsFor, DialogTypeOK
    <3>3. zeros > 0 => place' = "select"
        BY <2>1, <2>5, <3>1 DEF AskForModules
    <3> QED BY <2>1, <3>1, <3>2, <3>3 DEF InStep
  <2>10. place' # "ended" /\ (cli = "closed" => shown' = "none")
      BY <1>0, <2>1, <2>5, <2>6 DEF AskForModules
  <2> QED BY <1>0, <2>1, <2>8, <2>9, <2>10 DEF DialogInv
<1>7. CASE AskQuestion
  <2>1. DialogTypeOK'
      BY <1>0, <1>7, MenuFacts DEF AskQuestion, DialogTypeOK, Prompts
  <2>2. ASSUME InStep PROVE InStep'
    <3>1. socket = <<>> /\ shown = "none" /\ zeros = 0 /\ socket' = <<>> /\ zeros' = zeros
        BY <1>0, <1>7, <2>2 DEF AskQuestion, InStep, WaitsFor, DialogTypeOK
    <3>2. shown' # "none" => WaitsFor(shown)'
        BY <1>0, <1>7, <3>1, MenuFacts DEF AskQuestion, WaitsFor, DialogTypeOK
    <3> QED BY <1>7, <2>2, <3>1, <3>2 DEF AskQuestion, InStep
  <2>3. place' # "ended" /\ (cli = "closed" => shown' = "none")
      BY <1>0, <1>7, MenuFacts DEF AskQuestion, DialogTypeOK
  <2> QED BY <1>0, <1>7, <2>1, <2>2, <2>3 DEF AskQuestion, DialogInv
<1>8. CASE Reload
  <2>1. DialogTypeOK'
      BY <1>0, <1>8, MenuFacts DEF Reload, DialogTypeOK
  <2>2. ASSUME InStep PROVE InStep'
    <3>1. socket = <<>> /\ shown = "none" /\ zeros = 0 /\ socket' = <<>> /\ zeros' = zeros
        BY <1>0, <1>8, <2>2 DEF Reload, InStep, WaitsFor, DialogTypeOK
    <3>2. shown' # "none" => WaitsFor(shown)'
        BY <1>0, <1>8, <3>1, MenuFacts DEF Reload, WaitsFor, DialogTypeOK
    <3> QED BY <1>8, <2>2, <3>1, <3>2 DEF Reload, InStep
  <2>3. place' # "ended" /\ (cli = "closed" => shown' = "none")
      BY <1>0, <1>8, MenuFacts DEF Reload, DialogTypeOK
  <2> QED BY <1>0, <1>8, <2>1, <2>2, <2>3 DEF Reload, DialogInv
<1>9. ASSUME NEW prompt \in {"question", "logs"}, place = prompt, Answered(prompt),
             place' = "select", UNCHANGED <<cli, hasty, zeros, nine_cnt>>,
             daemon_send_options_to_client
      PROVE  DialogInv'
  <2>1. /\ socket' \in Seq(Line) /\ stream' \in Seq(Line)
        /\ heard' \in [by : Prompts, for : Prompts, text : Seq(Character)]
        /\ ~hasty => /\ socket' = <<>> /\ stream' = <<>>
                     /\ socket # <<>> => heard'.by = prompt /\ heard'.for = socket[1].for
                     /\ socket = <<>> => heard'.by = heard'.for
      BY <1>9, AnsweredFacts DEF Prompts
  <2>2. DialogTypeOK'
      BY <1>0, <1>9, <2>1, MenuFacts DEF DialogTypeOK
  <2>3. ASSUME ~hasty PROVE InStep'
    <3>1. socket # <<>> => shown = "none" /\ socket[1].for = prompt
        BY <1>0, <1>9, <2>3 DEF InStep, WaitsFor
    <3>2. shown' # "none" => shown' = "menu"
      <4>1. CASE socket # <<>>
          BY <1>0, <1>9, <3>1, <4>1, MenuFacts DEF DialogTypeOK
      <4>2. CASE socket = <<>>
        <5>1. cli = "closed"
          <6>1. ~get_input_from_stream(prompt)
              BY <1>0, <2>3, <4>2 DEF get_input_from_stream, InStep
          <6> QED BY <1>9, <6>1 DEF Answered
        <5> QED BY <1>0, <1>9, <5>1, MenuFacts DEF DialogTypeOK
      <4> QED BY <4>1, <4>2
    <3>3. ~(zeros > 0)
        BY <1>0, <1>9, <2>3 DEF InStep
    <3>4. zeros = 0
        BY <1>0, <3>3 DEF DialogTypeOK
    <3>5. heard'.by = heard'.for
        BY <2>1, <2>3, <3>1
    <3> QED BY <1>9, <2>1, <2>3, <3>2, <3>4, <3>5 DEF InStep, WaitsFor
  <2>4. cli = "closed" => shown' = "none"
      BY <1>0, <1>9, MenuFacts DEF DialogTypeOK
  <2> QED BY <1>9, <2>2, <2>3, <2>4 DEF DialogInv
<1>10. CASE ReadAnswer
    BY <1>9, <1>10 DEF ReadAnswer
<1>11. CASE ReadLogNumber
    BY <1>9, <1>11 DEF ReadLogNumber
<1>12. CASE Timeout
  <2>1. DialogTypeOK'
      BY <1>0, <1>12, MenuFacts DEF Timeout, DialogTypeOK
  <2>2. InStep => InStep'
      BY <1>0, <1>12, MenuFacts DEF Timeout, InStep, WaitsFor, DialogTypeOK
  <2> QED BY <1>0, <1>12, <2>1, <2>2 DEF Timeout, DialogInv
<1>13. CASE Disconnect
  <2>1. DialogTypeOK'
      BY <1>0, <1>13 DEF Disconnect, DialogTypeOK, Prompts
  <2>2. InStep => InStep'
      BY <1>0, <1>13 DEF Disconnect, InStep
  <2> QED BY <1>0, <1>13, <2>1, <2>2 DEF Disconnect, DialogInv
<1>14. CASE Connect
  <2>1. <<>> \in Seq(Line)
      OBVIOUS
  <2>2. DialogTypeOK'
    <3>1. heard' \in [by : Prompts, for : Prompts, text : Seq(Character)]
        BY <1>14, NothingFacts DEF Connect
    <3>2. socket' \in Seq(Line) /\ stream' \in Seq(Line)
        BY <1>14, <2>1, Zenon DEF Connect
    <3>3. hasty' \in BOOLEAN /\ zeros' \in 0..3 /\ nine_cnt' \in Nat
      <4>1. hasty' \in BOOLEAN
          BY <1>14, Zenon DEF Connect
      <4> QED BY <1>14, <4>1 DEF Connect
    <3>4. /\ shown' \in Prompts /\ cli' \in {"up", "closed"}
          /\ place' \in {"select", "asking", "question", "logs", "reload", "ended"}
        BY <1>14 DEF Connect, Prompts
    <3> QED BY <3>1, <3>2, <3>3, <3>4 DEF DialogTypeOK
  <2>3. InStep'
      BY <1>14, NothingFacts DEF Connect, InStep, WaitsFor
  <2> QED BY <1>14, <2>2, <2>3 DEF Connect, DialogInv
<1>15. CASE ServiceTakes \/ ServiceLeaves \/ UNCHANGED dvars
    BY <1>0, <1>15 DEF ServiceTakes, ServiceLeaves, dvars, DialogInv, DialogTypeOK, InStep,
       WaitsFor
<1> QED BY <1>1, <1>2, <1>3, <1>4, <1>5, <1>6, <1>7, <1>8, <1>10, <1>11, <1>12, <1>13, <1>14,
           <1>15 DEF DialogNext

(***************************************************************************)
(* The inductive invariant: client and server are in step unless the       *)
(* operator has typed ahead.                                               *)
(***************************************************************************)
THEOREM DialogInvariant == DialogSpec => []DialogInv
<1>1. DialogInit => DialogInv
    BY DialogInitially
<1>2. DialogInv /\ [DialogNext]_dvars => DialogInv'
    BY DialogStep
<1> QED BY <1>1, <1>2, PTL DEF DialogSpec

(***************************************************************************)
(* An operator who answers what is on the screen is understood, for every  *)
(* set of options and of answers: no prompt of daemon_serve_client_routine *)
(* reads a line that was typed for another one.                            *)
(***************************************************************************)
THEOREM AnswersUnderstood == DialogSpec => []AnswersMeetQuestions
<1>1. DialogInv => AnswersMeetQuestions
    BY DEF DialogInv, InStep, AnswersMeetQuestions
<1> QED BY <1>1, DialogInvariant, PTL

(***************************************************************************)
(* Whatever the operator answers to a question is read as it is written    *)
(* (parse_numbers_user_selection), for every line whose numbers are        *)
(* smaller than INT_MAX: a line of any length, and an int of any width.    *)
(***************************************************************************)
THEOREM SelectionsAsWritten == DialogSpec => []SelectionAsWritten
<1>1. DialogInv => SelectionAsWritten
  <2> SUFFICES ASSUME DialogInv, Fits(heard.text)
               PROVE  MeansWhatItSays(heard.text, parse_numbers_user_selection(heard.text))
      BY DEF SelectionAsWritten
  <2>1. heard.text \in Seq(Character)
      BY DEF DialogInv, DialogTypeOK
  <2> QED BY <2>1, SelectionParsed
<1> QED BY <1>1, DialogInvariant, PTL

(***************************************************************************)
(* running_modules_lock is the client's exactly while a question is open:  *)
(* no way out of a command, answered, refused or hung up on, keeps it.     *)
(***************************************************************************)
THEOREM LockFollowsQuestion == DialogSpec => []LockWhileAsked
<1>1. DialogInit => LockWhileAsked
    BY DialogInitially
<1>2. LockWhileAsked /\ [DialogNext]_dvars => LockWhileAsked'
  <2> SUFFICES ASSUME LockWhileAsked, [DialogNext]_dvars PROVE LockWhileAsked'
      OBVIOUS
  <2> USE DEF LockWhileAsked, operator, server
  <2>1. CASE TypeLine \/ TypeAhead \/ TypeDstop \/ SendZero \/ CloseClient
      BY <2>1 DEF TypeLine, TypeAhead, TypeDstop, SendZero, CloseClient
  <2>2. CASE ReadOption
    <3>1. place = "select" /\ lock' = lock
        BY <2>2 DEF ReadOption
    <3>2. place' \in {"asking", "reload", "logs", place}
        BY <2>2, Zenon DEF ReadOption, AskForModules
    <3> QED BY <3>1, <3>2
  <2>3. CASE AskQuestion \/ Reload
      BY <2>3 DEF AskQuestion, Reload
  <2>4. CASE ReadAnswer \/ ReadLogNumber \/ Timeout \/ Disconnect \/ Connect
      BY <2>4 DEF ReadAnswer, ReadLogNumber, Timeout, Disconnect, Connect, UnlockModules
  <2>5. CASE ServiceTakes \/ ServiceLeaves \/ UNCHANGED dvars
      BY <2>5 DEF ServiceTakes, ServiceLeaves, dvars
  <2> QED BY <2>1, <2>2, <2>3, <2>4, <2>5 DEF DialogNext
<1> QED BY <1>1, <1>2, PTL DEF DialogSpec
=============================================================================
