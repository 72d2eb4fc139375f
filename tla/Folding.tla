------------------------------- MODULE Folding -------------------------------
(***************************************************************************)
(* Induction along a sequence.  The induction theorems of the library take *)
(* a predicate as a parameter; these two facts are stated with sets and    *)
(* functions alone, and a fold is unfolded once for all of them: a module  *)
(* that proves something of a fold instantiates this one with the operator *)
(* that is folded.                                                         *)
(***************************************************************************)
EXTENDS Integers, SequencesExt, WellFoundedInduction, TLAPS

CONSTANT Op(_, _, _)   \* one turn: what is accumulated, the next element, the context

Fold(base, seq, context) ==
  FoldLeft(LAMBDA acc, x : Op(acc, x, context), base, seq)

\* A set of natural numbers that is not empty has a least one.
LEMMA LeastOfNaturals ==
  ASSUME NEW S \in SUBSET Nat, S # {}
  PROVE  \E least \in S : \A x \in S : least <= x
<1> DEFINE Less == {ss \in Nat \X Nat : ss[1] < ss[2]}
<1>1. IsWellFoundedOn(Less, Nat)
  BY NatLessThanWellFounded DEF OpToRel
<1>2. PICK least \in S : \A y \in S : <<y, least>> \notin Less
  <2> HIDE DEF Less
  <2> QED
    BY <1>1, WFMin
<1>3. ASSUME NEW y \in S
      PROVE  least <= y
  <2>1. y \in Nat /\ least \in Nat
    OBVIOUS
  <2>2. ~(y < least)
    BY <1>2, <2>1
  <2> QED
    BY <2>1, <2>2
<1> QED
  BY <1>3

\* A set of numbers that has 0 and, with a number below n, the next one, has them all.
LEMMA IntervalInduction ==
  ASSUME NEW n \in Nat, NEW T, 0 \in T,
         \A k \in 0..n - 1 : k \in T => k + 1 \in T
  PROVE  \A k \in 0..n : k \in T
<1> DEFINE U == {k \in 0..n : k \notin T}
<1>1. ASSUME U # {} PROVE FALSE
  <2>1. U \in SUBSET Nat
    OBVIOUS
  <2>2. PICK x \in U : \A y \in U : x <= y
    <3> HIDE DEF U
    <3> QED
      BY <1>1, <2>1, LeastOfNaturals
  <2>3. x \in 0..n /\ x \notin T
    OBVIOUS
  <2>4. x - 1 \in 0..n - 1
    BY <2>3
  <2>5. x - 1 \in T
    <3> SUFFICES ASSUME x - 1 \notin T PROVE FALSE
      OBVIOUS
    <3>1. x - 1 \in U
      BY <2>4
    <3>2. ~(x <= x - 1)
      BY <2>4
    <3> QED
      BY <2>2, <3>1, <3>2
  <2> QED
    BY <2>3, <2>4, <2>5
<1> QED
  BY <1>1

\* The greatest number of a set is found by being in it and above the others.
LEMMA MaxIs ==
  ASSUME NEW S \in SUBSET Int, NEW k \in S, \A j \in S : j <= k
  PROVE  Max(S) = k
<1>1. \A x \in S : (\A y \in S : x >= y) => x = k
  OBVIOUS
<1> QED
  BY <1>1 DEF Max

\* The fold of a sequence is the last of the values it goes through.
THEOREM FoldSteps ==
  ASSUME NEW context, NEW base, NEW seq, NEW n \in Nat, DOMAIN seq = 1..n
  PROVE  \E acc :
           /\ acc[0] = base
           /\ \A k \in 1..n : acc[k] = Op(acc[k - 1], seq[k], context)
           /\ Fold(base, seq, context) = acc[n]
<1> DEFINE Turn(it, s) ==
             IF s = {} THEN base ELSE Op(it[s \ {Max(s)}], seq[Max(s)], context)
           Eq(it, m) == it = [s \in SUBSET (1..m) |-> Turn(it, s)]
           T == {m \in 0..n : \E it : Eq(it, m)}
<1>1. 0 \in T
  <2> DEFINE it == [s \in SUBSET (1..0) |-> base]
  <2>1. \A s \in SUBSET (1..0) : s = {}
    OBVIOUS
  <2>2. Eq(it, 0)
    BY <2>1
  <2> QED
    BY <2>2
<1>2. ASSUME NEW m \in 0..n - 1, m \in T
      PROVE  m + 1 \in T
  <2>1. PICK it : Eq(it, m)
    BY <1>2
  <2> DEFINE Longer(s) ==
               IF m + 1 \in s THEN Op(it[s \ {m + 1}], seq[m + 1], context) ELSE it[s]
             longer == [s \in SUBSET (1..m + 1) |-> Longer(s)]
  <2>2. ASSUME NEW s \in SUBSET (1..m + 1)
        PROVE  Longer(s) = Turn(longer, s)
    <3>1. CASE m + 1 \in s
      <4>1. Max(s) = m + 1
        <5>1. s \in SUBSET Int /\ \A j \in s : j <= m + 1
          OBVIOUS
        <5> QED
          BY <3>1, <5>1, MaxIs
      <4>2. s \ {m + 1} \in SUBSET (1..m + 1)
        OBVIOUS
      <4>3. longer[s \ {m + 1}] = it[s \ {m + 1}]
        BY <4>2
      <4> QED
        BY <3>1, <4>1, <4>3
    <3>2. CASE m + 1 \notin s
      <4>1. s \in SUBSET (1..m)
        BY <3>2
      <4>2. it[s] = Turn(it, s)
        BY <2>1, <4>1
      <4>3. longer[s \ {Max(s)}] = it[s \ {Max(s)}]
        BY <3>2
      <4> QED
        BY <3>2, <4>2, <4>3
    <3> QED
      BY <3>1, <3>2
  <2> HIDE DEF Turn
  <2>3. Eq(longer, m + 1)
    BY <2>2
  <2>4. m + 1 \in 0..n /\ \E some : Eq(some, m + 1)
    <3> HIDE DEF Eq
    <3> QED
      BY <2>3
  <2> QED
    BY <2>4
<1>3. \E it : Eq(it, n)
  <2> HIDE DEF Eq
  <2>1. \A m \in 0..n : m \in T
    BY <1>1, <1>2, IntervalInduction
  <2> QED
    BY <2>1
<1> DEFINE iter == CHOOSE it : Eq(it, n)
<1>4. Eq(iter, n)
  <2> HIDE DEF Eq
  <2> QED
    BY <1>3
<1>5. Fold(base, seq, context) = iter[1..n]
  BY DEF Fold, FoldLeft, MapThenFoldSet
<1> HIDE DEF iter
<1> DEFINE acc == [k \in 0..n |-> iter[1..k]]
<1>6. acc[0] = base
  BY <1>4
<1>7. ASSUME NEW k \in 1..n
      PROVE  acc[k] = Op(acc[k - 1], seq[k], context)
  <2>1. Max(1..k) = k
    <3>1. 1..k \in SUBSET Int /\ k \in 1..k /\ \A j \in 1..k : j <= k
      OBVIOUS
    <3> QED
      BY <3>1, MaxIs
  <2>2. (1..k) \ {k} = 1..k - 1 /\ 1..k # {}
    OBVIOUS
  <2>3. iter[1..k] = Turn(iter, 1..k)
    <3>1. 1..k \in SUBSET (1..n)
      OBVIOUS
    <3> HIDE DEF Turn
    <3> QED
      BY <1>4, <3>1
  <2>4. iter[1..k] = Op(iter[1..k - 1], seq[k], context)
    BY <2>1, <2>2, <2>3
  <2>5. acc[k] = iter[1..k] /\ acc[k - 1] = iter[1..k - 1]
    OBVIOUS
  <2> QED
    BY <2>4, <2>5
<1>8. acc[n] = iter[1..n]
  OBVIOUS
<1> HIDE DEF acc
<1> QED
  BY <1>5, <1>6, <1>7, <1>8

=============================================================================
