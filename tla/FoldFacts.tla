----------------------------- MODULE FoldFacts -----------------------------
(***************************************************************************)
(* What a fold from the left computes, for any operator.  FoldLeft is      *)
(* defined by recursion over the sets of indexes, from the greatest down;  *)
(* here it is shown to be the last value of a run: the base, then one      *)
(* application of the operator per element, in their order.                *)
(*                                                                         *)
(* A module that folds takes an instance, with its own operator for Op.    *)
(***************************************************************************)
EXTENDS Integers, WellFoundedInduction, TLAPS

CONSTANT Op(_, _)

\* A set of natural numbers has a smallest one.
LEMMA Smallest ==
  ASSUME NEW T \in SUBSET Nat, T # {}
  PROVE  \E x \in T : \A y \in T : x <= y
<1> DEFINE R == OpToRel(<, Nat)
<1>1. \A x, y \in Nat : y < x => <<y, x>> \in R
  BY DEF OpToRel
<1>2. IsWellFoundedOn(R, Nat)
  BY NatLessThanWellFounded
<1> HIDE DEF R
<1>3. PICK x \in T : \A y \in T : ~(<<y, x>> \in R)
  BY <1>2, WFMin
<1>4. \A y \in T : ~(y < x)
  BY <1>1, <1>3
<1>5. \A a, b \in Nat : ~(b < a) => a <= b
  OBVIOUS
<1> QED
  BY <1>4, <1>5

\* Every natural number is in a set that has 0 and, with a number, the next.
LEMMA SetInduction ==
  ASSUME NEW S, 0 \in S, \A n \in Nat : n \in S => n + 1 \in S
  PROVE  \A n \in Nat : n \in S
<1> DEFINE T == {n \in Nat : n \notin S}
<1> SUFFICES ASSUME T # {} PROVE FALSE
  OBVIOUS
<1>1. PICK x \in T : \A y \in T : x <= y
  BY Smallest
<1>2. x # 0 /\ x - 1 \in Nat /\ (x - 1) + 1 = x /\ ~(x <= x - 1)
  BY <1>1
<1>3. x - 1 \in S
  BY <1>1, <1>2
<1> QED
  BY <1>1, <1>2, <1>3

-----------------------------------------------------------------------------
Greatest(s) == CHOOSE x \in s : \A y \in s : x >= y

\* The recursion by which FoldLeft is defined, and its value.
Iterates(f, base, seq) ==
  f = [s \in SUBSET DOMAIN seq |->
         IF s = {} THEN base ELSE Op(f[s \ {Greatest(s)}], seq[Greatest(s)])]

Folded(base, seq) == (CHOOSE f : Iterates(f, base, seq))[DOMAIN seq]

\* One application per element, in order.
Run(run, base, seq, n) ==
  /\ run[0] = base
  /\ \A i \in 1 .. n : run[i] = Op(run[i - 1], seq[i])

LEMMA GreatestOfInterval ==
  ASSUME NEW n \in Nat, NEW s \in SUBSET (1 .. n + 1), n + 1 \in s
  PROVE  Greatest(s) = n + 1
<1>1. \A y \in s : n + 1 >= y
  OBVIOUS
<1>2. \A x \in s : (\A y \in s : x >= y) => x = n + 1
  OBVIOUS
<1> QED
  BY <1>1, <1>2 DEF Greatest

\* The recursion has a solution: the sets that have the next index are added
\* from those that do not.
LEMMA IterationExists ==
  ASSUME NEW base, NEW seq, NEW m \in Nat, DOMAIN seq = 1 .. m
  PROVE  \E f : Iterates(f, base, seq)
<1> DEFINE Solves(f, n) ==
             f = [s \in SUBSET (1 .. n) |->
                    IF s = {} THEN base ELSE Op(f[s \ {Greatest(s)}], seq[Greatest(s)])]
           S == {n \in Nat : \E f : Solves(f, n)}
<1>1. 0 \in S
  <2> DEFINE f == [s \in SUBSET (1 .. 0) |-> base]
  <2>1. \A s \in SUBSET (1 .. 0) : s = {}
    OBVIOUS
  <2>2. Solves(f, 0)
    BY <2>1
  <2> QED
    BY <2>2
<1>2. ASSUME NEW n \in Nat, n \in S PROVE n + 1 \in S
  <2>1. PICK f : Solves(f, n)
    BY <1>2
  <2> DEFINE g == [s \in SUBSET (1 .. n + 1) |->
                     IF n + 1 \in s THEN Op(f[s \ {n + 1}], seq[n + 1]) ELSE f[s]]
             rhs(s) == IF s = {} THEN base ELSE Op(g[s \ {Greatest(s)}], seq[Greatest(s)])
  <2>2. ASSUME NEW s \in SUBSET (1 .. n + 1) PROVE g[s] = rhs(s)
    <3>1. CASE n + 1 \in s
      <4>1. Greatest(s) = n + 1 /\ s # {}
        BY <3>1, GreatestOfInterval
      <4>2. s \ {n + 1} \in SUBSET (1 .. n) /\ s \ {n + 1} \in SUBSET (1 .. n + 1)
            /\ n + 1 \notin s \ {n + 1}
        OBVIOUS
      <4>3. g[s \ {n + 1}] = f[s \ {n + 1}]
        BY <4>2
      <4> QED
        BY <3>1, <4>1, <4>3
    <3>2. CASE n + 1 \notin s
      <4>1. s \in SUBSET (1 .. n)
        BY <3>2
      <4>2. g[s] = f[s]
        BY <3>2
      <4>3. CASE s = {}
        BY <2>1, <4>1, <4>2, <4>3
      <4>4. CASE s # {}
        <5> DEFINE t == s \ {Greatest(s)}
        <5>1. t \in SUBSET (1 .. n + 1) /\ n + 1 \notin t
          BY <3>2
        <5>2. g[t] = f[t]
          BY <5>1
        <5>3. f[s] = Op(f[t], seq[Greatest(s)])
          BY <2>1, <4>1, <4>4
        <5> QED
          BY <4>2, <4>4, <5>2, <5>3
      <4> QED
        BY <4>3, <4>4
    <3> QED
      BY <3>1, <3>2
  <2>3. Solves(g, n + 1)
    <3>1. g = [s \in SUBSET (1 .. n + 1) |-> g[s]]
      OBVIOUS
    <3> HIDE DEF g
    <3> QED
      BY <2>2, <3>1
  <2> HIDE DEF Solves, g
  <2> QED
    BY <2>3
<1>3. m \in S
  <2> HIDE DEF S
  <2> QED
    BY <1>1, <1>2, SetInduction
<1> QED
  BY <1>3 DEF Iterates

\* A fold is the last value of a run.
LEMMA FoldRuns ==
  ASSUME NEW base, NEW seq, NEW m \in Nat, DOMAIN seq = 1 .. m
  PROVE  \E run : Run(run, base, seq, m) /\ run[m] = Folded(base, seq)
<1> DEFINE f == CHOOSE g : Iterates(g, base, seq)
           run == [i \in 0 .. m |-> f[1 .. i]]
<1>1. Iterates(f, base, seq)
  BY IterationExists
<1>2. f[1 .. m] = Folded(base, seq)
  BY DEF Folded
<1> HIDE DEF f
<1>3. run[0] = base
  <2>1. 1 .. 0 = {} /\ {} \in SUBSET DOMAIN seq
    OBVIOUS
  <2> QED
    BY <1>1, <2>1 DEF Iterates
<1>4. ASSUME NEW i \in 1 .. m PROVE run[i] = Op(run[i - 1], seq[i])
  <2>1. i - 1 \in Nat /\ (i - 1) + 1 = i /\ i \in 1 .. i /\ i \in 0 .. m /\ i - 1 \in 0 .. m
    OBVIOUS
  <2>2. Greatest(1 .. i) = i
    BY <2>1, GreatestOfInterval
  <2>3. (1 .. i) \ {i} = 1 .. (i - 1) /\ 1 .. i # {} /\ 1 .. i \in SUBSET DOMAIN seq
    <3>1. \A j : j \in (1 .. i) \ {i} <=> j \in 1 .. (i - 1)
      BY <2>1
    <3>2. (1 .. i) \ {i} = 1 .. (i - 1)
      BY <3>1
    <3> QED
      BY <2>1, <3>2
  <2>4. f[1 .. i] = Op(f[1 .. (i - 1)], seq[i])
    BY <1>1, <2>2, <2>3 DEF Iterates
  <2> QED
    BY <2>1, <2>4
<1>5. Run(run, base, seq, m)
  <2> HIDE DEF run
  <2> QED
    BY <1>3, <1>4 DEF Run
<1> QED
  BY <1>2, <1>5

\* Two runs over the same elements are the same.
LEMMA RunsAgree ==
  ASSUME NEW base, NEW seq, NEW other, NEW run, NEW race, NEW m \in Nat,
         Run(run, base, seq, m), Run(race, base, other, m),
         \A i \in 1 .. m : seq[i] = other[i]
  PROVE  \A i \in 0 .. m : run[i] = race[i]
<1> DEFINE S == {i \in Nat : i <= m => run[i] = race[i]}
<1>1. 0 \in S
  BY DEF Run
<1>2. ASSUME NEW i \in Nat, i \in S PROVE i + 1 \in S
  <2> SUFFICES ASSUME i + 1 <= m PROVE run[i + 1] = race[i + 1]
    OBVIOUS
  <2>1. i + 1 \in 1 .. m /\ (i + 1) - 1 = i /\ run[i] = race[i]
    BY <1>2
  <2>2. run[i + 1] = Op(run[i], seq[i + 1]) /\ race[i + 1] = Op(race[i], other[i + 1])
    BY <2>1 DEF Run
  <2> QED
    BY <2>1, <2>2
<1>3. \A i \in Nat : i \in S
  <2> HIDE DEF S
  <2> QED
    BY <1>1, <1>2, SetInduction
<1> QED
  BY <1>3

\* Folding nothing, and one element more.
LEMMA FoldSteps ==
  ASSUME NEW base, NEW seq, NEW m \in Nat, DOMAIN seq = 1 .. m
  PROVE  /\ m = 0 => Folded(base, seq) = base
         /\ \A longer, x :
              /\ DOMAIN longer = 1 .. m + 1 /\ longer[m + 1] = x
              /\ \A i \in 1 .. m : longer[i] = seq[i]
              => Folded(base, longer) = Op(Folded(base, seq), x)
<1>1. PICK run : Run(run, base, seq, m) /\ run[m] = Folded(base, seq)
  BY FoldRuns
<1>2. m = 0 => Folded(base, seq) = base
  BY <1>1 DEF Run
<1>3. ASSUME NEW longer, NEW x, DOMAIN longer = 1 .. m + 1, longer[m + 1] = x,
             \A i \in 1 .. m : longer[i] = seq[i]
      PROVE  Folded(base, longer) = Op(Folded(base, seq), x)
  <2>1. PICK race : Run(race, base, longer, m + 1) /\ race[m + 1] = Folded(base, longer)
    BY <1>3, FoldRuns
  <2>2. race[m + 1] = Op(race[m], x)
    <3>1. m + 1 \in 1 .. m + 1 /\ (m + 1) - 1 = m
      OBVIOUS
    <3> QED
      BY <1>3, <2>1, <3>1 DEF Run
  <2>3. Run(race, base, longer, m)
    BY <2>1 DEF Run
  <2>4. race[m] = run[m]
    BY <1>1, <1>3, <2>3, RunsAgree
  <2> QED
    BY <1>1, <2>1, <2>2, <2>4
<1> QED
  BY <1>2, <1>3
=============================================================================
