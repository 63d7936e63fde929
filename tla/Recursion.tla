----------------------------- MODULE Recursion ------------------------------
(***************************************************************************)
(* Induction over the natural numbers in a form the provers can use, and   *)
(* what it says about values that are computed element by element: the     *)
(* lines of a file, the sources of a search, the messages of a history.    *)
(***************************************************************************)
EXTENDS Integers, Sequences, WellFoundedInduction, TLAPS

\* A smaller number is below a larger one in the library's relation.
LEMMA SmallerIsBelow ==
  ASSUME NEW x \in Nat, NEW y \in Nat, x < y
  PROVE  <<x, y>> \in OpToRel(<, Nat)
  BY DEF OpToRel

\* A set that has 0, and with each number the next one, has all numbers.
LEMMA SetInduction ==
  ASSUME NEW S, 0 \in S, \A n \in Nat : n \in S => n + 1 \in S
  PROVE  \A n \in Nat : n \in S
<1> DEFINE Missing == {n \in Nat : n \notin S}
<1> SUFFICES ASSUME Missing # {} PROVE FALSE
  OBVIOUS
<1>1. IsWellFoundedOn(OpToRel(<, Nat), Nat)
  BY NatLessThanWellFounded
<1>2. PICK x \in Missing : \A y \in Missing : ~ (<<y, x>> \in OpToRel(<, Nat))
  BY <1>1, WFMin
<1>3. x \in Nat /\ x # 0
  OBVIOUS
<1>4. x - 1 \in Nat /\ x - 1 < x
  BY <1>3
<1>5. x - 1 \notin Missing
  BY <1>2, <1>3, <1>4, SmallerIsBelow
<1> QED
  BY <1>3, <1>4, <1>5

\* The same up to a bound.
LEMMA BoundedInduction ==
  ASSUME NEW N \in Nat, NEW S, 0 \in S,
         \A n \in 0 .. N : n < N /\ n \in S => n + 1 \in S
  PROVE  \A n \in 0 .. N : n \in S
<1> DEFINE T == {n \in Nat : n <= N => n \in S}
<1>1. 0 \in T
  OBVIOUS
<1>2. \A n \in Nat : n \in T => n + 1 \in T
  OBVIOUS
<1>3. \A n \in Nat : n \in T
  <2> HIDE DEF T
  <2> QED BY <1>1, <1>2, SetInduction
<1> QED
  BY <1>3

\* f is computed step by step from a start value, up to N.
Stepwise(f, N, D, start, step) ==
  /\ f \in [0 .. N -> D]
  /\ f[0] = start
  /\ \A n \in 1 .. N : f[n] = step[<<n, f[n - 1]>>]

\* Such an f exists, whatever the step does.
LEMMA StepwiseExists ==
  \A N, D, start, step :
    N \in Nat /\ start \in D /\ step \in [(1 .. N) \X D -> D]
      => \E f : Stepwise(f, N, D, start, step)
<1> SUFFICES ASSUME NEW N \in Nat, NEW D, NEW start \in D,
                    NEW step \in [(1 .. N) \X D -> D]
             PROVE  \E f : Stepwise(f, N, D, start, step)
  OBVIOUS
<1> DEFINE Computes(f, k) == /\ f[0] = start
                             /\ \A n \in 1 .. k : f[n] = step[<<n, f[n - 1]>>]
           S == {k \in Nat : \E f \in [0 .. N -> D] : Computes(f, k)}
<1>1. 0 \in S
  <2>1. [n \in 0 .. N |-> start] \in [0 .. N -> D]
    OBVIOUS
  <2>2. Computes([n \in 0 .. N |-> start], 0)
    OBVIOUS
  <2> QED
    BY <2>1, <2>2
<1>2. ASSUME NEW k \in 0 .. N, k < N, k \in S
      PROVE  k + 1 \in S
  <2>1. PICK f \in [0 .. N -> D] : Computes(f, k)
    BY <1>2
  <2> DEFINE d == step[<<k + 1, f[k]>>]
             g == [f EXCEPT ![k + 1] = d]
  <2>2. d \in D
    BY <1>2
  <2>3. g \in [0 .. N -> D]
    BY <2>2, <1>2
  <2>4. /\ g[0] = start
        /\ g[k + 1] = step[<<k + 1, g[k]>>]
    <3>1. 0 \in 0 .. N /\ 0 # k + 1 /\ k # k + 1 /\ k + 1 \in 0 .. N
      BY <1>2
    <3>2. g[0] = f[0] /\ g[k] = f[k] /\ g[k + 1] = d
      BY <3>1
    <3> QED
      BY <3>2, <2>1
  <2>5. ASSUME NEW n \in 1 .. k
        PROVE  g[n] = step[<<n, g[n - 1]>>]
    <3>1. g[n] = f[n] /\ g[n - 1] = f[n - 1]
      BY <1>2
    <3> QED
      BY <3>1, <2>1
  <2>6. \A n \in 1 .. k + 1 : g[n] = step[<<n, g[n - 1]>>]
    <3> SUFFICES ASSUME NEW n \in 1 .. k + 1
                 PROVE  g[n] = step[<<n, g[n - 1]>>]
      OBVIOUS
    <3>1. n \in 1 .. k \/ n = k + 1
      BY <1>2
    <3>2. (k + 1) - 1 = k
      BY <1>2
    <3> HIDE DEF g
    <3> QED
      BY <3>1, <3>2, <2>4, <2>5
  <2>7. Computes(g, k + 1)
    <3> HIDE DEF g
    <3> QED BY <2>4, <2>6
  <2> HIDE DEF g, Computes
  <2> QED
    BY <2>3, <2>7, <1>2
<1>3. N \in S
  <2> HIDE DEF S
  <2> QED
    BY <1>1, <1>2, BoundedInduction
<1> QED
  BY <1>3 DEF Stepwise
=============================================================================
