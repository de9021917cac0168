----------------------------- MODULE Induction -----------------------------
(* Facts about natural numbers that the proofs of this project rest on:    *)
(* the least element of a set, induction stated about a set of numbers,    *)
(* and the existence of functions defined by recursion on a bounded index. *)
EXTENDS Integers, Sequences, WellFoundedInduction, TLAPS

(* Every non-empty set of natural numbers has a least element.             *)
LEMMA LeastElement ==
  ASSUME NEW T, T \subseteq Nat, T # {}
  PROVE  \E x \in T : \A y \in T : x <= y
<1>1. PICK x \in T : \A y \in T : ~ (<<y, x>> \in OpToRel(<, Nat))
  BY NatLessThanWellFounded, WFMin
<1>2. ASSUME NEW y \in T PROVE x <= y
  <2>1. ~ (<<y, x>> \in OpToRel(<, Nat))
    BY <1>1
  <2>2. <<y, x>> \in Nat \X Nat
    OBVIOUS
  <2>3. ~ (y < x)
    BY <2>1, <2>2 DEF OpToRel
  <2> QED BY <2>3
<1> QED BY <1>2

(* Induction: a set of numbers that has zero and, with every number of it, *)
(* the next one, has them all.                                             *)
LEMMA SetInduction ==
  ASSUME NEW T, 0 \in T, \A n \in Nat : n \in T => n + 1 \in T
  PROVE  Nat \subseteq T
<1> SUFFICES ASSUME Nat \ T # {} PROVE FALSE
  OBVIOUS
<1>1. PICK m \in Nat \ T : \A y \in Nat \ T : m <= y
  BY LeastElement
<1>2. m # 0 /\ m - 1 \in Nat
  BY <1>1
<1>3. m - 1 \in T
  BY <1>1, <1>2
<1> QED BY <1>1, <1>2, <1>3

(* The functions on 0..n that start with base and whose value at i > 0 is  *)
(* that of step at the previous value and i.                               *)
Iterates(S, base, step, n) ==
  { f \in [0..n -> S] :
      f = [i \in 0..n |-> IF i = 0 THEN base ELSE step[<<f[i - 1], i>>]] }

(* Recursion on an index that runs from 0 to n defines a function.         *)
LEMMA IteratesExist ==
  ASSUME NEW S, NEW base \in S, NEW n \in Nat,
         NEW step \in [S \X (1..n) -> S]
  PROVE  Iterates(S, base, step, n) # {}
<1> DEFINE T == { k \in Nat : k <= n => Iterates(S, base, step, k) # {} }
<1>1. 0 \in T
  <2>1. [i \in 0..0 |-> base] \in Iterates(S, base, step, 0)
    BY DEF Iterates
  <2> QED BY <2>1
<1>2. ASSUME NEW k \in Nat, k \in T PROVE k + 1 \in T
  <2> SUFFICES ASSUME k + 1 <= n
               PROVE  Iterates(S, base, step, k + 1) # {}
    OBVIOUS
  <2>1. PICK f : f \in Iterates(S, base, step, k)
    BY <1>2
  <2>2. /\ f \in [0..k -> S]
        /\ f = [i \in 0..k |-> IF i = 0 THEN base ELSE step[<<f[i - 1], i>>]]
    BY <2>1 DEF Iterates
  <2> DEFINE g == [i \in 0..(k + 1) |->
                      IF i = k + 1 THEN step[<<f[k], k + 1>>] ELSE f[i]]
  <2>3. g \in [0..(k + 1) -> S]
    BY <2>2
  <2>4. ASSUME NEW i \in 0..(k + 1)
        PROVE  g[i] = IF i = 0 THEN base ELSE step[<<g[i - 1], i>>]
    <3>1. CASE i = k + 1
      BY <3>1
    <3>2. CASE i # k + 1 /\ i # 0
      BY <3>2, <2>2
    <3>3. CASE i = 0
      BY <3>3, <2>2
    <3> QED BY <3>1, <3>2, <3>3
  <2>5. g = [i \in 0..(k + 1) |->
                IF i = 0 THEN base ELSE step[<<g[i - 1], i>>]]
    BY <2>4
  <2> QED BY <2>3, <2>5 DEF Iterates
<1> HIDE DEF T
<1>3. Nat \subseteq T
  BY <1>1, <1>2, SetInduction
<1> QED BY <1>3 DEF T

(* What starts in S and never leaves it with a step stays there.           *)
LEMMA StaysInside ==
  ASSUME NEW S, NEW n \in Nat, NEW c, c[0] \in S,
         \A i \in 1..n : c[i - 1] \in S => c[i] \in S
  PROVE  \A i \in 0..n : c[i] \in S
<1> DEFINE T == { k \in Nat : k <= n => c[k] \in S }
<1>1. 0 \in T
  OBVIOUS
<1>2. ASSUME NEW k \in Nat, k \in T PROVE k + 1 \in T
  <2> SUFFICES ASSUME k + 1 <= n PROVE c[k + 1] \in S
    OBVIOUS
  <2>1. c[k] \in S /\ k + 1 \in 1..n /\ k + 1 - 1 = k
    BY <1>2
  <2> QED
    BY <2>1
<1> HIDE DEF T
<1>3. Nat \subseteq T
  BY <1>1, <1>2, SetInduction
<1> QED BY <1>3 DEF T

(* The elements of a sequence into which x has been inserted.              *)
LEMMA InsertedElement ==
  ASSUME NEW S, NEW b \in Seq(S), NEW x \in S, NEW a \in Seq(S)
  PROVE  /\ b \o <<x>> \o a \in Seq(S)
         /\ Len(b \o <<x>> \o a) = Len(b) + 1 + Len(a)
         /\ \A i \in 1..Len(b) : (b \o <<x>> \o a)[i] = b[i]
         /\ (b \o <<x>> \o a)[Len(b) + 1] = x
         /\ \A i \in 1..Len(a) : (b \o <<x>> \o a)[Len(b) + 1 + i] = a[i]
<1> DEFINE c == b \o <<x>>
<1>1. /\ c \in Seq(S) /\ Len(c) = Len(b) + 1
      /\ \A i \in 1..Len(b) : c[i] = b[i]
      /\ c[Len(b) + 1] = x
  OBVIOUS
<1> HIDE DEF c
<1>2. /\ c \o a \in Seq(S) /\ Len(c \o a) = Len(c) + Len(a)
      /\ \A i \in 1..Len(c) : (c \o a)[i] = c[i]
      /\ \A i \in 1..Len(a) : (c \o a)[Len(c) + i] = a[i]
  BY <1>1
<1>3. c \o a = b \o <<x>> \o a
  BY DEF c
<1> QED BY <1>1, <1>2, <1>3

(* A function on 1..n is a sequence of length n.                           *)
LEMMA FunctionIsSequence ==
  ASSUME NEW S, NEW n \in Nat, NEW f \in [1..n -> S]
  PROVE  f \in Seq(S) /\ Len(f) = n
OBVIOUS

(* The length of two sequences put together.                               *)
LEMMA ConcatLength ==
  ASSUME NEW S, NEW s \in Seq(S), NEW t \in Seq(S)
  PROVE  Len(s \o t) = Len(s) + Len(t)
OBVIOUS
============================================================================
