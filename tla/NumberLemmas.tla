---------------------------- MODULE NumberLemmas ----------------------------
(***************************************************************************)
(* Least and greatest elements of sets of numbers, and induction.          *)
(***************************************************************************)
EXTENDS Integers, FiniteSetsExt, WellFoundedInduction, TLAPS

(* A set of naturals that is not empty has a least element. *)
LEMMA LeastNat ==
  ASSUME NEW S \in SUBSET Nat, S # {}
  PROVE  \E x \in S : \A y \in S : x <= y
<1>1. IsWellFoundedOn(OpToRel(<, Nat), Nat)
  BY NatLessThanWellFounded
<1>2. PICK x \in S : \A y \in S : ~(<<y, x>> \in OpToRel(<, Nat))
  BY <1>1, WFMin, Zenon
<1>3. \A y \in S : ~(y < x)
  BY <1>2 DEF OpToRel
<1> QED BY <1>3

(* A set of integers with bounds, the lower one in it, has a maximum. *)
LEMMA MaxExists ==
  ASSUME NEW S \in SUBSET Int, S # {}, NEW b \in Int, \A x \in S : x <= b
  PROVE  Max(S) \in S /\ \A x \in S : x <= Max(S)
<1> DEFINE D == {d \in Nat : \E x \in S : d = b - x}
<1>0. \A x \in S : x \in Int /\ b - x \in Nat
  OBVIOUS
<1>1. D \in SUBSET Nat /\ D # {}
  BY <1>0
<1>2. PICK d \in D : \A e \in D : d <= e
  BY <1>1, LeastNat
<1>3. PICK m \in S : d = b - m
  BY <1>2
<1>4. ASSUME NEW x \in S PROVE m >= x
  <2>1. b - x \in D
    BY <1>0
  <2>2. b - m <= b - x
    BY <1>2, <1>3, <2>1
  <2> QED BY <1>0, <2>2
<1>5. \E m1 \in S : \A x \in S : m1 >= x
  BY <1>4
<1> QED BY <1>5 DEF Max

(* The greatest number of some records, or zero, when all are below a bound. *)
LEMMA LastNumber ==
  ASSUME NEW M, NEW b \in Nat, \A m \in M : m.seq \in 0..b,
         NEW S, S = {m.seq : m \in M} \cup {0}, NEW n, n = Max(S)
  PROVE  /\ n \in 0..b /\ \A m \in M : m.seq <= n
         /\ n = 0 \/ \E m \in M : m.seq = n
<1>1. S \in SUBSET Int /\ S # {} /\ b \in Int /\ \A x \in S : x <= b
  OBVIOUS
<1>2. n \in S /\ \A x \in S : x <= n
  BY <1>1, MaxExists
<1>3. \A m \in M : m.seq <= n
  BY <1>2, Zenon
<1>4. n = 0 \/ \E m \in M : m.seq = n
  BY <1>2, Zenon
<1>5. n \in 0..b
  BY <1>4
<1> QED BY <1>3, <1>4, <1>5, Zenon

(* Induction as a fact about sets. *)
LEMMA SetInduction ==
  ASSUME NEW S, 0 \in S, \A n \in Nat : n \in S => n + 1 \in S
  PROVE  Nat \subseteq S
<1> SUFFICES ASSUME Nat \ S # {} PROVE FALSE
  OBVIOUS
<1>1. PICK x \in Nat \ S : \A y \in Nat \ S : x <= y
  BY LeastNat
<1>2. x # 0 /\ x - 1 \in Nat /\ (x - 1) + 1 = x
  BY <1>1
<1>3. x - 1 \in S
  BY <1>1, <1>2
<1> QED BY <1>1, <1>2, <1>3
=============================================================================
