------------------------------ MODULE Counting ------------------------------
(***************************************************************************)
(* Induction for what is computed along the natural numbers, as a fact about *)
(* sets: a set that holds 0, and with each number the next, holds them all.  *)
(***************************************************************************)
EXTENDS Integers, WellFoundedInduction, TLAPS

\* The order of the numbers, as a set of pairs.
Below == {pair \in Nat \X Nat : pair[1] < pair[2]}

\* A set that is reached from 0 and from each number to the next holds them all.
LEMMA Reached ==
  ASSUME NEW m \in Nat, NEW S, 0 \in S, \A n \in 0..m : n \in S /\ n < m => n + 1 \in S
  PROVE  0..m \subseteq S
<1> DEFINE missed == {n \in Nat : n <= m /\ n \notin S}
<1>1. IsWellFoundedOn(Below, Nat)
  <2>1. Below = OpToRel(<, Nat)
    BY DEF Below, OpToRel
  <2> QED BY <2>1, NatLessThanWellFounded
<1>2. SUFFICES missed = {}
  OBVIOUS
<1>3. SUFFICES ASSUME missed # {} PROVE FALSE
  OBVIOUS
<1>4. missed \subseteq Nat
  OBVIOUS
<1> HIDE DEF missed
<1>5. \E least \in missed : \A n \in missed : ~(<<n, least>> \in Below)
  BY <1>1, <1>3, <1>4, WFMin
<1>6. PICK least \in missed : \A n \in missed : ~(<<n, least>> \in Below)
  BY <1>5
<1>7. least \in Nat /\ least <= m /\ least \notin S
  BY DEF missed
<1>8. least # 0 /\ least - 1 \in Nat /\ least - 1 < m /\ least - 1 < least
  BY <1>7
<1>9. <<least - 1, least>> \in Below
  BY <1>7, <1>8 DEF Below
<1>10. least - 1 \notin missed
  BY <1>6, <1>9
<1>11. least - 1 \in S
  BY <1>8, <1>10, <1>7 DEF missed
<1>12. least - 1 \in 0..m
  BY <1>8
<1>13. (least - 1) + 1 \in S
  BY <1>8, <1>11, <1>12
<1> QED BY <1>7, <1>13
=============================================================================
