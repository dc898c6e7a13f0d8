----------------------------- MODULE MCTurnLoop -----------------------------
(* Values of the constants of TurnLoop for TLC.                             *)
EXTENDS TurnLoop, TLC

CONSTANTS t1, t2, r1, r2, d1, d2, x1

OneSession == [t \in Turns |-> "s"]
TwoSessions == [t \in Turns |-> IF t = t1 THEN "s1" ELSE "s2"]

\* r1, r2 name a Read tool, d1, d2 a Draft tool, x1 a tool nobody registered.
Tiers ==
  [c \in Calls |-> IF c \in {r1, r2} THEN "Read"
                   ELSE IF c \in {d1, d2} THEN "Draft" ELSE "None"]

\* Turns of one session differ in nothing but their name.
TurnSymmetry == Permutations(Turns)
=============================================================================
