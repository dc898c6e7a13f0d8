----------------------------- MODULE AgentReply -----------------------------
(***************************************************************************)
(* What Agent::prompt promises its sink about tool calls: a call is         *)
(* reported once and only after the model issued it, and a reply that ends  *)
(* with Done has reported every call it issued.  A reply that ends with an  *)
(* error promises nothing more.  Nothing follows the end.                   *)
(***************************************************************************)
EXTENDS Sequences

CONSTANT Calls

VARIABLES issued, reported, state

vars == <<issued, reported, state>>

Reported == {reported[i] : i \in DOMAIN reported}

Init ==
  /\ issued = {}
  /\ reported = <<>>
  /\ state = "open"

Issue(c) ==
  /\ state = "open"
  /\ c \notin issued
  /\ issued' = issued \cup {c}
  /\ UNCHANGED <<reported, state>>

Report(c) ==
  /\ state = "open"
  /\ c \in issued \ Reported
  /\ reported' = Append(reported, c)
  /\ UNCHANGED <<issued, state>>

Finish ==
  /\ state = "open"
  /\ Reported = issued
  /\ state' = "done"
  /\ UNCHANGED <<issued, reported>>

Break ==
  /\ state = "open"
  /\ state' = "failed"
  /\ UNCHANGED <<issued, reported>>

Next == (\E c \in Calls : Issue(c) \/ Report(c)) \/ Finish \/ Break

Spec == Init /\ [][Next]_vars
=============================================================================
