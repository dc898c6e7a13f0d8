--------------------------- MODULE AtomicHistory ---------------------------
(***************************************************************************)
(* What the turn loop promises about the history a model is shown: it       *)
(* grows by whole messages, by whole replies and by whole batches of tool   *)
(* calls, and a call enters it once, together with its result.             *)
(***************************************************************************)
EXTENDS Naturals, Sequences

CONSTANTS Turns, Calls, None, MaxBatch

VARIABLE history

Item(t, k, c) == [turn |-> t, kind |-> k, call |-> c]

Answered == {history[i].call : i \in {j \in DOMAIN history : history[j].kind = "call"}}

\* A batch: distinct calls that no earlier batch answered.
Answerable ==
  UNION {{b \in [1..n -> Calls \ Answered] : \A i, j \in 1..n : b[i] = b[j] => i = j} :
           n \in 1..MaxBatch}

Init == history = <<>>

\* A user's block, or the text of an agent's reply.
Say(t, k) == history' = Append(history, Item(t, k, None))

\* The calls of one batch and, behind them, their results in the same order.
Commit(t, b) ==
  history' = history \o [i \in 1..Len(b) |-> Item(t, "call", b[i])]
                     \o [i \in 1..Len(b) |-> Item(t, "result", b[i])]

Next ==
  \E t \in Turns :
    \/ \E k \in {"block", "text"} : Say(t, k)
    \/ \E b \in Answerable : Commit(t, b)

Spec == Init /\ [][Next]_history
=============================================================================
