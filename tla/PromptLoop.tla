----------------------------- MODULE PromptLoop -----------------------------
(***************************************************************************)
(* What bounds a call into the runtime: the control of Manch::drive without *)
(* its data.  A turn prompts, works off the calls of the reply and prompts   *)
(* again, with an agent that may call tools in every reply for ever; only    *)
(* the budget of the `for` loop ends that.  A turn is at rest when no call    *)
(* of handle or approve is open for it.                                     *)
(***************************************************************************)
EXTENDS Integers

CONSTANTS
  Turns,
  MaxToolIters,   \* Manch::max_tool_iters
  MaxBatch        \* bound: calls in one reply

ASSUME LoopConstantsOK == MaxToolIters \in Nat \ {0} /\ MaxBatch \in Nat

VARIABLES
  stage,    \* where drive stands with each turn
  left,     \* calls of the reply that are not answered yet
  budget    \* iterations left of `for _ in 0..self.max_tool_iters`

vars == <<stage, left, budget>>

Init ==
  /\ stage = [t \in Turns |-> "rest"]
  /\ left = [t \in Turns |-> 0]
  /\ budget = [t \in Turns |-> 0]

-----------------------------------------------------------------------------
(* A slip: the loop that forgets to count.                                  *)

SpendNone(t) == budget

\* One iteration of the loop is used up.
Spend(t) == [budget EXCEPT ![t] = @ - 1]

\* The turn goes to a stage with n calls to answer.
Proceed(t, s, n) ==
  /\ stage' = [stage EXCEPT ![t] = s]
  /\ left' = [left EXCEPT ![t] = n]

\* handle enters the loop; approve answers its call first, ends the turn, or
\* fails.  Both have the whole budget.
Enter(t) ==
  /\ stage[t] = "rest"
  /\ \/ \E s \in {"loop", "ending", "rest"} : Proceed(t, s, 0)
     \/ Proceed(t, "batch", 1)
  /\ budget' = [budget EXCEPT ![t] = MaxToolIters]

Prompt(t) ==
  /\ stage[t] = "loop"
  /\ budget[t] > 0
  /\ Proceed(t, "replying", 0)
  /\ budget' = Spend(t)

\* The agent returns: without calls the turn is done.
Reply(t) ==
  /\ stage[t] = "replying"
  /\ \/ Proceed(t, "ending", 0)
     \/ \E n \in 1..MaxBatch : Proceed(t, "batch", n)
  /\ UNCHANGED budget

Answer(t) ==
  /\ stage[t] = "batch"
  /\ left[t] > 0
  /\ Proceed(t, "batch", left[t] - 1)
  /\ UNCHANGED budget

\* The batch was answered whole, and written: the next iteration.
Continue(t) ==
  /\ stage[t] = "batch"
  /\ left[t] = 0
  /\ Proceed(t, "loop", 0)
  /\ UNCHANGED budget

\* A pause or a cancellation drops the calls that are left.
Stop(t) ==
  /\ stage[t] = "batch"
  /\ Proceed(t, "ending", 0)
  /\ UNCHANGED budget

\* drive returns an outcome, ...
Return(t) ==
  /\ stage[t] = "ending"
  /\ Proceed(t, "rest", 0)
  /\ UNCHANGED budget

\* ... or an error, with the loop exceeded or where something it calls failed.
Exceed(t) ==
  /\ stage[t] = "loop"
  /\ budget[t] = 0
  /\ Proceed(t, "rest", 0)
  /\ UNCHANGED budget

Break(t) ==
  /\ stage[t] # "rest"
  /\ Proceed(t, "rest", 0)
  /\ UNCHANGED budget

\* What the runtime does by itself when nothing fails.
Step(t) ==
  \/ Prompt(t)
  \/ Reply(t)
  \/ Answer(t)
  \/ Continue(t)
  \/ Stop(t)
  \/ Return(t)
  \/ Exceed(t)

Next == \E t \in Turns : Enter(t) \/ Step(t) \/ Break(t)

Spec == Init /\ [][Next]_vars

\* Agents, tools, policies, sinks and stores return from every call; nothing
\* need fail, and consumers need not call again.
FairSpec == Spec /\ \A t \in Turns : WF_vars(Step(t))

-----------------------------------------------------------------------------
\* A call into the runtime returns, finished, suspended or with an error, also
\* if the agent calls tools in every reply and nothing ever fails
\* (Manch::drive, the `for` loop over max_tool_iters).
CallsReturn == \A t \in Turns : stage[t] # "rest" ~> stage[t] = "rest"
=============================================================================
