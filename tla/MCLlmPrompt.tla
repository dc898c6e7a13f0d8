---------------------------- MODULE MCLlmPrompt ----------------------------
(* Values of the constants of LlmPrompt for TLC.                            *)
EXTENDS LlmPrompt, TLC

CONSTANTS a, b

\* a has its arguments in two pieces; both call one tool.
TwoAndOne == [c \in Calls |-> IF c = a THEN 2 ELSE 1]
OneTool == [c \in Calls |-> "tool"]
=============================================================================
