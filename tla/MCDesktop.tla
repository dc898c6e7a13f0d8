----------------------------- MODULE MCDesktop -----------------------------
(* Values for Desktop.                                                      *)
EXTENDS Desktop

CONSTANTS x, y, look, edit, c1, c2, t1

Option(kind, id) == [kind |-> kind, id |-> id]

\* An id used for two kinds, and an id that reads as an allow, before an option
\* that can be trusted.
SomeLists ==
  {<<Option("reject_once", "r"), Option("allow_once", "r"), Option("reject_always", "s")>>,
   <<Option("reject_once", "allow_always"), Option("reject_once", "reject_once")>>}
=============================================================================
