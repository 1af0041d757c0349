------------------------------ MODULE Refusals ------------------------------
(***************************************************************************)
(* The shape of the checks of this code base: a function looks at its      *)
(* input for one reason after the other to refuse it.  Some return the     *)
(* first reason they meet, some collect them all.                          *)
(***************************************************************************)
EXTENDS Naturals, Sequences

CONSTANT None   \* an absent field of an input or a result

\* The names of the checks that fail; `checks` says of each whether it does.
Failing(checks) == {c \in DOMAIN checks : checks[c]}

\* The first of `codes` in the order the code looks for them, or "ok".
FirstOf(order, codes) ==
  LET hits == {i \in DOMAIN order : order[i] \in codes}
  IN  IF hits = {} THEN "ok"
      ELSE order[CHOOSE i \in hits : \A j \in hits : i <= j]
=============================================================================
