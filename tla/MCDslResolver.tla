---------------------------- MODULE MCDslResolver ----------------------------
EXTENDS DslResolver

\* A page with two controls, one of them a group with a control in it.
Tree == [n \in {"control", "group", "inner"} |-> IF n = "inner" THEN "group" ELSE "page"]
=============================================================================
