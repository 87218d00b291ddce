---------------------------- MODULE MCFormRuntime ----------------------------
EXTENDS FormRuntime

Made(id, type) == [id |-> id, type |-> type, label |-> "old"]

\* A form with one control, and one with two.
SmallForms == {<<Made("a", "text")>>, <<Made("a", "text"), Made("b", "text")>>}

\* A control that is new to the first form and of another type in the second.
NewInput == {Made("b", "select")}
=============================================================================
