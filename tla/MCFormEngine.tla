---------------------------- MODULE MCFormEngine -----------------------------
EXTENDS FormEngine

\* Two controls and two input types, in the order of eventKeys.
SortedKeys == <<<<"button", "a">>, <<"button", "b">>, <<"text", "a">>, <<"text", "b">>>>

Text(id, group, main) == [id |-> id, type |-> "text", group |-> group, main |-> main]
Act(id, trigger, component) ==
  [id |-> id, trigger |-> trigger, component |-> component, bound |-> FALSE]

\* An empty form, one with a default container and another, and one with two inputs of an id
\* and an action of theirs.
SampleForms ==
  {[fields |-> <<>>, actions |-> <<>>],
   [fields |-> <<Text("b", None, FALSE), Text("a", CHOOSE g \in Groups : TRUE, FALSE)>>, actions |-> <<>>],
   [fields |-> <<Text("a", None, TRUE), Text("a", CHOOSE g \in Groups : TRUE, TRUE)>>,
    actions |-> <<Act("a", "click", "text")>>]}

\* An input with a group of its own, for the default container and for another.
GuardedInputs == {Text("a", g, main) : g \in Groups, main \in BOOLEAN}
=============================================================================
