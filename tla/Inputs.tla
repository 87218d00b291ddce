-------------------------------- MODULE Inputs --------------------------------
(***************************************************************************)
(* How an input is found in a list of inputs, when the page is built       *)
(* (engine/formengine/form_engine.go) and when its events are handled      *)
(* (engine/formengine/runtime_context.go): the first one with the id.      *)
(***************************************************************************)
EXTENDS Integers, Sequences, Functions

\* The first of some positions.
First(places) == CHOOSE i \in places : \A j \in places : i <= j

Indices(fs, id) == {i \in DOMAIN fs : fs[i].id = id}
=============================================================================
