------------------------------ MODULE FormRuntime ------------------------------
(***************************************************************************)
(* The events of one page instance on FormEngine (engine/formengine/        *)
(* runtime_context.go, Handle of form_engine.go) and the client that shows  *)
(* its form.  A handler gets controls of the DSL the instance keeps, and    *)
(* changes it; what it did is recorded as mutations, and the client applies *)
(* those of the answers it gets.                                           *)
(*                                                                         *)
(* The events of an instance run one after the other, their answers can     *)
(* overtake each other or be lost.  The handler of a dialog is an event of  *)
(* its own without a context: it works with that of an earlier one, and its *)
(* answer is empty.  The fields added at run time are a Go slice of the     *)
(* root: an append to a full one moves it, and the controls obtained before *)
(* keep the old array.                                                     *)
(***************************************************************************)
EXTENDS Inputs, SequencesExt

CONSTANTS
  Ids, InputTypes, Labels,
  Forms,                  \* the fields Init may have made, sequences of inputs
  Addable,                \* the inputs a handler may add
  MaxEvents, MaxCalls     \* bounds: events, and calls of a handler

VARIABLES
  built,      \* the fields of the containers Init made
  added,      \* root.Fields
  room,       \* the capacity of root.Fields
  shown,      \* what the client shows, in its order
  events,     \* how many events were handled
  running,    \* a handler runs
  reporting,  \* and what its context records is answered: it is not a dialog's
  calls,      \* its calls so far
  controls,   \* the controls that handlers have obtained
  mutations,  \* RuntimeContext.Mutations
  failed,     \* RuntimeContext.Err is set
  touched,    \* history: the ids the running handler changed
  answers,    \* the answers on their way to the client
  excused     \* history: why the client may show an id otherwise, pairs <<id, reason>>

runtimeVars == <<built, added, room, shown, events, running, reporting, calls, controls,
                 mutations, failed, touched, answers, excused>>

tree == <<built, added, room>>
handling == <<running, reporting, calls, controls, mutations, failed, touched>>
client == <<shown, answers>>

Input == [id : Ids, type : InputTypes, label : Labels]
\* A mutation is [op, id, input], with op "update", "add" or "remove".  A control is the
\* place [id, list, at] of its input in the list "added" or "built", one that was moved
\* away or made up is in the list "none"; fresh says whether its context is the running
\* handler's.

ASSUME FormsAssumption == Forms \subseteq Seq(Input) /\ Addable \subseteq Input

RuntimeInit ==
  /\ built \in Forms /\ shown = built
  /\ added = <<>> /\ room = 0
  /\ events = 0 /\ running = FALSE /\ reporting = FALSE /\ calls = 0
  /\ controls = {} /\ mutations = <<>> /\ failed = FALSE /\ touched = {}
  /\ answers = {}
  /\ excused = {}

-----------------------------------------------------------------------------
(* The DSL.                                                                *)

IndexOf(list, id) == IF Indices(list, id) = {} THEN 0 ELSE First(Indices(list, id))

Has(id) == IndexOf(added, id) # 0 \/ IndexOf(built, id) # 0

\* findInputByIdInContainer: the fields of the root come before those of its containers.
Find(id) ==
  IF IndexOf(added, id) # 0
  THEN [id |-> id, list |-> "added", at |-> IndexOf(added, id), fresh |-> TRUE]
  ELSE [id |-> id, list |-> "built", at |-> IndexOf(built, id), fresh |-> TRUE]

InputOf(control) == IF control.list = "added" THEN added[control.at] ELSE built[control.at]

-----------------------------------------------------------------------------
(* The handler's calls.                                                     *)

Calling ==
  /\ running
  /\ calls < MaxCalls
  /\ calls' = calls + 1
  /\ UNCHANGED <<built, room, events, running, reporting, client>>

Because(reason, ids) == excused' = excused \cup {<<id, reason>> : id \in ids}

Record(op, input) == mutations' = Append(mutations, [op |-> op, id |-> input.id, input |-> input])

\* fail
Fail == failed' = TRUE

\* The typed getters: the first input with the id, if it has the type.  Otherwise the
\* context fails, and the control is not part of the DSL.
GetControl ==
  /\ Calling
  /\ \E id \in Ids, type \in InputTypes :
       IF Has(id) /\ InputOf(Find(id)).type = type
       THEN /\ controls' = controls \cup {Find(id)}
            /\ UNCHANGED failed
       ELSE /\ controls' = controls \cup {[id |-> id, list |-> "none", at |-> 0, fresh |-> TRUE]}
            /\ Fail
  /\ UNCHANGED <<added, mutations, touched, excused>>

\* Mutant: the DSL of the instance is left as it was.
BugStore(control, label) == UNCHANGED <<built, added>>

\* The write through the control's pointer.
Store(control, label) ==
  /\ added' = IF control.list = "added" THEN [added EXCEPT ![control.at].label = label] ELSE added
  /\ built' = IF control.list = "built" THEN [built EXCEPT ![control.at].label = label] ELSE built

\* SetLabel, SetVisibility, SetHint, SetOptions: valid asks for the control's id only.  What
\* a control of an earlier handler records, or fails, is in a context nobody answers.
SetLabel ==
  /\ running
  /\ calls < MaxCalls
  /\ calls' = calls + 1
  /\ \E control \in controls, label \in Labels :
       IF Has(control.id)
       THEN /\ Store(control, label)
            /\ touched' = touched \cup {control.id}
            /\ IF control.fresh
               THEN Record("update", [InputOf(Find(control.id)) EXCEPT !.label = label])
               ELSE UNCHANGED mutations
            /\ IF ~control.fresh THEN Because("unheard", {control.id})
               ELSE IF control.list = "none" THEN Because("moved", {control.id})
               ELSE UNCHANGED excused
            /\ UNCHANGED failed
       ELSE /\ IF control.fresh THEN Fail ELSE UNCHANGED failed
            /\ UNCHANGED <<built, added, mutations, touched, excused>>
  /\ UNCHANGED <<room, events, running, reporting, controls, client>>

\* Form().Add of an input: it is appended to the fields of the root, found or not before.
Add ==
  /\ running
  /\ calls < MaxCalls
  /\ calls' = calls + 1
  /\ \E input \in Addable :
       /\ added' = Append(added, input)
       /\ IF Len(added) < room
          THEN UNCHANGED <<room, controls>>
          ELSE /\ room' = IF room = 0 THEN 1 ELSE 2 * room
               /\ controls' = {IF c.list = "added" THEN [c EXCEPT !.list = "none"] ELSE c :
                                 c \in controls}
       /\ Record("add", input)
       /\ touched' = touched \cup {input.id}
       /\ IF Has(input.id) THEN Because("twice", {input.id}) ELSE UNCHANGED excused
  /\ UNCHANGED <<built, events, running, reporting, failed, client>>

\* Form().Add of anything else, a pointer to an input or a container with it: the mutation is
\* all there is.
AddNode ==
  /\ Calling
  /\ \E input \in Addable :
       /\ Record("add", input)
       /\ Because("node", {input.id})
  /\ UNCHANGED <<added, controls, failed, touched>>

\* Remove, Form().Remove: the mutation is all there is, the DSL keeps the input.
RemoveControl ==
  /\ Calling
  /\ \E id \in Ids :
       IF Has(id)
       THEN /\ Record("remove", InputOf(Find(id)))
            /\ Because("removed", {id})
            /\ UNCHANGED failed
       ELSE Fail /\ UNCHANGED <<mutations, excused>>
  /\ UNCHANGED <<added, controls, touched>>

\* SetError by the handler.
SetError ==
  /\ Calling
  /\ Fail
  /\ UNCHANGED <<added, controls, mutations, touched, excused>>

-----------------------------------------------------------------------------
(* Handle.                                                                  *)

\* A handler is called: that of an event, or, with reporting FALSE, that of a dialog.
Begin ==
  /\ ~running
  /\ events < MaxEvents
  /\ events' = events + 1
  /\ running' = TRUE /\ reporting' \in BOOLEAN
  /\ calls' = 0 /\ mutations' = <<>> /\ failed' = FALSE /\ touched' = {}
  /\ controls' = {[c EXCEPT !.fresh = FALSE] : c \in controls}
  /\ UNCHANGED <<tree, client, excused>>

\* The handler returns.  An error is answered without the mutations, a dialog with none; the
\* DSL keeps what the handler did to it.
Return ==
  /\ running
  /\ running' = FALSE
  /\ IF failed \/ ~reporting
     THEN /\ Because(IF reporting THEN "failed" ELSE "unheard", touched)
          /\ UNCHANGED answers
     ELSE /\ answers' = answers \cup {[number |-> events, mutations |-> mutations]}
          /\ UNCHANGED excused
  /\ UNCHANGED <<tree, shown, events, reporting, calls, controls, mutations, failed, touched>>

\* The handler panics: the web server answers 500.
Panic ==
  /\ running
  /\ running' = FALSE
  /\ Because("failed", touched)
  /\ UNCHANGED <<tree, client, events, reporting, calls, controls, mutations, failed, touched>>

-----------------------------------------------------------------------------
(* The client.                                                              *)

\* One mutation, for the first control with the id.
Apply(list, m) ==
  LET at == IndexOf(list, m.id) IN
  IF m.op = "add" THEN Append(list, m.input)
  ELSE IF at = 0 THEN list
  ELSE IF m.op = "update" THEN [list EXCEPT ![at].label = m.input.label]
  ELSE RemoveAt(list, at)

\* The mutations of an answer, one after the other.
Applied(list, ms) ==
  LET after[i \in 0..Len(ms)] == IF i = 0 THEN list ELSE Apply(after[i - 1], ms[i])
  IN after[Len(ms)]

Told(answer) == {m.id : m \in Range(answer.mutations)}

Overtaken(answer) == {a \in answers : a.number < answer.number}

\* An answer arrives, before or after those of earlier events.
Receive ==
  /\ \E answer \in answers :
       /\ answers' = answers \ {answer}
       /\ shown' = Applied(shown, answer.mutations)
       /\ Because("overtaken", UNION {Told(a) : a \in Overtaken(answer)})
  /\ UNCHANGED <<tree, events, handling>>

\* An answer is lost.
Lose ==
  /\ \E answer \in answers :
       /\ answers' = answers \ {answer}
       /\ Because("lost", Told(answer))
  /\ UNCHANGED <<tree, shown, events, handling>>

RuntimeNext ==
  \/ Begin \/ GetControl \/ SetLabel \/ Add \/ AddNode \/ RemoveControl \/ SetError
  \/ Return \/ Panic \/ Receive \/ Lose

RuntimeSpec == RuntimeInit /\ [][RuntimeNext]_runtimeVars

-----------------------------------------------------------------------------
(* Properties.                                                              *)

Labelled(list, id) ==
  IF IndexOf(list, id) = 0 THEN {} ELSE {list[IndexOf(list, id)].label}

Why(id) == {e[2] : e \in {x \in excused : x[1] = id}}

\* When nothing is on its way, the client shows the controls as the DSL has them, and the next
\* handler starts from what the user sees, however the handlers of many events changed a
\* control.  The code makes the exceptions that `excused` names: a handler that touched the
\* control failed or panicked, and its changes to the DSL stay (docs/client-events.md:1433:
\* all changes are explicit mutations), or was a dialog's; it used a control that Add had
\* moved away or that was removed, which the check by id of docs/user-guide.md:893 does not
\* see; the control was added twice, or in another form than an input; or answers about it
\* were lost or overtook each other (docs/user-guide.md:1831: the original order).
ClientShowsTheDsl ==
  ~running /\ answers = {} =>
    \A id \in Ids : Why(id) = {} => Labelled(shown, id) = Labelled(added \o built, id)
=============================================================================
