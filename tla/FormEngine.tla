----------------------------- MODULE FormEngine ------------------------------
(***************************************************************************)
(* One page instance built on FormEngine (engine/formengine/form_engine.go,*)
(* form_controls.go).  Init of the page calls the builder in any order;    *)
(* Render binds the URLs of its form actions to the instance and hands the *)
(* DSL to the client.                                                      *)
(*                                                                         *)
(* A form action stands for its id, its trigger and its URL: the component *)
(* of the "/component/id" the URL ends with, None for any other URL, and   *)
(* whether it is bound to the page and the instance.  The inputs of the    *)
(* form are listed in the order they came; a place in that list is what    *)
(* tells two inputs of one id apart, the code does not know it.  Those of  *)
(* the default container are a Go slice: an append to a full one moves it, *)
(* and leaves the handles obtained before pointing to the old array: they  *)
(* are detached.  The same Init runs on the sample page whose routes the   *)
(* application serves.                                                     *)
(***************************************************************************)
EXTENDS Inputs, FiniteSets

CONSTANTS
  Controls,     \* ids
  Types,        \* input types; "button" is one of them
  KeyOrder,     \* the event keys <<type, id>> in the order of eventKeys
  Groups,       \* access groups
  None,         \* no listener, no group, no component
  Literals,     \* the forms the page gives CreateForm
  OwnInputs,    \* the inputs it gives Field and, in a container, Container
  MaxFields, MaxActions, MaxHandles   \* bounds

ASSUME ButtonAssumption == "button" \in Types
ASSUME NoneAssumption == None \notin Types \cup Groups \cup {"click", "change"}
ASSUME KeysAssumption ==
  /\ KeyOrder \in Seq(Types \X Controls)
  /\ Range(KeyOrder) = Types \X Controls

VARIABLES
  stage,      \* "building" in Init, "rendered" after Render
  fields,     \* the inputs of the form, in the order they came
  length, cap,   \* of the slice of the default container's fields
  handles,    \* the typed controls Init has obtained and not dropped
  actions,    \* formActions
  handlers,   \* handlers[<<type, id>>]: the listener last given, or None
  given,      \* history: the keys and triggers this form was given an action for
  heard,      \* history: those it was given a listener for
  asked,      \* history: asked[i], the group the page last gave the input at place i
  missed      \* history: the places for which it did so through a detached handle

vars == <<stage, fields, length, cap, handles, actions, handlers, given, heard, asked, missed>>

Triggers == {"click", "change"}
Keys == Types \X Controls
Places == 0..MaxFields
\* main: in the default container.
Field == [id : Controls, type : Types, group : Groups \cup {None}, main : BOOLEAN]
Action == [id : Controls, trigger : Triggers, component : Types \cup {None},
           bound : BOOLEAN]
\* place is that of the input in the form, 0 for an input of a replaced form.
Handle == [id : Controls, type : Types, place : Places, attached : BOOLEAN]
\* A listener stands for the trigger and the input it was given for; left is the group
\* that input had when its form was replaced.
Listener == [trigger : Triggers, place : Places, left : Groups \cup {None}]

ASSUME NoListenerAssumption == None \notin Listener
ASSUME FieldsAssumption == MaxFields \in Nat
ASSUME LiteralsAssumption ==
  /\ OwnInputs \subseteq Field
  /\ \A form \in Literals :
       /\ form.fields \in Seq(Field) /\ Len(form.fields) <= MaxFields
       /\ form.actions \in Seq(Action) /\ \A a \in Range(form.actions) : ~a.bound

TypeOK ==
  /\ stage \in {"building", "rendered"}
  /\ fields \in Seq(Field) /\ Len(fields) <= MaxFields
  /\ length \in Nat /\ cap \in Nat /\ length <= cap
  /\ handles \subseteq Handle
  /\ actions \in Seq(Action)
  /\ handlers \in [Keys -> Listener \cup {None}]
  /\ given \subseteq Keys \X Triggers /\ heard \subseteq Keys \X Triggers
  /\ asked \in Seq(Groups \cup {None}) /\ Len(asked) = Len(fields)
  /\ missed \subseteq Places

Init ==
  /\ stage = "building"
  /\ fields = <<>> /\ asked = <<>>
  /\ length = 0 /\ cap = 0
  /\ handles = {}
  /\ actions = <<>>
  /\ handlers = [k \in Keys |-> None]
  /\ given = {} /\ heard = {}
  /\ missed = {}

-----------------------------------------------------------------------------
(* The form actions.                                                       *)

SameAction(a, b) == a.id = b.id /\ a.trigger = b.trigger

\* Mutant: an action is appended whether it is there or not.
BugUpsert(as, new) == Append(as, new)

\* upsertGeneratedFormAction: new takes the place of the first action with its id
\* and trigger, the others with them are dropped; it is appended if there is none.
Put(out, new) == IF new \in Range(out) THEN out ELSE Append(out, new)

Upsert(as, new) ==
  LET merged[i \in 0..Len(as)] ==
        IF i = 0 THEN <<>>
        ELSE IF SameAction(as[i], new) THEN Put(merged[i - 1], new)
        ELSE Append(merged[i - 1], as[i])
  IN Put(merged[Len(as)], new)

FormAction(key, trigger, bound) ==
  [id |-> key[2], trigger |-> trigger, component |-> key[1], bound |-> bound]

\* Mutant: the component in the URL is not compared.
BugOfKey(as, key) == {i \in DOMAIN as : as[i].id = key[2] /\ ~as[i].bound}

\* formActionTrigger: the actions whose URL ends with the key; a bound URL ends with
\* the instance.
OfKey(as, key) ==
  {i \in DOMAIN as : as[i].id = key[2] /\ as[i].component = key[1] /\ ~as[i].bound}

\* Mutant: every key that has an action is bound.
BugEventKeys == Keys

\* eventKeys: the keys with a handler.
EventKeys == {key \in Keys : handlers[key] # None}

\* One round of bindFormActionRoutes: the first action of the key gives the trigger.
BindKey(as, key) ==
  IF key \in EventKeys /\ OfKey(as, key) # {}
  THEN Upsert(as, FormAction(key, as[First(OfKey(as, key))].trigger, TRUE))
  ELSE as

\* bindFormActionRoutes: the keys in their order.
Bound(as) ==
  LET out[i \in 0..Len(KeyOrder)] ==
        IF i = 0 THEN as ELSE BindKey(out[i - 1], KeyOrder[i])
  IN out[Len(KeyOrder)]

-----------------------------------------------------------------------------
(* The controls and their access groups.                                   *)

\* Mutant: the last field with the id is found.
BugPlace(fs, id) == CHOOSE i \in Indices(fs, id) : \A j \in Indices(fs, id) : j <= i

\* The inputs with the id in the default container, and in the containers inside it or
\* after it.
Main(fs, id) == {i \in Indices(fs, id) : fs[i].main}

\* findInputById: the first input with the id, the default container's own before others.
Place(fs, id) == First(IF Main(fs, id) # {} THEN Main(fs, id) ELSE Indices(fs, id))

\* accessGroupForEvent: the group the route of a key asks for, None if any user may.
EventGroup(key) ==
  IF Indices(fields, key[2]) = {} THEN None ELSE fields[Place(fields, key[2])].group

-----------------------------------------------------------------------------
(* Init of the page.                                                       *)

Building ==
  /\ stage = "building"
  /\ UNCHANGED stage

\* Mutant: the capacity is left as it was.
BugAppendField(field) ==
  /\ Len(fields) < MaxFields
  /\ fields' = Append(fields, field) /\ asked' = Append(asked, field.group)
  /\ length' = length + 1
  /\ UNCHANGED cap

\* append to the default container's fields
AppendField(field) ==
  /\ Len(fields) < MaxFields
  /\ fields' = Append(fields, field) /\ asked' = Append(asked, field.group)
  /\ length' = length + 1
  /\ IF length < cap
     THEN UNCHANGED cap
     ELSE cap' = IF cap = 0 THEN 1 ELSE 2 * cap

Detached(hs) == {[h EXCEPT !.attached = FALSE] : h \in hs}

\* The handles after an append to the default container: if its fields move, the handles
\* into it are detached.
Kept ==
  IF cap' = cap THEN handles
  ELSE LET Moved == {h \in handles : h.place # 0 /\ fields[h.place].main}
       IN (handles \ Moved) \cup Detached(Moved)

\* GetInputById and its typed variants: the first input with the id, if it has the
\* type; otherwise there is an error and no handle.
Get(id, type) ==
  IF Indices(fields', id) # {} /\ fields'[Place(fields', id)].type = type
  THEN {[id |-> id, type |-> type, place |-> Place(fields', id), attached |-> TRUE]}
  ELSE {}

\* The page keeps the handle it obtains, if it has one to keep.
Obtain(hs, key) ==
  /\ handles' \in {hs, hs \cup Get(key[2], key[1])}
  /\ Cardinality(handles') <= MaxHandles

\* The listeners when the form is replaced.
LeftListeners ==
  [key \in Keys |->
     IF handlers[key] = None \/ handlers[key].place = 0 THEN handlers[key]
     ELSE [handlers[key] EXCEPT !.place = 0, !.left = asked[handlers[key].place]]]

\* CreateForm and SetForm with a new literal: its containers and form actions.  The handlers
\* of the previous form stay, and so do the page's handles of its controls.
CreateForm ==
  /\ Building
  /\ \E form \in Literals : fields' = form.fields /\ actions' = form.actions
  /\ length' = Cardinality({i \in DOMAIN fields' : fields'[i].main}) /\ cap' = length'
  /\ asked' = [i \in DOMAIN fields' |-> fields'[i].group]
  /\ missed' = {} /\ heard' = {}
  /\ given' = {<<<<a.component, a.id>>, a.trigger>> : a \in Range(actions')} \cap (Keys \X Triggers)
  /\ handles' = {[h EXCEPT !.place = 0, !.attached = FALSE] : h \in handles}
  /\ handlers' = LeftListeners

\* Container with an input: a container after the others.  It is the default one if the
\* form has none.
AddContainer ==
  /\ Building
  /\ Len(fields) < MaxFields
  /\ \E field \in OwnInputs :
       /\ field.main => fields = <<>>
       /\ fields' = Append(fields, field) /\ asked' = Append(asked, field.group)
       /\ IF field.main THEN length' = 1 /\ cap' = 1 ELSE UNCHANGED <<length, cap>>
  /\ UNCHANGED <<handles, actions, handlers, given, heard, missed>>

\* Field with an input of the page's own.
AddInput ==
  /\ Building
  /\ \E field \in OwnInputs : field.main /\ AppendField(field)
  /\ handles' = Kept
  /\ UNCHANGED <<actions, handlers, given, heard, missed>>

NewField(type, id) == [id |-> id, type |-> type, group |-> None, main |-> TRUE]

\* Text, Select, ... Label: Field, then the getter.
AddField ==
  /\ Building
  /\ \E key \in Keys :
       /\ AppendField(NewField(key[1], key[2]))
       /\ Obtain(Kept, key)
  /\ UNCHANGED <<actions, handlers, given, heard, missed>>

\* Button: Field, Action, then GetButtonById.
Button ==
  /\ Building
  /\ Len(actions) < MaxActions
  /\ \E id \in Controls :
       /\ AppendField(NewField("button", id))
       /\ actions' = Append(actions, FormAction(<<"button", id>>, "click", FALSE))
       /\ given' = given \cup {<<<<"button", id>>, "click">>}
       /\ Obtain(Kept, <<"button", id>>)
  /\ UNCHANGED <<handlers, heard, missed>>

\* Action with a FormAction of the page's own, to the URL of a control or another one.
AddAction ==
  /\ Building
  /\ Len(actions) < MaxActions
  /\ \E id \in Controls, component \in Types \cup {None}, trigger \in Triggers :
       /\ actions' = Append(actions, FormAction(<<component, id>>, trigger, FALSE))
       /\ given' = given \cup ({<<<<component, id>>, trigger>>} \cap (Keys \X Triggers))
  /\ UNCHANGED <<fields, length, cap, handles, handlers, heard, asked, missed>>

\* A getter called later on.
GetById ==
  /\ Building
  /\ UNCHANGED <<fields, length, cap, actions, handlers, given, heard, asked, missed>>
  /\ \E field \in Range(fields) : Obtain(handles, <<field.type, field.id>>)

\* SetAccess and Access of a control: what is set on a detached one is lost.
Access ==
  /\ Building
  /\ \E handle \in handles, group \in Groups :
       /\ handle.place # 0
       /\ asked' = [asked EXCEPT ![handle.place] = group]
       /\ IF handle.attached
          THEN /\ fields' = [fields EXCEPT ![handle.place].group = group]
               /\ missed' = missed \ {handle.place}
          ELSE /\ missed' = missed \cup {handle.place}
               /\ UNCHANGED fields
  /\ UNCHANGED <<length, cap, handles, actions, handlers, given, heard>>

\* Mutant: the listener is stored, the action left as it is.
BugListen(key, listener) ==
  /\ handlers' = [handlers EXCEPT ![key] = listener]
  /\ UNCHANGED actions

\* registerFormEvent
Listen(key, listener) ==
  /\ handlers' = [handlers EXCEPT ![key] = listener]
  /\ actions' = Upsert(actions, FormAction(key, listener.trigger, FALSE))

\* OnClick or OnChange of a control, which may be one of a replaced form.
OnEvent ==
  /\ Building
  /\ \E handle \in handles, trigger \in Triggers :
       /\ Listen(<<handle.type, handle.id>>, [trigger |-> trigger, place |-> handle.place, left |-> None])
       /\ Len(actions') <= MaxActions
       /\ given' = given \cup {<<<<handle.type, handle.id>>, trigger>>}
       /\ heard' = heard \cup {<<<<handle.type, handle.id>>, trigger>>}
  /\ UNCHANGED <<fields, length, cap, handles, asked, missed>>

\* Init returns and the form actions are bound.
Render ==
  /\ stage = "building"
  /\ stage' = "rendered"
  /\ actions' = Bound(actions)
  /\ UNCHANGED <<fields, length, cap, handles, handlers, given, heard, asked, missed>>

Next ==
  \/ CreateForm \/ AddContainer \/ AddInput \/ AddField \/ Button \/ AddAction
  \/ GetById \/ Access \/ OnEvent \/ Render

Spec == Init /\ [][Next]_vars

-----------------------------------------------------------------------------
(* Properties.                                                             *)

Rendered == stage = "rendered"

\* A URL bound to the instance leads to a handler: none is bound for a control
\* without a listener, whatever forms and actions Init replaced.
BoundActionsHandled ==
  Rendered => \A a \in Range(actions) : a.bound => handlers[<<a.component, a.id>>] # None

\* No second action of the DSL competes with a bound one for its id and trigger.
BoundOnce ==
  Rendered => \A i, j \in DOMAIN actions :
                actions[i].bound /\ SameAction(actions[i], actions[j]) => i = j

\* A control with a handler and an action in the current form can be reached from the
\* DSL, also when the handler is left from a replaced form, unless the form was given an
\* action of another type of control with its id.
ListenersReachable ==
  Rendered => \A key \in Keys :
    /\ handlers[key] # None
    /\ \E t \in Triggers : <<key, t>> \in given
    /\ \A g \in given : g[1][2] = key[2] => g[1] = key
    => \E a \in Range(actions) : a.bound /\ <<a.component, a.id>> = key

\* A control of the form that was given one trigger only, and a listener for it, is bound
\* for that trigger and to that listener: never to one left from a replaced form, nor for
\* the trigger of another control or of another type.  (Given two, it has one handler for
\* both actions, though form_controls.go:251, 261 are a listener for each.)
TriggerRunsItsListener ==
  Rendered => \A key \in Keys, t \in Triggers :
    {u \in Triggers : <<key, u>> \in given} = {t} /\ <<key, t>> \in heard =>
      /\ handlers[key].trigger = t
      /\ \A a \in Range(actions) : a.bound /\ <<a.component, a.id>> = key => a.trigger = t

\* docs/user-guide.md:1544: the event of a control with an access group is checked before
\* OnClick or OnChange.  The route of a listener's event asks for the group the page last
\* gave the very input the listener was given for, in a literal, with Field or through a
\* handle, however many inputs of its id the default container has besides.  The code makes
\* three exceptions: a group given through a handle that a later field detached is missed,
\* a listener left from a replaced form has no input, and one of a second container is
\* under the group of the default container's input of its id.
AccessInForce ==
  Rendered => \A key \in Keys :
    LET place == handlers[key].place IN
    /\ handlers[key] # None /\ place # 0 /\ place \notin missed
    /\ fields[place].main \/ Main(fields, key[2]) = {}
    => EventGroup(key) = asked[place]
=============================================================================
