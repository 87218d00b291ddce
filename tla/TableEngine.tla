------------------------------ MODULE TableEngine ------------------------------
(***************************************************************************)
(* One page on TableEngine (engine/tableengine/table_engine.go, table/      *)
(* dsl.go, table/runtime.go).  Init of the page calls the engine and its    *)
(* builders in any order; Render binds the URLs of the actions and of the   *)
(* table events; a request to a URL runs the handler of its key.            *)
(*                                                                         *)
(* Every action of the table is given a handler and an access group of its  *)
(* own by the call that makes it, every setting (title, data, selection...) *)
(* a value of its own: all are named by a mark, the number of the call and  *)
(* the place in it.  A URL is the event key it is made of.                  *)
(* Tables are numbered in the order of their names, 0 is no name.           *)
(***************************************************************************)
EXTENDS Naturals, SequencesExt

CONSTANTS
  Tables, Columns, Actions,   \* ids, tables are numbers from 1
  Kinds,                      \* the groups of table actions: toolbar, row, selected
  Events,                     \* the table events: reload, filter, pagination
  Nil,                        \* no URL, no handler, no column, no action
  MaxCalls                    \* bound on the calls of Init

ASSUME TablesAssumption == Tables \subseteq Nat \ {0}
ASSUME NamesAssumption == "column" \notin Kinds \cup Events /\ Kinds \cap Events = {}
ASSUME CallsAssumption == MaxCalls \in Nat

VARIABLES
  stage,      \* "building", then "rendered"
  calls,      \* how many calls Init has made
  schema,     \* TableEngine.dsl
  tableID,    \* TableEngine.tableID
  handlers,   \* the marks of the handlers, by event key
  room,       \* the capacity of the slice schema.Columns
  builders,   \* the columns that builders Init keeps point to
  elsewhere,  \* other builders do not: the table moved or copied their columns
  enabled,    \* Builder.enabledEvents of the last builder of the table
  given,      \* what Init gave the table since it was created, and did not replace
  strays,     \* what of it was given through one of those
  bare,       \* the table was created from a schema without columns
  offered,    \* the events Init gave a handler since the table was created
  dropped     \* those that a Features of another builder left out afterwards

columnVars == <<room, builders, elsewhere>>
eventVars == <<enabled, offered, dropped>>

vars == <<stage, calls, schema, tableID, handlers, columnVars, eventVars, given, strays, bare>>

Key == [table : Tables, event : Kinds \cup Events \cup {"column"},
        column : Columns \cup {Nil}, action : Actions \cup {Nil}]
ASSUME NilAssumption == Nil \notin Key

Mark == (1 .. MaxCalls) \X (1 .. 2)
Action == [id : Actions, mark : Mark, url : Key \cup {Nil}]
Column == [id : Columns, settings : SUBSET Mark, actions : Seq(Action)]
Schema ==
  [id : Tables \cup {0}, columnless : BOOLEAN, columns : Seq(Column),
   actions : [Kinds -> Seq(Action)], features : SUBSET Events,
   settings : SUBSET Mark, events : [Events -> Key \cup {Nil}]]

TypeOK ==
  /\ stage \in {"building", "rendered"}
  /\ calls \in 0 .. MaxCalls
  /\ schema \in Schema
  /\ tableID \in Tables \cup {0}
  /\ DOMAIN handlers \subseteq Key /\ Range(handlers) \subseteq Mark
  /\ room \in Nat /\ builders \subseteq Nat /\ elsewhere \in BOOLEAN
  /\ enabled \subseteq Events
  /\ given \subseteq Mark /\ strays \subseteq Mark /\ bare \in BOOLEAN
  /\ offered \subseteq Events /\ dropped \subseteq Events

\* table.New
New(table) ==
  [id |-> table, columnless |-> FALSE, columns |-> <<>>, actions |-> [k \in Kinds |-> <<>>],
   features |-> {}, settings |-> {}, events |-> [e \in Events |-> Nil]]

Init ==
  /\ stage = "building"
  /\ calls = 0
  /\ schema = [New(0) EXCEPT !.columnless = TRUE]
  /\ tableID = 0
  /\ handlers = <<>>
  /\ room = 0 /\ builders = {} /\ elsewhere = FALSE
  /\ enabled = {} /\ offered = {} /\ dropped = {}
  /\ given = {} /\ strays = {} /\ bare = FALSE

-----------------------------------------------------------------------------
(* The schema.                                                             *)

\* The mark of what the i-th element of this call is given.
MarkOf(i) == <<calls + 1, i>>

NewAction(id, i) == [id |-> id, mark |-> MarkOf(i), url |-> Nil]

\* ensureDSL, NewBuilder: a schema that has no columns is a new one.
Ensured(s) == IF s.columnless THEN New(0) ELSE s

Marks(actions) == {a.mark : a \in Range(actions)}

ColumnMarks(s) == UNION {c.settings \cup Marks(c.actions) : c \in Range(s.columns)}

\* What of the page's own a schema holds.
Contents(s) ==
  s.settings \cup ColumnMarks(s) \cup UNION {Marks(s.actions[k]) : k \in Kinds}

ActionKey(event, column, action) ==
  [table |-> tableID, event |-> event, column |-> column, action |-> action]

\* Mutant: a table without a name gets handlers too.
BugRegister(registrations) == handlers' = registrations @@ handlers

\* RegisterTableHandler and the four Register...ActionHandler: a table without a name
\* gets none.  registrations: the marks of the keys.
Register(registrations) ==
  handlers' =
    IF tableID = 0 THEN handlers
    ELSE [k \in DOMAIN registrations \cup DOMAIN handlers |->
            IF k \in DOMAIN registrations THEN registrations[k] ELSE handlers[k]]

\* The one handler of a call, under its key.
Handler(key) == [k \in {key} |-> MarkOf(1)]

\* One more call of Init.
Calling ==
  /\ stage = "building"
  /\ calls < MaxCalls
  /\ calls' = calls + 1
  /\ UNCHANGED stage

\* A call that changes the schema it finds.
Edit(new) ==
  LET old == Ensured(schema) IN
  /\ schema' = new
  /\ given' = (given \ (Contents(old) \ Contents(new))) \cup Contents(new)
  /\ UNCHANGED bare

\* A call of the engine makes a new builder, one of a chain goes on with the old one.
Builder(chained) == IF chained THEN enabled ELSE {}

-----------------------------------------------------------------------------
(* Init of the page.                                                       *)

\* A new table, without columns, builders and events.
Created ==
  /\ room' = 0 /\ builders' = {} /\ elsewhere' = FALSE
  /\ strays' = {} /\ offered' = {} /\ dropped' = {}

\* Table: the handlers of the table before it stay.
Table ==
  /\ Calling
  /\ \E table \in Tables \cup {0} :
       /\ schema' = New(table)
       /\ tableID' = table
  /\ Created
  /\ enabled' = {} /\ given' = {} /\ bare' = FALSE
  /\ UNCHANGED handlers

\* CreateTable, SetDSL with a schema of the page, that may have no columns.
CreateTable ==
  /\ Calling
  /\ \E columnless \in BOOLEAN :
       /\ schema' = [New(0) EXCEPT !.columnless = columnless, !.settings = {MarkOf(1)}]
       /\ bare' = columnless
  /\ Created
  /\ given' = {MarkOf(1)}
  /\ UNCHANGED <<tableID, handlers, enabled>>

\* The setters of the engine, of the builder and of the schema.
Set ==
  /\ Calling
  /\ Edit([Ensured(schema) EXCEPT !.settings = @ \cup {MarkOf(1)}])
  /\ UNCHANGED <<tableID, handlers, columnVars, eventVars, strays>>

\* Mutant: an empty list of columns is left nil.
BugSetColumns(columns) ==
  /\ Edit([Ensured(schema) EXCEPT !.columns = columns, !.columnless = columns = <<>>])
  /\ UNCHANGED handlers

\* Builder.Columns: the columns are replaced by copies of those of its builders, and
\* their actions registered.
SetColumns(columns) ==
  LET marked == UNION {{<<ActionKey("column", c.id, a.id), a.mark>> : a \in Range(c.actions)} :
                         c \in Range(columns)}
      marks(key) == {p[2] : p \in {q \in marked : q[1] = key}}
      latest(key) == CHOOSE m \in marks(key) : \A n \in marks(key) : n[2] <= m[2]
  IN /\ Edit([Ensured(schema) EXCEPT !.columns = columns])
     /\ Register([key \in {p[1] : p \in marked} |-> latest(key)])

ReplaceColumns ==
  /\ Calling
  /\ \E n \in 0 .. 2 : \E ids \in [1 .. n -> Columns], acting \in [1 .. n -> BOOLEAN], action \in Actions :
       /\ SetColumns([i \in 1 .. n |->
            [id |-> ids[i], settings |-> {},
             actions |-> IF acting[i] THEN <<NewAction(action, i)>> ELSE <<>>]])
       /\ room' = n /\ elsewhere' = (n > 0)
  /\ builders' = {}
  /\ UNCHANGED <<tableID, eventVars, strays>>

\* Column and DisplayColumn with a header: the column is appended at once.  When the slice
\* is full it moves, and the builders of the columns before point to the old one.
AppendColumn ==
  /\ Calling
  /\ \E id \in Columns :
       LET old == Ensured(schema)
           place == Len(old.columns) + 1
       IN /\ Edit([old EXCEPT
                  !.columns = Append(@, [id |-> id, settings |-> {}, actions |-> <<>>])])
          /\ IF place <= room
             THEN builders' = builders \cup {place} /\ UNCHANGED <<room, elsewhere>>
             ELSE /\ room' = IF room = 0 THEN 1 ELSE 2 * room
                  /\ builders' = {place}
                  /\ elsewhere' = (elsewhere \/ builders # {})
  /\ UNCHANGED <<tableID, handlers, eventVars, strays>>

\* What is set on the builder of a column that was moved, or copied, is not the table's.
Stray ==
  /\ elsewhere
  /\ given' = given \cup {MarkOf(1)} /\ strays' = strays \cup {MarkOf(1)}
  /\ UNCHANGED <<schema, bare>>

\* A setter of ColumnBuilder, its access group too, in the chain of Column or later.
SetColumn ==
  /\ Calling
  /\ \/ /\ \E i \in builders : Edit([schema EXCEPT !.columns[i].settings = @ \cup {MarkOf(1)}])
        /\ UNCHANGED strays
     \/ Stray
  /\ UNCHANGED <<tableID, handlers, columnVars, eventVars>>

\* AddAction and AddActionBuilder: the handler is never registered, Columns does that for
\* the columns it is given.
AddColumnAction ==
  /\ Calling
  /\ \/ /\ \E i \in builders, id \in Actions :
             Edit([schema EXCEPT !.columns[i].actions = Append(@, NewAction(id, 1))])
        /\ UNCHANGED strays
     \/ Stray
  /\ UNCHANGED <<tableID, handlers, columnVars, eventVars>>

\* ToolbarAction, RowAction, SelectedAction and their plural forms.  They do nothing
\* for a table without a name.
AddAction ==
  /\ Calling
  /\ \E kind \in Kinds, id \in Actions :
       /\ IF tableID = 0
          THEN Edit(Ensured(schema))
          ELSE Edit([Ensured(schema) EXCEPT !.actions[kind] = Append(@, NewAction(id, 1))])
       /\ Register(Handler(ActionKey(kind, Nil, id)))
  /\ UNCHANGED <<tableID, columnVars, eventVars, strays>>

\* Actions: the action groups are replaced, here by at most one action without a
\* handler.
ReplaceActions ==
  /\ Calling
  /\ \E kind \in Kinds, actions \in {<<>>} \cup {<<NewAction(id, 2)>> : id \in Actions} :
       Edit([Ensured(schema) EXCEPT !.actions = [k \in Kinds |-> IF k = kind THEN actions ELSE <<>>]])
  /\ UNCHANGED <<tableID, handlers, columnVars, eventVars, strays>>

\* OnReload, OnFilter, OnPagination.
On ==
  /\ Calling
  /\ \E event \in Events, chained \in BOOLEAN :
       IF tableID = 0
       THEN /\ Edit(Ensured(schema))
            /\ enabled' = Builder(chained)
            /\ UNCHANGED <<handlers, offered, dropped>>
       ELSE /\ enabled' = Builder(chained) \cup {event}
            /\ Edit([Ensured(schema) EXCEPT !.features = @ \cup enabled'])
            /\ Register(Handler(ActionKey(event, Nil, Nil)))
            /\ offered' = offered \cup {event}
            /\ dropped' = dropped \ enabled'
  /\ UNCHANGED <<tableID, columnVars, strays>>

\* Mutant: the features are taken as they are given.
BugNewFeatures(features, chained) == features

\* Builder.Features: those of the events enabled through this builder stay on.
NewFeatures(features, chained) == features \cup Builder(chained)

\* The features given replace those of the events of other builders.
Features ==
  /\ Calling
  /\ \E features \in SUBSET Events, chained \in BOOLEAN :
       /\ Edit([Ensured(schema) EXCEPT !.features = NewFeatures(features, chained)])
       /\ enabled' = Builder(chained)
       /\ dropped' = offered \ (features \cup Builder(chained))
  /\ UNCHANGED <<tableID, handlers, columnVars, offered, strays>>

-----------------------------------------------------------------------------
(* Routes and Render.                                                      *)

\* Mutant: a column is not told from another.
BugKeysOf(event, column, action) ==
  {k \in DOMAIN handlers : k.event = event /\ k.action = action}

\* The keys that have a handler, for an event, a column and an action.
KeysOf(event, column, action) ==
  {k \in DOMAIN handlers : k.event = event /\ k.column = column /\ k.action = action}

\* eventKeys are bound in the order of the tables' names: the last one stays.
LastUrl(keys, url) ==
  IF keys = {} THEN url ELSE CHOOSE k \in keys : \A l \in keys : l.table <= k.table

\* Mutant: every action with the id is bound.
BugBound(actions, event, column) ==
  [i \in DOMAIN actions |->
     [actions[i] EXCEPT !.url = LastUrl(KeysOf(event, column, actions[i].id), @)]]

\* bindActionRoute and its copies: the first action with the id.
Bound(actions, event, column) ==
  [i \in DOMAIN actions |->
     IF \E j \in 1 .. i - 1 : actions[j].id = actions[i].id
     THEN actions[i]
     ELSE [actions[i] EXCEPT !.url = LastUrl(KeysOf(event, column, actions[i].id), @)]]

\* bindColumnActionRoute: the first column with the id.
BoundColumns(columns) ==
  [i \in DOMAIN columns |->
     IF \E j \in 1 .. i - 1 : columns[j].id = columns[i].id
     THEN columns[i]
     ELSE [columns[i] EXCEPT !.actions = Bound(@, "column", columns[i].id)]]

\* bindEventRoutes
BoundSchema(s) ==
  IF handlers = <<>>
  THEN [s EXCEPT !.events = [e \in Events |-> Nil]]
  ELSE [s EXCEPT !.columns = BoundColumns(@),
                 !.actions = [k \in Kinds |-> Bound(@[k], k, Nil)],
                 !.events = [e \in Events |-> LastUrl(KeysOf(e, Nil, Nil), Nil)]]

\* Render: the URLs are bound, then DSL makes sure of the columns once more.
Render ==
  /\ stage = "building"
  /\ stage' = "rendered"
  /\ schema' = Ensured(BoundSchema(schema))
  /\ UNCHANGED <<calls, tableID, handlers, columnVars, eventVars, given, strays, bare>>

\* The actions accessGroupForEvent looks through: those of the columns with the id, or
\* those of the group.
Searched(key) ==
  IF key.event = "column"
  THEN [i \in DOMAIN schema.columns |->
          IF schema.columns[i].id = key.column THEN schema.columns[i].actions ELSE <<>>]
  ELSE <<schema.actions[key.event]>>

\* The places of the actions with the id among them, and their order.
Places(key) ==
  UNION {{<<i, j>> : j \in {n \in DOMAIN Searched(key)[i] : Searched(key)[i][n].id = key.action}} :
           i \in DOMAIN Searched(key)}

Before(p, q) == p[1] < q[1] \/ (p[1] = q[1] /\ p[2] <= q[2])

\* accessGroupForEvent: the group that Routes puts before the handler of an action's key,
\* here the mark of the action.
AccessGroup(key) ==
  IF Places(key) = {} THEN Nil
  ELSE LET first == CHOOSE p \in Places(key) : \A q \in Places(key) : Before(p, q)
       IN Searched(key)[first[1]][first[2]].mark

\* validateActionRow: the row id and every accessor column; the other events want a
\* column, a selected row or nothing.  Columns stand for their accessor keys.
Accepts(event, payload) ==
  CASE event = "row" -> "id" \in payload /\ \A c \in Range(schema.columns) : c.id \in payload
    [] event \in {"column", "selected"} -> payload # {}
    [] OTHER -> TRUE

\* executeEvent on the page instance: the handler that runs, Nil for an error.
Execute(key, payload) ==
  IF key \in DOMAIN handlers /\ Accepts(key.event, payload) THEN handlers[key] ELSE Nil

Next ==
  \/ Table \/ CreateTable \/ Set \/ ReplaceColumns \/ AppendColumn \/ SetColumn
  \/ AddColumnAction \/ AddAction \/ ReplaceActions \/ On \/ Features \/ Render

Spec == Init /\ [][Next]_vars

-----------------------------------------------------------------------------
(* Properties.                                                             *)

Rendered == stage = "rendered"

\* The lists of actions of the table, with the event and the column of their keys.
Lists ==
  {<<schema.actions[k], k, Nil>> : k \in Kinds} \cup
  {<<c.actions, "column", c.id>> : c \in Range(schema.columns)}

\* The row, the column or the selection a client makes of the table it shows.
Shown == {"id"} \cup {c.id : c \in Range(schema.columns)}

\* A client that follows an action's URL with what it shows runs the handler the page
\* gave this very action, as long as that handler is registered, and no other table of the
\* page had an action of that id.
OwnHandlerRuns ==
  Rendered => \A list \in Lists : \A i \in DOMAIN list[1] :
    LET action == list[1][i] IN
    /\ action.url # Nil
    /\ action.mark \in Range(handlers)
    /\ \A k \in KeysOf(list[2], list[3], action.id) : k.table = tableID
    => Execute(action.url, Shown) = action.mark

\* The access group checked at an action's URL is the group of the element the client
\* shows, whichever of several actions or columns with one id the URL went to.
RouteHasTheElementsGroup ==
  Rendered => \A list \in Lists : \A i \in DOMAIN list[1] :
    list[1][i].url # Nil => AccessGroup(list[1][i].url) = list[1][i].mark

\* Nothing that Init gave the table and did not replace is missing in the DSL, in
\* whatever order it came, and the DSL has nothing else.  The code makes two exceptions:
\* what is set on the builder of a column once another column moved the slice or Columns
\* copied it, though docs/user-guide.md:1701 lets such builders be kept in variables, and
\* what a table has that the page created without columns (ensureDSL, NewBuilder).
NothingLost ==
  ~bare => Contents(schema) \subseteq given /\ given \subseteq Contents(schema) \cup strays

\* An event that Init gave a handler has its URL, whatever was called later on.
\* docs/user-guide.md:1250 says the handler's registration also enables its feature: so it
\* does, unless Features was called on another builder after that, which drops it.
EventsOffered ==
  /\ offered \ dropped \subseteq schema.features
  /\ Rendered => \A e \in offered : schema.events[e] # Nil
=============================================================================
