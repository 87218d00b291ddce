-------------------------- MODULE TableEngine_proofs --------------------------
(***************************************************************************)
(* What Init gives a table arrives, whatever the order of its calls, for   *)
(* any tables, columns, actions and any number of calls.                   *)
(***************************************************************************)
EXTENDS TableEngine, SequenceTheorems, WellFoundedInduction, TLAPS

\* The action is one of the schema's, in the list of the event and the column.
IsEntry(s, a, event, column) ==
  \/ /\ event \in Kinds /\ column = Nil
     /\ \E j \in DOMAIN s.actions[event] : a = s.actions[event][j]
  \/ /\ event = "column"
     /\ \E i \in DOMAIN s.columns :
          /\ column = s.columns[i].id
          /\ \E j \in DOMAIN s.columns[i].actions : a = s.columns[i].actions[j]

ListEvents == Kinds \cup {"column"}
ListColumns == Columns \cup {Nil}

\* The handler of the action is nowhere but under the action's own key.
Own(a, event, column) ==
  \A k \in DOMAIN handlers : handlers[k] = a.mark => k = ActionKey(event, column, a.id)

\* The URLs are not bound before Render; the marks are of calls that were made, so that
\* those of a new call are new.
EntriesOwn ==
  \A a \in Action, event \in ListEvents, column \in ListColumns :
    IsEntry(schema, a, event, column) =>
      /\ stage = "building" => a.url = Nil
      /\ a.mark[1] <= calls
      /\ Own(a, event, column)

\* Handlers are of calls that were made, and their tables are numbered up to some number.
HandlersPast ==
  /\ \A k \in DOMAIN handlers : handlers[k][1] <= calls
  /\ \E n \in Nat : \A k \in DOMAIN handlers : k.table <= n

\* The columns that builders point to are there.
BuildersInPlace ==
  builders \subseteq DOMAIN schema.columns /\ (builders # {} => ~schema.columnless)

\* A schema without columns that the page did not make is an empty one.
ColumnlessEmpty == schema.columnless => offered = {} /\ (bare \/ given \subseteq strays)

\* The events that are offered have handlers.
OfferedHandled == \A e \in offered : KeysOf(e, Nil, Nil) # {}

\* Only the first action with an id in its list has a URL, and only in the first column
\* with its id.  The URL is the key of a handler of this event, column and action.
UrlsBound ==
  Rendered => \A a \in Action, event \in ListEvents, column \in ListColumns :
    IsEntry(schema, a, event, column) => a.url \in KeysOf(event, column, a.id) \cup {Nil}

FirstBound ==
  Rendered =>
    /\ \A k \in Kinds : \A j \in DOMAIN schema.actions[k] :
         schema.actions[k][j].url # Nil =>
           \A n \in 1 .. j - 1 : schema.actions[k][n].id # schema.actions[k][j].id
    /\ \A i \in DOMAIN schema.columns : \A j \in DOMAIN schema.columns[i].actions :
         schema.columns[i].actions[j].url # Nil =>
           /\ \A m \in 1 .. i - 1 : schema.columns[m].id # schema.columns[i].id
           /\ \A n \in 1 .. j - 1 :
                schema.columns[i].actions[n].id # schema.columns[i].actions[j].id

IInv ==
  /\ TypeOK /\ EntriesOwn /\ HandlersPast /\ BuildersInPlace /\ ColumnlessEmpty
  /\ OfferedHandled /\ NothingLost /\ EventsOffered /\ UrlsBound /\ FirstBound

-----------------------------------------------------------------------------
(* The schema.                                                             *)

LEMMA NewTyped ==
  ASSUME NEW table \in Tables \cup {0}
  PROVE  /\ New(table) \in Schema /\ ~New(table).columnless
         /\ Contents(New(table)) = {}
         /\ \A a, event, column : ~IsEntry(New(table), a, event, column)
<1>1. New(table) \in Schema /\ ~New(table).columnless
  BY DEF New, Schema
<1>2. /\ New(table).settings = {} /\ New(table).columns = <<>>
      /\ \A k \in Kinds : New(table).actions[k] = <<>>
  BY DEF New
<1>3. Contents(New(table)) = {}
  BY <1>2 DEF Contents, ColumnMarks, Marks, Range
<1>4. \A a, event, column : ~IsEntry(New(table), a, event, column)
  BY <1>2 DEF IsEntry
<1> QED
  BY <1>1, <1>3, <1>4

LEMMA EnsuredTyped ==
  ASSUME NEW s \in Schema
  PROVE  /\ Ensured(s) \in Schema /\ ~Ensured(s).columnless
         /\ \A a, event, column : IsEntry(Ensured(s), a, event, column) => IsEntry(s, a, event, column)
         /\ ~s.columnless => Ensured(s) = s
         /\ s.columnless => Contents(Ensured(s)) = {} /\ Ensured(s).features = {}
<1>1. CASE s.columnless
  <2>1. New(0).features = {}
    BY DEF New
  <2> QED
    BY <1>1, <2>1, NewTyped DEF Ensured
<1>2. CASE ~s.columnless
  BY <1>2 DEF Ensured
<1> QED
  BY <1>1, <1>2

LEMMA RangeTyped ==
  ASSUME NEW S, NEW q \in Seq(S), NEW x \in Range(q)
  PROVE  x \in S
BY DEF Range

LEMMA RangeIndexed ==
  ASSUME NEW q, NEW x \in Range(q)
  PROVE  \E i \in DOMAIN q : x = q[i]
BY DEF Range

LEMMA ContentsTyped ==
  ASSUME NEW s \in Schema
  PROVE  Contents(s) \subseteq Mark
<1>1. \A actions \in Seq(Action) : Marks(actions) \subseteq Mark
  <2> SUFFICES ASSUME NEW actions \in Seq(Action), NEW a \in Range(actions) PROVE a.mark \in Mark
    BY DEF Marks
  <2>1. a \in Action
    BY RangeTyped
  <2> QED
    BY <2>1 DEF Action
<1>2. \A c \in Range(s.columns) : c.settings \subseteq Mark /\ Marks(c.actions) \subseteq Mark
  <2> SUFFICES ASSUME NEW c \in Range(s.columns)
               PROVE  c.settings \subseteq Mark /\ Marks(c.actions) \subseteq Mark
    OBVIOUS
  <2>1. s.columns \in Seq(Column)
    BY DEF Schema
  <2>2. c \in Column
    BY <2>1, RangeTyped
  <2> QED
    BY <1>1, <2>2 DEF Column
<1>3. \A k \in Kinds : Marks(s.actions[k]) \subseteq Mark
  BY <1>1 DEF Schema
<1>4. s.settings \subseteq Mark
  BY DEF Schema
<1> QED
  BY <1>2, <1>3, <1>4 DEF Contents, ColumnMarks

LEMMA FunctionIsSeq ==
  ASSUME NEW S, NEW n \in Nat, NEW f \in [1 .. n -> S]
  PROVE  f \in Seq(S)
BY SeqDef

-----------------------------------------------------------------------------
(* The steps of Init.                                                      *)

\* What a call leaves of the page's own in the schema is what it gave and kept.
LEMMA EditKeeps ==
  ASSUME TypeOK, NothingLost, ColumnlessEmpty,
         NEW new \in Schema, ~new.columnless, Edit(new), strays' = strays
  PROVE  /\ schema' \in Schema /\ ~schema'.columnless
         /\ given' \subseteq Mark /\ bare' \in BOOLEAN
         /\ NothingLost' /\ bare' = bare
<1> DEFINE old == Contents(Ensured(schema))
           now == Contents(new)
<1>1. /\ schema' = new /\ bare' = bare
      /\ given' = (given \ (old \ now)) \cup now
  BY DEF Edit
<1>2. now \subseteq Mark
  BY ContentsTyped
<1>3. ~bare => given \subseteq old \cup strays
  <2>1. CASE schema.columnless
    BY <2>1 DEF ColumnlessEmpty
  <2>2. CASE ~schema.columnless
    BY <2>2, EnsuredTyped DEF NothingLost, TypeOK
  <2> QED
    BY <2>1, <2>2
<1>4. ~bare => now \subseteq given' /\ given' \subseteq now \cup strays'
  BY <1>1, <1>3
<1>5. NothingLost'
  BY <1>1, <1>4 DEF NothingLost
<1> QED
  BY <1>1, <1>2, <1>5 DEF TypeOK

\* Handlers stay under their keys, but for those that the call registers.
Registered(registrations) ==
  /\ DOMAIN registrations \subseteq Key
  /\ \A k \in DOMAIN registrations :
       /\ k.table = tableID
       /\ registrations[k] \in Mark /\ registrations[k][1] = calls + 1

LEMMA RegisterKeeps ==
  ASSUME TypeOK, HandlersPast, NEW registrations, Register(registrations),
         tableID # 0 => Registered(registrations), calls' = calls + 1
  PROVE  /\ DOMAIN handlers' \subseteq Key /\ Range(handlers') \subseteq Mark
         /\ HandlersPast'
         /\ DOMAIN handlers \subseteq DOMAIN handlers'
         /\ \A k \in DOMAIN handlers' :
              \/ k \in DOMAIN handlers /\ handlers'[k] = handlers[k]
              \/ /\ tableID # 0 /\ k \in DOMAIN registrations
                 /\ handlers'[k] = registrations[k] /\ handlers'[k][1] = calls + 1
<1>1. CASE tableID = 0
  <2>1. handlers' = handlers
    BY <1>1 DEF Register
  <2>2. HandlersPast'
    BY <2>1 DEF HandlersPast, TypeOK, Mark, Range
  <2> QED
    BY <2>1, <2>2 DEF TypeOK
<1>2. CASE tableID # 0
  <2>1. /\ DOMAIN handlers' = DOMAIN registrations \cup DOMAIN handlers
        /\ \A k \in DOMAIN handlers' :
             handlers'[k] = IF k \in DOMAIN registrations THEN registrations[k] ELSE handlers[k]
    BY <1>2 DEF Register
  <2>2. /\ DOMAIN handlers' \subseteq Key
        /\ \A k \in DOMAIN handlers' : handlers'[k] \in Mark
    BY <1>2, <2>1 DEF TypeOK, Registered, Range
  <2>3. Range(handlers') \subseteq Mark
    BY <2>2 DEF Range
  <2>4. \A k \in DOMAIN handlers' : handlers'[k][1] <= calls'
    BY <1>2, <2>1, <2>2 DEF Registered, HandlersPast, TypeOK, Mark
  <2>5. PICK n \in Nat : \A k \in DOMAIN handlers : k.table <= n
    BY DEF HandlersPast
  <2>6. \A k \in DOMAIN handlers' : k.table <= n + tableID
    <3> SUFFICES ASSUME NEW k \in DOMAIN handlers' PROVE k.table <= n + tableID
      OBVIOUS
    <3>1. tableID \in Nat
      BY TablesAssumption DEF TypeOK
    <3>2. CASE k \in DOMAIN registrations
      BY <1>2, <3>1, <3>2 DEF Registered
    <3>3. CASE k \in DOMAIN handlers
      <4>1. k.table \in Nat /\ k.table <= n
        BY <2>5, <3>3, TablesAssumption DEF TypeOK, Key
      <4> QED
        BY <3>1, <4>1
    <3> QED
      BY <2>1, <3>2, <3>3
  <2>7. n + tableID \in Nat
    BY TablesAssumption DEF TypeOK
  <2>8. HandlersPast'
    BY <2>4, <2>6, <2>7 DEF HandlersPast
  <2> QED
    BY <1>2, <2>1, <2>2, <2>3, <2>8 DEF Registered
<1> QED
  BY <1>1, <1>2

\* An action that this call makes, under the one key its handler may have.
Fresh(a, event, column) ==
  /\ a.url = Nil /\ a.mark[1] = calls + 1
  /\ \A k \in DOMAIN handlers' : handlers'[k] = a.mark => k = ActionKey(event, column, a.id)

\* A call keeps what it finds of the schema's actions and of the handlers, and makes
\* fresh ones.
EntriesKept ==
  \A a \in Action, event \in ListEvents, column \in ListColumns :
    IsEntry(schema', a, event, column) => IsEntry(schema, a, event, column) \/ Fresh(a, event, column)

HandlersKept ==
  \A k \in DOMAIN handlers' :
    (k \in DOMAIN handlers /\ handlers'[k] = handlers[k]) \/ handlers'[k][1] = calls + 1

LEMMA EntriesStayOwn ==
  ASSUME TypeOK, EntriesOwn, EntriesKept, HandlersKept,
         stage = "building", stage' = stage, calls' = calls + 1, tableID' = tableID
  PROVE  EntriesOwn'
<1> SUFFICES ASSUME NEW a \in Action, NEW event \in ListEvents, NEW column \in ListColumns,
                    IsEntry(schema', a, event, column)
             PROVE  /\ a.url = Nil
                    /\ a.mark[1] <= calls + 1
                    /\ \A k \in DOMAIN handlers' :
                         handlers'[k] = a.mark => k = ActionKey(event, column, a.id)
  BY DEF EntriesOwn, IsEntry, Own, ActionKey, ListEvents, ListColumns
<1>1. CASE Fresh(a, event, column)
  BY <1>1 DEF Fresh, TypeOK
<1>2. CASE IsEntry(schema, a, event, column)
  <2>1. a.url = Nil /\ a.mark[1] <= calls /\ Own(a, event, column)
    BY <1>2 DEF EntriesOwn
  <2>2. a.mark[1] \in Nat /\ calls \in Nat
    BY DEF Action, Mark, TypeOK
  <2> QED
    BY <2>1, <2>2 DEF HandlersKept, Own
<1> QED
  BY <1>1, <1>2 DEF EntriesKept

LEMMA OfferedStayHandled ==
  ASSUME OfferedHandled, DOMAIN handlers \subseteq DOMAIN handlers', offered' \subseteq offered
  PROVE  OfferedHandled'
BY DEF OfferedHandled, KeysOf

LEMMA CallingStays ==
  ASSUME TypeOK, Calling
  PROVE  /\ stage = "building" /\ stage' = "building"
         /\ calls' = calls + 1 /\ calls' \in 0 .. MaxCalls
         /\ \A i \in {1, 2} : MarkOf(i) \in Mark /\ MarkOf(i)[1] = calls + 1
BY CallsAssumption DEF Calling, TypeOK, MarkOf, Mark

LEMMA HandlersStay ==
  ASSUME TypeOK, HandlersPast, handlers' = handlers, calls' = calls + 1
  PROVE  HandlersPast' /\ HandlersKept
<1>1. \A k \in DOMAIN handlers : handlers[k] \in Mark
  BY DEF TypeOK, Range
<1>2. \A k \in DOMAIN handlers' : handlers'[k][1] <= calls'
  BY <1>1 DEF HandlersPast, TypeOK, Mark
<1>3. PICK n \in Nat : \A k \in DOMAIN handlers : k.table <= n
  BY DEF HandlersPast
<1> QED
  BY <1>2, <1>3 DEF HandlersPast, HandlersKept

\* What is left to show of a call that edits the schema.
LEMMA CallKeeps ==
  ASSUME IInv, Calling, tableID' = tableID,
         NEW new \in Schema, ~new.columnless, Edit(new),
         builders' \subseteq DOMAIN new.columns, EntriesKept,
         room' \in Nat, elsewhere' \in BOOLEAN, strays' = strays,
         DOMAIN handlers' \subseteq Key, Range(handlers') \subseteq Mark,
         HandlersPast', HandlersKept, OfferedHandled',
         enabled' \subseteq Events, offered' \subseteq Events, dropped' \subseteq Events,
         offered' \ dropped' \subseteq new.features
  PROVE  IInv'
<1> USE DEF IInv
<1>1. schema' = new
  BY DEF Edit
<1>2. TypeOK'
  <2>1. builders' \subseteq Nat
    <3>1. DOMAIN new.columns = 1 .. Len(new.columns)
      BY DEF Schema
    <3> QED
      BY <3>1
  <2> QED
    BY <2>1, CallingStays, EditKeeps DEF TypeOK
<1>3. EntriesOwn'
  BY CallingStays, EntriesStayOwn
<1>4. BuildersInPlace' /\ ColumnlessEmpty' /\ NothingLost'
  BY <1>1, CallingStays, EditKeeps DEF BuildersInPlace, ColumnlessEmpty
<1>5. EventsOffered' /\ UrlsBound' /\ FirstBound'
  BY <1>1, CallingStays DEF EventsOffered, UrlsBound, FirstBound, Rendered
<1> QED
  BY <1>2, <1>3, <1>4, <1>5

LEMMA TableKeeps == ASSUME IInv, Table PROVE IInv'
<1> USE DEF IInv
<1>1. PICK table \in Tables \cup {0} : schema' = New(table) /\ tableID' = table
  BY DEF Table
<1>2. /\ Calling /\ handlers' = handlers
      /\ enabled' = {} /\ given' = {} /\ bare' = FALSE
      /\ offered' = {} /\ dropped' = {} /\ strays' = {}
      /\ room' = 0 /\ builders' = {} /\ elsewhere' = FALSE
  BY DEF Table, Created
<1>3. TypeOK'
  BY <1>1, <1>2, CallingStays, NewTyped DEF TypeOK
<1>4. EntriesOwn'
  <2> SUFFICES \A a, event, column : ~IsEntry(schema', a, event, column)
    BY DEF EntriesOwn, IsEntry
  <2> QED
    BY <1>1, NewTyped
<1>5. HandlersPast'
  BY <1>2, CallingStays, HandlersStay
<1>6. BuildersInPlace' /\ ColumnlessEmpty' /\ OfferedHandled' /\ NothingLost'
  BY <1>1, <1>2, CallingStays, NewTyped
  DEF BuildersInPlace, ColumnlessEmpty, OfferedHandled, NothingLost
<1>7. EventsOffered' /\ UrlsBound' /\ FirstBound'
  BY <1>2, CallingStays DEF EventsOffered, UrlsBound, FirstBound, Rendered
<1> QED
  BY <1>3, <1>4, <1>5, <1>6, <1>7

LEMMA CreateTableKeeps == ASSUME IInv, CreateTable PROVE IInv'
<1> USE DEF IInv
<1>1. PICK columnless \in BOOLEAN :
        /\ schema' = [New(0) EXCEPT !.columnless = columnless, !.settings = {MarkOf(1)}]
        /\ bare' = columnless
  BY DEF CreateTable
<1>2. /\ Calling /\ given' = {MarkOf(1)}
      /\ offered' = {} /\ dropped' = {} /\ strays' = {}
      /\ room' = 0 /\ builders' = {} /\ elsewhere' = FALSE
      /\ tableID' = tableID /\ handlers' = handlers /\ enabled' = enabled
  BY DEF CreateTable, Created
<1>3. MarkOf(1) \in Mark
  BY <1>2, CallingStays
<1>4. /\ schema' \in Schema /\ schema'.columnless = columnless
      /\ schema'.settings = {MarkOf(1)} /\ schema'.columns = <<>>
      /\ \A k \in Kinds : schema'.actions[k] = <<>>
  <2> DEFINE s == New(0)
  <2>1. s \in Schema /\ s.columns = <<>> /\ \A k \in Kinds : s.actions[k] = <<>>
    BY DEF New, Schema
  <2>2. schema' = [s EXCEPT !.columnless = columnless, !.settings = {MarkOf(1)}]
    BY <1>1
  <2> HIDE DEF s
  <2> QED
    BY <1>3, <2>1, <2>2 DEF Schema
<1>5. TypeOK'
  BY <1>1, <1>2, <1>3, <1>4, CallingStays DEF TypeOK
<1>6. EntriesOwn'
  BY <1>4 DEF EntriesOwn, IsEntry
<1>7. HandlersPast'
  BY <1>2, CallingStays, HandlersStay
<1>8. Contents(schema') = {MarkOf(1)}
  BY <1>4 DEF Contents, ColumnMarks, Marks, Range
<1>9. BuildersInPlace' /\ ColumnlessEmpty' /\ OfferedHandled' /\ NothingLost'
  BY <1>1, <1>2, <1>4, <1>8, CallingStays
  DEF BuildersInPlace, ColumnlessEmpty, OfferedHandled, NothingLost
<1>10. EventsOffered' /\ UrlsBound' /\ FirstBound'
  BY <1>2, CallingStays DEF EventsOffered, UrlsBound, FirstBound, Rendered
<1> QED
  BY <1>5, <1>6, <1>7, <1>9, <1>10

\* The schema a call starts from.
LEMMA EnsuredKept ==
  ASSUME IInv, NEW s, s = Ensured(schema)
  PROVE  /\ s \in Schema /\ ~s.columnless /\ offered \ dropped \subseteq s.features
         /\ builders \subseteq DOMAIN s.columns
         /\ \A a, event, column : IsEntry(s, a, event, column) => IsEntry(schema, a, event, column)
BY EnsuredTyped DEF IInv, TypeOK, EventsOffered, ColumnlessEmpty, BuildersInPlace

LEMMA SameEntries ==
  ASSUME NEW s, NEW n, n.columns = s.columns, n.actions = s.actions,
         NEW a, NEW event, NEW column, IsEntry(n, a, event, column)
  PROVE  IsEntry(s, a, event, column)
BY DEF IsEntry

LEMMA SetKeeps == ASSUME IInv, Set PROVE IInv'
<1> USE DEF IInv
<1>1. /\ Calling /\ tableID' = tableID
      /\ handlers' = handlers /\ enabled' = enabled /\ offered' = offered /\ dropped' = dropped
      /\ room' = room /\ builders' = builders /\ elsewhere' = elsewhere /\ strays' = strays
  BY DEF Set, columnVars, eventVars
<1>2. PICK s, new : /\ s = Ensured(schema) /\ Edit(new)
                    /\ new = [s EXCEPT !.settings = @ \cup {MarkOf(1)}]
  BY DEF Set
<1>3. Edit(new) /\ schema' = new
  BY <1>2 DEF Edit
<1>4. /\ s \in Schema /\ ~s.columnless /\ offered \ dropped \subseteq s.features
      /\ builders \subseteq DOMAIN s.columns
      /\ \A a, event, column : IsEntry(s, a, event, column) => IsEntry(schema, a, event, column)
  BY <1>2, EnsuredKept
<1>5. MarkOf(1) \in Mark
  BY <1>1, CallingStays
<1>6. /\ new \in Schema /\ new.columnless = s.columnless /\ new.features = s.features
      /\ new.columns = s.columns /\ new.actions = s.actions
  BY <1>2, <1>4, <1>5 DEF Schema
<1>7. EntriesKept
  BY <1>3, <1>4, <1>6, SameEntries DEF EntriesKept
<1>8. HandlersPast' /\ HandlersKept /\ OfferedHandled'
  BY <1>1, CallingStays, HandlersStay, OfferedStayHandled
<1> QED
  BY <1>1, <1>3, <1>4, <1>6, <1>7, <1>8, CallKeeps DEF TypeOK

LEMMA FeaturesKeep == ASSUME IInv, Features PROVE IInv'
<1> USE DEF IInv
<1>1. /\ Calling /\ tableID' = tableID /\ handlers' = handlers /\ offered' = offered
      /\ room' = room /\ builders' = builders /\ elsewhere' = elsewhere /\ strays' = strays
  BY DEF Features, columnVars
<1>2. PICK features \in SUBSET Events, chained \in BOOLEAN :
        /\ Edit([Ensured(schema) EXCEPT !.features = NewFeatures(features, chained)])
        /\ enabled' = Builder(chained)
        /\ dropped' = offered \ (features \cup Builder(chained))
  BY Zenon DEF Features
<1>3. PICK s, new : /\ s = Ensured(schema) /\ Edit(new)
                    /\ new = [s EXCEPT !.features = NewFeatures(features, chained)]
  BY <1>2, Zenon
<1>4. Edit(new) /\ schema' = new
  BY <1>3 DEF Edit
<1>5. /\ s \in Schema /\ ~s.columnless /\ builders \subseteq DOMAIN s.columns
      /\ \A a, event, column : IsEntry(s, a, event, column) => IsEntry(schema, a, event, column)
  BY <1>3, EnsuredKept
<1>6. NewFeatures(features, chained) \in SUBSET Events /\ enabled' \subseteq Events
  BY <1>2 DEF NewFeatures, Builder, TypeOK
<1>7. /\ new \in Schema /\ new.columnless = s.columnless
      /\ new.columns = s.columns /\ new.actions = s.actions
      /\ new.features = NewFeatures(features, chained)
  BY <1>3, <1>5, <1>6 DEF Schema
<1>8. EntriesKept
  BY <1>4, <1>5, <1>7, SameEntries DEF EntriesKept
<1>9. /\ offered' \subseteq Events /\ dropped' \subseteq Events
      /\ offered' \ dropped' \subseteq NewFeatures(features, chained)
  BY <1>1, <1>2 DEF NewFeatures, TypeOK
<1>10. HandlersPast' /\ HandlersKept /\ OfferedHandled'
  BY <1>1, <1>9, CallingStays, HandlersStay, OfferedStayHandled
<1> QED
  BY <1>1, <1>4, <1>5, <1>6, <1>7, <1>8, <1>9, <1>10, CallKeeps DEF TypeOK

\* A call for a table without a name changes no more than the schema's columns.
LEMMA NamelessKeeps ==
  ASSUME IInv, Calling, Edit(Ensured(schema)),
         tableID' = tableID, handlers' = handlers, enabled' \subseteq Events,
         offered' = offered, dropped' = dropped,
         room' = room, builders' = builders, elsewhere' = elsewhere, strays' = strays
  PROVE  IInv'
<1> USE DEF IInv
<1>1. PICK s : s = Ensured(schema) /\ Edit(s) /\ schema' = s
  BY DEF Edit
<1>2. /\ s \in Schema /\ ~s.columnless /\ offered \ dropped \subseteq s.features
      /\ builders \subseteq DOMAIN s.columns
      /\ \A a, event, column : IsEntry(s, a, event, column) => IsEntry(schema, a, event, column)
  BY <1>1, EnsuredKept
<1>3. EntriesKept
  BY <1>1, <1>2 DEF EntriesKept
<1>4. HandlersPast' /\ HandlersKept /\ OfferedHandled'
  BY CallingStays, HandlersStay, OfferedStayHandled
<1> QED
  BY <1>1, <1>2, <1>3, <1>4, CallKeeps DEF TypeOK

LEMMA HandlerRegistered ==
  ASSUME TypeOK, Calling, tableID # 0,
         NEW event \in Kinds \cup Events, NEW action \in Actions \cup {Nil}
  PROVE  Registered(Handler(ActionKey(event, Nil, action)))
<1>1. ActionKey(event, Nil, action) \in Key /\ ActionKey(event, Nil, action).table = tableID
  BY DEF ActionKey, Key, TypeOK
<1> QED
  BY <1>1, CallingStays DEF Registered, Handler

LEMMA OnKeeps == ASSUME IInv, On PROVE IInv'
<1> USE DEF IInv
<1>1. /\ Calling /\ tableID' = tableID
      /\ room' = room /\ builders' = builders /\ elsewhere' = elsewhere /\ strays' = strays
  BY DEF On, columnVars
<1>2. CASE tableID = 0
  <2>1. PICK chained \in BOOLEAN :
          /\ Edit(Ensured(schema)) /\ enabled' = Builder(chained)
          /\ handlers' = handlers /\ offered' = offered /\ dropped' = dropped
    BY <1>2 DEF On
  <2> QED
    BY <1>1, <2>1, NamelessKeeps DEF Builder, TypeOK
<1>3. CASE tableID # 0
  <2>1. PICK event \in Events, chained \in BOOLEAN :
          /\ enabled' = Builder(chained) \cup {event}
          /\ Edit([Ensured(schema) EXCEPT !.features = @ \cup enabled'])
          /\ Register(Handler(ActionKey(event, Nil, Nil)))
          /\ offered' = offered \cup {event} /\ dropped' = dropped \ enabled'
    BY <1>3, Zenon DEF On
  <2>2. PICK s, new :
          /\ s = Ensured(schema) /\ Edit(new)
          /\ new = [s EXCEPT !.features = @ \cup enabled']
    BY <2>1, Zenon
  <2>3. Edit(new) /\ schema' = new
    BY <2>2 DEF Edit
  <2>4. /\ s \in Schema /\ ~s.columnless /\ offered \ dropped \subseteq s.features
        /\ builders \subseteq DOMAIN s.columns
        /\ \A a, e, column : IsEntry(s, a, e, column) => IsEntry(schema, a, e, column)
    BY <2>2, EnsuredKept
  <2>5. enabled' \subseteq Events /\ event \in enabled'
    BY <2>1 DEF Builder, TypeOK
  <2>6. /\ new \in Schema /\ new.columnless = s.columnless
        /\ new.columns = s.columns /\ new.actions = s.actions
        /\ new.features = s.features \cup enabled'
    BY <2>2, <2>4, <2>5 DEF Schema
  <2>7. EntriesKept
    BY <2>3, <2>4, <2>6, SameEntries DEF EntriesKept
  <2>8. Registered(Handler(ActionKey(event, Nil, Nil)))
    BY <1>1, <1>3, HandlerRegistered
  <2>9. /\ DOMAIN handlers' \subseteq Key /\ Range(handlers') \subseteq Mark
        /\ HandlersPast' /\ HandlersKept /\ DOMAIN handlers \subseteq DOMAIN handlers'
    BY <1>1, <2>1, <2>8, CallingStays, RegisterKeeps DEF HandlersKept
  <2>10. ActionKey(event, Nil, Nil) \in DOMAIN handlers'
    BY <1>3, <2>1 DEF Register, Handler
  <2>11. OfferedHandled'
    <3> SUFFICES ASSUME NEW e \in offered'
                 PROVE  \E k \in DOMAIN handlers' : k.event = e /\ k.column = Nil /\ k.action = Nil
      BY DEF OfferedHandled, KeysOf
    <3>1. CASE e \in offered
      BY <2>9, <3>1 DEF OfferedHandled, KeysOf
    <3>2. CASE e = event
      BY <2>10, <3>2 DEF ActionKey
    <3> QED
      BY <2>1, <3>1, <3>2
  <2>12. /\ offered' \subseteq Events /\ dropped' \subseteq Events
         /\ offered' \ dropped' \subseteq new.features
    BY <2>1, <2>4, <2>5, <2>6 DEF TypeOK
  <2> QED
    BY <1>1, <2>3, <2>4, <2>5, <2>6, <2>7, <2>9, <2>11, <2>12, CallKeeps DEF TypeOK
<1> QED
  BY <1>2, <1>3

LEMMA NewActionTyped ==
  ASSUME TypeOK, Calling, NEW id \in Actions, NEW i \in {1, 2}
  PROVE  /\ NewAction(id, i) \in Action
         /\ NewAction(id, i).id = id /\ NewAction(id, i).url = Nil
         /\ NewAction(id, i).mark = MarkOf(i) /\ NewAction(id, i).mark[1] = calls + 1
BY CallingStays DEF NewAction, Action

LEMMA Appended ==
  ASSUME NEW S, NEW q \in Seq(S), NEW x \in S
  PROVE  /\ Append(q, x) \in Seq(S) /\ Len(Append(q, x)) > 0
         /\ \A j \in DOMAIN Append(q, x) :
              (j \in DOMAIN q /\ Append(q, x)[j] = q[j]) \/ Append(q, x)[j] = x
OBVIOUS

LEMMA AddActionKeeps == ASSUME IInv, AddAction PROVE IInv'
<1> USE DEF IInv
<1>1. /\ Calling /\ tableID' = tableID
      /\ enabled' = enabled /\ offered' = offered /\ dropped' = dropped
      /\ room' = room /\ builders' = builders /\ elsewhere' = elsewhere /\ strays' = strays
  BY DEF AddAction, columnVars, eventVars
<1>2. CASE tableID = 0
  <2>1. Edit(Ensured(schema)) /\ handlers' = handlers
    BY <1>2 DEF AddAction, Register
  <2> QED
    BY <1>1, <2>1, NamelessKeeps DEF TypeOK
<1>3. CASE tableID # 0
  <2>1. PICK kind \in Kinds, id \in Actions :
          /\ Edit([Ensured(schema) EXCEPT !.actions[kind] = Append(@, NewAction(id, 1))])
          /\ Register(Handler(ActionKey(kind, Nil, id)))
    BY <1>3, Zenon DEF AddAction
  <2>2. PICK s, new, act : /\ s = Ensured(schema) /\ Edit(new) /\ act = NewAction(id, 1)
                           /\ new = [s EXCEPT !.actions[kind] = Append(@, act)]
    BY <2>1, Zenon
  <2>3. Edit(new) /\ schema' = new
    BY <2>2 DEF Edit
  <2>4. /\ s \in Schema /\ ~s.columnless /\ offered \ dropped \subseteq s.features
        /\ builders \subseteq DOMAIN s.columns
        /\ \A a, event, column : IsEntry(s, a, event, column) => IsEntry(schema, a, event, column)
    BY <2>2, EnsuredKept
  <2>5. /\ act \in Action /\ act.id = id /\ act.url = Nil
        /\ act.mark = MarkOf(1) /\ act.mark[1] = calls + 1
    BY <1>1, <2>2, NewActionTyped
  <2>6. Append(s.actions[kind], act) \in Seq(Action)
    BY <2>4, <2>5, Appended DEF Schema
  <2>7. /\ new \in Schema /\ new.columnless = s.columnless /\ new.features = s.features
        /\ new.columns = s.columns
        /\ new.actions = [s.actions EXCEPT ![kind] = Append(@, act)]
    BY <2>2, <2>4, <2>6 DEF Schema
  <2>8. Registered(Handler(ActionKey(kind, Nil, id)))
    BY <1>1, <1>3, HandlerRegistered
  <2>9. /\ DOMAIN handlers' \subseteq Key /\ Range(handlers') \subseteq Mark
        /\ HandlersPast' /\ HandlersKept /\ DOMAIN handlers \subseteq DOMAIN handlers'
        /\ \A k \in DOMAIN handlers' :
             \/ k \in DOMAIN handlers /\ handlers'[k] = handlers[k]
             \/ k \in DOMAIN Handler(ActionKey(kind, Nil, id))
    BY <1>1, <2>1, <2>8, CallingStays, RegisterKeeps DEF HandlersKept
  <2>10. Fresh(act, kind, Nil)
    <3> SUFFICES ASSUME NEW k \in DOMAIN handlers', handlers'[k] = act.mark
                 PROVE  k = ActionKey(kind, Nil, id)
      BY <2>5 DEF Fresh
    <3>1. CASE k \in DOMAIN handlers /\ handlers'[k] = handlers[k]
      BY <2>5, <3>1 DEF HandlersPast, TypeOK
    <3>2. CASE k \in DOMAIN Handler(ActionKey(kind, Nil, id))
      BY <3>2 DEF Handler
    <3> QED
      BY <2>9, <3>1, <3>2
  <2>11. EntriesKept
    <3> SUFFICES ASSUME NEW a, NEW event \in ListEvents, NEW column, IsEntry(new, a, event, column)
                 PROVE  IsEntry(s, a, event, column) \/ (a = act /\ event = kind /\ column = Nil)
      BY <2>3, <2>4, <2>10 DEF EntriesKept
    <3>1. CASE event = "column"
      BY <2>7, <3>1, NamesAssumption DEF IsEntry
    <3>2. CASE event \in Kinds /\ event # kind
      BY <2>4, <2>7, <3>2, NamesAssumption DEF IsEntry, Schema
    <3>3. CASE event = kind
      <4>1. column = Nil /\ \E j \in DOMAIN Append(s.actions[kind], act) : a = Append(s.actions[kind], act)[j]
        BY <2>4, <2>7, <3>3, NamesAssumption DEF IsEntry, Schema
      <4>2. s.actions[kind] \in Seq(Action)
        BY <2>4 DEF Schema
      <4>3. a = act \/ \E j \in DOMAIN s.actions[kind] : a = s.actions[kind][j]
        BY <2>5, <4>1, <4>2, Appended
      <4> QED
        BY <3>3, <4>1, <4>3 DEF IsEntry
    <3> QED
      BY <3>1, <3>2, <3>3 DEF ListEvents
  <2>12. OfferedHandled'
    BY <1>1, <2>9, OfferedStayHandled
  <2> QED
    BY <1>1, <2>3, <2>4, <2>7, <2>9, <2>11, <2>12, CallKeeps DEF TypeOK
<1> QED
  BY <1>2, <1>3

LEMMA ReplaceActionsKeeps == ASSUME IInv, ReplaceActions PROVE IInv'
<1> USE DEF IInv
<1>1. /\ Calling /\ tableID' = tableID /\ handlers' = handlers
      /\ enabled' = enabled /\ offered' = offered /\ dropped' = dropped
      /\ room' = room /\ builders' = builders /\ elsewhere' = elsewhere /\ strays' = strays
  BY DEF ReplaceActions, columnVars, eventVars
<1>2. PICK kind \in Kinds, actions \in {<<>>} \cup {<<NewAction(id, 2)>> : id \in Actions} :
        Edit([Ensured(schema) EXCEPT !.actions = [k \in Kinds |-> IF k = kind THEN actions ELSE <<>>]])
  BY Zenon DEF ReplaceActions
<1>3. PICK s, new, groups :
        /\ s = Ensured(schema) /\ Edit(new)
        /\ groups = [k \in Kinds |-> IF k = kind THEN actions ELSE <<>>]
        /\ new = [s EXCEPT !.actions = groups]
  BY <1>2, Zenon
<1>4. Edit(new) /\ schema' = new
  BY <1>3 DEF Edit
<1>5. /\ s \in Schema /\ ~s.columnless /\ offered \ dropped \subseteq s.features
      /\ builders \subseteq DOMAIN s.columns
      /\ \A a, event, column : IsEntry(s, a, event, column) => IsEntry(schema, a, event, column)
  BY <1>3, EnsuredKept
<1>6. actions \in Seq(Action) /\ \A j \in DOMAIN actions : actions[j].url = Nil /\ actions[j].mark = MarkOf(2)
  <2>1. CASE actions = <<>>
    BY <2>1
  <2>2. ASSUME NEW id \in Actions, actions = <<NewAction(id, 2)>>
        PROVE  <1>6
    <3>1. PICK act : act = NewAction(id, 2)
      OBVIOUS
    <3>2. act \in Action /\ act.url = Nil /\ act.mark = MarkOf(2)
      BY <1>1, <3>1, NewActionTyped
    <3> QED
      BY <2>2, <3>1, <3>2
  <2> QED
    BY <2>1, <2>2
<1>7. groups \in [Kinds -> Seq(Action)]
  BY <1>3, <1>6
<1>8. /\ new \in Schema /\ new.columnless = s.columnless /\ new.features = s.features
      /\ new.columns = s.columns /\ new.actions = groups
  BY <1>3, <1>5, <1>7 DEF Schema
<1>9. HandlersPast' /\ HandlersKept /\ OfferedHandled'
  BY <1>1, CallingStays, HandlersStay, OfferedStayHandled
<1>10. EntriesKept
  <2> SUFFICES ASSUME NEW a, NEW event \in ListEvents, NEW column, IsEntry(new, a, event, column)
               PROVE  IsEntry(s, a, event, column) \/ Fresh(a, event, column)
    BY <1>4, <1>5 DEF EntriesKept
  <2>1. CASE event = "column"
    BY <1>8, <2>1, NamesAssumption DEF IsEntry
  <2>2. CASE event \in Kinds
    <3>1. \E j \in DOMAIN groups[event] : a = groups[event][j]
      BY <1>8, <2>2, NamesAssumption DEF IsEntry
    <3>2. \E j \in DOMAIN actions : a = actions[j]
      BY <1>3, <2>2, <3>1
    <3>3. a.url = Nil /\ a.mark[1] = calls + 1
      BY <1>1, <1>6, <3>2, CallingStays
    <3> QED
      BY <1>1, <3>3 DEF Fresh, HandlersPast, TypeOK
  <2> QED
    BY <2>1, <2>2 DEF ListEvents
<1> QED
  BY <1>1, <1>4, <1>5, <1>8, <1>9, <1>10, CallKeeps DEF TypeOK

\* Where the builders point to after a column was appended.
Placed(place) ==
  IF place <= room
  THEN builders' = builders \cup {place} /\ UNCHANGED <<room, elsewhere>>
  ELSE /\ room' = IF room = 0 THEN 1 ELSE 2 * room
       /\ builders' = {place}
       /\ elsewhere' = (elsewhere \/ builders # {})

LEMMA AppendColumnKeeps == ASSUME IInv, AppendColumn PROVE IInv'
<1> USE DEF IInv
<1>1. /\ Calling /\ tableID' = tableID /\ handlers' = handlers
      /\ enabled' = enabled /\ offered' = offered /\ dropped' = dropped /\ strays' = strays
  BY DEF AppendColumn, eventVars
<1>2. PICK id \in Columns :
        /\ Edit([Ensured(schema) EXCEPT
                !.columns = Append(@, [id |-> id, settings |-> {}, actions |-> <<>>])])
        /\ Placed(Len(Ensured(schema).columns) + 1)
  BY Zenon DEF AppendColumn, Placed
<1>3. PICK s, new, c :
        /\ s = Ensured(schema) /\ Edit(new)
        /\ Placed(Len(s.columns) + 1)
        /\ c = [id |-> id, settings |-> {}, actions |-> <<>>]
        /\ new = [s EXCEPT !.columns = Append(@, c)]
  BY <1>2, Zenon
<1>4. Edit(new) /\ schema' = new
  BY <1>3 DEF Edit
<1>5. /\ s \in Schema /\ ~s.columnless /\ offered \ dropped \subseteq s.features
      /\ builders \subseteq DOMAIN s.columns
      /\ \A a, event, column : IsEntry(s, a, event, column) => IsEntry(schema, a, event, column)
  BY <1>3, EnsuredKept
<1>6. c \in Column /\ c.actions = <<>>
  BY <1>3 DEF Column
<1>7. s.columns \in Seq(Column)
  BY <1>5 DEF Schema
<1>8. /\ Append(s.columns, c) \in Seq(Column)
      /\ Len(Append(s.columns, c)) = Len(s.columns) + 1
      /\ DOMAIN Append(s.columns, c) = 1 .. Len(s.columns) + 1
  BY <1>6, <1>7, Appended
<1>9. /\ new \in Schema /\ new.columnless = s.columnless /\ new.features = s.features
      /\ new.columns = Append(s.columns, c) /\ new.actions = s.actions
  BY <1>3, <1>5, <1>8 DEF Schema
<1>10. HandlersPast' /\ HandlersKept /\ OfferedHandled'
  BY <1>1, CallingStays, HandlersStay, OfferedStayHandled
<1>11. EntriesKept
  <2> SUFFICES ASSUME NEW a, NEW event, NEW column, IsEntry(new, a, event, column)
               PROVE  IsEntry(s, a, event, column)
    BY <1>4, <1>5 DEF EntriesKept
  <2>1. CASE event \in Kinds
    BY <1>9, <2>1, NamesAssumption DEF IsEntry
  <2>2. CASE event \notin Kinds
    <3>1. PICK i \in DOMAIN new.columns :
            /\ event = "column" /\ column = new.columns[i].id
            /\ \E j \in DOMAIN new.columns[i].actions : a = new.columns[i].actions[j]
      BY <2>2 DEF IsEntry
    <3>2. i \in DOMAIN s.columns /\ new.columns[i] = s.columns[i]
      BY <1>6, <1>7, <1>9, <3>1, Appended
    <3> QED
      BY <3>1, <3>2 DEF IsEntry
  <2> QED
    BY <2>1, <2>2
<1>12. builders' \subseteq DOMAIN new.columns
  <2>1. Len(s.columns) \in Nat /\ DOMAIN s.columns = 1 .. Len(s.columns)
    BY <1>7
  <2>2. builders' \subseteq builders \cup {Len(s.columns) + 1}
    BY <1>3 DEF Placed
  <2> QED
    BY <1>5, <1>8, <1>9, <2>1, <2>2
<1>13. room' \in Nat /\ elsewhere' \in BOOLEAN
  <2>1. CASE Len(s.columns) + 1 <= room
    <3>1. room' = room /\ elsewhere' = elsewhere
      BY <1>3, <2>1 DEF Placed
    <3> QED
      BY <3>1 DEF TypeOK
  <2>2. CASE ~(Len(s.columns) + 1 <= room)
    <3>1. /\ room' = IF room = 0 THEN 1 ELSE 2 * room
          /\ elsewhere' = (elsewhere \/ builders # {})
      BY <1>3, <2>2, Zenon DEF Placed
    <3>2. elsewhere' \in BOOLEAN
      BY <3>1, Zenon
    <3> QED
      BY <3>1, <3>2 DEF TypeOK
  <2> QED
    BY <2>1, <2>2
<1> QED
  BY <1>1, <1>4, <1>5, <1>9, <1>10, <1>11, <1>12, <1>13, CallKeeps DEF TypeOK

\* A step on the column of a builder.
WithColumn(i, c) == [schema EXCEPT !.columns[i] = c]

LEMMA ColumnReplaced ==
  ASSUME IInv, NEW i \in builders, NEW c \in Column, c.id = schema.columns[i].id,
         NEW new, new = WithColumn(i, c)
  PROVE  /\ new \in Schema /\ ~new.columnless
         /\ offered \ dropped \subseteq new.features
         /\ new.columns \in Seq(Column) /\ builders \subseteq DOMAIN new.columns
         /\ new.actions = schema.actions
         /\ \A a, event, column : IsEntry(new, a, event, column) =>
              \/ IsEntry(schema, a, event, column)
              \/ event = "column" /\ column = c.id /\ \E j \in DOMAIN c.actions : a = c.actions[j]
<1> USE DEF IInv
<1>1. schema \in Schema /\ schema.columns \in Seq(Column) /\ i \in 1 .. Len(schema.columns)
  BY DEF TypeOK, Schema, BuildersInPlace
<1>2. PICK cs : cs = [schema.columns EXCEPT ![i] = c]
  OBVIOUS
<1>3. /\ cs \in Seq(Column) /\ Len(cs) = Len(schema.columns)
      /\ \A j \in 1 .. Len(cs) : cs[j] = IF j = i THEN c ELSE schema.columns[j]
  BY <1>1, <1>2, ExceptSeq
<1>4. /\ new \in Schema /\ new.columnless = schema.columnless /\ new.features = schema.features
      /\ new.columns = cs /\ new.actions = schema.actions
  BY <1>1, <1>2, <1>3 DEF WithColumn, Schema
<1>5. /\ builders \subseteq DOMAIN cs /\ ~schema.columnless
      /\ offered \ dropped \subseteq schema.features
  BY <1>1, <1>3 DEF BuildersInPlace, EventsOffered
<1>6. ASSUME NEW a, NEW event, NEW column, IsEntry(new, a, event, column)
      PROVE  \/ IsEntry(schema, a, event, column)
             \/ event = "column" /\ column = c.id /\ \E j \in DOMAIN c.actions : a = c.actions[j]
  <2>1. CASE event \in Kinds
    BY <1>4, <1>6, <2>1, NamesAssumption DEF IsEntry
  <2>2. CASE event \notin Kinds
    <3>1. PICK n \in DOMAIN new.columns :
            /\ event = "column" /\ column = new.columns[n].id
            /\ \E j \in DOMAIN new.columns[n].actions : a = new.columns[n].actions[j]
      BY <1>6, <2>2 DEF IsEntry
    <3>2. /\ n \in DOMAIN schema.columns
          /\ new.columns[n] = IF n = i THEN c ELSE schema.columns[n]
      BY <1>1, <1>3, <1>4
    <3> QED
      BY <3>1, <3>2 DEF IsEntry
  <2> QED
    BY <2>1, <2>2
<1> QED
  BY <1>3, <1>4, <1>5, <1>6

\* What goes astray leaves the table as it was.
LEMMA StrayKeeps ==
  ASSUME IInv, Calling, Stray, UNCHANGED <<tableID, handlers, columnVars, eventVars>>
  PROVE  IInv'
<1> USE DEF IInv
<1>1. /\ schema' = schema /\ bare' = bare
      /\ given' = given \cup {MarkOf(1)} /\ strays' = strays \cup {MarkOf(1)}
      /\ tableID' = tableID /\ handlers' = handlers
      /\ enabled' = enabled /\ offered' = offered /\ dropped' = dropped
      /\ room' = room /\ builders' = builders /\ elsewhere' = elsewhere
  BY DEF Stray, columnVars, eventVars
<1>2. given' \subseteq Mark /\ strays' \subseteq Mark
  BY <1>1, CallingStays DEF TypeOK
<1>3. TypeOK'
  BY <1>1, <1>2, CallingStays DEF TypeOK
<1>4. HandlersPast' /\ HandlersKept /\ OfferedHandled'
  BY <1>1, CallingStays, HandlersStay, OfferedStayHandled
<1>5. EntriesKept
  BY <1>1 DEF EntriesKept
<1>6. EntriesOwn'
  BY <1>1, <1>4, <1>5, CallingStays, EntriesStayOwn
<1>7. BuildersInPlace' /\ ColumnlessEmpty'
  BY <1>1 DEF BuildersInPlace, ColumnlessEmpty
<1>8. NothingLost'
  BY <1>1 DEF NothingLost
<1>9. EventsOffered' /\ UrlsBound' /\ FirstBound'
  BY <1>1, CallingStays DEF EventsOffered, UrlsBound, FirstBound, Rendered
<1> QED
  BY <1>3, <1>4, <1>6, <1>7, <1>8, <1>9

LEMMA SetColumnKeeps == ASSUME IInv, SetColumn, ~Stray PROVE IInv'
<1> USE DEF IInv
<1>1. /\ Calling /\ tableID' = tableID /\ handlers' = handlers
      /\ enabled' = enabled /\ offered' = offered /\ dropped' = dropped
      /\ room' = room /\ builders' = builders /\ elsewhere' = elsewhere /\ strays' = strays
  BY DEF SetColumn, columnVars, eventVars
<1>2. PICK i \in builders : Edit([schema EXCEPT !.columns[i].settings = @ \cup {MarkOf(1)}])
  BY Zenon DEF SetColumn
<1>3. PICK new : /\ Edit(new) /\ schema' = new
                 /\ new = [schema EXCEPT !.columns[i].settings = @ \cup {MarkOf(1)}]
  BY <1>2 DEF Edit
<1>4. PICK c : c = [schema.columns[i] EXCEPT !.settings = @ \cup {MarkOf(1)}]
  OBVIOUS
<1>5. schema.columns[i] \in Column
  BY <1>2 DEF TypeOK, Schema, BuildersInPlace
<1>6. c \in Column /\ c.id = schema.columns[i].id /\ c.actions = schema.columns[i].actions
  <2>1. MarkOf(1) \in Mark
    BY <1>1, CallingStays
  <2> QED
    BY <1>4, <1>5, <2>1 DEF Column
<1>7. new = WithColumn(i, c)
  BY <1>3, <1>4 DEF WithColumn, TypeOK, Schema
<1>8. EntriesKept
  <2> SUFFICES ASSUME NEW a, NEW event, NEW column, IsEntry(new, a, event, column)
               PROVE  IsEntry(schema, a, event, column)
    BY <1>3 DEF EntriesKept
  <2>1. \/ IsEntry(schema, a, event, column)
        \/ event = "column" /\ column = c.id /\ \E j \in DOMAIN c.actions : a = c.actions[j]
    BY <1>6, <1>7, ColumnReplaced
  <2>2. i \in DOMAIN schema.columns
    BY DEF BuildersInPlace
  <2> QED
    BY <1>6, <2>1, <2>2 DEF IsEntry
<1>9. HandlersPast' /\ HandlersKept /\ OfferedHandled'
  BY <1>1, CallingStays, HandlersStay, OfferedStayHandled
<1>10. /\ new \in Schema /\ ~new.columnless
       /\ offered \ dropped \subseteq new.features /\ builders \subseteq DOMAIN new.columns
  BY <1>6, <1>7, ColumnReplaced
<1> QED
  BY <1>1, <1>3, <1>8, <1>9, <1>10, CallKeeps DEF TypeOK

LEMMA AddColumnActionKeeps == ASSUME IInv, AddColumnAction, ~Stray PROVE IInv'
<1> USE DEF IInv
<1>1. /\ Calling /\ tableID' = tableID /\ handlers' = handlers
      /\ enabled' = enabled /\ offered' = offered /\ dropped' = dropped
      /\ room' = room /\ builders' = builders /\ elsewhere' = elsewhere /\ strays' = strays
  BY DEF AddColumnAction, columnVars, eventVars
<1>2. PICK i \in builders, id \in Actions :
        Edit([schema EXCEPT !.columns[i].actions = Append(@, NewAction(id, 1))])
  BY Zenon DEF AddColumnAction
<1>3. PICK act, new : /\ act = NewAction(id, 1) /\ Edit(new)
                      /\ new = [schema EXCEPT !.columns[i].actions = Append(@, act)]
  BY <1>2, Zenon
<1>4. Edit(new) /\ schema' = new
  BY <1>3 DEF Edit
<1>5. PICK c : c = [schema.columns[i] EXCEPT !.actions = Append(@, act)]
  OBVIOUS
<1>6. schema.columns[i] \in Column /\ i \in DOMAIN schema.columns
  BY DEF TypeOK, Schema, BuildersInPlace
<1>7. act \in Action /\ act.url = Nil /\ act.mark[1] = calls + 1
  BY <1>1, <1>3, NewActionTyped
<1>8. schema.columns[i].actions \in Seq(Action)
  BY <1>6 DEF Column
<1>9. Append(schema.columns[i].actions, act) \in Seq(Action)
  BY <1>7, <1>8, Appended
<1>10. /\ c \in Column /\ c.id = schema.columns[i].id
       /\ c.actions = Append(schema.columns[i].actions, act)
  BY <1>5, <1>6, <1>9 DEF Column
<1>11. new = WithColumn(i, c)
  BY <1>3, <1>5 DEF WithColumn, TypeOK, Schema
<1>12. /\ new \in Schema /\ ~new.columnless
      /\ offered \ dropped \subseteq new.features /\ builders \subseteq DOMAIN new.columns
      /\ \A a, event, column : IsEntry(new, a, event, column) =>
           \/ IsEntry(schema, a, event, column)
           \/ event = "column" /\ column = c.id /\ \E j \in DOMAIN c.actions : a = c.actions[j]
  <2>1. c \in Column /\ c.id = schema.columns[i].id
    BY <1>10
  <2> QED
    BY <1>11, <2>1, ColumnReplaced
<1>13. EntriesKept
  <2> SUFFICES ASSUME NEW a, NEW event, NEW column, IsEntry(new, a, event, column)
               PROVE  IsEntry(schema, a, event, column) \/ a = act
    BY <1>1, <1>4, <1>7 DEF EntriesKept, Fresh, HandlersPast, TypeOK
  <2>1. \/ IsEntry(schema, a, event, column)
        \/ event = "column" /\ column = c.id /\ \E j \in DOMAIN c.actions : a = c.actions[j]
    BY <1>12
  <2>2. CASE event = "column" /\ column = c.id /\ \E j \in DOMAIN c.actions : a = c.actions[j]
    <3>1. a = act \/ \E j \in DOMAIN schema.columns[i].actions : a = schema.columns[i].actions[j]
      BY <1>7, <1>8, <1>10, <2>2, Appended
    <3> QED
      BY <1>6, <1>10, <2>2, <3>1 DEF IsEntry
  <2> QED
    BY <2>1, <2>2
<1>14. HandlersPast' /\ HandlersKept /\ OfferedHandled'
  BY <1>1, CallingStays, HandlersStay, OfferedStayHandled
<1> QED
  BY <1>1, <1>4, <1>13, <1>14, <1>12, CallKeeps DEF TypeOK

\* What the actions of a list of columns are registered under, as in SetColumns.
Marked(columns) ==
  UNION {{<<ActionKey("column", c.id, a.id), a.mark>> : a \in Range(c.actions)} : c \in Range(columns)}
MarksOf(columns, key) == {p[2] : p \in {q \in Marked(columns) : q[1] = key}}
LatestOf(columns, key) ==
  CHOOSE m \in MarksOf(columns, key) : \A n \in MarksOf(columns, key) : n[2] <= m[2]

\* The columns that Columns is called with: the actions are of this call.
Given(columns) ==
  /\ columns \in Seq(Column)
  /\ \A i \in DOMAIN columns : i \in {1, 2} /\ \A j \in DOMAIN columns[i].actions :
       columns[i].actions[j].url = Nil /\ columns[i].actions[j].mark = MarkOf(i)
  /\ \A i \in DOMAIN columns : \A j, l \in DOMAIN columns[i].actions : j = l

LEMMA ColumnsGiven ==
  ASSUME TypeOK, ReplaceColumns
  PROVE  \E columns : /\ Given(columns) /\ SetColumns(columns)
                      /\ room' \in Nat /\ elsewhere' \in BOOLEAN
<1>1. Calling
  BY DEF ReplaceColumns
<1>2. PICK n \in 0 .. 2 :
        \E ids \in [1 .. n -> Columns], acting \in [1 .. n -> BOOLEAN], action \in Actions :
          /\ SetColumns([i \in 1 .. n |->
               [id |-> ids[i], settings |-> {},
                actions |-> IF acting[i] THEN <<NewAction(action, i)>> ELSE <<>>]])
          /\ room' = n /\ elsewhere' = (n > 0)
  BY Zenon DEF ReplaceColumns
<1>3. PICK ids \in [1 .. n -> Columns], acting \in [1 .. n -> BOOLEAN], action \in Actions :
        /\ SetColumns([i \in 1 .. n |->
             [id |-> ids[i], settings |-> {},
              actions |-> IF acting[i] THEN <<NewAction(action, i)>> ELSE <<>>]])
        /\ room' = n /\ elsewhere' = (n > 0)
  BY <1>2, Zenon
<1>4. PICK columns :
        /\ SetColumns(columns)
        /\ columns = [i \in 1 .. n |->
             [id |-> ids[i], settings |-> {},
              actions |-> IF acting[i] THEN <<NewAction(action, i)>> ELSE <<>>]]
  BY <1>3, Zenon
<1>5. columns = [i \in 1 .. n |->
        [id |-> ids[i], settings |-> {},
         actions |-> IF acting[i] THEN <<NewAction(action, i)>> ELSE <<>>]]
  BY <1>4
<1>6. ASSUME NEW i \in 1 .. n
      PROVE  /\ i \in {1, 2} /\ columns[i] \in Column
             /\ \A j \in DOMAIN columns[i].actions :
                  columns[i].actions[j].url = Nil /\ columns[i].actions[j].mark = MarkOf(i)
             /\ \A j, l \in DOMAIN columns[i].actions : j = l
  <2>1. i \in {1, 2}
    BY <1>3
  <2>2. PICK act : act = NewAction(action, i)
    OBVIOUS
  <2>3. act \in Action /\ act.url = Nil /\ act.mark = MarkOf(i)
    BY <1>1, <2>1, <2>2, NewActionTyped
  <2>4. columns[i] = [id |-> ids[i], settings |-> {}, actions |-> IF acting[i] THEN <<act>> ELSE <<>>]
    BY <1>5, <2>2
  <2>5. (IF acting[i] THEN <<act>> ELSE <<>>) \in Seq(Action)
    BY <2>3
  <2>6. columns[i] \in Column
    BY <1>3, <2>4, <2>5 DEF Column
  <2>7. columns[i].actions = <<>> \/ columns[i].actions = <<act>>
    BY <2>4
  <2> QED
    BY <2>1, <2>3, <2>6, <2>7
<1>7. columns \in Seq(Column) /\ DOMAIN columns = 1 .. n
  <2>1. n \in Nat
    OBVIOUS
  <2>2. \A i \in 1 .. n : columns[i] \in Column
    BY <1>6
  <2>3. columns = [i \in 1 .. n |-> columns[i]]
    BY <1>5, Zenon
  <2>4. columns \in [1 .. n -> Column]
    BY <2>2, <2>3
  <2> QED
    BY <2>1, <2>4, FunctionIsSeq
<1>8. Given(columns)
  BY <1>6, <1>7 DEF Given
<1>9. room' \in Nat /\ elsewhere' \in BOOLEAN
  BY <1>3
<1> QED
  BY <1>4, <1>8, <1>9

LEMMA MarkedPlaces ==
  ASSUME NEW columns, Given(columns)
  PROVE  /\ \A p \in Marked(columns) : \E i \in DOMAIN columns : \E j \in DOMAIN columns[i].actions :
              p = <<ActionKey("column", columns[i].id, columns[i].actions[j].id),
                    columns[i].actions[j].mark>>
         /\ \A p \in Marked(columns) : p[2] \in {MarkOf(1), MarkOf(2)}
<1>1. ASSUME NEW p \in Marked(columns)
      PROVE  \E i \in DOMAIN columns : \E j \in DOMAIN columns[i].actions :
               p = <<ActionKey("column", columns[i].id, columns[i].actions[j].id),
                     columns[i].actions[j].mark>>
  <2>1. PICK c \in Range(columns) :
           \E a \in Range(c.actions) : p = <<ActionKey("column", c.id, a.id), a.mark>>
    BY <1>1 DEF Marked
  <2>2. PICK a \in Range(c.actions) : p = <<ActionKey("column", c.id, a.id), a.mark>>
    BY <2>1
  <2>3. PICK i \in DOMAIN columns : c = columns[i]
    BY <2>2, RangeIndexed
  <2>4. PICK j \in DOMAIN c.actions : a = c.actions[j]
    BY <2>2, RangeIndexed
  <2> QED
    BY <2>2, <2>3, <2>4
<1> QED
  BY <1>1 DEF Given

\* Of several actions under one key the latest is the one in the last column.
LEMMA LatestMarked ==
  ASSUME NEW columns, Given(columns), NEW p \in Marked(columns)
  PROVE  \E q \in Marked(columns) : q[1] = p[1] /\ q[2] = LatestOf(columns, p[1])
<1> DEFINE marks == MarksOf(columns, p[1])
<1>1. p[2] \in marks /\ marks \subseteq {MarkOf(1), MarkOf(2)}
  BY MarkedPlaces DEF MarksOf
<1>2. \E m \in marks : \A n \in marks : n[2] <= m[2]
  BY <1>1 DEF MarkOf
<1>3. LatestOf(columns, p[1]) \in marks
  BY <1>2 DEF LatestOf
<1> QED
  BY <1>3 DEF MarksOf

LEMMA ReplaceColumnsKeeps == ASSUME IInv, ReplaceColumns PROVE IInv'
<1> USE DEF IInv
<1>1. /\ Calling /\ tableID' = tableID
      /\ enabled' = enabled /\ offered' = offered /\ dropped' = dropped
      /\ builders' = {} /\ strays' = strays
  BY DEF ReplaceColumns, eventVars
<1>2. PICK columns : /\ Given(columns) /\ SetColumns(columns)
                     /\ room' \in Nat /\ elsewhere' \in BOOLEAN
  BY ColumnsGiven
<1>3. PICK marks :
        /\ marks = [key \in {p[1] : p \in Marked(columns)} |-> LatestOf(columns, key)]
        /\ Register(marks)
  BY <1>2, Zenon DEF SetColumns, Marked, MarksOf, LatestOf
<1>4. PICK s, new : /\ s = Ensured(schema) /\ Edit(new)
                    /\ new = [s EXCEPT !.columns = columns]
  BY <1>2, Zenon DEF SetColumns
<1>5. Edit(new) /\ schema' = new
  BY <1>4 DEF Edit
<1>6. /\ s \in Schema /\ ~s.columnless /\ offered \ dropped \subseteq s.features
      /\ builders \subseteq DOMAIN s.columns
      /\ \A a, event, column : IsEntry(s, a, event, column) => IsEntry(schema, a, event, column)
  BY <1>4, EnsuredKept
<1>7. columns \in Seq(Column)
  BY <1>2 DEF Given
<1>8. /\ new \in Schema /\ new.columnless = s.columnless /\ new.features = s.features
      /\ new.columns = columns /\ new.actions = s.actions
  BY <1>4, <1>6, <1>7 DEF Schema
<1>9. ASSUME NEW k \in DOMAIN marks
      PROVE  \E i \in DOMAIN columns : \E j \in DOMAIN columns[i].actions :
               /\ k = ActionKey("column", columns[i].id, columns[i].actions[j].id)
               /\ marks[k] = columns[i].actions[j].mark
  <2>1. PICK q \in Marked(columns) : q[1] = k /\ q[2] = LatestOf(columns, k)
    BY <1>2, <1>3, LatestMarked
  <2>2. PICK i \in DOMAIN columns : \E j \in DOMAIN columns[i].actions :
          q = <<ActionKey("column", columns[i].id, columns[i].actions[j].id), columns[i].actions[j].mark>>
    BY <1>2, MarkedPlaces
  <2>3. marks[k] = LatestOf(columns, k)
    BY <1>3
  <2> QED
    BY <2>1, <2>2, <2>3
<1>10. ASSUME tableID # 0 PROVE Registered(marks)
  <2> SUFFICES ASSUME NEW k \in DOMAIN marks
               PROVE  /\ k \in Key /\ k.table = tableID
                      /\ marks[k] \in Mark /\ marks[k][1] = calls + 1
    BY DEF Registered
  <2>1. PICK i \in DOMAIN columns : \E j \in DOMAIN columns[i].actions :
          /\ k = ActionKey("column", columns[i].id, columns[i].actions[j].id)
          /\ marks[k] = columns[i].actions[j].mark
    BY <1>9
  <2>2. PICK j \in DOMAIN columns[i].actions :
          /\ k = ActionKey("column", columns[i].id, columns[i].actions[j].id)
          /\ marks[k] = columns[i].actions[j].mark
    BY <2>1
  <2>3. /\ columns[i].id \in Columns /\ columns[i].actions[j].id \in Actions
        /\ columns[i].actions[j].mark = MarkOf(i) /\ i \in {1, 2}
    <3>1. columns[i] \in Column
      BY <1>7
    <3>2. columns[i].id \in Columns /\ columns[i].actions \in Seq(Action)
      BY <3>1 DEF Column
    <3>3. columns[i].actions[j] \in Action
      BY <3>2
    <3>4. columns[i].actions[j].id \in Actions
      BY <3>3 DEF Action
    <3> QED
      BY <1>2, <3>2, <3>4 DEF Given
  <2>4. k \in Key /\ k.table = tableID
    BY <1>10, <2>2, <2>3 DEF ActionKey, Key, TypeOK
  <2> QED
    BY <1>1, <2>2, <2>3, <2>4, CallingStays
<1>11. /\ DOMAIN handlers' \subseteq Key /\ Range(handlers') \subseteq Mark
       /\ HandlersPast' /\ HandlersKept /\ DOMAIN handlers \subseteq DOMAIN handlers'
       /\ \A k \in DOMAIN handlers' :
            \/ k \in DOMAIN handlers /\ handlers'[k] = handlers[k]
            \/ k \in DOMAIN marks /\ handlers'[k] = marks[k]
  BY <1>1, <1>3, <1>10, CallingStays, RegisterKeeps DEF HandlersKept
<1>12. ASSUME NEW i \in DOMAIN columns, NEW j \in DOMAIN columns[i].actions
       PROVE  Fresh(columns[i].actions[j], "column", columns[i].id)
  <2> DEFINE a == columns[i].actions[j]
  <2>1. a.url = Nil /\ a.mark = MarkOf(i) /\ a.mark[1] = calls + 1
    BY <1>2 DEF Given, MarkOf
  <2>2. ASSUME NEW k \in DOMAIN handlers', handlers'[k] = a.mark
        PROVE  k = ActionKey("column", columns[i].id, a.id)
    <3>1. CASE k \in DOMAIN handlers /\ handlers'[k] = handlers[k]
      BY <2>1, <2>2, <3>1 DEF HandlersPast, TypeOK
    <3>2. CASE k \in DOMAIN marks /\ handlers'[k] = marks[k]
      <4>1. PICK m \in DOMAIN columns : \E n \in DOMAIN columns[m].actions :
              /\ k = ActionKey("column", columns[m].id, columns[m].actions[n].id)
              /\ marks[k] = columns[m].actions[n].mark
        BY <1>9, <3>2
      <4>2. PICK n \in DOMAIN columns[m].actions :
              /\ k = ActionKey("column", columns[m].id, columns[m].actions[n].id)
              /\ marks[k] = columns[m].actions[n].mark
        BY <4>1
      <4>3. MarkOf(m) = MarkOf(i)
        BY <1>2, <2>1, <2>2, <3>2, <4>2 DEF Given
      <4>4. m = i
        BY <4>3 DEF MarkOf
      <4>5. n = j
        BY <1>2, <4>4 DEF Given
      <4> QED
        BY <4>2, <4>4, <4>5
    <3> QED
      BY <1>11, <3>1, <3>2
  <2> QED
    BY <2>1, <2>2 DEF Fresh
<1>13. EntriesKept
  <2> SUFFICES ASSUME NEW a, NEW event, NEW column, IsEntry(new, a, event, column)
               PROVE  IsEntry(s, a, event, column) \/ Fresh(a, event, column)
    BY <1>5, <1>6 DEF EntriesKept
  <2>1. CASE event \in Kinds
    BY <1>8, <2>1, NamesAssumption DEF IsEntry
  <2>2. CASE event \notin Kinds
    BY <1>8, <1>12, <2>2 DEF IsEntry
  <2> QED
    BY <2>1, <2>2
<1>14. OfferedHandled'
  BY <1>1, <1>11, OfferedStayHandled
<1> QED
  BY <1>1, <1>2, <1>5, <1>6, <1>8, <1>11, <1>13, <1>14, CallKeeps DEF TypeOK

-----------------------------------------------------------------------------
(* Render.                                                                 *)

\* A bounded set of numbers has a greatest one.
LEMMA Greatest ==
  ASSUME NEW T, T \subseteq Nat, T # {}, NEW n \in Nat, \A t \in T : t <= n
  PROVE  \E t \in T : \A u \in T : u <= t
<1> DEFINE Over == {m \in Nat : \A t \in T : t <= m}
<1>1. Over \subseteq Nat /\ n \in Over
  OBVIOUS
<1>2. PICK m \in Over : \A k \in Over : ~(<<k, m>> \in OpToRel(<, Nat))
  BY <1>1, NatLessThanWellFounded, WFMin
<1>3. \A k \in Over : ~(k < m)
  BY <1>2 DEF OpToRel
<1>4. m \in T
  <2> SUFFICES ASSUME m \notin T PROVE FALSE
    OBVIOUS
  <2>1. \A t \in T : t < m
    OBVIOUS
  <2>2. PICK t \in T : TRUE
    OBVIOUS
  <2>3. m - 1 \in Over
    BY <2>1, <2>2
  <2> QED
    BY <1>3, <2>3
<1> QED
  BY <1>4

\* The key that is bound is one of those that have a handler.
LEMMA LastUrlIn ==
  ASSUME TypeOK, HandlersPast, NEW keys \in SUBSET DOMAIN handlers, NEW url
  PROVE  IF keys = {} THEN LastUrl(keys, url) = url ELSE LastUrl(keys, url) \in keys
<1>1. CASE keys = {}
  BY <1>1 DEF LastUrl
<1>2. CASE keys # {}
  <2> DEFINE T == {k.table : k \in keys}
  <2>1. \A k \in keys : k.table \in Nat
    BY TablesAssumption DEF TypeOK, Key
  <2>2. PICK n \in Nat : \A k \in DOMAIN handlers : k.table <= n
    BY DEF HandlersPast
  <2>3. T \subseteq Nat /\ T # {} /\ \A t \in T : t <= n
    BY <1>2, <2>1, <2>2
  <2>4. PICK t \in T : \A u \in T : u <= t
    <3> HIDE DEF T
    <3> QED
      BY <2>3, Greatest
  <2>5. \E k \in keys : \A l \in keys : l.table <= k.table
    BY <2>4
  <2> QED
    BY <1>2, <2>5 DEF LastUrl
<1> QED
  BY <1>1, <1>2

\* Ids and marks stay, an action that is bound is the first with its id and its URL a key
\* with a handler.
Binds(old, new, event, column) ==
  /\ DOMAIN new = DOMAIN old
  /\ \A i \in DOMAIN old :
       /\ new[i].id = old[i].id /\ new[i].mark = old[i].mark
       /\ new[i].url \in KeysOf(event, column, old[i].id) \cup {old[i].url}
       /\ (\E j \in 1 .. i - 1 : old[j].id = old[i].id) => new[i] = old[i]

LEMMA BoundList ==
  ASSUME TypeOK, HandlersPast, NEW actions \in Seq(Action), NEW event, NEW column,
         NEW bound, bound = Bound(actions, event, column)
  PROVE  /\ bound \in Seq(Action) /\ Marks(bound) = Marks(actions)
         /\ Binds(actions, bound, event, column)
<1>1. DOMAIN actions = 1 .. Len(actions) /\ Len(actions) \in Nat
  OBVIOUS
<1>2. ASSUME NEW i \in DOMAIN actions
      PROVE  /\ bound[i] \in Action
             /\ bound[i].id = actions[i].id /\ bound[i].mark = actions[i].mark
             /\ bound[i].url \in KeysOf(event, column, actions[i].id) \cup {actions[i].url}
             /\ (\E j \in 1 .. i - 1 : actions[j].id = actions[i].id) => bound[i] = actions[i]
  <2>1. PICK url : url = LastUrl(KeysOf(event, column, actions[i].id), actions[i].url)
    OBVIOUS
  <2>2. KeysOf(event, column, actions[i].id) \in SUBSET DOMAIN handlers
    BY DEF KeysOf
  <2>3. url \in KeysOf(event, column, actions[i].id) \cup {actions[i].url}
    BY <2>1, <2>2, LastUrlIn
  <2>4. actions[i] \in Action
    OBVIOUS
  <2>5. url \in Key \cup {Nil}
    BY <2>2, <2>3, <2>4 DEF TypeOK, Action
  <2>6. bound[i] = IF \E j \in 1 .. i - 1 : actions[j].id = actions[i].id
                   THEN actions[i] ELSE [actions[i] EXCEPT !.url = url]
    BY <2>1 DEF Bound
  <2> QED
    BY <2>3, <2>4, <2>5, <2>6 DEF Action
<1>3. bound = [i \in DOMAIN actions |-> bound[i]] /\ DOMAIN bound = DOMAIN actions
  BY DEF Bound
<1>4. bound \in Seq(Action)
  <2>1. bound \in [1 .. Len(actions) -> Action]
    BY <1>1, <1>2, <1>3
  <2> QED
    BY <1>1, <2>1, FunctionIsSeq
<1>5. Marks(bound) = Marks(actions)
  BY <1>2, <1>3 DEF Marks, Range
<1>6. Binds(actions, bound, event, column)
  BY <1>2, <1>3 DEF Binds
<1> QED
  BY <1>4, <1>5, <1>6

BindsColumns(old, new) ==
  /\ DOMAIN new = DOMAIN old
  /\ \A i \in DOMAIN old :
       /\ new[i].id = old[i].id /\ new[i].settings = old[i].settings
       /\ Marks(new[i].actions) = Marks(old[i].actions)
       /\ Binds(old[i].actions, new[i].actions, "column", old[i].id)
       /\ (\E m \in 1 .. i - 1 : old[m].id = old[i].id) => new[i] = old[i]

LEMMA SameBinds ==
  ASSUME NEW actions, NEW event, NEW column
  PROVE  Binds(actions, actions, event, column)
BY DEF Binds

\* An entry that the render gave an url is the first with its id.
LEMMA FirstInList ==
  ASSUME NEW old, NEW new, NEW event, NEW column, old \in Seq(Action),
         Binds(old, new, event, column), NEW j \in DOMAIN old, new[j] # old[j]
  PROVE  \A n \in 1 .. j - 1 : n \in DOMAIN old /\ new[n].id # new[j].id
<1>1. TAKE n \in 1 .. j - 1
<1>2. n \in DOMAIN old
  OBVIOUS
<1>3. old[n].id # old[j].id
  BY <1>1 DEF Binds
<1>4. new[n].id = old[n].id /\ new[j].id = old[j].id
  BY <1>2 DEF Binds
<1> QED
  BY <1>2, <1>3, <1>4

LEMMA BoundColumnList ==
  ASSUME TypeOK, HandlersPast, NEW columns \in Seq(Column), NEW bound, bound = BoundColumns(columns)
  PROVE  bound \in Seq(Column) /\ BindsColumns(columns, bound)
<1>1. DOMAIN columns = 1 .. Len(columns) /\ Len(columns) \in Nat
  OBVIOUS
<1>2. ASSUME NEW i \in DOMAIN columns
      PROVE  /\ bound[i] \in Column
             /\ bound[i].id = columns[i].id /\ bound[i].settings = columns[i].settings
             /\ Marks(bound[i].actions) = Marks(columns[i].actions)
             /\ Binds(columns[i].actions, bound[i].actions, "column", columns[i].id)
             /\ (\E m \in 1 .. i - 1 : columns[m].id = columns[i].id) => bound[i] = columns[i]
  <2>1. PICK actions : actions = Bound(columns[i].actions, "column", columns[i].id)
    OBVIOUS
  <2>2. columns[i] \in Column
    OBVIOUS
  <2>3. columns[i].actions \in Seq(Action)
    BY <2>2 DEF Column
  <2>4. /\ actions \in Seq(Action) /\ Marks(actions) = Marks(columns[i].actions)
        /\ Binds(columns[i].actions, actions, "column", columns[i].id)
    BY <2>1, <2>3, BoundList
  <2>5. bound[i] = IF \E j \in 1 .. i - 1 : columns[j].id = columns[i].id
                   THEN columns[i] ELSE [columns[i] EXCEPT !.actions = actions]
    BY <2>1 DEF BoundColumns
  <2>6. CASE \E j \in 1 .. i - 1 : columns[j].id = columns[i].id
    BY <2>2, <2>5, <2>6, SameBinds
  <2>7. CASE ~(\E j \in 1 .. i - 1 : columns[j].id = columns[i].id)
    <3>1. bound[i] = [columns[i] EXCEPT !.actions = actions]
      BY <2>5, <2>7
    <3>2. /\ bound[i] \in Column /\ bound[i].actions = actions
          /\ bound[i].id = columns[i].id /\ bound[i].settings = columns[i].settings
      BY <2>2, <2>4, <3>1 DEF Column
    <3> QED
      BY <2>4, <2>7, <3>2
  <2> QED
    BY <2>6, <2>7
<1>3. bound = [i \in DOMAIN columns |-> bound[i]] /\ DOMAIN bound = DOMAIN columns
  BY DEF BoundColumns
<1>4. bound \in Seq(Column)
  <2>1. bound \in [1 .. Len(columns) -> Column]
    BY <1>1, <1>2, <1>3
  <2> QED
    BY <1>1, <2>1, FunctionIsSeq
<1> QED
  BY <1>2, <1>3, <1>4 DEF BindsColumns

\* The tables events are bound with the last of their handlers, if they have one.
LEMMA SchemaBound ==
  ASSUME TypeOK, HandlersPast, NEW s \in Schema, NEW new, new = BoundSchema(s)
  PROVE  /\ new \in Schema /\ new.columnless = s.columnless
         /\ new.features = s.features /\ new.settings = s.settings
         /\ BindsColumns(s.columns, new.columns)
         /\ \A k \in Kinds : /\ Marks(new.actions[k]) = Marks(s.actions[k])
                             /\ Binds(s.actions[k], new.actions[k], k, Nil)
         /\ \A e \in Events : KeysOf(e, Nil, Nil) # {} => new.events[e] \in KeysOf(e, Nil, Nil)
<1>1. CASE handlers = <<>>
  <2>1. PICK events : events = [e \in Events |-> Nil]
    OBVIOUS
  <2>2. new = [s EXCEPT !.events = events]
    BY <1>1, <2>1 DEF BoundSchema
  <2>3. events \in [Events -> Key \cup {Nil}]
    BY <2>1
  <2>4. /\ new \in Schema /\ new.columnless = s.columnless
        /\ new.features = s.features /\ new.settings = s.settings
        /\ new.columns = s.columns /\ new.actions = s.actions
    BY <2>2, <2>3 DEF Schema
  <2>5. \A e \in Events : KeysOf(e, Nil, Nil) = {}
    BY <1>1 DEF KeysOf
  <2>6. BindsColumns(s.columns, s.columns)
    BY SameBinds DEF BindsColumns
  <2> QED
    BY <2>4, <2>5, <2>6, SameBinds
<1>2. CASE handlers # <<>>
  <2>1. PICK columns, actions, events :
          /\ columns = BoundColumns(s.columns)
          /\ actions = [k \in Kinds |-> Bound(s.actions[k], k, Nil)]
          /\ events = [e \in Events |-> LastUrl(KeysOf(e, Nil, Nil), Nil)]
    OBVIOUS
  <2>2. new = [s EXCEPT !.columns = columns, !.actions = actions, !.events = events]
    BY <1>2, <2>1, Zenon DEF BoundSchema
  <2>3. s.columns \in Seq(Column) /\ s.actions \in [Kinds -> Seq(Action)]
    BY DEF Schema
  <2>4. columns \in Seq(Column) /\ BindsColumns(s.columns, columns)
    BY <2>1, <2>3, BoundColumnList
  <2>5. \A k \in Kinds : /\ actions[k] \in Seq(Action)
                         /\ Marks(actions[k]) = Marks(s.actions[k])
                         /\ Binds(s.actions[k], actions[k], k, Nil)
    <3> SUFFICES ASSUME NEW k \in Kinds
                 PROVE  /\ actions[k] \in Seq(Action)
                        /\ Marks(actions[k]) = Marks(s.actions[k])
                        /\ Binds(s.actions[k], actions[k], k, Nil)
      OBVIOUS
    <3>1. actions[k] = Bound(s.actions[k], k, Nil)
      BY <2>1
    <3> QED
      BY <2>3, <3>1, BoundList
  <2>6. actions \in [Kinds -> Seq(Action)]
    BY <2>1, <2>5
  <2>7. \A e \in Events : /\ events[e] \in Key \cup {Nil}
                          /\ KeysOf(e, Nil, Nil) # {} => events[e] \in KeysOf(e, Nil, Nil)
    <3> SUFFICES ASSUME NEW e \in Events
                 PROVE  /\ events[e] \in Key \cup {Nil}
                        /\ KeysOf(e, Nil, Nil) # {} => events[e] \in KeysOf(e, Nil, Nil)
      OBVIOUS
    <3>1. events[e] = LastUrl(KeysOf(e, Nil, Nil), Nil)
      BY <2>1
    <3>2. KeysOf(e, Nil, Nil) \in SUBSET DOMAIN handlers /\ DOMAIN handlers \subseteq Key
      BY DEF KeysOf, TypeOK
    <3> QED
      BY <3>1, <3>2, LastUrlIn
  <2>8. events \in [Events -> Key \cup {Nil}]
    BY <2>1, <2>7
  <2>9. /\ new \in Schema /\ new.columnless = s.columnless
        /\ new.features = s.features /\ new.settings = s.settings
        /\ new.columns = columns /\ new.actions = actions /\ new.events = events
    BY <2>2, <2>4, <2>6, <2>8 DEF Schema
  <2> QED
    BY <2>4, <2>5, <2>7, <2>9
<1> QED
  BY <1>1, <1>2

\* Binding gives or takes nothing of the page's own.
LEMMA ContentsBound ==
  ASSUME NEW s \in Schema, NEW new \in Schema, new.settings = s.settings,
         BindsColumns(s.columns, new.columns),
         \A k \in Kinds : Marks(new.actions[k]) = Marks(s.actions[k])
  PROVE  Contents(new) = Contents(s)
<1>1. ColumnMarks(new) = ColumnMarks(s)
  <2>1. \A i \in DOMAIN s.columns :
          s.columns[i].settings \cup Marks(s.columns[i].actions)
            = new.columns[i].settings \cup Marks(new.columns[i].actions)
    BY DEF BindsColumns
  <2>2. DOMAIN new.columns = DOMAIN s.columns
    BY DEF BindsColumns
  <2> QED
    BY <2>1, <2>2 DEF ColumnMarks, Range
<1> QED
  BY <1>1 DEF Contents

LEMMA BoundEntry ==
  ASSUME NEW s \in Schema, NEW new \in Schema, BindsColumns(s.columns, new.columns),
         \A k \in Kinds : Binds(s.actions[k], new.actions[k], k, Nil),
         NEW a, NEW event, NEW column, IsEntry(new, a, event, column)
  PROVE  \E b \in Action : /\ IsEntry(s, b, event, column)
                           /\ a.id = b.id /\ a.mark = b.mark
                           /\ a.url \in KeysOf(event, column, b.id) \cup {b.url}
<1>1. CASE event \in Kinds /\ column = Nil /\ \E j \in DOMAIN new.actions[event] : a = new.actions[event][j]
  <2>1. PICK j \in DOMAIN new.actions[event] : a = new.actions[event][j]
    BY <1>1
  <2>2. s.actions[event] \in Seq(Action)
    BY <1>1 DEF Schema
  <2>3. j \in DOMAIN s.actions[event]
    BY <1>1, <2>1 DEF Binds
  <2>4. s.actions[event][j] \in Action
    BY <2>2, <2>3
  <2> QED
    BY <1>1, <2>1, <2>3, <2>4 DEF Binds, IsEntry
<1>2. CASE /\ event = "column"
           /\ \E i \in DOMAIN new.columns :
                /\ column = new.columns[i].id
                /\ \E j \in DOMAIN new.columns[i].actions : a = new.columns[i].actions[j]
  <2>1. PICK i \in DOMAIN new.columns :
          /\ column = new.columns[i].id
          /\ \E j \in DOMAIN new.columns[i].actions : a = new.columns[i].actions[j]
    BY <1>2
  <2>2. PICK j \in DOMAIN new.columns[i].actions : a = new.columns[i].actions[j]
    BY <2>1
  <2>3. /\ i \in DOMAIN s.columns /\ new.columns[i].id = s.columns[i].id
        /\ Binds(s.columns[i].actions, new.columns[i].actions, "column", s.columns[i].id)
    BY DEF BindsColumns
  <2>4. s.columns[i] \in Column
    BY <2>3 DEF Schema
  <2>5. s.columns[i].actions \in Seq(Action)
    BY <2>4 DEF Column
  <2>6. j \in DOMAIN s.columns[i].actions
    BY <2>3 DEF Binds
  <2>7. s.columns[i].actions[j] \in Action
    BY <2>5, <2>6
  <2> DEFINE b == s.columns[i].actions[j]
  <2>8. IsEntry(s, b, event, column)
    BY <1>2, <2>1, <2>3, <2>6 DEF IsEntry
  <2>9. a.id = b.id /\ a.mark = b.mark /\ a.url \in KeysOf(event, column, b.id) \cup {b.url}
    BY <1>2, <2>1, <2>2, <2>3, <2>6 DEF Binds
  <2> QED
    BY <2>7, <2>8, <2>9
<1> QED
  BY <1>1, <1>2 DEF IsEntry

LEMMA RenderKeeps == ASSUME IInv, Render PROVE IInv'
<1> USE DEF IInv
<1>1. /\ stage = "building" /\ stage' = "rendered"
      /\ calls' = calls /\ tableID' = tableID /\ handlers' = handlers
      /\ enabled' = enabled /\ given' = given /\ bare' = bare
      /\ offered' = offered /\ dropped' = dropped
      /\ room' = room /\ builders' = builders /\ elsewhere' = elsewhere /\ strays' = strays
  BY DEF Render, columnVars, eventVars
<1>2. PICK new : new = BoundSchema(schema)
  OBVIOUS
<1>3. schema \in Schema
  BY DEF TypeOK
<1>4. /\ new \in Schema /\ new.columnless = schema.columnless
      /\ new.features = schema.features /\ new.settings = schema.settings
      /\ BindsColumns(schema.columns, new.columns)
      /\ \A k \in Kinds : Marks(new.actions[k]) = Marks(schema.actions[k])
      /\ \A k \in Kinds : Binds(schema.actions[k], new.actions[k], k, Nil)
      /\ \A e \in Events : KeysOf(e, Nil, Nil) # {} => new.events[e] \in KeysOf(e, Nil, Nil)
  BY <1>2, <1>3, SchemaBound
<1>5. schema' = Ensured(new)
  BY <1>2 DEF Render
<1>6. HandlersPast' /\ OfferedHandled'
  BY <1>1 DEF HandlersPast, OfferedHandled, KeysOf
<1>7. CASE schema.columnless
  <2>1. schema' = New(0)
    BY <1>4, <1>5, <1>7 DEF Ensured
  <2>2. /\ schema' \in Schema /\ ~schema'.columnless /\ Contents(schema') = {}
        /\ \A a, event, column : ~IsEntry(schema', a, event, column)
    BY <2>1, NewTyped
  <2>3. TypeOK'
    BY <1>1, <2>2 DEF TypeOK
  <2>4. EntriesOwn' /\ UrlsBound'
    BY <2>2 DEF EntriesOwn, UrlsBound, IsEntry
  <2>5. FirstBound'
    BY <2>1 DEF FirstBound, New
  <2>6. BuildersInPlace' /\ ColumnlessEmpty' /\ NothingLost' /\ EventsOffered'
    BY <1>1, <1>7, <2>2 DEF BuildersInPlace, ColumnlessEmpty, NothingLost, EventsOffered
  <2> QED
    BY <1>6, <2>3, <2>4, <2>5, <2>6
<1>8. CASE ~schema.columnless
  <2>1. schema' = new
    BY <1>4, <1>5, <1>8 DEF Ensured
  <2>2. TypeOK'
    BY <1>1, <1>4, <2>1 DEF TypeOK
  <2>3. ASSUME NEW a, NEW event \in ListEvents, NEW column \in ListColumns, IsEntry(new, a, event, column)
        PROVE  /\ a.mark[1] <= calls /\ Own(a, event, column)
               /\ a.url \in KeysOf(event, column, a.id) \cup {Nil}
    <3>1. PICK b \in Action : /\ IsEntry(schema, b, event, column)
                              /\ a.id = b.id /\ a.mark = b.mark
                              /\ a.url \in KeysOf(event, column, b.id) \cup {b.url}
      BY <1>3, <1>4, <2>3, BoundEntry
    <3>2. b.mark[1] <= calls /\ Own(b, event, column) /\ b.url = Nil
      BY <1>1, <3>1 DEF EntriesOwn
    <3> QED
      BY <3>1, <3>2 DEF Own
  <2>4. EntriesOwn'
    <3> SUFFICES ASSUME NEW a \in Action, NEW event \in ListEvents, NEW column \in ListColumns,
                        IsEntry(schema', a, event, column)
                 PROVE  /\ stage' = "building" => a.url = Nil
                        /\ a.mark[1] <= calls'
                        /\ \A k \in DOMAIN handlers' : handlers'[k] = a.mark =>
                             k = [table |-> tableID', event |-> event, column |-> column, action |-> a.id]
      BY DEF EntriesOwn, IsEntry, Own, ActionKey, ListEvents, ListColumns
    <3>1. a.mark[1] <= calls /\ Own(a, event, column)
      BY <2>1, <2>3
    <3> QED
      BY <1>1, <3>1 DEF Own, ActionKey
  <2>5. UrlsBound'
    <3> SUFFICES ASSUME NEW a \in Action, NEW event \in ListEvents, NEW column \in ListColumns,
                        IsEntry(schema', a, event, column)
                 PROVE  a.url \in {k \in DOMAIN handlers' : k.event = event /\ k.column = column
                                                           /\ k.action = a.id} \cup {Nil}
      BY DEF UrlsBound, IsEntry, KeysOf, ListEvents, ListColumns
    <3>1. a.url \in KeysOf(event, column, a.id) \cup {Nil}
      BY <2>1, <2>3
    <3> QED
      BY <1>1, <3>1 DEF KeysOf
  <2>6. FirstBound'
    <3>1. ASSUME NEW k \in Kinds, NEW j \in DOMAIN new.actions[k], new.actions[k][j].url # Nil
          PROVE  \A n \in 1 .. j - 1 : new.actions[k][n].id # new.actions[k][j].id
      <4> DEFINE old == schema.actions[k]
      <4>1. old \in Seq(Action) /\ Binds(old, new.actions[k], k, Nil)
        BY <1>3, <1>4 DEF Schema
      <4>2. j \in DOMAIN old /\ old[j] \in Action /\ IsEntry(schema, old[j], k, Nil)
        BY <4>1 DEF Binds, IsEntry
      <4>3. old[j].url = Nil
        BY <1>1, <4>2 DEF EntriesOwn, ListEvents, ListColumns
      <4>4. new.actions[k][j] # old[j]
        BY <3>1, <4>3
      <4> QED
        BY <4>1, <4>2, <4>4, FirstInList
    <3>2. ASSUME NEW i \in DOMAIN new.columns, NEW j \in DOMAIN new.columns[i].actions,
                 new.columns[i].actions[j].url # Nil
          PROVE  /\ \A m \in 1 .. i - 1 : new.columns[m].id # new.columns[i].id
                 /\ \A n \in 1 .. j - 1 :
                      new.columns[i].actions[n].id # new.columns[i].actions[j].id
      <4> DEFINE old == schema.columns[i].actions
      <4>1. schema.columns \in Seq(Column) /\ i \in DOMAIN schema.columns
        BY <1>3, <1>4 DEF Schema, BindsColumns
      <4>2. schema.columns[i] \in Column
        BY <4>1
      <4>3. old \in Seq(Action) /\ schema.columns[i].id \in Columns
        BY <4>2 DEF Column
      <4>4. Binds(old, new.columns[i].actions, "column", schema.columns[i].id)
        BY <1>4, <4>1 DEF BindsColumns
      <4>5. j \in DOMAIN old
        BY <4>4 DEF Binds
      <4>6. old[j] \in Action /\ IsEntry(schema, old[j], "column", schema.columns[i].id)
        BY <4>1, <4>3, <4>5 DEF IsEntry
      <4>7. old[j].url = Nil
        BY <1>1, <4>3, <4>6 DEF EntriesOwn, ListEvents, ListColumns
      <4>8. new.columns[i].actions[j] # old[j]
        BY <3>2, <4>7
      <4>9. \A m \in 1 .. i - 1 : m \in DOMAIN schema.columns /\ schema.columns[m].id # schema.columns[i].id
        BY <1>4, <4>1, <4>8 DEF BindsColumns
      <4>10. \A n \in 1 .. j - 1 : new.columns[i].actions[n].id # new.columns[i].actions[j].id
        BY <4>3, <4>4, <4>5, <4>8, FirstInList
      <4> QED
        BY <1>4, <4>1, <4>9, <4>10 DEF BindsColumns
    <3> QED
      BY <2>1, <3>1, <3>2 DEF FirstBound
  <2>7. NothingLost'
    BY <1>1, <1>3, <1>4, <2>1, ContentsBound DEF NothingLost
  <2>8. EventsOffered'
    BY <1>1, <1>4, <2>1, NilAssumption DEF EventsOffered, OfferedHandled, KeysOf, TypeOK
  <2>9. BuildersInPlace' /\ ColumnlessEmpty'
    <3>1. new.columns \in Seq(Column) /\ schema.columns \in Seq(Column)
      BY <1>3, <1>4 DEF Schema
    <3>2. Len(new.columns) = Len(schema.columns)
      BY <1>4, <3>1 DEF BindsColumns
    <3> QED
      BY <1>1, <1>4, <1>8, <2>1, <3>2 DEF BuildersInPlace, ColumnlessEmpty
  <2> QED
    BY <1>6, <2>2, <2>4, <2>5, <2>6, <2>7, <2>8, <2>9
<1> QED
  BY <1>7, <1>8

-----------------------------------------------------------------------------
(* The invariant.                                                          *)

LEMMA InvariantKept == Spec => []IInv
<1>1. Init => IInv
  <2> SUFFICES ASSUME Init PROVE IInv
    OBVIOUS
  <2>1. PICK s : s = New(0)
    OBVIOUS
  <2>2. s \in Schema /\ s.columns = <<>> /\ (\A k \in Kinds : s.actions[k] = <<>>) /\ s.settings = {}
    BY <2>1 DEF New, Schema
  <2>3. schema = [s EXCEPT !.columnless = TRUE]
    BY <2>1 DEF Init
  <2>4. /\ schema \in Schema /\ schema.columns = <<>> /\ schema.settings = {}
        /\ \A k \in Kinds : schema.actions[k] = <<>>
    BY <2>2, <2>3 DEF Schema
  <2>5. /\ stage = "building" /\ calls = 0 /\ tableID = 0 /\ handlers = <<>>
        /\ room = 0 /\ builders = {} /\ elsewhere = FALSE /\ strays = {}
        /\ enabled = {} /\ given = {} /\ bare = FALSE /\ offered = {} /\ dropped = {}
    BY DEF Init
  <2>6. TypeOK
    <3>1. DOMAIN handlers = {} /\ Range(handlers) = {}
      BY <2>5 DEF Range
    <3>2. calls \in 0 .. MaxCalls
      BY <2>5, CallsAssumption
    <3> QED
      BY <2>4, <2>5, <3>1, <3>2 DEF TypeOK
  <2>7. EntriesOwn
    BY <2>4 DEF EntriesOwn, IsEntry
  <2>8. Contents(schema) = {}
    BY <2>4 DEF Contents, ColumnMarks, Marks, Range
  <2>9. /\ HandlersPast /\ BuildersInPlace /\ ColumnlessEmpty /\ OfferedHandled
        /\ NothingLost /\ EventsOffered /\ UrlsBound /\ FirstBound
    BY <2>5, <2>8 DEF HandlersPast, BuildersInPlace, ColumnlessEmpty, OfferedHandled, NothingLost,
                      EventsOffered, UrlsBound, FirstBound, Rendered
  <2> QED
    BY <2>6, <2>7, <2>9 DEF IInv
<1>2. IInv /\ [Next]_vars => IInv'
  <2> SUFFICES ASSUME IInv, [Next]_vars PROVE IInv'
    OBVIOUS
  <2>1. CASE UNCHANGED vars
    BY <2>1 DEF IInv, vars, columnVars, eventVars, TypeOK, EntriesOwn, IsEntry, Own, ActionKey, HandlersPast, BuildersInPlace,
                ColumnlessEmpty, OfferedHandled, KeysOf, NothingLost, EventsOffered, Rendered,
                UrlsBound, FirstBound
  <2>2. CASE Stray /\ (SetColumn \/ AddColumnAction)
    BY <2>2, StrayKeeps DEF SetColumn, AddColumnAction
  <2> QED
    BY <2>1, <2>2, TableKeeps, CreateTableKeeps, SetKeeps, ReplaceColumnsKeeps, AppendColumnKeeps,
       SetColumnKeeps, AddColumnActionKeeps, AddActionKeeps, ReplaceActionsKeeps, OnKeeps,
       FeaturesKeep, RenderKeeps DEF Next
<1> QED
  BY <1>1, <1>2, PTL DEF Spec

\* The table page's state is well typed: handlers and URLs are under keys of the page's
\* tables, and everything that is given to the table is of a call that Init made.
THEOREM TableTypeCorrect == Spec => []TypeOK
BY InvariantKept, PTL DEF IInv

\* ensureDSL, NewBuilder and Render replace nothing that Init gave the table, whatever
\* the order of the calls, unless the page itself set a schema without columns; and of what
\* is set on columns' builders only that is lost whose column the table had moved or copied.
THEOREM NothingIsLost == Spec => []NothingLost
BY InvariantKept, PTL DEF IInv

\* An event that Init gave a handler has a URL after Render, also when Features left it out,
\* and its feature is on unless Features of another builder did.
THEOREM OfferedEventsHaveUrls == Spec => []EventsOffered
BY InvariantKept, PTL DEF IInv

-----------------------------------------------------------------------------
(* Requests to a table that was rendered.                                  *)

LEMMA ListedEntry ==
  ASSUME TypeOK, NEW list \in Lists, NEW i \in DOMAIN list[1]
  PROVE  /\ list[1][i] \in Action /\ list[2] \in ListEvents /\ list[3] \in ListColumns
         /\ IsEntry(schema, list[1][i], list[2], list[3])
<1>1. schema.actions \in [Kinds -> Seq(Action)] /\ schema.columns \in Seq(Column)
  BY DEF TypeOK, Schema
<1>2. ASSUME NEW k \in Kinds, list = <<schema.actions[k], k, Nil>>
      PROVE  /\ list[1][i] \in Action /\ list[2] \in ListEvents /\ list[3] \in ListColumns
             /\ IsEntry(schema, list[1][i], list[2], list[3])
  <2>1. list[1] = schema.actions[k] /\ list[2] = k /\ list[3] = Nil
    BY <1>2
  <2>2. schema.actions[k] \in Seq(Action) /\ i \in DOMAIN schema.actions[k]
    BY <1>1, <2>1
  <2>3. schema.actions[k][i] \in Action
    BY <2>2
  <2> QED
    BY <2>1, <2>2, <2>3 DEF IsEntry, ListEvents, ListColumns
<1>3. ASSUME NEW c \in Range(schema.columns), list = <<c.actions, "column", c.id>>
      PROVE  /\ list[1][i] \in Action /\ list[2] \in ListEvents /\ list[3] \in ListColumns
             /\ IsEntry(schema, list[1][i], list[2], list[3])
  <2>1. list[1] = c.actions /\ list[2] = "column" /\ list[3] = c.id
    BY <1>3
  <2>2. PICK n \in DOMAIN schema.columns : c = schema.columns[n]
    BY RangeIndexed
  <2>3. c \in Column
    BY <1>1, <2>2
  <2>4. c.actions \in Seq(Action) /\ c.id \in Columns
    BY <2>3 DEF Column
  <2>5. c.actions[i] \in Action
    BY <2>1, <2>4
  <2>6. IsEntry(schema, c.actions[i], "column", c.id)
    BY <2>1, <2>2 DEF IsEntry
  <2> QED
    BY <2>1, <2>4, <2>5, <2>6 DEF ListEvents, ListColumns
<1> QED
  BY <1>2, <1>3 DEF Lists

LEMMA OwnHandler == ASSUME IInv PROVE OwnHandlerRuns
<1> USE DEF IInv
<1> SUFFICES ASSUME Rendered, NEW list \in Lists, NEW i \in DOMAIN list[1],
                    list[1][i].url # Nil, list[1][i].mark \in Range(handlers),
                    \A k \in KeysOf(list[2], list[3], list[1][i].id) : k.table = tableID
             PROVE  Execute(list[1][i].url, Shown) = list[1][i].mark
  BY DEF OwnHandlerRuns
<1> DEFINE a == list[1][i]
<1>1. /\ a \in Action /\ list[2] \in ListEvents /\ list[3] \in ListColumns
      /\ IsEntry(schema, a, list[2], list[3])
  BY ListedEntry
<1>2. a.url \in KeysOf(list[2], list[3], a.id)
  BY <1>1 DEF UrlsBound
<1>3. a.url \in DOMAIN handlers /\ a.url \in Key
  BY <1>2 DEF KeysOf, TypeOK
<1>4. a.url = ActionKey(list[2], list[3], a.id)
  BY <1>2, <1>3 DEF KeysOf, ActionKey, Key
<1>5. PICK k \in DOMAIN handlers : handlers[k] = a.mark
  BY RangeIndexed
<1>6. k = ActionKey(list[2], list[3], a.id)
  BY <1>1, <1>5 DEF EntriesOwn, Own
<1>7. Accepts(a.url.event, Shown)
  <2>1. "id" \in Shown /\ \A c \in Range(schema.columns) : c.id \in Shown
    BY DEF Shown
  <2> QED
    BY <2>1 DEF Accepts
<1> QED
  BY <1>3, <1>4, <1>5, <1>6, <1>7 DEF Execute

\* A client that follows an action's URL runs the handler that the page gave this very
\* action, if it is registered and no other table of the page has an action of that id.
THEOREM OwnHandlerIsRun == Spec => []OwnHandlerRuns
BY InvariantKept, OwnHandler, PTL

\* The group is that of the first action with the id, in the order it is searched.
LEMMA FirstPlace ==
  ASSUME NEW key, NEW n \in DOMAIN Searched(key), NEW i \in DOMAIN Searched(key)[n],
         Searched(key)[n][i].id = key.action,
         DOMAIN Searched(key) \subseteq Nat,
         \A m \in DOMAIN Searched(key) : DOMAIN Searched(key)[m] \subseteq Nat,
         \A m \in DOMAIN Searched(key) : \A j \in DOMAIN Searched(key)[m] :
           Searched(key)[m][j].id = key.action => m > n \/ (m = n /\ j >= i)
  PROVE  AccessGroup(key) = Searched(key)[n][i].mark
<1> DEFINE p == <<n, i>>
           first == CHOOSE q \in Places(key) : \A r \in Places(key) : Before(q, r)
<1>1. p \in Places(key)
  BY DEF Places
<1>2. ASSUME NEW q \in Places(key)
      PROVE  \E m \in DOMAIN Searched(key) : \E j \in DOMAIN Searched(key)[m] :
               q = <<m, j>> /\ Searched(key)[m][j].id = key.action
  BY DEF Places
<1>3. ASSUME NEW q \in Places(key)
      PROVE  /\ q[1] \in Nat /\ q[2] \in Nat /\ q = <<q[1], q[2]>>
             /\ Before(p, q)
  <2>1. PICK m \in DOMAIN Searched(key) : \E j \in DOMAIN Searched(key)[m] :
          q = <<m, j>> /\ Searched(key)[m][j].id = key.action
    BY <1>2
  <2>2. PICK j \in DOMAIN Searched(key)[m] : q = <<m, j>> /\ Searched(key)[m][j].id = key.action
    BY <2>1
  <2>3. m \in Nat /\ j \in Nat /\ n \in Nat /\ i \in Nat
    OBVIOUS
  <2>4. m > n \/ (m = n /\ j >= i)
    BY <2>2
  <2> QED
    BY <2>2, <2>3, <2>4 DEF Before
<1>4. first \in Places(key) /\ \A r \in Places(key) : Before(first, r)
  BY <1>1, <1>3
<1>5. first = p
  <2> HIDE DEF first
  <2>1. /\ first[1] \in Nat /\ first[2] \in Nat /\ first = <<first[1], first[2]>>
        /\ Before(p, first) /\ Before(first, p)
    BY <1>1, <1>3, <1>4
  <2>2. n \in Nat /\ i \in Nat
    OBVIOUS
  <2>3. first[1] = n /\ first[2] = i
    BY <2>1, <2>2 DEF Before
  <2> QED
    BY <2>1, <2>3
<1>6. AccessGroup(key) = Searched(key)[first[1]][first[2]].mark
  BY <1>1, Zenon DEF AccessGroup
<1> HIDE DEF first
<1> QED
  BY <1>5, <1>6

LEMMA ElementsGroup == ASSUME IInv PROVE RouteHasTheElementsGroup
<1> USE DEF IInv
<1> SUFFICES ASSUME Rendered, NEW list \in Lists, NEW i \in DOMAIN list[1], list[1][i].url # Nil
             PROVE  AccessGroup(list[1][i].url) = list[1][i].mark
  BY DEF RouteHasTheElementsGroup
<1>1. PICK a : a = list[1][i]
  OBVIOUS
<1>2. PICK key : key = a.url
  OBVIOUS
<1>3. key.event = list[2] /\ key.column = list[3] /\ key.action = a.id
  BY <1>1, <1>2, ListedEntry DEF UrlsBound, KeysOf
<1>4. schema.actions \in [Kinds -> Seq(Action)] /\ schema.columns \in Seq(Column)
  BY DEF TypeOK, Schema
<1>5. ASSUME NEW k \in Kinds, list = <<schema.actions[k], k, Nil>>
      PROVE  AccessGroup(key) = a.mark
  <2>1. PICK actions : actions = schema.actions[k]
    OBVIOUS
  <2>2. actions \in Seq(Action) /\ i \in DOMAIN actions /\ a = actions[i]
    BY <1>1, <1>4, <1>5, <2>1
  <2>3. Searched(key) = <<actions>>
    BY <1>3, <1>5, <2>1, NamesAssumption DEF Searched
  <2>4. \A j \in 1 .. i - 1 : actions[j].id # a.id
    BY <1>1, <2>1, <2>2 DEF FirstBound
  <2>5. \A j \in DOMAIN actions : actions[j].id = key.action => j >= i
    BY <1>3, <2>2, <2>4
  <2>6. DOMAIN Searched(key) = {1} /\ Searched(key)[1] = actions
    BY <2>3
  <2>7. DOMAIN actions \subseteq Nat
    BY <2>2
  <2> QED
    BY <1>3, <2>2, <2>5, <2>6, <2>7, FirstPlace
<1>6. ASSUME NEW c \in Range(schema.columns), list = <<c.actions, "column", c.id>>
      PROVE  AccessGroup(key) = a.mark
  <2>1. PICK n \in DOMAIN schema.columns : c = schema.columns[n]
    BY RangeIndexed
  <2>2. i \in DOMAIN schema.columns[n].actions /\ a = schema.columns[n].actions[i]
    BY <1>1, <1>6, <2>1
  <2>3. key.event = "column" /\ key.column = schema.columns[n].id
    BY <1>3, <1>6, <2>1
  <2>4. /\ \A m \in 1 .. n - 1 : schema.columns[m].id # schema.columns[n].id
        /\ \A j \in 1 .. i - 1 : schema.columns[n].actions[j].id # a.id
    BY <1>1, <2>2 DEF FirstBound
  <2>5. PICK searched : searched = Searched(key)
    OBVIOUS
  <2>6. /\ DOMAIN searched = DOMAIN schema.columns
        /\ \A m \in DOMAIN schema.columns :
             searched[m] = IF schema.columns[m].id = schema.columns[n].id
                           THEN schema.columns[m].actions ELSE <<>>
    BY <2>3, <2>5 DEF Searched
  <2>7. \A m \in DOMAIN schema.columns : m \in Nat /\ schema.columns[m].actions \in Seq(Action)
    <3>1. \A m \in DOMAIN schema.columns : m \in Nat /\ schema.columns[m] \in Column
      BY <1>4
    <3> QED
      BY <3>1 DEF Column
  <2>8. /\ DOMAIN searched \subseteq Nat
        /\ \A m \in DOMAIN searched : DOMAIN searched[m] \subseteq Nat
    BY <2>6, <2>7
  <2>9. n \in DOMAIN searched /\ i \in DOMAIN searched[n] /\ searched[n][i] = a
    BY <2>2, <2>6
  <2>10. ASSUME NEW m \in DOMAIN searched, NEW j \in DOMAIN searched[m], searched[m][j].id = key.action
         PROVE  m > n \/ (m = n /\ j >= i)
    <3>1. schema.columns[m].id = schema.columns[n].id /\ searched[m] = schema.columns[m].actions
      BY <2>6
    <3>2. m \in Nat /\ n \in Nat /\ m >= 1 /\ m >= n
      BY <1>4, <2>4, <2>6, <3>1
    <3>3. CASE m = n
      <4>1. j \in Nat /\ i \in Nat /\ j >= 1
        BY <2>2, <2>7, <3>1, <3>3
      <4>2. schema.columns[n].actions[j].id = a.id
        BY <1>3, <2>10, <3>1, <3>3
      <4> QED
        BY <2>4, <3>3, <4>1, <4>2
    <3> QED
      BY <3>2, <3>3
  <2> QED
    BY <1>3, <2>5, <2>8, <2>9, <2>10, FirstPlace
<1> QED
  BY <1>1, <1>2, <1>5, <1>6 DEF Lists

\* The access group checked on the way to an action's URL is that of the element that
\* shows the URL, for all of the actions and columns with one id.
THEOREM RouteGroupIsTheElements == Spec => []RouteHasTheElementsGroup
BY InvariantKept, ElementsGroup, PTL
=============================================================================
