------------------------------ MODULE Callbacks ------------------------------
(***************************************************************************)
(* The handlers that outlive the event that made them: the answers to a    *)
(* dialog (engine/formengine/dialog_callbacks.go) and the callbacks of an  *)
(* opened page (navigation_callbacks.go of both engines).  They are kept   *)
(* in registries of the process, not in the page instance, and reached by  *)
(* URLs that the client keeps.  A URL names the page instance in its query *)
(* and the dialog or the callback in its path, so the request goes through *)
(* the instance manager like any event: this module runs on top of what    *)
(* InstanceLifecycle promises, which PageInstances implements.             *)
(*                                                                         *)
(* The client uses the URLs it was given, as often and as late as it       *)
(* likes, several at a time, and also joins the instance of one with the   *)
(* dialog or callback of another: nothing compares the two.                *)
(***************************************************************************)
EXTENDS Naturals

CONSTANTS
  Callers,    \* goroutines serving requests
  Ids,        \* page instances
  Keys,       \* page and owner pairs
  None,
  Handlers,   \* the functions passed as OpenOptions.Callback
  NameOf,     \* navigationCallbackName of each
  MaxShown    \* bound: dialogs with a handler shown in all

\* docs/user-guide.md:959: callbacks are named package-level functions.
ASSUME NamesAssumption ==
  \A h1, h2 \in Handlers : NameOf[h1] = NameOf[h2] => h1 = h2
ASSUME ShownAssumption == MaxShown \in Nat
ASSUME NoneAssumption == None \notin Callers

VARIABLES
  phase, key, admitted, running,   \* of InstanceLifecycle
  seq,        \* dialogCallbackSeq
  dialogs,    \* dialogCallbackHandlers: dialog id to handler; None if absent
  callbacks,  \* navigationCallbackHandlers: instance and name to handler, which may be
              \* a method value of the page
  shown,      \* how many dialogs were shown since the beginning, over restarts
  times,      \* times[n]: how often the handler of the n-th dialog has run
  links,      \* the callback URLs the client has been given, each with the handler it
              \* was given for, which the URL does not show
  pc,         \* where each request is
  job,        \* what it names
  called,     \* the handler it runs: whose page it works on, and which it is
  recorded    \* the URLs its RuntimeContext has collected

lifecycle == <<phase, key, admitted, running>>
registries == <<seq, dialogs, callbacks>>
history == <<shown, times>>
requests == <<pc, job, called, recorded>>
vars == <<lifecycle, registries, history, links, requests>>

Lifecycle == INSTANCE InstanceLifecycle WITH Affordable <- SUBSET Ids

Numbers == 1..MaxShown
Names == {NameOf[h] : h \in Handlers}
DialogHandler == [page : Ids, which : Numbers]
ChildHandler == [page : Ids, which : Handlers]
EventHandler == [page : Ids, which : {None}]
DialogRequest == [kind : {"dialog"}, id : Ids, dialog : Numbers]
ChildRequest == [kind : {"child"}, id : Ids, name : Names]
EventRequest == [kind : {"event"}, id : Ids]
Request == DialogRequest \cup ChildRequest \cup EventRequest
DialogLink == [to : DialogRequest, which : Numbers]
ChildLink == [to : ChildRequest, which : Handlers]

\* The handler the client was shown with a URL.
HandlerOf(link) == [page |-> link.to.id, which |-> link.which]

\* None is neither a handler nor a request.
ASSUME NoHandlerAssumption == None \notin DialogHandler \cup ChildHandler \cup EventHandler
ASSUME NoRequestAssumption == None \notin Request

TypeOK ==
  /\ seq \in 0..MaxShown
  /\ dialogs \in [Numbers -> DialogHandler \cup {None}]
  /\ callbacks \in [Ids \X Names -> ChildHandler \cup {None}]
  /\ shown \in 0..MaxShown
  /\ times \in [Numbers -> Nat]
  /\ links \subseteq DialogLink \cup ChildLink
  /\ pc \in [Callers -> {"idle", "waiting", "entered", "executing"}]
  /\ job \in [Callers -> Request \cup {None}]
  /\ called \in [Callers -> DialogHandler \cup ChildHandler \cup EventHandler \cup {None}]
  /\ recorded \in [Callers -> SUBSET (DialogLink \cup ChildLink)]

Init ==
  /\ Lifecycle!Init
  /\ seq = 0
  /\ dialogs = [d \in Numbers |-> None]
  /\ callbacks = [c \in Ids \X Names |-> None]
  /\ shown = 0
  /\ times = [n \in Numbers |-> 0]
  /\ links = {}
  /\ pc = [r \in Callers |-> "idle"]
  /\ job = [r \in Callers |-> None]
  /\ called = [r \in Callers |-> None]
  /\ recorded = [r \in Callers |-> {}]

-----------------------------------------------------------------------------
(* What the instance manager does for the requests.                        *)

\* A page is rendered, or an open instance closed, expired or swept.
InstancesChange ==
  /\ \/ \E id \in Ids, k \in Keys : Lifecycle!OpenInstance(id, k)
     \/ Lifecycle!CloseInstances
  /\ UNCHANGED <<registries, history, links, requests>>

\* The client sends an event of a rendered page, answers a dialog or returns from an
\* opened page, and Acquire lets it through: it looks at the instance and not at the
\* dialog or the callback, which may be any.
Begin(r) ==
  /\ pc[r] = "idle"
  /\ \E request \in Request :
       /\ Lifecycle!Admit(r, request.id)
       /\ job' = [job EXCEPT ![r] = request]
  /\ pc' = [pc EXCEPT ![r] = "waiting"]
  /\ UNCHANGED <<registries, history, links, called, recorded>>

\* Mutant: the dialog route has no mode, so its requests acquire no instance.
BugEnter(r) ==
  /\ pc[r] = "waiting"
  /\ IF job[r].kind = "dialog" THEN UNCHANGED lifecycle ELSE Lifecycle!Start(r, job[r].id)
  /\ pc' = [pc EXCEPT ![r] = "entered"]
  /\ UNCHANGED <<registries, history, links, job, called, recorded>>

Enter(r) ==
  /\ pc[r] = "waiting"
  /\ Lifecycle!Start(r, job[r].id)
  /\ pc' = [pc EXCEPT ![r] = "entered"]
  /\ UNCHANGED <<registries, history, links, job, called, recorded>>

\* The request is answered and the instance released.
Leave(r) ==
  /\ Lifecycle!Stop(r, job[r].id)
  /\ pc' = [pc EXCEPT ![r] = "idle"]
  /\ job' = [job EXCEPT ![r] = None]
  /\ called' = [called EXCEPT ![r] = None]
  /\ recorded' = [recorded EXCEPT ![r] = {}]

Execute(r, handler) ==
  /\ pc' = [pc EXCEPT ![r] = "executing"]
  /\ called' = [called EXCEPT ![r] = handler]
  /\ UNCHANGED <<lifecycle, links, job, recorded>>

\* Mutant: the dialog's handler is taken before the payload is decoded.
BugRefused(r) ==
  /\ pc[r] = "entered"
  /\ Leave(r)
  /\ dialogs' = IF job[r].kind = "dialog" THEN [dialogs EXCEPT ![job[r].dialog] = None] ELSE dialogs
  /\ UNCHANGED <<seq, callbacks, history, links>>

\* Not permitted, no such handler, or a body that does not decode: an error, and
\* the registries are as they were.
Refused(r) ==
  /\ pc[r] = "entered"
  /\ Leave(r)
  /\ UNCHANGED <<registries, history, links>>

-----------------------------------------------------------------------------
(* The handlers.                                                           *)

HandleEvent(r) ==
  /\ pc[r] = "entered"
  /\ job[r].kind = "event"
  /\ Execute(r, [page |-> job[r].id, which |-> None])
  /\ UNCHANGED <<registries, history>>

\* Mutant: Load where LoadAndDelete is meant.
BugHandleDialogCallback(r) ==
  /\ pc[r] = "entered"
  /\ job[r].kind = "dialog"
  /\ dialogs[job[r].dialog] # None
  /\ LET handler == dialogs[job[r].dialog] IN
       /\ Execute(r, handler)
       /\ times' = [times EXCEPT ![handler.which] = @ + 1]
  /\ UNCHANGED <<registries, shown>>

\* handleDialogCallback: the handler is removed as it is found, whose page ever it
\* works on.  When it is not there any more the request is Refused.
HandleDialogCallback(r) ==
  /\ pc[r] = "entered"
  /\ job[r].kind = "dialog"
  /\ dialogs[job[r].dialog] # None
  /\ LET handler == dialogs[job[r].dialog] IN
       /\ Execute(r, handler)
       /\ times' = [times EXCEPT ![handler.which] = @ + 1]
  /\ dialogs' = [dialogs EXCEPT ![job[r].dialog] = None]
  /\ UNCHANGED <<seq, callbacks, shown>>

\* HandleCallback: the handler stays registered.
HandleCallback(r) ==
  /\ pc[r] = "entered"
  /\ job[r].kind = "child"
  /\ callbacks[<<job[r].id, job[r].name>>] # None
  /\ Execute(r, callbacks[<<job[r].id, job[r].name>>])
  /\ UNCHANGED <<registries, history>>

\* Mutant: an id that is not in use is given again.
BugNextDialog == {d \in Numbers : dialogs[d] = None /\ \A e \in 1..(d - 1) : dialogs[e] # None}

\* Mutant: the counter's value before the increment.
BugPreIncrement == {seq}

\* The id bindDialogHandler gives: the counter is incremented atomically.
NextDialog == {seq + 1}

\* ShowDialog, ShowYesNo or ShowOKCancel with a handler.  A dialog's own handler
\* can do so too, through the RuntimeContext of the event that showed the dialog.
ShowDialog(r) ==
  /\ pc[r] = "executing"
  /\ shown < MaxShown
  /\ \E d \in NextDialog :
       /\ dialogs' = [dialogs EXCEPT ![d] = [page |-> called[r].page, which |-> shown + 1]]
       /\ recorded' = [recorded EXCEPT ![r] = @ \cup
            {[to |-> [kind |-> "dialog", id |-> called[r].page, dialog |-> d], which |-> shown + 1]}]
  /\ seq' = seq + 1
  /\ shown' = shown + 1
  /\ UNCHANGED <<lifecycle, callbacks, times, links, pc, job, called>>

\* The entries that registering a name for an instance sets.
Registered(id, name) == {<<id, name>>}

\* OpenDialog, OpenTab or OpenPage with a callback.
OpenChild(r) ==
  /\ pc[r] = "executing"
  /\ \E h \in Handlers :
       LET page == called[r].page IN
       /\ callbacks' = [c \in DOMAIN callbacks |->
            IF c \in Registered(page, NameOf[h]) THEN [page |-> page, which |-> h] ELSE callbacks[c]]
       /\ recorded' = [recorded EXCEPT ![r] = @ \cup
            {[to |-> [kind |-> "child", id |-> page, name |-> NameOf[h]], which |-> h]}]
  /\ UNCHANGED <<lifecycle, seq, dialogs, history, links, pc, job, called>>

\* What the RuntimeResult carries: a dialog's answer gets an empty one.
Result(r) == IF job[r].kind = "dialog" THEN {} ELSE recorded[r]

\* The handler succeeds and the client gets the result.
Answered(r) ==
  /\ pc[r] = "executing"
  /\ links' = links \cup Result(r)
  /\ Leave(r)
  /\ UNCHANGED <<registries, history>>

\* The handler fails or panics, or the client does not get the answer.
NotAnswered(r) ==
  /\ pc[r] = "executing"
  /\ Leave(r)
  /\ UNCHANGED <<registries, history, links>>

\* The process is restarted, and counts its dialogs from one again.
Restart ==
  /\ Lifecycle!Crash
  /\ seq' = 0
  /\ dialogs' = [d \in Numbers |-> None]
  /\ callbacks' = [c \in DOMAIN callbacks |-> None]
  /\ pc' = [r \in Callers |-> "idle"]
  /\ job' = [r \in Callers |-> None]
  /\ called' = [r \in Callers |-> None]
  /\ recorded' = [r \in Callers |-> {}]
  /\ UNCHANGED <<history, links>>

Next ==
  \/ \E r \in Callers :
       \/ Begin(r) \/ Enter(r) \/ Refused(r)
       \/ HandleEvent(r) \/ HandleDialogCallback(r) \/ HandleCallback(r)
       \/ ShowDialog(r) \/ OpenChild(r) \/ Answered(r) \/ NotAnswered(r)
  \/ InstancesChange
  \/ Restart

Spec == Init /\ [][Next]_vars

-----------------------------------------------------------------------------
(* Properties.                                                             *)

\* A request that names what a URL of the client names runs the handler the client was
\* shown with it, on the page that showed it: never that of another dialog or instance,
\* though dialog ids start again after a restart, clients keep old URLs, and others may
\* send the same number.  Events and callbacks work on the page they name.
RightHandler ==
  \A r \in Callers :
    pc[r] = "executing" =>
      /\ job[r].kind # "dialog" => called[r].page = job[r].id
      /\ \A link \in links : link.to = job[r] => called[r] = HandlerOf(link)

\* A dialog is answered at most once, whatever the client repeats or confuses.
AnsweredOnce == \A n \in Numbers : times[n] <= 1

\* No two handlers work on one page at the same time, those of events, dialogs and
\* callbacks together (docs/page-instances.md:148), as long as the requests name the page
\* their handler works on: a dialog is looked up by its number alone, and one that is asked
\* for with another page runs beside what runs on its own.
PageSerialized ==
  \A r1, r2 \in Callers :
    /\ r1 # r2 /\ pc[r1] = "executing" /\ pc[r2] = "executing"
    /\ called[r1].page = job[r1].id /\ called[r2].page = job[r2].id
    => called[r1].page # called[r2].page

\* As long as its page is open, a dialog whose handler has not run and a child it has
\* opened can be answered: no bad payload, failing handler, other dialog or other
\* page takes the handler away without running it.
NoHandlerLost ==
  \A link \in links :
    phase[link.to.id] = "open" =>
      IF link.to.kind = "dialog"
      THEN times[link.which] = 0 => dialogs[link.to.dialog] = HandlerOf(link)
      ELSE callbacks[<<link.to.id, link.to.name>>] = HandlerOf(link)

\* docs/client-events.md:1118 says the answer to a dialog is a RuntimeResult to be
\* processed like that of a form event; what its handler recorded is not in it.
DialogEffectsReported ==
  [][\A r \in Callers : Answered(r) => recorded[r] \subseteq links']_vars
=============================================================================
