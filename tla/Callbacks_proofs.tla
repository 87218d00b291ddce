--------------------------- MODULE Callbacks_proofs ---------------------------
(***************************************************************************)
(* Proofs about Callbacks, for every number of requests, instances,        *)
(* callbacks and dialogs, and any number of restarts.                      *)
(***************************************************************************)
EXTENDS Callbacks, TLAPS

\* Whoever follows the link finds its handler, or finds that the dialog was answered.
Answerable(link) ==
  /\ link.to.kind = "dialog" =>
       /\ link.to.dialog <= seq /\ link.which <= shown
       /\ dialogs[link.to.dialog] \in {HandlerOf(link), None}
       /\ times[link.which] = 0 => dialogs[link.to.dialog] = HandlerOf(link)
  /\ link.to.kind = "child" =>
       /\ link.to.name = NameOf[link.which]
       /\ callbacks[<<link.to.id, link.to.name>>] = HandlerOf(link)

Born(id) == phase[id] # "unborn"

\* The links to the instances a client may name now, to those that requests under way
\* name, and the links about to be given: a restart ends the others, since instances
\* are never opened again.
LinksAnswerable ==
  /\ \A link \in links : Born(link.to.id) /\ (phase[link.to.id] = "open" => Answerable(link))
  /\ \A r \in Callers :
       /\ pc[r] # "idle" =>
            /\ Born(job[r].id)
            /\ \A link \in links : link.to.id = job[r].id => Answerable(link)
       /\ \A link \in recorded[r] : Born(link.to.id) /\ Answerable(link)

\* A registered dialog has a number that was given since the restart and a handler of
\* its own, that has not run.
DialogsFresh ==
  /\ seq <= shown
  /\ \A n \in Numbers : times[n] <= 1 /\ (n > shown => times[n] = 0)
  /\ \A d \in Numbers : dialogs[d] # None =>
       /\ d <= seq
       /\ dialogs[d].which <= shown
       /\ times[dialogs[d].which] = 0
       /\ \A e \in Numbers : dialogs[e] # None /\ dialogs[e].which = dialogs[d].which => e = d

\* Handlers work on pages that were opened, callbacks on the page they are kept for.
HandlersPlaced ==
  /\ \A d \in Numbers : dialogs[d] # None => Born(dialogs[d].page)
  /\ \A id \in Ids, name \in Names : callbacks[<<id, name>>] # None =>
       callbacks[<<id, name>>].page = id /\ NameOf[callbacks[<<id, name>>].which] = name
  /\ \A r \in Callers : pc[r] = "executing" => Born(called[r].page)

Known == links \cup UNION {recorded[r] : r \in Callers}

\* A request past Start runs alone on the instance it names.  The handler it runs is that
\* of every link with the URL it was sent to, and will be that of those still to be given:
\* a number is not given again, and a name means one function.
RequestsRun ==
  \A r \in Callers :
    /\ pc[r] # "idle" => job[r] # None
    /\ pc[r] \in {"entered", "executing"} => running[job[r].id] = r
    /\ pc[r] = "executing" =>
         /\ called[r] # None
         /\ job[r].kind # "dialog" => called[r].page = job[r].id
         /\ job[r].kind = "dialog" => job[r].dialog <= seq
         /\ job[r].kind = "child" => called[r].which \in Handlers /\ NameOf[called[r].which] = job[r].name
         /\ \A link \in Known : link.to = job[r] => called[r] = HandlerOf(link)

\* The type of what the instance manager keeps, as far as it is used here.
LifecycleTypeOK ==
  /\ phase \in [Ids -> {"unborn", "open", "closed"}]
  /\ running \in [Ids -> Callers \cup {None}]

IInv == TypeOK /\ LifecycleTypeOK /\ RequestsRun /\ DialogsFresh /\ HandlersPlaced /\ LinksAnswerable
-----------------------------------------------------------------------------
(* Type correctness.                                                       *)

LEMMA CallbacksInit == Init => IInv
<1> SUFFICES ASSUME Init PROVE IInv
  OBVIOUS
<1> USE ShownAssumption, NoneAssumption
<1>1. TypeOK /\ LifecycleTypeOK
  BY DEF Init, TypeOK, LifecycleTypeOK, Lifecycle!Init, Numbers
<1>2. RequestsRun /\ DialogsFresh /\ HandlersPlaced /\ LinksAnswerable
  BY DEF Init, RequestsRun, DialogsFresh, HandlersPlaced, LinksAnswerable, Numbers
<1> QED
  BY <1>1, <1>2 DEF IInv

\* Opened instances were unborn, and nothing is born twice.
LEMMA LifecycleStep ==
  ASSUME LifecycleTypeOK, [Next]_vars
  PROVE  /\ LifecycleTypeOK'
         /\ \A id \in Ids : Born(id) => Born(id)' /\ (phase'[id] = "open" => phase[id] = "open")
<1> USE NoneAssumption DEF LifecycleTypeOK, Born
<1>1. ASSUME NEW id \in Ids, NEW k \in Keys, Lifecycle!OpenInstance(id, k)
      PROVE  /\ LifecycleTypeOK'
             /\ \A i \in Ids : Born(i) => Born(i)' /\ (phase'[i] = "open" => phase[i] = "open")
  BY <1>1 DEF Lifecycle!OpenInstance, Lifecycle!Closing, Lifecycle!Open
<1>2. ASSUME Lifecycle!CloseInstances \/ Lifecycle!Crash
      PROVE  /\ LifecycleTypeOK'
             /\ \A i \in Ids : Born(i) => Born(i)' /\ (phase'[i] = "open" => phase[i] = "open")
  BY <1>2 DEF Lifecycle!CloseInstances, Lifecycle!Crash, Lifecycle!Closing, Lifecycle!Open
<1>3. ASSUME NEW r \in Callers, NEW id, Lifecycle!Admit(r, id) \/ Lifecycle!Start(r, id) \/ Lifecycle!Stop(r, id)
      PROVE  /\ LifecycleTypeOK'
             /\ \A i \in Ids : Born(i) => Born(i)' /\ (phase'[i] = "open" => phase[i] = "open")
  BY <1>3 DEF Lifecycle!Admit, Lifecycle!Start, Lifecycle!Stop
<1>4. ASSUME UNCHANGED lifecycle
      PROVE  /\ LifecycleTypeOK'
             /\ \A i \in Ids : Born(i) => Born(i)' /\ (phase'[i] = "open" => phase[i] = "open")
  BY <1>4 DEF lifecycle
<1> QED
  BY <1>1, <1>2, <1>3, <1>4
     DEF Next, vars, InstancesChange, Begin, Enter, Refused, HandleEvent, HandleDialogCallback,
         HandleCallback, ShowDialog, OpenChild, Answered, NotAnswered, Restart, Execute, Leave

\* What the type invariant says of a request that is past Start.
LEMMA JobsTyped ==
  ASSUME TypeOK, RequestsRun, NEW r \in Callers, pc[r] # "idle"
  PROVE  /\ job[r] \in Request
         /\ job[r].id \in Ids
         /\ job[r].kind = "dialog" => job[r] \in DialogRequest /\ job[r].dialog \in Numbers
         /\ job[r].kind = "child" => job[r] \in ChildRequest /\ job[r].name \in Names
<1>1. job[r] \in Request
  BY DEF TypeOK, RequestsRun
<1> QED
  BY <1>1 DEF Request, DialogRequest, ChildRequest, EventRequest

\* And of the handler it runs.
LEMMA CalledTyped ==
  ASSUME TypeOK, RequestsRun, NEW r \in Callers, pc[r] = "executing"
  PROVE  /\ called[r].page \in Ids
         /\ called[r] = [page |-> called[r].page, which |-> called[r].which]
<1>1. called[r] \in DialogHandler \cup ChildHandler \cup EventHandler
  BY DEF TypeOK, RequestsRun
<1> QED
  BY <1>1 DEF DialogHandler, ChildHandler, EventHandler

LEMMA LinksTyped ==
  ASSUME TypeOK, NEW link \in Known
  PROVE  /\ link \in DialogLink \cup ChildLink
         /\ link.to \in DialogRequest \cup ChildRequest
         /\ link.to.id \in Ids
         /\ link.to.kind \in {"dialog", "child"}
         /\ link.to.kind = "dialog" => link.to.dialog \in Numbers /\ link.which \in Numbers
         /\ link.to.kind = "child" => link.to.name \in Names /\ link.which \in Handlers
<1>1. link \in DialogLink \cup ChildLink
  BY DEF TypeOK, Known
<1> QED
  BY <1>1 DEF DialogLink, ChildLink, DialogRequest, ChildRequest

\* What a handler records: one link more, to the page it works on.
LEMMA DialogRecorded ==
  ASSUME TypeOK, RequestsRun, DialogsFresh, NEW r \in Callers, ShowDialog(r)
  PROVE  \E link \in DialogLink :
           /\ link.to = [kind |-> "dialog", id |-> called[r].page, dialog |-> seq + 1]
           /\ link.which = shown + 1
           /\ recorded' = [recorded EXCEPT ![r] = @ \cup {link}]
           /\ dialogs' = [dialogs EXCEPT ![seq + 1] = HandlerOf(link)]
           /\ HandlerOf(link) \in DialogHandler
           /\ seq + 1 \in Numbers /\ shown + 1 \in Numbers
<1> USE ShownAssumption
<1>1. called[r].page \in Ids
  BY CalledTyped DEF ShowDialog
<1>2. seq + 1 \in Numbers /\ shown + 1 \in Numbers
  BY DEF ShowDialog, DialogsFresh, Numbers, TypeOK
<1> DEFINE request == [kind |-> "dialog", id |-> called[r].page, dialog |-> seq + 1]
           link == [to |-> request, which |-> shown + 1]
<1>3. request \in DialogRequest
  BY <1>1, <1>2 DEF DialogRequest
<1>4. link \in DialogLink
  BY <1>2, <1>3 DEF DialogLink
<1>5. HandlerOf(link) = [page |-> called[r].page, which |-> shown + 1]
  BY DEF HandlerOf
<1>6. HandlerOf(link) \in DialogHandler
  BY <1>1, <1>2, <1>5 DEF DialogHandler
<1>7. /\ recorded' = [recorded EXCEPT ![r] = @ \cup {link}]
      /\ dialogs' = [dialogs EXCEPT ![seq + 1] = HandlerOf(link)]
  BY <1>5 DEF ShowDialog, NextDialog
<1>8. link.to = request /\ link.which = shown + 1
  OBVIOUS
<1> HIDE DEF link, request
<1>9. request = [kind |-> "dialog", id |-> called[r].page, dialog |-> seq + 1]
  BY DEF request
<1> QED
  BY <1>2, <1>4, <1>6, <1>7, <1>8, <1>9

LEMMA ChildRecorded ==
  ASSUME TypeOK, RequestsRun, NEW r \in Callers, OpenChild(r)
  PROVE  \E link \in ChildLink :
           /\ link.to = [kind |-> "child", id |-> called[r].page, name |-> NameOf[link.which]]
           /\ link.which \in Handlers
           /\ recorded' = [recorded EXCEPT ![r] = @ \cup {link}]
           /\ callbacks' = [c \in Ids \X Names |->
                IF c = <<called[r].page, NameOf[link.which]>> THEN HandlerOf(link) ELSE callbacks[c]]
           /\ HandlerOf(link) \in ChildHandler
<1>1. called[r].page \in Ids
  BY CalledTyped DEF OpenChild
<1>2. PICK h \in Handlers :
        /\ callbacks' = [c \in DOMAIN callbacks |->
             IF c \in Registered(called[r].page, NameOf[h])
             THEN [page |-> called[r].page, which |-> h] ELSE callbacks[c]]
        /\ recorded' = [recorded EXCEPT ![r] = @ \cup
             {[to |-> [kind |-> "child", id |-> called[r].page, name |-> NameOf[h]], which |-> h]}]
  BY DEF OpenChild
<1> DEFINE request == [kind |-> "child", id |-> called[r].page, name |-> NameOf[h]]
           link == [to |-> request, which |-> h]
<1>3. request \in ChildRequest
  BY <1>1 DEF ChildRequest, Names
<1>4. link \in ChildLink /\ link.which = h /\ link.to = request
  BY <1>3 DEF ChildLink
<1>5. HandlerOf(link) = [page |-> called[r].page, which |-> h]
  BY DEF HandlerOf
<1>6. HandlerOf(link) \in ChildHandler
  BY <1>1, <1>5 DEF ChildHandler
<1>7. recorded' = [recorded EXCEPT ![r] = @ \cup {link}]
  BY <1>2
<1>8. callbacks' = [c \in Ids \X Names |->
        IF c = <<called[r].page, NameOf[h]>> THEN HandlerOf(link) ELSE callbacks[c]]
  BY <1>2, <1>5 DEF Registered, TypeOK
<1>9. link.to = [kind |-> "child", id |-> called[r].page, name |-> NameOf[link.which]]
  OBVIOUS
<1> HIDE DEF link, request
<1> QED
  BY <1>4, <1>6, <1>7, <1>8, <1>9

LEMMA CallbacksTypes == TypeOK /\ RequestsRun /\ DialogsFresh /\ [Next]_vars => TypeOK'
<1> SUFFICES ASSUME TypeOK, RequestsRun, DialogsFresh, [Next]_vars PROVE TypeOK'
  OBVIOUS
<1> USE ShownAssumption DEF TypeOK
<1>1. CASE InstancesChange
  BY <1>1 DEF InstancesChange, registries, history, requests
<1>2. ASSUME NEW r \in Callers, Begin(r) PROVE TypeOK'
  BY <1>2 DEF Begin, registries, history
<1>3. ASSUME NEW r \in Callers, Enter(r) PROVE TypeOK'
  BY <1>3 DEF Enter, registries, history
<1>4. ASSUME NEW r \in Callers, Refused(r) \/ NotAnswered(r) PROVE TypeOK'
  BY <1>4 DEF Refused, NotAnswered, Leave, registries, history
<1>5. ASSUME NEW r \in Callers, HandleEvent(r) PROVE TypeOK'
  <2>1. [page |-> job[r].id, which |-> None] \in EventHandler
    BY <1>5, JobsTyped DEF HandleEvent, EventHandler
  <2> QED
    BY <1>5, <2>1 DEF HandleEvent, Execute, registries, history
<1>6. ASSUME NEW r \in Callers, HandleDialogCallback(r) PROVE TypeOK'
  <2>1. job[r].dialog \in Numbers
    BY <1>6, JobsTyped DEF HandleDialogCallback
  <2>2. dialogs[job[r].dialog] \in DialogHandler
    BY <1>6, <2>1 DEF HandleDialogCallback
  <2>3. dialogs[job[r].dialog].which \in Numbers
    BY <2>2 DEF DialogHandler
  <2> QED
    BY <1>6, <2>1, <2>2, <2>3 DEF HandleDialogCallback, Execute
<1>7. ASSUME NEW r \in Callers, HandleCallback(r) PROVE TypeOK'
  <2>1. job[r].id \in Ids /\ job[r].name \in Names
    BY <1>7, JobsTyped DEF HandleCallback
  <2>2. callbacks[<<job[r].id, job[r].name>>] \in ChildHandler
    BY <1>7, <2>1 DEF HandleCallback
  <2> QED
    BY <1>7, <2>2 DEF HandleCallback, Execute, registries, history
<1>8. ASSUME NEW r \in Callers, ShowDialog(r) PROVE TypeOK'
  <2>1. PICK link \in DialogLink :
          /\ recorded' = [recorded EXCEPT ![r] = @ \cup {link}]
          /\ dialogs' = [dialogs EXCEPT ![seq + 1] = HandlerOf(link)]
          /\ HandlerOf(link) \in DialogHandler
          /\ seq + 1 \in Numbers /\ shown + 1 \in Numbers
    BY <1>8, DialogRecorded
  <2>2. /\ seq' = seq + 1 /\ shown' = shown + 1
        /\ UNCHANGED <<callbacks, times, links, pc, job, called>>
    BY <1>8 DEF ShowDialog
  <2> QED
    BY <2>1, <2>2 DEF Numbers
<1>9. ASSUME NEW r \in Callers, OpenChild(r) PROVE TypeOK'
  <2>1. PICK link \in ChildLink :
          /\ recorded' = [recorded EXCEPT ![r] = @ \cup {link}]
          /\ callbacks' = [c \in Ids \X Names |->
                IF c = <<called[r].page, NameOf[link.which]>> THEN HandlerOf(link) ELSE callbacks[c]]
          /\ HandlerOf(link) \in ChildHandler
    BY <1>9, ChildRecorded
  <2>2. UNCHANGED <<seq, dialogs, shown, times, links, pc, job, called>>
    BY <1>9 DEF OpenChild, history
  <2> QED
    BY <2>1, <2>2
<1>10. ASSUME NEW r \in Callers, Answered(r) PROVE TypeOK'
  BY <1>10 DEF Answered, Result, Leave, registries, history
<1>11. CASE Restart
  BY <1>11 DEF Restart, history
<1>12. CASE UNCHANGED vars
  BY <1>12 DEF vars, registries, history, requests
<1> QED
  BY <1>1, <1>2, <1>3, <1>4, <1>5, <1>6, <1>7, <1>8, <1>9, <1>10, <1>11, <1>12 DEF Next

-----------------------------------------------------------------------------
(* The requests.                                                           *)

LEMMA CallbacksRequests ==
  /\ TypeOK /\ LifecycleTypeOK /\ RequestsRun /\ DialogsFresh /\ HandlersPlaced /\ LinksAnswerable
  /\ [Next]_vars
  => RequestsRun'
<1> SUFFICES ASSUME TypeOK, LifecycleTypeOK, RequestsRun, DialogsFresh, HandlersPlaced,
                    LinksAnswerable, [Next]_vars
             PROVE  RequestsRun'
  OBVIOUS
<1> USE NoneAssumption DEF HandlerOf, Known
<1>1. CASE InstancesChange
  BY <1>1 DEF InstancesChange, RequestsRun, registries, requests, Lifecycle!OpenInstance,
     Lifecycle!CloseInstances
<1>2. ASSUME NEW r \in Callers, Begin(r) PROVE RequestsRun'
  <2>1. PICK request \in Request :
          Lifecycle!Admit(r, request.id) /\ job' = [job EXCEPT ![r] = request]
    BY <1>2 DEF Begin
  <2>2. job'[r] # None
    BY <1>2, <2>1, NoRequestAssumption DEF TypeOK
  <2> QED
    BY <1>2, <2>1, <2>2 DEF Begin, RequestsRun, TypeOK, Lifecycle!Admit, registries
<1>3. ASSUME NEW r \in Callers, Enter(r) PROVE RequestsRun'
  BY <1>3, JobsTyped DEF Enter, RequestsRun, TypeOK, Lifecycle!Start, LifecycleTypeOK, registries
<1>4. ASSUME NEW r \in Callers, Leave(r), links' \subseteq links \cup recorded[r], UNCHANGED registries
      PROVE  RequestsRun'
  <2>1. Known' \subseteq Known
    BY <1>4 DEF Leave, TypeOK
  <2> HIDE DEF Known
  <2> QED
    BY <1>4, <2>1, JobsTyped DEF Leave, RequestsRun, TypeOK, Lifecycle!Stop, LifecycleTypeOK, registries
<1>5. ASSUME NEW r \in Callers, HandleEvent(r) PROVE RequestsRun'
  <2>1. called'[r] # None /\ called'[r].page = job[r].id
    BY <1>5, JobsTyped, NoHandlerAssumption DEF HandleEvent, Execute, TypeOK, EventHandler
  <2>2. \A link \in Known : link.to # job[r]
    BY <1>5, LinksTyped DEF HandleEvent
  <2>3. Known' = Known
    BY <1>5 DEF HandleEvent, Execute
  <2> HIDE DEF Known
  <2> QED
    BY <1>5, <2>1, <2>2, <2>3 DEF HandleEvent, Execute, RequestsRun, TypeOK, lifecycle, registries
<1>6. ASSUME NEW r \in Callers, HandleDialogCallback(r) PROVE RequestsRun'
  <2>1. job[r].dialog \in Numbers
    BY <1>6, JobsTyped DEF HandleDialogCallback
  <2>2. job[r].dialog <= seq
    BY <1>6, <2>1 DEF HandleDialogCallback, DialogsFresh
  <2>3. \A link \in Known : link.to = job[r] => Answerable(link)
    BY <1>6 DEF HandleDialogCallback, LinksAnswerable
  <2>4. \A link \in Known : link.to = job[r] => dialogs[job[r].dialog] = HandlerOf(link)
    BY <1>6, <2>3 DEF HandleDialogCallback, Answerable
  <2>5. Known' = Known
    BY <1>6 DEF HandleDialogCallback, Execute
  <2> HIDE DEF Known
  <2> QED
    BY <1>6, <2>2, <2>4, <2>5 DEF HandleDialogCallback, Execute, RequestsRun, TypeOK, lifecycle
<1>7. ASSUME NEW r \in Callers, HandleCallback(r) PROVE RequestsRun'
  <2> DEFINE handler == callbacks[<<job[r].id, job[r].name>>]
  <2>1. job[r].id \in Ids /\ job[r].name \in Names
    BY <1>7, JobsTyped DEF HandleCallback
  <2>2. handler # None /\ handler.page = job[r].id /\ NameOf[handler.which] = job[r].name
    BY <1>7, <2>1 DEF HandleCallback, HandlersPlaced
  <2>3. handler.which \in Handlers
    BY <2>1, <2>2 DEF TypeOK, ChildHandler
  <2>4. \A link \in Known : link.to = job[r] => handler = HandlerOf(link)
    BY <1>7 DEF HandleCallback, LinksAnswerable, Answerable
  <2>5. Known' = Known
    BY <1>7 DEF HandleCallback, Execute
  <2>6. called' = [called EXCEPT ![r] = handler]
    BY <1>7 DEF HandleCallback, Execute
  <2> HIDE DEF Known, handler
  <2> QED
    BY <1>7, <2>2, <2>3, <2>4, <2>5, <2>6
       DEF HandleCallback, Execute, RequestsRun, TypeOK, lifecycle, registries
<1>8. ASSUME NEW r \in Callers, ShowDialog(r) PROVE RequestsRun'
  <2>1. PICK link \in DialogLink :
          /\ link.to = [kind |-> "dialog", id |-> called[r].page, dialog |-> seq + 1]
          /\ recorded' = [recorded EXCEPT ![r] = @ \cup {link}]
    BY <1>8, DialogRecorded
  <2>2. links' = links /\ seq' = seq + 1 /\ seq \in Nat /\ UNCHANGED <<lifecycle, pc, job, called>>
    BY <1>8 DEF ShowDialog, TypeOK
  <2>3. Known' \subseteq Known \cup {link}
    BY <2>1, <2>2 DEF TypeOK
  <2>4. \A q \in Callers : pc[q] = "executing" /\ job[q].kind = "dialog" =>
          job[q].dialog \in Nat /\ job[q].dialog <= seq /\ job[q] # link.to
    BY <2>1, <2>2, JobsTyped DEF RequestsRun, Numbers
  <2>5. link.to.kind = "dialog"
    BY <2>1
  <2> HIDE DEF Known
  <2>6. \A q \in Callers : pc[q] = "executing" => job[q] # link.to
    BY <2>4, <2>5
  <2> QED
    BY <2>2, <2>3, <2>4, <2>6 DEF RequestsRun, lifecycle
<1>9. ASSUME NEW r \in Callers, OpenChild(r) PROVE RequestsRun'
  <2>1. PICK link \in ChildLink :
          /\ link.to = [kind |-> "child", id |-> called[r].page, name |-> NameOf[link.which]]
          /\ link.which \in Handlers
          /\ recorded' = [recorded EXCEPT ![r] = @ \cup {link}]
    BY <1>9, ChildRecorded
  <2>2. links' = links /\ UNCHANGED <<lifecycle, seq, pc, job, called>>
    BY <1>9 DEF OpenChild
  <2>3. Known' \subseteq Known \cup {link}
    BY <2>1, <2>2 DEF TypeOK
  <2>4. ASSUME NEW q \in Callers, pc[q] = "executing", job[q] = link.to
        PROVE  called[q] = HandlerOf(link)
    <3>1. called[q].page = link.to.id /\ called[q].which \in Handlers /\ NameOf[called[q].which] = NameOf[link.which]
      BY <2>1, <2>4 DEF RequestsRun
    <3>2. called[q].which = link.which
      BY <2>1, <3>1, NamesAssumption
    <3> QED
      BY <2>4, <3>1, <3>2, CalledTyped
  <2> HIDE DEF Known, HandlerOf
  <2> QED
    BY <2>2, <2>3, <2>4 DEF RequestsRun, lifecycle
<1>10. CASE Restart
  BY <1>10 DEF Restart, RequestsRun
<1>11. CASE UNCHANGED vars
  BY <1>11 DEF vars, requests, registries, lifecycle, RequestsRun
<1>12. ASSUME NEW r \in Callers, Refused(r) \/ Answered(r) \/ NotAnswered(r) PROVE RequestsRun'
  BY <1>4, <1>12 DEF Refused, Answered, NotAnswered, Result
<1> QED
  BY <1>1, <1>2, <1>3, <1>5, <1>6, <1>7, <1>8, <1>9, <1>10, <1>11, <1>12 DEF Next

LEMMA CallbacksPlaced ==
  ASSUME TypeOK, LifecycleTypeOK, RequestsRun, DialogsFresh, HandlersPlaced, LinksAnswerable, [Next]_vars
  PROVE  HandlersPlaced'
<1> USE DEF Born
<1>1. \A id \in Ids : Born(id) => phase'[id] # "unborn"
  BY LifecycleStep
<1>2. /\ \A d \in Numbers : dialogs[d] # None => dialogs[d].page \in Ids /\ phase'[dialogs[d].page] # "unborn"
      /\ \A r \in Callers : pc[r] = "executing" => called[r].page \in Ids /\ phase'[called[r].page] # "unborn"
  BY <1>1, CalledTyped DEF HandlersPlaced, TypeOK, DialogHandler
<1>3. ASSUME UNCHANGED <<dialogs, callbacks>>, \A r \in Callers : pc'[r] = "executing" => phase'[called'[r].page] # "unborn"
      PROVE  HandlersPlaced'
  BY <1>2, <1>3 DEF HandlersPlaced
<1>4. ASSUME NEW r \in Callers, HandleEvent(r) \/ HandleCallback(r) PROVE HandlersPlaced'
  <2>1. called'[r].page = job[r].id /\ phase'[job[r].id] # "unborn" /\ UNCHANGED <<dialogs, callbacks>>
    BY <1>1, <1>4, JobsTyped
       DEF HandleEvent, HandleCallback, Execute, registries, LinksAnswerable, HandlersPlaced, TypeOK
  <2>2. \A q \in Callers \ {r} : pc'[q] = pc[q] /\ called'[q] = called[q]
    BY <1>4 DEF HandleEvent, HandleCallback, Execute, TypeOK
  <2> QED
    BY <1>2, <1>3, <2>1, <2>2
<1>5. ASSUME NEW r \in Callers, HandleDialogCallback(r) PROVE HandlersPlaced'
  <2>1. job[r].dialog \in Numbers
    BY <1>5, JobsTyped DEF HandleDialogCallback
  <2>2. /\ phase'[called'[r].page] # "unborn" /\ callbacks' = callbacks
        /\ \A d \in Numbers : dialogs'[d] # None => dialogs'[d] = dialogs[d]
    BY <1>2, <1>5, <2>1 DEF HandleDialogCallback, Execute, TypeOK
  <2>3. \A q \in Callers \ {r} : pc'[q] = pc[q] /\ called'[q] = called[q]
    BY <1>5 DEF HandleDialogCallback, Execute, TypeOK
  <2> QED
    BY <1>2, <2>2, <2>3 DEF HandlersPlaced
<1>6. ASSUME NEW r \in Callers, ShowDialog(r) PROVE HandlersPlaced'
  <2>1. PICK link \in DialogLink :
          /\ link.to = [kind |-> "dialog", id |-> called[r].page, dialog |-> seq + 1]
          /\ dialogs' = [dialogs EXCEPT ![seq + 1] = HandlerOf(link)]
    BY <1>6, DialogRecorded
  <2>2. HandlerOf(link).page = called[r].page
    BY <2>1 DEF HandlerOf
  <2>3. \A d \in Numbers : dialogs'[d] \in {dialogs[d], HandlerOf(link)}
    BY <2>1 DEF TypeOK
  <2>4. pc[r] = "executing" /\ UNCHANGED <<callbacks, pc, called>>
    BY <1>6 DEF ShowDialog
  <2> QED
    BY <1>2, <2>2, <2>3, <2>4 DEF HandlersPlaced
<1>7. ASSUME NEW r \in Callers, OpenChild(r) PROVE HandlersPlaced'
  <2>1. PICK link \in ChildLink :
          /\ link.to = [kind |-> "child", id |-> called[r].page, name |-> NameOf[link.which]]
          /\ callbacks' = [c \in Ids \X Names |->
               IF c = <<called[r].page, NameOf[link.which]>> THEN HandlerOf(link) ELSE callbacks[c]]
    BY <1>7, ChildRecorded
  <2>2. HandlerOf(link).page = called[r].page /\ HandlerOf(link).which = link.which
    BY <2>1 DEF HandlerOf
  <2>3. UNCHANGED <<dialogs, pc, called>>
    BY <1>7 DEF OpenChild
  <2> QED
    BY <1>2, <2>1, <2>2, <2>3 DEF HandlersPlaced
<1>8. ASSUME NEW r \in Callers, Begin(r) \/ Enter(r) \/ Refused(r) \/ Answered(r) \/ NotAnswered(r)
      PROVE  HandlersPlaced'
  <2>1. UNCHANGED <<dialogs, callbacks>> /\ pc'[r] # "executing"
    BY <1>8 DEF Begin, Enter, Refused, Answered, NotAnswered, Leave, registries, TypeOK
  <2>2. \A q \in Callers \ {r} : pc'[q] = pc[q] /\ called'[q] = called[q]
    BY <1>8 DEF Begin, Enter, Refused, Answered, NotAnswered, Leave, TypeOK
  <2> QED
    BY <1>2, <1>3, <2>1, <2>2
<1>9. CASE Restart
  BY <1>9 DEF Restart, HandlersPlaced, TypeOK
<1>10. CASE InstancesChange \/ UNCHANGED vars
  BY <1>2, <1>3, <1>10 DEF InstancesChange, vars, registries, requests
<1> QED
  BY <1>4, <1>5, <1>6, <1>7, <1>8, <1>9, <1>10 DEF Next

-----------------------------------------------------------------------------
(* The registries.                                                         *)

\* The handler that a dialog's request finds is registered under its link's number.
LEMMA DialogFound ==
  ASSUME TypeOK, RequestsRun, NEW r \in Callers, HandleDialogCallback(r)
  PROVE  /\ job[r].dialog \in Numbers
         /\ dialogs[job[r].dialog] \in DialogHandler
         /\ dialogs[job[r].dialog].which \in Numbers
<1>1. job[r].dialog \in Numbers
  BY JobsTyped DEF HandleDialogCallback
<1>2. dialogs[job[r].dialog] \in DialogHandler
  BY <1>1 DEF TypeOK, HandleDialogCallback
<1> QED
  BY <1>1, <1>2 DEF DialogHandler

LEMMA CallbacksDialogs ==
  TypeOK /\ RequestsRun /\ DialogsFresh /\ [Next]_vars => DialogsFresh'
<1> SUFFICES ASSUME TypeOK, RequestsRun, DialogsFresh, [Next]_vars PROVE DialogsFresh'
  OBVIOUS
<1> USE ShownAssumption
<1>1. ASSUME NEW r \in Callers, HandleDialogCallback(r) PROVE DialogsFresh'
  <2> DEFINE at == job[r].dialog
             n == dialogs[at].which
  <2>1. at \in Numbers /\ n \in Numbers /\ dialogs[at] # None
    BY <1>1, DialogFound DEF HandleDialogCallback
  <2>2. /\ dialogs' = [dialogs EXCEPT ![at] = None]
        /\ times' = [times EXCEPT ![n] = @ + 1]
        /\ UNCHANGED <<seq, shown>>
    BY <1>1 DEF HandleDialogCallback
  <2>3. \A d \in Numbers : dialogs'[d] # None => d # at /\ dialogs'[d] = dialogs[d]
    BY <2>2 DEF TypeOK
  <2>4. times[n] = 0 /\ n <= shown /\ times'[n] = 1
    BY <2>1, <2>2 DEF DialogsFresh, TypeOK
  <2>5. \A k \in Numbers \ {n} : times'[k] = times[k]
    BY <2>2 DEF TypeOK
  <2> HIDE DEF at, n
  <2>6. \A k \in Numbers : times'[k] <= 1 /\ (k > shown => times'[k] = 0)
    BY <2>1, <2>4, <2>5 DEF DialogsFresh, Numbers, TypeOK
  <2>7. \A d \in Numbers : dialogs'[d] # None => dialogs'[d].which \in Numbers \ {n}
    <3> SUFFICES ASSUME NEW d \in Numbers, dialogs'[d] # None
                 PROVE  dialogs'[d].which \in Numbers \ {n}
      OBVIOUS
    <3>1. dialogs'[d] = dialogs[d] /\ d # at
      BY <2>3
    <3>2. dialogs[d] \in DialogHandler
      BY <3>1 DEF TypeOK
    <3> QED
      BY <2>1, <3>1, <3>2 DEF DialogsFresh, DialogHandler, at, n
  <2> QED
    BY <2>2, <2>3, <2>5, <2>6, <2>7 DEF DialogsFresh
<1>2. ASSUME NEW r \in Callers, ShowDialog(r) PROVE DialogsFresh'
  <2>1. seq + 1 \in Numbers /\ shown + 1 \in Numbers /\ seq \in Nat /\ shown \in Nat
    BY <1>2 DEF ShowDialog, DialogsFresh, Numbers, TypeOK
  <2>2. \A d \in Numbers : dialogs[d] # None => dialogs[d].which \in Numbers
    BY DEF TypeOK, DialogHandler
  <2>3. /\ dialogs' = [dialogs EXCEPT ![seq + 1] = [page |-> called[r].page, which |-> shown + 1]]
        /\ seq' = seq + 1 /\ shown' = shown + 1 /\ times' = times
    BY <1>2 DEF ShowDialog, NextDialog
  <2>4. \A d \in Numbers \ {seq + 1} : dialogs'[d] = dialogs[d]
    BY <2>3 DEF TypeOK
  <2>5. dialogs'[seq + 1].which = shown + 1
    BY <2>1, <2>3 DEF TypeOK
  <2>6. \A n \in Numbers : times'[n] <= 1 /\ (n > shown' => times'[n] = 0)
    BY <2>1, <2>3 DEF DialogsFresh, Numbers
  <2>7. \A d \in Numbers : dialogs'[d] # None =>
          /\ d <= seq' /\ dialogs'[d].which <= shown' /\ times'[dialogs'[d].which] = 0
    BY <2>1, <2>2, <2>3, <2>4, <2>5 DEF DialogsFresh, Numbers
  <2>8. \A d, e \in Numbers :
          dialogs'[d] # None /\ dialogs'[e] # None /\ dialogs'[e].which = dialogs'[d].which => e = d
    BY <2>1, <2>2, <2>3, <2>4, <2>5 DEF DialogsFresh, Numbers
  <2>9. seq' <= shown'
    BY <2>1, <2>3 DEF DialogsFresh
  <2> QED
    BY <2>6, <2>7, <2>8, <2>9 DEF DialogsFresh
<1>3. CASE Restart
  BY <1>3 DEF Restart, DialogsFresh, TypeOK, history
<1>4. CASE UNCHANGED <<seq, dialogs, history>>
  BY <1>4 DEF DialogsFresh, history
<1> QED
  BY <1>1, <1>2, <1>3, <1>4
     DEF Next, vars, registries, history, InstancesChange, Begin, Enter, Refused, HandleEvent,
         HandleCallback, OpenChild, Answered, NotAnswered

-----------------------------------------------------------------------------
(* The links.                                                              *)

\* No step but a restart takes what a link leads to away, but for the answer.
LEMMA StaysAnswerable ==
  ASSUME TypeOK, RequestsRun, DialogsFresh, [Next]_vars, ~Restart,
         NEW link \in DialogLink \cup ChildLink, Answerable(link)
  PROVE  Answerable(link)'
<1> USE ShownAssumption
<1>1. link.to.kind = "dialog" => link.to.dialog \in Numbers /\ link.which \in Numbers
  BY DEF DialogLink, ChildLink, DialogRequest, ChildRequest
<1>2. link.to.kind = "child" => link.which \in Handlers /\ <<link.to.id, link.to.name>> \in Ids \X Names
  BY DEF DialogLink, ChildLink, DialogRequest, ChildRequest
<1>3. ASSUME NEW r \in Callers, HandleDialogCallback(r) PROVE Answerable(link)'
  <2> DEFINE at == job[r].dialog
             n == dialogs[at].which
  <2>1. at \in Numbers /\ n \in Numbers
    BY <1>3, DialogFound
  <2>2. /\ dialogs' = [dialogs EXCEPT ![at] = None]
        /\ times' = [times EXCEPT ![n] = @ + 1]
        /\ dialogs[at] # None
        /\ UNCHANGED <<seq, shown, callbacks>>
    BY <1>3 DEF HandleDialogCallback
  <2>3. CASE link.to.kind = "dialog"
    <3>1. CASE link.to.dialog = at
      <4>1. n = link.which
        BY <2>2, <2>3, <3>1 DEF Answerable, HandlerOf
      <4>2. times'[link.which] # 0
        BY <2>1, <2>2, <4>1 DEF TypeOK
      <4> QED
        BY <1>1, <2>2, <2>3, <3>1, <4>2 DEF Answerable, TypeOK
    <3>2. CASE link.to.dialog # at
      <4>1. dialogs'[link.to.dialog] = dialogs[link.to.dialog]
        BY <2>2, <3>2 DEF TypeOK
      <4>2. times'[link.which] = 0 => times[link.which] = 0
        BY <1>1, <2>1, <2>2, <2>3 DEF TypeOK
      <4> QED
        BY <2>2, <2>3, <4>1, <4>2 DEF Answerable, HandlerOf
    <3> QED
      BY <3>1, <3>2
  <2>4. CASE link.to.kind # "dialog"
    BY <2>2, <2>4 DEF Answerable, HandlerOf
  <2> QED
    BY <2>3, <2>4
<1>4. ASSUME NEW r \in Callers, ShowDialog(r) PROVE Answerable(link)'
  <2>1. /\ \A d \in Numbers : d # seq + 1 => dialogs'[d] = dialogs[d]
        /\ seq' = seq + 1 /\ shown' = shown + 1
        /\ UNCHANGED <<times, callbacks>>
    BY <1>4 DEF ShowDialog, NextDialog, TypeOK
  <2>2. link.to.kind = "dialog" =>
          /\ dialogs'[link.to.dialog] = dialogs[link.to.dialog]
          /\ link.to.dialog <= seq' /\ link.which <= shown'
    <3> SUFFICES ASSUME link.to.kind = "dialog"
                 PROVE  /\ dialogs'[link.to.dialog] = dialogs[link.to.dialog]
                        /\ link.to.dialog <= seq' /\ link.which <= shown'
      OBVIOUS
    <3>1. /\ link.to.dialog \in Numbers /\ link.to.dialog <= seq
          /\ link.which \in Nat /\ link.which <= shown
      BY <1>1 DEF Answerable, Numbers
    <3>2. link.to.dialog \in Nat /\ seq \in Nat /\ shown \in Nat
      BY <3>1 DEF TypeOK, Numbers
    <3>3. link.to.dialog # seq + 1
      BY <3>1, <3>2
    <3> QED
      BY <2>1, <3>1, <3>2, <3>3
  <2> QED
    BY <2>1, <2>2 DEF Answerable, HandlerOf
<1>5. ASSUME NEW r \in Callers, OpenChild(r) PROVE Answerable(link)'
  <2>1. PICK l \in ChildLink :
          /\ l.to = [kind |-> "child", id |-> called[r].page, name |-> NameOf[l.which]]
          /\ l.which \in Handlers
          /\ callbacks' = [c \in Ids \X Names |->
               IF c = <<called[r].page, NameOf[l.which]>> THEN HandlerOf(l) ELSE callbacks[c]]
    BY <1>5, ChildRecorded
  <2>2. UNCHANGED <<seq, dialogs, shown, times>>
    BY <1>5 DEF OpenChild, history
  <2>3. CASE link.to.kind = "child"
    <3>1. CASE <<link.to.id, link.to.name>> = <<called[r].page, NameOf[l.which]>>
      <4>1. link.which = l.which
        BY <1>2, <2>1, <2>3, <3>1, NamesAssumption DEF Answerable
      <4>2. HandlerOf(link) = HandlerOf(l)
        BY <2>1, <3>1, <4>1 DEF HandlerOf
      <4> QED
        BY <1>2, <2>1, <2>3, <3>1, <4>2 DEF Answerable, HandlerOf
    <3>2. CASE <<link.to.id, link.to.name>> # <<called[r].page, NameOf[l.which]>>
      BY <1>2, <2>1, <2>3, <3>2 DEF Answerable, HandlerOf
    <3> QED
      BY <3>1, <3>2
  <2>4. CASE link.to.kind # "child"
    BY <2>2, <2>4 DEF Answerable, HandlerOf
  <2> QED
    BY <2>3, <2>4
<1>6. CASE UNCHANGED <<registries, history>>
  BY <1>6 DEF registries, history, Answerable, HandlerOf
<1> QED
  BY <1>3, <1>4, <1>5, <1>6
     DEF Next, vars, InstancesChange, Begin, Enter, Refused, HandleEvent,
         HandleCallback, Answered, NotAnswered

\* What a handler records can be followed.
LEMMA RecordedAnswerable ==
  ASSUME TypeOK, RequestsRun, DialogsFresh, NEW r \in Callers, ShowDialog(r) \/ OpenChild(r),
         NEW link \in recorded'[r], link \notin recorded[r]
  PROVE  link.to.id = called[r].page /\ Answerable(link)'
<1> USE ShownAssumption
<1>1. CASE ShowDialog(r)
  <2>1. PICK l \in DialogLink :
          /\ l.to = [kind |-> "dialog", id |-> called[r].page, dialog |-> seq + 1]
          /\ l.which = shown + 1
          /\ recorded' = [recorded EXCEPT ![r] = @ \cup {l}]
          /\ dialogs' = [dialogs EXCEPT ![seq + 1] = HandlerOf(l)]
          /\ seq + 1 \in Numbers
    BY <1>1, DialogRecorded
  <2>2. link = l
    BY <2>1 DEF TypeOK
  <2>3. dialogs'[seq + 1] = HandlerOf(l) /\ seq' = seq + 1 /\ shown' = shown + 1 /\ seq \in Nat /\ shown \in Nat
    BY <1>1, <2>1 DEF ShowDialog, TypeOK
  <2> QED
    BY <2>1, <2>2, <2>3 DEF Answerable, HandlerOf
<1>2. CASE OpenChild(r)
  <2>1. PICK l \in ChildLink :
          /\ l.to = [kind |-> "child", id |-> called[r].page, name |-> NameOf[l.which]]
          /\ l.which \in Handlers
          /\ recorded' = [recorded EXCEPT ![r] = @ \cup {l}]
          /\ callbacks' = [c \in Ids \X Names |->
               IF c = <<called[r].page, NameOf[l.which]>> THEN HandlerOf(l) ELSE callbacks[c]]
    BY <1>2, ChildRecorded
  <2>2. link = l
    BY <2>1 DEF TypeOK
  <2>3. <<called[r].page, NameOf[l.which]>> \in Ids \X Names
    BY <1>2, <2>1, CalledTyped DEF OpenChild, Names
  <2> QED
    BY <2>1, <2>2, <2>3 DEF Answerable, HandlerOf
<1> QED
  BY <1>1, <1>2

LEMMA CallbacksLinks ==
  /\ TypeOK /\ LifecycleTypeOK /\ RequestsRun /\ DialogsFresh /\ HandlersPlaced /\ LinksAnswerable
  /\ [Next]_vars
  => LinksAnswerable'
<1> SUFFICES ASSUME TypeOK, LifecycleTypeOK, RequestsRun, DialogsFresh, HandlersPlaced,
                    LinksAnswerable, [Next]_vars
             PROVE  LinksAnswerable'
  OBVIOUS
<1> USE DEF Born
<1>1. \A id \in Ids : Born(id) => phase'[id] # "unborn" /\ (phase'[id] = "open" => phase[id] = "open")
  BY LifecycleStep
<1>2. \A link \in Known : link \in DialogLink \cup ChildLink /\ link.to.id \in Ids
  BY LinksTyped
<1>3. \A r \in Callers : pc[r] # "idle" => job[r].id \in Ids
  BY JobsTyped
<1>4. CASE Restart
  <2>1. \A id \in Ids : phase'[id] # "open"
    BY <1>4 DEF Restart, Lifecycle!Crash, Lifecycle!Closing, Lifecycle!Open, LifecycleTypeOK
  <2> QED
    BY <1>1, <1>2, <1>4, <2>1 DEF Restart, LinksAnswerable, Born, Known
<1>5. CASE ~Restart
  <2>1. \A link \in Known : Answerable(link) => Answerable(link)'
    BY <1>2, <1>5, StaysAnswerable
  <2>2. /\ \A link \in links : phase'[link.to.id] # "unborn" /\ (phase'[link.to.id] = "open" => Answerable(link)')
        /\ \A r \in Callers : pc[r] # "idle" =>
             phase'[job[r].id] # "unborn" /\ \A link \in links : link.to.id = job[r].id => Answerable(link)'
        /\ \A r \in Callers : \A link \in recorded[r] : phase'[link.to.id] # "unborn" /\ Answerable(link)'
    BY <1>1, <1>2, <1>3, <2>1 DEF LinksAnswerable, Known
  <2>3. ASSUME NEW r \in Callers, Begin(r) PROVE LinksAnswerable'
    <3>1. PICK request \in Request :
            phase[request.id] = "open" /\ job' = [job EXCEPT ![r] = request]
      BY <2>3 DEF Begin, Lifecycle!Admit
    <3>2. request.id \in Ids /\ Born(request.id)
      BY <3>1 DEF Request, DialogRequest, ChildRequest, EventRequest, Born
    <3>3. \A link \in links : link.to.id = request.id => Answerable(link)'
      BY <2>1, <3>1 DEF LinksAnswerable, Known
    <3>4. \A q \in Callers \ {r} : pc'[q] = pc[q] /\ job'[q] = job[q]
      BY <2>3, <3>1 DEF Begin, TypeOK
    <3>5. job'[r] = request /\ links' = links /\ recorded' = recorded /\ phase'[request.id] # "unborn"
      BY <1>1, <2>3, <3>1, <3>2 DEF Begin, TypeOK
    <3> QED
      BY <2>2, <3>3, <3>4, <3>5 DEF LinksAnswerable, Born
  <2>4. ASSUME NEW r \in Callers, ShowDialog(r) \/ OpenChild(r) PROVE LinksAnswerable'
    <3>1. /\ UNCHANGED <<links, pc, job>> /\ pc[r] = "executing"
          /\ \A q \in Callers \ {r} : recorded'[q] = recorded[q]
      BY <2>4 DEF ShowDialog, OpenChild, TypeOK
    <3>2. \A link \in recorded'[r] : link \notin recorded[r] =>
            link.to.id = called[r].page /\ Answerable(link)'
      BY <2>4, RecordedAnswerable
    <3>3. phase'[called[r].page] # "unborn"
      BY <1>1, <3>1, CalledTyped DEF HandlersPlaced
    <3>4. \A link \in recorded'[r] : phase'[link.to.id] # "unborn" /\ Answerable(link)'
      BY <2>2, <3>2, <3>3
    <3> QED
      BY <2>2, <3>1, <3>4 DEF LinksAnswerable, Born
  <2>5. ASSUME NEW r \in Callers, Leave(r), links' \subseteq links \cup recorded[r] PROVE LinksAnswerable'
    <3>1. \A link \in links' : link \in links \/ link \in recorded[r]
      BY <2>5
    <3>2. /\ \A q \in Callers \ {r} : pc'[q] = pc[q] /\ job'[q] = job[q] /\ recorded'[q] = recorded[q]
          /\ pc'[r] = "idle" /\ recorded'[r] = {}
      BY <2>5 DEF Leave, TypeOK
    <3> QED
      BY <2>2, <3>1, <3>2 DEF LinksAnswerable, Born
  <2>6. ASSUME /\ UNCHANGED <<links, job, recorded>>
               /\ \A q \in Callers : pc[q] = "idle" => pc'[q] = "idle"
        PROVE  LinksAnswerable'
    BY <2>2, <2>6 DEF LinksAnswerable, Born
  <2>7. ASSUME NEW r \in Callers, Enter(r) \/ HandleEvent(r) \/ HandleDialogCallback(r) \/ HandleCallback(r)
        PROVE  LinksAnswerable'
    BY <2>6, <2>7 DEF Enter, HandleEvent, HandleDialogCallback, HandleCallback, Execute, TypeOK
  <2>8. CASE InstancesChange \/ UNCHANGED vars
    BY <2>6, <2>8 DEF InstancesChange, requests, vars
  <2>9. ASSUME NEW r \in Callers, Refused(r) \/ Answered(r) \/ NotAnswered(r) PROVE LinksAnswerable'
    BY <2>5, <2>9 DEF Refused, Answered, NotAnswered, Result
  <2> QED
    BY <1>5, <2>3, <2>4, <2>7, <2>8, <2>9 DEF Next
<1> QED
  BY <1>4, <1>5

-----------------------------------------------------------------------------
(* The theorems.                                                           *)

LEMMA CallbacksInductive == IInv /\ [Next]_vars => IInv'
BY CallbacksTypes, LifecycleStep, CallbacksRequests, CallbacksDialogs, CallbacksPlaced, CallbacksLinks DEF IInv

LEMMA CallbacksInvariant == Spec => []IInv
<1>1. Init => IInv
  BY CallbacksInit
<1>2. IInv /\ [Next]_vars => IInv'
  BY CallbacksInductive
<1> QED
  BY <1>1, <1>2, PTL DEF Spec

\* The registries, the requests and the links the client keeps have their types at all
\* times, over restarts.
THEOREM CallbacksTypeCorrect == Spec => []TypeOK
<1>1. IInv => TypeOK
  BY DEF IInv
<1> QED
  BY <1>1, CallbacksInvariant, PTL

\* handleDialogCallback and HandleCallback run the handler that the client was shown with
\* the URL, on the page that showed it, although dialog ids start again after a restart and
\* the code does not compare the dialog with the instance.
THEOREM RightHandlerRuns == Spec => []RightHandler
<1>1. IInv => RightHandler
  BY DEF IInv, RequestsRun, RightHandler, Known
<1> QED
  BY <1>1, CallbacksInvariant, PTL

\* LoadAndDelete makes a dialog's handler run once, whatever the client repeats.
THEOREM DialogsAnsweredOnce == Spec => []AnsweredOnce
<1>1. IInv => AnsweredOnce
  BY DEF IInv, DialogsFresh, AnsweredOnce
<1> QED
  BY <1>1, CallbacksInvariant, PTL

\* Events, dialog answers and callbacks of one page run one at a time, as long as the
\* requests name the instance of the page.
THEOREM PagesSerialized == Spec => []PageSerialized
<1>1. IInv => PageSerialized
  BY DEF IInv, RequestsRun, PageSerialized
<1> QED
  BY <1>1, CallbacksInvariant, PTL

\* As long as the page is open, the handler of a dialog is there until it runs, and that
\* of a child for good.
THEOREM HandlersKept == Spec => []NoHandlerLost
<1>1. IInv => NoHandlerLost
  BY LinksTyped DEF IInv, LinksAnswerable, Answerable, NoHandlerLost, Known
<1> QED
  BY <1>1, CallbacksInvariant, PTL
=============================================================================
