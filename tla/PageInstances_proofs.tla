------------------------ MODULE PageInstances_proofs ------------------------
(***************************************************************************)
(* Proofs about PageInstances, for every set of requests, ids, pages and   *)
(* owners and every value of TTL, MaxInstances and MaxTime.                *)
(***************************************************************************)
EXTENDS PageInstances, FiniteSetTheorems, TLAPS

\* No time stamp is ahead of the clock.
StampsPast ==
  /\ \A r \in Requests : stamp[r] <= clock
  /\ \A id \in Known : instance[id].last <= clock

\* What a request carries, by where it is.
RequestShape ==
  \A r \in Requests :
    /\ pc[r] # "idle" => req[r] \in Request
    /\ pc[r] = "received" => req[r].id \in Known \cup {None}
    /\ pc[r] = "adding" => req[r].id \in Ids /\ instance[req[r].id] = None
    /\ pc[r] = "acquiring" => req[r].id \in Known
    /\ pc[r] \in Holding \cup {"waiting"} => req[r].id \in Known /\ Owns(r, req[r].id)

\* Renders under way have ids of their own.
DistinctNewIds ==
  \A r1, r2 \in Requests :
    r1 # r2 /\ pc[r1] = "adding" /\ pc[r2] = "adding" => req[r1].id # req[r2].id

\* The inductive invariant.
IInv ==
  /\ TypeOK
  /\ instances \subseteq Known
  /\ StampsPast
  /\ RequestShape
  /\ DistinctNewIds
  /\ MutexHeldByHandlers
  /\ LimitRespected

-----------------------------------------------------------------------------
(* Type correctness.                                                       *)

\* TypeOK, split between the request's own state and what is shared.
RequestsTypeOK ==
  /\ pc \in [Requests -> PCs]
  /\ req \in [Requests -> Request \cup {None}]
  /\ stamp \in [Requests -> 0..MaxTime]
  /\ status \in [Requests -> Statuses]

SharedTypeOK ==
  /\ clock \in 0..MaxTime
  /\ instances \subseteq Ids
  /\ instance \in [Ids -> Instance \cup {None}]
  /\ mutex \in [Ids -> Requests \cup {None}]

LEMMA TypeSplit == TypeOK <=> RequestsTypeOK /\ SharedTypeOK
  BY DEF TypeOK, RequestsTypeOK, SharedTypeOK

LEMMA TypeSplitPrime == TypeOK' <=> RequestsTypeOK' /\ SharedTypeOK'
  BY DEF TypeOK, RequestsTypeOK, SharedTypeOK

LEMMA Labels ==
  /\ PCs = {"idle", "received", "authorized", "adding", "acquiring", "waiting",
            "locked", "handling", "releasing"}
  /\ Statuses = {0, 200, 204, 400, 401, 403, 404, 410, 500, 503}
  BY DEF PCs, Holding, Statuses

LEMMA FinishType ==
  ASSUME RequestsTypeOK, NEW r \in Requests, Finish(r)
  PROVE  /\ pc' \in [Requests -> PCs]
         /\ req' \in [Requests -> Request \cup {None}]
         /\ stamp' \in [Requests -> 0..MaxTime]
<1>1. pc' \in [Requests -> PCs]
  BY Labels DEF RequestsTypeOK, Finish, Goto
<1>2. req' \in [Requests -> Request \cup {None}]
  BY DEF RequestsTypeOK, Finish
<1>3. stamp' \in [Requests -> 0..MaxTime]
  BY TimeAssumption DEF RequestsTypeOK, Finish
<1> QED BY <1>1, <1>2, <1>3

LEMMA AnswerType ==
  ASSUME RequestsTypeOK, NEW r \in Requests, NEW code \in Statuses, Answer(r, code)
  PROVE  RequestsTypeOK'
<1>1. status' \in [Requests -> Statuses]
  BY DEF RequestsTypeOK, Answer
<1>2. Finish(r)
  BY DEF Answer
<1> QED BY <1>1, <1>2, FinishType DEF RequestsTypeOK

LEMMA AnswerHoldingType ==
  ASSUME RequestsTypeOK, NEW r \in Requests, NEW code \in Statuses, AnswerHolding(r, code)
  PROVE  RequestsTypeOK'
<1>1. status' \in [Requests -> Statuses]
  BY DEF RequestsTypeOK, AnswerHolding
<1>2. pc' \in [Requests -> PCs]
  BY Labels DEF RequestsTypeOK, AnswerHolding, Goto
<1> QED BY <1>1, <1>2 DEF RequestsTypeOK, AnswerHolding

LEMMA TypeInit == Init => TypeOK
  BY TimeAssumption, Labels DEF Init, TypeOK

LEMMA TypeNext ==
  ASSUME TypeOK, RequestShape, [Next]_vars
  PROVE  TypeOK'
<1> SUFFICES RequestsTypeOK' /\ SharedTypeOK'
  BY TypeSplitPrime
<1>0. RequestsTypeOK /\ SharedTypeOK
  BY TypeSplit
<1> USE <1>0
<1>1. ASSUME NEW r \in Requests, Begin(r) PROVE RequestsTypeOK' /\ SharedTypeOK'
  <2>1. CASE Authenticated(r)
    <3>1. PICK op \in Operations, page \in Pages, owner \in Owners, id \in Known \cup {None} :
            req' = [req EXCEPT ![r] = [op |-> op, page |-> page, owner |-> owner, id |-> id]]
      BY <2>1 DEF Authenticated
    <3>2. req' \in [Requests -> Request \cup {None}]
      BY <3>1 DEF RequestsTypeOK, Request, Known
    <3>3. pc' \in [Requests -> PCs] /\ status' \in [Requests -> Statuses]
      BY <2>1, Labels DEF Authenticated, Goto, RequestsTypeOK
    <3> QED BY <2>1, <3>2, <3>3 DEF Authenticated, RequestsTypeOK, SharedTypeOK
  <2>2. CASE Unauthenticated(r)
    <3>1. RequestsTypeOK'
      BY <2>2, AnswerType, Labels DEF Unauthenticated
    <3> QED BY <2>2, <3>1 DEF Unauthenticated, SharedTypeOK
  <2>3. CASE MissingId(r)
    <3>1. RequestsTypeOK'
      BY <2>3, AnswerType, Labels DEF MissingId
    <3> QED BY <2>3, <3>1 DEF MissingId, SharedTypeOK
  <2> QED BY <1>1, <2>1, <2>2, <2>3 DEF Begin
<1>2. ASSUME NEW r \in Requests, Render(r) PROVE RequestsTypeOK' /\ SharedTypeOK'
  <2>1. CASE RenderRefused(r)
    <3>0. PICK code \in {403, 503} : Answer(r, code)
      BY <2>1 DEF RenderRefused
    <3>1. RequestsTypeOK'
      BY <3>0, AnswerType, Labels
    <3> QED BY <2>1, <3>1 DEF RenderRefused, SharedTypeOK
  <2>2. CASE RenderAuthorized(r)
    <3>1. pc' \in [Requests -> PCs]
      BY <2>2, Labels DEF RenderAuthorized, Goto, RequestsTypeOK
    <3> QED BY <2>2, <3>1 DEF RenderAuthorized, RequestsTypeOK, SharedTypeOK
  <2>3. CASE RenderFailed(r)
    <3>0. PICK code \in {0, 500, 503} : Answer(r, code)
      BY <2>3 DEF RenderFailed
    <3>1. RequestsTypeOK'
      BY <3>0, AnswerType, Labels
    <3> QED BY <2>3, <3>1 DEF RenderFailed, SharedTypeOK
  <2>4. CASE Rendered(r)
    <3>1. PICK id \in Ids : req' = [req EXCEPT ![r].id = id]
      BY <2>4 DEF Rendered
    <3>2. req[r] \in Request
      BY <2>4 DEF Rendered, RequestShape
    <3>3. req' \in [Requests -> Request \cup {None}]
      BY <3>1, <3>2 DEF Request, RequestsTypeOK
    <3>4. pc' \in [Requests -> PCs] /\ stamp' \in [Requests -> 0..MaxTime]
      BY <2>4, Labels DEF Rendered, Goto, RequestsTypeOK, SharedTypeOK
    <3> QED BY <2>4, <3>3, <3>4 DEF Rendered, RequestsTypeOK, SharedTypeOK
  <2>5. CASE Add(r)
    <3>1. RequestsTypeOK'
      BY <2>5, AnswerType, Labels DEF Add
    <3>2. req[r].id \in Ids
      BY <2>5 DEF Add, RequestShape
    <3>3. req[r] \in Request
      BY <2>5 DEF Add, RequestShape
    <3>4. [page |-> req[r].page, owner |-> req[r].owner, last |-> stamp[r],
          used |-> clock] \in Instance
      BY <3>3 DEF Request, Instance, RequestsTypeOK, SharedTypeOK
    <3>5. SharedTypeOK'
      BY <2>5, <3>2, <3>4 DEF Add, Swept, SharedTypeOK
    <3> QED BY <3>1, <3>5
  <2>6. CASE AddFull(r)
    <3>1. RequestsTypeOK'
      BY <2>6, AnswerType, Labels DEF AddFull
    <3>2. SharedTypeOK'
      BY <2>6 DEF AddFull, Swept, SharedTypeOK
    <3> QED BY <3>1, <3>2
  <2> QED BY <1>2, <2>1, <2>2, <2>3, <2>4, <2>5, <2>6 DEF Render
<1>3. ASSUME NEW r \in Requests, Acquire(r) PROVE RequestsTypeOK' /\ SharedTypeOK'
  <2>1. CASE EventReceived(r)
    <3>1. pc' \in [Requests -> PCs] /\ stamp' \in [Requests -> 0..MaxTime]
      BY <2>1, Labels DEF EventReceived, Goto, RequestsTypeOK, SharedTypeOK
    <3> QED BY <2>1, <3>1 DEF EventReceived, RequestsTypeOK, SharedTypeOK
  <2>2. CASE AcquireMissing(r)
    <3>1. RequestsTypeOK'
      BY <2>2, AnswerType, Labels DEF AcquireMissing
    <3> QED BY <2>2, <3>1 DEF AcquireMissing, SharedTypeOK
  <2>3. CASE AcquireExpired(r)
    <3>1. RequestsTypeOK'
      BY <2>3, AnswerType, Labels DEF AcquireExpired
    <3> QED BY <2>3, <3>1 DEF AcquireExpired, SharedTypeOK
  <2>4. CASE AcquireForeign(r)
    <3>1. RequestsTypeOK'
      BY <2>4, AnswerType, Labels DEF AcquireForeign
    <3> QED BY <2>4, <3>1 DEF AcquireForeign, SharedTypeOK
  <2>5. CASE Acquired(r)
    <3>1. pc' \in [Requests -> PCs]
      BY <2>5, Labels DEF Acquired, Goto, RequestsTypeOK
    <3>2. req[r].id \in Ids /\ instance[req[r].id] \in Instance
      BY <2>5 DEF Acquired, RequestShape, Known, SharedTypeOK
    <3>3. instance' \in [Ids -> Instance \cup {None}]
      BY <2>5, <3>2 DEF Acquired, Instance, SharedTypeOK, RequestsTypeOK
    <3> QED BY <2>5, <3>1, <3>3 DEF Acquired, RequestsTypeOK, SharedTypeOK
  <2>6. CASE Lock(r)
    <3>1. pc' \in [Requests -> PCs]
      BY <2>6, Labels DEF Lock, Goto, RequestsTypeOK
    <3>2. mutex' \in [Ids -> Requests \cup {None}]
      BY <2>6 DEF Lock, SharedTypeOK
    <3>3. RequestsTypeOK'
      BY <2>6, <3>1 DEF Lock, RequestsTypeOK
    <3>4. SharedTypeOK'
      BY <2>6, <3>2 DEF Lock, SharedTypeOK
    <3> QED BY <3>3, <3>4
  <2> QED BY <1>3, <2>1, <2>2, <2>3, <2>4, <2>5, <2>6 DEF Acquire
<1>4. ASSUME NEW r \in Requests, Run(r) PROVE RequestsTypeOK' /\ SharedTypeOK'
  <2>1. CASE EventRefused(r)
    <3>0. PICK code \in {403, 503} : AnswerHolding(r, code)
      BY <2>1 DEF EventRefused
    <3>1. RequestsTypeOK'
      BY <3>0, AnswerHoldingType, Labels
    <3> QED BY <2>1, <3>1 DEF EventRefused, SharedTypeOK
  <2>2. CASE Handle(r)
    <3>1. pc' \in [Requests -> PCs]
      BY <2>2, Labels DEF Handle, Goto, RequestsTypeOK
    <3> QED BY <2>2, <3>1 DEF Handle, RequestsTypeOK, SharedTypeOK
  <2>3. CASE Handled(r)
    <3>0. PICK code \in {0, 200, 500} : AnswerHolding(r, code)
      BY <2>3 DEF Handled
    <3>1. RequestsTypeOK'
      BY <3>0, AnswerHoldingType, Labels
    <3> QED BY <2>3, <3>1 DEF Handled, SharedTypeOK
  <2>4. CASE Release(r)
    <3>1. Finish(r)
      BY <2>4 DEF Release
    <3>2. mutex' \in [Ids -> Requests \cup {None}]
      BY <2>4 DEF Release, SharedTypeOK
    <3> QED BY <2>4, <3>1, <3>2, FinishType DEF Release, RequestsTypeOK, SharedTypeOK
  <2> QED BY <1>4, <2>1, <2>2, <2>3, <2>4 DEF Run
<1>5. ASSUME NEW r \in Requests, Close(r) PROVE RequestsTypeOK' /\ SharedTypeOK'
  <2>1. CASE Delete(r)
    <3>1. RequestsTypeOK'
      BY <2>1, AnswerType, Labels DEF Delete
    <3> QED BY <2>1, <3>1 DEF Delete, SharedTypeOK
  <2>2. CASE DeleteMissing(r)
    <3>1. RequestsTypeOK'
      BY <2>2, AnswerType, Labels DEF DeleteMissing
    <3> QED BY <2>2, <3>1 DEF DeleteMissing, SharedTypeOK
  <2> QED BY <1>5, <2>1, <2>2 DEF Close
<1>6. CASE Tick
  BY <1>6, TimeAssumption DEF Tick, RequestsTypeOK, SharedTypeOK
<1>7. CASE Restart
  BY <1>7, TimeAssumption, Labels DEF Restart, RequestsTypeOK, SharedTypeOK
<1>8. CASE UNCHANGED vars
  BY <1>8 DEF vars, RequestsTypeOK, SharedTypeOK
<1> QED BY <1>1, <1>2, <1>3, <1>4, <1>5, <1>6, <1>7, <1>8 DEF Next

-----------------------------------------------------------------------------
(* The other parts of the inductive invariant.                             *)

\* What a step of Next does to the request q, by where q was.
Unmoved(q) == pc'[q] = pc[q] /\ req'[q] = req[q]
Ended(q) == pc[q] \notin Holding \cup {"waiting"} /\ pc'[q] = "idle"
Unwinding(q) == pc[q] \in {"locked", "handling"} /\ pc'[q] = "releasing" /\ req'[q] = req[q]
Advancing(q) ==
  \/ Authenticated(q) \/ RenderAuthorized(q) \/ Rendered(q) \/ EventReceived(q)
  \/ Acquired(q) \/ Lock(q) \/ Handle(q) \/ Release(q)

LEMMA AnswerEnds ==
  ASSUME TypeOK, NEW r \in Requests, NEW code, Answer(r, code),
         pc[r] \notin Holding \cup {"waiting"}
  PROVE  \A q \in Requests : IF q = r THEN Ended(q) ELSE Unmoved(q)
  BY DEF Answer, Finish, Goto, Ended, Unmoved, TypeOK

LEMMA AnswerHoldingUnwinds ==
  ASSUME TypeOK, NEW r \in Requests, NEW code, AnswerHolding(r, code),
         pc[r] \in {"locked", "handling"}
  PROVE  \A q \in Requests : IF q = r THEN Unwinding(q) ELSE Unmoved(q)
  BY DEF AnswerHolding, Goto, Unwinding, Unmoved, TypeOK

LEMMA RequestMoves ==
  ASSUME TypeOK, [Next]_vars, NEW q \in Requests
  PROVE  Unmoved(q) \/ Ended(q) \/ Unwinding(q) \/ Advancing(q) \/ Restart
<1> DEFINE Moves == Unmoved(q) \/ Ended(q) \/ Unwinding(q) \/ Advancing(q) \/ Restart
<1>1. ASSUME NEW r \in Requests, Begin(r) PROVE Moves
  <2>1. CASE Authenticated(r)
    <3>1. q # r => Unmoved(q)
      BY <2>1 DEF Authenticated, Goto, Unmoved, TypeOK
    <3> QED BY <2>1, <3>1 DEF Advancing
  <2>2. CASE Unauthenticated(r)
    <3>1. Answer(r, 401) /\ pc[r] \notin Holding \cup {"waiting"}
      BY <2>2 DEF Unauthenticated, Holding
    <3> QED BY <3>1, AnswerEnds
  <2>3. CASE MissingId(r)
    <3>1. Answer(r, 400) /\ pc[r] \notin Holding \cup {"waiting"}
      BY <2>3 DEF MissingId, Holding
    <3> QED BY <3>1, AnswerEnds
  <2> QED BY <1>1, <2>1, <2>2, <2>3 DEF Begin
<1>2. ASSUME NEW r \in Requests, Render(r) PROVE Moves
  <2>1. CASE RenderRefused(r)
    <3>1. PICK code \in {403, 503} : Answer(r, code)
      BY <2>1 DEF RenderRefused
    <3>2. pc[r] \notin Holding \cup {"waiting"}
      BY <2>1 DEF RenderRefused, Holding
    <3> QED BY <3>1, <3>2, AnswerEnds
  <2>2. CASE RenderAuthorized(r)
    <3>1. q # r => Unmoved(q)
      BY <2>2 DEF RenderAuthorized, Goto, Unmoved, TypeOK
    <3> QED BY <2>2, <3>1 DEF Advancing
  <2>3. CASE RenderFailed(r)
    <3>1. PICK code \in {0, 500, 503} : Answer(r, code)
      BY <2>3 DEF RenderFailed
    <3>2. pc[r] \notin Holding \cup {"waiting"}
      BY <2>3 DEF RenderFailed, Holding
    <3> QED BY <3>1, <3>2, AnswerEnds
  <2>4. CASE Rendered(r)
    <3>1. q # r => Unmoved(q)
      BY <2>4 DEF Rendered, Goto, Unmoved, TypeOK
    <3> QED BY <2>4, <3>1 DEF Advancing
  <2>5. CASE Add(r)
    <3>1. Answer(r, 200) /\ pc[r] \notin Holding \cup {"waiting"}
      BY <2>5 DEF Add, Holding
    <3> QED BY <3>1, AnswerEnds
  <2>6. CASE AddFull(r)
    <3>1. Answer(r, 503) /\ pc[r] \notin Holding \cup {"waiting"}
      BY <2>6 DEF AddFull, Holding
    <3> QED BY <3>1, AnswerEnds
  <2> QED BY <1>2, <2>1, <2>2, <2>3, <2>4, <2>5, <2>6 DEF Render
<1>3. ASSUME NEW r \in Requests, Acquire(r) PROVE Moves
  <2>1. CASE EventReceived(r)
    <3>1. q # r => Unmoved(q)
      BY <2>1 DEF EventReceived, Goto, Unmoved, TypeOK
    <3> QED BY <2>1, <3>1 DEF Advancing
  <2>2. CASE AcquireMissing(r)
    <3>1. Answer(r, 404) /\ pc[r] \notin Holding \cup {"waiting"}
      BY <2>2 DEF AcquireMissing, Holding
    <3> QED BY <3>1, AnswerEnds
  <2>3. CASE AcquireExpired(r)
    <3>1. Answer(r, 410) /\ pc[r] \notin Holding \cup {"waiting"}
      BY <2>3 DEF AcquireExpired, Holding
    <3> QED BY <3>1, AnswerEnds
  <2>4. CASE AcquireForeign(r)
    <3>1. Answer(r, 404) /\ pc[r] \notin Holding \cup {"waiting"}
      BY <2>4 DEF AcquireForeign, Holding
    <3> QED BY <3>1, AnswerEnds
  <2>5. CASE Acquired(r)
    <3>1. q # r => Unmoved(q)
      BY <2>5 DEF Acquired, Goto, Unmoved, TypeOK
    <3> QED BY <2>5, <3>1 DEF Advancing
  <2>6. CASE Lock(r)
    <3>1. q # r => Unmoved(q)
      BY <2>6 DEF Lock, Goto, Unmoved, TypeOK
    <3> QED BY <2>6, <3>1 DEF Advancing
  <2> QED BY <1>3, <2>1, <2>2, <2>3, <2>4, <2>5, <2>6 DEF Acquire
<1>4. ASSUME NEW r \in Requests, Run(r) PROVE Moves
  <2>1. CASE EventRefused(r)
    <3>1. PICK code \in {403, 503} : AnswerHolding(r, code)
      BY <2>1 DEF EventRefused
    <3>2. pc[r] \in {"locked", "handling"}
      BY <2>1 DEF EventRefused, Holding
    <3> QED BY <3>1, <3>2, AnswerHoldingUnwinds
  <2>2. CASE Handle(r)
    <3>1. q # r => Unmoved(q)
      BY <2>2 DEF Handle, Goto, Unmoved, TypeOK
    <3> QED BY <2>2, <3>1 DEF Advancing
  <2>3. CASE Handled(r)
    <3>1. PICK code \in {0, 200, 500} : AnswerHolding(r, code)
      BY <2>3 DEF Handled
    <3>2. pc[r] \in {"locked", "handling"}
      BY <2>3 DEF Handled, Holding
    <3> QED BY <3>1, <3>2, AnswerHoldingUnwinds
  <2>4. CASE Release(r)
    <3>1. q # r => Unmoved(q)
      BY <2>4 DEF Release, Goto, Finish, Unmoved, TypeOK
    <3> QED BY <2>4, <3>1 DEF Advancing
  <2> QED BY <1>4, <2>1, <2>2, <2>3, <2>4 DEF Run
<1>5. ASSUME NEW r \in Requests, Close(r) PROVE Moves
  <2>1. CASE Delete(r)
    <3>1. Answer(r, 204) /\ pc[r] \notin Holding \cup {"waiting"}
      BY <2>1 DEF Delete, Holding
    <3> QED BY <3>1, AnswerEnds
  <2>2. CASE DeleteMissing(r)
    <3>1. Answer(r, 404) /\ pc[r] \notin Holding \cup {"waiting"}
      BY <2>2 DEF DeleteMissing, Holding
    <3> QED BY <3>1, AnswerEnds
  <2> QED BY <1>5, <2>1, <2>2 DEF Close
<1>6. CASE Tick
  BY <1>6 DEF Tick, Unmoved
<1>7. CASE UNCHANGED vars
  BY <1>7 DEF vars, Unmoved
<1> QED BY <1>1, <1>2, <1>3, <1>4, <1>5, <1>6, <1>7 DEF Next

-----------------------------------------------------------------------------
(* How the shared objects move.                                            *)

LEMMA BeginFrame ==
  ASSUME NEW r \in Requests, Begin(r)
  PROVE  UNCHANGED <<instances, instance, mutex>>
  BY DEF Begin, Authenticated, Unauthenticated, MissingId

LEMMA RenderFrame ==
  ASSUME NEW r \in Requests, Render(r)
  PROVE  /\ UNCHANGED mutex
         /\ UNCHANGED instance \/ Add(r)
         /\ instances' \subseteq instances \/ Add(r)
    BY DEF Render, RenderRefused, RenderAuthorized, RenderFailed, Rendered, AddFull,
         Swept, Add

LEMMA AcquireFrame ==
  ASSUME NEW r \in Requests, Acquire(r)
  PROVE  /\ UNCHANGED mutex \/ Lock(r)
         /\ UNCHANGED instance \/ Acquired(r)
         /\ instances' \subseteq instances
    BY DEF Acquire, EventReceived, AcquireMissing, AcquireExpired, AcquireForeign,
         Acquired, Lock

LEMMA RunFrame ==
  ASSUME NEW r \in Requests, Run(r)
  PROVE  UNCHANGED <<instances, instance>> /\ (UNCHANGED mutex \/ Release(r))
  BY DEF Run, EventRefused, Handle, Handled, Release

LEMMA CloseFrame ==
  ASSUME NEW r \in Requests, Close(r)
  PROVE  UNCHANGED <<instance, mutex>> /\ instances' \subseteq instances
  BY DEF Close, Delete, DeleteMissing

LEMMA SharedChanges ==
  ASSUME [Next]_vars
  PROVE  /\ UNCHANGED instance \/ \E r \in Requests : Add(r) \/ Acquired(r)
         /\ UNCHANGED mutex \/ Restart \/ \E r \in Requests : Lock(r) \/ Release(r)
         /\ instances' \subseteq instances \/ \E r \in Requests : Add(r)
<1>1. CASE \E r \in Requests : Begin(r) \/ Render(r) \/ Acquire(r) \/ Run(r) \/ Close(r)
  BY <1>1, BeginFrame, RenderFrame, AcquireFrame, RunFrame, CloseFrame
<1>2. CASE Tick \/ Restart \/ UNCHANGED vars
  BY <1>2 DEF Tick, Restart, vars
<1> QED BY <1>1, <1>2 DEF Next

\* An instance is made once, by the render that was given its id; after that
\* neither its page nor its owner changes.
LEMMA InstanceStep ==
  ASSUME IInv, [Next]_vars, NEW id \in Ids
  PROVE  /\ instance[id] # None => /\ instance'[id] # None
                                  /\ instance'[id].page = instance[id].page
                                  /\ instance'[id].owner = instance[id].owner
         /\ instance'[id] # None =>
              instance[id] # None \/ \E r \in Requests : Add(r) /\ req[r].id = id
<1> USE DEF IInv, TypeOK
<1>1. ASSUME NEW r \in Requests, Add(r)
      PROVE  /\ instance[id] # None => instance'[id] = instance[id]
             /\ instance[id] = None /\ instance'[id] # None => req[r].id = id
  BY <1>1 DEF Add, RequestShape
<1>2. ASSUME NEW r \in Requests, Acquired(r)
      PROVE  /\ instance[id] # None => /\ instance'[id] # None
                                      /\ instance'[id].page = instance[id].page
                                      /\ instance'[id].owner = instance[id].owner
             /\ instance'[id] # None => instance[id] # None
  <2>1. req[r].id \in Known
    BY <1>2 DEF Acquired, RequestShape
  <2>2. instance' = [instance EXCEPT ![req[r].id].last = stamp[r], ![req[r].id].used = clock]
    BY <1>2 DEF Acquired
  <2>3. CASE id = req[r].id
    <3>1. instance[id] \in Instance /\ stamp[r] \in 0..MaxTime
      BY <2>1, <2>3 DEF Known
    <3>2. instance'[id] = [instance[id] EXCEPT !.last = stamp[r], !.used = clock]
      BY <2>2, <2>3
    <3>3. instance'[id] \in Instance
      BY <3>1, <3>2 DEF Instance
    <3> QED BY <2>1, <2>3, <3>1, <3>2, <3>3, NoneAssumption DEF Instance, Known
  <2>4. CASE id # req[r].id
    BY <2>2, <2>4
  <2> QED BY <2>3, <2>4
<1> QED BY <1>1, <1>2, SharedChanges

LEMMA KnownStep ==
  ASSUME IInv, [Next]_vars
  PROVE  /\ Known \subseteq Known'
         /\ \A r \in Requests : Add(r) => Known' \subseteq Known \cup {req[r].id}
<1>1. Known \subseteq Known'
  BY InstanceStep DEF Known
<1>2. ASSUME NEW r \in Requests, Add(r), NEW id \in Ids, instance'[id] # None, instance[id] = None
      PROVE  id = req[r].id
  BY <1>2 DEF Add, IInv, TypeOK, RequestShape
<1> QED BY <1>1, <1>2 DEF Known

-----------------------------------------------------------------------------
(* The invariant is inductive.                                             *)

LEMMA InstancesKnownNext ==
  ASSUME IInv, [Next]_vars
  PROVE  instances' \subseteq Known'
<1>1. ASSUME NEW r \in Requests, Add(r) PROVE instances' \subseteq Known'
  <2>1. req[r] \in Request /\ req[r].id \in Ids
    BY <1>1 DEF Add, IInv, RequestShape
  <2>2. instance'[req[r].id] \in Instance
    BY <1>1, <2>1 DEF Add, IInv, TypeOK, Request, Instance
  <2>3. req[r].id \in Known'
    BY <2>1, <2>2, NoneAssumption DEF Known, Instance
  <2>4. instances' \subseteq instances \cup {req[r].id}
    BY <1>1 DEF Add, Swept
  <2> QED BY <2>3, <2>4, KnownStep DEF IInv
<1> QED BY <1>1, SharedChanges, KnownStep DEF IInv

LEMMA RequestShapeNext ==
  ASSUME IInv, [Next]_vars
  PROVE  RequestShape'
<1> SUFFICES ASSUME NEW q \in Requests
             PROVE  /\ pc'[q] # "idle" => req'[q] \in Request
                    /\ pc'[q] = "received" => req'[q].id \in Known' \cup {None}
                    /\ pc'[q] = "adding" => req'[q].id \in Ids /\ instance'[req'[q].id] = None
                    /\ pc'[q] = "acquiring" => req'[q].id \in Known'
                    /\ pc'[q] \in Holding \cup {"waiting"} =>
                         req'[q].id \in Known' /\ Owns(q, req[q].id)'
  BY DEF RequestShape, Owns
<1> DEFINE Shape ==
             /\ pc'[q] # "idle" => req'[q] \in Request
             /\ pc'[q] = "received" => req'[q].id \in Known' \cup {None}
             /\ pc'[q] = "adding" => req'[q].id \in Ids /\ instance'[req'[q].id] = None
             /\ pc'[q] = "acquiring" => req'[q].id \in Known'
             /\ pc'[q] \in Holding \cup {"waiting"} =>
                  req'[q].id \in Known' /\ Owns(q, req[q].id)'
<1>1. Known \subseteq Known' /\ Known \subseteq Ids
  BY KnownStep DEF Known
<1>2. ASSUME req'[q] = req[q], req[q].id \in Known, Owns(q, req[q].id)
      PROVE  Owns(q, req[q].id)'
  BY <1>1, <1>2, InstanceStep DEF Owns, Known
<1>3. CASE Unmoved(q)
  <2>1. CASE pc[q] = "adding"
    <3>1. \A r \in Requests : Add(r) => req[r].id # req[q].id
      BY <1>3, <2>1 DEF Add, Answer, Finish, Goto, Unmoved, IInv, TypeOK, DistinctNewIds
    <3>2. instance'[req[q].id] = None
      BY <2>1, <3>1, InstanceStep DEF IInv, RequestShape
    <3> QED BY <1>3, <2>1, <3>2 DEF Unmoved, IInv, RequestShape, Holding
  <2>2. CASE pc[q] # "adding"
    BY <1>1, <1>2, <1>3, <2>2 DEF Unmoved, IInv, RequestShape
  <2> QED BY <2>1, <2>2
<1>4. CASE Ended(q)
  BY <1>4 DEF Ended, Holding
<1>5. CASE Unwinding(q)
  BY <1>1, <1>2, <1>5 DEF Unwinding, IInv, RequestShape, Holding
<1>6. CASE Advancing(q)
  <2>1. CASE Authenticated(q)
    <3>1. pc'[q] = "received"
      BY <2>1 DEF Authenticated, Goto, IInv, TypeOK
    <3>2. PICK op \in Operations, page \in Pages, owner \in Owners, id \in Known \cup {None} :
            req'[q] = [op |-> op, page |-> page, owner |-> owner, id |-> id]
      BY <2>1 DEF Authenticated, IInv, TypeOK
    <3>3. req'[q] \in Request
      BY <1>1, <3>2 DEF Request
    <3> QED BY <1>1, <3>1, <3>2, <3>3 DEF Holding
  <2>2. CASE RenderAuthorized(q)
    BY <2>2 DEF RenderAuthorized, Goto, IInv, TypeOK, RequestShape, Holding
  <2>3. CASE Rendered(q)
    <3>1. pc'[q] = "adding" /\ req[q] \in Request /\ UNCHANGED instance
      BY <2>3 DEF Rendered, Goto, IInv, TypeOK, RequestShape
    <3>2. PICK id \in Ids : Fresh(id) /\ req'[q] = [req[q] EXCEPT !.id = id]
      BY <2>3 DEF Rendered, IInv, TypeOK
    <3>3. req'[q] \in Request /\ req'[q].id = id
      BY <3>1, <3>2 DEF Request
    <3> QED BY <3>1, <3>2, <3>3 DEF Fresh, Holding
  <2>4. CASE EventReceived(q)
    BY <1>1, <2>4 DEF EventReceived, Goto, IInv, TypeOK, RequestShape, Holding
  <2>5. CASE Acquired(q)
    <3>1. pc'[q] = "waiting" /\ req'[q] = req[q] /\ req[q] \in Request /\ req[q].id \in Known
      BY <2>5 DEF Acquired, Goto, IInv, TypeOK, RequestShape
    <3>2. Owns(q, req[q].id)
      BY <2>5 DEF Acquired, Matches, Owns
    <3> QED BY <1>1, <1>2, <3>1, <3>2 DEF Holding
  <2>6. CASE Lock(q) \/ Handle(q)
    <3>1. /\ pc[q] \in Holding \cup {"waiting"} /\ pc'[q] \in Holding
          /\ req'[q] = req[q] /\ req[q] \in Request /\ req[q].id \in Known /\ Owns(q, req[q].id)
      BY <2>6 DEF Lock, Handle, Goto, IInv, TypeOK, RequestShape, Holding
    <3> QED BY <1>1, <1>2, <3>1 DEF Holding
  <2>7. CASE Release(q)
    BY <2>7 DEF Release, Finish, Goto, IInv, TypeOK, Holding
  <2> QED BY <1>6, <2>1, <2>2, <2>3, <2>4, <2>5, <2>6, <2>7 DEF Advancing
<1>7. CASE Restart
  BY <1>7 DEF Restart, Holding
<1> QED BY <1>3, <1>4, <1>5, <1>6, <1>7, RequestMoves DEF IInv

LEMMA DistinctNewIdsNext ==
  ASSUME IInv, [Next]_vars
  PROVE  DistinctNewIds'
<1>1. ASSUME NEW q \in Requests, pc'[q] = "adding"
      PROVE  \/ pc[q] = "adding" /\ req'[q] = req[q]
             \/ Rendered(q) /\ Fresh(req'[q].id)
  <2>1. ~Ended(q) /\ ~Unwinding(q) /\ ~Restart
    BY <1>1 DEF Ended, Unwinding, Restart
  <2>2. CASE Advancing(q)
    <3>1. Rendered(q)
      BY <1>1, <2>2 DEF Advancing, Authenticated, RenderAuthorized, EventReceived, Acquired,
                        Lock, Handle, Release, Finish, Goto, IInv, TypeOK
    <3>2. PICK id \in Ids : Fresh(id) /\ req'[q] = [req[q] EXCEPT !.id = id]
      BY <3>1 DEF Rendered, IInv, TypeOK
    <3>3. req[q] \in Request
      BY <3>1 DEF Rendered, IInv, RequestShape
    <3> QED BY <3>1, <3>2, <3>3 DEF Request
  <2>3. CASE Unmoved(q)
    BY <1>1, <2>3 DEF Unmoved
  <2> QED BY <2>1, <2>2, <2>3, RequestMoves DEF IInv
<1>2. ASSUME NEW q \in Requests, NEW p \in Requests, p # q, Rendered(q), pc'[p] = "adding"
      PROVE  pc[p] = "adding" /\ req'[p] = req[p]
  BY <1>2 DEF Rendered, Goto, IInv, TypeOK
<1> QED BY <1>1, <1>2 DEF DistinctNewIds, Fresh, IInv

LEMMA MutexNext ==
  ASSUME IInv, [Next]_vars
  PROVE  MutexHeldByHandlers'
<1> SUFFICES ASSUME NEW id \in Ids, NEW q \in Requests
             PROVE  mutex'[id] = q <=> pc'[q] \in Holding /\ req'[q].id = id
  BY DEF MutexHeldByHandlers
<1> DEFINE Held == mutex'[id] = q <=> pc'[q] \in Holding /\ req'[q].id = id
<1> USE DEF IInv, TypeOK
<1>1. ASSUME NEW r \in Requests, Lock(r) PROVE Held
  <2>1. pc[r] \notin Holding /\ pc'[r] \in Holding /\ req' = req /\ req[r].id \in Ids
    BY <1>1 DEF Lock, Goto, Holding, RequestShape, Known
  <2>2. CASE q = r
    BY <1>1, <2>1, <2>2 DEF Lock, MutexHeldByHandlers
  <2>3. CASE q # r
    BY <1>1, <2>1, <2>3, NoneAssumption DEF Lock, Goto, MutexHeldByHandlers
  <2> QED BY <2>2, <2>3
<1>2. ASSUME NEW r \in Requests, Release(r) PROVE Held
  <2>1. pc[r] \in Holding /\ pc'[r] \notin Holding /\ req[r].id \in Ids
    BY <1>2 DEF Release, Finish, Goto, Holding, RequestShape, Known
  <2>2. mutex[req[r].id] = r
    BY <2>1 DEF MutexHeldByHandlers
  <2>3. CASE q = r
    BY <1>2, <2>1, <2>3, NoneAssumption DEF Release, MutexHeldByHandlers
  <2>4. CASE q # r
    BY <1>2, <2>1, <2>2, <2>4, NoneAssumption DEF Release, Finish, Goto, MutexHeldByHandlers
  <2> QED BY <2>3, <2>4
<1>3. CASE Restart
  BY <1>3, NoneAssumption DEF Restart, Holding
<1>4. ASSUME UNCHANGED mutex, \A r \in Requests : ~Lock(r) /\ ~Release(r), ~Restart
      PROVE  Held
  <2>1. \/ Unmoved(q)
        \/ Ended(q) \/ Unwinding(q) \/ Handle(q)
        \/ Authenticated(q) \/ RenderAuthorized(q) \/ Rendered(q) \/ EventReceived(q) \/ Acquired(q)
    BY <1>4, RequestMoves DEF Advancing
  <2>2. CASE Unmoved(q)
    BY <1>4, <2>2 DEF Unmoved, MutexHeldByHandlers
  <2>3. CASE Ended(q)
    BY <1>4, <2>3 DEF Ended, MutexHeldByHandlers, Holding
  <2>4. CASE Unwinding(q)
    BY <1>4, <2>4 DEF Unwinding, MutexHeldByHandlers, Holding
  <2>5. CASE Handle(q)
    BY <1>4, <2>5 DEF Handle, Goto, MutexHeldByHandlers, Holding
  <2>6. CASE Authenticated(q) \/ RenderAuthorized(q) \/ Rendered(q) \/ EventReceived(q) \/ Acquired(q)
    <3>1. pc[q] \notin Holding /\ pc'[q] \notin Holding
      BY <2>6 DEF Authenticated, RenderAuthorized, Rendered, EventReceived, Acquired, Goto, Holding
    <3> QED BY <1>4, <3>1 DEF MutexHeldByHandlers
  <2> QED BY <2>1, <2>2, <2>3, <2>4, <2>5, <2>6
<1>5. ASSUME \A r \in Requests : ~Lock(r) /\ ~Release(r), ~Restart
      PROVE  UNCHANGED mutex
  BY <1>5, SharedChanges
<1> QED BY <1>1, <1>2, <1>3, <1>4, <1>5

LEMMA LimitNext ==
  ASSUME IInv, [Next]_vars
  PROVE  LimitRespected'
<1>1. IsFiniteSet(instances)
  BY IdsAssumption, FS_Subset DEF IInv, TypeOK
<1>2. ASSUME instances' \subseteq instances PROVE LimitRespected'
  <2>1. Cardinality(instances') <= Cardinality(instances)
    BY <1>1, <1>2, FS_Subset
  <2>2. Cardinality(instances) \in Nat /\ Cardinality(instances') \in Nat
    BY <1>1, <1>2, FS_Subset, FS_CardinalityType
  <2> QED BY <2>1, <2>2, LimitAssumption DEF LimitRespected, IInv
<1>3. ASSUME NEW r \in Requests, Add(r) PROVE LimitRespected'
  <2> DEFINE S == Swept(stamp[r])
             x == req[r].id
  <2>1. S \subseteq instances /\ instances' = S \cup {x} /\ Cardinality(S) < MaxInstances
    BY <1>3 DEF Add, HasRoom, Swept
  <2> HIDE DEF S, x
  <2>2. IsFiniteSet(S) /\ Cardinality(S) \in Nat
    BY <1>1, <2>1, FS_Subset, FS_CardinalityType
  <2>3. Cardinality(S \cup {x}) = IF x \in S THEN Cardinality(S) ELSE Cardinality(S) + 1
    BY <2>2, FS_AddElement
  <2>4. Cardinality(S \cup {x}) <= MaxInstances
    BY <2>1, <2>2, <2>3, LimitAssumption
  <2> QED BY <2>1, <2>4 DEF LimitRespected
<1> QED BY <1>2, <1>3, SharedChanges

LEMMA StampMoves ==
  ASSUME TypeOK, [Next]_vars, NEW q \in Requests
  PROVE  stamp'[q] \in {0, clock, stamp[q]}
<1>1. ASSUME NEW r \in Requests, NEW code, Answer(r, code) \/ AnswerHolding(r, code)
      PROVE  stamp'[q] \in {0, stamp[q]}
  BY <1>1 DEF Answer, AnswerHolding, Finish, TypeOK
<1>2. ASSUME NEW r \in Requests, Begin(r) \/ Render(r)
      PROVE  stamp'[q] \in {0, clock, stamp[q]}
  BY <1>1, <1>2 DEF Begin, Render, Authenticated, Unauthenticated, MissingId, RenderRefused,
                    RenderAuthorized, RenderFailed, Rendered, Add, AddFull, TypeOK
<1>3. ASSUME NEW r \in Requests, Acquire(r)
      PROVE  stamp'[q] \in {0, clock, stamp[q]}
  BY <1>1, <1>3 DEF Acquire, EventReceived, AcquireMissing, AcquireExpired, AcquireForeign,
                    Acquired, Lock, TypeOK
<1>4. ASSUME NEW r \in Requests, Run(r) \/ Close(r)
      PROVE  stamp'[q] \in {0, clock, stamp[q]}
  BY <1>1, <1>4 DEF Run, Close, EventRefused, Handle, Handled, Release, Finish, Delete,
                    DeleteMissing, TypeOK
<1>5. CASE Tick \/ Restart \/ UNCHANGED vars
  BY <1>5 DEF Tick, Restart, vars
<1> QED BY <1>2, <1>3, <1>4, <1>5 DEF Next

LEMMA ClockMoves ==
  ASSUME TypeOK, [Next]_vars
  PROVE  clock' \in Nat /\ clock <= clock'
<1>1. ASSUME NEW r \in Requests, Begin(r) \/ Render(r) PROVE UNCHANGED clock
  BY <1>1 DEF Begin, Render, Authenticated, Unauthenticated, MissingId, RenderRefused,
              RenderAuthorized, RenderFailed, Rendered, Add, AddFull
<1>2. ASSUME NEW r \in Requests, Acquire(r) \/ Run(r) \/ Close(r) PROVE UNCHANGED clock
  BY <1>2 DEF Acquire, EventReceived, AcquireMissing, AcquireExpired, AcquireForeign, Acquired,
              Lock, Run, EventRefused, Handle, Handled, Release, Close, Delete, DeleteMissing
<1>3. CASE UNCHANGED clock
  BY <1>3, TimeAssumption DEF TypeOK
<1>4. CASE Tick
  BY <1>4, TimeAssumption DEF Tick, TypeOK
<1>5. CASE Restart \/ UNCHANGED vars
  BY <1>3, <1>5 DEF Restart, vars
<1> QED BY <1>1, <1>2, <1>3, <1>4, <1>5 DEF Next

LEMMA StampsNext ==
  ASSUME IInv, [Next]_vars
  PROVE  StampsPast'
<1>1. ASSUME NEW r \in Requests PROVE stamp'[r] <= clock'
  BY TimeAssumption, StampMoves, ClockMoves DEF IInv, TypeOK, StampsPast
<1>2. ASSUME NEW id \in Ids, instance'[id] # None PROVE instance'[id].last <= clock'
  <2>1. clock \in Nat /\ clock' \in Nat /\ clock <= clock'
    BY ClockMoves, TimeAssumption DEF IInv, TypeOK
  <2>2. CASE UNCHANGED instance
    <3>1. instance[id] \in Instance /\ instance[id].last <= clock
      BY <1>2, <2>2 DEF IInv, TypeOK, StampsPast, Known
    <3>2. instance[id].last \in Nat
      BY <3>1, TimeAssumption DEF Instance
    <3> QED BY <2>1, <2>2, <3>1, <3>2
  <2>3. ASSUME NEW r \in Requests, Add(r) \/ Acquired(r) PROVE instance'[id].last <= clock'
    <3>1. stamp[r] \in Nat /\ stamp[r] <= clock
      BY TimeAssumption DEF IInv, TypeOK, StampsPast
    <3>2. instance'[id].last = stamp[r] \/ instance'[id] = instance[id]
      <4>1. CASE Add(r)
        BY <4>1 DEF Add, IInv, TypeOK
      <4>2. CASE Acquired(r)
        <5>1. CASE id = req[r].id
          <6>1. instance[id] \in Instance
            BY <4>2, <5>1 DEF Acquired, IInv, TypeOK, RequestShape, Known
          <6>2. instance'[id] = [instance[id] EXCEPT !.last = stamp[r], !.used = clock]
            BY <4>2, <5>1 DEF Acquired, IInv, TypeOK
          <6> QED BY <6>1, <6>2 DEF Instance
        <5>2. CASE id # req[r].id
          BY <4>2, <5>2 DEF Acquired, IInv, TypeOK
        <5> QED BY <5>1, <5>2
      <4> QED BY <2>3, <4>1, <4>2
    <3>3. CASE instance'[id] = instance[id]
      <4>1. instance[id] \in Instance /\ instance[id].last <= clock
        BY <1>2, <3>3 DEF IInv, TypeOK, StampsPast, Known
      <4>2. instance[id].last \in Nat
        BY <4>1, TimeAssumption DEF Instance
      <4> QED BY <2>1, <3>3, <4>1, <4>2
    <3> QED BY <2>1, <3>1, <3>2, <3>3
  <2> QED BY <2>2, <2>3, SharedChanges
<1> QED BY <1>1, <1>2 DEF StampsPast, Known

LEMMA InitInductive == Init => IInv
<1> SUFFICES ASSUME Init PROVE IInv
  OBVIOUS
<1>1. Known = {}
  BY DEF Init, Known
<1>2. LimitRespected
  BY FS_EmptySet, LimitAssumption DEF Init, LimitRespected
<1>3. StampsPast
  BY <1>1 DEF Init, StampsPast
<1>4. RequestShape /\ DistinctNewIds
  BY DEF Init, RequestShape, DistinctNewIds, Holding
<1>5. MutexHeldByHandlers
  BY NoneAssumption DEF Init, MutexHeldByHandlers, Holding
<1> QED BY <1>1, <1>2, <1>3, <1>4, <1>5, TypeInit DEF Init, IInv

LEMMA NextInductive == IInv /\ [Next]_vars => IInv'
<1> SUFFICES ASSUME IInv, [Next]_vars PROVE IInv'
  OBVIOUS
<1>1. TypeOK'
  BY TypeNext DEF IInv
<1> QED BY <1>1, InstancesKnownNext, RequestShapeNext, DistinctNewIdsNext, MutexNext, LimitNext,
           StampsNext DEF IInv

\* The inductive invariant holds in every reachable state.
THEOREM Invariance == Spec => []IInv
<1>1. Init => IInv
  BY InitInductive
<1>2. IInv /\ [Next]_vars => IInv'
  BY NextInductive
<1> QED BY <1>1, <1>2, PTL DEF Spec

\* Every variable keeps its type: no status, id or time outside its range.
THEOREM TypeCorrect == Spec => []TypeOK
<1>1. IInv => TypeOK
  BY DEF IInv
<1> QED BY <1>1, Invariance, PTL

\* However many renders end at once, no more than MaxInstances pages are kept.
THEOREM LimitHolds == Spec => []LimitRespected
<1>1. IInv => LimitRespected
  BY DEF IInv
<1> QED BY <1>1, Invariance, PTL

\* instance.mu is held by exactly the requests between Acquire and Release.
THEOREM MutexDiscipline == Spec => []MutexHeldByHandlers
<1>1. IInv => MutexHeldByHandlers
  BY DEF IInv
<1> QED BY <1>1, Invariance, PTL

\* Two events never run on one instance at the same time, in any number of
\* requests, even when the instance is closed or swept while one of them runs.
THEOREM HandlersSerialized == Spec => []Serialized
<1>1. IInv => Serialized
  BY DEF IInv, RequestShape, MutexHeldByHandlers, Serialized, Known
<1> QED BY <1>1, Invariance, PTL

\* Only the principal that rendered an instance, and only on its page, is ever let
\* through to it.
THEOREM OnlyOwners == Spec => []OnlyOwnerAdmitted
<1>1. IInv => OnlyOwnerAdmitted
  BY DEF IInv, RequestShape, OnlyOwnerAdmitted
<1> QED BY <1>1, Invariance, PTL

\* A closed instance is never open again: NewID's ids are new, and nothing puts an
\* object that a request still holds back into the map.
THEOREM ClosedForGood == Spec => NoResurrection
<1>1. IInv /\ [Next]_vars => [\A id \in Known : id \notin instances => id \notin instances']_vars
  <2> SUFFICES ASSUME IInv, [Next]_vars, NEW id \in Known, id \notin instances
               PROVE  id \notin instances'
    OBVIOUS
  <2>1. ASSUME NEW r \in Requests, Add(r) PROVE id \notin instances'
    BY <2>1 DEF Add, Swept, IInv, RequestShape, Known
  <2> QED BY <2>1, SharedChanges
<1> QED BY <1>1, Invariance, PTL DEF Spec, NoResurrection

-----------------------------------------------------------------------------
(* Why instances leave the map.                                            *)

LEMMA ExpiredMeansIdle ==
  ASSUME IInv, NEW id \in Known, NEW r \in Requests, Expired(id, stamp[r])
  PROVE  ReallyIdle(id) \/ SetBack(id)
<1>1. instance[id] \in Instance /\ stamp[r] \in Nat /\ clock \in Nat /\ stamp[r] <= clock
  BY TimeAssumption DEF IInv, TypeOK, Known, StampsPast
<1>2. instance[id].last \in Nat /\ instance[id].used \in Nat
  BY <1>1, TimeAssumption DEF Instance
<1> QED BY <1>1, <1>2, TTLAssumption DEF Expired, ReallyIdle, SetBack

LEMMA WhyClosed ==
  ASSUME IInv, [Next]_vars, NEW id \in instances, id \notin instances'
  PROVE  \/ Restart
         \/ ReallyIdle(id)
         \/ SetBack(id)
         \/ \E r \in Requests : ClosedBy(r, id)
<1>1. id \in Known
  BY DEF IInv
<1>2. ASSUME NEW r \in Requests, Begin(r) \/ Run(r) PROVE FALSE
  BY <1>2, BeginFrame, RunFrame
<1>3. ASSUME NEW r \in Requests, Render(r) PROVE ReallyIdle(id) \/ SetBack(id)
  <2>1. id \notin Swept(stamp[r])
    BY <1>3 DEF Render, RenderRefused, RenderAuthorized, RenderFailed, Rendered, Add, AddFull
  <2> QED BY <1>1, <2>1, ExpiredMeansIdle DEF Swept
<1>4. ASSUME NEW r \in Requests, Acquire(r) PROVE ReallyIdle(id) \/ SetBack(id)
  <2>1. Expired(id, stamp[r])
    BY <1>4 DEF Acquire, EventReceived, AcquireMissing, AcquireExpired, AcquireForeign, Acquired, Lock
  <2> QED BY <1>1, <2>1, ExpiredMeansIdle
<1>5. ASSUME NEW r \in Requests, Close(r)
      PROVE  ClosedBy(r, id)
  BY <1>5 DEF ClosedBy, Close, Delete, DeleteMissing, Deletable, Matches, Owns
<1>6. CASE Tick \/ UNCHANGED vars
  BY <1>6 DEF Tick, vars
<1> QED BY <1>2, <1>3, <1>4, <1>5, <1>6 DEF Next

\* An instance disappears only when its owner closes it, with the process, or because of
\* time: idle for more than TTL by what the clock was when somebody was last let through,
\* or by the older time that this last one had read and stored.
THEOREM ClosedForAReason == Spec => ClosedByOwnerOrIdle
<1>1. IInv /\ [Next]_vars => [\A id \in instances \ instances' :
         \/ Restart
         \/ ReallyIdle(id)
         \/ SetBack(id)
         \/ \E r \in Requests : ClosedBy(r, id)]_vars
  BY WhyClosed
<1> QED BY <1>1, Invariance, PTL DEF Spec, ClosedByOwnerOrIdle

-----------------------------------------------------------------------------
(* What requests are told.                                                 *)

\* No status is set before the answer, as far as a render has to wait for it.
Unanswered ==
  \A r \in Requests : pc[r] \in {"received", "authorized", "adding"} => status[r] = 0

Step(r) == Begin(r) \/ Render(r) \/ Acquire(r) \/ Run(r) \/ Close(r)

\* A step of one request neither moves nor answers another.
LEMMA StepIsOwn ==
  ASSUME TypeOK, NEW r \in Requests, NEW q \in Requests, Step(r), q # r
  PROVE  pc'[q] = pc[q] /\ status'[q] = status[q]
<1>1. ASSUME NEW code, Answer(r, code) \/ AnswerHolding(r, code)
      PROVE  pc'[q] = pc[q] /\ status'[q] = status[q]
  BY <1>1 DEF Answer, AnswerHolding, Finish, Goto, TypeOK
<1>2. CASE Begin(r)
  BY <1>1, <1>2 DEF Begin, Authenticated, Unauthenticated, MissingId, Goto, TypeOK
<1>3. CASE Render(r)
  BY <1>1, <1>3 DEF Render, RenderRefused, RenderAuthorized, RenderFailed, Rendered, Add, AddFull,
                    Goto, TypeOK
<1>4. CASE Acquire(r)
  BY <1>1, <1>4 DEF Acquire, EventReceived, AcquireMissing, AcquireExpired, AcquireForeign,
                    Acquired, Lock, Goto, TypeOK
<1>5. CASE Run(r)
  BY <1>1, <1>5 DEF Run, EventRefused, Handle, Handled, Release, Finish, Goto, TypeOK
<1>6. CASE Close(r)
  BY <1>1, <1>6 DEF Close, Delete, DeleteMissing
<1> QED BY <1>2, <1>3, <1>4, <1>5, <1>6 DEF Step

LEMMA WhoMoves ==
  ASSUME TypeOK, [Next]_vars, NEW q \in Requests
  PROVE  \/ pc'[q] = pc[q] /\ status'[q] = status[q]
         \/ Step(q)
         \/ pc'[q] = "idle" /\ status'[q] = 0
<1>1. ASSUME NEW r \in Requests, Step(r)
      PROVE  (pc'[q] = pc[q] /\ status'[q] = status[q]) \/ Step(q)
  <2>1. CASE q = r
    BY <1>1, <2>1
  <2>2. CASE q # r
    BY <1>1, <2>2, StepIsOwn
  <2> QED BY <2>1, <2>2
<1>2. CASE Tick \/ UNCHANGED vars
  BY <1>2 DEF Tick, vars
<1>3. CASE Restart
  BY <1>3 DEF Restart
<1> QED BY <1>1, <1>2, <1>3 DEF Next, Step

\* The labels a request has once it has been answered or is on its way to the handler.
LEMMA Answered ==
  ASSUME TypeOK, NEW q \in Requests, NEW code,
         Answer(q, code) \/ AnswerHolding(q, code)
  PROVE  pc'[q] \in {"idle", "releasing"} /\ status'[q] = code
  BY DEF Answer, AnswerHolding, Finish, Goto, TypeOK

LEMMA UnansweredNext ==
  ASSUME TypeOK, Unanswered, [Next]_vars
  PROVE  Unanswered'
<1> SUFFICES ASSUME NEW q \in Requests, pc'[q] \in {"received", "authorized", "adding"}
             PROVE  status'[q] = 0
  BY DEF Unanswered
<1>1. CASE pc'[q] = pc[q] /\ status'[q] = status[q]
  BY <1>1 DEF Unanswered
<1>2. ASSUME NEW code PROVE ~Answer(q, code) /\ ~AnswerHolding(q, code)
  BY Answered
<1>3. CASE Begin(q)
  BY <1>2, <1>3 DEF Begin, Authenticated, Unauthenticated, MissingId, TypeOK
<1>4. CASE Render(q)
  BY <1>2, <1>4 DEF Render, RenderRefused, RenderAuthorized, RenderFailed, Rendered, Add, AddFull,
                    Unanswered
<1>5. CASE Acquire(q) \/ Run(q) \/ Close(q)
  <2>1. pc'[q] \notin {"received", "authorized", "adding"}
    BY <1>2, <1>5 DEF Acquire, EventReceived, AcquireMissing, AcquireExpired, AcquireForeign,
         Acquired, Lock, Run, EventRefused, Handle, Handled, Release, Finish, Close, Delete,
         DeleteMissing, Goto, TypeOK
  <2> QED BY <2>1
<1>6. CASE pc'[q] = "idle"
  BY <1>6
<1> QED BY <1>1, <1>3, <1>4, <1>5, <1>6, WhoMoves DEF Step

\* What the sweep leaves are the instances used within the TTL.
LEMMA SweptAreInUse ==
  ASSUME IInv, NEW r \in Requests
  PROVE  Swept(stamp[r]) = {id \in instances : stamp[r] - instance[id].last <= TTL}
<1>1. ASSUME NEW id \in instances
      PROVE  ~Expired(id, stamp[r]) <=> stamp[r] - instance[id].last <= TTL
  <2>1. instance[id] \in Instance /\ stamp[r] \in Nat
    BY TimeAssumption DEF IInv, TypeOK, Known
  <2>2. instance[id].last \in Nat
    BY <2>1, TimeAssumption DEF Instance
  <2> QED BY <2>1, <2>2, TTLAssumption DEF Expired
<1> QED BY <1>1 DEF Swept

LEMMA WhyFull ==
  ASSUME IInv, Unanswered, [Next]_vars, NEW q \in Requests, pc[q] = "adding", status'[q] = 503
  PROVE  Cardinality({id \in instances : stamp[q] - instance[id].last <= TTL}) >= MaxInstances
<1>1. Step(q)
  BY WhoMoves DEF IInv, Unanswered
<1>2. AddFull(q)
  <2>1. Add(q) \/ AddFull(q)
    BY <1>1 DEF Step, Begin, Authenticated, Unauthenticated, MissingId, Render, RenderRefused,
         RenderAuthorized, RenderFailed, Rendered, Acquire, EventReceived, AcquireMissing,
         AcquireExpired, AcquireForeign, Acquired, Lock, Run, EventRefused, Handle, Handled,
         Release, Close, Delete, DeleteMissing
  <2>2. ~Add(q)
    BY Answered DEF Add, IInv
  <2> QED BY <2>1, <2>2
<1> DEFINE S == Swept(stamp[q])
<1>3. IsFiniteSet(S)
  BY IdsAssumption, FS_Subset DEF Swept, IInv, TypeOK
<1>4. Cardinality(S) \in Nat
  BY <1>3, FS_CardinalityType
<1>5. ~(Cardinality(S) < MaxInstances)
  BY <1>2 DEF AddFull, HasRoom
<1> HIDE DEF S
<1>6. Cardinality(S) >= MaxInstances
  BY <1>4, <1>5, LimitAssumption
<1> QED BY <1>6, SweptAreInUse DEF S

\* A render is told 503 by the manager only when MaxInstances pages were used within the
\* TTL: whatever has expired is swept before the limit is compared.
THEOREM FullWhenBusy == Spec => FullOnlyWhenBusy
<1>1. Init => Unanswered
  BY DEF Init, Unanswered
<1>2. IInv => TypeOK
  BY DEF IInv
<1>3. TypeOK /\ Unanswered /\ [Next]_vars => Unanswered'
  BY UnansweredNext
<1>4. IInv /\ Unanswered /\ [Next]_vars => [\A r \in Requests :
         pc[r] = "adding" /\ status'[r] = 503 =>
           Cardinality({id \in instances : stamp[r] - instance[id].last <= TTL}) >= MaxInstances]_vars
  BY WhyFull
<1> QED BY <1>1, <1>2, <1>3, <1>4, Invariance, PTL DEF Spec, FullOnlyWhenBusy

LEMMA WhyNotFound ==
  ASSUME IInv, [Next]_vars, NEW q \in Requests, pc[q] \in {"acquiring", "received"},
         pc'[q] = "idle", status'[q] \in {404, 410}
  PROVE  req[q].id \notin instances' \/ ~Owns(q, req[q].id)
<1>1. Step(q)
  BY WhoMoves DEF IInv
<1>2. \A code : Answer(q, code) => status'[q] = code
  BY Answered DEF IInv
<1>3. AcquireMissing(q) \/ AcquireExpired(q) \/ AcquireForeign(q) \/ DeleteMissing(q)
  <2>1. CASE Begin(q)
    BY <1>2, <2>1 DEF Begin, Authenticated, Unauthenticated, MissingId, Goto, IInv, TypeOK
  <2>2. CASE Render(q)
    BY <1>2, <2>2 DEF Render, RenderRefused, RenderAuthorized, RenderFailed, Rendered, Add,
                      AddFull, Goto, IInv, TypeOK
  <2>3. CASE Acquire(q)
    BY <2>3 DEF Acquire, EventReceived, Acquired, Lock, Goto, IInv, TypeOK
  <2>4. CASE Run(q)
    BY <2>4 DEF Run, EventRefused, Handle, Handled, Release
  <2>5. CASE Close(q)
    BY <1>2, <2>5 DEF Close, Delete
  <2> QED BY <1>1, <2>1, <2>2, <2>3, <2>4, <2>5 DEF Step
<1> QED BY <1>3 DEF AcquireMissing, AcquireExpired, AcquireForeign, DeleteMissing, Deletable,
                    Matches, Owns

\* Whoever asks for its own live instance on the instance's page is not told 404 or 410,
\* neither for an event nor for a DELETE, whatever other requests close or sweep.
THEOREM OwnInstanceServed == Spec => OwnLiveInstanceServed
<1>1. IInv /\ [Next]_vars => [\A r \in Requests :
         pc[r] \in {"acquiring", "received"} /\ pc'[r] = "idle" /\ status'[r] \in {404, 410} =>
           req[r].id \notin instances' \/ ~Owns(r, req[r].id)]_vars
  BY WhyNotFound
<1> QED BY <1>1, Invariance, PTL DEF Spec, OwnLiveInstanceServed

-----------------------------------------------------------------------------
(* The refinement of InstanceLifecycle.                                    *)

\* The mapping, under the names of the abstract variables.
Phase == [id \in Ids |-> IF id \in instances THEN "open"
                         ELSE IF instance[id] = None THEN "unborn" ELSE "closed"]
Key == [id \in Ids |-> IF instance[id] = None THEN None
                       ELSE <<instance[id].page, instance[id].owner>>]
Affordable == {ids \in SUBSET Ids : Cardinality(ids) <= MaxInstances}
Waiting == {w \in Requests : pc[w] = "waiting"}
Admitted == {<<r, req[r].id, <<req[r].page, req[r].owner>> >> : r \in Waiting}

LEMMA OpenIsInstances ==
  ASSUME TypeOK
  PROVE  Lifecycle!Open = instances
  BY DEF TypeOK, Lifecycle!Open

LEMMA MappedInit == Init => Lifecycle!Init
<1> SUFFICES ASSUME Init PROVE Lifecycle!Init
  OBVIOUS
<1>1. Phase = [id \in Ids |-> "unborn"] /\ Key = [id \in Ids |-> None]
  BY DEF Init, Phase, Key
<1>2. Admitted = {}
  BY DEF Init, Admitted, Waiting
<1> QED BY <1>1, <1>2 DEF Init, Phase, Key, Admitted, Waiting, Lifecycle!Init

\* Closing some instances, and nothing else.
LEMMA MappedClose ==
  ASSUME IInv, instances' \subseteq instances, UNCHANGED instance
  PROVE  /\ Key' = Key
         /\ \E ids \in SUBSET Lifecycle!Open : Phase' = Lifecycle!Closing(ids)
<1>1. Key' = Key
  BY DEF Key
<1>2. Phase' = Lifecycle!Closing(instances \ instances')
  <2>1. ASSUME NEW id \in Ids
        PROVE  Phase'[id] = IF id \in instances \ instances' THEN "closed" ELSE Phase[id]
    BY DEF Phase, IInv, Known
  <2> QED BY <2>1 DEF Phase, Lifecycle!Closing
<1> QED BY <1>1, <1>2, OpenIsInstances DEF IInv

LEMMA AdmittedKept ==
  ASSUME IInv, [Next]_vars, ~Restart, \A r \in Requests : ~Acquired(r) /\ ~Lock(r)
  PROVE  Admitted' = Admitted
<1>1. ASSUME NEW q \in Requests
      PROVE  /\ q \in Waiting' <=> q \in Waiting
             /\ q \in Waiting => req'[q] = req[q]
  BY RequestMoves DEF IInv, TypeOK, Waiting, Unmoved, Ended, Unwinding, Advancing, Authenticated,
                      RenderAuthorized, Rendered, EventReceived, Handle, Release, Finish, Goto, Holding
<1>2. Waiting' = Waiting
  BY <1>1 DEF Waiting
<1> QED BY <1>1, <1>2 DEF Admitted, Waiting

LEMMA MappedAdd ==
  ASSUME IInv, [Next]_vars, NEW r \in Requests, Add(r)
  PROVE  Lifecycle!Next
<1> DEFINE new == req[r].id
           ids == instances \ Swept(stamp[r])
           k == <<req[r].page, req[r].owner>>
<1>1. new \in Ids /\ instance[new] = None /\ new \notin instances /\ k \in Pages \X Owners
  BY DEF Add, IInv, RequestShape, Request, Known
<1>2. /\ ids \in SUBSET Lifecycle!Open
      /\ Lifecycle!Open \ ids = Swept(stamp[r])
  BY OpenIsInstances DEF IInv, Swept
<1>3. instance'[new] = [page |-> req[r].page, owner |-> req[r].owner, last |-> stamp[r], used |-> clock]
  BY <1>1 DEF Add, IInv, TypeOK
<1>4. instance'[new] # None
  BY <1>1, <1>3, NoneAssumption DEF Add, IInv, TypeOK, Instance, Request, RequestShape
<1>5. Phase[new] = "unborn"
  BY <1>1 DEF Phase
<1>6. Phase' = [Lifecycle!Closing(ids) EXCEPT ![new] = "open"]
  <2>1. ASSUME NEW id \in Ids
        PROVE  Phase'[id] = IF id = new THEN "open"
                            ELSE IF id \in ids THEN "closed" ELSE Phase[id]
    BY <1>1 DEF Phase, Add, Swept, IInv, TypeOK, Known
  <2>2. Lifecycle!Closing(ids) = [id \in Ids |-> IF id \in ids THEN "closed" ELSE Phase[id]]
    BY DEF Lifecycle!Closing, Phase
  <2>3. DOMAIN Phase' = Ids /\ Phase' = [id \in Ids |-> Phase'[id]]
    BY DEF Phase
  <2>4. [Lifecycle!Closing(ids) EXCEPT ![new] = "open"] =
          [id \in Ids |-> IF id = new THEN "open" ELSE IF id \in ids THEN "closed" ELSE Phase[id]]
    BY <1>1, <2>2
  <2> HIDE DEF ids, new
  <2>5. Phase' = [id \in Ids |-> IF id = new THEN "open"
                                 ELSE IF id \in ids THEN "closed" ELSE Phase[id]]
    BY <2>1, <2>3
  <2> QED BY <2>4, <2>5
<1>7. Key' = [Key EXCEPT ![new] = k]
  <2>1. ASSUME NEW id \in Ids PROVE Key'[id] = IF id = new THEN k ELSE Key[id]
    BY <1>1, <1>3, <1>4 DEF Key, Add, IInv, TypeOK
  <2> QED BY <1>1, <2>1 DEF Key
<1>8. Admitted' = Admitted
  <2>1. ~Restart /\ \A q \in Requests : ~Acquired(q) /\ ~Lock(q)
    BY DEF Add, Answer, Restart, Acquired, Lock, Finish, Goto, IInv, TypeOK
  <2> QED BY <2>1, AdmittedKept
<1>9. instances' \in Affordable /\ UNCHANGED mutex
  BY LimitNext, TypeNext DEF Add, Affordable, LimitRespected, IInv, TypeOK
<1>10. (Lifecycle!Open \ ids) \cup {new} = instances'
  BY <1>2 DEF Add
<1> HIDE DEF new, ids, k
<1>11. \E id \in Ids, key \in Pages \X Owners : \E closing \in SUBSET Lifecycle!Open :
         /\ Phase[id] = "unborn"
         /\ (Lifecycle!Open \ closing) \cup {id} \in Affordable
         /\ Phase' = [Lifecycle!Closing(closing) EXCEPT ![id] = "open"]
         /\ Key' = [Key EXCEPT ![id] = key]
         /\ Admitted' = Admitted /\ mutex' = mutex
  BY <1>1, <1>2, <1>5, <1>6, <1>7, <1>8, <1>9, <1>10
<1> QED BY <1>11
  DEF Lifecycle!Next, Lifecycle!OpenInstance, Phase, Key, Admitted, Waiting, Affordable

LEMMA MappedClosing ==
  ASSUME IInv, [Next]_vars, ~Restart,
         instances' \subseteq instances, UNCHANGED <<instance, mutex>>,
         \A r \in Requests : ~Acquired(r) /\ ~Lock(r)
  PROVE  Lifecycle!CloseInstances
<1>1. Admitted' = Admitted
  BY AdmittedKept
<1>2. \E ids \in SUBSET Lifecycle!Open :
        Phase' = Lifecycle!Closing(ids) /\ Key' = Key /\ Admitted' = Admitted /\ mutex' = mutex
  BY <1>1, MappedClose
<1> QED BY <1>2 DEF Lifecycle!CloseInstances, Phase, Key, Admitted, Waiting

LEMMA MappedAcquired ==
  ASSUME IInv, NEW r \in Requests, Acquired(r)
  PROVE  Lifecycle!Next
<1> DEFINE id == req[r].id
           entry == <<r, req[r].id, <<req[r].page, req[r].owner>> >>
<1>1. id \in Ids /\ id \in instances /\ instance[id] \in Instance
  BY DEF Acquired, IInv, TypeOK, Known
<1>2. instance' = [instance EXCEPT ![id].last = stamp[r], ![id].used = clock] /\ req' = req /\ UNCHANGED <<instances, mutex>>
  BY DEF Acquired
<1>3. instance'[id] = [instance[id] EXCEPT !.last = stamp[r], !.used = clock]
  BY <1>1, <1>2 DEF IInv, TypeOK
<1>4. instance'[id] \in Instance
  BY <1>1, <1>3 DEF Instance, IInv, TypeOK
<1>5. Key[id] = <<req[r].page, req[r].owner>>
  BY <1>1, NoneAssumption DEF Key, Instance, Acquired, Matches
<1>6. Key' = Key
  <2>1. ASSUME NEW i \in Ids PROVE Key'[i] = Key[i]
    BY <1>1, <1>2, <1>3, <1>4, NoneAssumption DEF Key, Instance, IInv, TypeOK
  <2> QED BY <2>1 DEF Key
<1>7. Phase' = Phase
  <2>1. ASSUME NEW i \in Ids PROVE Phase'[i] = Phase[i]
    BY <1>1, <1>2, <1>3, <1>4, NoneAssumption DEF Phase, Instance, IInv, TypeOK
  <2> QED BY <2>1 DEF Phase
<1>8. Waiting' = Waiting \cup {r}
  BY DEF Acquired, Goto, IInv, TypeOK, Waiting
<1>9. Admitted' = Admitted \cup {entry}
  BY <1>2, <1>8 DEF Admitted
<1>10. entry = <<r, id, Key[id]>> /\ Phase[id] = "open"
  BY <1>1, <1>5 DEF Phase
<1> HIDE DEF id, entry
<1>11. \E c \in Requests, i \in Ids :
         /\ Phase[i] = "open" /\ Admitted' = Admitted \cup {<<c, i, Key[i]>>}
         /\ Phase' = Phase /\ Key' = Key /\ mutex' = mutex
  BY <1>1, <1>2, <1>6, <1>7, <1>9, <1>10
<1> QED BY <1>11 DEF Lifecycle!Next, Lifecycle!Admit, Phase, Key, Admitted, Waiting

LEMMA MappedLock ==
  ASSUME IInv, NEW r \in Requests, Lock(r)
  PROVE  Lifecycle!Next
<1> DEFINE id == req[r].id
           k == <<req[r].page, req[r].owner>>
<1>1. id \in Ids /\ k \in Pages \X Owners /\ r \in Waiting
  BY DEF Lock, IInv, RequestShape, Known, Request, Waiting
<1>2. mutex[id] = None /\ mutex' = [mutex EXCEPT ![id] = r]
  BY DEF Lock
<1>3. Phase' = Phase /\ Key' = Key
  BY DEF Lock, Phase, Key
<1>4. Waiting' = Waiting \ {r} /\ req' = req
  BY DEF Lock, Goto, IInv, TypeOK, Waiting
<1>5. <<r, id, k>> \in Admitted
  BY <1>1 DEF Admitted
<1>6. Admitted' = Admitted \ {<<r, id, k>>}
  BY <1>4 DEF Admitted
<1> HIDE DEF id, k
<1>7. \E c \in Requests, i \in Ids :
        /\ mutex[i] = None /\ mutex' = [mutex EXCEPT ![i] = c]
        /\ \E key \in Pages \X Owners :
             <<c, i, key>> \in Admitted /\ Admitted' = Admitted \ {<<c, i, key>>}
        /\ Phase' = Phase /\ Key' = Key
  BY <1>1, <1>2, <1>3, <1>5, <1>6
<1> QED BY <1>7 DEF Lifecycle!Next, Lifecycle!Start, Phase, Key, Admitted, Waiting

LEMMA MappedRelease ==
  ASSUME IInv, [Next]_vars, NEW r \in Requests, Release(r)
  PROVE  Lifecycle!Next
<1> DEFINE id == req[r].id
<1>1. id \in Ids /\ mutex[id] = r
  BY DEF Release, IInv, RequestShape, Known, Holding, MutexHeldByHandlers
<1>2. mutex' = [mutex EXCEPT ![id] = None]
  BY DEF Release
<1>3. Phase' = Phase /\ Key' = Key
  BY DEF Release, Phase, Key
<1>4. Waiting' = Waiting /\ \A q \in Waiting : req'[q] = req[q]
  BY DEF Release, Finish, Goto, IInv, TypeOK, Waiting
<1>5. Admitted' = Admitted
  BY <1>4 DEF Admitted
<1> HIDE DEF id
<1>6. \E c \in Requests, i \in Ids :
        /\ mutex[i] = c /\ mutex' = [mutex EXCEPT ![i] = None]
        /\ Phase' = Phase /\ Key' = Key /\ Admitted' = Admitted
  BY <1>1, <1>2, <1>3, <1>5
<1> QED BY <1>6 DEF Lifecycle!Next, Lifecycle!Stop, Phase, Key, Admitted, Waiting

LEMMA MappedRestart ==
  ASSUME IInv, Restart
  PROVE  Lifecycle!Crash
<1>1. Waiting' = {}
  BY DEF Restart, Waiting
<1>2. Admitted' = {}
  BY <1>1 DEF Admitted
<1>3. Key' = Key /\ mutex' = [i \in Ids |-> None]
  BY DEF Restart, Key
<1>4. Phase' = Lifecycle!Closing(Lifecycle!Open)
  <2>1. ASSUME NEW i \in Ids
        PROVE  Phase'[i] = IF i \in instances THEN "closed" ELSE Phase[i]
    BY DEF Restart, Phase, IInv, Known
  <2> QED BY <2>1, OpenIsInstances DEF Phase, Lifecycle!Closing, IInv
<1> QED BY <1>2, <1>3, <1>4 DEF Lifecycle!Crash, Phase, Key, Admitted, Waiting

LEMMA MappedNext == IInv /\ [Next]_vars => [Lifecycle!Next]_(Lifecycle!lifecycle)
<1> SUFFICES ASSUME IInv, [Next]_vars PROVE Lifecycle!Next
  OBVIOUS
<1>1. CASE \E r \in Requests : Add(r)
  BY <1>1, MappedAdd
<1>2. CASE \E r \in Requests : Acquired(r)
  BY <1>2, MappedAcquired
<1>3. CASE \E r \in Requests : Lock(r)
  BY <1>3, MappedLock
<1>4. CASE \E r \in Requests : Release(r)
  BY <1>4, MappedRelease
<1>5. CASE Restart
  BY <1>5, MappedRestart DEF Lifecycle!Next
<1>6. CASE /\ \A r \in Requests : ~Add(r) /\ ~Acquired(r) /\ ~Lock(r) /\ ~Release(r)
           /\ ~Restart
  <2>1. instances' \subseteq instances /\ UNCHANGED <<instance, mutex>>
    BY <1>6, SharedChanges
  <2>2. Lifecycle!CloseInstances
    BY <1>6, <2>1, MappedClosing
  <2> QED BY <2>2 DEF Lifecycle!Next
<1> QED BY <1>1, <1>2, <1>3, <1>4, <1>5, <1>6

\* The manager and the HTTP handlers implement the life cycle, for any number of
\* requests, instances, pages and owners.
THEOREM Implementation == Spec => ImplementsLifecycle
<1>1. Init => Lifecycle!Init
  BY MappedInit
<1>2. IInv /\ [Next]_vars => [Lifecycle!Next]_(Lifecycle!lifecycle)
  BY MappedNext
<1> QED BY <1>1, <1>2, Invariance, PTL DEF Spec, ImplementsLifecycle, Lifecycle!Spec
=============================================================================
