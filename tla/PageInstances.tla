---------------------------- MODULE PageInstances ----------------------------
(***************************************************************************)
(* The in-memory page instances of an Application and the HTTP handlers    *)
(* that create, use and close them (app/page_instances.go,                 *)
(* app/application.go).  A render builds a Page, registers its handlers    *)
(* and stores it; every event of that page runs against the stored Page,   *)
(* under the instance's own mutex; a DELETE closes the instance; an        *)
(* instance that was idle for more than TTL is dropped by whichever call   *)
(* of the manager notices it.                                              *)
(*                                                                         *)
(* A request is a goroutine of the HTTP server.  Its steps are cut where   *)
(* it reads or writes something another request can see: the clock, the    *)
(* manager's map (a critical section of manager.mu is one step), and the   *)
(* instance's mutex.  Everything between two such points touches only the  *)
(* request's own Page and is folded into the step before it.               *)
(***************************************************************************)
EXTENDS Integers, FiniteSets

CONSTANTS
  Requests,      \* goroutines serving HTTP requests
  Ids,           \* page instance ids; NewID never repeats one (24 random bytes)
  Pages,         \* page keys
  Owners,        \* principal ids; {""} when no Authenticator is configured
  TTL,           \* pageInstanceManager.ttl
  MaxInstances,  \* pageInstanceManager.max
  MaxTime,       \* bound of the clock
  None           \* no id, no instance, no lock holder

\* newPageInstanceManager replaces a TTL or a limit that is not positive.
ASSUME TTLAssumption  == TTL \in Nat \ {0}
ASSUME LimitAssumption == MaxInstances \in Nat \ {0}
ASSUME TimeAssumption == MaxTime \in Nat
ASSUME IdsAssumption  == IsFiniteSet(Ids) /\ None \notin Ids
ASSUME NoneAssumption ==
  /\ None \notin Requests
  /\ None \notin [page : Pages, owner : Owners, last : 0..MaxTime, used : 0..MaxTime]
  /\ None \notin [op : {"render", "event", "delete"}, page : Pages, owner : Owners,
                  id : Ids \cup {None}]

VARIABLES
  clock,      \* the manager's now()
  instances,  \* the ids in the manager's map
  instance,   \* instance[id]: the object made for id, kept by those that hold a pointer
  mutex,      \* mutex[id]: the request holding instance.mu, or None
  pc,         \* where each request is
  req,        \* the request being served: operation, page route, principal, id; None if idle
  stamp,      \* the request's local variable `now`
  status      \* the HTTP status of the request's last answer, 0 before it

vars == <<clock, instances, instance, mutex, pc, req, stamp, status>>

\* `last` is LastAccess.  `used` is a history value, the code has no such field: the
\* moment at which the manager last let somebody use the instance.
Instance == [page : Pages, owner : Owners, last : 0..MaxTime, used : 0..MaxTime]
Operations == {"render", "event", "delete"}
Request == [op : Operations, page : Pages, owner : Owners, id : Ids \cup {None}]
Statuses == {0, 200, 204, 400, 401, 403, 404, 410, 500, 503}

\* A request holds the instance's mutex from Acquire to the deferred Release.
Holding == {"locked", "handling", "releasing"}
PCs == {"idle", "received", "authorized", "adding", "acquiring", "waiting"}
         \cup Holding

TypeOK ==
  /\ clock \in 0..MaxTime
  /\ instances \subseteq Ids
  /\ instance \in [Ids -> Instance \cup {None}]
  /\ mutex \in [Ids -> Requests \cup {None}]
  /\ pc \in [Requests -> PCs]
  /\ req \in [Requests -> Request \cup {None}]
  /\ stamp \in [Requests -> 0..MaxTime]
  /\ status \in [Requests -> Statuses]

-----------------------------------------------------------------------------
Init ==
  /\ clock = 0
  /\ instances = {}
  /\ instance = [id \in Ids |-> None]
  /\ mutex = [id \in Ids |-> None]
  /\ pc = [r \in Requests |-> "idle"]
  /\ req = [r \in Requests |-> None]
  /\ stamp = [r \in Requests |-> 0]
  /\ status = [r \in Requests |-> 0]

Goto(r, label) == pc' = [pc EXCEPT ![r] = label]

\* The handler has returned: the goroutine is free for another request.
Finish(r) ==
  /\ Goto(r, "idle")
  /\ req' = [req EXCEPT ![r] = None]
  /\ stamp' = [stamp EXCEPT ![r] = 0]

\* ctx.JSON or ctx.Status, and return.
Answer(r, code) ==
  /\ status' = [status EXCEPT ![r] = code]
  /\ Finish(r)

\* The same with the instance's mutex held: the deferred Release is still to run.
AnswerHolding(r, code) ==
  /\ status' = [status EXCEPT ![r] = code]
  /\ Goto(r, "releasing")
  /\ UNCHANGED <<req, stamp>>

\* The ids a client can present: those some render has answered.
Known == {id \in Ids : instance[id] # None}

\* NewID: not the id of any instance nor of a render still under way.
Fresh(id) ==
  /\ instance[id] = None
  /\ \A r \in Requests : pc[r] = "adding" => req[r].id # id

\* Mutant: an instance expires a moment too early.
BugExpired(id, now) == now - instance[id].last >= TTL

\* removeExpiredLocked and Acquire: idle for more than the TTL at time now.
Expired(id, now) == now - instance[id].last > TTL

\* Mutant: only the page key is compared.
BugMatches(r, id) == instance[id].page = req[r].page

Matches(r, id) ==
  /\ instance[id].page = req[r].page
  /\ instance[id].owner = req[r].owner

-----------------------------------------------------------------------------
(* The steps every route starts with.                                      *)

\* A request reaches a route and authenticate accepts its principal.
Authenticated(r) ==
  /\ pc[r] = "idle"
  /\ \E op \in Operations, page \in Pages, owner \in Owners, id \in Known \cup {None} :
       /\ op = "render" => id = None
       /\ req' = [req EXCEPT ![r] = [op |-> op, page |-> page, owner |-> owner, id |-> id]]
  /\ Goto(r, "received")
  /\ status' = [status EXCEPT ![r] = 0]
  /\ UNCHANGED <<clock, instances, instance, mutex, stamp>>

\* authenticate refuses: no bearer token, a bad one, or no principal in it.
Unauthenticated(r) ==
  /\ pc[r] = "idle"
  /\ Answer(r, 401)
  /\ UNCHANGED <<clock, instances, instance, mutex>>

\* An event or DELETE whose URL has lost its pageInstanceId.
MissingId(r) ==
  /\ pc[r] = "received"
  /\ req[r].op \in {"event", "delete"}
  /\ req[r].id = None
  /\ Answer(r, 400)
  /\ UNCHANGED <<clock, instances, instance, mutex>>

-----------------------------------------------------------------------------
(* Render.                                                                 *)

\* authorizeAccessGroup says no, or cannot tell.
RenderRefused(r) ==
  /\ pc[r] = "received"
  /\ req[r].op = "render"
  /\ \E code \in {403, 503} : Answer(r, code)
  /\ UNCHANGED <<clock, instances, instance, mutex>>

RenderAuthorized(r) ==
  /\ pc[r] = "received"
  /\ req[r].op = "render"
  /\ Goto(r, "authorized")
  /\ UNCHANGED <<clock, instances, instance, mutex, req, stamp, status>>

\* NewID or Init fails (500), or filtering the DSL by permissions does (503);
\* 0 stands for a panic of Init, after which net/http drops the connection.
RenderFailed(r) ==
  /\ pc[r] = "authorized"
  /\ \E code \in {0, 500, 503} : Answer(r, code)
  /\ UNCHANGED <<clock, instances, instance, mutex>>

\* The page is built, its DSL filtered, and Add has read the clock.
Rendered(r) ==
  /\ pc[r] = "authorized"
  /\ \E id \in Ids :
       /\ Fresh(id)
       /\ req' = [req EXCEPT ![r].id = id]
  /\ stamp' = [stamp EXCEPT ![r] = clock]
  /\ Goto(r, "adding")
  /\ UNCHANGED <<clock, instances, instance, mutex, status>>

\* Mutant: the map is not swept before the limit is checked.
BugSwept(now) == instances

\* What removeExpiredLocked leaves in the map.
Swept(now) == {id \in instances : ~Expired(id, now)}

\* Mutant: off by one.
BugHasRoom(now) == Cardinality(Swept(now)) <= MaxInstances

HasRoom(now) == Cardinality(Swept(now)) < MaxInstances

\* Add's critical section when there is room once the map is swept.
Add(r) ==
  /\ pc[r] = "adding"
  /\ HasRoom(stamp[r])
  /\ instances' = Swept(stamp[r]) \cup {req[r].id}
  /\ instance' = [instance EXCEPT ![req[r].id] =
       [page |-> req[r].page, owner |-> req[r].owner, last |-> stamp[r], used |-> clock]]
  /\ Answer(r, 200)
  /\ UNCHANGED <<clock, mutex>>

\* ErrPageInstanceLimit; the sweep has happened all the same.
AddFull(r) ==
  /\ pc[r] = "adding"
  /\ ~HasRoom(stamp[r])
  /\ instances' = Swept(stamp[r])
  /\ Answer(r, 503)
  /\ UNCHANGED <<clock, instance, mutex>>

-----------------------------------------------------------------------------
(* Event.                                                                  *)

\* Acquire reads the clock before it locks the manager.
EventReceived(r) ==
  /\ pc[r] = "received"
  /\ req[r].op = "event"
  /\ req[r].id # None
  /\ stamp' = [stamp EXCEPT ![r] = clock]
  /\ Goto(r, "acquiring")
  /\ UNCHANGED <<clock, instances, instance, mutex, req, status>>

AcquireMissing(r) ==
  /\ pc[r] = "acquiring"
  /\ req[r].id \notin instances
  /\ Answer(r, 404)
  /\ UNCHANGED <<clock, instances, instance, mutex>>

\* The expiry check comes before the check of page and owner.
AcquireExpired(r) ==
  /\ pc[r] = "acquiring"
  /\ req[r].id \in instances
  /\ Expired(req[r].id, stamp[r])
  /\ instances' = instances \ {req[r].id}
  /\ Answer(r, 410)
  /\ UNCHANGED <<clock, instance, mutex>>

AcquireForeign(r) ==
  /\ pc[r] = "acquiring"
  /\ req[r].id \in instances
  /\ ~Expired(req[r].id, stamp[r])
  /\ ~Matches(r, req[r].id)
  /\ Answer(r, 404)
  /\ UNCHANGED <<clock, instances, instance, mutex>>

\* Mutant: LastAccess is set to the time the instance would expire.
BugAcquired(r) ==
  /\ pc[r] = "acquiring"
  /\ req[r].id \in instances
  /\ ~Expired(req[r].id, stamp[r])
  /\ Matches(r, req[r].id)
  /\ instance' = [instance EXCEPT ![req[r].id].last = stamp[r] + TTL, ![req[r].id].used = clock]
  /\ Goto(r, "waiting")
  /\ UNCHANGED <<clock, instances, mutex, req, stamp, status>>

\* The manager is unlocked before the instance is locked.
Acquired(r) ==
  /\ pc[r] = "acquiring"
  /\ req[r].id \in instances
  /\ ~Expired(req[r].id, stamp[r])
  /\ Matches(r, req[r].id)
  /\ instance' = [instance EXCEPT ![req[r].id].last = stamp[r], ![req[r].id].used = clock]
  /\ Goto(r, "waiting")
  /\ UNCHANGED <<clock, instances, mutex, req, stamp, status>>

\* Mutant: the handler does not wait for its turn.
BugLock(r) ==
  /\ pc[r] = "waiting"
  /\ mutex' = [mutex EXCEPT ![req[r].id] = r]
  /\ Goto(r, "locked")
  /\ UNCHANGED <<clock, instances, instance, req, stamp, status>>

Lock(r) ==
  /\ pc[r] = "waiting"
  /\ mutex[req[r].id] = None
  /\ mutex' = [mutex EXCEPT ![req[r].id] = r]
  /\ Goto(r, "locked")
  /\ UNCHANGED <<clock, instances, instance, req, stamp, status>>

\* Mutant: the answer is returned before Release is deferred.
BugEventRefused(r) ==
  /\ pc[r] = "locked"
  /\ \E code \in {403, 503} : Answer(r, code)
  /\ UNCHANGED <<clock, instances, instance, mutex>>

\* authorizeAccessGroup is asked with the instance's mutex held.
EventRefused(r) ==
  /\ pc[r] = "locked"
  /\ \E code \in {403, 503} : AnswerHolding(r, code)
  /\ UNCHANGED <<clock, instances, instance, mutex>>

\* The route has no access group, or the authorizer grants it; the handler starts.
Handle(r) ==
  /\ pc[r] = "locked"
  /\ Goto(r, "handling")
  /\ UNCHANGED <<clock, instances, instance, mutex, req, stamp, status>>

\* The handler returns (200), fails (500) or panics (0).
Handled(r) ==
  /\ pc[r] = "handling"
  /\ \E code \in {0, 200, 500} : AnswerHolding(r, code)
  /\ UNCHANGED <<clock, instances, instance, mutex>>

\* Mutant: Release stores the instance back to refresh it.
BugRelease(r) ==
  /\ pc[r] = "releasing"
  /\ mutex' = [mutex EXCEPT ![req[r].id] = None]
  /\ instances' = instances \cup {req[r].id}
  /\ Finish(r)
  /\ UNCHANGED <<clock, instance, status>>

\* The deferred Release, on whatever path the event ended.
Release(r) ==
  /\ pc[r] = "releasing"
  /\ mutex' = [mutex EXCEPT ![req[r].id] = None]
  /\ Finish(r)
  /\ UNCHANGED <<clock, instances, instance, status>>

-----------------------------------------------------------------------------
(* DELETE /page/{key}/instance.  No TTL check, and no wait for a handler.  *)

\* Mutant: an expired instance is not found, and stays in the map.
BugDeletable(r) ==
  req[r].id \in instances /\ Matches(r, req[r].id) /\ ~Expired(req[r].id, clock)

Deletable(r) == req[r].id \in instances /\ Matches(r, req[r].id)

Delete(r) ==
  /\ pc[r] = "received"
  /\ req[r].op = "delete"
  /\ req[r].id # None
  /\ Deletable(r)
  /\ instances' = instances \ {req[r].id}
  /\ Answer(r, 204)
  /\ UNCHANGED <<clock, instance, mutex>>

DeleteMissing(r) ==
  /\ pc[r] = "received"
  /\ req[r].op = "delete"
  /\ req[r].id # None
  /\ ~Deletable(r)
  /\ Answer(r, 404)
  /\ UNCHANGED <<clock, instances, instance, mutex>>

-----------------------------------------------------------------------------
(* The environment.                                                        *)

Tick ==
  /\ clock < MaxTime
  /\ clock' = clock + 1
  /\ UNCHANGED <<instances, instance, mutex, pc, req, stamp, status>>

\* The process is restarted: every instance and every request under way is lost.
\* The objects stay in `instance` so that clients can present their stale ids.
Restart ==
  /\ instances' = {}
  /\ mutex' = [id \in Ids |-> None]
  /\ pc' = [r \in Requests |-> "idle"]
  /\ req' = [r \in Requests |-> None]
  /\ stamp' = [r \in Requests |-> 0]
  /\ status' = [r \in Requests |-> 0]
  /\ UNCHANGED <<clock, instance>>

Begin(r) == Authenticated(r) \/ Unauthenticated(r) \/ MissingId(r)
Render(r) == \/ RenderRefused(r) \/ RenderAuthorized(r) \/ RenderFailed(r)
             \/ Rendered(r) \/ Add(r) \/ AddFull(r)
Acquire(r) == \/ EventReceived(r) \/ AcquireMissing(r) \/ AcquireExpired(r)
              \/ AcquireForeign(r) \/ Acquired(r) \/ Lock(r)
Run(r) == EventRefused(r) \/ Handle(r) \/ Handled(r) \/ Release(r)
Close(r) == Delete(r) \/ DeleteMissing(r)

Next ==
  \/ \E r \in Requests : Begin(r) \/ Render(r) \/ Acquire(r) \/ Run(r) \/ Close(r)
  \/ Tick
  \/ Restart

Spec == Init /\ [][Next]_vars

(***************************************************************************)
(* A goroutine that can run does run; sync.Mutex hands a contended lock to *)
(* a waiter that has waited for a millisecond (starvation mode), so no     *)
(* waiter is overtaken for ever; handlers and the authorizer return, which *)
(* the SDK asks of the application.  Clients owe nothing: a request need   *)
(* not arrive.                                                             *)
(***************************************************************************)
Fairness ==
  \A r \in Requests :
    /\ WF_vars(EventRefused(r) \/ Handle(r))
    /\ WF_vars(Handled(r))
    /\ WF_vars(Release(r))
    /\ SF_vars(Lock(r))

FairSpec == Spec /\ Fairness

-----------------------------------------------------------------------------
(* Properties.                                                             *)

\* The request presents the page key and the principal the instance was opened with.
Owns(r, id) ==
  <<req[r].page, req[r].owner>> = <<instance[id].page, instance[id].owner>>

\* The manager never keeps more than MaxInstances pages in memory: Add checks
\* the limit and inserts in one critical section, after its sweep.
LimitRespected == Cardinality(instances) <= MaxInstances

\* Events of one instance are serialized: no two requests are between Acquire
\* and Release on the same id, whatever closes or expires it meanwhile.
Serialized ==
  \A r1, r2 \in Requests :
    r1 # r2 /\ pc[r1] \in Holding /\ pc[r2] \in Holding => req[r1].id # req[r2].id

\* instance.mu is held exactly by the requests that have yet to run their
\* deferred Release: no early return of the handler leaves a page locked.
MutexHeldByHandlers ==
  \A id \in Ids, r \in Requests :
    mutex[id] = r <=> pc[r] \in Holding /\ req[r].id = id

\* Whoever waits for or runs on an instance is its owner, on its own page,
\* however long ago Acquire let it through.
OnlyOwnerAdmitted ==
  \A r \in Requests : pc[r] \in Holding \cup {"waiting"} => Owns(r, req[r].id)

\* A closed or expired instance never comes back, though requests that still
\* point to its object go on running and releasing it.
NoResurrection ==
  [][\A id \in Known : id \notin instances => id \notin instances']_vars

\* The request r closes the instance id: DELETE by its owner, on its page.
ClosedBy(r, id) ==
  pc[r] = "received" /\ req[r].op = "delete" /\ req[r].id = id /\ Owns(r, id)

\* Nobody was let through to the instance for more than TTL.
ReallyIdle(id) == clock - instance[id].used > TTL

\* The latest request let through had read the clock before it got at the map: it took
\* LastAccess back to that time, and that is more than TTL ago.
SetBack(id) == instance[id].last < instance[id].used /\ clock - instance[id].last > TTL

\* An instance leaves the map only because its owner closed it, because the process
\* restarted, or because nobody was let through to it for more than TTL, as
\* docs/client-events.md:1364 has it; with the exception the code makes: when the latest
\* request let through was a straggler, it has set LastAccess back, and an instance that
\* was used just now counts as idle.  Two requests that overtake each other between the
\* clock and the map take nothing else off the TTL, and a closer with an old `now` closes
\* nothing too early.
ClosedByOwnerOrIdle ==
  [][\A id \in instances \ instances' :
       \/ Restart
       \/ ReallyIdle(id)
       \/ SetBack(id)
       \/ \E r \in Requests : ClosedBy(r, id)]_vars

\* A render is turned away for want of room only when MaxInstances pages were
\* in use within the TTL: expired ones never count against the limit.
FullOnlyWhenBusy ==
  [][\A r \in Requests :
       pc[r] = "adding" /\ status'[r] = 503 =>
         Cardinality({id \in instances : stamp[r] - instance[id].last <= TTL}) >= MaxInstances]_vars

\* The response codes of docs/page-instances.md: an event is told 410 or 404 only
\* when its instance is out of the map once answered, or belongs to another page
\* or principal; a live instance of its own is never reported lost.
OwnLiveInstanceServed ==
  [][\A r \in Requests :
       pc[r] \in {"acquiring", "received"} /\ pc'[r] = "idle" /\ status'[r] \in {404, 410} =>
         req[r].id \notin instances' \/ ~Owns(r, req[r].id)]_vars

\* An event that Acquire let through is answered and its goroutine freed, however
\* many others contend for the instance.
AdmittedEventEnds == \A r \in Requests : pc[r] = "waiting" ~> pc[r] = "idle"

\* docs/page-instances.md:259 says an event of another principal is answered 404,
\* so as not to reveal that the instance exists.  Acquire looks at the TTL first.
ForeignEventHidden ==
  [][\A r \in Requests :
       pc[r] = "acquiring" /\ status'[r] = 410 => Owns(r, req[r].id)]_vars

Lifecycle == INSTANCE InstanceLifecycle WITH
  Callers <- Requests,
  Keys <- Pages \X Owners,
  Affordable <- {ids \in SUBSET Ids : Cardinality(ids) <= MaxInstances},
  phase <- [id \in Ids |-> IF id \in instances THEN "open"
                           ELSE IF instance[id] = None THEN "unborn" ELSE "closed"],
  key <- [id \in Ids |-> IF instance[id] = None THEN None
                         ELSE <<instance[id].page, instance[id].owner>>],
  admitted <- {<<r, req[r].id, <<req[r].page, req[r].owner>> >> :
                 r \in {w \in Requests : pc[w] = "waiting"}},
  running <- mutex

\* The manager and its handlers keep every promise of InstanceLifecycle.
ImplementsLifecycle == Lifecycle!Spec
=============================================================================
