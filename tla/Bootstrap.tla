------------------------------ MODULE Bootstrap ------------------------------
(***************************************************************************)
(* The life of a server process: setup callbacks and the init function     *)
(* declare pages, access groups, sidebar nodes and routes in any order;    *)
(* Bootstrap then registers the routes with gin, publishes the sidebar and *)
(* serves.  A caller may try Bootstrap again after an error.               *)
(*                                                                         *)
(* A path stands for its method as well.  A page's own routes are one path *)
(* and do not clash among themselves.  gin cleans paths before it compares *)
(* them, does not take a wildcard beside a wildcard of another name or a   *)
(* catch-all beside anything, and takes no method that is not letters.     *)
(***************************************************************************)
EXTENDS Sidebar

CONSTANTS PageKeys,     \* keys of pages
          Attachments,  \* sets of node keys a page attaches
          Groups,       \* codes of access groups
          RouteBatches, \* what RegisterRoutes is called with
          CleanPath,    \* path -> the path gin registers
          Reserved,     \* paths that reservedRoutePath finds
          Conflicting,  \* pairs of clean paths that gin does not take together
          Unroutable,   \* clean paths that gin does not take at all
          PagePath,     \* page -> path of its routes
          MaxCalls,     \* bound: registrations
          MaxBoots      \* bound: calls of Bootstrap

ASSUME RouteBatchesAssumption ==
    \A batch \in RouteBatches : batch \in Seq({batch[i] : i \in DOMAIN batch})

VARIABLES phase,        \* how far the process is
          pages,        \* page -> attached node keys
          groups,       \* registered access groups
          routes,       \* Application.customRoutes
          accepted,     \* routes whose registration was reported a success
          setupErr,     \* a setup callback has failed
          secured,      \* an authenticator and an authorizer are configured
          router,       \* paths registered with gin
          calls, boots  \* registrations and bootstraps so far

declared == <<pages, groups, routes, accepted, setupErr>>
bootVars == <<phase, declared, secured, router, calls, boots, sidebarVars>>

BootInit ==
    /\ SidebarInit
    /\ phase = "declaring"
    /\ pages = << >> /\ groups = {} /\ routes = << >> /\ accepted = {}
    /\ setupErr = FALSE /\ secured = FALSE
    /\ router = {} /\ calls = 0 /\ boots = 0

-----------------------------------------------------------------------------
(* Declarations.                                                           *)

Calling ==
    /\ calls < MaxCalls /\ calls' = calls + 1
    /\ UNCHANGED <<secured, router, boots>>

\* A setup callback returns the error it gets, or ignores it.
Error == setupErr' \in {setupErr, TRUE}

\* manifest.Register panics on a key it has.
RegisterPage(p, keys) ==
    /\ phase = "declaring" /\ Calling
    /\ IF p \in DOMAIN pages
       THEN phase' = "duplicate page" /\ UNCHANGED pages
       ELSE /\ phase' = phase
            /\ pages' = [q \in DOMAIN pages \cup {p} |-> IF q = p THEN keys ELSE pages[q]]
    /\ UNCHANGED <<groups, routes, accepted, setupErr, sidebarVars>>

\* Groups and nodes can also be registered while the server runs.
Declaring == phase \in {"declaring", "serving"} /\ Calling

RegisterAccessGroup(c) ==
    /\ Declaring
    /\ IF c \in groups THEN Error /\ UNCHANGED groups
       ELSE groups' = groups \cup {c} /\ UNCHANGED setupErr
    /\ UNCHANGED <<phase, pages, routes, accepted, sidebarVars>>

RegisterSidebarNodes(batch) ==
    /\ Declaring
    /\ \/ RegisterMany(batch) /\ UNCHANGED setupErr
       \/ ~Registrable(batch) /\ Error /\ UNCHANGED sidebarVars
    /\ UNCHANGED <<phase, pages, groups, routes, accepted>>

\* MUTANT: routes are not compared with those registered before.
BugRouteRefused(rs, r) == r.path \in Reserved \/ r.group \notin groups

RouteRefused(rs, r) ==
    \/ r.path \in Reserved
    \/ r.group \notin groups
    \/ \E i \in DOMAIN rs : rs[i].path = r.path

\* customRoutes after the first i routes of the batch were tried one by one.
AfterRoutes(batch, i) == routes \o SubSeq(batch, 1, i)

Refusals(batch) ==
    {i \in DOMAIN batch : RouteRefused(AfterRoutes(batch, i - 1), batch[i])}

FirstRefused(batch) == {i \in Refusals(batch) : \A j \in Refusals(batch) : i <= j}

\* MUTANT: what was registered before the invalid route stays.
BugRolledBack(rs) == rs

\* A batch with an invalid route is cut off again.
RolledBack(rs) == SubSeq(rs, 1, Len(routes))

RegisterRoutes(batch) ==
    /\ phase = "declaring" /\ Calling
    /\ IF Refusals(batch) = {}
       THEN /\ routes' = AfterRoutes(batch, Len(batch))
            /\ accepted' = accepted \cup {batch[i] : i \in DOMAIN batch}
            /\ UNCHANGED setupErr
       ELSE /\ \E i \in FirstRefused(batch) : routes' = RolledBack(AfterRoutes(batch, i - 1))
            /\ Error /\ UNCHANGED accepted
    /\ UNCHANGED <<phase, pages, groups, sidebarVars>>

-----------------------------------------------------------------------------
(* Bootstrap.                                                              *)

\* The init function has run; it may have set authenticator and authorizer.
Initialize ==
    /\ phase = "declaring"
    /\ phase' = "initialized" /\ boots' = boots + 1
    /\ secured' \in BOOLEAN
    /\ UNCHANGED <<declared, router, calls, sidebarVars>>

Step(from, to) ==
    /\ phase = from /\ phase' = to
    /\ UNCHANGED <<declared, secured, calls, boots>>

Bootable == ~setupErr /\ (routes # << >> => secured)

BootRefused ==
    /\ Step("initialized", "returned") /\ ~Bootable
    /\ UNCHANGED <<router, sidebarVars>>

PagePaths == {PagePath[p] : p \in DOMAIN pages}
RoutePaths == {CleanPath[routes[i].path] : i \in DOMAIN routes}

Conflict(p, q) == p = q \/ {p, q} \in Conflicting

\* gin panics when it cannot have a path, or not beside those it has.
Clash ==
    \/ (PagePaths \cup RoutePaths) \cap Unroutable # {}
    \/ \E p \in PagePaths \cup RoutePaths, q \in router : Conflict(p, q)
    \/ \E p, q \in DOMAIN pages : p # q /\ Conflict(PagePath[p], PagePath[q])
    \/ \E p \in PagePaths, q \in RoutePaths : Conflict(p, q)
    \/ \E i, j \in DOMAIN routes :
          i # j /\ Conflict(CleanPath[routes[i].path], CleanPath[routes[j].path])

RegisterWithGin ==
    /\ Bootable /\ ~Clash
    /\ Step("initialized", "routed")
    /\ router' = router \cup PagePaths \cup RoutePaths
    /\ UNCHANGED sidebarVars

GinPanics ==
    /\ Bootable /\ Clash
    /\ Step("initialized", "router panic")
    /\ UNCHANGED <<router, sidebarVars>>

HasSidebar == nodes # << >> \/ \E p \in DOMAIN pages : pages[p] # {}

NoSidebar ==
    /\ Step("routed", "serving") /\ ~HasSidebar
    /\ UNCHANGED <<router, sidebarVars>>

\* The registration is published before the server listens.
PublishRegistration(w) ==
    /\ HasSidebar
    /\ \/ Step("routed", "publishing") /\ BuildEvent(w, pages, groups)
       \/ /\ Step("routed", "returned") /\ ~Publishable(nodes, pages, groups)
          /\ UNCHANGED sidebarVars
    /\ UNCHANGED router

RegistrationSent(w) ==
    /\ \/ Step("publishing", "serving") /\ PublishSidebar(w)
       \/ Step("publishing", "returned") /\ PublisherFails(w)
    /\ UNCHANGED router

\* The address may be in use.
ListenFails ==
    /\ Step("serving", "returned") /\ Publishing = {}
    /\ UNCHANGED <<router, sidebarVars>>

BootAgain ==
    /\ phase = "returned" /\ boots < MaxBoots
    /\ phase' = "initialized" /\ boots' = boots + 1
    /\ UNCHANGED <<declared, secured, router, calls, sidebarVars>>

\* The application publishes a refresh or takes its sidebar back.
Publish(w) ==
    /\ phase = "serving"
    /\ \/ BuildEvent(w, pages, groups)
       \/ Unregister(w)
       \/ PublishSidebar(w)
       \/ PublisherFails(w)
    /\ UNCHANGED <<phase, declared, secured, router, calls, boots>>

BootNext ==
    \/ \E p \in PageKeys, keys \in Attachments : RegisterPage(p, keys)
    \/ \E c \in Groups : RegisterAccessGroup(c)
    \/ \E batch \in Batches : RegisterSidebarNodes(batch)
    \/ \E batch \in RouteBatches : RegisterRoutes(batch)
    \/ Initialize \/ BootRefused \/ RegisterWithGin \/ GinPanics
    \/ NoSidebar \/ ListenFails \/ BootAgain
    \/ \E w \in Publishers : PublishRegistration(w) \/ RegistrationSent(w) \/ Publish(w)

-----------------------------------------------------------------------------
(* The routes that are kept are those whose registration was reported a    *)
(* success, each under a registered access group; a server that has any    *)
(* also has an authenticator and an authorizer, and has registered every   *)
(* one of them with gin.                                                   *)
RoutesAsReported ==
    /\ {routes[i] : i \in DOMAIN routes} = accepted
    /\ \A r \in accepted : r.group \in groups
    /\ phase = "serving" /\ accepted # {} =>
          secured /\ \A r \in accepted : CleanPath[r.path] \in router

(* When gin panics in the first Bootstrap, either gin does not take one of *)
(* the paths at all, or two pages clash, or two routes do that are written *)
(* differently, or a route that RegisterRoute did not take for a reserved  *)
(* one clashes with a page: never a path that was registered twice as it   *)
(* stands, and never one under /page or /event.                            *)
PanicExplained ==
    phase = "router panic" /\ boots = 1 =>
        \/ \E p \in PagePaths \cup {CleanPath[r.path] : r \in accepted} : p \in Unroutable
        \/ \E p, q \in DOMAIN pages : p # q /\ Conflict(PagePath[p], PagePath[q])
        \/ \E r, s \in accepted : r.path # s.path /\ Conflict(CleanPath[r.path], CleanPath[s.path])
        \/ \E r \in accepted, p \in PagePaths :
              r.path \notin Reserved /\ Conflict(p, CleanPath[r.path])
=============================================================================
