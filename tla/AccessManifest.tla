--------------------------- MODULE AccessManifest ---------------------------
(***************************************************************************)
(* The access manifest: what `access generate` collects from a release of  *)
(* the program, merges into the YAML file that people edit, and writes in  *)
(* place, and what `access validate` and `access diff` say of it.          *)
(*                                                                         *)
(* A release is its pages, each with the keys of its resources, the access *)
(* groups of its registry with their parents, and the elements that DSL    *)
(* and registry bind to groups.  A page's own group has the page's name    *)
(* for a code; a registered group may have that code too, and then the     *)
(* manifest lists the code twice.  A permission is the set of keys it      *)
(* matches, one key or those of its wildcard, and so is a permission       *)
(* group's access group a set of codes.  Descriptions are "dsl" or         *)
(* "edited".                                                               *)
(***************************************************************************)
EXTENDS Naturals, FiniteSets, Functions

CONSTANTS Keys,        \* keys of resources
          Codes,       \* codes of access groups
          Elements,    \* codes of elements
          PermissionGroups, \* the permission groups people may write
          Torn, Empty, \* what is left of a name whose writing was cut short
          Releases,    \* the releases of the program
          FirstReleases, \* those the manifest may start with
          MaxReleases, \* bound: releases after the first
          MaxEdits,    \* bound: edits of the manifest
          MaxFaults,   \* bound: crashes, failed calls and lost replies
          Nil

ASSUME ReleasesAssumption ==
    /\ FirstReleases \subseteq Releases
    /\ \A r \in Releases :
          /\ r.pages \in [DOMAIN r.pages -> SUBSET Keys] /\ DOMAIN r.pages \subseteq Codes
          /\ r.registry \in [DOMAIN r.registry -> Codes \cup {Nil}]
          /\ DOMAIN r.registry \subseteq Codes
          /\ r.bindings \subseteq Codes \X Elements

ASSUME PermissionGroupsAssumption ==
    PermissionGroups \subseteq
        [named : {TRUE}, accessGroups : SUBSET SUBSET Codes, permissions : SUBSET SUBSET Keys]

ASSUME TornAssumption ==
    /\ Torn \notin Keys \cup Codes \cup Elements \cup {Empty, Nil}
    /\ Empty \notin Keys /\ Nil \notin Codes

VARIABLES release,     \* the release the commands are built from
          disk,        \* "missing", "whole", "writing", "cut" or "broken"
          file,        \* what the file reads as; Blank when it is missing
          generation,  \* what the running generate is about to write, or Nil
          current,     \* the file was generated from this release
          history,     \* what the manifest has been told so far
          count        \* releases, edits and faults so far

manifestVars == <<release, disk, file, generation, current, history, count>>

\* An empty file is a manifest without a version.
Blank == [version |-> 0, groups |-> << >>, resources |-> << >>,
          permissionGroups |-> {}, stale |-> {}]

\* What a manifest knows, as far as a later generation must keep it; a parent
\* counts from when people gave it.
Told(m) ==
    [keys      |-> DOMAIN m.resources \cup m.stale,
     edited    |-> {k \in DOMAIN m.resources : m.resources[k] = "edited"},
     off       |-> {},
     parents   |-> [c \in Codes |-> Nil],
     permitted |-> {},
     cut       |-> FALSE]

-----------------------------------------------------------------------------
(* What the commands collect from a release.                               *)

ResourcesOf(r) == UNION {r.pages[p] : p \in DOMAIN r.pages}

\* Every page gives its own keys: one given twice stops the command.
Collectable(r) ==
    \A p, q \in DOMAIN r.pages : p # q => r.pages[p] \cap r.pages[q] = {}

CodesOf(r) == DOMAIN r.pages \cup DOMAIN r.registry

BindingsKnown(r) == \A b \in r.bindings : b[1] \in CodesOf(r)

\* A group of the list: the page's own or a registered one.
Entry(c, from) == [code |-> c, from |-> from]

CodesIn(groups) == {e.code : e \in DOMAIN groups}

\* Registered groups come after the pages' own, and of two with one code the
\* last gets the elements.
GroupsOf(r) ==
    [e \in {Entry(c, "page") : c \in DOMAIN r.pages}
              \cup {Entry(c, "registry") : c \in DOMAIN r.registry} |->
        [typed    |-> TRUE,
         parent   |-> IF e.from = "registry" THEN r.registry[e.code] ELSE Nil,
         elements |-> IF e.from = "page" /\ e.code \in DOMAIN r.registry THEN {}
                      ELSE {b[2] : b \in {x \in r.bindings : x[1] = e.code}},
         enabled  |-> TRUE]]

-----------------------------------------------------------------------------
(* Merging into the manifest that is there.                                *)

\* MUTANT: only what the last release had becomes stale.
BugForgetStale(m, r) == DOMAIN m.resources \ ResourcesOf(r)

\* MUTANT: a key that came back stays on the list of stale keys.
BugKeepStale(m, r) == m.stale \cup (DOMAIN m.resources \ ResourcesOf(r))

MergedStale(m, r) == (m.stale \cup DOMAIN m.resources) \ ResourcesOf(r)

Merge(m, r) ==
    [m EXCEPT !.version   = 1,
              !.resources = [k \in ResourcesOf(r) |->
                  IF k \in DOMAIN m.resources THEN m.resources[k] ELSE "dsl"],
              !.stale     = MergedStale(m, r)]

\* The manifest's own parent, elements and switch win over the program's.
PreserveGroup(new, old) ==
    [typed    |-> new.typed,
     parent   |-> IF old.parent # Nil THEN old.parent ELSE new.parent,
     elements |-> IF old.elements # {} THEN old.elements ELSE new.elements,
     enabled  |-> old.enabled]

\* Which group speaks for each code of a list: the last.  sort.Slice does not
\* keep the order of two with one code, so that it may be either.
Lasts(groups) ==
    {last \in [CodesIn(groups) -> DOMAIN groups] :
        \A c \in CodesIn(groups) : last[c].code = c}

MergeAccessGroups(m, groups, last) ==
    [m EXCEPT !.groups = [e \in DOMAIN groups |->
        IF e.code \in CodesIn(m.groups)
        THEN PreserveGroup(groups[e], m.groups[last[e.code]])
        ELSE groups[e]]]

GenerateAccess(m, r, last) == MergeAccessGroups(Merge(m, r), GroupsOf(r), last)

-----------------------------------------------------------------------------
(* access validate and access diff.                                        *)

MatchesAny(permission, keys) == permission \cap keys # {}

PermissionsIn(m) == UNION {g.permissions : g \in m.permissionGroups}

\* Validate does not take a permission that matches a stale key, even when
\* its wildcard also matches active ones.
Refused(m) ==
    {p \in PermissionsIn(m) : \/ MatchesAny(p, m.stale)
                              \/ ~MatchesAny(p, DOMAIN m.resources)}

Orphans(m) ==
    {e \in DOMAIN m.groups :
        m.groups[e].parent # Nil /\ m.groups[e].parent \notin CodesIn(m.groups)}

ListedTwice(m) == {c \in CodesIn(m.groups) : \A from \in {"page", "registry"} :
                                                  Entry(c, from) \in DOMAIN m.groups}

\* What validate finds wrong, by the names of its complaints.
Found(complaint, m) ==
    CASE complaint = "version"          -> m.version = 0
      [] complaint = "empty key"        -> Empty \in DOMAIN m.resources \cup m.stale
      [] complaint = "active and stale" -> m.stale \cap DOMAIN m.resources # {}
      [] complaint = "duplicate"        -> ListedTwice(m) # {}
      [] complaint = "type"     -> \E e \in DOMAIN m.groups : ~m.groups[e].typed
      [] complaint = "element"  -> \E e \in DOMAIN m.groups : Torn \in m.groups[e].elements
      [] complaint = "parent"           -> Orphans(m) # {}
      [] complaint = "unnamed"          -> \E g \in m.permissionGroups : ~g.named
      [] complaint = "access group"     -> \E g \in m.permissionGroups : \E a \in g.accessGroups :
                                               ~MatchesAny(a, CodesIn(m.groups))
      [] complaint = "permission"       -> Refused(m) # {}

Complaints == {"version", "empty key", "active and stale", "duplicate", "type", "element",
               "parent", "unnamed", "access group", "permission"}

Problems(m) == {complaint \in Complaints : Found(complaint, m)}

Compare(found, m) ==
    LET active == DOMAIN m.resources
    IN  [newInDSL     |-> found \ active,
         missingInDSL |-> active \ found,
         broken       |-> {p \in PermissionsIn(m) :
                              \/ MatchesAny(p, m.stale)
                              \/ ~MatchesAny(p, active)
                              \/ ~MatchesAny(p, found)}]

-----------------------------------------------------------------------------
(* access generate, the people who edit, and the releases.                 *)

ManifestInit ==
    /\ release \in FirstReleases
    /\ disk = "missing" /\ file = Blank
    /\ generation = Nil /\ current = FALSE
    /\ history = Told(Blank)
    /\ count = [releases |-> 0, edits |-> 0, faults |-> 0]

\* The command collects, reads the file, merges, and opens the file to write
\* it, which empties it (os.WriteFile).  It gives up, and leaves the file as
\* it is, when the pages clash, a binding names an unknown group or the file
\* does not parse.
Generate ==
    /\ disk \notin {"writing", "broken"}
    /\ Collectable(release) /\ BindingsKnown(release)
    /\ \E last \in Lasts(file.groups) : generation' = GenerateAccess(file, release, last)
    /\ disk' = "writing" /\ file' = Blank
    /\ UNCHANGED <<release, current, history, count>>

\* What went out of the release takes what was written about it along.
Remembered ==
    [history EXCEPT
        !.keys    = @ \cup ResourcesOf(release),
        !.edited  = @ \cap ResourcesOf(release),
        !.off     = @ \cap CodesOf(release),
        !.parents = [c \in Codes |-> IF c \in CodesOf(release) THEN history.parents[c] ELSE Nil]]

Fill ==
    /\ disk = "writing"
    /\ disk' = "whole" /\ file' = generation
    /\ generation' = Nil /\ current' = TRUE
    /\ history' = Remembered
    /\ UNCHANGED <<release, count>>

\* What a cut leaves of a list: some of it, of which the last may be torn.
Rest(list, torn) == {part \in SUBSET (list \cup {torn}) : list \subseteq part => part = list}

\* A group ends with its switch, and reads as switched off without it.
Unfinished(typed, parent, elements) ==
    [typed |-> typed, parent |-> parent, elements |-> elements, enabled |-> FALSE]

CutGroup(g) ==
    {Unfinished(FALSE, Nil, {}), Unfinished(TRUE, Nil, {})}
    \cup {Unfinished(TRUE, Torn, {}) : x \in {g.parent} \ {Nil}}
    \cup {Unfinished(TRUE, g.parent, part) : part \in Rest(g.elements, Torn)}

\* (A group whose code is cut short is dropped by the next generation.)
CutGroups(groups) ==
    {Restrict(groups, G) : G \in SUBSET DOMAIN groups}
    \cup UNION {{[e \in G \cup {l} |-> IF e = l THEN g ELSE groups[e]] :
                     G \in SUBSET DOMAIN groups, g \in CutGroup(groups[l])} :
                    l \in DOMAIN groups}

\* The last resource may have lost its description, or the end of it, which
\* then passes for an edited one.
CutResources(res) ==
    {[k \in K |-> IF k \in DOMAIN res THEN res[k] ELSE "dsl"] :
         K \in Rest(DOMAIN res, Torn) \cup Rest(DOMAIN res, Empty)}
    \cup {[k \in R \cup {l} |-> IF k = l THEN text ELSE res[k]] :
              R \in SUBSET DOMAIN res, l \in DOMAIN res, text \in {"dsl", "edited"}}

\* A permission or an access group that is torn matches nothing.
CutPermissionGroup(g) ==
    {[named |-> FALSE, accessGroups |-> {}, permissions |-> {}]}
    \cup {[named |-> TRUE, accessGroups |-> part, permissions |-> {}] :
              part \in Rest(g.accessGroups, {})}
    \cup {[g EXCEPT !.permissions = part] : part \in Rest(g.permissions, {})}

CutPermissionGroups(gs) ==
    (SUBSET gs)
    \cup {G \cup {part} : G \in SUBSET gs, part \in UNION {CutPermissionGroup(g) : g \in gs}}

\* The sections are written in this order: version, groups, resources,
\* permission groups, stale keys.  What a cut leaves may parse.
Cuts(m) ==
    {Blank}
    \cup {[Blank EXCEPT !.version = 1, !.groups = part] : part \in CutGroups(m.groups)}
    \cup {[m EXCEPT !.resources = part, !.permissionGroups = {}, !.stale = {}] :
              part \in CutResources(m.resources)}
    \cup {[m EXCEPT !.permissionGroups = part, !.stale = {}] :
              part \in CutPermissionGroups(m.permissionGroups)}
    \cup {[m EXCEPT !.stale = part] : part \in Rest(m.stale, Torn) \cup Rest(m.stale, Empty)}

\* A crash or a full disk ends the writing early.
WriteCut ==
    /\ disk = "writing" /\ count.faults < MaxFaults
    /\ \/ disk' = "broken" /\ file' = Blank
       \/ disk' = "cut" /\ file' \in Cuts(generation)
    /\ generation' = Nil /\ current' = FALSE
    /\ history' = [Told(file') EXCEPT !.cut = TRUE, !.permitted = history.permitted]
    /\ count' = [count EXCEPT !.faults = @ + 1]
    /\ UNCHANGED release

\* People edit the whole manifest while no command writes it.
Editing ==
    /\ disk = "whole"
    /\ count.edits < MaxEdits
    /\ count' = [count EXCEPT !.edits = @ + 1]
    /\ UNCHANGED <<release, disk, generation, current>>

Describe(k) ==
    /\ Editing /\ k \in DOMAIN file.resources
    /\ file' = [file EXCEPT !.resources[k] = "edited"]
    /\ history' = [history EXCEPT !.edited = @ \cup {k}]

\* Of a code that is listed twice, what one of the groups says may be lost.
Single(e) == \A d \in DOMAIN file.groups : d.code = e.code => d = e

Disable(e) ==
    /\ Editing /\ e \in DOMAIN file.groups
    /\ file' = [file EXCEPT !.groups[e].enabled = FALSE]
    /\ history' = [history EXCEPT !.off = IF Single(e) THEN @ \cup {e.code} ELSE @]

\* The only way a page's own group gets a parent.
Reparent(e, parent) ==
    /\ Editing /\ e \in DOMAIN file.groups
    /\ parent \in CodesIn(file.groups) \ {e.code}
    /\ file' = [file EXCEPT !.groups[e].parent = parent]
    /\ history' = [history EXCEPT !.parents[e.code] = IF Single(e) THEN parent ELSE Nil]

Permit(g) ==
    /\ Editing
    /\ file' = [file EXCEPT !.permissionGroups = @ \cup {g}]
    /\ history' = [history EXCEPT !.permitted = @ \cup {g}]

Discard ==
    /\ disk \in {"cut", "broken"}
    /\ disk' = "missing" /\ file' = Blank /\ current' = FALSE
    /\ history' = Told(Blank)
    /\ UNCHANGED <<release, generation, count>>

NewRelease ==
    /\ disk # "writing" /\ count.releases < MaxReleases
    /\ release' \in Releases \ {release}
    /\ current' = FALSE
    /\ count' = [count EXCEPT !.releases = @ + 1]
    /\ UNCHANGED <<disk, file, generation, history>>

ManifestNext ==
    \/ Generate \/ Fill \/ WriteCut \/ Discard \/ NewRelease
    \/ \E k \in Keys : Describe(k)
    \/ \E e \in DOMAIN file.groups : Disable(e) \/ \E c \in Codes : Reparent(e, c)
    \/ \E g \in PermissionGroups : Permit(g)

-----------------------------------------------------------------------------
(* A later generation loses nothing: every key the manifest ever held is   *)
(* active or stale; an edited description, and the switch and the parent   *)
(* people gave a group that is listed once, stay as long as every release  *)
(* has the resource or the group; and so do permission groups              *)
(* (access_test.go:35, of Merge).  The exception the code makes is an      *)
(* interrupted write: what it has left is where this starts anew, and the  *)
(* permission groups it cut off are lost to every later generation.        *)
NothingForgotten ==
    disk = "whole" =>
        /\ DOMAIN file.resources \cup file.stale = history.keys
        /\ \A k \in history.edited : file.resources[k] = "edited"
        /\ \A e \in DOMAIN file.groups :
              /\ e.code \in history.off => ~file.groups[e].enabled
              /\ history.parents[e.code] # Nil =>
                    file.groups[e].parent = history.parents[e.code]
        /\ ~history.cut => history.permitted \subseteq file.permissionGroups

(* A manifest that was written to its end has a version, a type for every  *)
(* group and no key that is active and stale; as long as no write was      *)
(* interrupted, validate can only refuse a parent, an access group or a    *)
(* permission that it does not list, and a page's group that is registered *)
(* as well.  Such a group it refuses from the first generation on.  diff   *)
(* finds no difference from the release it was generated from, and calls   *)
(* exactly the permissions broken that validate refuses.                   *)
GeneratedIsValid ==
    disk = "whole" =>
        /\ Problems(file) \cap {"version", "type", "active and stale"} = {}
        /\ ~history.cut =>
              Problems(file) \subseteq {"parent", "access group", "permission", "duplicate"}
        /\ current =>
              LET diff == Compare(ResourcesOf(release), file)
              IN  /\ ListedTwice(file) = DOMAIN release.pages \cap DOMAIN release.registry
                  /\ diff.newInDSL = {} /\ diff.missingInDSL = {}
                  /\ diff.broken = Refused(file)
=============================================================================
