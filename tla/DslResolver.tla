------------------------------ MODULE DslResolver ------------------------------
(***************************************************************************)
(* DSLPermissionResolver.Apply (access/dsl_resolver.go) on the DSL of one   *)
(* rendered page, while the permissions of the user change.                 *)
(*                                                                         *)
(* The DSL is a tree.  A node may carry an access group and what becomes of *)
(* it without access.  The walk visits a node after its parent; the keys of *)
(* an object are visited in any order, which is Go's order of a map.        *)
(***************************************************************************)
EXTENDS Naturals

CONSTANTS
  Nodes, Root,
  Parent,       \* Parent[n] for every node but the root
  Groups, Nil,  \* Nil: no group, no mark
  Typed,        \* the nodes with a "type": their visibility goes, not their "hidden"
  Behaviors,    \* of "remove", "readonly", "disabled", "hidden"
  MaxChanges    \* bound on the changes of permissions during the walk

ASSUME TreeAssumption ==
  /\ Root \in Nodes /\ Typed \subseteq Nodes
  /\ Parent \in [Nodes \ {Root} -> Nodes]
  /\ Behaviors \subseteq {"remove", "readonly", "disabled", "hidden"}
ASSUME NilAssumption == Nil \notin Groups

VARIABLES
  protection, \* protection[n]: the access group of the node and its behavior, or Nil
  granted,    \* the groups the authorizer grants the user at present
  changes,    \* how often that changed
  cache,      \* the answers of this walk, by group
  seen,       \* history: the values of granted in this walk
  nodes,      \* nodes[n]: "todo", "kept" or "removed"
  mark,       \* mark[n]: the attribute applyNode set, or Nil
  stripped,   \* the nodes whose access attributes are deleted
  outcome     \* "walking", "delivered" or "failed"

vars == <<protection, granted, changes, cache, seen, nodes, mark, stripped, outcome>>

Protection == [group : Groups, behavior : Behaviors]

Init ==
  /\ protection \in [Nodes -> Protection \cup {Nil}]
  /\ granted \in SUBSET Groups
  /\ changes = 0
  /\ cache = <<>>
  /\ seen = {granted}
  /\ nodes = [n \in Nodes |-> "todo"]
  /\ mark = [n \in Nodes |-> Nil]
  /\ stripped = {}
  /\ outcome = "walking"

-----------------------------------------------------------------------------
Group(n) == IF protection[n] = Nil THEN Nil ELSE protection[n].group

\* The applyNode that may run now: its caller kept the parent.
Due(n) == nodes[n] = "todo" /\ (n # Root => nodes[Parent[n]] = "kept")

\* applyHidden, and the attributes of the other behaviors.
MarkOf(n) ==
  CASE protection[n].behavior = "readonly" -> "readOnly"
    [] protection[n].behavior = "disabled" -> "disabled"
    [] OTHER -> IF n \in Typed THEN "visibility" ELSE "hidden"

Keep(n, m) ==
  /\ nodes' = [nodes EXCEPT ![n] = "kept"]
  /\ mark' = [mark EXCEPT ![n] = m]
  /\ stripped' = stripped \cup {n}

Remove(n) ==
  /\ nodes' = [nodes EXCEPT ![n] = "removed"]
  /\ UNCHANGED <<mark, stripped>>

\* The node as the answer on its group has it.
Resolve(n, allowed) ==
  IF allowed THEN Keep(n, Nil)
  ELSE IF protection[n].behavior = "remove" THEN Remove(n)
  ELSE Keep(n, MarkOf(n))

\* A node without a group.
Pass ==
  /\ outcome = "walking"
  /\ \E n \in Nodes : Due(n) /\ Group(n) = Nil /\ Keep(n, Nil)
  /\ UNCHANGED <<protection, granted, changes, cache, seen, outcome>>

\* Mutant: every node asks the authorizer.
BugCached(n) == FALSE

\* A node whose group was asked for in this walk.
Cached(n) == Due(n) /\ Group(n) \in DOMAIN cache

ResolveCached ==
  /\ outcome = "walking"
  /\ \E n \in Nodes : Cached(n) /\ Resolve(n, cache[Group(n)])
  /\ UNCHANGED <<protection, granted, changes, cache, seen, outcome>>

\* HasAccess for a group not asked for yet.
Ask ==
  /\ outcome = "walking"
  /\ \E n \in Nodes :
       /\ Due(n) /\ Group(n) # Nil /\ ~Cached(n)
       /\ Resolve(n, Group(n) \in granted)
       /\ cache' = [g \in DOMAIN cache \cup {Group(n)} |->
                      IF g = Group(n) THEN g \in granted ELSE cache[g]]
  /\ UNCHANGED <<protection, granted, changes, seen, outcome>>

\* The authorizer fails: the walk returns the error.
AskFails ==
  /\ outcome = "walking"
  /\ \E n \in Nodes : Due(n) /\ Group(n) # Nil /\ ~Cached(n)
  /\ outcome' = "failed"
  /\ UNCHANGED <<protection, granted, changes, cache, seen, nodes, mark, stripped>>

\* Apply returns; without a root there is no DSL.
Deliver ==
  /\ outcome = "walking"
  /\ \A n \in Nodes : ~Due(n)
  /\ outcome' = "delivered"
  /\ UNCHANGED <<protection, granted, changes, cache, seen, nodes, mark, stripped>>

\* The permissions of the user change: a cached decision expires, Keycloak is edited.
PermissionsChange ==
  /\ outcome = "walking"
  /\ changes < MaxChanges
  /\ changes' = changes + 1
  /\ \E g \in SUBSET Groups : g # granted /\ granted' = g /\ seen' = seen \cup {g}
  /\ UNCHANGED <<protection, cache, nodes, mark, stripped, outcome>>

Next == Pass \/ ResolveCached \/ Ask \/ AskFails \/ Deliver \/ PermissionsChange

Spec == Init /\ [][Next]_vars

-----------------------------------------------------------------------------
(* The DSL as one set of granted groups has it, without a walk.             *)

Hereditary(S) == \A n \in S \ {Root} : Parent[n] \in S

\* Every set that holds the node, and the parents of what it holds, holds these.
SelfAndAncestors ==
  [n \in Nodes |-> {a \in Nodes : \A S \in SUBSET Nodes : n \in S /\ Hereditary(S) => a \in S}]

\* All nodes hang on the root.
ASSUME RootedAssumption == \A n \in Nodes : Root \in SelfAndAncestors[n]

Denied(n, allowed) == Group(n) # Nil /\ Group(n) \notin allowed

ShownFor(allowed) ==
  {n \in Nodes : \A a \in SelfAndAncestors[n] : Denied(a, allowed) => protection[a].behavior # "remove"}

MarkFor(n, allowed) == IF Denied(n, allowed) THEN MarkOf(n) ELSE Nil

\* Each delivered DSL is that of one set of groups, each of them granted or refused as
\* the authorizer had it at some time of the walk: equal groups are treated alike all
\* over the page though permissions change, whatever the order of the walk, and the
\* access attributes are never delivered.
DeliveredForOneAnswer ==
  outcome = "delivered" =>
    \E allowed \in SUBSET Groups :
      /\ \A g \in Groups : (\E n \in Nodes : Group(n) = g /\ nodes[n] # "todo") =>
           \E s \in seen : g \in allowed <=> g \in s
      /\ {n \in Nodes : nodes[n] = "kept"} = ShownFor(allowed)
      /\ \A n \in ShownFor(allowed) : mark[n] = MarkFor(n, allowed) /\ n \in stripped
=============================================================================
