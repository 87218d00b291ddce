------------------------------- MODULE Sidebar -------------------------------
(***************************************************************************)
(* The sidebar: a registry of declared nodes, and the publication of the   *)
(* whole menu.  A publication collects what the pages attach, builds the   *)
(* event and hands it to the publisher; no lock spans the two, so several  *)
(* can be under way.                                                       *)
(*                                                                         *)
(* A node is its parent and its access group.  Titles, order and the ids   *)
(* of service and section are left out: where one is missing nothing is    *)
(* published.                                                              *)
(***************************************************************************)
EXTENDS Naturals, Sequences, FiniteSets

CONSTANTS Batches,     \* what RegisterMany is called with: sequences of nodes
          Publishers,  \* goroutines that publish
          None

ASSUME BatchesAssumption ==
    \A batch \in Batches : batch \in Seq({batch[i] : i \in DOMAIN batch})

VARIABLES nodes,       \* key -> registered node
          publication, \* goroutine -> the event it is about to publish, or None
          menu,        \* what the registry of sidebars shows, or None
          shown        \* the menus it has shown so far

sidebarVars == <<nodes, publication, menu, shown>>

Node(n) == [parent |-> n.parent, group |-> n.group]

SidebarInit ==
    /\ nodes = << >> /\ menu = None /\ shown = {}
    /\ publication = [w \in Publishers |-> None]

-----------------------------------------------------------------------------
(* The registry.                                                           *)

Registrable(batch) ==
    /\ \A i, j \in DOMAIN batch : i # j => batch[i].key # batch[j].key
    /\ \A i \in DOMAIN batch : batch[i].key \notin DOMAIN nodes \cup {None}

Registered(batch) ==
    [k \in {batch[i].key : i \in DOMAIN batch} |->
        Node(batch[CHOOSE i \in DOMAIN batch : batch[i].key = k])]

\* The nodes of two maps; those of the second stay.
Added(new, ns) ==
    [k \in DOMAIN new \cup DOMAIN ns |-> IF k \in DOMAIN ns THEN ns[k] ELSE new[k]]

\* MUTANT: a key that is registered again is replaced.
BugRegisterMany(batch) ==
    /\ nodes' = Added(nodes, Registered(batch))
    /\ UNCHANGED <<publication, menu, shown>>

RegisterMany(batch) ==
    /\ Registrable(batch)
    /\ nodes' = Added(Registered(batch), nodes)
    /\ UNCHANGED <<publication, menu, shown>>

-----------------------------------------------------------------------------
(* BuildEvent.                                                             *)

Children(ns, k) == {c \in DOMAIN ns : ns[c].parent = k}

\* MUTANT: only a node under itself is a cycle.
BugAcyclic(ns) == \A k \in DOMAIN ns : ns[k].parent # k

\* The walk from a node over its parents never comes back to where it was:
\* no nodes have all their parents among themselves.
Acyclic(ns) ==
    \A S \in SUBSET DOMAIN ns : S # {} => \E k \in S : ns[k].parent \notin S

\* attached: page -> keys of the nodes its engine was attached to.
Attached(k, attached) == {p \in DOMAIN attached : k \in attached[p]}

Placed(k, ns, attached) == Attached(k, attached) # {} \/ Children(ns, k) # {}

Publishable(ns, attached, groups) ==
    /\ ns # << >>
    /\ \A k \in DOMAIN ns :
          /\ ns[k].group \in groups
          /\ ns[k].parent \in DOMAIN ns \cup {None}
          /\ Cardinality(Attached(k, attached)) <= 1
          /\ Placed(k, ns, attached)
    /\ \A p \in DOMAIN attached : attached[p] \subseteq DOMAIN ns
    /\ Acyclic(ns)

\* buildPublishedNode descends from the roots: what is in every set that has
\* the roots and the children of its members.
Reached(ns) ==
    {k \in DOMAIN ns :
        \A S \in SUBSET DOMAIN ns :
            Children(ns, None) \cup UNION {Children(ns, c) : c \in S} \subseteq S => k \in S}

Tree(ns, attached) ==
    [k \in Reached(ns) |->
        [parent |-> ns[k].parent, group |-> ns[k].group, target |-> Attached(k, attached)]]

\* declared: the nodes registered when the event was built.
Event(ns, attached) == [tree |-> Tree(ns, attached), declared |-> ns]

-----------------------------------------------------------------------------
(* publishSidebar.                                                         *)

Publishing == {w \in Publishers : publication[w] # None}

Begin(w, event) == publication' = [publication EXCEPT ![w] = [event |-> event]]

BuildEvent(w, attached, groups) ==
    /\ publication[w] = None
    /\ Publishable(nodes, attached, groups)
    /\ Begin(w, Event(nodes, attached))
    /\ UNCHANGED <<nodes, menu, shown>>

Unregister(w) ==
    /\ publication[w] = None
    /\ Begin(w, None)
    /\ UNCHANGED <<nodes, menu, shown>>

PublishSidebar(w) ==
    /\ publication[w] # None
    /\ menu' = publication[w].event
    /\ shown' = shown \cup ({menu'} \ {None})
    /\ publication' = [publication EXCEPT ![w] = None]
    /\ UNCHANGED nodes

PublisherFails(w) ==
    /\ publication[w] # None
    /\ publication' = [publication EXCEPT ![w] = None]
    /\ UNCHANGED <<nodes, menu, shown>>

-----------------------------------------------------------------------------
(* A menu that is shown is whole: each node declared when it was built is  *)
(* in it under its own parent, each leaf opens a page, and no node opens   *)
(* two.                                                                    *)
MenuIsWhole ==
    menu # None =>
        /\ DOMAIN menu.tree = DOMAIN menu.declared
        /\ \A k \in DOMAIN menu.tree :
              LET n == menu.tree[k]
              IN  /\ n.parent = menu.declared[k].parent
                  /\ Cardinality(n.target) <= 1
                  /\ n.target = {} =>
                        \E c \in DOMAIN menu.tree : menu.tree[c].parent = k

(* Publications that overlap may arrive in any order; they never disagree: *)
(* but for its withdrawal, a process shows one menu.  A node registered    *)
(* while the server runs is attached to no page, so that from then on no   *)
(* refresh is published.                                                   *)
PublicationsAgree == Cardinality(shown) <= 1
=============================================================================
