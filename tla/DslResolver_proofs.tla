-------------------------- MODULE DslResolver_proofs --------------------------
(***************************************************************************)
(* The walk of DSLPermissionResolver delivers the DSL of one set of        *)
(* permissions, on every tree, for every choice of groups and behaviors    *)
(* and any changes of permissions during the walk.                         *)
(***************************************************************************)
EXTENDS DslResolver, TLAPS

WalkTypeOK ==
  /\ protection \in [Nodes -> Protection \cup {Nil}]
  /\ nodes \in [Nodes -> {"todo", "kept", "removed"}]
  /\ mark = [n \in Nodes |-> mark[n]]
  /\ granted \in seen

\* What the walk has been told about a node's group.
Refused(n) == Group(n) # Nil /\ ~cache[Group(n)]

\* A node is visited after its parent, which was kept.
ParentsKept ==
  \A n \in Nodes \ {Root} : nodes[n] # "todo" => nodes[Parent[n]] = "kept"

\* The answers of the walk were each true at some time of it.
AnswersSeen ==
  \A g \in DOMAIN cache : g # Nil /\ \E s \in seen : cache[g] <=> g \in s

\* A node that was visited is as the answer about its group has it.
NodesResolved ==
  \A n \in Nodes :
    /\ nodes[n] # "todo" /\ Group(n) # Nil => Group(n) \in DOMAIN cache
    /\ nodes[n] = "removed" => Refused(n) /\ protection[n].behavior = "remove"
    /\ nodes[n] = "kept" =>
         /\ n \in stripped
         /\ mark[n] = IF Refused(n) THEN MarkOf(n) ELSE Nil
         /\ Refused(n) => protection[n].behavior # "remove"

NothingDue == outcome = "delivered" => \A n \in Nodes : ~Due(n)

WalkInv == WalkTypeOK /\ ParentsKept /\ AnswersSeen /\ NodesResolved /\ NothingDue

-----------------------------------------------------------------------------
(* The walk.                                                               *)

LEMMA WalkInit == Init => WalkInv
<1> SUFFICES ASSUME Init PROVE WalkInv
  OBVIOUS
<1>1. WalkTypeOK
  BY DEF Init, WalkTypeOK
<1>2. ParentsKept
  BY TreeAssumption DEF Init, ParentsKept
<1>3. DOMAIN cache = {}
  BY DEF Init
<1>4. AnswersSeen /\ NodesResolved /\ NothingDue
  BY <1>3 DEF Init, AnswersSeen, NodesResolved, NothingDue
<1> QED
  BY <1>1, <1>2, <1>4 DEF WalkInv

\* One node is visited: it was due, and is resolved by the answer about its group.
Visit(n) ==
  /\ n \in Nodes /\ Due(n)
  /\ Resolve(n, Group(n) = Nil \/ cache'[Group(n)])
  /\ Group(n) # Nil => Group(n) \in DOMAIN cache'
  /\ DOMAIN cache \subseteq DOMAIN cache'
  /\ \A g \in DOMAIN cache : cache'[g] = cache[g]
  /\ \A g \in DOMAIN cache' : g # Nil /\ \E s \in seen : cache'[g] <=> g \in s
  /\ outcome = "walking"
  /\ UNCHANGED <<protection, granted, seen, outcome>>

LEMMA EveryVisit ==
  ASSUME WalkInv, Pass \/ ResolveCached \/ Ask
  PROVE  \E n \in Nodes : Visit(n)
<1> USE DEF WalkInv
<1>1. CASE Pass
  <2>1. PICK n \in Nodes : Due(n) /\ Group(n) = Nil /\ Keep(n, Nil)
    BY <1>1 DEF Pass
  <2>2. Visit(n)
    BY <1>1, <2>1 DEF Pass, Visit, Resolve, AnswersSeen
  <2> QED
    BY <2>2
<1>2. CASE ResolveCached
  <2>1. PICK n \in Nodes : Cached(n) /\ Resolve(n, cache[Group(n)])
    BY <1>2 DEF ResolveCached
  <2>2. Group(n) \in DOMAIN cache /\ Due(n) /\ cache' = cache
    BY <1>2, <2>1 DEF ResolveCached, Cached
  <2>4. Group(n) # Nil
    BY <2>2 DEF AnswersSeen
  <2>5. Visit(n)
    BY <1>2, <2>1, <2>2, <2>4 DEF ResolveCached, Visit, AnswersSeen, Resolve
  <2> QED
    BY <2>5
<1>3. CASE Ask
  <2>1. PICK n \in Nodes :
          /\ Due(n) /\ Group(n) # Nil /\ ~Cached(n)
          /\ Resolve(n, Group(n) \in granted)
          /\ cache' = [g \in DOMAIN cache \cup {Group(n)} |->
                         IF g = Group(n) THEN g \in granted ELSE cache[g]]
    BY <1>3 DEF Ask
  <2>2. Group(n) \notin DOMAIN cache
    BY <2>1 DEF Cached
  <2>3. /\ DOMAIN cache' = DOMAIN cache \cup {Group(n)}
        /\ cache'[Group(n)] = (Group(n) \in granted)
        /\ \A g \in DOMAIN cache : cache'[g] = cache[g]
    BY <2>1, <2>2
  <2>4. UNCHANGED <<protection, granted, seen, outcome>> /\ outcome = "walking"
    BY <1>3 DEF Ask
  <2>5. \A g \in DOMAIN cache' : g # Nil /\ \E s \in seen : cache'[g] <=> g \in s
    BY <2>1, <2>3 DEF AnswersSeen, WalkTypeOK
  <2>6. Resolve(n, cache'[Group(n)])
    BY <2>1, <2>3
  <2>7. Resolve(n, Group(n) = Nil \/ cache'[Group(n)])
    BY <2>1, <2>6 DEF Resolve
  <2> QED
    BY <2>1, <2>3, <2>4, <2>5, <2>7 DEF Visit
<1> QED
  BY <1>1, <1>2, <1>3

LEMMA VisitKeeps ==
  ASSUME WalkInv, NEW n \in Nodes, Visit(n)
  PROVE  WalkInv'
<1> DEFINE kept == Group(n) = Nil \/ cache'[Group(n)] \/ protection[n].behavior # "remove"
<1> USE DEF WalkInv
<1>1. \A k \in Nodes : Group(k)' = Group(k) /\ MarkOf(k)' = MarkOf(k)
  BY DEF Visit, Group, MarkOf
<1>2. /\ \A k \in Nodes \ {n} : nodes'[k] = nodes[k] /\ mark'[k] = mark[k]
      /\ stripped \subseteq stripped'
      /\ nodes'[n] = IF kept THEN "kept" ELSE "removed"
      /\ kept => n \in stripped' /\ mark'[n] = IF Refused(n)' THEN MarkOf(n) ELSE Nil
  BY <1>1 DEF Visit, Resolve, Keep, Remove, WalkTypeOK, Refused
<1>3. nodes[n] = "todo" /\ (n # Root => nodes[Parent[n]] = "kept")
  BY DEF Visit, Due
<1>4. WalkTypeOK'
  BY DEF Visit, Resolve, Keep, Remove, WalkTypeOK
<1>5. ParentsKept'
  <2> SUFFICES ASSUME NEW k \in Nodes \ {Root}, nodes'[k] # "todo"
               PROVE  nodes'[Parent[k]] = "kept"
    BY DEF ParentsKept
  <2>1. Parent[k] \in Nodes
    BY TreeAssumption
  <2>2. nodes[Parent[k]] = "kept"
    BY <1>2, <1>3 DEF ParentsKept
  <2> QED
    BY <1>2, <1>3, <2>1, <2>2
<1>6. AnswersSeen'
  BY DEF Visit, AnswersSeen
<1>7. NodesResolved'
  <2> SUFFICES ASSUME NEW k \in Nodes
               PROVE  /\ nodes'[k] # "todo" /\ Group(k) # Nil => Group(k) \in DOMAIN cache'
                      /\ nodes'[k] = "removed" => Refused(k)' /\ protection[k].behavior = "remove"
                      /\ nodes'[k] = "kept" =>
                           /\ k \in stripped'
                           /\ mark'[k] = IF Refused(k)' THEN MarkOf(k) ELSE Nil
                           /\ Refused(k)' => protection[k].behavior # "remove"
    BY <1>1 DEF NodesResolved, Visit
  <2>1. CASE k = n
    BY <1>1, <1>2, <2>1 DEF Visit, Refused
  <2>2. CASE k # n
    <3>1. nodes[k] # "todo" => (Refused(k)' <=> Refused(k))
      BY <1>1 DEF Visit, Refused, NodesResolved
    <3> QED
      BY <1>2, <2>2, <3>1 DEF NodesResolved, Visit
  <2> QED
    BY <2>1, <2>2
<1>8. NothingDue'
  BY DEF Visit, NothingDue
<1> QED
  BY <1>4, <1>5, <1>6, <1>7, <1>8

LEMMA WalkStep == WalkInv /\ [Next]_vars => WalkInv'
<1> SUFFICES ASSUME WalkInv, [Next]_vars PROVE WalkInv'
  OBVIOUS
<1>1. CASE Pass \/ ResolveCached \/ Ask
  BY <1>1, EveryVisit, VisitKeeps
<1>2. ASSUME UNCHANGED <<protection, cache, nodes, mark, stripped>>,
             seen \subseteq seen', granted' \in seen', NothingDue'
      PROVE  WalkInv'
  <2>1. \A k \in Nodes : Group(k)' = Group(k) /\ MarkOf(k)' = MarkOf(k) /\ Refused(k)' = Refused(k)
    BY <1>2 DEF Group, MarkOf, Refused
  <2> QED
    BY <1>2, <2>1 DEF WalkInv, WalkTypeOK, ParentsKept, AnswersSeen, NodesResolved
<1>3. CASE AskFails
  BY <1>2, <1>3 DEF AskFails, WalkInv, WalkTypeOK, NothingDue
<1>4. CASE Deliver
  BY <1>2, <1>4 DEF Deliver, WalkInv, WalkTypeOK, NothingDue, Due
<1>5. CASE PermissionsChange
  BY <1>2, <1>5 DEF PermissionsChange, WalkInv, WalkTypeOK, NothingDue
<1>6. CASE UNCHANGED vars
  BY <1>2, <1>6 DEF vars, WalkInv, WalkTypeOK, NothingDue, Due
<1> QED
  BY <1>1, <1>3, <1>4, <1>5, <1>6 DEF Next

-----------------------------------------------------------------------------
(* What is delivered.                                                      *)

LEMMA LineageLeast ==
  ASSUME NEW n \in Nodes, NEW S \in SUBSET Nodes, n \in S, Hereditary(S)
  PROVE  SelfAndAncestors[n] \subseteq S
BY DEF SelfAndAncestors

LEMMA LineageHereditary ==
  ASSUME NEW n \in Nodes
  PROVE  n \in SelfAndAncestors[n] /\ SelfAndAncestors[n] \subseteq Nodes
         /\ Hereditary(SelfAndAncestors[n])
BY TreeAssumption DEF SelfAndAncestors, Hereditary

Kept == {n \in Nodes : nodes[n] = "kept"}

\* The nodes that are kept are those none of whose ancestors is refused and to be removed.
LEMMA KeptIsShown ==
  ASSUME WalkInv, outcome = "delivered", NEW allowed,
         \A n \in Nodes : nodes[n] # "todo" => (Denied(n, allowed) <=> Refused(n))
  PROVE  Kept = ShownFor(allowed)
<1> USE DEF WalkInv
<1>1. ASSUME NEW n \in Kept PROVE n \in ShownFor(allowed)
  <2>1. Hereditary(Kept) /\ Kept \in SUBSET Nodes
    BY TreeAssumption DEF Hereditary, Kept, ParentsKept
  <2>2. SelfAndAncestors[n] \subseteq Kept
    BY <2>1, LineageLeast DEF Kept
  <2>3. \A a \in Kept : Denied(a, allowed) => protection[a].behavior # "remove"
    BY DEF Kept, NodesResolved
  <2> QED
    BY <2>2, <2>3 DEF ShownFor, Kept
<1>2. ASSUME NEW n \in ShownFor(allowed), n \notin Kept PROVE FALSE
  <2>0. n \in Nodes
    BY <1>2 DEF ShownFor
  <2> DEFINE line == SelfAndAncestors[n]
             todo == {a \in line : nodes[a] = "todo"}
  <2>1. \A a \in line : a \in Nodes /\ nodes[a] # "removed"
    <3> SUFFICES ASSUME NEW a \in line, nodes[a] = "removed" PROVE FALSE
      BY <2>0, LineageHereditary
    <3>1. a \in Nodes
      BY <2>0, LineageHereditary
    <3> QED
      BY <1>2, <3>1 DEF ShownFor, NodesResolved
  <2>2. n \in todo
    BY <1>2, <2>0, <2>1, LineageHereditary DEF Kept, WalkTypeOK
  <2>3. Hereditary(todo)
    <3> SUFFICES ASSUME NEW a \in todo \ {Root} PROVE Parent[a] \in todo
      BY DEF Hereditary
    <3>1. Parent[a] \in line
      BY <2>0, LineageHereditary DEF Hereditary
    <3>2. nodes[Parent[a]] # "kept"
      BY <2>1 DEF NothingDue, Due
    <3> QED
      BY <2>1, <3>1, <3>2 DEF WalkTypeOK
  <2>4. line \subseteq todo
    BY <2>0, <2>1, <2>2, <2>3, LineageLeast
  <2>5. Root \in Nodes /\ nodes[Root] = "todo"
    BY <2>0, <2>4, RootedAssumption, TreeAssumption
  <2> QED
    BY <2>5 DEF NothingDue, Due
<1>3. Kept \subseteq Nodes /\ ShownFor(allowed) \subseteq Nodes
  BY DEF Kept, ShownFor
<1> QED
  BY <1>1, <1>2

LEMMA WalkDelivers == WalkInv => DeliveredForOneAnswer
<1> SUFFICES ASSUME WalkInv, outcome = "delivered"
             PROVE  \E allowed \in SUBSET Groups :
                      /\ \A g \in Groups : (\E n \in Nodes : Group(n) = g /\ nodes[n] # "todo") =>
                           \E s \in seen : g \in allowed <=> g \in s
                      /\ Kept = ShownFor(allowed)
                      /\ \A n \in ShownFor(allowed) : mark[n] = MarkFor(n, allowed) /\ n \in stripped
  BY DEF DeliveredForOneAnswer, Kept
<1> USE DEF WalkInv
<1> DEFINE allowed == {g \in Groups : g \in DOMAIN cache /\ cache[g]}
<1>1. \A n \in Nodes : Group(n) \in Groups \cup {Nil}
  BY DEF Group, WalkTypeOK, Protection
<1>2. \A n \in Nodes : nodes[n] # "todo" => (Denied(n, allowed) <=> Refused(n))
  BY <1>1 DEF Denied, Refused, NodesResolved
<1>3. \A g \in Groups : (\E n \in Nodes : Group(n) = g /\ nodes[n] # "todo") =>
        \E s \in seen : g \in allowed <=> g \in s
  BY NilAssumption DEF NodesResolved, AnswersSeen
<1>4. Kept = ShownFor(allowed)
  BY <1>2, KeptIsShown
<1>5. \A n \in ShownFor(allowed) : mark[n] = MarkFor(n, allowed) /\ n \in stripped
  BY <1>2, <1>4 DEF Kept, MarkFor, NodesResolved
<1> HIDE DEF allowed
<1>6. allowed \in SUBSET Groups
  BY DEF allowed
<1> QED
  BY <1>3, <1>4, <1>5, <1>6

LEMMA WalkInvariant == Spec => []WalkInv
BY WalkInit, WalkStep, PTL DEF Spec

\* DSLPermissionResolver.Apply: whatever the order of the walk and the changes meanwhile,
\* a delivered DSL is that of one set of groups, each granted or refused as the
\* authorizer had it during the walk.
THEOREM OneAnswerDelivered == Spec => []DeliveredForOneAnswer
BY WalkInvariant, WalkDelivers, PTL
=============================================================================
