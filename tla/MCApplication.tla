---------------------------- MODULE MCApplication ----------------------------
EXTENDS Application, TLC

\* A group and a key that go and come back, elements that change, and a page
\* whose group is registered as well.
First == [pages |-> ("p" :> {"k", "l"}), registry |-> ("g" :> Nil),
          bindings |-> {<<"p", "e">>}]
Second == [pages |-> ("p" :> {"k"}), registry |-> << >>, bindings |-> {<<"p", "f">>}]
Third == [Second EXCEPT !.registry = "p" :> Nil]

\* Of a manifest Keycloak gets the groups only, and no others are synced.
FirstGroups == [pages |-> ("p" :> {}), registry |-> ("g" :> "p"), bindings |-> {}]
SyncedReleases == {FirstGroups, [FirstGroups EXCEPT !.registry = << >>]}

SomeReleases == {First, Second, Third} \cup SyncedReleases
SomeFirstReleases == {First, FirstGroups}

SomePermissionGroups ==
    {[named |-> TRUE, accessGroups |-> {{"g"}}, permissions |-> {{"k", "l"}}],
     [named |-> TRUE, accessGroups |-> {}, permissions |-> {{"l"}}]}

\* A menu with one entry, its parent, an entry beside it or under it, and
\* two in a cycle.
N(k, p) == [key |-> k, parent |-> p, group |-> "p"]
SomeBatches ==
    {<<N("menu", None), N("item", "menu")>>, <<N("top", None)>>,
     <<N("top", "menu")>>, <<N("top", "item"), N("item", "top")>>}

SomeAttachments == {{}, {"item"}, {"top"}}

\* One path spelt in two ways, one that is a page's after cleaning, one that
\* is reserved, one with a wildcard beside which no other goes, and one with a
\* method that gin does not take.
R(p) == [path |-> p, group |-> "p"]
SomeRouteBatches ==
    {<<R("/r")>>, <<R("/r/../page/a")>>, <<R("//r"), R("/page/a")>>, <<R("/r"), R("//r")>>,
     <<R("/*any")>>, <<R("M-SEARCH /r")>>}
SomeCleanPath ==
    [p \in {"/r", "//r", "/r/../page/a", "/page/a", "/*any", "M-SEARCH /r"} |->
        IF p = "//r" THEN "/r" ELSE IF p = "/r/../page/a" THEN "/page/a" ELSE p]
SomeConflicting == {{"/*any", "/r"}, {"/*any", "/page/a"}, {"/*any", "/page/b"}}
SomePagePath == [p \in {"a", "b"} |-> IF p = "a" THEN "/page/a" ELSE "/page/b"]

\* Beside syncs the commands' bounds are smaller, people write no permission
\* groups, and a write is cut short only between groups.
Small == count'.releases <= 2 /\ count'.edits <= 1 /\ count'.faults <= 1

OnlyGroups(m) == DOMAIN m.resources \cup m.stale \cup m.permissionGroups = {}

CutBetweenGroups ==
    generation # Nil /\ disk' = "cut" =>
        \A e \in DOMAIN file'.groups : file'.groups[e] = generation.groups[e]

MCInit == Init /\ (command = "serve" => release = First)

MCNext ==
    /\ Next
    /\ IF release \in SyncedReleases
       THEN release' \in SyncedReleases /\ Small /\ OnlyGroups(file') /\ CutBetweenGroups
       ELSE release' \notin SyncedReleases /\ UNCHANGED job

MCSpec == MCInit /\ [][MCNext]_vars

Symmetry == Permutations(Jobs)
=============================================================================
