---------------------------- MODULE KeycloakSync ----------------------------
(***************************************************************************)
(* `access sync`: a command that validates the manifest and brings the UMA *)
(* resources of Keycloak in line with its access groups, call by call.     *)
(* A call fails, or takes effect and its reply is lost; either ends the    *)
(* command where it is, and a later one starts over.  Several commands may *)
(* run at once.                                                            *)
(*                                                                         *)
(* A resource stands under its name, which Keycloak keeps unique; sfp says *)
(* that it carries the attribute sfp.accessGroup.                          *)
(***************************************************************************)
EXTENDS AccessManifest

CONSTANTS Jobs,      \* sync commands
          Others     \* names of resources that are no access groups

VARIABLES remote,    \* name -> the resource in Keycloak, or Nil
          job        \* sync command -> what it knows and has left to do

syncVars == <<remote, job>>

Names == Codes \cup Others

Resources == [sfp : BOOLEAN, deprecated : BOOLEAN, parent : Codes \cup {Nil, Torn}]

\* What markDeprecated has read and is about to write back.
Reads == [name : Codes, resource : Resources]

ASSUME NilAssumption == Nil \notin Resources \cup Reads

Foreign == [sfp |-> FALSE, deprecated |-> FALSE, parent |-> Nil]

Idle == [pc |-> "idle", groups |-> << >>, existing |-> {}, todo |-> {},
         gone |-> {}, seen |-> Nil, alone |-> FALSE]

KeycloakResource(group) ==
    [sfp |-> TRUE, deprecated |-> FALSE, parent |-> group.parent]

IsSFPAccessGroup(n) == remote[n] # Nil /\ remote[n].sfp

Enabled(groups) == {c \in DOMAIN groups : groups[c].enabled}

\* MUTANT: a group that is switched off counts as gone.
BugStaleAccessGroups(groups, existing) == existing \ Enabled(groups)

StaleAccessGroups(groups, existing) == existing \ DOMAIN groups

SyncInit ==
    /\ remote = [n \in Names |-> IF n \in Others THEN Foreign ELSE Nil]
    /\ job = [j \in Jobs |-> Idle]

Running(j) == job[j].pc # "idle"

\* The groups of a manifest that validate accepts, which has none twice.
Listed(m) == [c \in CodesIn(m.groups) |-> m.groups[CHOOSE e \in DOMAIN m.groups : e.code = c]]

\* The command reads the file and validates it, and gets its token.  A file
\* that is missing or broken, or whose problems validate names, stops it.
StartSync(j) ==
    /\ ~Running(j)
    /\ disk \notin {"missing", "broken"} /\ Problems(file) = {}
    /\ LET alone == \A i \in Jobs \ {j} : ~Running(i)
       IN  job' = [i \in Jobs |->
              IF i = j THEN [Idle EXCEPT !.pc = "list", !.groups = Listed(file),
                                         !.alone = alone]
                       ELSE [job[i] EXCEPT !.alone = FALSE]]
    /\ UNCHANGED remote

\* resourceIndex: the list has whole resources, or ids that are fetched one
\* by one.  It is one step, since no call removes a resource or changes
\* whether it is an access group: what the fetches see the list had already.
ResourceIndex(j) ==
    /\ job[j].pc = "list"
    /\ LET existing == {n \in Names : IsSFPAccessGroup(n)}
       IN  job' = [job EXCEPT ![j].pc = "groups", ![j].existing = existing,
                     ![j].todo = Enabled(job[j].groups),
                     ![j].gone = StaleAccessGroups(job[j].groups, existing)]
    /\ UNCHANGED remote

\* A reply comes, and the command goes on, or it is lost, and the command
\* ends with an error.
Goes(j, next) ==
    \/ job' = [job EXCEPT ![j] = next] /\ UNCHANGED count
    \/ /\ count.faults < MaxFaults
       /\ job' = [job EXCEPT ![j] = Idle]
       /\ count' = [count EXCEPT !.faults = @ + 1]

\* MUTANT: the update keeps the attributes the resource has.
BugPutGroup(j, c) ==
    /\ job[j].pc = "groups" /\ c \in job[j].todo /\ c \in job[j].existing
    /\ remote' = [remote EXCEPT ![c].parent = job[j].groups[c].parent]
    /\ Goes(j, [job[j] EXCEPT !.todo = @ \ {c}])

PutGroup(j, c) ==
    /\ job[j].pc = "groups" /\ c \in job[j].todo /\ c \in job[j].existing
    /\ remote' = [remote EXCEPT ![c] = KeycloakResource(job[j].groups[c])]
    /\ Goes(j, [job[j] EXCEPT !.todo = @ \ {c}])

PostGroup(j, c) ==
    /\ job[j].pc = "groups" /\ c \in job[j].todo /\ c \notin job[j].existing
    /\ remote[c] = Nil
    /\ remote' = [remote EXCEPT ![c] = KeycloakResource(job[j].groups[c])]
    /\ Goes(j, [job[j] EXCEPT !.todo = @ \ {c}])

\* Keycloak answers 409: the name is taken since the list was read, or by a
\* resource that is no access group.
PostConflict(j, c) ==
    /\ job[j].pc = "groups" /\ c \in job[j].todo /\ c \notin job[j].existing
    /\ remote[c] # Nil
    /\ job' = [job EXCEPT ![j] = Idle]
    /\ UNCHANGED <<remote, count>>

\* markDeprecated reads the resource and writes it back with two attributes,
\* once the groups are done.
GetStale(j, c) ==
    /\ job[j].pc = "groups" /\ job[j].todo = {} /\ job[j].seen = Nil
    /\ c \in job[j].gone
    /\ job' = [job EXCEPT ![j].gone = @ \ {c},
                          ![j].seen = [name |-> c, resource |-> remote[c]]]
    /\ UNCHANGED remote

PutStale(j) ==
    /\ job[j].seen # Nil
    /\ LET s == job[j].seen
       IN  remote' = [remote EXCEPT ![s.name] = [s.resource EXCEPT !.deprecated = TRUE]]
    /\ Goes(j, [job[j] EXCEPT !.seen = Nil])

Succeeded(j) ==
    job[j].pc = "groups" /\ job[j].todo = {} /\ job[j].gone = {} /\ job[j].seen = Nil

SyncDone(j) ==
    /\ Succeeded(j)
    /\ job' = [job EXCEPT ![j] = Idle]
    /\ UNCHANGED remote

\* A call fails without effect, or the command is killed.
CallFails(j) ==
    /\ Running(j) /\ count.faults < MaxFaults
    /\ job' = [job EXCEPT ![j] = Idle]
    /\ count' = [count EXCEPT !.faults = @ + 1]
    /\ UNCHANGED remote

Calls(j) ==
    \/ StartSync(j) \/ ResourceIndex(j) \/ SyncDone(j)
    \/ \E c \in Codes : GetStale(j, c)

FaultyCalls(j) ==
    \/ PutStale(j) \/ CallFails(j)
    \/ \E c \in Codes : PutGroup(j, c) \/ PostGroup(j, c) \/ PostConflict(j, c)

SyncNext ==
    \E j \in Jobs :
        \/ Calls(j) /\ UNCHANGED manifestVars
        \/ FaultyCalls(j) /\ UNCHANGED <<release, disk, file, generation, current, history>>

-----------------------------------------------------------------------------
(* A sync that ends well, with no other beside it, leaves Keycloak as its  *)
(* manifest says, whatever failed commands before it left behind: every    *)
(* enabled group has an up-to-date resource that is not deprecated, and    *)
(* every access group the manifest does not list is deprecated.            *)
SyncedAsListed ==
    \A j \in Jobs : Succeeded(j) /\ job[j].alone =>
        \A n \in Names :
            /\ n \in Enabled(job[j].groups) => remote[n] = KeycloakResource(job[j].groups[n])
            /\ n \notin DOMAIN job[j].groups /\ IsSFPAccessGroup(n) => remote[n].deprecated

(* No step of any mix of syncs changes a resource that is no access group, *)
(* and none deprecates a group that its own manifest lists, enabled or     *)
(* not.                                                                    *)
SyncSpares ==
    [][\A n \in Names : remote[n] # Nil /\ remote'[n] # remote[n] =>
          /\ remote[n].sfp
          /\ remote'[n].deprecated /\ ~remote[n].deprecated =>
                \E j \in Jobs : job'[j] # job[j] /\ n \notin DOMAIN job[j].groups]_remote
=============================================================================
