-------------------------- MODULE Application_proofs --------------------------
(***************************************************************************)
(* The properties of the application, for every set of releases, groups,   *)
(* keys, sync commands, sidebar batches, routes and publishers.            *)
(*                                                                         *)
(* The four parts share no state but for the manifest that a sync reads,   *)
(* so that each has an invariant of its own: ManifestInv, SyncInv,         *)
(* RoutesInv and SidebarInv.                                               *)
(***************************************************************************)
EXTENDS Application, FiniteSetTheorems, TLAPS

Group == [typed : BOOLEAN, parent : Codes \cup {Nil, Torn},
          elements : SUBSET (Elements \cup {Torn}), enabled : BOOLEAN]

GroupMaps == UNION {[S -> Group] : S \in SUBSET Codes}

LEMMA GroupMapTyped ==
  ASSUME NEW g \in GroupMaps
  PROVE  g \in [DOMAIN g -> Group] /\ DOMAIN g \subseteq Codes
<1>1. PICK S \in SUBSET Codes : g \in [S -> Group]
  BY DEF GroupMaps
<1> QED
  BY <1>1

LEMMA IsGroupMap ==
  ASSUME NEW S \in SUBSET Codes, NEW g \in [S -> Group]
  PROVE  g \in GroupMaps
BY DEF GroupMaps

LEMMA EmptyMap == << >> \in GroupMaps /\ DOMAIN << >> = {}
<1>1. << >> \in [{} -> Group] /\ DOMAIN << >> = {}
  OBVIOUS
<1> QED
  BY <1>1, IsGroupMap

-----------------------------------------------------------------------------
Job == [pc : {"idle", "list", "groups"}, groups : GroupMaps, existing : SUBSET Names,
        todo : SUBSET Codes, gone : SUBSET Names, seen : Reads \cup {Nil}, alone : BOOLEAN]

SyncTyped ==
  /\ remote \in [Names -> Resources \cup {Nil}]
  /\ job \in [Jobs -> Job]

AccessGroups == {n \in Names : IsSFPAccessGroup(n)}

\* What a command has noted down, however many others run beside it.
Noted(j) ==
  /\ job[j].todo \subseteq Enabled(job[j].groups)
  /\ job[j].existing \subseteq AccessGroups
  /\ job[j].gone \subseteq AccessGroups \ DOMAIN job[j].groups
  /\ job[j].seen # Nil =>
       /\ job[j].pc = "groups"
       /\ job[j].seen.name \in AccessGroups \ DOMAIN job[j].groups
       /\ job[j].seen.resource.sfp

\* What a command that has read the list has got done.
Done(j) ==
  job[j].pc = "groups" =>
    \A n \in Names :
      /\ n \in Enabled(job[j].groups) \ job[j].todo =>
           remote[n] = KeycloakResource(job[j].groups[n])
      /\ n \in AccessGroups \ DOMAIN job[j].groups =>
           \/ n \in job[j].gone
           \/ job[j].seen # Nil /\ job[j].seen.name = n
           \/ remote[n].deprecated

\* Only of a command that runs alone can that be said.
Progress(j) ==
  job[j].alone => Running(j) /\ (\A i \in Jobs \ {j} : ~Running(i)) /\ Done(j)

SyncInv == SyncTyped /\ \A j \in Jobs : Noted(j) /\ Progress(j)

LEMMA EnabledCodes ==
  ASSUME NEW g \in GroupMaps
  PROVE  Enabled(g) \subseteq DOMAIN g /\ DOMAIN g \subseteq Codes
BY GroupMapTyped DEF Enabled

LEMMA IdleTyped == Idle \in Job
BY EmptyMap DEF Idle, Job

\* The resource that stands for a group.
LEMMA GroupResource ==
  ASSUME NEW g \in GroupMaps, NEW c \in DOMAIN g
  PROVE  /\ KeycloakResource(g[c]) \in Resources /\ KeycloakResource(g[c]) # Nil
         /\ KeycloakResource(g[c]).sfp /\ ~KeycloakResource(g[c]).deprecated
<1>1. g[c] \in Group
  BY GroupMapTyped
<1>2. KeycloakResource(g[c]) \in Resources
  BY <1>1 DEF KeycloakResource, Resources, Group
<1> QED
  BY <1>2, NilAssumption DEF KeycloakResource

\* A step of a command that is running leaves the others what they noted, and
\* none of them runs alone.
LEMMA OwnStep ==
  ASSUME SyncInv, NEW j \in Jobs, Running(j),
         NEW new \in Job, job' = [job EXCEPT ![j] = new],
         remote' \in [Names -> Resources \cup {Nil}],
         AccessGroups \subseteq AccessGroups',
         Noted(j)', new.alone => job[j].alone /\ Running(j)' /\ Done(j)'
  PROVE  SyncInv'
<1>1. SyncTyped'
  BY DEF SyncInv, SyncTyped
<1>2. job'[j] = new /\ \A i \in Jobs \ {j} : job'[i] = job[i]
  BY DEF SyncInv, SyncTyped
<1>3. ASSUME NEW i \in Jobs, i # j PROVE Noted(i)' /\ Progress(i)'
  <2>1. job'[i] = job[i] /\ ~job[i].alone
    BY <1>2, <1>3 DEF SyncInv, Progress
  <2>2. Noted(i)'
    BY <1>3, <2>1 DEF SyncInv, Noted
  <2>3. Progress(i)'
    BY <2>1 DEF Progress
  <2> QED
    BY <2>2, <2>3
<1>4. Progress(j)'
  <2>1. SUFFICES ASSUME job'[j].alone
                 PROVE  Running(j)' /\ (\A i \in Jobs \ {j} : ~Running(i))' /\ Done(j)'
    BY DEF Progress
  <2>2. job[j].alone /\ Running(j)' /\ Done(j)'
    BY <1>2, <2>1
  <2>3. \A i \in Jobs \ {j} : ~Running(i)
    BY <2>2 DEF SyncInv, Progress
  <2>4. (\A i \in Jobs \ {j} : ~Running(i))'
    BY <1>2, <2>3 DEF Running
  <2> QED
    BY <2>2, <2>4
<1> QED
  BY <1>1, <1>3, <1>4 DEF SyncInv

\* A command that ends forgets all it noted.
LEMMA Ending ==
  ASSUME SyncInv, NEW j \in Jobs, Running(j), job' = [job EXCEPT ![j] = Idle],
         remote' \in [Names -> Resources \cup {Nil}],
         AccessGroups \subseteq AccessGroups'
  PROVE  SyncInv'
<1>1. job'[j] = Idle
  BY DEF SyncInv, SyncTyped
<1>2. Noted(j)'
  BY <1>1 DEF Noted, Idle
<1>3. ~Idle.alone
  BY DEF Idle
<1> QED
  BY <1>2, <1>3, IdleTyped, OwnStep

LEMMA Going ==
  ASSUME SyncInv, NEW j \in Jobs, Running(j),
         NEW new \in Job, Goes(j, new),
         remote' \in [Names -> Resources \cup {Nil}],
         AccessGroups \subseteq AccessGroups',
         job' = [job EXCEPT ![j] = new] =>
           Noted(j)' /\ (new.alone => job[j].alone /\ Running(j)' /\ Done(j)')
  PROVE  SyncInv'
<1>1. CASE job' = [job EXCEPT ![j] = new]
  BY <1>1, OwnStep
<1>2. CASE job' = [job EXCEPT ![j] = Idle]
  BY <1>2, Ending
<1> QED
  BY <1>1, <1>2 DEF Goes

LEMMA StartKeeps ==
  ASSUME SyncInv, Listed(file) \in GroupMaps, NEW j \in Jobs, StartSync(j)
  PROVE  SyncInv'
<1> DEFINE alone == \A i \in Jobs \ {j} : ~Running(i)
           new == [Idle EXCEPT !.pc = "list", !.groups = Listed(file), !.alone = alone]
<1>1. /\ new \in Job /\ new.pc = "list" /\ new.alone = alone
      /\ new.todo = {} /\ new.existing = {} /\ new.gone = {} /\ new.seen = Nil
  <2> alone \in BOOLEAN
    OBVIOUS
  <2> HIDE DEF alone
  <2> QED
    BY IdleTyped DEF Idle, Job
<1> HIDE DEF new
<1>2. \A i \in Jobs : job'[i] = IF i = j THEN new ELSE [job[i] EXCEPT !.alone = FALSE]
  BY DEF StartSync, new
<1>3. ASSUME NEW i \in Jobs
      PROVE  LET s == [job[i] EXCEPT !.alone = FALSE]
             IN  /\ s \in Job /\ ~s.alone /\ s.pc = job[i].pc /\ s.groups = job[i].groups
                 /\ s.todo = job[i].todo /\ s.existing = job[i].existing
                 /\ s.gone = job[i].gone /\ s.seen = job[i].seen
  BY DEF SyncInv, SyncTyped, Job
<1>4. remote' = remote /\ AccessGroups' = AccessGroups
  BY DEF StartSync, AccessGroups, IsSFPAccessGroup
<1>5. SyncTyped'
  <2>1. job' \in [Jobs -> Job]
    BY <1>1, <1>2, <1>3 DEF StartSync
  <2> QED
    BY <1>4, <2>1 DEF SyncInv, SyncTyped
<1>6. ASSUME NEW i \in Jobs PROVE Noted(i)' /\ Progress(i)'
  <2>1. CASE i = j
    <3>1. job'[i] = new
      BY <1>2, <2>1
    <3>2. Noted(i)'
      BY <1>1, <3>1 DEF Noted
    <3>3. Running(i)' /\ Done(i)'
      BY <1>1, <3>1 DEF Running, Done
    <3>4. job'[i].alone => \A k \in Jobs \ {i} : ~Running(k)
      BY <1>1, <2>1, <3>1
    <3>5. ASSUME NEW k \in Jobs \ {i}, ~Running(k) PROVE ~Running(k)'
      <4>1. job'[k] = [job[k] EXCEPT !.alone = FALSE] /\ job'[k].pc = job[k].pc
        BY <1>2, <1>3, <2>1
      <4> QED
        BY <3>5, <4>1 DEF Running
    <3>6. job'[i].alone => (\A k \in Jobs \ {i} : ~Running(k))'
      BY <3>4, <3>5
    <3> QED
      BY <3>2, <3>3, <3>6 DEF Progress
  <2>2. CASE i # j
    <3> DEFINE s == [job[i] EXCEPT !.alone = FALSE]
    <3>1. job'[i] = s
      BY <1>2, <2>2
    <3>2. /\ ~s.alone /\ s.pc = job[i].pc /\ s.groups = job[i].groups
          /\ s.todo = job[i].todo /\ s.existing = job[i].existing
          /\ s.gone = job[i].gone /\ s.seen = job[i].seen
      BY <1>3
    <3> HIDE DEF s
    <3>3. Noted(i)'
      BY <1>4, <3>1, <3>2 DEF Noted, SyncInv
    <3> QED
      BY <3>1, <3>2, <3>3 DEF Progress
  <2> QED
    BY <2>1, <2>2
<1> QED
  BY <1>5, <1>6 DEF SyncInv

LEMMA IndexKeeps ==
  ASSUME SyncInv, NEW j \in Jobs, ResourceIndex(j)
  PROVE  SyncInv'
<1> DEFINE old == job[j]
           new == [old EXCEPT !.pc = "groups", !.existing = AccessGroups,
                     !.todo = Enabled(old.groups),
                     !.gone = StaleAccessGroups(old.groups, AccessGroups)]
<1>1. old \in Job /\ old.pc = "list" /\ Noted(j)
  BY DEF SyncInv, SyncTyped, ResourceIndex
<1>2. AccessGroups \subseteq Names
  BY DEF AccessGroups
<1>3. StaleAccessGroups(old.groups, AccessGroups) = AccessGroups \ DOMAIN old.groups
  BY DEF StaleAccessGroups
<1>4. old.groups \in GroupMaps
  BY <1>1 DEF Job
<1>5. Enabled(old.groups) \in SUBSET Codes
  BY <1>4, EnabledCodes
<1>6. /\ new \in Job /\ new.pc = "groups" /\ new.existing = AccessGroups
      /\ new.groups = old.groups /\ new.seen = old.seen /\ new.alone = old.alone
      /\ new.todo = Enabled(old.groups) /\ new.gone = AccessGroups \ DOMAIN old.groups
  <2> HIDE DEF old
  <2> QED
    BY <1>1, <1>2, <1>3, <1>5 DEF Job
<1>7. job' = [job EXCEPT ![j] = new]
  BY DEF ResourceIndex, AccessGroups
<1>8. remote' = remote /\ AccessGroups' = AccessGroups
  BY DEF ResourceIndex, AccessGroups, IsSFPAccessGroup
<1>9. job'[j] = new
  BY <1>7 DEF SyncInv, SyncTyped
<1> HIDE DEF new
<1>10. Noted(j)'
  BY <1>1, <1>6, <1>8, <1>9 DEF Noted
<1>11. Running(j) /\ Running(j)'
  BY <1>1, <1>6, <1>9 DEF Running
<1>12. Done(j)'
  BY <1>6, <1>8, <1>9 DEF Done
<1>13. remote' \in [Names -> Resources \cup {Nil}]
  BY <1>8 DEF SyncInv, SyncTyped
<1> QED
  BY <1>6, <1>7, <1>8, <1>10, <1>11, <1>12, <1>13, OwnStep

\* Both calls that write a group leave its resource as the manifest has it.
LEMMA GroupWritten ==
  ASSUME SyncInv, NEW j \in Jobs, NEW c \in Codes,
         job[j].pc = "groups", c \in job[j].todo,
         remote' = [remote EXCEPT ![c] = KeycloakResource(job[j].groups[c])],
         Goes(j, [job[j] EXCEPT !.todo = @ \ {c}])
  PROVE  SyncInv'
<1> DEFINE old == job[j]
           new == [old EXCEPT !.todo = @ \ {c}]
           written == KeycloakResource(old.groups[c])
<1>1. old \in Job /\ Noted(j) /\ Progress(j)
  BY DEF SyncInv, SyncTyped
<1>2. /\ new \in Job /\ new.todo = old.todo \ {c} /\ new.pc = old.pc
      /\ new.groups = old.groups /\ new.existing = old.existing
      /\ new.gone = old.gone /\ new.seen = old.seen /\ new.alone = old.alone
  <2> HIDE DEF old
  <2> QED
    BY <1>1 DEF Job
<1>3. old.groups \in GroupMaps /\ c \in Enabled(old.groups) /\ c \in DOMAIN old.groups
  BY <1>1, EnabledCodes DEF Job, Noted
<1>4. written \in Resources /\ written # Nil /\ written.sfp
  BY <1>3, GroupResource
<1>5. \A n \in Names : remote'[n] = IF n = c THEN written ELSE remote[n]
  BY DEF SyncInv, SyncTyped
<1>6. remote' \in [Names -> Resources \cup {Nil}]
  BY <1>4 DEF SyncInv, SyncTyped
<1> HIDE DEF new, written
<1>7. AccessGroups' = AccessGroups \cup {c}
  BY <1>4, <1>5 DEF AccessGroups, IsSFPAccessGroup, Names
<1>8. ASSUME job' = [job EXCEPT ![j] = new]
      PROVE  Noted(j)' /\ (new.alone => job[j].alone /\ Running(j)' /\ Done(j)')
  <2>1. job'[j] = new
    BY <1>8 DEF SyncInv, SyncTyped
  <2>2. Noted(j)'
    BY <1>1, <1>2, <1>7, <2>1 DEF Noted
  <2>3. Running(j)'
    BY <1>2, <2>1 DEF Running
  <2>4. ASSUME new.alone PROVE Done(j)'
    <3>1. Done(j)
      BY <1>1, <1>2, <2>4 DEF Progress
    <3>2. SUFFICES ASSUME NEW n \in Names
                   PROVE  /\ n \in Enabled(new.groups) \ new.todo =>
                               remote'[n] = KeycloakResource(new.groups[n])
                          /\ n \in AccessGroups' \ DOMAIN new.groups =>
                               \/ n \in new.gone
                               \/ new.seen # Nil /\ new.seen.name = n
                               \/ remote'[n].deprecated
      BY <2>1 DEF Done
    <3>3. CASE n = c
      BY <1>2, <1>3, <1>5, <3>3 DEF written
    <3>4. CASE n # c
      BY <1>2, <1>5, <1>7, <3>1, <3>4 DEF Done
    <3> QED
      BY <3>3, <3>4
  <2> QED
    BY <1>2, <2>2, <2>3, <2>4
<1>9. Goes(j, new) /\ Running(j)
  BY DEF Running, new
<1> QED
  BY <1>2, <1>6, <1>7, <1>8, <1>9, Going

LEMMA GetStaleKeeps ==
  ASSUME SyncInv, NEW j \in Jobs, NEW c \in Codes, GetStale(j, c)
  PROVE  SyncInv'
<1> DEFINE old == job[j]
           read == [name |-> c, resource |-> remote[c]]
           new == [old EXCEPT !.gone = @ \ {c}, !.seen = read]
<1>1. old \in Job /\ Noted(j) /\ Progress(j) /\ old.pc = "groups" /\ old.seen = Nil
  BY DEF SyncInv, SyncTyped, GetStale
<1>2. c \in AccessGroups \ DOMAIN old.groups
  BY <1>1 DEF Noted, GetStale
<1>3. remote[c] \in Resources /\ remote[c].sfp
  BY <1>2 DEF AccessGroups, IsSFPAccessGroup, SyncInv, SyncTyped
<1>4. read \in Reads /\ read # Nil /\ read.name = c /\ read.resource = remote[c]
  BY <1>3, NilAssumption DEF Reads
<1> HIDE DEF read
<1>5. /\ new \in Job /\ new.todo = old.todo /\ new.pc = old.pc
      /\ new.groups = old.groups /\ new.existing = old.existing
      /\ new.gone = old.gone \ {c} /\ new.seen = read /\ new.alone = old.alone
  <2> HIDE DEF old
  <2> QED
    BY <1>1, <1>4 DEF Job
<1>6. remote' = remote /\ AccessGroups' = AccessGroups
  BY DEF GetStale, AccessGroups, IsSFPAccessGroup
<1>7. remote' \in [Names -> Resources \cup {Nil}]
  BY <1>6 DEF SyncInv, SyncTyped
<1>8. job' = [job EXCEPT ![j] = new]
  BY DEF GetStale, read
<1>9. job'[j] = new
  BY <1>8 DEF SyncInv, SyncTyped
<1> HIDE DEF new
<1>10. Noted(j)'
  BY <1>1, <1>2, <1>3, <1>4, <1>5, <1>6, <1>9 DEF Noted
<1>11. Running(j) /\ Running(j)'
  BY <1>1, <1>5, <1>9 DEF Running
<1>12. Done(j) => Done(j)'
  BY <1>1, <1>4, <1>5, <1>6, <1>9 DEF Done
<1>13. old.alone => Done(j)
  BY <1>1 DEF Progress
<1> QED
  BY <1>5, <1>6, <1>7, <1>8, <1>10, <1>11, <1>12, <1>13, OwnStep

LEMMA PutStaleKeeps ==
  ASSUME SyncInv, NEW j \in Jobs, PutStale(j)
  PROVE  SyncInv'
<1> DEFINE old == job[j]
           new == [old EXCEPT !.seen = Nil]
           name == old.seen.name
           written == [old.seen.resource EXCEPT !.deprecated = TRUE]
<1>1. old \in Job /\ Noted(j) /\ Progress(j) /\ old.seen # Nil
  BY DEF SyncInv, SyncTyped, PutStale
<1>2. old.seen \in Reads /\ name \in AccessGroups \ DOMAIN old.groups
  BY <1>1 DEF Noted, Job
<1>3. old.seen.resource \in Resources /\ old.seen.resource.sfp
  BY <1>1, <1>2 DEF Reads, Noted
<1>4. written \in Resources /\ written.sfp /\ written.deprecated
  BY <1>3 DEF Resources
<1>5. written # Nil
  BY <1>4, NilAssumption
<1>6. /\ new \in Job /\ new.todo = old.todo /\ new.pc = old.pc
      /\ new.groups = old.groups /\ new.existing = old.existing
      /\ new.gone = old.gone /\ new.seen = Nil /\ new.alone = old.alone
  <2> HIDE DEF old
  <2> QED
    BY <1>1 DEF Job
<1>7. remote' = [remote EXCEPT ![name] = written] /\ Goes(j, new)
  BY DEF PutStale
<1> HIDE DEF new, written
<1>8. \A n \in Names : remote'[n] = IF n = name THEN written ELSE remote[n]
  BY <1>7 DEF SyncInv, SyncTyped
<1>9. remote' \in [Names -> Resources \cup {Nil}]
  BY <1>4, <1>7 DEF SyncInv, SyncTyped
<1>10. AccessGroups' = AccessGroups
  BY <1>2, <1>4, <1>5, <1>8 DEF AccessGroups, IsSFPAccessGroup
<1>11. Running(j)
  BY <1>1 DEF Running, Noted
<1>12. ASSUME job' = [job EXCEPT ![j] = new]
       PROVE  Noted(j)' /\ (new.alone => job[j].alone /\ Running(j)' /\ Done(j)')
  <2>1. job'[j] = new
    BY <1>12 DEF SyncInv, SyncTyped
  <2>2. Noted(j)'
    BY <1>1, <1>6, <1>10, <2>1 DEF Noted
  <2>3. Running(j)'
    BY <1>6, <1>11, <2>1 DEF Running
  <2>4. ASSUME new.alone PROVE Done(j)'
    <3>1. Done(j)
      BY <1>1, <1>6, <2>4 DEF Progress
    <3>2. name \notin Enabled(old.groups)
      BY <1>2 DEF Enabled
    <3> QED
      BY <1>4, <1>6, <1>8, <1>10, <2>1, <3>1, <3>2 DEF Done
  <2> QED
    BY <1>6, <2>2, <2>3, <2>4
<1> QED
  BY <1>6, <1>7, <1>9, <1>10, <1>11, <1>12, Going

LEMMA SyncKeeps ==
  ASSUME SyncInv, Listed(file) \in GroupMaps, SyncNext
  PROVE  SyncInv'
<1>1. PICK j \in Jobs : Calls(j) \/ FaultyCalls(j)
  BY DEF SyncNext
<1>2. CASE StartSync(j)
  BY <1>2, StartKeeps
<1>3. CASE ResourceIndex(j)
  BY <1>3, IndexKeeps
<1>4. CASE SyncDone(j)
  <2>1. Running(j) /\ remote' = remote /\ job' = [job EXCEPT ![j] = Idle]
    BY <1>4 DEF SyncDone, Succeeded, Running
  <2>2. AccessGroups' = AccessGroups
    BY <2>1 DEF AccessGroups, IsSFPAccessGroup
  <2> QED
    BY <2>1, <2>2, Ending DEF SyncInv, SyncTyped
<1>5. ASSUME NEW c \in Codes, GetStale(j, c) PROVE SyncInv'
  BY <1>5, GetStaleKeeps
<1>6. CASE PutStale(j)
  BY <1>6, PutStaleKeeps
<1>7. CASE CallFails(j)
  <2>1. Running(j) /\ remote' = remote /\ job' = [job EXCEPT ![j] = Idle]
    BY <1>7 DEF CallFails
  <2>2. AccessGroups' = AccessGroups
    BY <2>1 DEF AccessGroups, IsSFPAccessGroup
  <2> QED
    BY <2>1, <2>2, Ending DEF SyncInv, SyncTyped
<1>8. ASSUME NEW c \in Codes, PutGroup(j, c) \/ PostGroup(j, c) PROVE SyncInv'
  BY <1>8, GroupWritten DEF PutGroup, PostGroup
<1>9. ASSUME NEW c \in Codes, PostConflict(j, c) PROVE SyncInv'
  <2>1. Running(j) /\ remote' = remote /\ job' = [job EXCEPT ![j] = Idle]
    BY <1>9 DEF PostConflict, Running
  <2>2. AccessGroups' = AccessGroups
    BY <2>1 DEF AccessGroups, IsSFPAccessGroup
  <2> QED
    BY <2>1, <2>2, Ending DEF SyncInv, SyncTyped
<1> QED
  BY <1>1, <1>2, <1>3, <1>4, <1>5, <1>6, <1>7, <1>8, <1>9 DEF Calls, FaultyCalls

LEMMA SyncStarts == SyncInit => SyncInv
<1> SUFFICES ASSUME SyncInit PROVE SyncInv
  OBVIOUS
<1>1. Foreign \in Resources
  BY DEF Foreign, Resources
<1>2. SyncTyped
  BY <1>1, IdleTyped DEF SyncInit, SyncTyped
<1>3. ASSUME NEW j \in Jobs PROVE Noted(j) /\ Progress(j)
  BY DEF SyncInit, Noted, Progress, Idle
<1> QED
  BY <1>2, <1>3 DEF SyncInv

LEMMA SyncedFromInv == SyncInv => SyncedAsListed
<1> SUFFICES ASSUME SyncInv, NEW j \in Jobs, Succeeded(j), job[j].alone, NEW n \in Names
             PROVE  /\ n \in Enabled(job[j].groups) =>
                          remote[n] = KeycloakResource(job[j].groups[n])
                    /\ n \notin DOMAIN job[j].groups /\ IsSFPAccessGroup(n) =>
                          remote[n].deprecated
  BY DEF SyncedAsListed
<1>1. Done(j)
  BY DEF SyncInv, Progress
<1> QED
  BY <1>1 DEF Done, Succeeded, AccessGroups

LEMMA SyncStepSpares ==
  ASSUME SyncInv, SyncNext, NEW n \in Names, remote[n] # Nil, remote'[n] # remote[n]
  PROVE  /\ remote[n].sfp
         /\ remote'[n].deprecated /\ ~remote[n].deprecated =>
               \E j \in Jobs : job'[j] # job[j] /\ n \notin DOMAIN job[j].groups
<1>1. PICK j \in Jobs : Calls(j) \/ FaultyCalls(j)
  BY DEF SyncNext
<1>2. job[j] \in Job /\ Noted(j) /\ remote \in [Names -> Resources \cup {Nil}]
  BY DEF SyncInv, SyncTyped
<1>3. ASSUME NEW c \in Codes, PutGroup(j, c) PROVE remote[n].sfp /\ ~remote'[n].deprecated
  <2>1. c = n
    BY <1>2, <1>3 DEF PutGroup
  <2>2. remote[n].sfp
    BY <1>2, <1>3, <2>1 DEF PutGroup, Noted, AccessGroups, IsSFPAccessGroup
  <2>3. c \in DOMAIN job[j].groups /\ job[j].groups \in GroupMaps
    BY <1>2, <1>3, EnabledCodes DEF PutGroup, Noted, Job
  <2>4. ~KeycloakResource(job[j].groups[c]).deprecated
    BY <2>3, GroupResource
  <2> QED
    BY <1>2, <1>3, <2>1, <2>2, <2>4 DEF PutGroup
<1>4. ASSUME PutStale(j) PROVE remote[n].sfp /\ job'[j] # job[j] /\ n \notin DOMAIN job[j].groups
  <2>1. job[j].seen # Nil /\ job[j].seen.name = n
    BY <1>2, <1>4 DEF PutStale
  <2>2. remote[n].sfp /\ n \notin DOMAIN job[j].groups
    BY <1>2, <2>1 DEF Noted, AccessGroups, IsSFPAccessGroup
  <2>3. ASSUME NEW new \in Job, new.seen = Nil, job' = [job EXCEPT ![j] = new]
        PROVE  job'[j] # job[j]
    BY <2>1, <2>3 DEF SyncInv, SyncTyped
  <2>4. [job[j] EXCEPT !.seen = Nil] \in Job /\ [job[j] EXCEPT !.seen = Nil].seen = Nil
    BY <1>2 DEF Job
  <2>5. Idle \in Job /\ Idle.seen = Nil
    BY IdleTyped DEF Idle
  <2>6. job'[j] # job[j]
    BY <1>4, <2>3, <2>4, <2>5 DEF PutStale, Goes
  <2> QED
    BY <2>2, <2>6
<1>5. \/ \E c \in Codes : PutGroup(j, c)
      \/ PutStale(j)
  <2>1. ASSUME NEW c \in Codes, PostGroup(j, c) PROVE FALSE
    BY <1>2, <2>1 DEF PostGroup, Names
  <2> QED
    BY <1>1, <2>1 DEF Calls, FaultyCalls, StartSync, ResourceIndex, SyncDone, GetStale,
                      CallFails, PostConflict
<1> QED
  BY <1>3, <1>4, <1>5

-----------------------------------------------------------------------------
FileKeys == Keys \cup {Torn, Empty}

Entries == [code : Codes, from : {"page", "registry"}]

GroupLists == UNION {[S -> Group] : S \in SUBSET Entries}

ResourceMaps == UNION {[S -> {"dsl", "edited"}] : S \in SUBSET FileKeys}

PermissionGroup == [named : BOOLEAN, accessGroups : SUBSET SUBSET Codes,
                    permissions : SUBSET SUBSET Keys]

Manifest == [version : {0, 1}, groups : GroupLists, resources : ResourceMaps,
             permissionGroups : SUBSET PermissionGroup, stale : SUBSET FileKeys]

History == [keys : SUBSET FileKeys, edited : SUBSET FileKeys, off : SUBSET Codes,
            parents : [Codes -> Codes \cup {Nil}], permitted : SUBSET PermissionGroups,
            cut : BOOLEAN]

\* What only an interrupted write leaves is not there.
Clean(m) ==
  /\ Empty \notin DOMAIN m.resources \cup m.stale
  /\ \A e \in DOMAIN m.groups : Torn \notin m.groups[e].elements
  /\ m.permissionGroups \subseteq PermissionGroups

\* A group says what people have said of its code.
Says(group, c, told) ==
  /\ c \in told.off => ~group.enabled
  /\ told.parents[c] # Nil => group.parent = told.parents[c]

\* A manifest holds what it was told.
Kept(m, told) ==
  /\ DOMAIN m.resources \cup m.stale = told.keys
  /\ \A k \in told.edited : k \in DOMAIN m.resources /\ m.resources[k] = "edited"
  /\ \A e \in DOMAIN m.groups : Says(m.groups[e], e.code, told)
  /\ \A c \in Codes \ CodesIn(m.groups) : c \notin told.off /\ told.parents[c] = Nil
  /\ ~told.cut => Clean(m) /\ told.permitted \subseteq m.permissionGroups

\* No key is active and stale, the version is set, and every group has a type.
Sound(m) ==
  /\ m.version = 1 /\ m.stale \cap DOMAIN m.resources = {}
  /\ \A e \in DOMAIN m.groups : m.groups[e].typed

\* The manifest lists what the release has.
Current(m) ==
  /\ DOMAIN m.resources = ResourcesOf(release)
  /\ DOMAIN m.groups = DOMAIN GroupsOf(release)

ManifestInv ==
  /\ release \in Releases /\ file \in Manifest /\ history \in History
  /\ disk = "writing" =>
       /\ generation \in Manifest /\ Sound(generation) /\ Current(generation)
       /\ Kept(generation, Remembered)
  /\ disk # "writing" => Kept(file, history)
  /\ disk = "whole" => Sound(file)
  /\ disk = "whole" /\ current => Current(file)

LEMMA ListTyped ==
  ASSUME NEW g \in GroupLists
  PROVE  g \in [DOMAIN g -> Group] /\ DOMAIN g \subseteq Entries /\ CodesIn(g) \subseteq Codes
<1>1. PICK S \in SUBSET Entries : g \in [S -> Group]
  BY DEF GroupLists
<1>2. g \in [DOMAIN g -> Group] /\ DOMAIN g \subseteq Entries
  BY <1>1
<1> QED
  BY <1>2 DEF CodesIn, Entries

LEMMA IsList ==
  ASSUME NEW S \in SUBSET Entries, NEW g \in [S -> Group]
  PROVE  g \in GroupLists
BY DEF GroupLists

LEMMA ResourcesTyped ==
  ASSUME NEW res \in ResourceMaps
  PROVE  res \in [DOMAIN res -> {"dsl", "edited"}] /\ DOMAIN res \subseteq FileKeys
<1>1. PICK S \in SUBSET FileKeys : res \in [S -> {"dsl", "edited"}]
  BY DEF ResourceMaps
<1> QED
  BY <1>1

LEMMA IsResources ==
  ASSUME NEW S \in SUBSET FileKeys, NEW res \in [S -> {"dsl", "edited"}]
  PROVE  res \in ResourceMaps
BY DEF ResourceMaps

LEMMA ManifestTyped ==
  ASSUME NEW m \in Manifest
  PROVE  /\ m.version \in {0, 1}
         /\ m.groups \in [DOMAIN m.groups -> Group] /\ DOMAIN m.groups \subseteq Entries
         /\ CodesIn(m.groups) \subseteq Codes
         /\ m.resources \in [DOMAIN m.resources -> {"dsl", "edited"}]
         /\ DOMAIN m.resources \subseteq FileKeys
         /\ m.permissionGroups \subseteq PermissionGroup /\ m.stale \subseteq FileKeys
<1>1. m.groups \in GroupLists /\ m.resources \in ResourceMaps
  BY DEF Manifest
<1> QED
  BY <1>1, ListTyped, ResourcesTyped DEF Manifest

LEMMA BlankTyped ==
  /\ Blank \in Manifest /\ DOMAIN Blank.groups = {} /\ DOMAIN Blank.resources = {}
  /\ Blank.stale = {} /\ Blank.permissionGroups = {} /\ CodesIn(Blank.groups) = {}
<1>1. << >> \in [{} -> {"dsl", "edited"}] /\ << >> \in [{} -> Group] /\ DOMAIN << >> = {}
  OBVIOUS
<1>2. << >> \in ResourceMaps /\ << >> \in GroupLists
  BY <1>1, IsResources, IsList
<1>3. /\ Blank.groups = << >> /\ Blank.resources = << >> /\ Blank.stale = {}
      /\ Blank.permissionGroups = {}
  BY DEF Blank
<1>4. Blank \in Manifest
  BY <1>2 DEF Blank, Manifest
<1> QED
  BY <1>1, <1>3, <1>4 DEF CodesIn

LEMMA Typed ==
  /\ PermissionGroups \subseteq PermissionGroup /\ \A g \in PermissionGroups : g.named
  /\ Empty \notin Keys /\ Torn \notin Keys
BY PermissionGroupsAssumption, TornAssumption DEF PermissionGroup

\* What is told is typed, and an empty manifest that was never cut holds it.
LEMMA ToldTyped ==
  ASSUME NEW m \in Manifest
  PROVE  LET h == Told(m)
         IN  /\ h \in History /\ h.keys = DOMAIN m.resources \cup m.stale
             /\ h.edited = {k \in DOMAIN m.resources : m.resources[k] = "edited"}
             /\ h.off = {} /\ h.parents = [c \in Codes |-> Nil]
             /\ h.permitted = {} /\ h.cut = FALSE
<1>1. [c \in Codes |-> Nil] \in [Codes -> Codes \cup {Nil}]
  OBVIOUS
<1>2. {k \in DOMAIN m.resources : m.resources[k] = "edited"} \subseteq FileKeys
  BY ManifestTyped
<1>3. DOMAIN m.resources \cup m.stale \subseteq FileKeys
  BY ManifestTyped
<1> QED
  BY <1>1, <1>2, <1>3 DEF Told, History

LEMMA BlankKept == Kept(Blank, Told(Blank)) /\ Told(Blank) \in History
BY BlankTyped, ToldTyped DEF Kept, Clean

LEMMA CollectedTyped ==
  ASSUME NEW r \in Releases
  PROVE  /\ ResourcesOf(r) \subseteq Keys /\ CodesOf(r) \subseteq Codes
         /\ GroupsOf(r) \in [DOMAIN GroupsOf(r) -> Group] /\ DOMAIN GroupsOf(r) \subseteq Entries
         /\ CodesIn(GroupsOf(r)) = CodesOf(r)
         /\ \A e \in DOMAIN GroupsOf(r) :
              GroupsOf(r)[e].typed /\ Torn \notin GroupsOf(r)[e].elements
<1> DEFINE E == {Entry(c, "page") : c \in DOMAIN r.pages}
                  \cup {Entry(c, "registry") : c \in DOMAIN r.registry}
           bound(e) == {b[2] : b \in {x \in r.bindings : x[1] = e.code}}
           elements(e) == IF e.from = "page" /\ e.code \in DOMAIN r.registry THEN {} ELSE bound(e)
           parent(e) == IF e.from = "registry" THEN r.registry[e.code] ELSE Nil
           G(e) == [typed |-> TRUE, parent |-> parent(e), elements |-> elements(e), enabled |-> TRUE]
<1>1. ResourcesOf(r) \subseteq Keys
  BY ReleasesAssumption DEF ResourcesOf
<1>2. CodesOf(r) \subseteq Codes /\ DOMAIN r.pages \subseteq Codes /\ DOMAIN r.registry \subseteq Codes
  BY ReleasesAssumption DEF CodesOf
<1>3. GroupsOf(r) = [e \in E |-> G(e)]
  BY DEF GroupsOf
<1>4. ASSUME NEW e \in E PROVE G(e) \in Group /\ G(e).typed /\ Torn \notin G(e).elements
  <2>1. parent(e) \in Codes \cup {Nil, Torn}
    <3>1. CASE e.from = "registry"
      <4>1. e.code \in DOMAIN r.registry
        BY <3>1 DEF Entry
      <4>2. r.registry \in [DOMAIN r.registry -> Codes \cup {Nil}]
        BY ReleasesAssumption
      <4> QED
        BY <3>1, <4>1, <4>2
    <3> QED
      BY <3>1
  <2>2. bound(e) \subseteq Elements
    <3>1. r.bindings \subseteq Codes \X Elements
      BY ReleasesAssumption
    <3> QED
      BY <3>1
  <2>3. elements(e) \subseteq Elements
    BY <2>2
  <2> HIDE DEF parent, elements, bound, E
  <2>4. Torn \notin elements(e)
    BY <2>3, TornAssumption
  <2> QED
    BY <2>1, <2>3, <2>4 DEF Group
<1>5. E \subseteq Entries
  BY <1>2 DEF Entry, Entries
<1>6. {e.code : e \in E} = CodesOf(r)
  <2>1. \A c, from : Entry(c, from).code = c
    BY DEF Entry
  <2>2. ASSUME NEW e \in E PROVE e.code \in CodesOf(r)
    BY <2>1 DEF CodesOf
  <2>3. ASSUME NEW c \in CodesOf(r) PROVE \E e \in E : e.code = c
    <3>1. Entry(c, "page") \in E \/ Entry(c, "registry") \in E
      BY DEF CodesOf
    <3> QED
      BY <2>1, <3>1
  <2> HIDE DEF E
  <2> QED
    BY <2>2, <2>3
<1> HIDE DEF E, G
<1>7. DOMAIN GroupsOf(r) = E /\ \A e \in E : GroupsOf(r)[e] = G(e)
  BY <1>3
<1>8. GroupsOf(r) \in [E -> Group]
  BY <1>3, <1>4
<1> QED
  BY <1>1, <1>2, <1>4, <1>5, <1>6, <1>7, <1>8 DEF CodesIn

LEMMA PreserveTyped ==
  ASSUME NEW new \in Group, NEW old \in Group
  PROVE  PreserveGroup(new, old) \in Group
BY DEF PreserveGroup, Group

\* What an update of one field of a manifest leaves.
LEMMA MergedFields ==
  ASSUME NEW V, NEW G, NEW R, NEW P, NEW S,
         NEW m \in [version : V, groups : G, resources : R, permissionGroups : P, stale : S],
         NEW v \in V, NEW res \in R, NEW stale \in S
  PROVE  LET new == [m EXCEPT !.version = v, !.resources = res, !.stale = stale]
         IN  /\ new \in [version : V, groups : G, resources : R, permissionGroups : P, stale : S]
             /\ new.version = v /\ new.resources = res /\ new.stale = stale
             /\ new.groups = m.groups /\ new.permissionGroups = m.permissionGroups
OBVIOUS

LEMMA GroupsField ==
  ASSUME NEW V, NEW G, NEW R, NEW P, NEW S,
         NEW m \in [version : V, groups : G, resources : R, permissionGroups : P, stale : S],
         NEW given \in G
  PROVE  LET new == [m EXCEPT !.groups = given]
         IN  /\ new \in [version : V, groups : G, resources : R, permissionGroups : P, stale : S]
             /\ new.version = m.version /\ new.resources = m.resources /\ new.stale = m.stale
             /\ new.groups = given /\ new.permissionGroups = m.permissionGroups
OBVIOUS

LEMMA ResourcesField ==
  ASSUME NEW V, NEW G, NEW R, NEW P, NEW S,
         NEW m \in [version : V, groups : G, resources : R, permissionGroups : P, stale : S],
         NEW res \in R
  PROVE  LET new == [m EXCEPT !.resources = res]
         IN  /\ new \in [version : V, groups : G, resources : R, permissionGroups : P, stale : S]
             /\ new.version = m.version /\ new.resources = res /\ new.stale = m.stale
             /\ new.groups = m.groups /\ new.permissionGroups = m.permissionGroups
OBVIOUS

LEMMA PermissionGroupsField ==
  ASSUME NEW V, NEW G, NEW R, NEW P, NEW S,
         NEW m \in [version : V, groups : G, resources : R, permissionGroups : P, stale : S],
         NEW p \in P
  PROVE  LET new == [m EXCEPT !.permissionGroups = p]
         IN  /\ new \in [version : V, groups : G, resources : R, permissionGroups : P, stale : S]
             /\ new.version = m.version /\ new.resources = m.resources /\ new.stale = m.stale
             /\ new.groups = m.groups /\ new.permissionGroups = p
OBVIOUS

\* The groups of a generation, given which old ones speak for their codes.
Preserved(m, r, last) ==
  [e \in DOMAIN GroupsOf(r) |->
     IF e.code \in CodesIn(m.groups)
     THEN PreserveGroup(GroupsOf(r)[e], m.groups[last[e.code]])
     ELSE GroupsOf(r)[e]]

LEMMA LastTyped ==
  ASSUME NEW list, NEW last \in Lasts(list), NEW c \in CodesIn(list)
  PROVE  last[c] \in DOMAIN list /\ last[c].code = c
BY DEF Lasts

LEMMA Generated ==
  ASSUME NEW m \in Manifest, NEW r \in Releases, NEW last \in Lasts(m.groups)
  PROVE  LET g == GenerateAccess(m, r, last)
         IN  /\ g \in Manifest /\ g.version = 1
             /\ g.stale = (m.stale \cup DOMAIN m.resources) \ ResourcesOf(r)
             /\ g.resources = [k \in ResourcesOf(r) |->
                                 IF k \in DOMAIN m.resources THEN m.resources[k] ELSE "dsl"]
             /\ g.groups = Preserved(m, r, last)
             /\ g.permissionGroups = m.permissionGroups
<1> DEFINE res == [k \in ResourcesOf(r) |->
                     IF k \in DOMAIN m.resources THEN m.resources[k] ELSE "dsl"]
           stale == (m.stale \cup DOMAIN m.resources) \ ResourcesOf(r)
           kept == Preserved(m, r, last)
           merged == [m EXCEPT !.version = 1, !.resources = res, !.stale = stale]
           g == [merged EXCEPT !.groups = kept]
<1>1. kept \in [DOMAIN GroupsOf(r) -> Group]
  <2>1. ASSUME NEW e \in DOMAIN GroupsOf(r), e.code \in CodesIn(m.groups)
        PROVE  PreserveGroup(GroupsOf(r)[e], m.groups[last[e.code]]) \in Group
    <3>1. m.groups[last[e.code]] \in Group
      BY <2>1, LastTyped, ManifestTyped
    <3>2. GroupsOf(r)[e] \in Group
      BY CollectedTyped
    <3> QED
      BY <3>1, <3>2, PreserveTyped
  <2>2. \A e \in DOMAIN GroupsOf(r) : GroupsOf(r)[e] \in Group
    BY CollectedTyped
  <2> QED
    BY <2>1, <2>2 DEF Preserved
<1>2. kept \in GroupLists
  BY <1>1, CollectedTyped, IsList
<1>3. res \in ResourceMaps
  <2>1. ResourcesOf(r) \subseteq FileKeys
    BY CollectedTyped DEF FileKeys
  <2>2. res \in [ResourcesOf(r) -> {"dsl", "edited"}]
    BY ManifestTyped
  <2> QED
    BY <2>1, <2>2, IsResources
<1>4. stale \in SUBSET FileKeys
  BY ManifestTyped
<1> HIDE DEF res, stale, kept
<1>5. /\ merged \in Manifest /\ merged.version = 1 /\ merged.resources = res
      /\ merged.stale = stale /\ merged.groups = m.groups
      /\ merged.permissionGroups = m.permissionGroups
  BY <1>3, <1>4, MergedFields DEF Manifest
<1>6. merged = Merge(m, r)
  BY DEF Merge, MergedStale, res, stale
<1> HIDE DEF merged
<1>7. /\ g \in Manifest /\ g.version = merged.version /\ g.resources = merged.resources
      /\ g.stale = merged.stale /\ g.groups = kept
      /\ g.permissionGroups = merged.permissionGroups
  BY <1>2, <1>5, GroupsField DEF Manifest
<1>8. GenerateAccess(m, r, last) = g
  BY <1>5, <1>6 DEF GenerateAccess, MergeAccessGroups, kept, Preserved
<1> HIDE DEF g
<1> QED
  BY <1>5, <1>7, <1>8 DEF res, stale, kept

LEMMA RememberedTyped ==
  ASSUME NEW r \in Releases, r = release, history \in History
  PROVE  /\ Remembered \in History
         /\ Remembered.keys = history.keys \cup ResourcesOf(r)
         /\ Remembered.edited = history.edited \cap ResourcesOf(r)
         /\ Remembered.off = history.off \cap CodesOf(r)
         /\ Remembered.parents = [c \in Codes |->
              IF c \in CodesOf(r) THEN history.parents[c] ELSE Nil]
         /\ Remembered.permitted = history.permitted /\ Remembered.cut = history.cut
<1>1. history.keys \cup ResourcesOf(r) \subseteq FileKeys
  BY CollectedTyped DEF History, FileKeys
<1>2. [c \in Codes |-> IF c \in CodesOf(r) THEN history.parents[c] ELSE Nil]
        \in [Codes -> Codes \cup {Nil}]
  BY DEF History
<1> QED
  BY <1>1, <1>2 DEF Remembered, History

\* What a generation makes of a manifest is what will be remembered of it.
LEMMA GeneratedKept ==
  ASSUME ManifestInv, Kept(file, history), NEW last \in Lasts(file.groups)
  PROVE  Kept(GenerateAccess(file, release, last), Remembered)
<1> DEFINE g == GenerateAccess(file, release, last)
           told == Remembered
<1>1. file \in Manifest /\ release \in Releases /\ history \in History
  BY DEF ManifestInv
<1>2. /\ g.stale = (file.stale \cup DOMAIN file.resources) \ ResourcesOf(release)
      /\ g.resources = [k \in ResourcesOf(release) |->
                          IF k \in DOMAIN file.resources THEN file.resources[k] ELSE "dsl"]
      /\ g.groups = Preserved(file, release, last)
      /\ g.permissionGroups = file.permissionGroups
  BY <1>1, Generated
<1>3. /\ told.keys = history.keys \cup ResourcesOf(release)
      /\ told.edited = history.edited \cap ResourcesOf(release)
      /\ told.off = history.off \cap CodesOf(release)
      /\ told.parents = [c \in Codes |->
           IF c \in CodesOf(release) THEN history.parents[c] ELSE Nil]
      /\ told.permitted = history.permitted /\ told.cut = history.cut
  BY <1>1, RememberedTyped
<1> HIDE DEF g, told
<1>4. DOMAIN g.resources \cup g.stale = told.keys
  BY <1>2, <1>3 DEF Kept
<1>5. \A k \in told.edited : k \in DOMAIN g.resources /\ g.resources[k] = "edited"
  BY <1>2, <1>3 DEF Kept
<1>6. /\ DOMAIN g.groups = DOMAIN GroupsOf(release)
      /\ DOMAIN GroupsOf(release) \subseteq Entries
      /\ CodesIn(g.groups) = CodesOf(release)
  BY <1>1, <1>2, CollectedTyped DEF Preserved, CodesIn
<1>7. ASSUME NEW e \in DOMAIN GroupsOf(release)
      PROVE  /\ Says(g.groups[e], e.code, told)
             /\ ~told.cut => Torn \notin g.groups[e].elements
  <2>1. e.code \in Codes /\ e.code \in CodesOf(release)
    BY <1>1, <1>6, CollectedTyped DEF CodesIn, Entries
  <2>2. Torn \notin GroupsOf(release)[e].elements
    BY <1>1, CollectedTyped
  <2>3. /\ told.parents[e.code] = history.parents[e.code]
        /\ e.code \in told.off <=> e.code \in history.off
    BY <1>3, <2>1
  <2>4. CASE e.code \in CodesIn(file.groups)
    <3> DEFINE old == file.groups[last[e.code]]
    <3>1. g.groups[e] = PreserveGroup(GroupsOf(release)[e], old)
      BY <1>2, <2>4 DEF Preserved
    <3>2. last[e.code] \in DOMAIN file.groups /\ last[e.code].code = e.code
      BY <2>4, LastTyped
    <3>3. Says(old, e.code, history) /\ (~told.cut => Torn \notin old.elements)
      BY <1>3, <3>2 DEF Kept, Clean
    <3> HIDE DEF old
    <3> QED
      BY <2>2, <2>3, <3>1, <3>3 DEF PreserveGroup, Says
  <2>5. CASE e.code \notin CodesIn(file.groups)
    <3>1. g.groups[e] = GroupsOf(release)[e]
      BY <1>2, <2>5 DEF Preserved
    <3>2. e.code \notin history.off /\ history.parents[e.code] = Nil
      BY <2>1, <2>5 DEF Kept
    <3> QED
      BY <2>2, <2>3, <3>1, <3>2 DEF Says
  <2> QED
    BY <2>4, <2>5
<1>8. \A c \in Codes \ CodesIn(g.groups) : c \notin told.off /\ told.parents[c] = Nil
  BY <1>3, <1>6
<1>9. ~told.cut => Clean(g) /\ told.permitted \subseteq g.permissionGroups
  <2> SUFFICES ASSUME ~told.cut PROVE Clean(g) /\ told.permitted \subseteq g.permissionGroups
    OBVIOUS
  <2>1. Clean(file) /\ history.permitted \subseteq file.permissionGroups
    BY <1>3 DEF Kept
  <2>2. Empty \notin ResourcesOf(release)
    BY <1>1, CollectedTyped, Typed
  <2>3. Empty \notin DOMAIN g.resources \cup g.stale
    BY <1>2, <2>1, <2>2 DEF Clean
  <2> QED
    BY <1>2, <1>3, <1>6, <1>7, <2>1, <2>3 DEF Clean
<1>10. Kept(g, told)
  BY <1>4, <1>5, <1>6, <1>7, <1>8, <1>9 DEF Kept
<1> QED
  BY <1>10 DEF g, told

LEMMA GenerateKeeps ==
  ASSUME ManifestInv, Generate
  PROVE  ManifestInv'
<1>1. file \in Manifest /\ release \in Releases /\ Kept(file, history)
  BY DEF ManifestInv, Generate
<1>2. PICK last \in Lasts(file.groups) : generation' = GenerateAccess(file, release, last)
  BY DEF Generate
<1> DEFINE g == GenerateAccess(file, release, last)
<1>3. /\ g \in Manifest /\ g.version = 1
      /\ g.stale = (file.stale \cup DOMAIN file.resources) \ ResourcesOf(release)
      /\ g.resources = [k \in ResourcesOf(release) |->
                          IF k \in DOMAIN file.resources THEN file.resources[k] ELSE "dsl"]
      /\ g.groups = Preserved(file, release, last)
  BY <1>1, Generated
<1>4. Kept(g, Remembered)
  BY <1>1, GeneratedKept
<1> HIDE DEF g
<1>5. Current(g)
  BY <1>3 DEF Current, Preserved
<1>6. Sound(g)
  <2>1. \A e \in DOMAIN GroupsOf(release) : GroupsOf(release)[e].typed
    BY <1>1, CollectedTyped
  <2>2. ASSUME NEW e \in DOMAIN g.groups PROVE g.groups[e].typed
    BY <1>3, <2>1 DEF Preserved, PreserveGroup
  <2>3. g.stale \cap DOMAIN g.resources = {}
    BY <1>3
  <2> QED
    BY <1>3, <2>2, <2>3 DEF Sound
<1>7. generation' = g
  BY <1>2 DEF g
<1>8. release' = release /\ history' = history /\ disk' = "writing" /\ file' = Blank
  BY DEF Generate
<1>9. Remembered' = Remembered
  BY <1>8 DEF Remembered
<1>10. Kept(generation, Remembered)' /\ Sound(generation)' /\ Current(generation)'
  <2>1. Kept(generation', Remembered') /\ Sound(generation')
    BY <1>4, <1>6, <1>7, <1>9
  <2> QED
    BY <1>5, <1>7, <1>8, <2>1 DEF Kept, Sound, Current
<1> QED
  BY <1>3, <1>7, <1>8, <1>10, BlankTyped DEF ManifestInv

LEMMA FillKeeps ==
  ASSUME ManifestInv, Fill
  PROVE  ManifestInv'
<1>1. history' \in History
  BY RememberedTyped DEF Fill, ManifestInv
<1>2. Kept(file, history)' /\ Sound(file)' /\ Current(file)'
  <2>1. /\ file' = generation /\ history' = Remembered /\ release' = release
        /\ Kept(generation, Remembered) /\ Sound(generation) /\ Current(generation)
    BY DEF Fill, ManifestInv
  <2> QED
    BY <2>1 DEF Kept, Sound, Current
<1> QED
  BY <1>1, <1>2 DEF Fill, ManifestInv

LEMMA CutGroupTyped ==
  ASSUME NEW g \in Group, NEW cut \in CutGroup(g)
  PROVE  cut \in Group
<1>1. \A t \in BOOLEAN, p \in Codes \cup {Nil, Torn}, E \in SUBSET (Elements \cup {Torn}) :
         Unfinished(t, p, E) \in Group
  BY DEF Unfinished, Group
<1>2. Rest(g.elements, Torn) \subseteq SUBSET (Elements \cup {Torn}) /\ g.parent \in Codes \cup {Nil, Torn}
  BY DEF Rest, Group
<1>3. \/ cut = Unfinished(FALSE, Nil, {}) \/ cut = Unfinished(TRUE, Nil, {})
      \/ cut = Unfinished(TRUE, Torn, {})
      \/ \E part \in Rest(g.elements, Torn) : cut = Unfinished(TRUE, g.parent, part)
  BY Zenon DEF CutGroup
<1> QED
  BY <1>1, <1>2, <1>3

LEMMA CutGroupsTyped ==
  ASSUME NEW m \in Manifest, NEW cut \in CutGroups(m.groups)
  PROVE  cut \in GroupLists
<1>1. m.groups \in [DOMAIN m.groups -> Group] /\ DOMAIN m.groups \subseteq Entries
  BY ManifestTyped
<1>2. ASSUME NEW G \in SUBSET DOMAIN m.groups, cut = Restrict(m.groups, G)
      PROVE  cut \in GroupLists
  <2>1. cut \in [G -> Group]
    BY <1>1, <1>2 DEF Restrict
  <2> QED
    BY <1>1, <2>1, IsList
<1>3. ASSUME NEW l \in DOMAIN m.groups, NEW G \in SUBSET DOMAIN m.groups,
             NEW g \in CutGroup(m.groups[l]),
             cut = [e \in G \cup {l} |-> IF e = l THEN g ELSE m.groups[e]]
      PROVE  cut \in GroupLists
  <2>1. g \in Group
    BY <1>1, CutGroupTyped
  <2>2. cut \in [G \cup {l} -> Group]
    BY <1>1, <1>3, <2>1
  <2> QED
    BY <1>1, <2>2, IsList
<1>4. \/ \E G \in SUBSET DOMAIN m.groups : cut = Restrict(m.groups, G)
      \/ \E l \in DOMAIN m.groups : \E G \in SUBSET DOMAIN m.groups :
            \E g \in CutGroup(m.groups[l]) :
               cut = [e \in G \cup {l} |-> IF e = l THEN g ELSE m.groups[e]]
  <2> DEFINE Ended(G, l, g) == [e \in G \cup {l} |-> IF e = l THEN g ELSE m.groups[e]]
             Few(G) == Restrict(m.groups, G)
             D == DOMAIN m.groups
             Ends(l) == CutGroup(m.groups[l])
  <2>1. CutGroups(m.groups) =
          {Few(G) : G \in SUBSET D}
          \cup UNION {{Ended(G, l, g) : G \in SUBSET D, g \in Ends(l)} : l \in D}
    BY DEF CutGroups
  <2> HIDE DEF Ended, Few, D, Ends
  <2>2. \/ cut \in {Few(G) : G \in SUBSET D}
        \/ \E l \in D : cut \in {Ended(G, l, g) : G \in SUBSET D, g \in Ends(l)}
    BY <2>1
  <2>3. \/ \E G \in SUBSET D : cut = Few(G)
        \/ \E l \in D : \E G \in SUBSET D : \E g \in Ends(l) : cut = Ended(G, l, g)
    BY <2>2
  <2> QED
    BY Zenon, <2>3 DEF Ended, Few, D, Ends
<1> QED
  BY Zenon, <1>2, <1>3, <1>4

LEMMA CutResourcesTyped ==
  ASSUME NEW m \in Manifest, NEW cut \in CutResources(m.resources)
  PROVE  cut \in ResourceMaps
<1>1. /\ m.resources \in [DOMAIN m.resources -> {"dsl", "edited"}]
      /\ DOMAIN m.resources \subseteq FileKeys
  BY ManifestTyped
<1>2. ASSUME NEW K \in Rest(DOMAIN m.resources, Torn) \cup Rest(DOMAIN m.resources, Empty),
             cut = [k \in K |-> IF k \in DOMAIN m.resources THEN m.resources[k] ELSE "dsl"]
      PROVE  cut \in ResourceMaps
  <2>1. K \subseteq FileKeys
    BY <1>1 DEF Rest, FileKeys
  <2>2. cut \in [K -> {"dsl", "edited"}]
    BY <1>1, <1>2
  <2> QED
    BY <2>1, <2>2, IsResources
<1>3. ASSUME NEW R \in SUBSET DOMAIN m.resources, NEW l \in DOMAIN m.resources,
             NEW text \in {"dsl", "edited"},
             cut = [k \in R \cup {l} |-> IF k = l THEN text ELSE m.resources[k]]
      PROVE  cut \in ResourceMaps
  <2>1. cut \in [R \cup {l} -> {"dsl", "edited"}]
    BY <1>1, <1>3
  <2> QED
    BY <1>1, <2>1, IsResources
<1>4. \/ \E K \in Rest(DOMAIN m.resources, Torn) \cup Rest(DOMAIN m.resources, Empty) :
            cut = [k \in K |-> IF k \in DOMAIN m.resources THEN m.resources[k] ELSE "dsl"]
      \/ \E R \in SUBSET DOMAIN m.resources : \E l \in DOMAIN m.resources :
            \E text \in {"dsl", "edited"} :
               cut = [k \in R \cup {l} |-> IF k = l THEN text ELSE m.resources[k]]
  <2> DEFINE Few(K) == [k \in K |-> IF k \in DOMAIN m.resources THEN m.resources[k] ELSE "dsl"]
             Ended(R, l, text) == [k \in R \cup {l} |-> IF k = l THEN text ELSE m.resources[k]]
             Ks == Rest(DOMAIN m.resources, Torn) \cup Rest(DOMAIN m.resources, Empty)
  <2>1. CutResources(m.resources) =
          {Few(K) : K \in Ks} \cup
          {Ended(R, l, text) : R \in SUBSET DOMAIN m.resources, l \in DOMAIN m.resources,
                               text \in {"dsl", "edited"}}
    BY DEF CutResources
  <2> HIDE DEF Few, Ended, Ks
  <2>2. \/ \E K \in Ks : cut = Few(K)
        \/ \E R \in SUBSET DOMAIN m.resources : \E l \in DOMAIN m.resources :
              \E text \in {"dsl", "edited"} : cut = Ended(R, l, text)
    BY <2>1
  <2> QED
    BY Zenon, <2>2 DEF Few, Ended, Ks
<1> QED
  BY Zenon, <1>2, <1>3, <1>4

LEMMA CutPermissionGroupsTyped ==
  ASSUME NEW m \in Manifest, NEW cut \in CutPermissionGroups(m.permissionGroups)
  PROVE  cut \in SUBSET PermissionGroup
<1>1. m.permissionGroups \subseteq PermissionGroup
  BY ManifestTyped
<1>2. ASSUME NEW g \in PermissionGroup, NEW part \in CutPermissionGroup(g)
      PROVE  part \in PermissionGroup
  <2>1. Rest(g.accessGroups, {}) \subseteq SUBSET SUBSET Codes
    BY DEF Rest, PermissionGroup
  <2>2. Rest(g.permissions, {}) \subseteq SUBSET SUBSET Keys
    BY DEF Rest, PermissionGroup
  <2>3. CASE part = [named |-> FALSE, accessGroups |-> {}, permissions |-> {}]
    BY <2>3 DEF PermissionGroup
  <2>4. ASSUME NEW a \in Rest(g.accessGroups, {}),
               part = [named |-> TRUE, accessGroups |-> a, permissions |-> {}]
        PROVE  part \in PermissionGroup
    BY <2>1, <2>4 DEF PermissionGroup
  <2>5. ASSUME NEW p \in Rest(g.permissions, {}), part = [g EXCEPT !.permissions = p]
        PROVE  part \in PermissionGroup
    BY <2>2, <2>5 DEF PermissionGroup
  <2> QED
    BY <2>3, <2>4, <2>5 DEF CutPermissionGroup
<1>3. \/ cut \subseteq m.permissionGroups
      \/ \E G \in SUBSET m.permissionGroups, g \in m.permissionGroups :
            \E part \in CutPermissionGroup(g) : cut = G \cup {part}
  <2> DEFINE gs == m.permissionGroups
             With(G, part) == G \cup {part}
             Parts == UNION {CutPermissionGroup(g) : g \in gs}
  <2>1. CutPermissionGroups(gs) =
          (SUBSET gs) \cup {With(G, part) : G \in SUBSET gs, part \in Parts}
    BY DEF CutPermissionGroups
  <2>2. \A part \in Parts : \E g \in gs : part \in CutPermissionGroup(g)
    OBVIOUS
  <2> HIDE DEF With, Parts
  <2>3. cut \subseteq gs \/ \E G \in SUBSET gs : \E part \in Parts : cut = With(G, part)
    BY <2>1
  <2> QED
    BY <2>2, <2>3 DEF With
<1> QED
  BY <1>1, <1>2, <1>3

LEMMA CutTyped ==
  ASSUME NEW m \in Manifest, NEW cut \in Cuts(m)
  PROVE  cut \in Manifest
<1>1. CASE cut = Blank
  BY <1>1, BlankTyped
<1>2. ASSUME NEW part \in CutGroups(m.groups),
             cut = [Blank EXCEPT !.version = 1, !.groups = part]
      PROVE  cut \in Manifest
  <2>1. part \in GroupLists
    BY CutGroupsTyped
  <2> QED
    BY <1>2, <2>1, BlankTyped DEF Manifest
<1>3. ASSUME NEW part \in CutResources(m.resources),
             cut = [m EXCEPT !.resources = part, !.permissionGroups = {}, !.stale = {}]
      PROVE  cut \in Manifest
  <2>1. part \in ResourceMaps
    BY CutResourcesTyped
  <2> QED
    BY <1>3, <2>1 DEF Manifest
<1>4. ASSUME NEW part \in CutPermissionGroups(m.permissionGroups),
             cut = [m EXCEPT !.permissionGroups = part, !.stale = {}]
      PROVE  cut \in Manifest
  <2>1. part \in SUBSET PermissionGroup
    BY CutPermissionGroupsTyped
  <2> QED
    BY <1>4, <2>1 DEF Manifest
<1>5. ASSUME NEW part \in Rest(m.stale, Torn) \cup Rest(m.stale, Empty),
             cut = [m EXCEPT !.stale = part]
      PROVE  cut \in Manifest
  <2>1. part \in SUBSET FileKeys
    BY ManifestTyped DEF Rest, FileKeys
  <2> QED
    BY <1>5, <2>1 DEF Manifest
<1> QED
  BY <1>1, <1>2, <1>3, <1>4, <1>5 DEF Cuts

LEMMA CutKeeps ==
  ASSUME ManifestInv, WriteCut
  PROVE  ManifestInv'
<1>1. file' \in Manifest
  BY BlankTyped, CutTyped DEF WriteCut, ManifestInv
<1> DEFINE told == Told(file')
           h == [told EXCEPT !.cut = TRUE, !.permitted = history.permitted]
<1>2. /\ told \in History /\ told.keys = DOMAIN file'.resources \cup file'.stale
      /\ told.edited = {k \in DOMAIN file'.resources : file'.resources[k] = "edited"}
      /\ told.off = {} /\ told.parents = [c \in Codes |-> Nil]
  BY <1>1, ToldTyped
<1>3. history' = h /\ history.permitted \in SUBSET PermissionGroups
  BY DEF WriteCut, ManifestInv, History
<1> HIDE DEF told
<1>4. /\ h \in History /\ h.keys = told.keys /\ h.edited = told.edited /\ h.off = told.off
      /\ h.parents = told.parents /\ h.cut = TRUE
  BY <1>2, <1>3 DEF History
<1> HIDE DEF h
<1>5. CodesIn(file'.groups) \subseteq Codes /\ \A e \in DOMAIN file'.groups : e.code \in Codes
  BY <1>1, ManifestTyped DEF CodesIn
<1>6. Kept(file', h)
  BY <1>2, <1>4, <1>5 DEF Kept, Says
<1>7. Kept(file, history)'
  BY <1>3, <1>6 DEF Kept
<1> QED
  BY <1>1, <1>3, <1>4, <1>7 DEF WriteCut, ManifestInv

LEMMA DiscardKeeps ==
  ASSUME ManifestInv, Discard
  PROVE  ManifestInv'
<1>1. file' = Blank /\ history' = Told(Blank)
  BY DEF Discard
<1>2. file' \in Manifest /\ history' \in History /\ Kept(file, history)'
  BY <1>1, BlankTyped, BlankKept DEF Kept
<1> QED
  BY <1>2 DEF Discard, ManifestInv

LEMMA NewReleaseKeeps ==
  ASSUME ManifestInv, NewRelease
  PROVE  ManifestInv'
<1>1. disk # "writing" => Kept(file, history)'
  BY DEF NewRelease, ManifestInv, Kept
<1> QED
  BY <1>1 DEF NewRelease, ManifestInv, Sound

\* What an edit of a manifest leaves is a manifest.
LEMMA Edited ==
  ASSUME ManifestInv, Editing,
         file' \in Manifest, history' \in History,
         file'.version = file.version, file'.stale = file.stale,
         DOMAIN file'.resources = DOMAIN file.resources,
         DOMAIN file'.groups = DOMAIN file.groups,
         \A e \in DOMAIN file.groups : file'.groups[e].typed = file.groups[e].typed,
         Kept(file', history')
  PROVE  ManifestInv'
<1>1. Kept(file, history)'
  BY DEF Kept
<1>2. release' = release /\ disk' = "whole" /\ disk = "whole" /\ current' = current
  BY DEF Editing
<1>3. Sound(file)'
  BY <1>2 DEF ManifestInv, Sound
<1>4. current => Current(file)'
  BY <1>2 DEF ManifestInv, Current
<1> QED
  BY <1>1, <1>2, <1>3, <1>4 DEF ManifestInv

LEMMA DescribeKeeps ==
  ASSUME ManifestInv, NEW k \in Keys, Describe(k)
  PROVE  ManifestInv'
<1> DEFINE res == [file.resources EXCEPT ![k] = "edited"]
           new == [file EXCEPT !.resources = res]
           h == [history EXCEPT !.edited = @ \cup {k}]
<1>1. file \in Manifest /\ history \in History /\ Kept(file, history)
  BY DEF ManifestInv, Describe, Editing
<1>2. /\ file.resources \in [DOMAIN file.resources -> {"dsl", "edited"}]
      /\ DOMAIN file.resources \subseteq FileKeys /\ k \in DOMAIN file.resources
  BY <1>1, ManifestTyped DEF Describe
<1>3. res \in [DOMAIN file.resources -> {"dsl", "edited"}]
  BY <1>2
<1>4. res \in ResourceMaps
  BY <1>2, <1>3, IsResources
<1>5. /\ DOMAIN res = DOMAIN file.resources
      /\ \A l \in DOMAIN res : res[l] = IF l = k THEN "edited" ELSE file.resources[l]
  BY <1>2
<1> HIDE DEF res
<1>6. /\ new \in Manifest /\ new.version = file.version /\ new.resources = res
      /\ new.stale = file.stale /\ new.groups = file.groups
      /\ new.permissionGroups = file.permissionGroups
  BY <1>1, <1>4, ResourcesField DEF Manifest
<1>7. file' = new /\ history' = h
  BY DEF Describe, res
<1> HIDE DEF new
<1>8. /\ h \in History /\ h.keys = history.keys /\ h.off = history.off
      /\ h.edited = history.edited \cup {k} /\ h.parents = history.parents
      /\ h.permitted = history.permitted /\ h.cut = history.cut
  BY <1>1 DEF History, FileKeys
<1> HIDE DEF h
<1>9. Kept(new, h)
  <2>1. DOMAIN new.resources \cup new.stale = h.keys
    BY <1>1, <1>5, <1>6, <1>8 DEF Kept
  <2>2. \A l \in h.edited : l \in DOMAIN new.resources /\ new.resources[l] = "edited"
    BY <1>1, <1>2, <1>5, <1>6, <1>8 DEF Kept
  <2>3. \A e \in DOMAIN new.groups : Says(new.groups[e], e.code, h)
    BY <1>1, <1>6, <1>8 DEF Kept, Says
  <2>4. ~h.cut => Clean(new) /\ h.permitted \subseteq new.permissionGroups
    BY <1>1, <1>5, <1>6, <1>8 DEF Kept, Clean
  <2> QED
    BY <1>1, <1>6, <1>8, <2>1, <2>2, <2>3, <2>4 DEF Kept
<1> QED
  BY <1>5, <1>6, <1>7, <1>8, <1>9, Edited DEF Describe

\* A change of the switch or the parent of one group.
LEMMA GroupChanged ==
  ASSUME ManifestInv, Editing, NEW e \in DOMAIN file.groups, NEW g \in Group,
         file' = [file EXCEPT !.groups = [file.groups EXCEPT ![e] = g]],
         history' \in History, history'.keys = history.keys,
         history'.edited = history.edited, history'.permitted = history.permitted,
         history'.cut = history.cut,
         g.typed = file.groups[e].typed, g.elements = file.groups[e].elements,
         \A c \in Codes \ {e.code} : /\ c \in history'.off <=> c \in history.off
                                     /\ history'.parents[c] = history.parents[c],
         Says(g, e.code, history'),
         ~Single(e) => \A d \in DOMAIN file.groups \ {e} :
                         d.code = e.code => Says(file.groups[d], d.code, history')
  PROVE  ManifestInv'
<1> DEFINE kept == [file.groups EXCEPT ![e] = g]
           new == [file EXCEPT !.groups = kept]
<1>1. file \in Manifest /\ history \in History /\ Kept(file, history)
  BY DEF ManifestInv, Editing
<1>2. /\ file.groups \in [DOMAIN file.groups -> Group] /\ DOMAIN file.groups \subseteq Entries
      /\ CodesIn(file.groups) \subseteq Codes
  BY <1>1, ManifestTyped
<1>3. kept \in [DOMAIN file.groups -> Group]
  BY <1>2
<1>4. kept \in GroupLists
  BY <1>2, <1>3, IsList
<1>5. /\ DOMAIN kept = DOMAIN file.groups
      /\ \A d \in DOMAIN kept : kept[d] = IF d = e THEN g ELSE file.groups[d]
  BY <1>2
<1> HIDE DEF kept
<1>6. /\ new \in Manifest /\ new.version = file.version /\ new.resources = file.resources
      /\ new.stale = file.stale /\ new.groups = kept
      /\ new.permissionGroups = file.permissionGroups
  BY <1>1, <1>4, GroupsField DEF Manifest
<1>7. file' = new
  BY DEF kept
<1> HIDE DEF new
<1>8. DOMAIN new.resources \cup new.stale = history'.keys
  BY <1>1, <1>6 DEF Kept
<1>9. \A k \in history'.edited : k \in DOMAIN new.resources /\ new.resources[k] = "edited"
  BY <1>1, <1>6 DEF Kept
<1>10. ASSUME NEW d \in DOMAIN new.groups PROVE Says(new.groups[d], d.code, history')
  <2>1. d \in DOMAIN file.groups /\ d.code \in Codes
    BY <1>2, <1>5, <1>6 DEF Entries
  <2>2. CASE d = e
    BY <1>5, <1>6, <2>2
  <2>3. CASE d # e /\ d.code = e.code
    <3>1. ~Single(e)
      BY <2>1, <2>3 DEF Single
    <3> QED
      BY <1>5, <1>6, <2>1, <2>3, <3>1
  <2>4. CASE d # e /\ d.code # e.code
    <3>1. Says(file.groups[d], d.code, history)
      BY <1>1, <2>1 DEF Kept
    <3> QED
      BY <1>5, <1>6, <2>1, <2>4, <3>1 DEF Says
  <2> QED
    BY <2>2, <2>3, <2>4
<1>11. CodesIn(new.groups) = CodesIn(file.groups)
  BY <1>5, <1>6 DEF CodesIn
<1>12. \A c \in Codes \ CodesIn(new.groups) : c \notin history'.off /\ history'.parents[c] = Nil
  <2>1. e.code \in CodesIn(file.groups)
    BY DEF CodesIn
  <2> QED
    BY <1>1, <1>11, <2>1 DEF Kept
<1>13. ~history'.cut => Clean(new) /\ history'.permitted \subseteq new.permissionGroups
  BY <1>1, <1>5, <1>6 DEF Kept, Clean
<1>14. Kept(new, history')
  BY <1>8, <1>9, <1>10, <1>12, <1>13 DEF Kept
<1>15. \A d \in DOMAIN file.groups : new.groups[d].typed = file.groups[d].typed
  BY <1>5, <1>6
<1> QED
  BY <1>5, <1>6, <1>7, <1>14, <1>15, Edited

LEMMA DisableKeeps ==
  ASSUME ManifestInv, NEW e \in DOMAIN file.groups, Disable(e)
  PROVE  ManifestInv'
<1> DEFINE old == file.groups[e]
           g == [old EXCEPT !.enabled = FALSE]
           off == IF Single(e) THEN history.off \cup {e.code} ELSE history.off
           h == [history EXCEPT !.off = off]
<1>1. file \in Manifest /\ history \in History /\ Kept(file, history) /\ e.code \in Codes
  BY ManifestTyped DEF ManifestInv, Disable, Editing, Entries
<1>2. old \in Group /\ Says(old, e.code, history)
  BY <1>1, ManifestTyped DEF Kept
<1>3. file' = [file EXCEPT !.groups = [file.groups EXCEPT ![e] = g]] /\ history' = h
  BY DEF Disable
<1>4. \A d \in DOMAIN file.groups : Says(file.groups[d], d.code, history)
  BY <1>1 DEF Kept
<1> HIDE DEF old
<1>5. /\ g \in Group /\ ~g.enabled /\ g.typed = old.typed
      /\ g.elements = old.elements /\ g.parent = old.parent
  BY <1>2 DEF Group
<1>6. /\ off \in SUBSET Codes /\ off \subseteq history.off \cup {e.code}
      /\ history.off \subseteq off /\ (~Single(e) => off = history.off)
  BY <1>1 DEF History
<1> HIDE DEF g, off
<1>7. /\ h \in History /\ h.keys = history.keys /\ h.off = off /\ h.edited = history.edited
      /\ h.parents = history.parents /\ h.permitted = history.permitted /\ h.cut = history.cut
  BY <1>1, <1>6 DEF History
<1> HIDE DEF h
<1>8. Says(g, e.code, h)
  BY <1>2, <1>5, <1>7 DEF Says
<1>9. ~Single(e) => \A d \in DOMAIN file.groups \ {e} :
                      d.code = e.code => Says(file.groups[d], d.code, h)
  BY <1>4, <1>6, <1>7 DEF Says
<1>10. \A c \in Codes \ {e.code} : /\ c \in h.off <=> c \in history.off
                                   /\ h.parents[c] = history.parents[c]
  BY <1>6, <1>7
<1>11. Editing
  BY DEF Disable
<1> QED
  BY <1>3, <1>5, <1>7, <1>8, <1>9, <1>10, <1>11, GroupChanged DEF old

LEMMA ReparentKeeps ==
  ASSUME ManifestInv, NEW e \in DOMAIN file.groups, NEW c \in Codes, Reparent(e, c)
  PROVE  ManifestInv'
<1> DEFINE old == file.groups[e]
           g == [old EXCEPT !.parent = c]
           said == IF Single(e) THEN c ELSE Nil
           parents == [history.parents EXCEPT ![e.code] = said]
           h == [history EXCEPT !.parents = parents]
<1>1. file \in Manifest /\ history \in History /\ Kept(file, history) /\ e.code \in Codes
  BY ManifestTyped DEF ManifestInv, Reparent, Editing, Entries
<1>2. old \in Group /\ Says(old, e.code, history)
  BY <1>1, ManifestTyped DEF Kept
<1>3. file' = [file EXCEPT !.groups = [file.groups EXCEPT ![e] = g]] /\ history' = h
  BY DEF Reparent
<1>4. \A d \in DOMAIN file.groups : Says(file.groups[d], d.code, history)
  BY <1>1 DEF Kept
<1> HIDE DEF old
<1>5. /\ g \in Group /\ g.enabled = old.enabled /\ g.typed = old.typed
      /\ g.elements = old.elements /\ g.parent = c
  BY <1>2 DEF Group
<1>6. said \in Codes \cup {Nil} /\ (said # Nil => said = c /\ Single(e))
  OBVIOUS
<1> HIDE DEF g, said
<1>7. /\ parents \in [Codes -> Codes \cup {Nil}] /\ parents[e.code] = said
      /\ \A d \in Codes \ {e.code} : parents[d] = history.parents[d]
  BY <1>1, <1>6 DEF History
<1> HIDE DEF parents
<1>8. /\ h \in History /\ h.keys = history.keys /\ h.off = history.off
      /\ h.edited = history.edited /\ h.parents = parents
      /\ h.permitted = history.permitted /\ h.cut = history.cut
  BY <1>1, <1>7 DEF History
<1> HIDE DEF h
<1>9. Says(g, e.code, h)
  BY <1>2, <1>5, <1>6, <1>7, <1>8 DEF Says
<1>10. ~Single(e) => \A d \in DOMAIN file.groups \ {e} :
                       d.code = e.code => Says(file.groups[d], d.code, h)
  BY <1>4, <1>6, <1>7, <1>8 DEF Says
<1>11. \A d \in Codes \ {e.code} : /\ d \in h.off <=> d \in history.off
                                   /\ h.parents[d] = history.parents[d]
  BY <1>7, <1>8
<1>12. Editing
  BY DEF Reparent
<1> QED
  BY <1>3, <1>5, <1>8, <1>9, <1>10, <1>11, <1>12, GroupChanged DEF old

LEMMA PermitKeeps ==
  ASSUME ManifestInv, NEW p \in PermissionGroups, Permit(p)
  PROVE  ManifestInv'
<1> DEFINE new == [file EXCEPT !.permissionGroups = @ \cup {p}]
           h == [history EXCEPT !.permitted = @ \cup {p}]
<1>1. file \in Manifest /\ history \in History /\ Kept(file, history)
  BY DEF ManifestInv, Permit, Editing
<1>2. file.permissionGroups \cup {p} \in SUBSET PermissionGroup
  BY <1>1, ManifestTyped, Typed
<1>3. /\ new \in Manifest /\ new.version = file.version /\ new.resources = file.resources
      /\ new.stale = file.stale /\ new.groups = file.groups
      /\ new.permissionGroups = file.permissionGroups \cup {p}
  BY <1>1, <1>2, PermissionGroupsField DEF Manifest
<1>4. file' = new /\ history' = h
  BY DEF Permit
<1> HIDE DEF new
<1>5. /\ h \in History /\ h.keys = history.keys /\ h.off = history.off
      /\ h.edited = history.edited /\ h.parents = history.parents
      /\ h.permitted = history.permitted \cup {p} /\ h.cut = history.cut
  BY <1>1 DEF History
<1> HIDE DEF h
<1>6. \A e \in DOMAIN new.groups : Says(new.groups[e], e.code, h)
  BY <1>1, <1>3, <1>5 DEF Kept, Says
<1>7. ~h.cut => Clean(new) /\ h.permitted \subseteq new.permissionGroups
  BY <1>1, <1>3, <1>5 DEF Kept, Clean
<1>8. Kept(new, h)
  BY <1>1, <1>3, <1>5, <1>6, <1>7 DEF Kept
<1> QED
  BY <1>3, <1>4, <1>5, <1>8, Edited DEF Permit

LEMMA ManifestKeeps ==
  ASSUME ManifestInv, ManifestNext
  PROVE  ManifestInv'
BY GenerateKeeps, FillKeeps, CutKeeps, DiscardKeeps, NewReleaseKeeps, DescribeKeeps,
   DisableKeeps, ReparentKeeps, PermitKeeps DEF ManifestNext

LEMMA ManifestStays ==
  ASSUME ManifestInv, UNCHANGED <<release, disk, file, generation, current, history>>
  PROVE  ManifestInv'
BY DEF ManifestInv, Kept, Remembered, Sound, Current

LEMMA ManifestStarts == ManifestInit => ManifestInv
<1> SUFFICES ASSUME ManifestInit PROVE ManifestInv
  OBVIOUS
<1>1. file = Blank /\ history = Told(Blank)
  BY DEF ManifestInit
<1> QED
  BY <1>1, BlankTyped, BlankKept, ReleasesAssumption DEF ManifestInit, ManifestInv

LEMMA RemembersFromInv == ManifestInv => NothingForgotten
BY ManifestTyped DEF ManifestInv, NothingForgotten, Kept, Says

LEMMA ValidFromInv == ManifestInv => GeneratedIsValid
<1> SUFFICES ASSUME ManifestInv, disk = "whole" PROVE GeneratedIsValid
  BY DEF GeneratedIsValid
<1>1. Sound(file) /\ Kept(file, history) /\ (current => Current(file)) /\ release \in Releases
  BY DEF ManifestInv
<1>2. ~Found("version", file) /\ ~Found("type", file) /\ ~Found("active and stale", file)
  BY <1>1 DEF Sound, Found
<1>3. ASSUME ~history.cut
      PROVE  ~Found("empty key", file) /\ ~Found("element", file) /\ ~Found("unnamed", file)
  BY <1>1, <1>3, Typed DEF Kept, Clean, Found
<1>4. Problems(file) \cap {"version", "type", "active and stale"} = {}
  BY <1>2 DEF Problems
<1>5. ~history.cut =>
        Problems(file) \subseteq {"parent", "access group", "permission", "duplicate"}
  BY <1>2, <1>3 DEF Problems, Complaints
<1>6. ASSUME current
      PROVE  LET diff == Compare(ResourcesOf(release), file)
             IN  /\ ListedTwice(file) = DOMAIN release.pages \cap DOMAIN release.registry
                 /\ diff.newInDSL = {} /\ diff.missingInDSL = {}
                 /\ diff.broken = Refused(file)
  <2>1. /\ DOMAIN file.resources = ResourcesOf(release)
        /\ DOMAIN file.groups = DOMAIN GroupsOf(release)
    BY <1>1, <1>6 DEF Current
  <2>2. DOMAIN GroupsOf(release) = {Entry(c, "page") : c \in DOMAIN release.pages}
                                     \cup {Entry(c, "registry") : c \in DOMAIN release.registry}
    BY DEF GroupsOf
  <2>3. ASSUME NEW c
        PROVE  /\ Entry(c, "page") \in DOMAIN file.groups <=> c \in DOMAIN release.pages
               /\ Entry(c, "registry") \in DOMAIN file.groups <=> c \in DOMAIN release.registry
    <3>1. \A d : /\ (Entry(c, "page") = Entry(d, "page")) <=> (c = d)
                 /\ (Entry(c, "registry") = Entry(d, "registry")) <=> (c = d)
      BY DEF Entry
    <3>2. \A d : Entry(c, "page") # Entry(d, "registry")
      BY DEF Entry
    <3>3. \A d : Entry(d, "page") # Entry(c, "registry")
      BY DEF Entry
    <3> QED
      BY <2>1, <2>2, <3>1, <3>2, <3>3
  <2>4. ASSUME NEW c \in DOMAIN release.pages PROVE c \in CodesIn(file.groups)
    <3>1. Entry(c, "page") \in DOMAIN file.groups /\ Entry(c, "page").code = c
      BY <2>3 DEF Entry
    <3> QED
      BY <3>1 DEF CodesIn
  <2>5. ListedTwice(file) = DOMAIN release.pages \cap DOMAIN release.registry
    BY <2>3, <2>4 DEF ListedTwice
  <2> QED
    BY <2>1, <2>5 DEF Compare, Refused
<1> QED
  BY <1>4, <1>5, <1>6 DEF GeneratedIsValid

-----------------------------------------------------------------------------
\* Every parent of a node in ns is a node or none, every node opens a page or
\* has a child, none opens two, and the walks over the parents end.
Menu(ns) ==
  /\ \A k \in DOMAIN ns :
       /\ ns[k].parent \in DOMAIN ns \cup {None}
       /\ Cardinality(Attached(k, pages)) <= 1
       /\ Placed(k, ns, pages)
  /\ \A p \in DOMAIN pages : pages[p] \subseteq DOMAIN ns
  /\ Acyclic(ns)

\* An event shows a part of what is registered by now, as it was built.
Built(e) ==
  /\ e = Event(e.declared, pages)
  /\ e.declared = [k \in DOMAIN e.declared |-> nodes[k]]
  /\ DOMAIN e.declared \subseteq DOMAIN nodes
  /\ Menu(e.declared)

\* What was shown, and what is about to be.
Offered == shown \cup ({publication[w].event : w \in Publishing} \ {None})

NodesTyped ==
  /\ nodes = [k \in DOMAIN nodes |-> nodes[k]]
  /\ IsFiniteSet(DOMAIN nodes) /\ None \notin DOMAIN nodes

SidebarInv ==
  /\ NodesTyped
  /\ publication = [w \in Publishers |-> publication[w]]
  /\ menu \in shown \cup {None}
  /\ \A e \in Offered : Built(e)
  /\ \A e, f \in Offered : e = f
  /\ phase = "declaring" => Offered = {}

\* Nodes that no page is attached to are never published: each would need a
\* child that is as new as itself, and a finite set of them has a cycle.
LEMMA NoNewNodes ==
  ASSUME NEW ns, NEW old, Menu(ns), Menu(old), IsFiniteSet(DOMAIN ns), None \notin DOMAIN ns,
         DOMAIN old \subseteq DOMAIN ns, \A k \in DOMAIN old : ns[k] = old[k]
  PROVE  DOMAIN ns = DOMAIN old
<1> DEFINE S == DOMAIN ns \ DOMAIN old
           T == {c \in S : ns[c].parent \in S}
           f == [c \in T |-> ns[c].parent]
<1>1. SUFFICES ASSUME S # {} PROVE FALSE
  OBVIOUS
<1>2. ASSUME NEW k \in S PROVE \E c \in T : ns[c].parent = k
  <2>1. Attached(k, pages) = {}
    BY DEF Attached, Menu
  <2>2. PICK c \in DOMAIN ns : ns[c].parent = k
    BY <2>1 DEF Menu, Placed, Children
  <2>3. c \notin DOMAIN old
    BY <2>2 DEF Menu
  <2> QED
    BY <2>2, <2>3
<1>3. f \in Surjection(T, S)
  BY <1>2 DEF Surjection
<1>4. IsFiniteSet(S) /\ T \in SUBSET S
  BY FS_Subset
<1>5. IsFiniteSet(T) /\ Cardinality(T) <= Cardinality(S) /\ (Cardinality(T) = Cardinality(S) => S = T)
  BY <1>4, FS_Subset
<1>6. Cardinality(S) <= Cardinality(T)
  BY <1>3, <1>5, FS_Surjection
<1>7. Cardinality(S) \in Nat /\ Cardinality(T) \in Nat
  BY <1>4, <1>5, FS_CardinalityType
<1>8. S = T
  BY <1>5, <1>6, <1>7
<1>9. PICK k \in S : ns[k].parent \notin S
  BY <1>1 DEF Menu, Acyclic
<1> QED
  BY <1>8, <1>9

LEMMA AllReached ==
  ASSUME NEW ns, Acyclic(ns), \A k \in DOMAIN ns : ns[k].parent \in DOMAIN ns \cup {None}
  PROVE  Reached(ns) = DOMAIN ns
<1> DEFINE T == DOMAIN ns \ Reached(ns)
<1>1. SUFFICES ASSUME T # {} PROVE FALSE
  BY DEF Reached
<1>2. PICK k \in T : ns[k].parent \notin T
  BY <1>1 DEF Acyclic
<1>3. PICK S \in SUBSET DOMAIN ns :
        /\ Children(ns, None) \cup UNION {Children(ns, c) : c \in S} \subseteq S
        /\ k \notin S
  BY <1>2 DEF Reached
<1>4. CASE ns[k].parent = None
  BY <1>2, <1>3, <1>4 DEF Children
<1>5. CASE ns[k].parent \in Reached(ns)
  <2>1. ns[k].parent \in S
    BY <1>3, <1>5 DEF Reached
  <2>2. k \in Children(ns, ns[k].parent)
    BY <1>2 DEF Children
  <2> QED
    BY <1>3, <2>1, <2>2
<1> QED
  BY <1>2, <1>4, <1>5

LEMMA WholeFromInv == SidebarInv => MenuIsWhole
<1> SUFFICES ASSUME SidebarInv, menu # None PROVE MenuIsWhole
  BY DEF MenuIsWhole
<1> DEFINE ns == menu.declared
<1>1. Built(menu)
  BY DEF SidebarInv, Offered
<1>2. Menu(ns)
  BY <1>1 DEF Built
<1>3. Reached(ns) = DOMAIN ns
  BY <1>2, AllReached DEF Menu
<1>4. menu.tree = [k \in DOMAIN ns |->
                     [parent |-> ns[k].parent, group |-> ns[k].group,
                      target |-> Attached(k, pages)]]
  <2>1. menu.tree = Tree(ns, pages)
    BY <1>1 DEF Built, Event
  <2> QED
    BY <1>3, <2>1 DEF Tree
<1> HIDE DEF ns
<1>5. DOMAIN menu.tree = DOMAIN ns
  BY <1>4
<1>6. ASSUME NEW k \in DOMAIN ns
      PROVE  /\ menu.tree[k].parent = ns[k].parent
             /\ menu.tree[k].target = Attached(k, pages)
  BY <1>4
<1>7. ASSUME NEW k \in DOMAIN ns, Attached(k, pages) = {}
      PROVE  \E c \in DOMAIN menu.tree : menu.tree[c].parent = k
  <2>1. PICK c \in DOMAIN ns : ns[c].parent = k
    BY <1>2, <1>7 DEF Menu, Placed, Children
  <2> QED
    BY <1>5, <1>6, <2>1
<1>8. \A k \in DOMAIN ns : Cardinality(Attached(k, pages)) <= 1
  BY <1>2 DEF Menu
<1> QED
  BY <1>5, <1>6, <1>7, <1>8 DEF MenuIsWhole, ns

LEMMA AgreeFromInv == SidebarInv => PublicationsAgree
<1> SUFFICES ASSUME SidebarInv PROVE Cardinality(shown) <= 1
  BY DEF PublicationsAgree
<1>1. CASE shown = {}
  BY <1>1, FS_EmptySet
<1>2. CASE shown # {}
  <2>1. PICK e \in shown : TRUE
    BY <1>2
  <2>2. shown = {e}
    BY <2>1 DEF SidebarInv, Offered
  <2> QED
    BY <2>2, FS_Singleton
<1> QED
  BY <1>1, <1>2

\* What an event shows does not change with what is registered later.
LEMMA BuiltStays ==
  ASSUME NEW e, Built(e), pages' = pages, DOMAIN nodes \subseteq DOMAIN nodes',
         \A k \in DOMAIN nodes : nodes'[k] = nodes[k]
  PROVE  Built(e)'
<1>1. Event(e.declared, pages)' = Event(e.declared, pages) /\ Menu(e.declared)' = Menu(e.declared)
  BY DEF Event, Tree, Menu, Placed, Attached
<1>2. DOMAIN e.declared \subseteq DOMAIN nodes'
  BY DEF Built
<1>3. e.declared = [k \in DOMAIN e.declared |-> nodes'[k]]
  BY DEF Built
<1> QED
  BY <1>1, <1>2, <1>3 DEF Built

LEMMA SidebarStays ==
  ASSUME SidebarInv, UNCHANGED <<sidebarVars, pages>>, phase' = "declaring" => phase = "declaring"
  PROVE  SidebarInv'
<1>1. Offered' = Offered
  BY DEF Offered, Publishing, sidebarVars
<1>2. nodes' = nodes /\ pages' = pages
  BY DEF sidebarVars
<1>3. ASSUME NEW e \in Offered PROVE Built(e)'
  <2>1. Built(e)
    BY DEF SidebarInv
  <2> QED
    BY <1>2, <2>1, BuiltStays
<1> QED
  BY <1>1, <1>3 DEF SidebarInv, NodesTyped, sidebarVars

LEMMA RegisterPageKeeps ==
  ASSUME SidebarInv, NEW p, NEW keys, RegisterPage(p, keys)
  PROVE  SidebarInv'
<1>1. UNCHANGED <<nodes, publication, menu, shown>> /\ phase = "declaring"
  BY DEF RegisterPage, sidebarVars
<1>2. Offered = {} /\ Offered' = Offered
  <2>1. Offered = {}
    BY <1>1 DEF SidebarInv
  <2>2. Offered' = Offered
    BY <1>1 DEF Offered, Publishing
  <2> QED
    BY <2>1, <2>2
<1>3. NodesTyped => NodesTyped'
  BY <1>1 DEF NodesTyped
<1> QED
  BY <1>2, <1>1, <1>3 DEF SidebarInv

LEMMA NodesFinite ==
  ASSUME NEW batch \in Batches
  PROVE  IsFiniteSet({batch[i].key : i \in DOMAIN batch})
<1> DEFINE keys == {batch[i].key : i \in DOMAIN batch}
           f == [i \in DOMAIN batch |-> batch[i].key]
<1>1. Len(batch) \in Nat /\ DOMAIN batch = 1 .. Len(batch)
  BY BatchesAssumption
<1>2. IsFiniteSet(DOMAIN batch)
  BY <1>1, FS_Interval
<1>3. f \in Surjection(DOMAIN batch, keys)
  BY DEF Surjection
<1> QED
  BY <1>2, <1>3, FS_Surjection

LEMMA NodesKeep ==
  ASSUME SidebarInv, NEW batch \in Batches, RegisterMany(batch), pages' = pages,
         phase' = "declaring" => phase = "declaring"
  PROVE  SidebarInv'
<1> DEFINE new == Registered(batch)
<1>1. DOMAIN new = {batch[i].key : i \in DOMAIN batch}
  BY DEF Registered
<1>2. IsFiniteSet(DOMAIN new)
  BY <1>1, NodesFinite
<1>3. None \notin DOMAIN new
  BY <1>1 DEF RegisterMany, Registrable
<1> HIDE DEF new
<1>4. nodes' = [k \in DOMAIN new \cup DOMAIN nodes |->
                  IF k \in DOMAIN nodes THEN nodes[k] ELSE new[k]]
  BY DEF RegisterMany, Added, new
<1>5. /\ nodes' = [k \in DOMAIN nodes' |-> nodes'[k]]
      /\ DOMAIN nodes' = DOMAIN new \cup DOMAIN nodes
      /\ \A k \in DOMAIN nodes : nodes'[k] = nodes[k]
  BY <1>4
<1>6. IsFiniteSet(DOMAIN nodes')
  <2>1. IsFiniteSet(DOMAIN nodes)
    BY DEF SidebarInv, NodesTyped
  <2>2. IsFiniteSet(DOMAIN new \cup DOMAIN nodes)
    BY <1>2, <2>1, FS_Union
  <2> QED
    BY <1>5, <2>2
<1>7. Offered' = Offered
  BY DEF Offered, Publishing, RegisterMany
<1>8. ASSUME NEW e \in Offered PROVE Built(e)'
  <2>1. Built(e)
    BY DEF SidebarInv
  <2>2. DOMAIN nodes \subseteq DOMAIN nodes'
    BY <1>5
  <2> QED
    BY <1>5, <2>1, <2>2, BuiltStays
<1> QED
  BY <1>3, <1>5, <1>6, <1>7, <1>8 DEF SidebarInv, NodesTyped, RegisterMany

\* An event built while another was shown or is about to be is the same.
LEMMA BuildKeeps ==
  ASSUME SidebarInv, NEW w \in Publishers, BuildEvent(w, pages, groups),
         pages' = pages, phase' # "declaring"
  PROVE  SidebarInv'
<1> DEFINE e == Event(nodes, pages)
<1>1. Menu(nodes)
  BY DEF BuildEvent, Publishable, Menu
<1>2. e.declared = nodes
  BY DEF Event
<1>3. Built(e)
  BY <1>1, <1>2 DEF Built, SidebarInv, NodesTyped
<1>4. ASSUME NEW f \in Offered PROVE f = e
  <2>1. Built(f)
    BY DEF SidebarInv
  <2>2. DOMAIN nodes = DOMAIN f.declared
    <3>1. Menu(f.declared) /\ DOMAIN f.declared \subseteq DOMAIN nodes
      BY <2>1 DEF Built
    <3>2. \A k \in DOMAIN f.declared : nodes[k] = f.declared[k]
      BY <2>1 DEF Built
    <3> QED
      BY <1>1, <3>1, <3>2, NoNewNodes DEF SidebarInv, NodesTyped
  <2>3. f.declared = nodes
    BY <2>1, <2>2 DEF Built, SidebarInv, NodesTyped
  <2> QED
    BY <2>1, <2>3 DEF Built
<1> HIDE DEF e
<1>5. publication' = [publication EXCEPT ![w] = [event |-> e]] /\ shown' = shown /\ menu' = menu /\ nodes' = nodes
  BY DEF BuildEvent, Begin, e
<1>6. /\ \A v \in Publishers : publication'[v] = IF v = w THEN [event |-> e] ELSE publication[v]
      /\ publication' = [v \in Publishers |-> publication'[v]]
  BY <1>5 DEF SidebarInv
<1>7. Offered' \subseteq Offered \cup {e}
  BY <1>5, <1>6 DEF Offered, Publishing
<1>8. \A f \in Offered' : Built(f)
  BY <1>3, <1>7 DEF SidebarInv
<1>9. \A f \in Offered' : Built(f)'
  BY <1>5, <1>8, BuiltStays
<1> QED
  BY <1>4, <1>5, <1>6, <1>7, <1>9 DEF SidebarInv, NodesTyped

LEMMA FewerOffered ==
  ASSUME SidebarInv, Offered' \subseteq Offered, nodes' = nodes, pages' = pages,
         publication' = [w \in Publishers |-> publication'[w]],
         menu' \in shown' \cup {None}, phase' # "declaring"
  PROVE  SidebarInv'
<1>1. \A f \in Offered' : Built(f)
  BY DEF SidebarInv
<1>2. \A f \in Offered' : Built(f)'
  BY <1>1, BuiltStays
<1>3. \A e, f \in Offered' : e = f
  BY DEF SidebarInv
<1>4. NodesTyped => NodesTyped'
  BY DEF NodesTyped
<1> QED
  BY <1>2, <1>3, <1>4 DEF SidebarInv

LEMMA PublisherKeeps ==
  ASSUME SidebarInv, NEW w \in Publishers,
         Unregister(w) \/ PublishSidebar(w) \/ PublisherFails(w),
         pages' = pages, phase' # "declaring"
  PROVE  SidebarInv'
<1>1. nodes' = nodes
  BY DEF Unregister, PublishSidebar, PublisherFails
<1>2. CASE Unregister(w)
  <2>1. /\ \A v \in Publishers : publication'[v] = IF v = w THEN [event |-> None] ELSE publication[v]
        /\ publication' = [v \in Publishers |-> publication'[v]]
    BY <1>2 DEF Unregister, Begin, SidebarInv
  <2>2. Offered' \subseteq Offered
    BY <1>2, <2>1 DEF Offered, Publishing, Unregister
  <2> QED
    BY <1>1, <1>2, <2>1, <2>2, FewerOffered DEF Unregister, SidebarInv
<1>3. CASE PublishSidebar(w) \/ PublisherFails(w)
  <2>1. /\ \A v \in Publishers : publication'[v] = IF v = w THEN None ELSE publication[v]
        /\ publication' = [v \in Publishers |-> publication'[v]]
    BY <1>3 DEF PublishSidebar, PublisherFails, SidebarInv
  <2>2. CASE PublishSidebar(w)
    <3>1. Offered' \subseteq Offered
      BY <2>1, <2>2 DEF Offered, Publishing, PublishSidebar
    <3>2. menu' \in shown' \cup {None}
      BY <2>2 DEF PublishSidebar
    <3> QED
      BY <1>1, <2>1, <3>1, <3>2, FewerOffered
  <2>3. CASE PublisherFails(w)
    <3>1. Offered' \subseteq Offered
      BY <2>1, <2>3 DEF Offered, Publishing, PublisherFails
    <3>2. menu' \in shown' \cup {None}
      BY <2>3 DEF PublisherFails, SidebarInv
    <3> QED
      BY <1>1, <2>1, <3>1, <3>2, FewerOffered
  <2> QED
    BY <1>3, <2>2, <2>3
<1> QED
  BY <1>2, <1>3

LEMMA SidebarKeeps ==
  ASSUME SidebarInv, BootNext
  PROVE  SidebarInv'
<1>1. ASSUME NEW p \in PageKeys, NEW keys \in Attachments, RegisterPage(p, keys) PROVE SidebarInv'
  BY <1>1, RegisterPageKeeps
<1>2. ASSUME NEW batch \in Batches, RegisterSidebarNodes(batch) PROVE SidebarInv'
  <2>1. pages' = pages /\ phase' = phase
    BY <1>2 DEF RegisterSidebarNodes
  <2>2. CASE RegisterMany(batch)
    BY <2>1, <2>2, NodesKeep
  <2>3. CASE UNCHANGED sidebarVars
    BY <2>1, <2>3, SidebarStays
  <2> QED
    BY <1>2, <2>2, <2>3 DEF RegisterSidebarNodes
<1>3. ASSUME NEW w \in Publishers, PublishRegistration(w) PROVE SidebarInv'
  <2>1. pages' = pages /\ phase' # "declaring"
    BY <1>3 DEF PublishRegistration, Step, declared
  <2>2. CASE BuildEvent(w, pages, groups)
    BY <2>1, <2>2, BuildKeeps
  <2>3. CASE UNCHANGED sidebarVars
    BY <2>1, <2>3, SidebarStays
  <2> QED
    BY <1>3, <2>2, <2>3 DEF PublishRegistration
<1>4. ASSUME NEW w \in Publishers, RegistrationSent(w) \/ Publish(w) PROVE SidebarInv'
  <2>1. pages' = pages /\ phase' # "declaring"
    BY <1>4 DEF RegistrationSent, Publish, Step, declared
  <2>2. CASE BuildEvent(w, pages, groups)
    BY <2>1, <2>2, BuildKeeps
  <2>3. CASE Unregister(w) \/ PublishSidebar(w) \/ PublisherFails(w)
    BY <2>1, <2>3, PublisherKeeps
  <2> QED
    BY <1>4, <2>2, <2>3 DEF RegistrationSent, Publish
<1>5. CASE \/ \E c \in Groups : RegisterAccessGroup(c)
           \/ \E batch \in RouteBatches : RegisterRoutes(batch)
           \/ Initialize \/ BootRefused \/ RegisterWithGin \/ GinPanics
           \/ NoSidebar \/ ListenFails \/ BootAgain
  <2>1. UNCHANGED <<sidebarVars, pages>> /\ (phase' = "declaring" => phase = "declaring")
    BY <1>5 DEF RegisterAccessGroup, RegisterRoutes, Initialize, BootRefused, RegisterWithGin,
                GinPanics, NoSidebar, ListenFails, BootAgain, Step, declared
  <2> QED
    BY <2>1, SidebarStays
<1> QED
  BY <1>1, <1>2, <1>3, <1>4, <1>5 DEF BootNext

\* Nothing is published before the server starts, and nothing is registered.
LEMMA SidebarStarts == BootInit => SidebarInv
<1> SUFFICES ASSUME BootInit PROVE SidebarInv
  OBVIOUS
<1>1. nodes = << >> /\ DOMAIN nodes = {}
  BY DEF BootInit, SidebarInit
<1>2. nodes = [k \in DOMAIN nodes |-> nodes[k]]
  BY <1>1
<1>3. publication = [w \in Publishers |-> publication[w]] /\ Publishing = {} /\ shown = {}
  BY DEF BootInit, SidebarInit, Publishing
<1>4. Offered = {}
  BY <1>3 DEF Offered
<1>5. IsFiniteSet(DOMAIN nodes)
  BY <1>1, FS_EmptySet
<1> QED
  BY <1>1, <1>2, <1>3, <1>4, <1>5 DEF SidebarInv, NodesTyped, BootInit, SidebarInit

-----------------------------------------------------------------------------
BatchRoutes == UNION {{batch[i] : i \in DOMAIN batch} : batch \in RouteBatches}

\* The routes that are kept.
RoutesKept ==
  /\ routes \in Seq(BatchRoutes)
  /\ {routes[i] : i \in DOMAIN routes} = accepted
  /\ \A i \in DOMAIN routes : routes[i].group \in groups /\ routes[i].path \notin Reserved
  /\ \A i, j \in DOMAIN routes : i # j => routes[i].path # routes[j].path

\* The first Bootstrap starts with an empty router, and one that came past gin
\* has found authenticator and authorizer and has registered every route.
BootOrder ==
  /\ boots \in Nat
  /\ phase = "declaring" => boots = 0 /\ router = {}
  /\ phase \in {"initialized", "routed", "publishing", "serving", "returned"} => boots > 0
  /\ phase = "initialized" /\ boots = 1 => router = {}
  /\ phase \in {"routed", "publishing", "serving"} =>
       (routes # << >> => secured) /\ RoutePaths \subseteq router

RoutesInv == RoutesKept /\ BootOrder /\ PanicExplained

LEMMA AfterElements ==
  ASSUME NEW batch \in RouteBatches, routes \in Seq(BatchRoutes), NEW n \in 0 .. Len(batch)
  PROVE  LET t == AfterRoutes(batch, n)
         IN  /\ t \in Seq(BatchRoutes) /\ Len(t) = Len(routes) + n
             /\ \A i \in 1 .. Len(routes) : t[i] = routes[i]
             /\ \A i \in 1 .. n : t[Len(routes) + i] = batch[i]
             /\ SubSeq(t, 1, Len(routes)) = routes
<1> DEFINE s == SubSeq(batch, 1, n)
           t == routes \o s
<1>1. batch \in Seq(BatchRoutes)
  <2> DEFINE R == {batch[i] : i \in DOMAIN batch}
  <2>1. batch \in Seq(R) /\ R \subseteq BatchRoutes
    BY RouteBatchesAssumption DEF BatchRoutes
  <2> HIDE DEF R
  <2> QED
    BY <2>1
<1>2. s \in Seq(BatchRoutes) /\ Len(s) = n /\ \A i \in 1 .. n : s[i] = batch[i]
  BY <1>1
<1> HIDE DEF s
<1>3. t \in Seq(BatchRoutes) /\ Len(t) = Len(routes) + n
  BY <1>2
<1>4. \A i \in 1 .. Len(routes) : t[i] = routes[i]
  BY <1>2
<1>5. \A i \in 1 .. n : t[Len(routes) + i] = batch[i]
  BY <1>2
<1> HIDE DEF t
<1>6. SubSeq(t, 1, Len(routes)) = routes
  BY <1>3, <1>4
<1>7. AfterRoutes(batch, n) = t
  BY DEF AfterRoutes, s, t
<1> QED
  BY <1>2, <1>3, <1>4, <1>5, <1>6, <1>7

LEMMA RoutesStay ==
  ASSUME RoutesKept, routes' = routes, accepted' = accepted, groups \subseteq groups'
  PROVE  RoutesKept'
<1>1. \A i \in DOMAIN routes : routes[i].group \in groups'
  BY DEF RoutesKept
<1> QED
  BY <1>1 DEF RoutesKept

LEMMA BatchKeeps ==
  ASSUME RoutesKept, NEW batch \in RouteBatches, RegisterRoutes(batch)
  PROVE  RoutesKept'
<1>1. routes \in Seq(BatchRoutes) /\ groups' = groups /\ Len(batch) \in Nat /\ DOMAIN batch = 1 .. Len(batch)
  BY RouteBatchesAssumption DEF RoutesKept, RegisterRoutes
<1>2. CASE Refusals(batch) # {}
  <2>1. PICK i \in FirstRefused(batch) : routes' = RolledBack(AfterRoutes(batch, i - 1))
    BY <1>2 DEF RegisterRoutes
  <2>2. i - 1 \in 0 .. Len(batch)
    BY <1>1, <2>1 DEF FirstRefused, Refusals
  <2>3. routes' = routes
    BY <1>1, <2>1, <2>2, AfterElements DEF RolledBack
  <2>4. accepted' = accepted
    BY <1>2 DEF RegisterRoutes
  <2> QED
    BY <1>1, <2>3, <2>4, RoutesStay
<1>3. CASE Refusals(batch) = {}
  <2> DEFINE old == Len(routes)
             t == AfterRoutes(batch, Len(batch))
  <2>1. routes' = t /\ accepted' = accepted \cup {batch[i] : i \in DOMAIN batch}
    BY <1>3 DEF RegisterRoutes
  <2>2. /\ t \in Seq(BatchRoutes) /\ Len(t) = old + Len(batch) /\ old \in Nat
        /\ \A i \in 1 .. old : t[i] = routes[i]
        /\ \A i \in 1 .. Len(batch) : t[old + i] = batch[i]
    <3>1. old \in Nat /\ Len(batch) \in 0 .. Len(batch)
      BY <1>1
    <3> QED
      BY <1>1, <3>1, AfterElements
  <2>3. ASSUME NEW m \in 1 .. Len(batch)
        PROVE  /\ batch[m].path \notin Reserved /\ batch[m].group \in groups
               /\ \A i \in 1 .. old + m - 1 : t[i].path # batch[m].path
    <3> DEFINE s == AfterRoutes(batch, m - 1)
    <3>1. ~RouteRefused(s, batch[m])
      BY <1>1, <1>3 DEF Refusals
    <3>2. m - 1 \in 0 .. Len(batch)
      BY <1>1
    <3>3. /\ s \in Seq(BatchRoutes) /\ Len(s) = old + m - 1
          /\ \A i \in 1 .. old : s[i] = routes[i]
          /\ \A i \in 1 .. m - 1 : s[old + i] = batch[i]
      BY <1>1, <3>2, AfterElements
    <3> HIDE DEF s, t
    <3>4. ASSUME NEW i \in 1 .. old + m - 1 PROVE i \in DOMAIN s /\ s[i] = t[i]
      <4>1. i \in DOMAIN s
        BY <1>1, <2>2, <3>3
      <4>2. CASE i \in 1 .. old
        BY <2>2, <3>3, <4>1, <4>2
      <4>3. CASE i \notin 1 .. old
        <5>1. i - old \in 1 .. m - 1 /\ i - old \in 1 .. Len(batch) /\ old + (i - old) = i
          BY <1>1, <2>2, <4>3
        <5>2. s[old + (i - old)] = batch[i - old] /\ t[old + (i - old)] = batch[i - old]
          BY <2>2, <3>3, <5>1
        <5> QED
          BY <4>1, <5>1, <5>2
      <4> QED
        BY <4>2, <4>3
    <3> QED
      BY <3>1, <3>4 DEF RouteRefused
  <2> HIDE DEF t, old
  <2>4. DOMAIN t = 1 .. old + Len(batch)
    BY <2>2
  <2>5. /\ routes \in Seq(BatchRoutes) /\ DOMAIN routes = 1 .. old
        /\ {routes[i] : i \in DOMAIN routes} = accepted
        /\ \A i \in 1 .. old : routes[i].group \in groups /\ routes[i].path \notin Reserved
        /\ \A i, j \in 1 .. old : i # j => routes[i].path # routes[j].path
    BY DEF RoutesKept, old
  <2>6. ASSUME NEW i \in DOMAIN t, i \notin 1 .. old
        PROVE  i - old \in 1 .. Len(batch) /\ t[i] = batch[i - old] /\ i = old + (i - old)
    <3>1. i - old \in 1 .. Len(batch) /\ i = old + (i - old)
      BY <1>1, <2>2, <2>4, <2>6
    <3> QED
      BY <2>2, <3>1
  <2>7. {t[i] : i \in DOMAIN t} = accepted'
    <3>1. ASSUME NEW i \in DOMAIN t PROVE t[i] \in accepted'
      BY <1>1, <2>1, <2>2, <2>5, <2>6
    <3>2. ASSUME NEW r \in accepted' PROVE \E i \in DOMAIN t : t[i] = r
      <4>1. CASE r \in accepted
        <5>1. PICK i \in 1 .. old : routes[i] = r
          BY <2>5, <4>1
        <5>2. i \in DOMAIN t /\ t[i] = r
          BY <1>1, <2>2, <2>4, <5>1
        <5> QED
          BY <5>2
      <4>2. CASE r \notin accepted
        <5>1. PICK i \in 1 .. Len(batch) : batch[i] = r
          BY <1>1, <2>1, <4>2
        <5>2. old + i \in DOMAIN t /\ t[old + i] = r
          BY <1>1, <2>2, <2>4, <5>1
        <5> QED
          BY <5>2
      <4> QED
        BY <4>1, <4>2
    <3> QED
      BY <3>1, <3>2
  <2>8. \A i \in DOMAIN t : t[i].group \in groups /\ t[i].path \notin Reserved
    BY <2>2, <2>3, <2>5, <2>6
  <2>9. ASSUME NEW i \in DOMAIN t, NEW j \in DOMAIN t, i < j PROVE t[i].path # t[j].path
    <3>1. CASE j \in 1 .. old
      <4>1. i \in 1 .. old /\ i # j
        BY <2>2, <2>4, <2>9, <3>1
      <4> QED
        BY <2>2, <2>5, <3>1, <4>1
    <3>2. CASE j \notin 1 .. old
      <4>1. j - old \in 1 .. Len(batch) /\ t[j] = batch[j - old]
        BY <2>6, <3>2
      <4>2. i \in 1 .. old + (j - old) - 1
        BY <1>1, <2>2, <2>4, <2>9, <4>1
      <4> QED
        BY <2>3, <4>1, <4>2
    <3> QED
      BY <3>1, <3>2
  <2>10. \A i, j \in DOMAIN t : i # j => t[i].path # t[j].path
    <3>1. ASSUME NEW i \in DOMAIN t, NEW j \in DOMAIN t, i # j PROVE i < j \/ j < i
      BY <1>1, <2>2, <2>4, <3>1
    <3> QED
      BY <2>9, <3>1
  <2>11. routes' = t /\ groups' = groups /\ t \in Seq(BatchRoutes)
    BY <1>1, <2>1, <2>2
  <2> QED
    BY <2>7, <2>8, <2>10, <2>11 DEF RoutesKept
<1> QED
  BY <1>2, <1>3

LEMMA PanicsExplained ==
  ASSUME RoutesInv, GinPanics
  PROVE  PanicExplained'
<1>1. UNCHANGED <<routes, accepted, pages, boots, router>> /\ phase = "initialized"
  BY DEF GinPanics, Step, declared
<1>2. boots = 1 => router = {}
  BY <1>1 DEF RoutesInv, BootOrder
<1>3. PagePaths' = PagePaths
  BY <1>1 DEF PagePaths
<1>4. \A i \in DOMAIN routes : routes[i] \in accepted /\ routes[i].path \notin Reserved
  BY DEF RoutesInv, RoutesKept
<1>5. RoutePaths = {CleanPath[r.path] : r \in accepted}
  BY DEF RoutesInv, RoutesKept, RoutePaths
<1>6. CASE (PagePaths \cup RoutePaths) \cap Unroutable # {}
  BY <1>1, <1>3, <1>5, <1>6 DEF PanicExplained
<1>7. CASE \E p \in PagePaths \cup RoutePaths, q \in router : Conflict(p, q)
  BY <1>1, <1>2, <1>7 DEF PanicExplained
<1>8. CASE \E p, q \in DOMAIN pages : p # q /\ Conflict(PagePath[p], PagePath[q])
  BY <1>1, <1>8 DEF PanicExplained, Conflict
<1>9. CASE \E p \in PagePaths, q \in RoutePaths : Conflict(p, q)
  <2>1. PICK p \in PagePaths, i \in DOMAIN routes : Conflict(p, CleanPath[routes[i].path])
    BY <1>9 DEF RoutePaths
  <2> QED
    BY <1>1, <1>3, <1>4, <2>1 DEF PanicExplained, Conflict
<1>10. CASE \E i, j \in DOMAIN routes :
              i # j /\ Conflict(CleanPath[routes[i].path], CleanPath[routes[j].path])
  <2>1. PICK i, j \in DOMAIN routes :
               i # j /\ Conflict(CleanPath[routes[i].path], CleanPath[routes[j].path])
    BY <1>10
  <2>2. routes[i].path # routes[j].path
    BY <2>1 DEF RoutesInv, RoutesKept
  <2> QED
    BY <1>1, <1>4, <2>1, <2>2 DEF PanicExplained, Conflict
<1> QED
  BY <1>6, <1>7, <1>8, <1>9, <1>10 DEF GinPanics, Clash

LEMMA RoutesKeep ==
  ASSUME RoutesInv, BootNext
  PROVE  RoutesInv'
<1>1. RoutesKept'
  <2>1. ASSUME NEW batch \in RouteBatches, RegisterRoutes(batch) PROVE RoutesKept'
    BY <2>1, BatchKeeps DEF RoutesInv
  <2>2. CASE \/ \E p \in PageKeys, keys \in Attachments : RegisterPage(p, keys)
             \/ \E c \in Groups : RegisterAccessGroup(c)
             \/ \E batch \in Batches : RegisterSidebarNodes(batch)
             \/ Initialize \/ BootRefused \/ RegisterWithGin \/ GinPanics
             \/ NoSidebar \/ ListenFails \/ BootAgain
             \/ \E w \in Publishers :
                  PublishRegistration(w) \/ RegistrationSent(w) \/ Publish(w)
    <3>1. routes' = routes /\ accepted' = accepted /\ groups \subseteq groups'
      BY <2>2 DEF RegisterPage, RegisterAccessGroup, RegisterSidebarNodes, Initialize,
                  BootRefused, RegisterWithGin, GinPanics, NoSidebar, ListenFails, BootAgain,
                  PublishRegistration, RegistrationSent, Publish, Step, declared
    <3> QED
      BY <3>1, RoutesStay DEF RoutesInv
  <2> QED
    BY <2>1, <2>2 DEF BootNext
<1>2. PanicExplained'
  <2>1. CASE GinPanics
    BY <2>1, PanicsExplained
  <2>2. CASE \/ \E p \in PageKeys, keys \in Attachments : RegisterPage(p, keys)
             \/ \E c \in Groups : RegisterAccessGroup(c)
             \/ \E batch \in Batches : RegisterSidebarNodes(batch)
             \/ \E batch \in RouteBatches : RegisterRoutes(batch)
             \/ Initialize \/ BootRefused \/ RegisterWithGin
             \/ NoSidebar \/ ListenFails \/ BootAgain
             \/ \E w \in Publishers :
                  PublishRegistration(w) \/ RegistrationSent(w) \/ Publish(w)
    <3>1. phase' # "router panic"
      BY <2>2 DEF RegisterPage, RegisterAccessGroup, RegisterSidebarNodes, RegisterRoutes,
                  Initialize, BootRefused, RegisterWithGin, NoSidebar, ListenFails, BootAgain,
                  PublishRegistration, RegistrationSent, Publish, Step, Declaring
    <3> QED
      BY <3>1 DEF PanicExplained
  <2> QED
    BY <2>1, <2>2 DEF BootNext
<1>3. BootOrder'
  <2> USE DEF RoutesInv, BootOrder
  <2>1. CASE \E batch \in RouteBatches : RegisterRoutes(batch)
    BY <2>1 DEF RegisterRoutes, Calling
  <2>2. CASE \E p \in PageKeys, keys \in Attachments : RegisterPage(p, keys)
    BY <2>2 DEF RegisterPage, Calling
  <2>3. CASE \/ \E c \in Groups : RegisterAccessGroup(c)
             \/ \E batch \in Batches : RegisterSidebarNodes(batch)
             \/ \E w \in Publishers : Publish(w)
    <3>1. UNCHANGED <<phase, routes, secured, router, boots>>
      BY <2>3 DEF RegisterAccessGroup, RegisterSidebarNodes, Publish, Declaring, Calling, declared
    <3> QED
      BY <3>1 DEF RoutePaths
  <2>4. CASE Initialize \/ BootAgain
    BY <2>4 DEF Initialize, BootAgain
  <2>5. CASE RegisterWithGin
    BY <2>5 DEF RegisterWithGin, Bootable, Step, declared, RoutePaths
  <2>6. CASE \/ BootRefused \/ GinPanics \/ NoSidebar \/ ListenFails
             \/ \E w \in Publishers : PublishRegistration(w) \/ RegistrationSent(w)
    <3>1. /\ UNCHANGED <<routes, secured, router, boots>>
          /\ phase' \in {"publishing", "serving"} =>
               phase \in {"routed", "publishing"}
          /\ phase \in {"initialized", "routed", "publishing", "serving"}
          /\ phase' \in {"publishing", "serving", "returned", "router panic"}
      BY <2>6 DEF BootRefused, GinPanics, NoSidebar, ListenFails, PublishRegistration,
                  RegistrationSent, Step, declared
    <3> QED
      BY <3>1 DEF RoutePaths
  <2> QED
    BY <2>1, <2>2, <2>3, <2>4, <2>5, <2>6 DEF BootNext
<1> QED
  BY <1>1, <1>2, <1>3 DEF RoutesInv

LEMMA RoutesStart == BootInit => RoutesInv
<1> SUFFICES ASSUME BootInit PROVE RoutesInv
  OBVIOUS
<1>1. routes = << >> /\ DOMAIN routes = {} /\ routes \in Seq(BatchRoutes)
  BY DEF BootInit
<1> QED
  BY <1>1 DEF BootInit, RoutesInv, RoutesKept, BootOrder, PanicExplained

LEMMA ReportedFromInv == RoutesInv => RoutesAsReported
<1> SUFFICES ASSUME RoutesInv PROVE RoutesAsReported
  OBVIOUS
<1>1. ASSUME NEW r \in accepted PROVE \E i \in DOMAIN routes : routes[i] = r
  BY DEF RoutesInv, RoutesKept
<1>2. \A r \in accepted : r.group \in groups
  BY <1>1 DEF RoutesInv, RoutesKept
<1>3. ASSUME phase = "serving", accepted # {}
      PROVE  secured /\ \A r \in accepted : CleanPath[r.path] \in router
  <2>1. routes # << >>
    <3>1. DOMAIN routes # {}
      BY <1>1, <1>3
    <3> QED
      BY <3>1
  <2>2. RoutePaths \subseteq router
    BY <1>3 DEF RoutesInv, BootOrder
  <2>3. secured
    BY <1>3, <2>1 DEF RoutesInv, BootOrder
  <2> QED
    BY <1>1, <2>2, <2>3 DEF RoutePaths
<1> QED
  BY <1>2, <1>3 DEF RoutesInv, RoutesKept, RoutesAsReported

LEMMA BootStays ==
  ASSUME RoutesInv, SidebarInv, UNCHANGED bootVars
  PROVE  RoutesInv' /\ SidebarInv'
<1>1. SidebarInv'
  BY SidebarStays DEF bootVars, declared
<1>2. UNCHANGED <<phase, pages, groups, routes, accepted, secured, router, boots>>
  BY DEF bootVars, declared
<1>3. RoutesKept'
  BY <1>2, RoutesStay DEF RoutesInv
<1>4. BootOrder' /\ PanicExplained'
  BY <1>2 DEF RoutesInv, BootOrder, PanicExplained, RoutePaths, PagePaths
<1> QED
  BY <1>1, <1>3, <1>4 DEF RoutesInv

-----------------------------------------------------------------------------
AppInv == ManifestInv /\ SyncInv /\ RoutesInv /\ SidebarInv

LEMMA SyncStays ==
  ASSUME SyncInv, UNCHANGED syncVars
  PROVE  SyncInv'
BY DEF SyncInv, SyncTyped, Noted, Progress, Done, Running, AccessGroups, IsSFPAccessGroup, syncVars

LEMMA FileGroupsTyped == ManifestInv => Listed(file) \in GroupMaps
<1> SUFFICES ASSUME ManifestInv PROVE Listed(file) \in GroupMaps
  OBVIOUS
<1>1. file \in Manifest
  BY DEF ManifestInv
<1>2. ASSUME NEW c \in CodesIn(file.groups)
      PROVE  file.groups[CHOOSE e \in DOMAIN file.groups : e.code = c] \in Group
  <2>1. (CHOOSE e \in DOMAIN file.groups : e.code = c) \in DOMAIN file.groups
    BY DEF CodesIn
  <2> QED
    BY <1>1, <2>1, ManifestTyped
<1>3. CodesIn(file.groups) \subseteq Codes
  BY <1>1, ManifestTyped
<1>4. Listed(file) \in [CodesIn(file.groups) -> Group]
  BY <1>2 DEF Listed
<1> QED
  BY <1>3, <1>4, IsGroupMap

LEMMA AppInvariant == Spec => []AppInv
<1>1. Init => AppInv
  BY ManifestStarts, SyncStarts, RoutesStart, SidebarStarts DEF Init, AppInv
<1>2. ASSUME AppInv, [Next]_vars PROVE AppInv'
  <2>1. CASE Serve
    <3>1. RoutesInv' /\ SidebarInv'
      BY <1>2, <2>1, RoutesKeep, SidebarKeeps DEF Serve, AppInv
    <3>2. ManifestInv'
      BY <1>2, <2>1, ManifestStays DEF Serve, AppInv, manifestVars
    <3>3. SyncInv'
      BY <1>2, <2>1, SyncStays DEF Serve, AppInv
    <3> QED
      BY <3>1, <3>2, <3>3 DEF AppInv
  <2>2. CASE Access
    <3>1. RoutesInv' /\ SidebarInv'
      BY <1>2, <2>2, BootStays DEF Access, AppInv
    <3>2. CASE ManifestNext /\ UNCHANGED syncVars
      BY <1>2, <3>1, <3>2, ManifestKeeps, SyncStays DEF AppInv
    <3>3. CASE SyncNext
      <4>1. UNCHANGED <<release, disk, file, generation, current, history>>
        BY <3>3 DEF SyncNext, manifestVars
      <4>2. ManifestInv'
        BY <1>2, <4>1, ManifestStays DEF AppInv
      <4>3. SyncInv'
        BY <1>2, <3>3, SyncKeeps, FileGroupsTyped DEF AppInv
      <4> QED
        BY <3>1, <4>2, <4>3 DEF AppInv
    <3> QED
      BY <2>2, <3>2, <3>3 DEF Access
  <2>3. CASE UNCHANGED vars
    <3>1. UNCHANGED <<release, disk, file, generation, current, history>> /\ UNCHANGED syncVars
          /\ UNCHANGED bootVars
      BY <2>3 DEF vars, manifestVars
    <3> QED
      BY <1>2, <3>1, ManifestStays, SyncStays, BootStays DEF AppInv
  <2> QED
    BY <1>2, <2>1, <2>2, <2>3 DEF Next
<1> QED
  BY <1>1, <1>2, PTL DEF Spec

(* A later `access generate` loses nothing that an earlier one or an edit   *)
(* told the manifest (Merge, MergeAccessGroups), whatever the releases, the *)
(* edits, and the writes that were cut.                                     *)
THEOREM NothingIsForgotten == Spec => []NothingForgotten
BY AppInvariant, RemembersFromInv, PTL DEF AppInv

(* `access validate` and `access diff` find nothing wrong with a manifest   *)
(* that was written to its end but what a release dropped or a permission   *)
(* names (Validate, Compare).                                               *)
THEOREM GenerationIsValid == Spec => []GeneratedIsValid
BY AppInvariant, ValidFromInv, PTL DEF AppInv

(* An `access sync` that ends well and was alone leaves Keycloak as its     *)
(* manifest says, whatever syncs that failed before it left behind (Sync).  *)
THEOREM KeycloakIsSynced == Spec => []SyncedAsListed
BY AppInvariant, SyncedFromInv, PTL DEF AppInv

(* Any number of syncs at once leave alone what is no access group, and     *)
(* deprecate no group that their manifest lists (Sync, markDeprecated).     *)
THEOREM ForeignResourcesSpared == Spec => SyncSpares
<1> DEFINE Spares ==
      \A n \in Names : remote[n] # Nil /\ remote'[n] # remote[n] =>
        /\ remote[n].sfp
        /\ remote'[n].deprecated /\ ~remote[n].deprecated =>
              \E j \in Jobs : job'[j] # job[j] /\ n \notin DOMAIN job[j].groups
<1>1. ASSUME AppInv, [Next]_vars PROVE [Spares]_remote
  <2>1. CASE SyncNext
    BY <1>1, <2>1, SyncStepSpares DEF AppInv
  <2>2. CASE ~SyncNext
    BY <1>1, <2>2 DEF Next, Serve, Access, vars, syncVars
  <2> QED
    BY <2>1, <2>2
<1> QED
  BY <1>1, AppInvariant, PTL DEF Spec, SyncSpares

(* Every node that was declared when the event was built is in the menu,    *)
(* under its own parent, and every leaf opens one page (BuildEvent,         *)
(* buildPublishedNode).                                                     *)
THEOREM ShownMenuIsWhole == Spec => []MenuIsWhole
BY AppInvariant, WholeFromInv, PTL DEF AppInv

(* Publications that overlap or come again never show different menus       *)
(* (publishSidebar).                                                        *)
THEOREM OneMenuIsShown == Spec => []PublicationsAgree
BY AppInvariant, AgreeFromInv, PTL DEF AppInv

(* customRoutes holds exactly the routes that RegisterRoutes reported a     *)
(* success for, and a server that serves has every one of them in gin,      *)
(* behind an authenticator and an authorizer.                               *)
THEOREM ReportedRoutesServed == Spec => []RoutesAsReported
BY AppInvariant, ReportedFromInv, PTL DEF AppInv

(* gin panics in Bootstrap only when it is tried again or two paths that    *)
(* were taken for different are one after cleaning.                         *)
THEOREM PanicsAreExplained == Spec => []PanicExplained
<1>1. AppInv => PanicExplained
  BY DEF AppInv, RoutesInv
<1> QED
  BY <1>1, AppInvariant, PTL
=============================================================================
