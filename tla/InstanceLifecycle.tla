-------------------------- MODULE InstanceLifecycle --------------------------
(***************************************************************************)
(* What the instance manager promises its callers, without clocks, maps,   *)
(* mutexes or statuses: an instance is opened once, for one key (a page    *)
(* and its owner), and closed for good; no more are opened than are        *)
(* affordable; only a caller with the instance's key is admitted, and only *)
(* while it is open; an admitted caller runs alone on the instance, once   *)
(* per admission.  An admission outlives the closing of the instance:      *)
(* whoever was admitted may still run.                                     *)
(***************************************************************************)
CONSTANTS
  Callers, Ids, Keys, None,
  Affordable   \* the sets of instances that may be open together

VARIABLES
  phase,     \* phase[id]: "unborn", "open" or "closed"
  key,       \* key[id]: what a caller must present; None while unborn
  admitted,  \* admitted callers that wait for their turn: <<caller, id, key>>
  running    \* running[id]: the caller running on id, or None

lifecycle == <<phase, key, admitted, running>>

Open == {id \in Ids : phase[id] = "open"}

Init ==
  /\ phase = [id \in Ids |-> "unborn"]
  /\ key = [id \in Ids |-> None]
  /\ admitted = {}
  /\ running = [id \in Ids |-> None]

\* Ending the given open instances.
Closing(ids) == [id \in Ids |-> IF id \in ids THEN "closed" ELSE phase[id]]

\* A new instance opens; idle ones may be closed to make room.
OpenInstance(id, k) ==
  \E ids \in SUBSET Open :
    /\ phase[id] = "unborn"
    /\ (Open \ ids) \cup {id} \in Affordable
    /\ phase' = [Closing(ids) EXCEPT ![id] = "open"]
    /\ key' = [key EXCEPT ![id] = k]
    /\ UNCHANGED <<admitted, running>>

CloseInstances ==
  \E ids \in SUBSET Open :
    /\ phase' = Closing(ids)
    /\ UNCHANGED <<key, admitted, running>>

Admit(c, id) ==
  /\ phase[id] = "open"
  /\ admitted' = admitted \cup {<<c, id, key[id]>>}
  /\ UNCHANGED <<phase, key, running>>

Start(c, id) ==
  /\ running[id] = None
  /\ \E k \in Keys :
       /\ <<c, id, k>> \in admitted
       /\ admitted' = admitted \ {<<c, id, k>>}
  /\ running' = [running EXCEPT ![id] = c]
  /\ UNCHANGED <<phase, key>>

Stop(c, id) ==
  /\ running[id] = c
  /\ running' = [running EXCEPT ![id] = None]
  /\ UNCHANGED <<phase, key, admitted>>

\* The process goes down, and with it everything it kept in memory.
Crash ==
  /\ phase' = Closing(Open)
  /\ admitted' = {}
  /\ running' = [id \in Ids |-> None]
  /\ UNCHANGED key

Next ==
  \/ \E id \in Ids, k \in Keys : OpenInstance(id, k)
  \/ CloseInstances
  \/ \E c \in Callers, id \in Ids : Admit(c, id) \/ Start(c, id) \/ Stop(c, id)
  \/ Crash

Spec == Init /\ [][Next]_lifecycle
=============================================================================
