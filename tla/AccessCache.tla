----------------------------- MODULE AccessCache -----------------------------
(***************************************************************************)
(* CachedAuthorizer (access/authorizer.go): what the access source says of *)
(* a user is kept for TTL.  The cache is locked to be read and locked to   *)
(* be written, and not in between, while the source is asked: queries of   *)
(* one user overtake each other, the source changes its mind between its   *)
(* answer and the store, and Invalidate can empty the cache at any moment, *)
(* also between a query's answer from the source and its store.            *)
(*                                                                         *)
(* A question is more than the key its answer is kept under: load asks     *)
(* with the user's claims and keeps the answer under the user's id.        *)
(***************************************************************************)
EXTENDS Integers

CONSTANTS
  Queries,   \* goroutines inside load
  Questions, \* what the source is asked: a user's id with the claims of a token
  Keys,      \* cache keys: user ids
  CacheKey,  \* CacheKey[k]: the key the answer to k is kept under
  Values,    \* what the source can answer: sets of access groups
  Mistakes,  \* the answers it may give although it does not hold them
  TTL,       \* CachedAuthorizer.ttl
  MaxTime,   \* bound of the clock
  None       \* no entry, no answer

ASSUME CacheTTLAssumption == TTL \in Nat \ {0}
ASSUME CacheTimeAssumption == MaxTime \in Nat
ASSUME CacheKeyAssumption == CacheKey \in [Questions -> Keys]
ASSUME MistakesAssumption == Mistakes \subseteq Values
ASSUME NoEntryAssumption ==
  /\ None \notin Values
  /\ None \notin [value : Values, expiresAt : Int]

VARIABLES
  clock,     \* now()
  source,    \* source[k]: what the source would answer at this moment
  lost,      \* lost[k][v]: the last moment v was the source's answer before it changed
  mistaken,  \* mistaken[k][v]: the last moment it answered v by mistake
  cache,     \* cache[k]: the entry, or None
  pc,        \* where each query is
  question,  \* what it asks
  now,       \* its local variable `now`
  answer     \* the source's answer, then what the query returned; None is an error

cacheVars == <<clock, source, lost, mistaken, cache, pc, question, now, answer>>

Entry == [value : Values, expiresAt : 0..(MaxTime + TTL)]
\* Long before the program started.
Never == -TTL - 1

TypeOK ==
  /\ clock \in 0..MaxTime
  /\ source \in [Questions -> Values]
  /\ lost \in [Questions -> [Values -> Never..MaxTime]]
  /\ mistaken \in [Questions -> [Values -> Never..MaxTime]]
  /\ cache \in [Keys -> Entry \cup {None}]
  /\ pc \in [Queries -> {"idle", "looking", "asking", "storing"}]
  /\ question \in [Queries -> Questions]
  /\ now \in [Queries -> 0..MaxTime]
  /\ answer \in [Queries -> Values \cup {None}]

\* The latest moment at which v was what the source says of k.
LastHeld(k, v) == IF source[k] = v THEN clock ELSE lost[k][v]

\* The latest moment at which the source could answer k with v.
LastSaid(k, v) ==
  IF v \in Mistakes /\ mistaken[k][v] > LastHeld(k, v) THEN mistaken[k][v] ELSE LastHeld(k, v)

Init ==
  /\ clock = 0
  /\ source \in [Questions -> Values]
  /\ lost = [k \in Questions |-> [v \in Values |-> Never]]
  /\ mistaken = [k \in Questions |-> [v \in Values |-> Never]]
  /\ cache = [k \in Keys |-> None]
  /\ pc = [q \in Queries |-> "idle"]
  /\ \E k \in Questions : question = [q \in Queries |-> k]
  /\ now = [q \in Queries |-> 0]
  /\ answer = [q \in Queries |-> None]

KeyOf(q) == CacheKey[question[q]]

Goto(q, label) == pc' = [pc EXCEPT ![q] = label]
Return(q, v) == Goto(q, "idle") /\ answer' = [answer EXCEPT ![q] = v]

-----------------------------------------------------------------------------
\* load is called, and reads the clock before it locks the cache.
Load(q) ==
  /\ pc[q] = "idle"
  /\ \E k \in Questions : question' = [question EXCEPT ![q] = k]
  /\ now' = [now EXCEPT ![q] = clock]
  /\ answer' = [answer EXCEPT ![q] = None]
  /\ Goto(q, "looking")
  /\ UNCHANGED <<clock, source, lost, mistaken, cache>>

\* Mutant: an entry is served whatever its age.
BugUsable(q) == cache[KeyOf(q)] # None

\* now.Before(cached.expiresAt)
Usable(q) == cache[KeyOf(q)] # None /\ now[q] < cache[KeyOf(q)].expiresAt

Hit(q) ==
  /\ pc[q] = "looking"
  /\ Usable(q)
  /\ Return(q, cache[KeyOf(q)].value)
  /\ UNCHANGED <<clock, source, lost, mistaken, cache, question, now>>

Miss(q) ==
  /\ pc[q] = "looking"
  /\ ~Usable(q)
  /\ Goto(q, "asking")
  /\ UNCHANGED <<clock, source, lost, mistaken, cache, question, now, answer>>

SourceAnswers(q) ==
  /\ pc[q] = "asking"
  /\ answer' = [answer EXCEPT ![q] = source[question[q]]]
  /\ Goto(q, "storing")
  /\ UNCHANGED <<clock, source, lost, mistaken, cache, question, now>>

\* The source answers with what it does not hold.
SourceErrs(q) ==
  /\ pc[q] = "asking"
  /\ \E v \in Mistakes :
       /\ answer' = [answer EXCEPT ![q] = v]
       /\ mistaken' = [mistaken EXCEPT ![question[q]][v] = clock]
  /\ Goto(q, "storing")
  /\ UNCHANGED <<clock, source, lost, cache, question, now>>

\* Mutant: an error is kept like an answer.
BugSourceFails(q) ==
  /\ pc[q] = "asking"
  /\ answer' = [answer EXCEPT ![q] = None]
  /\ Goto(q, "storing")
  /\ UNCHANGED <<clock, source, lost, mistaken, cache, question, now>>

\* An error is returned and the cache left alone.
SourceFails(q) ==
  /\ pc[q] = "asking"
  /\ Return(q, None)
  /\ UNCHANGED <<clock, source, lost, mistaken, cache, question, now>>

\* Mutant: the entry's life is counted from the moment it is stored.
BugExpiry(q) == clock + TTL

\* now.Add(ttl): the entry's life is counted from before the source was asked.
Expiry(q) == now[q] + TTL

Store(q) ==
  /\ pc[q] = "storing"
  /\ cache' = [cache EXCEPT ![KeyOf(q)] = [value |-> answer[q], expiresAt |-> Expiry(q)]]
  /\ Goto(q, "idle")
  /\ UNCHANGED <<clock, source, lost, mistaken, question, now, answer>>

Invalidate ==
  /\ cache' = [k \in Keys |-> None]
  /\ UNCHANGED <<clock, source, lost, mistaken, pc, question, now, answer>>

-----------------------------------------------------------------------------
\* An administrator grants or revokes something.
SourceChanges ==
  /\ \E k \in Questions, v \in Values :
       /\ v # source[k]
       /\ source' = [source EXCEPT ![k] = v]
       /\ lost' = [lost EXCEPT ![k][source[k]] = clock]
  /\ UNCHANGED <<clock, mistaken, cache, pc, question, now, answer>>

Tick ==
  /\ clock < MaxTime
  /\ clock' = clock + 1
  /\ UNCHANGED <<source, lost, mistaken, cache, pc, question, now, answer>>

Next ==
  \/ \E q \in Queries : \/ Load(q) \/ Hit(q) \/ Miss(q)
                        \/ SourceAnswers(q) \/ SourceErrs(q) \/ SourceFails(q) \/ Store(q)
  \/ Invalidate
  \/ SourceChanges
  \/ Tick

Spec == Init /\ [][Next]_cacheVars

-----------------------------------------------------------------------------
(* Properties.                                                             *)

\* What a query answers was the source's own answer at some moment later than TTL
\* before the query was made, whichever queries overtook it, whoever stored the
\* entry, and however long the source took; it answered this question or another one
\* whose answers are kept under the same key, and by mistake only if it is one of Mistakes.
BoundedStaleness ==
  [][\A q \in Queries :
       pc[q] # "idle" /\ pc'[q] = "idle" /\ answer'[q] # None =>
         \E k \in Questions :
           CacheKey[k] = KeyOf(q) /\ LastSaid(k, answer'[q]) > now[q] - TTL]_cacheVars
=============================================================================
