------------------------- MODULE AccessCache_proofs --------------------------
(***************************************************************************)
(* Bounded staleness of AccessCache, for any number of queries, questions, *)
(* keys and values, any TTL and any interleaving of queries, changes and   *)
(* mistakes of the source, and invalidations; then of KeycloakAuthorizer,  *)
(* whose values are decisions: a request for a decision yields what        *)
(* Keycloak decides at that moment, a response that looks like a denial,   *)
(* or an error, so the bound carries over.                                 *)
(***************************************************************************)
EXTENDS KeycloakAuthorizer, TLAPS

\* The source could answer some question kept under c with v at the moment t or later.
SaidSince(c, v, t) == \E k \in Questions : CacheKey[k] = c /\ LastSaid(k, v) >= t

\* An entry was the source's answer no earlier than TTL before it expires.
EntriesAge ==
  \A c \in Keys : cache[c] # None => SaidSince(c, cache[c].value, cache[c].expiresAt - TTL)

\* An answer on its way to the cache was the source's after the query began.
AnswersAge ==
  \A q \in Queries :
    /\ now[q] <= clock
    /\ pc[q] = "storing" => answer[q] \in Values /\ LastSaid(question[q], answer[q]) >= now[q]

\* No history is ahead of the clock.
HistoryPast == \A k \in Questions, v \in Values : lost[k][v] <= clock /\ mistaken[k][v] <= clock

CacheInv == TypeOK /\ EntriesAge /\ AnswersAge /\ HistoryPast

LEMMA CacheInit == Init => CacheInv
<1> SUFFICES ASSUME Init PROVE CacheInv
  OBVIOUS
<1>1. 0 \in 0..MaxTime /\ Never \in Never..MaxTime /\ Never <= 0
  BY CacheTTLAssumption, CacheTimeAssumption DEF Never
<1>2. TypeOK
  BY <1>1 DEF Init, TypeOK
<1>3. EntriesAge /\ AnswersAge /\ HistoryPast
  BY <1>1 DEF Init, EntriesAge, AnswersAge, HistoryPast
<1> QED BY <1>2, <1>3 DEF CacheInv

\* A value's last moment as the source's answer never moves back.
LEMMA LastSaidGrows ==
  ASSUME CacheInv, [Next]_cacheVars, NEW k \in Questions, NEW v \in Values
  PROVE  /\ LastSaid(k, v) \in Int /\ LastSaid(k, v)' \in Int
         /\ LastSaid(k, v) <= LastSaid(k, v)'
<1> USE CacheTTLAssumption, CacheTimeAssumption
        DEF CacheInv, TypeOK, LastHeld, LastSaid, HistoryPast, Never
<1> DEFINE Grows == /\ LastSaid(k, v) \in Int /\ LastSaid(k, v)' \in Int
                    /\ LastSaid(k, v) <= LastSaid(k, v)'
<1>1. ASSUME UNCHANGED <<source, lost, mistaken>>, clock' \in {clock, clock + 1}
      PROVE  Grows
  BY <1>1
<1>2. CASE SourceChanges
  <2>1. PICK j \in Questions, w \in Values :
          source' = [source EXCEPT ![j] = w] /\ lost' = [lost EXCEPT ![j][source[j]] = clock]
    BY <1>2 DEF SourceChanges
  <2>2. clock' = clock /\ mistaken' = mistaken
    BY <1>2 DEF SourceChanges
  <2>3. LastHeld(k, v) \in Int /\ LastHeld(k, v)' \in Int /\ LastHeld(k, v) <= LastHeld(k, v)'
    BY <2>1, <2>2
  <2> QED BY <2>2, <2>3
<1>3. CASE Invalidate \/ Tick \/ UNCHANGED cacheVars
  BY <1>1, <1>3 DEF Invalidate, Tick, cacheVars
<1>4. ASSUME NEW q \in Queries, SourceErrs(q) PROVE Grows
  <2>1. PICK w \in Mistakes : mistaken' = [mistaken EXCEPT ![question[q]][w] = clock]
    BY <1>4 DEF SourceErrs
  <2>2. UNCHANGED <<clock, source, lost>>
    BY <1>4 DEF SourceErrs
  <2>3. mistaken[k][v] \in Int /\ mistaken[k][v] <= clock
    OBVIOUS
  <2>4. mistaken'[k][v] \in {mistaken[k][v], clock}
    BY <2>1
  <2> QED BY <2>2, <2>3, <2>4
<1>5. ASSUME NEW q \in Queries,
             Load(q) \/ Hit(q) \/ Miss(q) \/ SourceAnswers(q) \/ SourceFails(q) \/ Store(q)
      PROVE  UNCHANGED <<source, lost, mistaken, clock>>
  BY <1>5 DEF Load, Hit, Miss, SourceAnswers, SourceFails, Store
<1> QED BY <1>1, <1>2, <1>3, <1>4, <1>5 DEF Next

LEMMA SaidStays ==
  ASSUME CacheInv, [Next]_cacheVars, NEW c \in Keys, NEW v \in Values, NEW t \in Int,
         SaidSince(c, v, t)
  PROVE  SaidSince(c, v, t)'
<1>1. PICK k \in Questions : CacheKey[k] = c /\ LastSaid(k, v) >= t
  BY DEF SaidSince
<1>2. LastSaid(k, v)' >= t
  BY <1>1, LastSaidGrows
<1> QED BY <1>1, <1>2 DEF SaidSince

LEMMA CacheTypeNext ==
  ASSUME CacheInv, [Next]_cacheVars
  PROVE  TypeOK'
<1> USE CacheTTLAssumption, CacheTimeAssumption, CacheKeyAssumption DEF CacheInv, TypeOK, KeyOf
<1>1. ASSUME NEW q \in Queries, Load(q) PROVE TypeOK'
  BY <1>1 DEF Load, Goto
<1>2. ASSUME NEW q \in Queries, Hit(q) PROVE TypeOK'
  <2>1. cache[KeyOf(q)] \in Entry
    BY <1>2 DEF Hit, Usable
  <2>2. cache[KeyOf(q)].value \in Values
    BY <2>1 DEF Entry
  <2> QED BY <1>2, <2>2 DEF Hit, Return, Goto
<1>3. ASSUME NEW q \in Queries, Miss(q) \/ SourceAnswers(q) \/ SourceErrs(q) \/ SourceFails(q) PROVE TypeOK'
  <2>1. CASE Miss(q)
    BY <2>1 DEF Miss, Goto
  <2>2. CASE SourceAnswers(q)
    BY <2>2 DEF SourceAnswers, Goto
  <2>3. CASE SourceFails(q)
    BY <2>3 DEF SourceFails, Return, Goto
  <2>4. CASE SourceErrs(q)
    BY <2>4, MistakesAssumption DEF SourceErrs, Goto, Never
  <2> QED BY <1>3, <2>1, <2>2, <2>3, <2>4
<1>4. ASSUME NEW q \in Queries, Store(q) PROVE TypeOK'
  <2>1. [value |-> answer[q], expiresAt |-> Expiry(q)] \in Entry
    BY <1>4 DEF Store, AnswersAge, Entry, Expiry
  <2> QED BY <1>4, <2>1 DEF Store, Goto
<1>5. CASE Invalidate
  BY <1>5 DEF Invalidate
<1>6. CASE SourceChanges
  <2>1. PICK k \in Questions, v \in Values :
          source' = [source EXCEPT ![k] = v] /\ lost' = [lost EXCEPT ![k][source[k]] = clock]
    BY <1>6 DEF SourceChanges
  <2>2. lost' \in [Questions -> [Values -> Never..MaxTime]]
    BY <2>1 DEF Never
  <2> QED BY <1>6, <2>1, <2>2 DEF SourceChanges
<1>7. CASE Tick
  BY <1>7 DEF Tick
<1>8. CASE UNCHANGED cacheVars
  BY <1>8 DEF cacheVars
<1> QED BY <1>1, <1>2, <1>3, <1>4, <1>5, <1>6, <1>7, <1>8 DEF Next

LEMMA EntriesNext ==
  ASSUME CacheInv, [Next]_cacheVars
  PROVE  EntriesAge'
<1> SUFFICES ASSUME NEW c \in Keys, cache'[c] # None
             PROVE  SaidSince(c, cache[c].value, cache[c].expiresAt - TTL)'
  BY DEF EntriesAge
<1>1. CASE cache'[c] = cache[c]
  <2>1. cache[c] \in Entry
    BY <1>1 DEF CacheInv, TypeOK
  <2>2. cache[c].expiresAt - TTL \in Int
    BY <2>1, CacheTTLAssumption, CacheTimeAssumption DEF Entry
  <2>3. PICK v \in Values, t \in Int : v = cache[c].value /\ t = cache[c].expiresAt - TTL
    BY <2>1, <2>2 DEF Entry
  <2>4. SaidSince(c, v, t)
    BY <1>1, <2>3 DEF CacheInv, EntriesAge
  <2>5. SaidSince(c, v, t)'
    BY <2>4, SaidStays
  <2> QED BY <1>1, <2>3, <2>5 DEF SaidSince, LastSaid, LastHeld
<1>2. ASSUME NEW q \in Queries, Store(q), KeyOf(q) = c
      PROVE  SaidSince(c, cache[c].value, cache[c].expiresAt - TTL)'
  <2>1. cache'[c] = [value |-> answer[q], expiresAt |-> now[q] + TTL]
    BY <1>2 DEF Store, Expiry, CacheInv, TypeOK
  <2>2. answer[q] \in Values /\ LastSaid(question[q], answer[q]) >= now[q]
    BY <1>2 DEF Store, CacheInv, AnswersAge
  <2>3. UNCHANGED <<clock, source, lost, mistaken>>
    BY <1>2 DEF Store
  <2>4. question[q] \in Questions /\ CacheKey[question[q]] = c
    BY <1>2 DEF CacheInv, TypeOK, KeyOf
  <2>5. now[q] \in Int
    BY CacheTimeAssumption DEF CacheInv, TypeOK
  <2>6. cache'[c].expiresAt - TTL = now[q] /\ cache'[c].value = answer[q]
    BY <2>1, <2>5, CacheTTLAssumption
  <2>7. SaidSince(c, answer[q], now[q])
    BY <2>2, <2>4 DEF SaidSince
  <2> QED BY <2>3, <2>6, <2>7 DEF SaidSince, LastSaid, LastHeld
<1>3. cache'[c] = cache[c] \/ \E q \in Queries : Store(q) /\ KeyOf(q) = c
  <2>1. ASSUME NEW q \in Queries, Load(q) \/ Hit(q) \/ Miss(q) \/ SourceAnswers(q) \/ SourceErrs(q) \/ SourceFails(q)
        PROVE  cache' = cache
    BY <2>1 DEF Load, Hit, Miss, SourceAnswers, SourceErrs, SourceFails
  <2>2. ASSUME NEW q \in Queries, Store(q), KeyOf(q) # c PROVE cache'[c] = cache[c]
    BY <2>2 DEF Store, CacheInv, TypeOK
  <2>3. Invalidate => cache'[c] = None
    BY DEF Invalidate
  <2>4. SourceChanges \/ Tick \/ UNCHANGED cacheVars => cache' = cache
    BY DEF SourceChanges, Tick, cacheVars
  <2> QED BY <2>1, <2>2, <2>3, <2>4 DEF Next
<1> QED BY <1>1, <1>2, <1>3

LEMMA AnswersNext ==
  ASSUME CacheInv, [Next]_cacheVars
  PROVE  AnswersAge'
<1> SUFFICES ASSUME NEW q \in Queries
             PROVE  /\ now'[q] <= clock'
                    /\ pc'[q] = "storing" =>
                         answer'[q] \in Values /\ LastSaid(question[q], answer[q])' >= now'[q]
  BY DEF AnswersAge
<1> DEFINE Aged == /\ now'[q] <= clock'
                   /\ pc'[q] = "storing" =>
                        answer'[q] \in Values /\ LastSaid(question[q], answer[q])' >= now'[q]
<1> USE CacheTimeAssumption DEF CacheInv, TypeOK
<1>1. CASE /\ UNCHANGED <<pc[q], question[q], now[q], answer[q]>> /\ clock <= clock'
           /\ pc'[q] = pc[q] /\ question'[q] = question[q] /\ now'[q] = now[q] /\ answer'[q] = answer[q]
  <2>1. now[q] <= clock /\ now[q] \in Int /\ clock \in Int /\ clock' \in Int
    BY CacheTypeNext DEF AnswersAge
  <2>2. CASE pc[q] = "storing"
    <3>1. PICK v \in Values, k \in Questions : v = answer[q] /\ k = question[q]
      BY <2>2 DEF AnswersAge
    <3>2. LastSaid(k, v) >= now[q]
      BY <2>2, <3>1 DEF AnswersAge
    <3>3. LastSaid(k, v) \in Int /\ LastSaid(k, v)' \in Int /\ LastSaid(k, v) <= LastSaid(k, v)'
      BY LastSaidGrows
    <3>4. LastSaid(question[q], answer[q])' = LastSaid(k, v)'
      BY <1>1, <3>1 DEF LastSaid, LastHeld
    <3> QED BY <1>1, <2>1, <3>1, <3>2, <3>3, <3>4
  <2> QED BY <1>1, <2>1, <2>2
<1>2. ASSUME NEW p \in Queries, p # q,
             Load(p) \/ Hit(p) \/ Miss(p) \/ SourceAnswers(p) \/ SourceErrs(p) \/ SourceFails(p) \/ Store(p)
      PROVE  Aged
  BY <1>1, <1>2 DEF Load, Hit, Miss, SourceAnswers, SourceErrs, SourceFails, Store, Return, Goto
<1>3. ASSUME Load(q) \/ Hit(q) \/ Miss(q) \/ SourceFails(q) \/ Store(q) PROVE Aged
  <2>1. pc'[q] # "storing"
    BY <1>3 DEF Load, Hit, Miss, SourceFails, Store, Return, Goto
  <2>2. now'[q] <= clock'
    BY <1>3 DEF Load, Hit, Miss, SourceFails, Store, AnswersAge
  <2> QED BY <2>1, <2>2
<1>4. ASSUME SourceAnswers(q) PROVE Aged
  <2>1. answer'[q] = source[question[q]] /\ answer'[q] \in Values /\ clock \in Int /\ now[q] <= clock
    BY <1>4 DEF SourceAnswers, AnswersAge
  <2>2. UNCHANGED <<clock, source, lost, mistaken, question, now>>
    BY <1>4 DEF SourceAnswers
  <2>3. LastSaid(question[q], answer[q])' >= clock
    BY <2>1, <2>2, CacheTTLAssumption DEF LastSaid, LastHeld, Never
  <2>4. LastSaid(question[q], answer[q])' \in Int /\ now[q] \in Int
    BY <2>1, <2>2, CacheTTLAssumption DEF LastSaid, LastHeld, Never
  <2> QED BY <2>1, <2>2, <2>3, <2>4
<1>6. ASSUME SourceErrs(q) PROVE Aged
  <2>1. PICK v \in Mistakes : /\ answer' = [answer EXCEPT ![q] = v]
                              /\ mistaken' = [mistaken EXCEPT ![question[q]][v] = clock]
    BY <1>6 DEF SourceErrs
  <2>2. UNCHANGED <<clock, source, lost, question, now>>
    BY <1>6 DEF SourceErrs
  <2>3. /\ answer'[q] = v /\ v \in Values /\ mistaken'[question[q]][v] = clock
        /\ clock \in Int /\ now[q] \in Int /\ now[q] <= clock
    BY <2>1, MistakesAssumption DEF AnswersAge
  <2>4. LastSaid(question[q], v)' \in Int /\ LastSaid(question[q], v)' >= clock
    BY <2>2, <2>3, CacheTTLAssumption DEF LastSaid, LastHeld, Never
  <2>5. LastSaid(question[q], answer[q])' = LastSaid(question[q], v)'
    BY <2>3 DEF LastSaid, LastHeld
  <2> QED BY <2>2, <2>3, <2>4, <2>5
<1>5. CASE Invalidate \/ SourceChanges \/ Tick \/ UNCHANGED cacheVars
  <2>1. UNCHANGED <<pc, question, now, answer>> /\ clock <= clock'
    BY <1>5 DEF Invalidate, SourceChanges, Tick, cacheVars
  <2> QED BY <1>1, <2>1
<1> QED BY <1>2, <1>3, <1>4, <1>5, <1>6 DEF Next

LEMMA HistoryNext ==
  ASSUME CacheInv, [Next]_cacheVars
  PROVE  HistoryPast'
<1> USE CacheTTLAssumption, CacheTimeAssumption DEF CacheInv, TypeOK, HistoryPast, Never
<1>1. CASE SourceChanges
  BY <1>1 DEF SourceChanges
<1>2. CASE Invalidate \/ Tick \/ UNCHANGED cacheVars
  BY <1>2 DEF Invalidate, Tick, cacheVars
<1>3. ASSUME NEW q \in Queries, SourceErrs(q) PROVE HistoryPast'
  BY <1>3 DEF SourceErrs
<1>4. ASSUME NEW q \in Queries,
             Load(q) \/ Hit(q) \/ Miss(q) \/ SourceAnswers(q) \/ SourceFails(q) \/ Store(q)
      PROVE  UNCHANGED <<lost, mistaken, clock>>
  BY <1>4 DEF Load, Hit, Miss, SourceAnswers, SourceFails, Store
<1> QED BY <1>1, <1>2, <1>3, <1>4 DEF Next

\* The age of entries and of pending answers is an invariant of the cache.
THEOREM CacheInvariance == Spec => []CacheInv
<1>1. Init => CacheInv
  BY CacheInit
<1>2. CacheInv /\ [Next]_cacheVars => CacheInv'
  BY CacheTypeNext, EntriesNext, AnswersNext, HistoryNext DEF CacheInv
<1> QED BY <1>1, <1>2, PTL DEF Spec

\* Every variable keeps its type.
THEOREM CacheTypeCorrect == Spec => []TypeOK
<1>1. CacheInv => TypeOK
  BY DEF CacheInv
<1> QED BY <1>1, CacheInvariance, PTL

\* What BoundedStaleness says of the answer of one query.
Recent(q) ==
  \E k \in Questions : CacheKey[k] = KeyOf(q) /\ LastSaid(k, answer'[q]) > now[q] - TTL

LEMMA AnswersRecent ==
  ASSUME CacheInv, [Next]_cacheVars, NEW q \in Queries,
         pc[q] # "idle", pc'[q] = "idle", answer'[q] # None
  PROVE  Recent(q)
<1> USE CacheTTLAssumption, CacheTimeAssumption, CacheKeyAssumption DEF CacheInv, TypeOK
<1>1. question[q] \in Questions /\ KeyOf(q) \in Keys /\ now[q] \in Int
  BY DEF KeyOf
<1>2. CASE Hit(q)
  <2>1. cache[KeyOf(q)] # None /\ now[q] < cache[KeyOf(q)].expiresAt /\ answer'[q] = cache[KeyOf(q)].value
    BY <1>2 DEF Hit, Usable, Return
  <2>2. answer'[q] \in Values /\ cache[KeyOf(q)].expiresAt \in Int
    BY <1>1, <2>1 DEF Entry
  <2>3. SaidSince(KeyOf(q), answer'[q], cache[KeyOf(q)].expiresAt - TTL)
    <3> DEFINE e == cache[KeyOf(q)]
    <3>1. SaidSince(KeyOf(q), e.value, e.expiresAt - TTL)
      BY <1>1, <2>1 DEF EntriesAge
    <3> QED BY <2>1, <3>1
  <2>4. PICK k \in Questions :
          CacheKey[k] = KeyOf(q) /\ LastSaid(k, answer'[q]) >= cache[KeyOf(q)].expiresAt - TTL
    BY <2>3 DEF SaidSince
  <2>5. LastSaid(k, answer'[q]) \in Int
    BY <2>2, LastSaidGrows
  <2>6. LastSaid(k, answer'[q]) > now[q] - TTL
    BY <1>1, <2>1, <2>2, <2>4, <2>5
  <2> QED BY <2>4, <2>6 DEF Recent
<1>3. CASE Store(q)
  <2>1. answer'[q] = answer[q] /\ answer[q] \in Values /\ LastSaid(question[q], answer[q]) >= now[q]
    BY <1>3 DEF Store, AnswersAge
  <2>2. LastSaid(question[q], answer[q]) \in Int
    BY <1>1, <2>1, LastSaidGrows
  <2>3. LastSaid(question[q], answer'[q]) = LastSaid(question[q], answer[q])
    BY <2>1 DEF LastSaid, LastHeld
  <2> QED BY <1>1, <2>1, <2>2, <2>3 DEF Recent, KeyOf
<1>4. ~Load(q) /\ ~Miss(q) /\ ~SourceAnswers(q) /\ ~SourceErrs(q) /\ ~SourceFails(q)
  BY DEF Load, Miss, SourceAnswers, SourceErrs, SourceFails, Return, Goto
<1>5. ASSUME NEW p \in Queries, p # q,
             Load(p) \/ Hit(p) \/ Miss(p) \/ SourceAnswers(p) \/ SourceErrs(p) \/ SourceFails(p) \/ Store(p)
      PROVE  FALSE
  BY <1>5 DEF Load, Hit, Miss, SourceAnswers, SourceErrs, SourceFails, Store, Return, Goto
<1>6. ~Invalidate /\ ~SourceChanges /\ ~Tick /\ ~UNCHANGED cacheVars
  BY DEF Invalidate, SourceChanges, Tick, cacheVars
<1> QED BY <1>2, <1>3, <1>4, <1>5, <1>6 DEF Next

\* No query, however it is overtaken, answers with something the source had already
\* ceased to say TTL before the query began.
THEOREM StalenessBounded == Spec => BoundedStaleness
<1>1. CacheInv /\ [Next]_cacheVars =>
        [\A q \in Queries :
           pc[q] # "idle" /\ pc'[q] = "idle" /\ answer'[q] # None => Recent(q)]_cacheVars
  BY AnswersRecent
<1>2. CacheInv /\ [Next]_cacheVars =>
        [\A q \in Queries :
           pc[q] # "idle" /\ pc'[q] = "idle" /\ answer'[q] # None =>
             \E k \in Questions :
               CacheKey[k] = KeyOf(q) /\ LastSaid(k, answer'[q]) > now[q] - TTL]_cacheVars
  BY <1>1 DEF Recent
<1> QED BY <1>2, CacheInvariance, PTL DEF Spec, BoundedStaleness

-----------------------------------------------------------------------------
(* KeycloakAuthorizer.                                                     *)

\* Reading a response never turns an error into a decision, nor anything but Keycloak's
\* own grant into a grant: what is read is the true decision, an error, or a denial that
\* another response looks like.
LEMMA DecisionFaithful ==
  ASSUME NEW permitted \in BOOLEAN, NEW response \in Responses(permitted)
  PROVE  \/ response \notin LikeDenials /\ Decision(response) \in {permitted, None}
         \/ response \in LikeDenials /\ Decision(response) = FALSE
<1>1. CASE permitted
  BY <1>1 DEF Responses, Answers, LikeDenials, Errors, Decision
<1>2. CASE ~permitted
  BY <1>2 DEF Responses, Answers, LikeDenials, Errors, Decision
<1> QED BY <1>1, <1>2

\* What the values of this cache are.
Decisions == Values = BOOLEAN /\ Mistakes = {FALSE}

LEMMA RequestIsSourceStep ==
  ASSUME Decisions, TypeOK, NEW q \in Queries, RequestDecision(q)
  PROVE  SourceAnswers(q) \/ SourceErrs(q) \/ SourceFails(q)
<1>1. source[question[q]] \in BOOLEAN
  BY DEF TypeOK, Decisions
<1>2. PICK response \in Responses(source[question[q]]) :
        /\ answer' = [answer EXCEPT ![q] = Decision(response)]
        /\ mistaken' = IF response \in LikeDenials
                       THEN [mistaken EXCEPT ![question[q]][FALSE] = clock]
                       ELSE mistaken
        /\ Goto(q, IF Decision(response) = None THEN "idle" ELSE "storing")
  BY DEF RequestDecision
<1>3. None # FALSE
  BY NoEntryAssumption DEF Decisions
<1>4. CASE response \in LikeDenials
  <2>1. Decision(response) = FALSE
    BY <1>1, <1>2, <1>4, DecisionFaithful
  <2> QED BY <1>2, <1>3, <1>4, <2>1 DEF RequestDecision, SourceErrs, Decisions
<1>5. CASE response \notin LikeDenials
  <2>1. Decision(response) \in {source[question[q]], None}
    BY <1>1, <1>2, <1>5, DecisionFaithful
  <2>2. CASE Decision(response) = None
    BY <1>2, <1>5, <2>2 DEF RequestDecision, SourceFails, Return
  <2>3. CASE Decision(response) # None
    BY <1>2, <1>5, <2>1, <2>3 DEF RequestDecision, SourceAnswers
  <2> QED BY <2>2, <2>3
<1> QED BY <1>4, <1>5

LEMMA UMAStep ==
  ASSUME Decisions, TypeOK, [UMANext]_cacheVars
  PROVE  [Next]_cacheVars \/ \E q \in Queries : HasAccessDirect(q)
<1>1. ASSUME NEW q \in Queries, DecisionBegins(q) \/ DecisionCached(q) \/ DecisionStored(q)
      PROVE  Next
  BY <1>1 DEF DecisionBegins, DecisionCached, DecisionStored, Next
<1>2. ASSUME NEW q \in Queries, RequestDecision(q) PROVE Next
  BY <1>2, RequestIsSourceStep DEF Next
<1> QED BY <1>1, <1>2 DEF UMANext, Next

LEMMA DirectKeepsInv ==
  ASSUME Decisions, CacheInv, NEW q \in Queries, HasAccessDirect(q)
  PROVE  CacheInv'
<1>1. TypeOK'
  BY DEF Decisions, CacheInv, TypeOK, HasAccessDirect
<1>2. UNCHANGED <<clock, source, lost, mistaken, cache, pc, question, now>> /\ pc[q] = "idle"
  BY DEF HasAccessDirect
<1>3. \A p \in Queries : p # q => answer'[p] = answer[p]
  BY DEF HasAccessDirect, CacheInv, TypeOK
<1>4. EntriesAge' /\ HistoryPast'
  BY <1>2 DEF CacheInv, EntriesAge, HistoryPast, SaidSince, LastSaid, LastHeld
<1>5. AnswersAge'
  BY <1>2, <1>3 DEF CacheInv, AnswersAge, LastSaid, LastHeld
<1> QED BY <1>1, <1>4, <1>5 DEF CacheInv

LEMMA UMAInvariance ==
  ASSUME Decisions
  PROVE  UMASpec => []CacheInv
<1>1. Init => CacheInv
  BY CacheInit
<1>2. CacheInv /\ [UMANext]_cacheVars => CacheInv'
  <2> SUFFICES ASSUME CacheInv, [UMANext]_cacheVars PROVE CacheInv'
    OBVIOUS
  <2>1. CASE [Next]_cacheVars
    BY <2>1, CacheTypeNext, EntriesNext, AnswersNext, HistoryNext DEF CacheInv
  <2> QED BY <2>1, UMAStep, DirectKeepsInv DEF CacheInv
<1> QED BY <1>1, <1>2, PTL DEF UMASpec

\* A grant that HasAccess takes from the cache or from Keycloak is one that Keycloak
\* itself would have given, for this token or one of the same fingerprint, less than TTL
\* before HasAccess was called, or later; a denial may also be a response of that time
\* that looks like one.
THEOREM DecisionsRecent ==
  ASSUME Values = BOOLEAN, Mistakes = {FALSE}
  PROVE  UMASpec => BoundedStaleness
<1>1. Decisions
  BY DEF Decisions
<1>2. CacheInv /\ [UMANext]_cacheVars =>
        [\A q \in Queries :
           pc[q] # "idle" /\ pc'[q] = "idle" /\ answer'[q] # None => Recent(q)]_cacheVars
  <2> SUFFICES ASSUME CacheInv, [UMANext]_cacheVars, NEW q \in Queries,
                      pc[q] # "idle", pc'[q] = "idle", answer'[q] # None
               PROVE  Recent(q)
    OBVIOUS
  <2>1. \A p \in Queries : ~HasAccessDirect(p)
    BY DEF HasAccessDirect
  <2> QED BY <1>1, <2>1, UMAStep, AnswersRecent DEF CacheInv
<1>3. CacheInv /\ [UMANext]_cacheVars =>
        [\A q \in Queries :
           pc[q] # "idle" /\ pc'[q] = "idle" /\ answer'[q] # None =>
             \E k \in Questions :
               CacheKey[k] = KeyOf(q) /\ LastSaid(k, answer'[q]) > now[q] - TTL]_cacheVars
  BY <1>2 DEF Recent
<1> QED BY <1>1, <1>3, UMAInvariance, PTL DEF UMASpec, BoundedStaleness
=============================================================================
