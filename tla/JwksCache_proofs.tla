--------------------------- MODULE JwksCache_proofs ---------------------------
(***************************************************************************)
(* Every signing key a verification uses was published recently, for any   *)
(* number of verifications and kids and any TTL and timeout.               *)
(***************************************************************************)
EXTENDS JwksCache, TLAPS

\* The local `now` of a verification and the moment a key was withdrawn are past.
PastTimes ==
  /\ \A v \in Verifiers : now[v] <= clock
  /\ \A k \in Kids : gone[k] <= clock

\* The kept keys were stored TTL before they expire, and served Timeout earlier at most.
KeptRecently ==
  /\ expiry <= clock + TTL
  /\ \A k \in keys : LastPublished(k) >= expiry - TTL - Timeout

\* A received document was served after it was asked for; a verification that reads
\* the keys again finds them fresh.
FetchedRecently ==
  \A v \in Verifiers :
    /\ pc[v] = "receiving" => \A k \in fetched[v] : LastPublished(k) >= now[v]
    /\ pc[v] = "rereading" => now[v] < expiry

KeysInv == TypeOK /\ PastTimes /\ KeptRecently /\ FetchedRecently

LEMMA KeysInit == Init => KeysInv
<1> SUFFICES ASSUME Init PROVE KeysInv
  OBVIOUS
<1> USE KeyTTLAssumption, TimeoutAssumption, KeyTimeAssumption
<1>1. TypeOK
  BY DEF Init, TypeOK, Never, Stages
<1>2. PastTimes /\ KeptRecently /\ FetchedRecently
  BY DEF Init, PastTimes, KeptRecently, FetchedRecently, Never
<1> QED
  BY <1>1, <1>2 DEF KeysInv

\* The type invariant, one step for each kind of action.
LEMMA KeysTypes == TypeOK /\ [Next]_jwksVars => TypeOK'
<1> SUFFICES ASSUME TypeOK, [Next]_jwksVars PROVE TypeOK'
  OBVIOUS
<1> USE KeyTTLAssumption, TimeoutAssumption, KeyTimeAssumption
<1>1. ASSUME NEW v \in Verifiers, Malformed(v) \/ KeyKept(v) \/ RefreshFails(v)
                                  \/ KeyFound(v) \/ KeyNotFound(v) \/ Verified(v)
      PROVE  TypeOK'
  BY <1>1 DEF TypeOK, Malformed, KeyKept, RefreshFails, KeyFound, KeyNotFound, Verified,
              Goto, Stages
<1>2. ASSUME NEW v \in Verifiers, PublicKey(v) PROVE TypeOK'
  BY <1>2 DEF TypeOK, PublicKey, Goto, Stages
<1>3. ASSUME NEW v \in Verifiers, RefreshKeys(v) PROVE TypeOK'
  BY <1>3 DEF TypeOK, RefreshKeys, Goto, Stages
<1>4. ASSUME NEW v \in Verifiers, JwksServed(v) PROVE TypeOK'
  BY <1>4 DEF TypeOK, JwksServed, Goto, Stages
<1>5. ASSUME NEW v \in Verifiers, StoreKeys(v) PROVE TypeOK'
  BY <1>5 DEF TypeOK, StoreKeys, Goto, Stages, Expiry
<1>6. CASE Rotate
  BY <1>6 DEF TypeOK, Rotate, Never
<1>7. CASE Tick
  BY <1>7 DEF TypeOK, Tick
<1>8. CASE UNCHANGED jwksVars
  BY <1>8 DEF TypeOK, jwksVars
<1> QED
  BY <1>1, <1>2, <1>3, <1>4, <1>5, <1>6, <1>7, <1>8 DEF Next, Step

\* A key's last publication only moves forward.
LEMMA PublicationsMoveOn ==
  ASSUME TypeOK, PastTimes, [Next]_jwksVars, NEW k \in Kids
  PROVE  /\ LastPublished(k) \in Int /\ LastPublished(k)' \in Int
         /\ LastPublished(k)' >= LastPublished(k)
<1> USE KeyTTLAssumption, TimeoutAssumption, KeyTimeAssumption
<1>0. gone[k] \in Int /\ clock \in Int /\ gone[k] <= clock
  BY DEF TypeOK, PastTimes, Never
<1>1. CASE Rotate
  BY <1>0, <1>1 DEF Rotate, LastPublished, TypeOK
<1>2. CASE Tick
  BY <1>0, <1>2 DEF Tick, LastPublished
<1>3. CASE UNCHANGED <<clock, published, gone>>
  BY <1>0, <1>3 DEF LastPublished
<1>4. Rotate \/ Tick \/ UNCHANGED <<clock, published, gone>>
  BY DEF Next, Step, jwksVars, Malformed, PublicKey, KeyKept, RefreshKeys, JwksServed,
         RefreshFails, StoreKeys, KeyFound, KeyNotFound, Verified
<1> QED
  BY <1>1, <1>2, <1>3, <1>4

LEMMA KeysPast == TypeOK /\ PastTimes /\ [Next]_jwksVars => PastTimes'
<1> SUFFICES ASSUME TypeOK, PastTimes, [Next]_jwksVars PROVE PastTimes'
  OBVIOUS
<1> USE KeyTTLAssumption, TimeoutAssumption, KeyTimeAssumption
<1>0. /\ clock \in Int
      /\ \A v \in Verifiers : now[v] \in Int /\ now[v] <= clock
      /\ \A k \in Kids : gone[k] \in Int /\ gone[k] <= clock
  BY DEF TypeOK, PastTimes, Never
<1>1. ASSUME NEW v \in Verifiers, PublicKey(v) \/ RefreshKeys(v) PROVE PastTimes'
  BY <1>0, <1>1 DEF PastTimes, PublicKey, RefreshKeys, TypeOK
<1>2. CASE Rotate
  BY <1>0, <1>2 DEF PastTimes, Rotate
<1>3. CASE Tick
  BY <1>0, <1>3 DEF PastTimes, Tick
<1>4. CASE UNCHANGED <<clock, gone, now>>
  BY <1>0, <1>4 DEF PastTimes
<1> QED
  BY <1>1, <1>2, <1>3, <1>4
     DEF Next, Step, jwksVars, Malformed, KeyKept, JwksServed, RefreshFails, StoreKeys,
         KeyFound, KeyNotFound, Verified

LEMMA SumGrows ==
  ASSUME NEW a \in Int, NEW b \in Int, NEW c \in Int, NEW d \in Int, a <= b + d, b <= c
  PROVE  a <= c + d
OBVIOUS

\* What is stored was served at most Timeout ago and expires TTL from now.
LEMMA KeysKept == KeysInv /\ [Next]_jwksVars => KeptRecently'
<1> SUFFICES ASSUME KeysInv, [Next]_jwksVars PROVE KeptRecently'
  OBVIOUS
<1> USE KeyTTLAssumption, TimeoutAssumption, KeyTimeAssumption
<1>0. /\ TypeOK /\ PastTimes /\ KeptRecently /\ FetchedRecently
      /\ clock \in Int /\ expiry \in Int /\ clock' \in Int /\ clock <= clock'
  <2>1. TypeOK /\ TypeOK'
    BY KeysTypes DEF KeysInv
  <2>2. clock' = clock \/ clock' = clock + 1
    BY DEF Next, Step, jwksVars, Malformed, PublicKey, KeyKept, RefreshKeys, JwksServed,
           RefreshFails, StoreKeys, KeyFound, KeyNotFound, Verified, Rotate, Tick
  <2> QED
    BY <2>1, <2>2 DEF KeysInv, TypeOK
<1>1. \A k \in Kids : LastPublished(k)' >= LastPublished(k)
                      /\ LastPublished(k) \in Int /\ LastPublished(k)' \in Int
  BY <1>0, PublicationsMoveOn
<1>2. ASSUME NEW v \in Verifiers, StoreKeys(v) PROVE KeptRecently'
  <2>1. /\ keys' = fetched[v] /\ expiry' = clock + TTL /\ clock' = clock
        /\ clock - now[v] <= Timeout /\ pc[v] = "receiving"
    BY <1>2 DEF StoreKeys, Expiry
  <2>2. fetched[v] \subseteq Kids /\ now[v] \in Int
    BY <1>0 DEF TypeOK
  <2>3. \A k \in fetched[v] : LastPublished(k) >= now[v]
    BY <1>0, <2>1 DEF FetchedRecently
  <2>4. \A k \in keys' : LastPublished(k)' >= expiry' - TTL - Timeout
    BY <1>0, <1>1, <2>1, <2>2, <2>3
  <2> QED
    BY <1>0, <2>1, <2>4 DEF KeptRecently
<1>3. CASE UNCHANGED <<keys, expiry>>
  <2>1. \A k \in keys : LastPublished(k) >= expiry - TTL - Timeout /\ k \in Kids
    BY <1>0 DEF KeptRecently, TypeOK
  <2>2. \A k \in keys' : LastPublished(k)' >= expiry' - TTL - Timeout
    BY <1>0, <1>1, <1>3, <2>1
  <2>3. expiry <= clock + TTL
    BY <1>0 DEF KeptRecently
  <2>4. /\ clock \in Int /\ clock' \in Int /\ clock <= clock' /\ TTL \in Int
        /\ expiry \in Int /\ expiry' = expiry
    BY <1>0, <1>3
  <2>5. expiry' <= clock' + TTL
    BY <2>3, <2>4, SumGrows
  <2> QED
    BY <2>2, <2>5 DEF KeptRecently
<1> QED
  BY <1>2, <1>3
     DEF Next, Step, jwksVars, Malformed, PublicKey, KeyKept, RefreshKeys, JwksServed,
         RefreshFails, KeyFound, KeyNotFound, Verified, Rotate, Tick

LEMMA KeysFetched == KeysInv /\ [Next]_jwksVars => FetchedRecently'
<1> SUFFICES ASSUME KeysInv, [Next]_jwksVars, NEW v \in Verifiers
             PROVE  /\ pc'[v] = "receiving" => \A k \in fetched'[v] : LastPublished(k)' >= now'[v]
                    /\ pc'[v] = "rereading" => now'[v] < expiry'
  BY DEF FetchedRecently
<1> USE KeyTTLAssumption, TimeoutAssumption, KeyTimeAssumption
<1>0. /\ TypeOK /\ PastTimes /\ KeptRecently /\ FetchedRecently
      /\ clock \in Int /\ expiry \in Int /\ now[v] \in Int /\ now[v] <= clock
      /\ expiry <= clock + TTL /\ fetched[v] \subseteq Kids
  BY DEF KeysInv, TypeOK, PastTimes, KeptRecently
<1>1. \A k \in Kids : LastPublished(k)' >= LastPublished(k)
                      /\ LastPublished(k) \in Int /\ LastPublished(k)' \in Int
  BY <1>0, PublicationsMoveOn
<1>2. ASSUME UNCHANGED <<pc[v], fetched[v], now[v]>>, expiry' >= expiry, expiry' \in Int
      PROVE  /\ pc'[v] = "receiving" => \A k \in fetched'[v] : LastPublished(k)' >= now'[v]
             /\ pc'[v] = "rereading" => now'[v] < expiry'
  <2>1. pc[v] = "receiving" => \A k \in fetched[v] : LastPublished(k) >= now[v]
    BY <1>0 DEF FetchedRecently
  <2>2. pc[v] = "rereading" => now[v] < expiry
    BY <1>0 DEF FetchedRecently
  <2>3. ASSUME pc'[v] = "receiving", NEW k \in fetched'[v] PROVE LastPublished(k)' >= now'[v]
    BY <1>0, <1>1, <1>2, <2>1, <2>3
  <2>4. ASSUME pc'[v] = "rereading" PROVE now'[v] < expiry'
    BY <1>0, <1>2, <2>2, <2>4
  <2> QED
    BY <2>3, <2>4
\* The goroutine's own step: its document holds what is published when it is served.
<1>3. CASE JwksServed(v)
  <2>1. /\ pc'[v] = "receiving" /\ fetched'[v] = published /\ now' = now
        /\ clock' = clock /\ published' = published
    BY <1>0, <1>3 DEF JwksServed, Goto, TypeOK
  <2> QED
    BY <1>0, <2>1 DEF LastPublished
<1>4. CASE StoreKeys(v)
  <2>1. pc'[v] = "rereading" /\ now' = now /\ expiry' = clock + TTL
    BY <1>0, <1>4 DEF StoreKeys, Expiry, Goto, TypeOK
  <2> QED
    BY <1>0, <2>1
<1>5. CASE pc'[v] \notin {"receiving", "rereading"}
  BY <1>5
<1>6. ASSUME NEW w \in Verifiers, w # v, StoreKeys(w)
      PROVE  UNCHANGED <<pc[v], fetched[v], now[v]>> /\ expiry' >= expiry /\ expiry' \in Int
  BY <1>0, <1>6 DEF StoreKeys, Expiry, Goto, TypeOK
<1>7. ASSUME NEW w \in Verifiers, w # v,
             Malformed(w) \/ PublicKey(w) \/ KeyKept(w) \/ RefreshKeys(w) \/ JwksServed(w)
             \/ RefreshFails(w) \/ KeyFound(w) \/ KeyNotFound(w) \/ Verified(w)
      PROVE  UNCHANGED <<pc[v], fetched[v], now[v]>> /\ expiry' >= expiry /\ expiry' \in Int
  BY <1>0, <1>7 DEF Malformed, PublicKey, KeyKept, RefreshKeys, JwksServed, RefreshFails,
                    KeyFound, KeyNotFound, Verified, Goto, TypeOK
<1>8. CASE Rotate \/ Tick \/ UNCHANGED jwksVars
  BY <1>0, <1>2, <1>8 DEF Rotate, Tick, jwksVars
<1>9. ASSUME Malformed(v) \/ PublicKey(v) \/ KeyKept(v) \/ RefreshKeys(v)
             \/ RefreshFails(v) \/ KeyFound(v) \/ KeyNotFound(v) \/ Verified(v)
      PROVE  pc'[v] \notin {"receiving", "rereading"}
  BY <1>0, <1>9 DEF Malformed, PublicKey, KeyKept, RefreshKeys, RefreshFails,
                    KeyFound, KeyNotFound, Verified, Goto, TypeOK
<1> QED
  BY <1>2, <1>3, <1>4, <1>5, <1>6, <1>7, <1>8, <1>9 DEF Next, Step

LEMMA KeysNext == KeysInv /\ [Next]_jwksVars => KeysInv'
BY KeysTypes, KeysPast, KeysKept, KeysFetched DEF KeysInv

LEMMA KeysInvariant == Spec => []KeysInv
BY KeysInit, KeysNext, PTL DEF Spec

\* Every variable of the key cache keeps its type.
THEOREM KeysTypeCorrect == Spec => []TypeOK
<1>1. KeysInv => TypeOK
  BY DEF KeysInv
<1> QED
  BY <1>1, KeysInvariant, PTL

\* A verification goes on with a key that was published less than TTL + Timeout before
\* it began, or later.
LEMMA RecentStep ==
  ASSUME KeysInv, [Next]_jwksVars, NEW v \in Verifiers,
         pc[v] # "verifying", pc'[v] = "verifying"
  PROVE  LastPublished(kid[v]) > now[v] - TTL - Timeout
<1> USE KeyTTLAssumption, TimeoutAssumption, KeyTimeAssumption
<1>0. /\ TypeOK /\ KeptRecently /\ FetchedRecently /\ PastTimes
      /\ kid[v] \in Kids /\ now[v] \in Int /\ expiry \in Int
  BY DEF KeysInv, TypeOK
<1>1. KeyKept(v) \/ KeyFound(v)
  <2>1. ASSUME NEW w \in Verifiers, w # v, Malformed(w) \/ PublicKey(w) \/ Step(w) PROVE FALSE
    BY <1>0, <2>1 DEF Step, Malformed, PublicKey, KeyKept, RefreshKeys, JwksServed, RefreshFails,
              StoreKeys, KeyFound, KeyNotFound, Verified, Goto, TypeOK
  <2>2. ASSUME Malformed(v) \/ PublicKey(v) \/ RefreshKeys(v) \/ JwksServed(v)
               \/ RefreshFails(v) \/ StoreKeys(v) \/ KeyNotFound(v) \/ Verified(v)
        PROVE  FALSE
    BY <1>0, <2>2 DEF Malformed, PublicKey, RefreshKeys, JwksServed, RefreshFails, StoreKeys,
              KeyNotFound, Verified, Goto, TypeOK
  <2>3. ~Rotate /\ ~Tick /\ ~UNCHANGED jwksVars
    BY DEF Rotate, Tick, jwksVars
  <2> QED
    BY <2>1, <2>2, <2>3 DEF Next, Step
<1>2. kid[v] \in keys /\ now[v] < expiry
  BY <1>0, <1>1 DEF KeyKept, Kept, KeyFound, FetchedRecently
<1>3. LastPublished(kid[v]) >= expiry - TTL - Timeout
  BY <1>0, <1>2 DEF KeptRecently
<1>4. LastPublished(kid[v]) \in Int
  BY <1>0, PublicationsMoveOn
<1> QED
  BY <1>0, <1>2, <1>3, <1>4

\* No token is verified with a key the realm withdrew long ago, however the fetches of
\* concurrent verifications overlap and whichever document is stored last.
THEOREM KeysRecent == Spec => KeyRecentlyPublished
<1>1. KeysInv /\ [Next]_jwksVars =>
        [\A v \in Verifiers :
           pc[v] # "verifying" /\ pc'[v] = "verifying" =>
             LastPublished(kid[v]) > now[v] - TTL - Timeout]_jwksVars
  BY RecentStep
<1> QED
  BY <1>1, KeysInvariant, PTL DEF Spec, KeyRecentlyPublished
=============================================================================
