------------------------------ MODULE JwksCache ------------------------------
(***************************************************************************)
(* KeycloakJWTAuthenticator (authentication/authentication.go): tokens are *)
(* verified with the realm's signing keys, fetched as a JWKS document and  *)
(* kept for CacheTTL.  A kid that is not among the kept keys, or a cache   *)
(* that has expired, makes the verification fetch the document itself,     *)
(* with no lock held: fetches of concurrent verifications overlap, an      *)
(* older document may be stored over a newer one, and the realm rotates    *)
(* its keys meanwhile.                                                     *)
(***************************************************************************)
EXTENDS Integers

CONSTANTS
  Verifiers,   \* goroutines inside Authenticate
  Kids,        \* key ids
  TTL,         \* KeycloakJWTConfig.CacheTTL
  Timeout,     \* HTTPClient.Timeout
  MaxTime      \* bound of the clock

ASSUME KeyTTLAssumption == TTL \in Nat \ {0}
ASSUME TimeoutAssumption == Timeout \in Nat
ASSUME KeyTimeAssumption == MaxTime \in Nat

VARIABLES
  clock,       \* config.Now()
  published,   \* the realm's signing keys
  gone,        \* gone[k]: the last moment k was published before it was withdrawn
  keys,        \* a.keys
  expiry,      \* a.expiry
  pc,          \* where each verification is
  kid,         \* the kid of the token it verifies
  now,         \* when it began
  fetched      \* the usable keys of the document it received

jwksVars == <<clock, published, gone, keys, expiry, pc, kid, now, fetched>>

\* Long before the program started.
Never == -TTL - Timeout - 1

LastPublished(k) == IF k \in published THEN clock ELSE gone[k]

Stages == {"accepted", "rejected", "looking", "requesting", "receiving", "rereading", "verifying"}

TypeOK ==
  /\ clock \in 0..MaxTime
  /\ published \subseteq Kids
  /\ gone \in [Kids -> Never..MaxTime]
  /\ keys \subseteq Kids
  /\ expiry \in 0..(MaxTime + TTL)
  /\ pc \in [Verifiers -> Stages]
  /\ kid \in [Verifiers -> Kids]
  /\ now \in [Verifiers -> 0..MaxTime]
  /\ fetched \in [Verifiers -> SUBSET Kids]

Init ==
  /\ clock = 0
  /\ published \in SUBSET Kids
  /\ gone = [k \in Kids |-> Never]
  /\ keys = {}
  /\ expiry = 0
  /\ pc = [v \in Verifiers |-> "rejected"]
  /\ \E k \in Kids : kid = [v \in Verifiers |-> k]
  /\ now = [v \in Verifiers |-> 0]
  /\ fetched = [v \in Verifiers |-> {}]

Goto(v, stage) == pc' = [pc EXCEPT ![v] = stage]
Done(v) == pc[v] \in {"accepted", "rejected"}

-----------------------------------------------------------------------------
\* Authenticate: the token is malformed, or not RS256 with a kid.
Malformed(v) ==
  /\ Done(v)
  /\ Goto(v, "rejected")
  /\ UNCHANGED <<clock, published, gone, keys, expiry, kid, now, fetched>>

\* publicKey begins, and reads the clock.
PublicKey(v) ==
  /\ Done(v)
  /\ \E k \in Kids : kid' = [kid EXCEPT ![v] = k]
  /\ now' = [now EXCEPT ![v] = clock]
  /\ Goto(v, "looking")
  /\ UNCHANGED <<clock, published, gone, keys, expiry, fetched>>

\* Mutant: a key once known is good for ever.
BugKept(v) == kid[v] \in keys

\* key != nil && fresh
Kept(v) == kid[v] \in keys /\ now[v] < expiry

KeyKept(v) ==
  /\ pc[v] = "looking"
  /\ Kept(v)
  /\ Goto(v, "verifying")
  /\ UNCHANGED <<clock, published, gone, keys, expiry, kid, now, fetched>>

\* refreshKeys sends its request; `now` becomes the moment it does.
RefreshKeys(v) ==
  /\ pc[v] = "looking"
  /\ ~Kept(v)
  /\ now' = [now EXCEPT ![v] = clock]
  /\ Goto(v, "requesting")
  /\ UNCHANGED <<clock, published, gone, keys, expiry, kid, fetched>>

\* The realm answers with the keys it publishes at that moment.
JwksServed(v) ==
  /\ pc[v] = "requesting"
  /\ fetched' = [fetched EXCEPT ![v] = published]
  /\ Goto(v, "receiving")
  /\ UNCHANGED <<clock, published, gone, keys, expiry, kid, now>>

\* No URL, no connection, a timeout, a status other than 200, an undecodable
\* document, or one without usable RS256 keys; the kept keys stay as they are.
RefreshFails(v) ==
  /\ pc[v] \in {"requesting", "receiving"}
  /\ Goto(v, "rejected")
  /\ UNCHANGED <<clock, published, gone, keys, expiry, kid, now, fetched>>

\* Mutant: the keys' life is counted from the latest moment the answer could come.
BugExpiry == clock + Timeout + TTL

\* a.now().Add(a.config.CacheTTL), once the document is decoded.
Expiry == clock + TTL

\* Mutant: a cache that another verification refreshed meanwhile is left alone.
BugStoreKeys(v) ==
  /\ pc[v] = "receiving"
  /\ fetched[v] # {}
  /\ clock - now[v] <= Timeout
  /\ keys' = IF clock < expiry THEN keys ELSE fetched[v]
  /\ expiry' = Expiry
  /\ Goto(v, "rereading")
  /\ UNCHANGED <<clock, published, gone, kid, now, fetched>>

\* The document has arrived within the client's timeout and replaces the keys,
\* whatever was stored since it was served.
StoreKeys(v) ==
  /\ pc[v] = "receiving"
  /\ fetched[v] # {}
  /\ clock - now[v] <= Timeout
  /\ keys' = fetched[v]
  /\ expiry' = Expiry
  /\ Goto(v, "rereading")
  /\ UNCHANGED <<clock, published, gone, kid, now, fetched>>

\* The keys are read again: another verification may have replaced them.
KeyFound(v) ==
  /\ pc[v] = "rereading"
  /\ kid[v] \in keys
  /\ Goto(v, "verifying")
  /\ UNCHANGED <<clock, published, gone, keys, expiry, kid, now, fetched>>

KeyNotFound(v) ==
  /\ pc[v] = "rereading"
  /\ kid[v] \notin keys
  /\ Goto(v, "rejected")
  /\ UNCHANGED <<clock, published, gone, keys, expiry, kid, now, fetched>>

\* The signature and the claims are checked; neither touches the cache.
Verified(v) ==
  /\ pc[v] = "verifying"
  /\ \E stage \in {"accepted", "rejected"} : Goto(v, stage)
  /\ UNCHANGED <<clock, published, gone, keys, expiry, kid, now, fetched>>

-----------------------------------------------------------------------------
\* The realm publishes new keys and withdraws old ones.
Rotate ==
  /\ \E new \in SUBSET Kids :
       /\ new # published
       /\ published' = new
       /\ gone' = [k \in Kids |-> IF k \in published \ new THEN clock ELSE gone[k]]
  /\ UNCHANGED <<clock, keys, expiry, pc, kid, now, fetched>>

Tick ==
  /\ clock < MaxTime
  /\ clock' = clock + 1
  /\ UNCHANGED <<published, gone, keys, expiry, pc, kid, now, fetched>>

Step(v) ==
  \/ KeyKept(v) \/ RefreshKeys(v) \/ JwksServed(v) \/ RefreshFails(v)
  \/ StoreKeys(v) \/ KeyFound(v) \/ KeyNotFound(v) \/ Verified(v)

Next ==
  \/ \E v \in Verifiers : Malformed(v) \/ PublicKey(v) \/ Step(v)
  \/ Rotate
  \/ Tick

Spec == Init /\ [][Next]_jwksVars

\* A verification under way goes on until it is decided: the HTTP client's timeout
\* ends a fetch that the realm does not answer.
FairSpec == Spec /\ \A v \in Verifiers : WF_jwksVars(Step(v))

-----------------------------------------------------------------------------
(* Properties.                                                             *)

\* A token is verified only with a key that the realm still published less than
\* TTL + Timeout before the verification began or later, whoever stored it and
\* however the fetches overlapped.
KeyRecentlyPublished ==
  [][\A v \in Verifiers :
       pc[v] # "verifying" /\ pc'[v] = "verifying" =>
         LastPublished(kid[v]) > now[v] - TTL - Timeout]_jwksVars

\* A rotation heals: once a key stays published, tokens signed with it sooner or
\* later stop being rejected for an unknown kid, though documents served before
\* the rotation may at first be stored over newer ones.
RotationHeals ==
  \A k \in Kids :
    <>[](k \in published) =>
      <>[][\A v \in Verifiers : kid[v] = k => ~KeyNotFound(v)]_jwksVars
=============================================================================
