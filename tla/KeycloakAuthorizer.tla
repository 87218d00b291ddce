------------------------- MODULE KeycloakAuthorizer --------------------------
(***************************************************************************)
(* KeycloakUMAAccessAuthorizer (access/keycloak_authorizer.go): a decision *)
(* is asked of Keycloak's token endpoint for a user, a token and an access *)
(* group, and kept like the answers of AccessCache, whose cache it shares  *)
(* the shape of.  Values is BOOLEAN: a value is a decision.  A question is *)
(* (user, token, group); CacheKey replaces the token by tokenFingerprint,  *)
(* its first and last eight characters, which two tokens can have in       *)
(* common.  HasAccess answers some questions without a decision.  A        *)
(* response of the endpoint, or of whatever answers in its place, is read  *)
(* as a grant, a denial or an error; Mistakes is {FALSE}, since some       *)
(* responses are read as denials that Keycloak never pronounced.           *)
(***************************************************************************)
EXTENDS AccessCache

\* What Keycloak says to a question whose true answer is `permitted`.
Answers(permitted) ==
  IF permitted THEN {"200 result true"} ELSE {"200 result false", "403", "400 access_denied"}

\* What can come back whatever the true answer is: a proxy's or a filter's 403, an error
\* document that says access_denied or not_authorized, JSON without a `result`.
LikeDenials == {"403 of another", "error access_denied", "200 without result"}
Errors == {"400 other", "500", "200 undecodable", "no response"}

Responses(permitted) == Answers(permitted) \cup LikeDenials \cup Errors

\* Mutant: any answer that is not a success is taken for a denial.
BugDecision(response) ==
  CASE response = "200 result true" -> TRUE
    [] response = "200 undecodable" -> None
    [] OTHER -> FALSE

\* requestDecision: None is an error, which HasAccess passes on.  Any 403 is a denial,
\* a missing `result` is FALSE, and the body of any other status may say it is one.
Decision(response) ==
  CASE response = "200 result true" -> TRUE
    [] response \in Answers(FALSE) \cup LikeDenials -> FALSE
    [] OTHER -> None

\* HasAccess without a decision: no group to check, a claim of the user's token
\* that names the group, or no bearer token to ask Keycloak with.
HasAccessDirect(q) ==
  /\ pc[q] = "idle"
  /\ \E granted \in BOOLEAN : answer' = [answer EXCEPT ![q] = granted]
  /\ UNCHANGED <<clock, source, lost, mistaken, cache, pc, question, now>>

\* HasAccess reaches decision, which looks the key up.
DecisionBegins(q) == Load(q)
DecisionCached(q) == Hit(q) \/ Miss(q)

RequestDecision(q) ==
  /\ pc[q] = "asking"
  /\ \E response \in Responses(source[question[q]]) :
       LET decision == Decision(response) IN
       /\ answer' = [answer EXCEPT ![q] = decision]
       /\ mistaken' = IF response \in LikeDenials
                      THEN [mistaken EXCEPT ![question[q]][FALSE] = clock]
                      ELSE mistaken
       /\ Goto(q, IF decision = None THEN "idle" ELSE "storing")
  /\ UNCHANGED <<clock, source, lost, cache, question, now>>

DecisionStored(q) == Store(q)

UMANext ==
  \/ \E q \in Queries : \/ HasAccessDirect(q) \/ DecisionBegins(q) \/ DecisionCached(q)
                        \/ RequestDecision(q) \/ DecisionStored(q)
  \/ Invalidate
  \/ SourceChanges
  \/ Tick

UMASpec == Init /\ [][UMANext]_cacheVars
=============================================================================
