----------------------------- MODULE Application -----------------------------
(***************************************************************************)
(* Application.Execute: a process is a server or an access command.  The   *)
(* two share no state, the server does not read the manifest, so a run has *)
(* either the life of one server process, or any number of commands on one *)
(* manifest and one Keycloak, with the releases they are built from.       *)
(***************************************************************************)
EXTENDS KeycloakSync, Bootstrap

VARIABLE command        \* what the program's arguments ask for

vars == <<command, manifestVars, syncVars, bootVars>>

Init ==
    /\ command \in {"serve", "access"}
    /\ ManifestInit /\ SyncInit /\ BootInit

Serve ==
    /\ command = "serve" /\ BootNext
    /\ UNCHANGED <<command, manifestVars, syncVars>>

Access ==
    /\ command = "access"
    /\ \/ ManifestNext /\ UNCHANGED syncVars
       \/ SyncNext
    /\ UNCHANGED <<command, bootVars>>

Next == Serve \/ Access

Spec == Init /\ [][Next]_vars
=============================================================================
