---------------------------- MODULE SessionSync ----------------------------
(***************************************************************************)
(* AuthService and ProgressSyncController as src/app/main.cpp wires them:  *)
(* the controller's token provider reads accessToken(), and a listener of  *)
(* stateChanged starts the first pulls when a session becomes active.      *)
(*                                                                         *)
(* The listener holds a reference to a local variable (initialSyncFired)   *)
(* of a block that has been left when it runs, so what it reads there is   *)
(* any value.                                                              *)
(***************************************************************************)
EXTENDS ProgressSync, AuthSession

sessionVars == <<vars, authVars>>

SessionInit ==
    /\ Init
    /\ AuthInit

\* A session became active in this step, with a token.
Activated == ~active /\ active' /\ held'.access # Nobody

\* fullSyncThenDeltas and then fullWatchedSyncThenDeltas: the first takes the
\* slot, so that the second returns at its guard.
StartupPulls ==
    \/ UNCHANGED slotVars
    \/ inFlight = 0 /\ BeginPull

\* The session changes; the controller sees the token of AuthService.
SessionChanges ==
    /\ AuthUser \/ AuthNetwork
    /\ signedIn' = (held'.access # Nobody)
    /\ IF Activated THEN StartupPulls ELSE UNCHANGED slotVars
    /\ UNCHANGED <<profile, armed, accum, clock>>
    /\ UNCHANGED storeVars

\* The process ends, possibly while it stores an identity, and starts again.
\* The pulls of the startup code find no token.
ProcessEnds == AuthEnds /\ Restart

Syncs ==
    /\ \/ Local
       \/ Reply
       \/ \E f \in Files : DebounceFires(f)
       \/ \E p \in Profiles : SwitchProfile(p)
    /\ UNCHANGED authVars

SessionNext == SessionChanges \/ ProcessEnds \/ Syncs

SessionSpec ==
    /\ SessionInit
    /\ [][SessionNext]_sessionVars
    /\ WF_sessionVars(Reply /\ UNCHANGED authVars)
    /\ \A f \in Files : WF_sessionVars(DebounceFires(f) /\ UNCHANGED authVars)

-----------------------------------------------------------------------------
(* Properties. *)

\* The controllers may talk to the server exactly while there is a token, and
\* there is none while the user is signed out: what the controller takes for a
\* session is a session.
PermissionIsSession ==
    /\ signedIn = (held.access # Nobody)
    /\ signedIn => active
=============================================================================
