---------------------------- MODULE SettingsSync ----------------------------
(***************************************************************************)
(* SyncOrchestrator: a profile's settings as one blob on the server.       *)
(*                                                                         *)
(* A blob has three features: player stands for the settings this client   *)
(* owns (player, debrid, notifications, TMDB, MDBList), each exported       *)
(* fresh and applied through its own object; cw is the continue-watching   *)
(* string; rest stands for the features only other clients own, which are  *)
(* cached as received, and names the profile whose they are.  A value is   *)
(* opaque, None is an absent one.  The server keeps the blob pushed last,  *)
(* the stricter of the two semantics SyncOrchestrator.h allows for; its    *)
(* answer is read when it arrives.                                         *)
(***************************************************************************)
EXTENDS Naturals

CONSTANTS Profiles, Values, None

VARIABLES
    signedIn,
    profile,        \* the active profile: ActiveProfile::id and m_profileId
    player, cw,     \* of each profile, as stored
    rest,           \* BlobPassthroughStore
    server,         \* the blob of each profile on the server
    request,        \* what m_inFlight waits for
    pullAttempted, debounce,
    lastPushSig, skipNextSig

settingsVars == <<player, cw, rest, server, request, pullAttempted, debounce,
                  lastPushSig, skipNextSig>>
vars == <<signedIn, profile, settingsVars>>

Feature == Values \cup {None}

Owned == Profiles \cup {None}

Blob == [player : Feature, cw : Feature, rest : Owned]

EmptyBlob == [player |-> None, cw |-> None, rest |-> None]

Idle == [call |-> "none"]

Request == {Idle} \cup [call : {"pull"}, p : Profiles]
                  \cup [call : {"push"}, p : Profiles, blob : Blob]

TypeOK ==
    /\ signedIn \in BOOLEAN /\ profile \in Profiles
    /\ player \in [Profiles -> Feature] /\ cw \in [Profiles -> Feature]
    /\ rest \in [Profiles -> Owned] /\ server \in [Profiles -> Blob]
    /\ request \in Request
    /\ pullAttempted \in BOOLEAN /\ debounce \in BOOLEAN
    /\ lastPushSig \in Blob \cup {None} /\ skipNextSig \in Blob \cup {None}

\* main: the only pull is that of the startup.
PullNow ==
    IF signedIn THEN [call |-> "pull", p |-> profile] ELSE Idle

Init ==
    /\ signedIn \in BOOLEAN /\ profile \in Profiles
    /\ player = [p \in Profiles |-> None] /\ cw = player /\ rest = player
    \* Another client has saved its features of all profiles, or of none.
    /\ server \in {[p \in Profiles |-> EmptyBlob]} \cup
                 {[p \in Profiles |-> [player |-> None, cw |-> v, rest |-> p]] : v \in Values}
    /\ request = PullNow
    /\ pullAttempted = ~signedIn
    /\ debounce = FALSE
    /\ lastPushSig = None /\ skipNextSig = None

\* Mutant of FullPushBlob: the fresh features only.
FreshBlob == [player |-> player[profile], cw |-> cw[profile], rest |-> None]

FullPushBlob ==
    [player |-> player[profile], cw |-> cw[profile], rest |-> rest[profile]]

\* schedulePush, when the request that is open is r.
SchedulePush(r, attempted) == debounce' = (debounce \/ (r = Idle /\ attempted))

-----------------------------------------------------------------------------
(* The user, with the signals of the settings and of the recorder. *)

EditPlayer(v) ==
    /\ v # player[profile]
    /\ player' = [player EXCEPT ![profile] = v]
    /\ SchedulePush(request, pullAttempted)
    /\ UNCHANGED <<signedIn, profile, cw, rest, server, request,
                   pullAttempted, lastPushSig, skipNextSig>>

EditCw(v) ==
    /\ v # cw[profile]
    /\ cw' = [cw EXCEPT ![profile] = v]
    /\ SchedulePush(request, pullAttempted)
    /\ UNCHANGED <<signedIn, profile, player, rest, server, request,
                   pullAttempted, lastPushSig, skipNextSig>>

\* setProfileId: nothing is pulled for the new profile.
SwitchProfile(p) ==
    /\ p # profile
    /\ profile' = p
    /\ UNCHANGED <<signedIn, settingsVars>>

SignInOrOut == signedIn' = ~signedIn /\ UNCHANGED <<profile, settingsVars>>

Restart ==
    /\ request' = PullNow
    /\ pullAttempted' = ~signedIn
    /\ debounce' = FALSE
    /\ lastPushSig' = None /\ skipNextSig' = None
    /\ UNCHANGED <<signedIn, profile, player, cw, rest, server>>

-----------------------------------------------------------------------------
(* The debounce timer. *)

Suppressed(blob) == blob = skipNextSig \/ blob = lastPushSig

DoPush ==
    /\ debounce
    /\ debounce' = FALSE
    /\ IF signedIn /\ request = Idle /\ pullAttempted /\ ~Suppressed(FullPushBlob)
       THEN /\ request' = [call |-> "push", p |-> profile, blob |-> FullPushBlob]
            /\ UNCHANGED skipNextSig
       ELSE /\ skipNextSig' = IF signedIn /\ request = Idle /\ pullAttempted
                                 /\ FullPushBlob = skipNextSig
                              THEN None ELSE skipNextSig
            /\ UNCHANGED request
    /\ UNCHANGED <<signedIn, profile, player, cw, rest, server, pullAttempted,
                   lastPushSig>>

-----------------------------------------------------------------------------
(* The answers. *)

PushReply(ok) ==
    /\ request.call = "push"
    /\ request' = Idle
    /\ server' \in {[server EXCEPT ![request.p] = request.blob]} \cup
                   IF ok THEN {} ELSE {server}
    /\ lastPushSig' = IF ok THEN request.blob ELSE lastPushSig
    /\ UNCHANGED <<signedIn, profile, player, cw, rest, pullAttempted, debounce,
                   skipNextSig>>

PullFails ==
    /\ request.call = "pull"
    /\ request' = Idle /\ pullAttempted' = TRUE
    /\ UNCHANGED <<signedIn, profile, player, cw, rest, server, debounce,
                   lastPushSig, skipNextSig>>

Present(new, old) == IF new = None THEN old ELSE new

\* The passthrough cache and the settings objects are those of the profile
\* that is active now; the continue-watching store is that of the pull.
PullReply ==
    /\ request.call = "pull"
    /\ request' = Idle /\ pullAttempted' = TRUE
    /\ UNCHANGED <<signedIn, profile, server, lastPushSig>>
    /\ LET b == server[request.p]
           newCw == Present(b.cw, cw[request.p])
           newPlayer == Present(b.player, player[profile])
           applied == newCw # cw[request.p] \/ newPlayer # player[profile]
       IN  /\ rest' = [rest EXCEPT ![profile] = Present(b.rest, @)]
           /\ cw' = [cw EXCEPT ![request.p] = newCw]
           /\ player' = [player EXCEPT ![profile] = newPlayer]
           /\ IF newCw # cw[request.p] /\ request.p = profile
              THEN SchedulePush(Idle, TRUE)
              ELSE UNCHANGED debounce
           /\ skipNextSig' = IF applied THEN FullPushBlob' ELSE skipNextSig

\* Another client saves its features.
OtherClient(p, v) ==
    /\ server' = [server EXCEPT ![p] = [player |-> v, cw |-> v, rest |-> p]]
    /\ UNCHANGED <<signedIn, profile, player, cw, rest, request, pullAttempted,
                   debounce, lastPushSig, skipNextSig>>

-----------------------------------------------------------------------------
User == \/ \E v \in Values : EditPlayer(v) \/ EditCw(v)
        \/ \E p \in Profiles : SwitchProfile(p)
        \/ SignInOrOut
        \/ Restart

Replies == \/ PullReply \/ PullFails
           \/ \E ok \in BOOLEAN : PushReply(ok)

Next == \/ User \/ DoPush \/ Replies
        \/ \E p \in Profiles, v \in Values : OtherClient(p, v)

Spec == Init /\ [][Next]_vars

-----------------------------------------------------------------------------
(* Properties. *)

\* What this client has received of other clients goes back with every push: a
\* push that drops it from a profile's blob is one of a client that has never
\* received it, over switches, restarts and failed pulls.
SendsBack ==
    \A p \in Profiles :
        server[p].rest # None /\ server'[p].rest = None => rest[p] = None

ReceivedIsSentBack == [][SendsBack]_vars
=============================================================================
