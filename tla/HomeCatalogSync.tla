--------------------------- MODULE HomeCatalogSync --------------------------
(***************************************************************************)
(* HomeCatalogSyncController: the home page's settings of a user's profile *)
(* on the server.                                                          *)
(*                                                                         *)
(* A settings object has keys this client writes, one value here, and keys *)
(* of other clients, which are kept as they came: foreign names the user    *)
(* and profile they belong to, or None.  An answer without settings is the *)
(* empty object.  The answer of the server is read when it arrives.        *)
(***************************************************************************)
EXTENDS Naturals

CONSTANTS Profiles, Users, CatalogValues, None

VARIABLES
    profile,
    user,           \* AuthService::userId, None when signed out
    prefs,          \* HomeCatalogSettingsStore, of each profile
    settingsJson,   \* the server's object, of each user and profile
    catalogRequest, catalogDebounce,
    pullComplete,   \* m_pullCompleteUser and m_pullCompleteProfile
    cachedRemote    \* m_cachedRemote, None until there is one

catalogVars == <<user, prefs, settingsJson, catalogRequest, catalogDebounce,
                 pullComplete, cachedRemote>>
vars == <<profile, catalogVars>>

Owners == Users \X Profiles

Object == [foreign : Owners \cup {None}, value : CatalogValues \cup {None}]

EmptyObject == [foreign |-> None, value |-> None]

NoRequest == [call |-> "none"]

Request == {NoRequest} \cup [call : {"pull"}, of : Owners]
                       \cup [call : {"push"}, of : Owners, object : Object]

TypeOK ==
    /\ profile \in Profiles /\ user \in Users \cup {None}
    /\ prefs \in [Profiles -> CatalogValues]
    /\ settingsJson \in [Owners -> Object]
    /\ catalogRequest \in Request /\ catalogDebounce \in BOOLEAN
    /\ pullComplete \in Owners \cup {None}
    /\ cachedRemote \in Object \cup {None}

Owner == <<user, profile>>

Init ==
    /\ profile \in Profiles /\ user \in Users \cup {None}
    /\ \E v \in CatalogValues : prefs = [p \in Profiles |-> v]
    /\ settingsJson \in [Owners -> {EmptyObject}
                            \cup [foreign : Owners, value : CatalogValues]]
    /\ \A o \in Owners : settingsJson[o].foreign \in {o, None}
    /\ catalogRequest = IF user = None THEN NoRequest ELSE [call |-> "pull", of |-> Owner]
    /\ catalogDebounce = FALSE
    /\ pullComplete = None /\ cachedRemote = None

PullTokenReady == user # None /\ pullComplete = Owner

-----------------------------------------------------------------------------

\* prefsChanged of HomeShelves, which onLocalCatalogChanged hears of.
EditPrefs(v) ==
    /\ v # prefs[profile]
    /\ prefs' = [prefs EXCEPT ![profile] = v]
    /\ catalogDebounce' = (catalogDebounce \/ PullTokenReady)
    /\ UNCHANGED <<profile, user, settingsJson, catalogRequest, pullComplete,
                   cachedRemote>>

\* The shelves hear of the new profile first, so that their signal still
\* meets the old profile's token.
SwitchProfile(p) ==
    /\ p # profile
    /\ profile' = p
    /\ catalogDebounce' = (catalogDebounce \/ PullTokenReady)
    /\ UNCHANGED <<user, prefs, settingsJson, catalogRequest, pullComplete,
                   cachedRemote>>

\* stateChanged: a session that becomes active pulls, if nothing is open.
ChangeUser(u) ==
    /\ u # user
    /\ user' = u
    /\ catalogRequest' = IF u # None /\ catalogRequest = NoRequest
                         THEN [call |-> "pull", of |-> <<u, profile>>]
                         ELSE catalogRequest
    /\ UNCHANGED <<profile, prefs, settingsJson, catalogDebounce, pullComplete,
                   cachedRemote>>

\* mergeSyncJson: local keys replace remote ones, the others stay.
Merge(remote, value) == [foreign |-> remote.foreign, value |-> value]

Base == IF cachedRemote = None THEN EmptyObject ELSE cachedRemote

\* Mutant of MayPush: the token of whatever was pulled last will do.
MayPushAnyToken == user # None /\ pullComplete # None

MayPush == PullTokenReady

PushNow ==
    /\ catalogDebounce
    /\ catalogDebounce' = FALSE
    /\ catalogRequest' =
          IF catalogRequest = NoRequest /\ MayPush
          THEN [call |-> "push", of |-> Owner, object |-> Merge(Base, prefs[profile])]
          ELSE catalogRequest
    /\ UNCHANGED <<profile, user, prefs, settingsJson, pullComplete, cachedRemote>>

PushReply(ok) ==
    /\ catalogRequest.call = "push"
    /\ catalogRequest' = NoRequest
    /\ settingsJson' \in
          {[settingsJson EXCEPT ![catalogRequest.of] = catalogRequest.object]}
          \cup IF ok THEN {} ELSE {settingsJson}
    /\ cachedRemote' = IF ok /\ catalogRequest.of = Owner THEN catalogRequest.object
                       ELSE cachedRemote
    /\ UNCHANGED <<profile, user, prefs, catalogDebounce, pullComplete>>

PullFails ==
    /\ catalogRequest.call = "pull"
    /\ catalogRequest' = NoRequest
    /\ UNCHANGED <<profile, user, prefs, settingsJson, catalogDebounce,
                   pullComplete, cachedRemote>>

\* applySyncedPayload writes to the profile the shelves show now; the signal
\* is not heard while m_applyRemote is set.
PullReply ==
    /\ catalogRequest.call = "pull"
    /\ catalogRequest' = NoRequest
    /\ LET remote == settingsJson[catalogRequest.of]
       IN  /\ cachedRemote' = remote
           /\ prefs' = IF remote.value = None THEN prefs
                       ELSE [prefs EXCEPT ![profile] = remote.value]
    /\ pullComplete' = catalogRequest.of
    /\ UNCHANGED <<profile, user, settingsJson, catalogDebounce>>

-----------------------------------------------------------------------------
Next == \/ \E v \in CatalogValues : EditPrefs(v)
        \/ \E p \in Profiles : SwitchProfile(p)
        \/ \E u \in Users \cup {None} : ChangeUser(u)
        \/ PushNow
        \/ \E ok \in BOOLEAN : PushReply(ok)
        \/ PullReply \/ PullFails

Spec == Init /\ [][Next]_vars

-----------------------------------------------------------------------------
(* Properties. *)

\* The keys of other clients that a push sends back are those that were
\* pulled for the same user and the same profile, whatever was switched
\* between the pull, the edit, the debounce and the answer.
KeysReturnToTheirOwner ==
    \A o \in Owners : settingsJson[o].foreign \in {o, None}
=============================================================================
