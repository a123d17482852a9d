------------------------------ MODULE CredsSync -----------------------------
(***************************************************************************)
(* ProviderCredsController: the API keys of a profile, which the settings  *)
(* blob never carries.                                                     *)
(*                                                                         *)
(* A credential is a value or None, the empty string; all providers are    *)
(* alike.  A server row is Absent until a push or a seed has made it.  The *)
(* answer of the server is read when it arrives.                           *)
(***************************************************************************)
EXTENDS Naturals

CONSTANTS Profiles, Providers, Values, None

VARIABLES
    signedIn, profile,
    creds,              \* the local values, of each profile
    serverCreds,        \* the rows of each profile
    credsRequest, credsDebounce,
    baseline            \* m_baseline, None without m_hasBaseline

credsVars == <<creds, serverCreds, credsRequest, credsDebounce, baseline>>
vars == <<signedIn, profile, credsVars>>

Absent == "absent"

Snapshot == [Providers -> Values \cup {None}]

NoRequest == [call |-> "none"]

Request == {NoRequest} \cup
    [call : {"pull", "push", "seed"}, p : Profiles, snapshot : Snapshot]

TypeOK ==
    /\ signedIn \in BOOLEAN /\ profile \in Profiles
    /\ creds \in [Profiles -> Snapshot]
    /\ serverCreds \in [Profiles -> [Providers -> Values \cup {None, Absent}]]
    /\ credsRequest \in Request /\ credsDebounce \in BOOLEAN
    /\ baseline \in Snapshot \cup {None}

Empty == [c \in Providers |-> None]

Ask(call) == [call |-> call, p |-> profile, snapshot |-> creds[profile]]

Init ==
    /\ signedIn \in BOOLEAN /\ profile \in Profiles
    /\ creds = [p \in Profiles |-> Empty]
    /\ \E row \in Values \cup {Absent} :
          serverCreds = [p \in Profiles |-> [c \in Providers |-> row]]
    /\ credsDebounce = FALSE
    /\ credsRequest = IF signedIn THEN Ask("pull") ELSE NoRequest
    /\ baseline = IF signedIn THEN Empty ELSE None

-----------------------------------------------------------------------------

\* syncNow: what differs from the baseline is pushed, else the server is
\* asked, and what is here now becomes the baseline.
SyncNow ==
    IF ~signedIn' \/ credsRequest # NoRequest
    THEN UNCHANGED <<credsRequest, baseline>>
    ELSE IF baseline # None /\ creds[profile] # baseline
    THEN credsRequest' = Ask("push") /\ UNCHANGED baseline
    ELSE credsRequest' = Ask("pull") /\ baseline' = creds[profile]

DebounceFires ==
    /\ credsDebounce
    /\ credsDebounce' = FALSE
    /\ UNCHANGED <<signedIn, profile, creds, serverCreds>>
    /\ SyncNow

\* onLocalCredsChanged.
Changed == credsDebounce' = (credsDebounce \/ signedIn)

Edit(c, v) ==
    /\ v # creds[profile][c]
    /\ creds' = [creds EXCEPT ![profile][c] = v]
    /\ Changed
    /\ UNCHANGED <<signedIn, profile, serverCreds, credsRequest, baseline>>

\* The settings of the new profile say changed; the baseline is the old one's.
SwitchProfile(p) ==
    /\ p # profile
    /\ profile' = p
    /\ Changed
    /\ UNCHANGED <<signedIn, creds, serverCreds, credsRequest, baseline>>

\* stateChanged: a session that becomes active runs a cycle.
SignInOrOut ==
    /\ signedIn' = ~signedIn
    /\ UNCHANGED <<profile, creds, serverCreds, credsDebounce>>
    /\ SyncNow

-----------------------------------------------------------------------------
(* The answers. *)

\* pushSnapshot's, and that of a seed, which only fills absent rows.
Stored(ok) ==
    /\ credsRequest.call \in {"push", "seed"}
    /\ credsRequest' = NoRequest
    /\ LET p == credsRequest.p
           written == [serverCreds EXCEPT ![p] =
                          [c \in Providers |->
                              IF credsRequest.call = "seed" /\ @[c] # Absent THEN @[c]
                              ELSE credsRequest.snapshot[c]]]
       IN  serverCreds' \in {written} \cup IF ok THEN {} ELSE {serverCreds}
    /\ baseline' = IF ok THEN credsRequest.snapshot ELSE baseline
    /\ UNCHANGED <<signedIn, profile, creds, credsDebounce>>

PullFails ==
    /\ credsRequest.call = "pull"
    /\ credsRequest' = NoRequest
    /\ UNCHANGED <<signedIn, profile, creds, serverCreds, credsDebounce, baseline>>

\* An empty server is given the values the pull started from.
Seeds ==
    /\ credsRequest.call = "pull"
    /\ \A c \in Providers : serverCreds[credsRequest.p][c] = Absent
    /\ credsRequest.snapshot # Empty
    /\ credsRequest' = [credsRequest EXCEPT !.call = "seed", !.p = profile]
    /\ UNCHANGED <<signedIn, profile, creds, serverCreds, credsDebounce, baseline>>

\* Remote wins per provider.  What is compared, and kept where the server has
\* no row, is the snapshot the pull started from; what is set is the value of
\* the profile that is active now.
Merges ==
    /\ credsRequest.call = "pull"
    /\ \/ \E c \in Providers : serverCreds[credsRequest.p][c] # Absent
       \/ credsRequest.snapshot = Empty
    /\ LET local == credsRequest.snapshot
           row == serverCreds[credsRequest.p]
           merged == [c \in Providers |-> IF row[c] = Absent THEN local[c] ELSE row[c]]
           set == [creds EXCEPT ![profile] =
                      [c \in Providers |-> IF merged[c] # local[c] THEN merged[c] ELSE @[c]]]
       IN  /\ creds' = set
           /\ baseline' = merged
           /\ credsDebounce' = (credsDebounce \/ (signedIn /\ set # creds))
    /\ credsRequest' = NoRequest
    /\ UNCHANGED <<signedIn, profile, serverCreds>>

\* Another client stores a key.
OtherClient(p, c, v) ==
    /\ serverCreds' = [serverCreds EXCEPT ![p][c] = v]
    /\ UNCHANGED <<signedIn, profile, creds, credsRequest, credsDebounce, baseline>>

-----------------------------------------------------------------------------
User == \/ \E c \in Providers, v \in Values \cup {None} : Edit(c, v)
        \/ \E p \in Profiles : SwitchProfile(p)
        \/ SignInOrOut

Replies == \/ \E ok \in BOOLEAN : Stored(ok)
           \/ PullFails \/ Seeds \/ Merges

Next == \/ User \/ DebounceFires \/ Replies
        \/ \E p \in Profiles, c \in Providers, v \in Values : OtherClient(p, c, v)

Spec == Init /\ [][Next]_vars
=============================================================================
