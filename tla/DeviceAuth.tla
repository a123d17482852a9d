----------------------------- MODULE DeviceAuth -----------------------------
(***************************************************************************)
(* TraktAuth, SimklAuth and DebridAuth: device codes and keys, asked for on *)
(* behalf of a profile and stored under the active one.                    *)
(*                                                                         *)
(* A key is the profile of the user who brought it.  m_tokens is what is    *)
(* stored for the active profile.  m_generation tells only whether a       *)
(* request belongs to the current flow, so a request carries that.  The     *)
(* three share nothing but the profile: service is the one looked at,      *)
(* "debrid" a provider of DebridAuth.  Client ids are set.                 *)
(***************************************************************************)
EXTENDS Naturals, FiniteSets

CONSTANTS Profiles, None,
          MaxAsked    \* bound on the requests and timers under way

Services == {"trakt", "simkl", "debrid"}

VARIABLES
    profile,        \* ActiveProfile and m_profileId
    service,
    keys,           \* of each profile
    flowActive, busy,
    asked           \* open requests and timers

authVars == <<service, keys, flowActive, busy, asked>>
vars == <<profile, authVars>>

Steps == {"start", "timer", "poll", "apiKey", "refresh"}

FlowSteps == {"start", "timer", "poll"}

Request == [step : Steps, by : Profiles, current : BOOLEAN]

TypeOK ==
    /\ profile \in Profiles /\ service \in Services
    /\ keys \in [Profiles -> Profiles \cup {None}]
    /\ flowActive \in BOOLEAN /\ busy \in BOOLEAN
    /\ asked \subseteq Request

Init ==
    /\ profile \in Profiles /\ service \in Services
    /\ keys = [p \in Profiles |-> None]
    /\ flowActive = FALSE /\ busy = FALSE /\ asked = {}

\* Mutant of Outdated: the generation stays as it is.
StillCurrent(rs) == rs

\* ++m_generation, over the requests rs.
Outdated(rs) ==
    {IF r.step \in FlowSteps THEN [r EXCEPT !.current = FALSE] ELSE r : r \in rs}

Ask(rs, step, by) ==
    /\ asked' = rs \cup {[step |-> step, by |-> by, current |-> TRUE]}
    /\ Cardinality(asked') <= MaxAsked

\* m_flowActive and setBusy.
Flow(active, isBusy) == flowActive' = active /\ busy' = isBusy

Store(key) == keys' = [keys EXCEPT ![profile] = key]

-----------------------------------------------------------------------------
(* What the user asks for. *)

\* startDeviceFlow and startPinFlow.
StartFlow ==
    /\ Ask(Outdated(asked), "start", profile)
    /\ Flow(TRUE, TRUE)
    /\ UNCHANGED <<profile, service, keys>>

\* cancelDeviceFlow and cancelPinFlow.
CancelFlow ==
    /\ asked' = Outdated(asked)
    /\ Flow(FALSE, FALSE)
    /\ UNCHANGED <<profile, service, keys>>

SignOut ==
    /\ asked' = Outdated(asked)
    /\ Flow(FALSE, FALSE)
    /\ Store(None)
    /\ UNCHANGED <<profile, service>>

\* authorizeWithApiKey, which joins no generation.
EnterKey ==
    /\ service = "debrid"
    /\ Ask(asked, "apiKey", profile)
    /\ Flow(flowActive, TRUE)
    /\ UNCHANGED <<profile, service, keys>>

\* bearerToken of a token that has expired: tryRefresh, unless Trakt is busy.
Refresh ==
    /\ service = "trakt" /\ keys[profile] # None /\ ~busy
    /\ Ask(asked, "refresh", keys[profile])
    /\ Flow(flowActive, TRUE)
    /\ UNCHANGED <<profile, service, keys>>

\* setProfileId.  loadForProfile of Trakt and Simkl ends the flow and leaves
\* m_busy; DebridAuth outdates its flow and leaves it active.
SwitchAccount(p) ==
    /\ p # profile
    /\ profile' = p
    /\ asked' = Outdated(asked)
    /\ Flow(flowActive /\ service = "debrid", busy)
    /\ UNCHANGED <<service, keys>>

-----------------------------------------------------------------------------
(* Answers and timers. *)

Ignored(r) == asked' = asked \ {r} /\ UNCHANGED <<keys, flowActive, busy>>

StartReply(r, good) ==
    /\ r.step = "start"
    /\ IF ~r.current THEN Ignored(r)
       ELSE /\ IF good THEN Ask(asked \ {r}, "timer", r.by) ELSE asked' = asked \ {r}
            /\ Flow(flowActive /\ good, FALSE)
            /\ UNCHANGED keys
    /\ UNCHANGED <<profile, service>>

\* The timer of pollDevice and pollPin.
PollTimer(r, expired) ==
    /\ r.step = "timer"
    /\ IF ~r.current \/ ~flowActive THEN Ignored(r)
       ELSE /\ IF expired THEN asked' = asked \ {r} /\ Flow(FALSE, FALSE)
               ELSE Ask(asked \ {r}, "poll", r.by) /\ UNCHANGED <<flowActive, busy>>
            /\ UNCHANGED keys
    /\ UNCHANGED <<profile, service>>

\* "lost" is a transport error or a status nobody expects: Debrid polls on,
\* the others stop polling and leave the flow active.
PollReply(r, answer) ==
    /\ r.step = "poll"
    /\ IF ~r.current \/ ~flowActive THEN Ignored(r)
       ELSE \/ /\ answer = "pending" \/ (answer = "lost" /\ service = "debrid")
               /\ Ask(asked \ {r}, "timer", r.by)
               /\ UNCHANGED <<keys, flowActive, busy>>
            \/ /\ answer = "lost" /\ service # "debrid"
               /\ asked' = asked \ {r}
               /\ Flow(TRUE, FALSE)
               /\ UNCHANGED keys
            \/ /\ answer \in {"denied", "granted"}
               /\ asked' = asked \ {r}
               /\ Flow(FALSE, FALSE)
               /\ IF answer = "granted" THEN Store(r.by) ELSE UNCHANGED keys
    /\ UNCHANGED <<profile, service>>

KeyReply(r, good) ==
    /\ r.step = "apiKey"
    /\ asked' = asked \ {r}
    /\ Flow(flowActive, FALSE)
    /\ IF good THEN Store(r.by) ELSE UNCHANGED keys
    /\ UNCHANGED <<profile, service>>

\* tryRefresh's handler asks neither for the generation nor for the profile.
RefreshReply(r, answer) ==
    /\ r.step = "refresh"
    /\ IF answer = "rejected"
       THEN asked' = Outdated(asked \ {r}) /\ Flow(FALSE, FALSE) /\ Store(None)
       ELSE /\ asked' = asked \ {r}
            /\ Flow(flowActive, FALSE)
            /\ IF answer = "renewed" THEN Store(r.by) ELSE UNCHANGED keys
    /\ UNCHANGED <<profile, service>>

-----------------------------------------------------------------------------
User == \/ StartFlow \/ CancelFlow \/ SignOut \/ EnterKey \/ Refresh
        \/ \E p \in Profiles : SwitchAccount(p)

Next == \/ User
        \/ \E r \in asked :
              \/ \E good \in BOOLEAN : StartReply(r, good) \/ KeyReply(r, good)
              \/ \E expired \in BOOLEAN : PollTimer(r, expired)
              \/ \E answer \in {"pending", "lost", "denied", "granted"} : PollReply(r, answer)
              \/ \E answer \in {"rejected", "failed", "renewed"} : RefreshReply(r, answer)

Spec == Init /\ [][Next]_vars

-----------------------------------------------------------------------------
(* Properties. *)

\* The generation of a flow, over starts, cancels and switches while its
\* replies and timers are under way: one flow polls at a time, and Simkl, whose
\* tokens come from nowhere else, holds for a profile what that profile asked.
FlowsKeepToThemselves ==
    /\ Cardinality({r \in asked : r.current /\ r.step \in FlowSteps}) <= 1
    /\ service = "simkl" => \A p \in Profiles : keys[p] \in {None, p}
=============================================================================
