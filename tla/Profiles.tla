------------------------------ MODULE Profiles ------------------------------
(***************************************************************************)
(* ProfileManager over ProfileStore and its SyncRpcClient: the profiles of  *)
(* an account, the active one and the requests that change them.           *)
(*                                                                         *)
(* Of a row the model keeps whether it has a PIN.  A row made of what is no *)
(* profile, a lock for one, has none.  Names, colours and locks are left    *)
(* out; a PIN may be right or wrong.  Other clients change the rows of the  *)
(* server at any time, so an answer holds any rows.                        *)
(*                                                                         *)
(* The manager reads two things of AuthService: the access token, without  *)
(* which it sends nothing, and the user id under which it keeps its file.  *)
(* A session restored from disk has the id and not the token.              *)
(***************************************************************************)
EXTENDS Naturals, Sequences, SequencesExt

CONSTANTS Users, None,
          kMaxProfiles,   \* 6 in the code
          MaxCalls        \* bound on the open requests

Indexes == 1..kMaxProfiles

Pins == {"none", "open", "pinned"}   \* of a row; "none": there is no row

VARIABLES
    session,        \* of AuthService
    m,              \* the members of ProfileManager, user is m_userId
    stored,         \* the payload of the profiles file
    pinCache,       \* the profiles that have a cached PIN
    boundTo,        \* the profile the objects of activeProfileChanged hold
    calls,          \* the open requests of the client, by name
    handlers        \* the functions connected to its finished signal

profileVars == <<session, m, stored, pinCache, boundTo, calls, handlers>>

Lists == [Indexes -> Pins]

Empty == [i \in Indexes |-> "none"]

Fns == {"pull", "locks", "push", "delete", "verify", "setPin", "clearPin"}

Handler == [fn : Fns, index : Indexes]

\* The user id and what there is of a session: none (the id is then of a sign-up
\* to be confirmed), one restored from disk without its token, or one with it.
Sessions == {s \in [user : Users \cup {None}, is : {"none", "restored", "token"}] :
                s.user = None => s.is = "none"}

NoSession == [user |-> None, is |-> "none"]

ManagerType == [user : Users \cup {None}, list : Lists, active : Indexes,
                verified : SUBSET Indexes]

StoredType == [user : Users \cup {None}, list : Lists, active : Indexes]

TypeOK ==
    /\ session \in Sessions
    /\ m \in ManagerType /\ stored \in StoredType
    /\ pinCache \subseteq Indexes /\ boundTo \in Indexes
    /\ calls \in Seq(Fns) /\ handlers \in Seq(Handler)

\* The payload of a file; another account's is not taken.
Loaded(user, file, verified) ==
    LET own == user = None \/ file.user \in {None, user}
    IN  [user |-> user, verified |-> verified,
         list |-> IF own THEN file.list ELSE Empty,
         active |-> IF own THEN file.active ELSE 1]

\* persist writes for an account only.
Written(member, file) ==
    IF member.user = None THEN file
    ELSE [user |-> member.user, list |-> member.list, active |-> member.active]

\* signedIn.
HasToken == session.is = "token"

\* A request and the function connected for it.
Sends(fn, i) ==
    /\ Len(calls) < MaxCalls
    /\ calls' = Append(calls, fn)
    /\ handlers' = Append(handlers, [fn |-> fn, index |-> i])

\* main.cpp: a session starts two pulls in a row.
StartUp ==
    LET fns == <<"pull", "locks">>
    IN  /\ calls' = calls \o fns
        /\ handlers' = handlers \o [k \in DOMAIN fns |-> [fn |-> fns[k], index |-> 1]]
        /\ Len(calls') <= MaxCalls

Init ==
    /\ session = NoSession
    /\ stored = [user |-> None, list |-> Empty, active |-> 1]
    /\ m = Loaded(None, stored, {})
    /\ pinCache = {} /\ boundTo = 1
    /\ calls = <<>> /\ handlers = <<>>

-----------------------------------------------------------------------------
(* The session and the program. *)

\* setAuthUserId moves ActiveProfile without activeProfileChanged.
Binds(user) ==
    m' = IF user = m.user THEN m
         ELSE IF user = None
         THEN [user |-> None, list |-> Empty, active |-> 1, verified |-> {}]
         ELSE Loaded(user, stored, m.verified)

\* stateChanged: a sign-out, a sign-up that has to be confirmed, or a session.
SessionChange(s) ==
    /\ \/ s = NoSession /\ session.is # "none"
       \/ s.is # "restored" /\ s.user # None /\ session.is = "none"
    /\ session' = s
    /\ Binds(s.user)
    /\ IF s.is = "token" THEN StartUp ELSE UNCHANGED <<calls, handlers>>
    /\ UNCHANGED <<stored, pinCache, boundTo>>

\* Another answer to the form while a session is active; nobody is told.
Regrant(user) ==
    /\ HasToken
    /\ session' = [session EXCEPT !.user = user]
    /\ UNCHANGED <<m, stored, pinCache, boundTo, calls, handlers>>

\* The objects are made for ActiveProfile's default, then loadLocal runs.  Of a
\* session the user id is restored, not the token, so the pulls send nothing.
Restart ==
    /\ session' = IF session.is = "none" THEN NoSession
                  ELSE [session EXCEPT !.is = "restored"]
    /\ m' = Loaded(session'.user, stored, {})
    /\ boundTo' = 1
    /\ calls' = <<>> /\ handlers' = <<>>
    /\ UNCHANGED <<stored, pinCache>>

-----------------------------------------------------------------------------
(* What the user asks for. *)

SwitchToProfile(i) ==
    /\ m.list[i] # "none"
    /\ m.list[i] = "pinned" => i \in m.verified
    /\ m' = [m EXCEPT !.active = i]
    /\ stored' = Written(m', stored)
    /\ boundTo' = i
    /\ UNCHANGED <<session, pinCache, calls, handlers>>

\* verifyPin: the server decides where there is a token, the cache where there is
\* none; one made of another version of the row is dropped.
VerifyPin(i) ==
    /\ m.list[i] # "none"
    /\ \/ /\ m.list[i] = "pinned" /\ HasToken
          /\ Sends("verify", i)
          /\ UNCHANGED <<m, pinCache>>
       \/ /\ m.list[i] = "open" \/ (~HasToken /\ i \in pinCache)
          /\ m' = [m EXCEPT !.verified = @ \cup {i}]
          /\ UNCHANGED <<pinCache, calls, handlers>>
       \/ /\ m.list[i] = "pinned" /\ ~HasToken
          /\ pinCache' = pinCache \ {i}
          /\ UNCHANGED <<m, calls, handlers>>
    /\ UNCHANGED <<session, stored, boundTo>>

\* Rows that change are pushed where there is a token, else kept, in the file of
\* the account as well.
Edit(list) ==
    /\ IF HasToken
       THEN Sends("push", 1) /\ UNCHANGED <<m, stored>>
       ELSE /\ m' = [m EXCEPT !.list = list]
            /\ stored' = Written(m', stored)
            /\ UNCHANGED <<calls, handlers>>
    /\ UNCHANGED <<session, pinCache, boundTo>>

\* The first index that is free.
CreateProfile ==
    \E i \in Indexes :
        /\ m.list[i] = "none" /\ \A j \in 1..(i - 1) : m.list[j] # "none"
        /\ Edit([m.list EXCEPT ![i] = "open"])

\* renameProfile and setProfileColor.
EditProfile(i) == m.list[i] # "none" /\ Edit(m.list)

Removed(member, i) ==
    [member EXCEPT !.list[i] = "none", !.active = IF @ = i THEN 1 ELSE @]

DeleteProfile(i) ==
    /\ m.list[i] # "none"
    /\ pinCache' = pinCache \ {i}
    /\ LET forgot == [m EXCEPT !.verified = @ \ {i}]
       IN  IF HasToken
           THEN /\ m' = forgot
                /\ Sends("delete", i)
                /\ UNCHANGED <<stored, boundTo>>
           ELSE /\ m' = Removed(forgot, i)
                /\ stored' = Written(m', stored)
                /\ boundTo' = IF m.active = i THEN 1 ELSE boundTo
                /\ UNCHANGED <<calls, handlers>>
    /\ UNCHANGED <<session>>

\* setPin and clearPin, of the rows of ProfilesPage.
ChangePin(i, fn) ==
    /\ HasToken /\ m.list[i] # "none"
    /\ Sends(fn, i)
    /\ UNCHANGED <<session, m, stored, pinCache, boundTo>>

-----------------------------------------------------------------------------
(* The answers. *)

\* The rows a pull's handler makes of the answer to fn: of locks it makes rows
\* without a PIN, of what is no array no rows.
RowsIn(fn) ==
    CASE fn = "pull" -> Lists
      [] fn = "locks" -> [Indexes -> {"none", "open"}]
      [] OTHER -> {Empty}

\* Mutant of Pulled: the list is written only when the active profile moves.
PulledUnsaved(s, list) ==
    LET listed == {i \in Indexes : list[i] # "none"}
        moves == s.m.active \notin listed /\ listed # {}
        first == CHOOSE i \in listed : \A j \in listed : i <= j
        member == [s.m EXCEPT !.list = list, !.active = IF moves THEN first ELSE @]
    IN  [s EXCEPT !.m = member,
                  !.stored = IF moves THEN Written(member, @) ELSE @,
                  !.boundTo = IF moves THEN first ELSE @,
                  !.pinCache = {i \in @ : list[i] = "pinned"}]

\* Mutant of Pulled: the active profile moves without the signal.
PulledSilently(s, list) ==
    LET listed == {i \in Indexes : list[i] # "none"}
        moves == s.m.active \notin listed /\ listed # {}
        first == CHOOSE i \in listed : \A j \in listed : i <= j
        member == [s.m EXCEPT !.list = list, !.active = IF moves THEN first ELSE @]
    IN  [s EXCEPT !.m = member,
                  !.stored = Written(member, @),
                  !.pinCache = {i \in @ : list[i] = "pinned"}]

\* pullProfiles' handler: the active profile is kept, else the first one is.
Pulled(s, list) ==
    LET listed == {i \in Indexes : list[i] # "none"}
        moves == s.m.active \notin listed /\ listed # {}
        first == CHOOSE i \in listed : \A j \in listed : i <= j
        member == [s.m EXCEPT !.list = list, !.active = IF moves THEN first ELSE @]
    IN  [s EXCEPT !.m = member,
                  !.stored = Written(member, @),
                  !.boundTo = IF moves THEN first ELSE @,
                  !.pinCache = {i \in @ : list[i] = "pinned"}]

\* pullProfiles, asked for by a handler.
PullNext(next) ==
    IF HasToken THEN Append(next, [fn |-> "pull", index |-> 1]) ELSE next

\* One connected function h, which may be another request's, run on a good
\* answer: its rows, and whether it says that a PIN is right; next holds the pulls
\* it asks for.
Handle(s, h, unlocked, list) ==
    CASE h.fn = "pull" -> Pulled(s, list)
      [] h.fn = "push" -> [s EXCEPT !.next = PullNext(@)]
      [] h.fn = "verify" /\ unlocked ->
           [s EXCEPT !.m.verified = @ \cup {h.index}, !.pinCache = @ \cup {h.index}]
      [] h.fn = "delete" ->
           LET member == Removed(s.m, h.index)
           IN  [s EXCEPT !.m = member, !.stored = Written(member, @),
                         !.boundTo = IF s.m.active = h.index THEN 1 ELSE @]
      [] h.fn = "setPin" -> [s EXCEPT !.pinCache = @ \cup {h.index}, !.next = PullNext(@)]
      [] h.fn = "clearPin" -> [s EXCEPT !.pinCache = @ \ {h.index}, !.next = PullNext(@)]
      [] OTHER -> s

\* finished names no request: every connected function runs, once.  A PIN that is
\* wrong is a good answer.
GoodAnswer(k) ==
    \E list \in RowsIn(calls[k]), unlocked \in {FALSE, calls[k] = "verify"} :
        LET s == FoldLeft(LAMBDA t, h : Handle(t, h, unlocked, list),
                          [m |-> m, stored |-> stored, pinCache |-> pinCache,
                           boundTo |-> boundTo, next |-> <<>>], handlers)
        IN  /\ m' = s.m /\ stored' = s.stored
            /\ pinCache' = s.pinCache /\ boundTo' = s.boundTo
            /\ calls' = RemoveAt(calls, k) \o [j \in DOMAIN s.next |-> "pull"]
            /\ handlers' = s.next
            /\ UNCHANGED session

\* A failure disconnects the functions and does nothing else.
BadAnswer(k) ==
    /\ calls' = RemoveAt(calls, k)
    /\ handlers' = <<>>
    /\ UNCHANGED <<session, m, stored, pinCache, boundTo>>

-----------------------------------------------------------------------------
User == \E i \in Indexes : \/ SwitchToProfile(i)
                           \/ VerifyPin(i)
                           \/ EditProfile(i)
                           \/ DeleteProfile(i)
                           \/ \E fn \in {"setPin", "clearPin"} : ChangePin(i, fn)

Next == \/ User
        \/ CreateProfile
        \/ \E s \in Sessions : SessionChange(s)
        \/ \E user \in Users : Regrant(user)
        \/ Restart
        \/ \E k \in DOMAIN calls : GoodAnswer(k) \/ BadAnswer(k)

Spec == Init /\ [][Next]_profileVars

-----------------------------------------------------------------------------
(* Properties. *)

\* What the file holds for the manager's account is what the manager shows,
\* whichever function ran on whichever answer, and whether an edit was pushed or,
\* in a session that was restored without its token, made in the file alone.
FileFollowsManager ==
    m.user # None /\ stored.user = m.user =>
        stored.list = m.list /\ stored.active = m.active

\* activeProfileChanged is all that moves the objects which keep a profile's
\* state: but for a change of the session and a restart, which do not send it,
\* whatever the answer of one request makes several functions do to the active
\* profile, the objects end where ActiveProfile does.
Announces ==
    m'.active # m.active =>
        \/ boundTo' = m'.active
        \/ Restart
        \/ \E s \in Sessions : SessionChange(s)

MovesAreAnnounced == [][Announces]_profileVars
=============================================================================
