---------------------------- MODULE AuthSession ----------------------------
(***************************************************************************)
(* AuthService (src/systems/authsync/src/AuthService.cpp): the identity it *)
(* holds in memory, the one it stores in auth.properties, the requests it  *)
(* has posted to the auth server, and what the listeners of stateChanged   *)
(* were last told.                                                         *)
(*                                                                         *)
(* Tokens, e-mail and user id are abstracted to the account they belong    *)
(* to.  Nothing stops the user from submitting the form again while a      *)
(* request is open, and replies come in any order.                         *)
(***************************************************************************)
EXTENDS Naturals, FiniteSets

CONSTANTS Accounts,
          Nobody,       \* an empty string
          MaxPosted     \* bound on open requests

ASSUME AuthAssumption == Nobody \notin Accounts /\ MaxPosted \in Nat

VARIABLES
    stored,     \* auth.properties
    held,       \* m_accessToken, m_refreshToken, m_email, m_userId
    active,     \* m_active
    posted,     \* open requests
    told        \* what stateChanged's listeners last read

authVars == <<stored, held, active, posted, told>>

Owner    == Accounts \cup {Nobody}
Identity == [access : Owner, refresh : Owner, email : Owner, user : Owner]
NoIdentity == [access |-> Nobody, refresh |-> Nobody,
               email |-> Nobody, user |-> Nobody]

AuthRequest == [kind : {"token", "signup", "refresh"}, account : Accounts]
Told    == [active : BOOLEAN, email : Owner, user : Owner]

AuthTypeOK ==
    /\ stored \in Identity
    /\ held \in Identity
    /\ active \in BOOLEAN
    /\ posted \subseteq AuthRequest
    /\ told \in Told

Visible == [active |-> active, email |-> held.email, user |-> held.user]

-----------------------------------------------------------------------------
\* Construction and restoreSession, with st on disk.  A stored access token
\* makes the session active; the tokens themselves are not loaded.
Whole(st) == st.access # Nobody /\ st.refresh # Nobody
Alone(st) == st.access = Nobody /\ st.refresh # Nobody

Restored(st) == [access  |-> Nobody,
                 refresh |-> IF Alone(st) THEN st.refresh ELSE Nobody,
                 email   |-> IF Whole(st) THEN st.email ELSE Nobody,
                 user    |-> st.user]

\* Mutant of Refreshing: an empty refresh token is sent as well.
RefreshingUnlessWhole(st) ==
    IF Whole(st) THEN {} ELSE {[kind |-> "refresh", account |-> st.refresh]}

Refreshing(st) == IF Alone(st)
                  THEN {[kind |-> "refresh", account |-> st.refresh]}
                  ELSE {}

\* Nothing stored, or a refresh token left by the other client of the store.
AuthInit ==
    /\ stored \in {[NoIdentity EXCEPT !.refresh = a] : a \in Owner}
    /\ held = Restored(stored)
    /\ active = Whole(stored)
    /\ posted = Refreshing(stored)
    /\ told = Visible

StartsWith(st) ==
    /\ stored' = st
    /\ held' = Restored(st)
    /\ active' = Whole(st)
    /\ posted' = Refreshing(st)
    /\ told' = Visible'

Relaunch == StartsWith(stored)

-----------------------------------------------------------------------------
Post(request) ==
    /\ Cardinality(posted) < MaxPosted
    /\ posted' = posted \cup {request}
    /\ UNCHANGED <<stored, held, active, told>>

\* The form is shown to a user who is signed out.
SignIn(a) == ~active /\ Post([kind |-> "token", account |-> a])
SignUp(a) == ~active /\ Post([kind |-> "signup", account |-> a])

\* Mutants of SignOut: the stored tokens stay; the token in memory stays.
SignOutInMemory ==
    /\ active
    /\ held' = NoIdentity
    /\ active' = FALSE
    /\ told' = Visible'
    /\ UNCHANGED <<stored, posted>>

SignOutKeepingToken ==
    /\ active
    /\ stored' = NoIdentity
    /\ held' = [held EXCEPT !.email = Nobody, !.user = Nobody]
    /\ active' = FALSE
    /\ told' = Visible'
    /\ UNCHANGED posted

SignOut ==
    /\ active
    /\ stored' = NoIdentity
    /\ held' = NoIdentity
    /\ active' = FALSE
    /\ told' = Visible'
    /\ UNCHANGED posted

Answered(r) == /\ r \in posted
               /\ posted' = posted \ {r}

ReplyFails(r) ==
    /\ Answered(r)
    /\ UNCHANGED <<stored, held, active, told>>

\* The fields a response brings replace those held, the others stay.
Overlay(old, new) == [f \in DOMAIN old |-> IF new[f] = Nobody THEN old[f]
                                                            ELSE new[f]]

\* Mutant of Persist: the e-mail and the user id are not written.
PersistTokensOnly(old, new) ==
    [old EXCEPT !.access = new.access, !.refresh = new.refresh]

\* persistTokens: every field that is not empty.
Persist(old, new) == Overlay(old, new)

\* applyTokensFromJson.  m_email is assigned before setSession compares it, so
\* stateChanged is emitted when the session becomes active, not when an active
\* session changes its e-mail.
ApplyTokens(fields) ==
    LET mem == Overlay(held, fields)
    IN  /\ held' = mem
        /\ IF mem.access # Nobody
           THEN /\ stored' = Persist(stored, mem)
                /\ active' = TRUE
                /\ told' = IF active THEN told ELSE Visible'
           ELSE /\ UNCHANGED <<stored, active>>
                /\ told' = Visible'

Grant(a) == [access |-> a, refresh |-> a, email |-> a, user |-> a]

\* A token grant, a refresh, or a sign-up that comes with a session.
ReplyGrants(r) ==
    /\ Answered(r)
    /\ ApplyTokens(Grant(r.account))

\* A sign-up that has to be confirmed by mail: no session, and the e-mail or
\* the user object of the new account.
ReplyPending(r, fields) ==
    /\ r.kind = "signup"
    /\ fields \in {[NoIdentity EXCEPT !.email = r.account],
                   [NoIdentity EXCEPT !.user = r.account]}
    /\ Answered(r)
    /\ ApplyTokens(fields)

\* persistTokens and clearStored write the file once for each field, in this
\* order; the process may die in between.
First(n) == {CASE i = 1 -> "access" [] i = 2 -> "refresh"
               [] i = 3 -> "email"  [] OTHER -> "user" : i \in 1..n}

CrashWhileStoring(r, n) ==
    LET new == Persist(stored, Overlay(held, Grant(r.account)))
    IN  /\ r \in posted
        /\ StartsWith([f \in DOMAIN stored |-> IF f \in First(n)
                                               THEN new[f] ELSE stored[f]])

CrashWhileClearing(n) ==
    /\ active
    /\ StartsWith([f \in DOMAIN stored |-> IF f \in First(n)
                                           THEN Nobody ELSE stored[f]])

AuthUser == SignOut \/ \E a \in Accounts : SignIn(a) \/ SignUp(a)

AuthNetwork == \E r \in posted :
              \/ ReplyFails(r)
              \/ ReplyGrants(r)
              \/ \E fields \in Identity : ReplyPending(r, fields)

AuthDies == \E n \in 1..3 : \/ \E r \in posted : CrashWhileStoring(r, n)
                           \/ CrashWhileClearing(n)

AuthEnds == Relaunch \/ AuthDies

AuthNext == AuthUser \/ AuthNetwork \/ AuthEnds

AuthSpec == AuthInit /\ [][AuthNext]_authVars

-----------------------------------------------------------------------------
(* Properties. *)

\* A restart brings back the session the user was in, under the same name, and
\* none if there was none, whatever replies, sign-outs and torn writes came
\* before it; a process that dies while it stores a reply loses no session.
\* Nothing is said of what such a reply leaves: it may be half of an identity, or
\* a session with the tokens of one account and the e-mail of another.
SessionSurvives ==
    /\ Relaunch => /\ active' <=> active
                   /\ active => Visible' = Visible
    /\ \A r \in posted, n \in 1..3 :
           CrashWhileStoring(r, n) /\ active => active'

RestartKeepsSession == [][SessionSurvives]_authVars

\* What is held under a token is what is stored, field by field: no reply is
\* kept in memory only, or written over by a stale one.
HeldIsStored == held.access # Nobody => stored = held

-----------------------------------------------------------------------------
(* What the comments of the code say, and the code does not do.            *)

\* "Current user JWT (empty when signed out)", "restoreSession(): loads any
\* stored tokens" (AuthService.h): an active session has its token.
SessionHasToken == active => held.access # Nobody
=============================================================================
