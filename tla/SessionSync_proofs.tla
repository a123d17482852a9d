------------------------- MODULE SessionSync_proofs -------------------------
(***************************************************************************)
(* Proofs about AuthSession and SessionSync, for any accounts and any      *)
(* number of open requests: a restart restores the session that was there, *)
(* what is held under a token is what is stored, and a controller talks to *)
(* the server in a session only.                                           *)
(***************************************************************************)
EXTENDS SessionSync, TLAPS

USE AuthAssumption

\* A token comes with a refresh token, so that storing it stores a session.
TokensArePaired == held.access # Nobody => held.refresh # Nobody /\ active

\* What is active is what a start from auth.properties would make active.
ActiveIsStored == active <=> Whole(stored)

\* A session without its token was restored: it is what the file says, and no
\* request is open, since the form is shown to a user who is signed out.
RestoredIsStored ==
    active /\ held.access = Nobody =>
        posted = {} /\ held.email = stored.email /\ held.user = stored.user

AuthInv == /\ AuthTypeOK /\ ActiveIsStored /\ RestoredIsStored
           /\ HeldIsStored /\ TokensArePaired

Fields == {"access", "refresh", "email", "user"}

-----------------------------------------------------------------------------
(* Identities. *)

LEMMA IdentityFields ==
    ASSUME NEW x \in Identity
    PROVE  /\ DOMAIN x = Fields
           /\ x.access \in Owner /\ x.refresh \in Owner
           /\ x.email \in Owner /\ x.user \in Owner
BY DEF Identity, Fields

LEMMA OverlayFields ==
    ASSUME NEW old \in Identity, NEW new \in Identity
    PROVE  /\ Overlay(old, new) \in Identity
           /\ \A f \in Fields : Overlay(old, new)[f] =
                                  IF new[f] = Nobody THEN old[f] ELSE new[f]
BY IdentityFields DEF Overlay, Identity, Fields

LEMMA SameFields ==
    ASSUME NEW x \in Identity, NEW y \in Identity,
           x.access = y.access, x.refresh = y.refresh,
           x.email = y.email, x.user = y.user
    PROVE  x = y
BY DEF Identity

LEMMA GrantFields ==
    ASSUME NEW a \in Accounts
    PROVE  /\ Grant(a) \in Identity
           /\ Grant(a).access = a /\ Grant(a).refresh = a
           /\ Grant(a).email = a /\ Grant(a).user = a
BY DEF Grant, Identity, Owner

LEMMA RestoredFields ==
    ASSUME NEW st \in Identity
    PROVE  /\ Restored(st) \in Identity /\ Restored(st).access = Nobody
           /\ Refreshing(st) \subseteq AuthRequest
           /\ Whole(st) \in BOOLEAN
BY DEF Restored, Identity, Owner, Refreshing, AuthRequest, Alone, Whole

-----------------------------------------------------------------------------

\* Starting with any identity on disk, whole or torn (restoreSession).
LEMMA StartsWithKeeps ==
    ASSUME NEW st \in Identity, StartsWith(st)
    PROVE  AuthInv'
<1>1. AuthTypeOK'
  BY RestoredFields, IdentityFields DEF StartsWith, AuthTypeOK, Told, Visible
<1>2. HeldIsStored' /\ TokensArePaired'
  BY RestoredFields DEF StartsWith, HeldIsStored, TokensArePaired
<1>3. ActiveIsStored' /\ RestoredIsStored'
  BY DEF StartsWith, ActiveIsStored, RestoredIsStored, Restored, Refreshing, Alone, Whole
<1> QED
  BY <1>1, <1>2, <1>3 DEF AuthInv

LEMMA InitAuthInv == AuthInit => AuthInv
<1> SUFFICES ASSUME AuthInit PROVE AuthInv
  OBVIOUS
<1>1. stored \in Identity
  BY DEF AuthInit, NoIdentity, Identity, Owner
<1>2. AuthTypeOK
  BY <1>1, RestoredFields, IdentityFields DEF AuthInit, AuthTypeOK, Told, Visible
<1>3. HeldIsStored /\ TokensArePaired
  BY <1>1, RestoredFields DEF AuthInit, HeldIsStored, TokensArePaired
<1>4. ActiveIsStored /\ RestoredIsStored
  BY DEF AuthInit, ActiveIsStored, RestoredIsStored, Restored, Refreshing, Alone, Whole
<1> QED
  BY <1>2, <1>3, <1>4 DEF AuthInv

\* A response whose fields are all there or which brings no token
\* (applyTokensFromJson).
LEMMA ApplyTokensKeeps ==
    ASSUME AuthInv, NEW fields \in Identity, ApplyTokens(fields),
           posted # {}, posted' \subseteq AuthRequest,
           \/ \A f \in Fields : fields[f] # Nobody
           \/ fields.access = Nobody
    PROVE  AuthInv'
<1> DEFINE merged == Overlay(held, fields)
           new == Overlay(stored, merged)
<1>1. /\ held \in Identity /\ stored \in Identity
      /\ merged \in Identity /\ new \in Identity
  BY OverlayFields DEF AuthInv, AuthTypeOK
<1>2. /\ \A f \in Fields : merged[f] = IF fields[f] = Nobody THEN held[f] ELSE fields[f]
      /\ \A f \in Fields : new[f] = IF merged[f] = Nobody THEN stored[f] ELSE merged[f]
  BY <1>1, OverlayFields
<1>3. /\ held' = merged
      /\ merged.access # Nobody => stored' = new /\ active' = TRUE
      /\ merged.access = Nobody => UNCHANGED <<stored, active>>
      /\ told' = told \/ told' = Visible'
  BY DEF ApplyTokens, Persist
<1> HIDE DEF merged, new
<1>4. merged.access # Nobody => merged = new
  <2>1. CASE \A f \in Fields : fields[f] # Nobody
    BY <1>1, <1>2, <2>1, SameFields DEF Fields
  <2>2. CASE fields.access = Nobody /\ merged.access # Nobody
    <3>1. held.access # Nobody
      BY <1>2, <2>2 DEF Fields
    <3>2. stored = held
      BY <3>1 DEF AuthInv, HeldIsStored
    <3> QED
      BY <1>1, <1>2, <3>2, SameFields DEF Fields
  <2> QED
    BY <2>1, <2>2
<1>5. merged.access # Nobody => merged.refresh # Nobody
  BY <1>2 DEF Fields, AuthInv, TokensArePaired
<1>6. AuthTypeOK'
  <2>1. stored' \in Identity /\ active' \in BOOLEAN /\ held' \in Identity
    BY <1>1, <1>3 DEF AuthInv, AuthTypeOK
  <2>2. Visible' \in Told
    BY <2>1, IdentityFields DEF Visible, Told
  <2> QED
    BY <1>3, <2>1, <2>2 DEF AuthInv, AuthTypeOK
<1>7. HeldIsStored'
  BY <1>3, <1>4 DEF HeldIsStored
<1>8. TokensArePaired'
  BY <1>3, <1>5 DEF TokensArePaired
<1>9. ActiveIsStored'
  BY <1>3, <1>4, <1>5 DEF ActiveIsStored, AuthInv, Whole
<1>10. RestoredIsStored'
  BY <1>2, <1>3 DEF RestoredIsStored, AuthInv, Fields
<1> QED
  BY <1>6, <1>7, <1>8, <1>9, <1>10 DEF AuthInv

LEMMA UserKeeps ==
    ASSUME AuthInv, AuthUser
    PROVE  AuthInv'
<1>1. CASE SignOut
  <2>1. NoIdentity \in Identity /\ NoIdentity.access = Nobody
    BY DEF NoIdentity, Identity, Owner
  <2>2. AuthTypeOK'
    BY <1>1, <2>1, IdentityFields DEF SignOut, AuthInv, AuthTypeOK, Told, Visible
  <2> QED
    BY <1>1, <2>1, <2>2
       DEF SignOut, AuthInv, HeldIsStored, TokensArePaired, ActiveIsStored,
           RestoredIsStored, Whole
<1>2. CASE \E a \in Accounts : SignIn(a) \/ SignUp(a)
  <2>1. /\ ~active
        /\ posted' \subseteq AuthRequest /\ UNCHANGED <<stored, held, active, told>>
    BY <1>2 DEF SignIn, SignUp, Post, AuthRequest, AuthInv, AuthTypeOK
  <2> QED
    BY <2>1 DEF AuthInv, AuthTypeOK, HeldIsStored, TokensArePaired,
                ActiveIsStored, RestoredIsStored, Visible
<1> QED
  BY <1>1, <1>2 DEF AuthUser

LEMMA NetworkKeeps ==
    ASSUME AuthInv, AuthNetwork
    PROVE  AuthInv'
<1> PICK r \in posted : \/ ReplyFails(r) \/ ReplyGrants(r)
                        \/ \E fields \in Identity : ReplyPending(r, fields)
  BY DEF AuthNetwork
<1>1. r.account \in Accounts
  BY DEF AuthInv, AuthTypeOK, AuthRequest
<1>2. posted' \subseteq AuthRequest
  BY DEF ReplyFails, ReplyGrants, ReplyPending, Answered, AuthInv, AuthTypeOK
<1>3. CASE ReplyFails(r)
  BY <1>2, <1>3 DEF ReplyFails, Answered, AuthInv, AuthTypeOK, HeldIsStored,
                    TokensArePaired, ActiveIsStored, RestoredIsStored
<1>4. CASE ReplyGrants(r)
  <2>1. \A f \in Fields : Grant(r.account)[f] # Nobody
    BY <1>1, GrantFields DEF Fields, Grant
  <2> QED
    BY <1>1, <1>2, <1>4, <2>1, GrantFields, ApplyTokensKeeps DEF ReplyGrants
<1>5. CASE \E fields \in Identity : ReplyPending(r, fields)
  <2> PICK fields \in Identity : ReplyPending(r, fields)
    BY <1>5
  <2>1. fields.access = Nobody
    BY DEF ReplyPending, NoIdentity
  <2> QED
    BY <1>2, <2>1, ApplyTokensKeeps DEF ReplyPending
<1> QED
  BY <1>3, <1>4, <1>5

\* What a death inside persistTokens leaves: an identity, and a whole one where
\* there was one.
LEMMA TornStore ==
    ASSUME AuthInv, NEW r \in posted, NEW n \in 1..3, CrashWhileStoring(r, n)
    PROVE  \E st \in Identity : StartsWith(st) /\ (Whole(stored) => Whole(st))
<1> DEFINE new == Persist(stored, Overlay(held, Grant(r.account)))
           st == [f \in DOMAIN stored |-> IF f \in First(n) THEN new[f] ELSE stored[f]]
<1>1. stored \in Identity /\ held \in Identity /\ r.account \in Accounts
  BY DEF AuthInv, AuthTypeOK, AuthRequest
<1>2. Overlay(held, Grant(r.account)) \in Identity
  BY <1>1, GrantFields, OverlayFields
<1>3. /\ new \in Identity
      /\ \A f \in Fields : stored[f] # Nobody => new[f] # Nobody
  BY <1>1, <1>2, OverlayFields DEF Persist
<1>4. StartsWith(st)
  BY DEF CrashWhileStoring
<1> HIDE DEF new
<1>5. st \in Identity
  BY <1>1, <1>3, IdentityFields DEF Identity, Fields
<1>6. \A f \in Fields : st[f] = new[f] \/ st[f] = stored[f]
  BY <1>1, IdentityFields
<1> HIDE DEF st
<1>7. Whole(stored) => Whole(st)
  BY <1>3, <1>6 DEF Whole, Fields
<1> QED
  BY <1>4, <1>5, <1>7

\* The process ends between two steps, or between two of the writes that store
\* an identity or clear it (persistTokens, clearStored).
LEMMA EndsKeep ==
    ASSUME AuthInv, AuthEnds
    PROVE  AuthInv' /\ held'.access = Nobody
<1>1. CASE Relaunch
  <2>1. stored \in Identity /\ StartsWith(stored)
    BY <1>1 DEF Relaunch, AuthInv, AuthTypeOK
  <2> QED
    BY <2>1, StartsWithKeeps, RestoredFields DEF StartsWith
<1>2. CASE \E r \in posted, n \in 1..3 : CrashWhileStoring(r, n)
  <2> PICK r \in posted, n \in 1..3 : CrashWhileStoring(r, n)
    BY <1>2
  <2>1. PICK st \in Identity : StartsWith(st)
    BY TornStore
  <2> QED
    BY <2>1, StartsWithKeeps, RestoredFields DEF StartsWith
<1>3. CASE \E n \in 1..3 : CrashWhileClearing(n)
  <2> PICK n \in 1..3 : CrashWhileClearing(n)
    BY <1>3
  <2> DEFINE st == [f \in DOMAIN stored |-> IF f \in First(n) THEN Nobody ELSE stored[f]]
  <2>1. stored \in Identity /\ StartsWith(st)
    BY DEF CrashWhileClearing, AuthInv, AuthTypeOK
  <2>2. st \in Identity
    BY <2>1, IdentityFields DEF Identity, Fields, Owner
  <2> HIDE DEF st
  <2> QED
    BY <2>1, <2>2, StartsWithKeeps, RestoredFields DEF StartsWith
<1> QED
  BY <1>1, <1>2, <1>3 DEF AuthEnds, AuthDies

LEMMA AuthStepKeeps == AuthInv /\ [AuthNext]_authVars => AuthInv'
<1>1. AuthInv /\ AuthNext => AuthInv'
  BY UserKeeps, NetworkKeeps, EndsKeep DEF AuthNext
<1>2. AuthInv /\ UNCHANGED authVars => AuthInv'
  BY DEF authVars, AuthInv, AuthTypeOK, HeldIsStored, TokensArePaired,
         ActiveIsStored, RestoredIsStored
<1> QED
  BY <1>1, <1>2

\* AuthService on its own keeps its state well formed, in any order of submitted
\* forms, replies, sign-outs, restarts and torn writes.
THEOREM AuthInvariance == AuthSpec => []AuthInv
<1> QED
  BY InitAuthInv, AuthStepKeeps, PTL DEF AuthSpec

-----------------------------------------------------------------------------
(* The composition: every step of SessionSync is a step of AuthService or  *)
(* leaves AuthService alone.                                               *)

SessionInv == AuthInv /\ PermissionIsSession

\* The controller has no operation that changes the session.
LEMMA SyncsLeavePermission == Syncs => UNCHANGED <<authVars, signedIn>>
<1> SUFFICES ASSUME Syncs PROVE signedIn' = signedIn
  BY DEF Syncs
<1>1. CASE Local
  BY <1>1 DEF Local, SavePosition, CompleteOrMarkWatched, UnmarkWatched,
              RecorderReads, LocalVars
<1>2. CASE Reply
  <2> PICK i \in DOMAIN calls : ReplyTo(i)
    BY <1>2 DEF Reply
  <2> QED
    BY DEF ReplyTo, ReplyVars, RequestFails, PushReply, DeleteReply,
           WatchedPushReply, WatchedDeleteReply, PullReply, WatchedPageReply,
           CursorReply, DeltaReply, WatchedDeltaReply
<1>3. CASE \E f \in Files : DebounceFires(f)
  BY <1>3 DEF DebounceFires
<1>4. CASE \E p \in Profiles : SwitchProfile(p)
  BY <1>4 DEF SwitchProfile
<1> QED
  BY <1>1, <1>2, <1>3, <1>4 DEF Syncs

LEMMA InitSessionInv == SessionInit => SessionInv
<1> SUFFICES ASSUME SessionInit PROVE SessionInv
  OBVIOUS
<1>1. AuthInv
  BY InitAuthInv DEF SessionInit
<1>2. held.access = Nobody
  <2>1. stored \in Identity
    BY <1>1 DEF AuthInv, AuthTypeOK
  <2> QED
    BY <2>1, RestoredFields DEF SessionInit, AuthInit
<1> QED
  BY <1>1, <1>2 DEF SessionInv, PermissionIsSession, SessionInit, Init

LEMMA SessionStepKeeps == SessionInv /\ [SessionNext]_sessionVars => SessionInv'
<1> SUFFICES ASSUME SessionInv, [SessionNext]_sessionVars PROVE SessionInv'
  OBVIOUS
<1> USE DEF SessionInv
<1>1. CASE SessionChanges
  <2>1. AuthInv'
    BY <1>1, UserKeeps, NetworkKeeps DEF SessionChanges
  <2>2. signedIn' = (held'.access # Nobody)
    BY <1>1 DEF SessionChanges
  <2> QED
    BY <2>1, <2>2 DEF PermissionIsSession, AuthInv, TokensArePaired
<1>2. CASE ProcessEnds
  <2>1. AuthInv' /\ held'.access = Nobody
    BY <1>2, EndsKeep DEF ProcessEnds
  <2>2. signedIn' = FALSE
    BY <1>2 DEF ProcessEnds, Restart
  <2> QED
    BY <2>1, <2>2 DEF PermissionIsSession
<1>3. CASE UNCHANGED <<authVars, signedIn>>
  BY <1>3, AuthStepKeeps DEF PermissionIsSession, authVars
<1> QED
  <2>1. UNCHANGED sessionVars => UNCHANGED <<authVars, signedIn>>
    BY DEF sessionVars, vars
  <2> QED
    BY <1>1, <1>2, <1>3, <2>1, SyncsLeavePermission DEF SessionNext

LEMMA SessionInvariance == SessionSpec => []SessionInv
<1> QED
  BY InitSessionInv, SessionStepKeeps, PTL DEF SessionSpec

\* The fields of AuthService keep their types in every behaviour of the program.
THEOREM AuthTypeCorrect == SessionSpec => []AuthTypeOK
<1>1. SessionInv => AuthTypeOK
  BY DEF SessionInv, AuthInv
<1> QED
  BY <1>1, SessionInvariance, PTL

\* A start from the file makes of the state what it was.
LEMMA EndsSurvived ==
    ASSUME AuthInv
    PROVE  SessionSurvives
<1>1. ASSUME Relaunch
      PROVE  (active' <=> active) /\ (active => Visible' = Visible)
  <2>1. active' = Whole(stored) /\ held' = Restored(stored)
    BY <1>1 DEF Relaunch, StartsWith
  <2>2. active' <=> active
    BY <2>1 DEF AuthInv, ActiveIsStored
  <2>3. ASSUME active PROVE Visible' = Visible
    <3>1. Restored(stored).email = stored.email /\ Restored(stored).user = stored.user
      BY <2>3 DEF Restored, AuthInv, ActiveIsStored
    <3>2. held.email = stored.email /\ held.user = stored.user
      BY <2>3 DEF AuthInv, RestoredIsStored, HeldIsStored
    <3>3. active' = active
      BY <2>1, <2>2, <2>3 DEF Whole, AuthInv, AuthTypeOK
    <3> QED
      BY <2>1, <3>1, <3>2, <3>3 DEF Visible
  <2> QED
    BY <2>2, <2>3
<1>2. ASSUME NEW r \in posted, NEW n \in 1..3, CrashWhileStoring(r, n), active
      PROVE  active'
  <2>1. PICK st \in Identity : StartsWith(st) /\ (Whole(stored) => Whole(st))
    BY <1>2, TornStore
  <2> QED
    BY <1>2, <2>1 DEF StartsWith, AuthInv, ActiveIsStored
<1> QED
  BY <1>1, <1>2 DEF SessionSurvives

\* A restart brings back the session that was active, under the same name, and no
\* other; a death while a reply is stored loses no session.
THEOREM RestartSafe == SessionSpec => RestartKeepsSession
<1>1. SessionInv => SessionSurvives
  BY EndsSurvived DEF SessionInv
<1> QED
  BY <1>1, SessionInvariance, PTL DEF RestartKeepsSession

\* Under a token, memory and auth.properties agree in every field.
THEOREM NoIdentityLost == SessionSpec => []HeldIsStored
<1>1. SessionInv => HeldIsStored
  BY DEF SessionInv, AuthInv
<1> QED
  BY <1>1, SessionInvariance, PTL

\* The controllers talk to the server in an active session only.
THEOREM PermissionProved == SessionSpec => []PermissionIsSession
<1>1. SessionInv => PermissionIsSession
  BY DEF SessionInv
<1> QED
  BY <1>1, SessionInvariance, PTL
=============================================================================
