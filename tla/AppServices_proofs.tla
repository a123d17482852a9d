------------------------- MODULE AppServices_proofs -------------------------
(***************************************************************************)
(* Proofs about the services of AppServices, for any profiles, users,       *)
(* items and bounds.  A behaviour is that of one service, so each proof is  *)
(* of the shape: the service's invariant holds whenever it is the one that  *)
(* runs.                                                                   *)
(***************************************************************************)
EXTENDS AppServices, Sequences, FiniteSetTheorems, TLAPS

-----------------------------------------------------------------------------
(* AppUpdater. *)

\* What the buttons of the banner rest on: the directory has been emptied by
\* this run once m_destPath is set, so that what is there was asked for, and
\* unless confused the offer is what is being, or has been, transferred.
UpdaterInv ==
    /\ Updates!TypeOK /\ Updates!HandsOverWhatWasAsked
    /\ transfer # None => /\ transfer.of \in requested
                          /\ transfer.opened => dest
                          /\ ~confused /\ offer # None => transfer.of = offer
    /\ path => dest
    /\ dest /\ package # None => package.of \in requested
    /\ path /\ package # None /\ offer # None /\ ~confused =>
          package.whole /\ package.of = offer

\* AppUpdater starts with nothing asked for.
LEMMA UpdaterInit == ASSUME Updates!Init PROVE UpdaterInv
BY DEF Updates!Init, UpdaterInv, Updates!TypeOK, Updates!HandsOverWhatWasAsked

\* A program that starts forgets what was asked for and the path of the
\* package (AppUpdater::AppUpdater).
LEMMA UpdaterStarts == ASSUME UpdaterInv, Updates!Started PROVE UpdaterInv'
BY DEF UpdaterInv, Updates!TypeOK, Updates!HandsOverWhatWasAsked, Updates!Started

\* An answer to a check during or after a transfer is what confused records
\* (applyCheckSuccess, applyCheckFailure).
LEMMA UpdaterChecks ==
    ASSUME UpdaterInv, Updates!CheckForUpdates \/ Updates!CheckReply
    PROVE  UpdaterInv'
<1> USE DEF UpdaterInv, Updates!TypeOK, Updates!HandsOverWhatWasAsked
<1>1. CASE Updates!CheckForUpdates
  BY <1>1 DEF Updates!CheckForUpdates
<1>2. CASE Updates!CheckReply
  <2> USE DEF Updates!CheckReply
  <2>1. ASSUME NEW t \in Tags, Updates!ApplyNewer(t) PROVE UpdaterInv'
    <3>1. dialog' \in BOOLEAN /\ confused' \in BOOLEAN
      BY <1>2, <2>1, Zenon DEF Updates!ApplyNewer
    <3> QED
      BY <1>2, <2>1, <3>1 DEF Updates!ApplyNewer
  <2>2. CASE Updates!ApplyNothing
    BY <1>2, <2>2 DEF Updates!ApplyNothing
  <2>3. CASE Updates!NoRelease
    BY <1>2, <2>3 DEF Updates!NoRelease
  <2> QED
    BY <1>2, <2>1, <2>2, <2>3
<1> QED
  BY <1>1, <1>2

\* Download asks for the release that is on offer (downloadUpdate).
LEMMA UpdaterBanner ==
    ASSUME UpdaterInv, Updates!DismissBanner \/ Updates!DownloadUpdate
    PROVE  UpdaterInv'
<1>1. CASE Updates!DismissBanner
  BY <1>1 DEF UpdaterInv, Updates!TypeOK, Updates!HandsOverWhatWasAsked,
              Updates!DismissBanner
<1>2. CASE Updates!DownloadUpdate /\ Updates!Started
  BY <1>2, UpdaterStarts
<1>3. CASE Updates!DownloadUpdate /\ ~Updates!Started
  <2>1. offer \in Tags /\ ~path
    BY <1>3 DEF UpdaterInv, Updates!TypeOK, Updates!DownloadUpdate,
                Updates!BannerVisible
  <2>2. /\ transfer' = [of |-> offer, opened |-> FALSE]
        /\ requested' = requested \cup {offer} /\ downloading' = TRUE
        /\ confused' = FALSE
        /\ UNCHANGED <<offer, dialog, checking, ignored, dest, package, path, handed>>
    BY <1>3 DEF Updates!DownloadUpdate
  <2>3. transfer' \in Updates!Transfer
    BY <2>1, <2>2 DEF Updates!Transfer
  <2>4. transfer'.of = offer /\ ~transfer'.opened
    BY <2>2
  <2> QED
    BY <2>1, <2>2, <2>3, <2>4 DEF UpdaterInv, Updates!TypeOK,
         Updates!HandsOverWhatWasAsked
<1> QED
  BY <1>1, <1>2, <1>3

\* The first bytes empty the directory (downloadUpdate's readyRead).
LEMMA UpdaterTransfer ==
    ASSUME UpdaterInv, NEW canWrite \in BOOLEAN, Updates!FirstBytes(canWrite)
    PROVE  UpdaterInv'
BY DEF UpdaterInv, Updates!TypeOK, Updates!HandsOverWhatWasAsked,
       Updates!FirstBytes, Updates!Transfer

\* What installDownloadedUpdate does, launched or not.
Handing(file, t) ==
    /\ dialog' \in BOOLEAN
    /\ handed' = [file |-> file, for |-> t, sure |-> ~confused'] \/ handed' = handed

\* It is safe for a file that was asked for, of the release it was asked for.
LEMMA HandingKeeps ==
    ASSUME UpdaterInv, NEW file \in Updates!Package, NEW t \in Tags,
           Handing(file, t), requested' = requested, confused' \in BOOLEAN,
           file.of \in requested, ~confused' => file.whole /\ file.of = t
    PROVE  /\ dialog' \in BOOLEAN
           /\ handed' \in [file : Updates!Package, for : Tags, sure : BOOLEAN] \cup {None}
           /\ Updates!HandsOverWhatWasAsked'
<1>1. CASE handed' = [file |-> file, for |-> t, sure |-> ~confused']
  <2>1. handed'.file = file /\ handed'.for = t /\ handed'.sure = ~confused'
    BY <1>1
  <2> QED
    BY <1>1, <2>1 DEF Updates!HandsOverWhatWasAsked, Handing
<1>2. CASE handed' = handed
  BY <1>2 DEF UpdaterInv, Updates!TypeOK, Updates!HandsOverWhatWasAsked, Handing
<1> QED
  BY <1>1, <1>2 DEF Handing

\* A transfer that ends hands over its own body, or, without one, an earlier
\* package of this run (finishDownload).
LEMMA UpdaterEnds ==
    ASSUME UpdaterInv, NEW body \in {"whole", "short"}, NEW measured \in BOOLEAN,
           NEW launched \in BOOLEAN, Updates!TransferEnds(body, measured, launched)
    PROVE  UpdaterInv'
<1>1. /\ transfer \in [of : Tags, opened : BOOLEAN] /\ transfer' = None
      /\ UNCHANGED <<offer, checking, ignored, dest, requested>>
  BY DEF UpdaterInv, Updates!TypeOK, Updates!TransferEnds, Updates!Transfer
<1>2. ASSUME NEW file \in Updates!Package, Updates!Downloaded(file, launched),
             file.of \in requested,
             ~confused' => file.whole /\ file.of = transfer.of,
             dest, confused => confused', confused' \in BOOLEAN
      PROVE  UpdaterInv'
  <2>1. package' = file /\ downloading' = FALSE /\ path' = TRUE
    BY <1>2 DEF Updates!Downloaded
  <2>2. Handing(file, transfer.of)
    BY <1>2 DEF UpdaterInv, Updates!TypeOK, Updates!Downloaded, Updates!Install,
         Handing
  <2>3. transfer.of \in Tags
    BY <1>1
  <2>4. /\ dialog' \in BOOLEAN
        /\ handed' \in [file : Updates!Package, for : Tags, sure : BOOLEAN] \cup {None}
        /\ Updates!HandsOverWhatWasAsked'
    BY <1>1, <1>2, <2>2, <2>3, HandingKeeps
  <2>5. ~confused /\ offer # None => transfer.of = offer
    BY DEF UpdaterInv, Updates!TransferEnds
  <2> QED
    BY <1>1, <1>2, <2>1, <2>4, <2>5 DEF UpdaterInv, Updates!TypeOK
<1>3. ASSUME Updates!FailDownload, UNCHANGED confused PROVE UpdaterInv'
  BY <1>1, <1>3 DEF UpdaterInv, Updates!TypeOK, Updates!HandsOverWhatWasAsked,
       Updates!FailDownload
<1>4. ASSUME transfer.opened, body = "short" => ~measured,
             Updates!Downloaded([of |-> transfer.of, whole |-> body = "whole"], launched),
             confused' = (confused \/ body = "short")
      PROVE  UpdaterInv'
  <2> DEFINE file == [of |-> transfer.of, whole |-> body = "whole"]
  <2>1. confused' \in BOOLEAN
    BY <1>4, Zenon
  <2>2. file \in Updates!Package /\ file.of = transfer.of
        /\ (~confused' => file.whole) /\ (confused => confused')
    BY <1>1, <1>4 DEF Updates!Package
  <2>3. dest /\ transfer.of \in requested
    BY <1>4 DEF UpdaterInv, Updates!TransferEnds
  <2> HIDE DEF file
  <2> QED
    BY <1>2, <1>4, <2>1, <2>2, <2>3 DEF file
<1>5. ASSUME dest, package # None, Updates!Downloaded(package, launched),
             confused' = TRUE
      PROVE  UpdaterInv'
  <2>1. package \in Updates!Package /\ package.of \in requested
    BY <1>5 DEF UpdaterInv, Updates!TypeOK
  <2> QED
    BY <1>2, <1>5, <2>1
<1> QED
  BY <1>3, <1>4, <1>5 DEF Updates!TransferEnds

\* Install hands over the package that is there (installDownloadedUpdate).
LEMMA UpdaterInstalls ==
    ASSUME UpdaterInv, NEW launched \in BOOLEAN,
           Updates!InstallDownloadedUpdate(launched)
    PROVE  UpdaterInv'
<1>1. /\ path /\ package \in Updates!Package /\ offer \in Tags
      /\ UNCHANGED <<offer, checking, ignored, downloading, transfer, dest,
                    package, path, requested, confused>>
  BY DEF UpdaterInv, Updates!TypeOK, Updates!InstallDownloadedUpdate,
         Updates!BannerVisible
<1>2. dest /\ package # None /\ offer # None
  BY <1>1 DEF UpdaterInv, Updates!InstallDownloadedUpdate, Updates!BannerVisible
<1>3. package.of \in requested /\ (~confused => package.whole /\ package.of = offer)
  BY <1>1, <1>2 DEF UpdaterInv
<1>4. Handing(package, offer)
  BY DEF UpdaterInv, Updates!TypeOK, Updates!InstallDownloadedUpdate,
         Updates!Install, Handing
<1> QED
  BY <1>1, <1>3, <1>4, HandingKeeps DEF UpdaterInv, Updates!TypeOK

\* Every step of AppUpdater keeps the invariant.
LEMMA UpdaterStep == ASSUME UpdaterInv, Updates!Next PROVE UpdaterInv'
BY UpdaterStarts, UpdaterChecks, UpdaterBanner, UpdaterTransfer, UpdaterEnds,
   UpdaterInstalls DEF Updates!Next, Updates!Restart

\* What the updater holds together, from any step to the next.
LEMMA UpdaterIsInvariant == Spec => [](which = "updates" => UpdaterInv)
<1> DEFINE I == which = "updates" => UpdaterInv
<1>1. Init => I
  BY UpdaterInit DEF Init
<1>2. I /\ [Next]_vars => I'
  <2> SUFFICES ASSUME I, [Next]_vars, which' = "updates" PROVE UpdaterInv'
    OBVIOUS
  <2>1. CASE Next
    BY <2>1, UpdaterStep DEF Next
  <2>2. CASE UNCHANGED vars
    <3>1. UNCHANGED <<which, updaterVars>>
      BY <2>2 DEF vars
    <3>2. I /\ which = "updates"
      BY <3>1
    <3> QED
      BY <3>1, <3>2 DEF UpdaterInv, Updates!TypeOK,
                        Updates!HandsOverWhatWasAsked, updaterVars
  <2> QED
    BY <2>1, <2>2
<1> QED
  BY <1>1, <1>2, PTL DEF Spec

\* AppUpdater hands to the desktop what was asked for, whole and of the release
\* pressed for unless confused, for any releases.
THEOREM InstallsWhatWasAsked == Spec => []HandsOverWhatWasAsked
<1>1. (which = "updates" => UpdaterInv) => HandsOverWhatWasAsked
  BY DEF UpdaterInv, HandsOverWhatWasAsked
<1> QED
  BY <1>1, UpdaterIsInvariant, PTL

-----------------------------------------------------------------------------
(* DebridResolver. *)

\* A request belongs to a call that was made.
StepsOwned ==
    \A s \in linkSteps : s.token \in Nat /\ 0 < s.token /\ s.token <= token

\* A call has one answer at most, and none before it is made.
AnsweredOnce ==
    \A c \in 1..MaxCalls :
       \/ linkAnswers[c] = <<>>
       \/ \E a : linkAnswers[c] = <<a>> /\ c <= token

\* The last call is answered and asks no more, or asks once.
LastCall ==
    \/ token = 0
    \/ linkAnswers[token] # <<>> /\ \A s \in linkSteps : s.token # token
    \/ /\ linkAnswers[token] = <<>>
       /\ \E s \in linkSteps : {r \in linkSteps : r.token = token} = {s}

\* The inductive invariant of DebridResolver.
LinkInv ==
    /\ token \in Nat /\ token <= MaxCalls
    /\ linkAnswers = [c \in 1..MaxCalls |-> linkAnswers[c]]
    /\ StepsOwned /\ AnsweredOnce /\ LastCall

\* A new call is answered at once or asks once (resolveTorrent).
LEMMA LinkResolves == ASSUME LinkInv, Debrid!ResolveTorrent PROVE LinkInv'
<1>1. /\ token \in Nat /\ token' \in Nat /\ token' = token + 1
      /\ token' \in 1..MaxCalls /\ token' <= MaxCalls
  BY ServicesAssumption DEF LinkInv, Debrid!ResolveTorrent
<1>2. linkAnswers[token'] = <<>>
  BY <1>1 DEF LinkInv, AnsweredOnce
<1>3. CASE ~debridOn \/ configured = {}
  <2> DEFINE a == [reason |-> "NoCredential"]
  <2>1. /\ linkAnswers' = [linkAnswers EXCEPT ![token'] = <<a>>]
        /\ linkSteps' = linkSteps
    BY <1>2, <1>3 DEF Debrid!ResolveTorrent, Debrid!Fail, Debrid!Finish
  <2> HIDE DEF a
  <2>3. /\ linkAnswers'[token'] = <<a>>
        /\ \A c \in 1..MaxCalls : c # token' => linkAnswers'[c] = linkAnswers[c]
        /\ linkAnswers' = [c \in 1..MaxCalls |-> linkAnswers'[c]]
    BY <1>1, <2>1 DEF LinkInv
  <2>4. AnsweredOnce'
    BY <1>1, <2>3 DEF LinkInv, AnsweredOnce
  <2>5. LastCall'
    BY <1>1, <2>1, <2>3 DEF LinkInv, StepsOwned, LastCall
  <2>6. StepsOwned'
    BY <1>1, <2>1 DEF LinkInv, StepsOwned
  <2> QED
    BY <1>1, <2>3, <2>4, <2>5, <2>6 DEF LinkInv
<1>4. CASE debridOn /\ configured # {}
  <2> DEFINE s == [token |-> token', step |-> IF Debrid!ActiveProvider = "torbox"
                                              THEN "check" ELSE "directdl"]
  <2>1. linkSteps' = linkSteps \cup {s} /\ linkAnswers' = linkAnswers
    BY <1>4 DEF Debrid!ResolveTorrent
  <2>2. s.token = token'
    OBVIOUS
  <2> HIDE DEF s
  <2>3. {r \in linkSteps' : r.token = token'} = {s}
    BY <1>1, <2>1, <2>2 DEF LinkInv, StepsOwned
  <2>4. LastCall'
    BY <1>2, <2>1, <2>3 DEF LastCall
  <2>5. StepsOwned'
    BY <1>1, <2>1, <2>2 DEF LinkInv, StepsOwned
  <2>6. AnsweredOnce'
    BY <1>1, <2>1 DEF LinkInv, AnsweredOnce
  <2> QED
    BY <1>1, <2>1, <2>4, <2>5, <2>6 DEF LinkInv
<1> QED
  BY <1>3, <1>4

\* A reply of a superseded call changes nothing of the last one.
LEMMA LinkDrops ==
    ASSUME LinkInv, NEW s \in linkSteps, Debrid!Drop(s), token' = token
    PROVE  LinkInv'
<1>1. s.token # token /\ linkSteps' = linkSteps \ {s} /\ linkAnswers' = linkAnswers
  BY DEF Debrid!Drop, Debrid!Superseded
<1>2. {r \in linkSteps' : r.token = token} = {r \in linkSteps : r.token = token}
  BY <1>1
<1>3. LastCall'
  BY <1>1, <1>2 DEF LinkInv, LastCall
<1> QED
  BY <1>1, <1>3 DEF LinkInv, StepsOwned, AnsweredOnce

\* The request of the last call makes way for its next one.
LEMMA LinkFollows ==
    ASSUME LinkInv, NEW s \in linkSteps, NEW next, Debrid!Follow(s, next),
           token' = token, next.token = s.token
    PROVE  LinkInv'
<1>1. /\ s.token = token /\ linkSteps' = (linkSteps \ {s}) \cup {next}
      /\ linkAnswers' = linkAnswers
  BY DEF Debrid!Follow, Debrid!Superseded
<1>2. token # 0 /\ {r \in linkSteps : r.token = token} = {s} /\ linkAnswers[token] = <<>>
  BY <1>1 DEF LinkInv, LastCall, StepsOwned
<1>3. {r \in linkSteps' : r.token = token} = {next}
  BY <1>1, <1>2
<1>4. LastCall'
  BY <1>1, <1>2, <1>3 DEF LastCall
<1> QED
  BY <1>1, <1>4 DEF LinkInv, StepsOwned, AnsweredOnce

\* The request of the last call makes way for its answer (finishOk, finishFail).
LEMMA LinkCloses ==
    ASSUME LinkInv, NEW s \in linkSteps, NEW answer, Debrid!Close(s, answer),
           token' = token
    PROVE  LinkInv'
<1>1. s.token = token /\ linkSteps' = linkSteps \ {s} /\ token \in 1..MaxCalls
  BY ServicesAssumption DEF Debrid!Close, Debrid!Superseded, LinkInv, StepsOwned
<1>2. token # 0 /\ {r \in linkSteps : r.token = token} = {s} /\ linkAnswers[token] = <<>>
  BY <1>1 DEF LinkInv, LastCall, StepsOwned
<1>3. linkAnswers' = [linkAnswers EXCEPT ![token] = <<answer>>]
  BY <1>1, <1>2 DEF Debrid!Close, Debrid!Finish
<1>4. /\ linkAnswers'[token] = <<answer>>
      /\ \A c \in 1..MaxCalls : c # token => linkAnswers'[c] = linkAnswers[c]
      /\ linkAnswers' = [c \in 1..MaxCalls |-> linkAnswers'[c]]
  BY <1>1, <1>3 DEF LinkInv
<1>5. AnsweredOnce'
  BY <1>1, <1>4 DEF LinkInv, AnsweredOnce
<1>6. LastCall'
  BY <1>1, <1>2, <1>4 DEF LastCall
<1> QED
  BY <1>1, <1>4, <1>5, <1>6 DEF LinkInv, StepsOwned

\* Every reply of the providers is dropped, goes on or closes.
LEMMA LinkReplies ==
    ASSUME LinkInv, NEW s \in linkSteps, Debrid!LinkReply(s)
    PROVE  LinkInv'
<1>0. token' = token
  BY DEF Debrid!LinkReply
<1>1. ASSUME NEW answer, Debrid!Close(s, answer) PROVE LinkInv'
  BY <1>0, <1>1, LinkCloses
<1>2. ASSUME NEW next, Debrid!Follow(s, next), next.token = s.token PROVE LinkInv'
  BY <1>0, <1>2, LinkFollows
<1>3. CASE Debrid!Drop(s)
  BY <1>0, <1>3, LinkDrops
<1>4. CASE Debrid!CheckReply(s)
  BY <1>2, <1>4 DEF Debrid!CheckReply
<1>5. CASE Debrid!CreateReply(s)
  BY <1>1, <1>2, <1>5 DEF Debrid!CreateReply
<1>6. CASE Debrid!DownloadReply(s)
  BY <1>1, <1>6 DEF Debrid!DownloadReply
<1>7. ASSUME NEW files \in Debrid!FileLists, Debrid!ListReply(s, files) PROVE LinkInv'
  BY <1>1, <1>2, <1>7 DEF Debrid!ListReply
<1>8. ASSUME NEW files \in Debrid!FileLists, Debrid!DirectReply(s, files) PROVE LinkInv'
  BY <1>1, <1>8 DEF Debrid!DirectReply
<1> QED
  BY <1>3, <1>4, <1>5, <1>6, <1>7, <1>8 DEF Debrid!LinkReply

\* Every step of DebridResolver keeps the invariant.
LEMMA LinkStep == ASSUME LinkInv, Debrid!Next PROVE LinkInv'
<1>1. CASE Debrid!ChangeSettings
  BY <1>1 DEF LinkInv, StepsOwned, AnsweredOnce, LastCall, Debrid!ChangeSettings
<1> QED
  BY <1>1, LinkResolves, LinkReplies DEF Debrid!Next

\* The invariant of DebridResolver, always.
LEMMA LinkIsInvariant == Spec => [](which = "debrid" => LinkInv)
<1> DEFINE I == which = "debrid" => LinkInv
<1>1. Init => I
  BY ServicesAssumption
  DEF Init, Debrid!Init, LinkInv, StepsOwned, AnsweredOnce, LastCall
<1>2. I /\ [Next]_vars => I'
  <2> SUFFICES ASSUME I, [Next]_vars, which' = "debrid" PROVE LinkInv'
    OBVIOUS
  <2>1. CASE Next
    BY <2>1, LinkStep DEF Next
  <2>2. CASE UNCHANGED vars
    <3>1. UNCHANGED <<which, linkVars>>
      BY <2>2 DEF vars
    <3> QED
      BY <3>1 DEF LinkInv, StepsOwned, AnsweredOnce, LastCall, linkVars
  <2> QED
    BY <2>1, <2>2
<1> QED
  BY <1>1, <1>2, PTL DEF Spec

\* Cardinality, as the instance of DebridLinks names it.
LEMMA LinksCardinality == ASSUME NEW S PROVE Debrid!Cardinality(S) = Cardinality(S)
BY DEF Cardinality, Debrid!Cardinality

\* DebridResolver answers a call once, and the last one as long as it asks.
THEOREM CallsAreAnsweredOnce == Spec => []OneAnswerPerCall
<1>1. ASSUME LinkInv PROVE Debrid!OneAnswerPerCall
  <2> DEFINE asking == {s \in linkSteps : s.token = token}
  <2>1. \A c \in 1..MaxCalls : Len(linkAnswers[c]) <= 1
    <3>1. \A a : Len(<<a>>) = 1
      OBVIOUS
    <3>2. ASSUME NEW c \in 1..MaxCalls PROVE Len(linkAnswers[c]) <= 1
      <4>1. CASE linkAnswers[c] = <<>>
        BY <4>1
      <4>2. CASE \E a : linkAnswers[c] = <<a>>
        BY <3>1, <4>2
      <4> QED
        BY <1>1, <4>1, <4>2 DEF LinkInv, AnsweredOnce
    <3> QED
      BY <3>2
  <2>2. ASSUME token > 0 PROVE Len(linkAnswers[token]) + Cardinality(asking) = 1
    <3>1. token \in 1..MaxCalls
      BY <1>1, <2>2, ServicesAssumption DEF LinkInv
    <3>2. CASE linkAnswers[token] # <<>> /\ asking = {}
      <4>1. Len(linkAnswers[token]) = 1
        <5>1. \E a : linkAnswers[token] = <<a>>
          BY <1>1, <3>1, <3>2 DEF LinkInv, AnsweredOnce
        <5> QED
          BY <5>1
      <4>2. Cardinality(asking) = 0
        BY <3>2, FS_EmptySet
      <4> QED
        BY <4>1, <4>2
    <3>3. CASE linkAnswers[token] = <<>> /\ \E s \in linkSteps : asking = {s}
      <4>1. Cardinality(asking) = 1
        BY <3>3, FS_Singleton
      <4> QED
        BY <3>3, <4>1
    <3> QED
      BY <1>1, <2>2, <3>2, <3>3 DEF LinkInv, LastCall
  <2> QED
    BY <2>1, <2>2, LinksCardinality DEF Debrid!OneAnswerPerCall
<1>2. (which = "debrid" => LinkInv) => OneAnswerPerCall
  BY <1>1 DEF OneAnswerPerCall
<1> QED
  BY <1>2, LinkIsInvariant, PTL

-----------------------------------------------------------------------------
(* TraktAuth, SimklAuth, DebridAuth. *)

\* A request or timer of the current generation's flow.
Flowing(r) == r.current /\ r.step \in Accounts!FlowSteps

\* What belongs to the current generation is one request or timer, of the
\* active profile; Simkl asks for nothing else.
AuthInv ==
    /\ profile \in Profiles /\ asked \subseteq Accounts!Request
    /\ keys \in [Profiles -> Profiles \cup {None}]
    /\ \A r, s \in asked : Flowing(r) /\ Flowing(s) => r = s
    /\ \A r \in asked : Flowing(r) => r.by = profile
    /\ service = "simkl" => /\ \A r \in asked : r.step \in Accounts!FlowSteps
                            /\ \A p \in Profiles : keys[p] \in {None, p}

\* After ++m_generation no request is of the current flow.
LEMMA OutdatedFlows ==
    ASSUME NEW rs \in SUBSET Accounts!Request
    PROVE  /\ Accounts!Outdated(rs) \subseteq Accounts!Request
           /\ \A r \in Accounts!Outdated(rs) : ~Flowing(r)
           /\ \A r \in Accounts!Outdated(rs) : \E s \in rs : r.step = s.step
<1> DEFINE O(r) == IF r.step \in Accounts!FlowSteps THEN [r EXCEPT !.current = FALSE]
                   ELSE r
<1>1. \A r \in rs : O(r) \in Accounts!Request /\ O(r).step = r.step /\ ~Flowing(O(r))
  BY DEF Accounts!Request, Flowing
<1>2. \A r \in Accounts!Outdated(rs) : \E s \in rs : r = O(s)
  BY DEF Accounts!Outdated
<1> HIDE DEF O
<1> QED
  BY <1>1, <1>2

\* Of requests rs, of which none is of the current flow, one may be asked.
LEMMA AskKeeps ==
    ASSUME NEW rs \in SUBSET Accounts!Request, \A r \in rs : ~Flowing(r),
           NEW step \in Accounts!Steps, NEW by \in Profiles, Accounts!Ask(rs, step, by),
           step \in Accounts!FlowSteps => by = profile
    PROVE  /\ asked' \subseteq Accounts!Request
           /\ \A r, s \in asked' : Flowing(r) /\ Flowing(s) => r = s
           /\ \A r \in asked' : Flowing(r) => r.by = profile
           /\ \A r \in asked' : r.step = step \/ r \in rs
<1> DEFINE new == [step |-> step, by |-> by, current |-> TRUE]
<1>1. asked' = rs \cup {new} /\ new \in Accounts!Request
      /\ new.step = step /\ new.by = by
  BY DEF Accounts!Ask, Accounts!Request
<1> HIDE DEF new
<1> QED
  BY <1>1 DEF Flowing

\* What the user starts is the only flow, or none (startDeviceFlow,
\* cancelDeviceFlow, signOut, setProfileId).
LEMMA AuthUser == ASSUME AuthInv, Accounts!User PROVE AuthInv'
<1>0. /\ Accounts!Outdated(asked) \subseteq Accounts!Request
      /\ \A r \in Accounts!Outdated(asked) : ~Flowing(r)
      /\ \A r \in Accounts!Outdated(asked) : \E s \in asked : r.step = s.step
  BY OutdatedFlows DEF AuthInv
<1>1. CASE Accounts!StartFlow
  <2>1. /\ Accounts!Ask(Accounts!Outdated(asked), "start", profile)
        /\ UNCHANGED <<profile, service, keys>>
    BY <1>1 DEF Accounts!StartFlow
  <2>2. /\ "start" \in Accounts!Steps /\ "start" \in Accounts!FlowSteps
        /\ profile \in Profiles
    BY DEF Accounts!Steps, Accounts!FlowSteps, AuthInv
  <2>3. /\ asked' \subseteq Accounts!Request
        /\ \A r, s \in asked' : Flowing(r) /\ Flowing(s) => r = s
        /\ \A r \in asked' : Flowing(r) => r.by = profile
        /\ \A r \in asked' : r.step = "start" \/ r \in Accounts!Outdated(asked)
    BY <1>0, <2>1, <2>2, AskKeeps
  <2> QED
    BY <1>0, <2>1, <2>2, <2>3 DEF AuthInv, Flowing
<1>2. CASE Accounts!CancelFlow
  BY <1>0, <1>2 DEF AuthInv, Accounts!CancelFlow, Flowing
<1>3. CASE Accounts!SignOut
  BY <1>0, <1>3 DEF AuthInv, Accounts!SignOut, Accounts!Store, Flowing
<1>4. ASSUME NEW step \in {"apiKey", "refresh"}, NEW by,
             Accounts!Ask(asked, step, by), by \in Profiles, service # "simkl",
             UNCHANGED <<profile, service, keys>>
      PROVE  AuthInv'
  <2> DEFINE new == [step |-> step, by |-> by, current |-> TRUE]
  <2>1. asked' = asked \cup {new} /\ new \in Accounts!Request /\ ~Flowing(new)
    BY <1>4 DEF Accounts!Ask, Accounts!Request, Accounts!Steps, Flowing,
                Accounts!FlowSteps
  <2> HIDE DEF new
  <2> QED
    BY <1>4, <2>1 DEF AuthInv, Flowing
<1>5. CASE Accounts!EnterKey
  BY <1>4, <1>5 DEF Accounts!EnterKey, AuthInv
<1>6. CASE Accounts!Refresh /\ keys[profile] \in Profiles
  BY <1>4, <1>6 DEF Accounts!Refresh
<1>7. ASSUME NEW p \in Profiles, Accounts!SwitchAccount(p) PROVE AuthInv'
  BY <1>0, <1>7 DEF AuthInv, Accounts!SwitchAccount, Flowing
<1>8. Accounts!Refresh => keys[profile] \in Profiles
  BY DEF Accounts!Refresh, AuthInv
<1> QED
  BY <1>1, <1>2, <1>3, <1>5, <1>6, <1>7, <1>8 DEF Accounts!User

\* A reply or timer r that is done with, and may go on as one of its flow.
LEMMA AuthGoesOn ==
    ASSUME AuthInv, NEW r \in asked, NEW step \in {"timer", "poll"}, Flowing(r),
           Accounts!Ask(asked \ {r}, step, r.by), UNCHANGED <<profile, service, keys>>
    PROVE  AuthInv'
<1>1. /\ asked \ {r} \in SUBSET Accounts!Request
      /\ \A s \in asked \ {r} : ~Flowing(s)
      /\ r.by = profile /\ r.by \in Profiles
      /\ step \in Accounts!Steps /\ step \in Accounts!FlowSteps
  BY DEF AuthInv, Accounts!Steps, Accounts!FlowSteps
<1>2. /\ asked' \subseteq Accounts!Request
      /\ \A s, t \in asked' : Flowing(s) /\ Flowing(t) => s = t
      /\ \A s \in asked' : Flowing(s) => s.by = profile
      /\ \A s \in asked' : s.step = step \/ s \in asked \ {r}
  BY <1>1, AskKeeps
<1> QED
  BY <1>1, <1>2 DEF AuthInv, Flowing

\* A reply that only ends may store what it brings, for Simkl its own.
LEMMA AuthEnds ==
    ASSUME AuthInv, asked' \subseteq asked, UNCHANGED <<profile, service>>,
           NEW key \in Profiles \cup {None}, keys' = keys \/ Accounts!Store(key),
           service = "simkl" => key \in {None, profile}
    PROVE  AuthInv'
BY DEF AuthInv, Accounts!Store, Flowing

\* Every reply and timer goes on, ends, or is of an earlier generation.
LEMMA AuthReplies ==
    ASSUME AuthInv, NEW r \in asked, NEW good \in BOOLEAN, NEW expired \in BOOLEAN,
           NEW answer \in {"pending", "lost", "denied", "granted", "rejected",
                           "failed", "renewed"},
           \/ Accounts!StartReply(r, good) \/ Accounts!KeyReply(r, good)
           \/ Accounts!PollTimer(r, expired) \/ Accounts!PollReply(r, answer)
           \/ Accounts!RefreshReply(r, answer)
    PROVE  AuthInv'
<1>0. /\ UNCHANGED <<profile, service>> /\ r \in Accounts!Request
      /\ None \in Profiles \cup {None}
  BY DEF AuthInv, Accounts!StartReply, Accounts!KeyReply, Accounts!PollTimer,
         Accounts!PollReply, Accounts!RefreshReply
<1>1. ASSUME asked' = asked \ {r}, UNCHANGED keys PROVE AuthInv'
  BY <1>0, <1>1, AuthEnds
<1>2. CASE Accounts!StartReply(r, good)
  <2>1. CASE r.current /\ Accounts!Ask(asked \ {r}, "timer", r.by) /\ UNCHANGED keys
    <3>1. Flowing(r)
      BY <1>2, <2>1 DEF Flowing, Accounts!StartReply, Accounts!FlowSteps
    <3> QED
      BY <1>0, <2>1, <3>1, AuthGoesOn
  <2> QED
    BY <1>1, <1>2, <2>1 DEF Accounts!StartReply, Accounts!Ignored
<1>3. CASE Accounts!PollTimer(r, expired)
  <2>1. CASE r.current /\ Accounts!Ask(asked \ {r}, "poll", r.by) /\ UNCHANGED keys
    <3>1. Flowing(r)
      BY <1>3, <2>1 DEF Flowing, Accounts!PollTimer, Accounts!FlowSteps
    <3> QED
      BY <1>0, <2>1, <3>1, AuthGoesOn
  <2> QED
    BY <1>1, <1>3, <2>1 DEF Accounts!PollTimer, Accounts!Ignored
<1>4. CASE Accounts!PollReply(r, answer)
  <2>0. r.step \in Accounts!FlowSteps
    BY <1>4 DEF Accounts!PollReply, Accounts!FlowSteps
  <2>1. CASE r.current /\ Accounts!Ask(asked \ {r}, "timer", r.by) /\ UNCHANGED keys
    <3>1. Flowing(r)
      BY <2>0, <2>1 DEF Flowing
    <3> QED
      BY <1>0, <2>1, <3>1, AuthGoesOn
  <2>2. CASE r.current /\ asked' = asked \ {r} /\ Accounts!Store(r.by)
    <3>1. r.by = profile /\ r.by \in Profiles
      BY <2>0, <2>2 DEF AuthInv, Flowing
    <3> QED
      BY <1>0, <2>2, <3>1, AuthEnds
  <2> QED
    BY <1>1, <1>4, <2>1, <2>2 DEF Accounts!PollReply, Accounts!Ignored
<1>5. ASSUME service # "simkl", NEW key \in Profiles \cup {None},
             asked' = asked \ {r} \/ asked' = Accounts!Outdated(asked \ {r}),
             keys' = keys \/ Accounts!Store(key)
      PROVE  AuthInv'
  <2>1. CASE asked' = asked \ {r}
    BY <1>0, <1>5, <2>1, AuthEnds
  <2>2. CASE asked' = Accounts!Outdated(asked \ {r})
    <3>1. asked' \subseteq Accounts!Request /\ \A s \in asked' : ~Flowing(s)
      BY <2>2, OutdatedFlows DEF AuthInv
    <3> QED
      BY <1>0, <1>5, <3>1 DEF AuthInv, Accounts!Store, Flowing
  <2> QED
    BY <1>5, <2>1, <2>2
<1>6. service = "simkl" => r.step \in Accounts!FlowSteps
  BY DEF AuthInv
<1>7. r.by \in Profiles \cup {None}
  BY <1>0 DEF Accounts!Request
<1>8. CASE Accounts!KeyReply(r, good)
  <2>1. service # "simkl"
    BY <1>6, <1>8 DEF Accounts!KeyReply, Accounts!FlowSteps
  <2>2. asked' = asked \ {r} /\ (keys' = keys \/ Accounts!Store(r.by))
    BY <1>8, Zenon DEF Accounts!KeyReply
  <2> QED
    BY <1>5, <1>7, <2>1, <2>2
<1>9. CASE Accounts!RefreshReply(r, answer)
  <2>1. service # "simkl"
    BY <1>6, <1>9 DEF Accounts!RefreshReply, Accounts!FlowSteps
  <2>2. \/ asked' = Accounts!Outdated(asked \ {r}) /\ Accounts!Store(None)
        \/ asked' = asked \ {r} /\ (keys' = keys \/ Accounts!Store(r.by))
    BY <1>9 DEF Accounts!RefreshReply
  <2> QED
    BY <1>0, <1>5, <1>7, <2>1, <2>2
<1> QED
  BY <1>2, <1>3, <1>4, <1>8, <1>9

\* Every step of the three services keeps the invariant.
LEMMA AuthStep == ASSUME AuthInv, Accounts!Next PROVE AuthInv'
BY AuthUser, AuthReplies DEF Accounts!Next

\* Cardinality, as the instance of DeviceAuth names it.
LEMMA AccountsCardinality ==
    ASSUME NEW S PROVE Accounts!Cardinality(S) = Cardinality(S)
BY DEF Cardinality, Accounts!Cardinality

\* The invariant in the terms of the property.
LEMMA AuthInvSays == ASSUME AuthInv PROVE Accounts!FlowsKeepToThemselves
<1> DEFINE current == {r \in asked : r.current /\ r.step \in Accounts!FlowSteps}
<1>1. CASE current = {}
  <2>1. Cardinality(current) = 0
    BY <1>1, FS_EmptySet
  <2> QED
    BY <2>1, AccountsCardinality DEF AuthInv, Accounts!FlowsKeepToThemselves
<1>2. CASE \E r : current = {r}
  <2>1. Cardinality(current) = 1
    BY <1>2, FS_Singleton
  <2> QED
    BY <2>1, AccountsCardinality DEF AuthInv, Accounts!FlowsKeepToThemselves
<1>3. current = {} \/ \E r : current = {r}
  BY DEF AuthInv, Flowing
<1> QED
  BY <1>1, <1>2, <1>3

\* No two requests of a current flow, in any behaviour.
LEMMA AuthIsInvariant == Spec => [](which = "accounts" => AuthInv)
<1> DEFINE I == which = "accounts" => AuthInv
<1>1. Init => I
  BY DEF Init, Accounts!Init, AuthInv
<1>2. I /\ [Next]_vars => I'
  <2> SUFFICES ASSUME I, [Next]_vars, which' = "accounts" PROVE AuthInv'
    OBVIOUS
  <2>1. CASE Next
    BY <2>1, AuthStep DEF Next
  <2>2. CASE UNCHANGED vars
    <3>1. UNCHANGED <<which, profile, authVars>>
      BY <2>2 DEF vars
    <3> QED
      BY <3>1 DEF AuthInv, Flowing, authVars
  <2> QED
    BY <2>1, <2>2
<1> QED
  BY <1>1, <1>2, PTL DEF Spec

\* TraktAuth, SimklAuth and DebridAuth have one flow that polls, and Simkl's
\* tokens go to the profile that asked, for any profiles and requests.
THEOREM FlowsAreOfTheirProfile == Spec => []FlowsKeepToThemselves
<1>1. (which = "accounts" => AuthInv) => FlowsKeepToThemselves
  BY AuthInvSays DEF FlowsKeepToThemselves
<1> QED
  BY <1>1, AuthIsInvariant, PTL

-----------------------------------------------------------------------------
(* HomeCatalogSyncController. *)

\* The cached object is the one of m_pullCompleteUser and ...Profile, and a
\* push that is open was built from it.
CatalogInv ==
    /\ profile \in Profiles /\ user \in Users \cup {None}
    /\ settingsJson \in [HomeCatalog!Owners -> HomeCatalog!Object]
    /\ prefs \in [Profiles -> CatalogValues]
    /\ catalogRequest \in HomeCatalog!Request
    /\ cachedRemote \in HomeCatalog!Object \cup {None}
    /\ HomeCatalog!KeysReturnToTheirOwner
    /\ cachedRemote # None => cachedRemote.foreign \in {pullComplete, None}
    /\ catalogRequest.call = "push" =>
          /\ catalogRequest.of = pullComplete
          /\ catalogRequest.object.foreign \in {catalogRequest.of, None}

\* Nothing has been pulled when the program starts.
LEMMA CatalogInit == ASSUME HomeCatalog!Init PROVE CatalogInv
<1> USE DEF HomeCatalog!Init
<1>1. profile \in Profiles /\ user \in Users \cup {None} /\ cachedRemote = None
      /\ HomeCatalog!KeysReturnToTheirOwner
  BY DEF HomeCatalog!KeysReturnToTheirOwner
<1>2. settingsJson \in [HomeCatalog!Owners -> HomeCatalog!Object]
  BY DEF HomeCatalog!Object, HomeCatalog!EmptyObject
<1>3. catalogRequest \in HomeCatalog!Request /\ catalogRequest.call # "push"
  BY DEF HomeCatalog!Request, HomeCatalog!NoRequest, HomeCatalog!Owner,
         HomeCatalog!Owners
<1>4. prefs \in [Profiles -> CatalogValues]
  OBVIOUS
<1> QED
  BY <1>1, <1>2, <1>3, <1>4 DEF CatalogInv

\* Edits and switches leave what was pulled, and for whom, alone.
LEMMA CatalogUser ==
    ASSUME CatalogInv,
           \/ \E v \in CatalogValues : HomeCatalog!EditPrefs(v)
           \/ \E p \in Profiles : HomeCatalog!SwitchProfile(p)
           \/ \E u \in Users \cup {None} : HomeCatalog!ChangeUser(u)
    PROVE  CatalogInv'
<1>1. ASSUME NEW v \in CatalogValues, HomeCatalog!EditPrefs(v) PROVE CatalogInv'
  BY <1>1 DEF CatalogInv, HomeCatalog!EditPrefs, HomeCatalog!KeysReturnToTheirOwner
<1>2. ASSUME NEW p \in Profiles, HomeCatalog!SwitchProfile(p) PROVE CatalogInv'
  BY <1>2 DEF CatalogInv, HomeCatalog!SwitchProfile,
              HomeCatalog!KeysReturnToTheirOwner
<1>3. ASSUME NEW u \in Users \cup {None}, HomeCatalog!ChangeUser(u) PROVE CatalogInv'
  <2>1. CASE catalogRequest' = catalogRequest
    BY <1>3, <2>1 DEF CatalogInv, HomeCatalog!ChangeUser,
                      HomeCatalog!KeysReturnToTheirOwner
  <2>2. CASE u # None /\ catalogRequest' = [call |-> "pull", of |-> <<u, profile>>]
    <3>1. catalogRequest' \in HomeCatalog!Request /\ catalogRequest'.call = "pull"
      BY <2>2 DEF CatalogInv, HomeCatalog!Request, HomeCatalog!Owners
    <3> QED
      BY <1>3, <3>1 DEF CatalogInv, HomeCatalog!ChangeUser,
                        HomeCatalog!KeysReturnToTheirOwner
  <2> QED
    BY <1>3, <2>1, <2>2 DEF HomeCatalog!ChangeUser
<1> QED
  BY <1>1, <1>2, <1>3

\* A push is built only for the user and profile that were pulled last.
LEMMA CatalogPushes == ASSUME CatalogInv, HomeCatalog!PushNow PROVE CatalogInv'
<1>1. CASE catalogRequest' = catalogRequest
  BY <1>1 DEF CatalogInv, HomeCatalog!PushNow, HomeCatalog!KeysReturnToTheirOwner
<1>2. CASE catalogRequest' # catalogRequest
  <2> DEFINE object == HomeCatalog!Merge(HomeCatalog!Base, prefs[profile])
  <2>1. /\ user # None /\ pullComplete = <<user, profile>>
        /\ catalogRequest' = [call |-> "push", of |-> pullComplete, object |-> object]
        /\ catalogRequest = HomeCatalog!NoRequest
    BY <1>2 DEF HomeCatalog!PushNow, HomeCatalog!MayPush, HomeCatalog!PullTokenReady,
                HomeCatalog!Owner
  <2>2. object.foreign \in {pullComplete, None} /\ object \in HomeCatalog!Object
    BY DEF CatalogInv, HomeCatalog!Merge, HomeCatalog!Base, HomeCatalog!EmptyObject,
           HomeCatalog!Object
  <2>3. pullComplete \in HomeCatalog!Owners
    BY <2>1 DEF CatalogInv, HomeCatalog!Owners
  <2> HIDE DEF object
  <2>4. catalogRequest' \in HomeCatalog!Request
    BY <2>1, <2>2, <2>3 DEF HomeCatalog!Request
  <2> QED
    BY <2>1, <2>2, <2>4 DEF CatalogInv, HomeCatalog!PushNow,
                            HomeCatalog!KeysReturnToTheirOwner
<1> QED
  BY <1>1, <1>2

\* An answer replaces the cached object and its owner together.
LEMMA CatalogReplies ==
    ASSUME CatalogInv,
           \/ \E ok \in BOOLEAN : HomeCatalog!PushReply(ok)
           \/ HomeCatalog!PullReply \/ HomeCatalog!PullFails
    PROVE  CatalogInv'
<1>0. HomeCatalog!NoRequest \in HomeCatalog!Request
      /\ HomeCatalog!NoRequest.call # "push"
  BY DEF HomeCatalog!NoRequest, HomeCatalog!Request
<1>1. ASSUME NEW ok \in BOOLEAN, HomeCatalog!PushReply(ok) PROVE CatalogInv'
  <2> DEFINE of == catalogRequest.of
             object == catalogRequest.object
  <2>1. /\ of \in HomeCatalog!Owners /\ object \in HomeCatalog!Object
        /\ of = pullComplete /\ object.foreign \in {of, None}
    BY <1>1 DEF CatalogInv, HomeCatalog!PushReply, HomeCatalog!Request,
                HomeCatalog!NoRequest
  <2>2. /\ catalogRequest' = HomeCatalog!NoRequest
        /\ UNCHANGED <<profile, user, prefs, pullComplete>>
        /\ cachedRemote' \in {object, cachedRemote}
        /\ settingsJson' \in {[settingsJson EXCEPT ![of] = object], settingsJson}
    BY <1>1, Zenon DEF HomeCatalog!PushReply
  <2> HIDE DEF of, object
  <2>3. settingsJson' \in [HomeCatalog!Owners -> HomeCatalog!Object]
    BY <2>1, <2>2 DEF CatalogInv
  <2>4. HomeCatalog!KeysReturnToTheirOwner'
    BY <2>1, <2>2 DEF CatalogInv, HomeCatalog!KeysReturnToTheirOwner
  <2> QED
    BY <1>0, <2>1, <2>2, <2>3, <2>4 DEF CatalogInv
<1>2. ASSUME HomeCatalog!PullReply PROVE CatalogInv'
  <2> DEFINE remote == settingsJson[catalogRequest.of]
  <2>1. catalogRequest.of \in HomeCatalog!Owners
    BY <1>2 DEF CatalogInv, HomeCatalog!PullReply, HomeCatalog!Request,
                HomeCatalog!NoRequest
  <2>2. remote \in HomeCatalog!Object /\ remote.foreign \in {catalogRequest.of, None}
    BY <2>1 DEF CatalogInv, HomeCatalog!KeysReturnToTheirOwner
  <2>3. /\ catalogRequest' = HomeCatalog!NoRequest /\ cachedRemote' = remote
        /\ pullComplete' = catalogRequest.of
        /\ UNCHANGED <<profile, user, settingsJson>>
        /\ prefs' = IF remote.value = None THEN prefs
                    ELSE [prefs EXCEPT ![profile] = remote.value]
    BY <1>2 DEF HomeCatalog!PullReply
  <2> HIDE DEF remote
  <2>4. prefs' \in [Profiles -> CatalogValues]
    BY <2>2, <2>3 DEF CatalogInv, HomeCatalog!Object
  <2> QED
    BY <1>0, <2>2, <2>3, <2>4 DEF CatalogInv, HomeCatalog!KeysReturnToTheirOwner
<1>3. ASSUME HomeCatalog!PullFails PROVE CatalogInv'
  BY <1>0, <1>3 DEF CatalogInv, HomeCatalog!PullFails,
                    HomeCatalog!KeysReturnToTheirOwner
<1> QED
  BY <1>1, <1>2, <1>3

\* Every step of HomeCatalogSyncController keeps the invariant.
LEMMA CatalogStep == ASSUME CatalogInv, HomeCatalog!Next PROVE CatalogInv'
BY CatalogUser, CatalogPushes, CatalogReplies DEF HomeCatalog!Next

\* The cached document and a push are of the owner that was pulled, always.
LEMMA CatalogIsInvariant == Spec => [](which = "catalog" => CatalogInv)
<1> DEFINE I == which = "catalog" => CatalogInv
<1>1. Init => I
  BY CatalogInit DEF Init
<1>2. I /\ [Next]_vars => I'
  <2> SUFFICES ASSUME I, [Next]_vars, which' = "catalog" PROVE CatalogInv'
    OBVIOUS
  <2>1. CASE Next
    BY <2>1, CatalogStep DEF Next
  <2>2. CASE UNCHANGED vars
    <3>1. UNCHANGED <<which, profile, catalogVars>>
      BY <2>2 DEF vars
    <3> QED
      BY <3>1 DEF CatalogInv, HomeCatalog!KeysReturnToTheirOwner, catalogVars
  <2> QED
    BY <2>1, <2>2
<1> QED
  BY <1>1, <1>2, PTL DEF Spec

\* HomeCatalogSyncController sends the keys of other clients back to whom they
\* were pulled for, for any users and profiles.
THEOREM KeysReturn == Spec => []KeysReturnToTheirOwner
<1>1. (which = "catalog" => CatalogInv) => KeysReturnToTheirOwner
  BY DEF CatalogInv, KeysReturnToTheirOwner
<1> QED
  BY <1>1, CatalogIsInvariant, PTL

-----------------------------------------------------------------------------
(* SyncOrchestrator. *)

\* A push that is open carries what this client has received for its profile.
BlobInv ==
    /\ profile \in Profiles
    /\ rest \in [Profiles -> Settings!Owned]
    /\ server \in [Profiles -> Settings!Blob]
    /\ request \in Settings!Request
    /\ player \in [Profiles -> Settings!Feature] /\ cw \in [Profiles -> Settings!Feature]
    /\ request.call = "push" => request.blob.rest = rest[request.p]

\* No push is open when the program starts.
LEMMA BlobInit == ASSUME Settings!Init PROVE BlobInv
<1> USE DEF Settings!Init, Settings!Owned, Settings!Feature
<1>1. request \in Settings!Request /\ request.call # "push"
  BY DEF Settings!PullNow, Settings!Request, Settings!Idle
<1>2. server \in [Profiles -> Settings!Blob]
  BY DEF Settings!EmptyBlob, Settings!Blob
<1>3. player \in [Profiles -> Settings!Feature] /\ cw \in [Profiles -> Settings!Feature]
      /\ rest \in [Profiles -> Settings!Owned] /\ profile \in Profiles
  OBVIOUS
<1> QED
  BY <1>1, <1>2, <1>3 DEF BlobInv

\* Edits, switches and restarts send nothing and receive nothing.
LEMMA BlobUser == ASSUME BlobInv, Settings!User PROVE BlobInv' /\ Settings!SendsBack
<1>1. ASSUME NEW v \in Values, Settings!EditPlayer(v) PROVE BlobInv' /\ server' = server
  BY <1>1 DEF BlobInv, Settings!EditPlayer, Settings!Feature
<1>2. ASSUME NEW v \in Values, Settings!EditCw(v) PROVE BlobInv' /\ server' = server
  BY <1>2 DEF BlobInv, Settings!EditCw, Settings!Feature
<1>3. ASSUME NEW p \in Profiles, Settings!SwitchProfile(p)
      PROVE  BlobInv' /\ server' = server
  BY <1>3 DEF BlobInv, Settings!SwitchProfile, settingsVars, Settings!settingsVars
<1>4. ASSUME Settings!SignInOrOut PROVE BlobInv' /\ server' = server
  BY <1>4 DEF BlobInv, Settings!SignInOrOut, Settings!settingsVars
<1>5. ASSUME Settings!Restart PROVE BlobInv' /\ server' = server
  <2>1. request' \in Settings!Request /\ request'.call # "push"
    BY <1>5 DEF BlobInv, Settings!Restart, Settings!PullNow, Settings!Request,
                Settings!Idle
  <2> QED
    BY <1>5, <2>1 DEF BlobInv, Settings!Restart
<1>6. BlobInv' /\ server' = server
  BY <1>1, <1>2, <1>3, <1>4, <1>5 DEF Settings!User
<1> QED
  BY <1>6 DEF Settings!SendsBack

\* doPush builds the blob from what was received for the profile.
LEMMA BlobPush == ASSUME BlobInv, Settings!DoPush PROVE BlobInv' /\ Settings!SendsBack
<1>1. server' = server /\ rest' = rest /\ player' = player /\ cw' = cw
      /\ profile' = profile
  BY DEF Settings!DoPush
<1>2. CASE request' = request
  BY <1>1, <1>2 DEF BlobInv, Settings!SendsBack
<1>3. CASE request' # request
  <2>1. request' = [call |-> "push", p |-> profile, blob |-> Settings!FullPushBlob]
    BY <1>3 DEF Settings!DoPush
  <2>2. Settings!FullPushBlob \in Settings!Blob
        /\ Settings!FullPushBlob.rest = rest[profile]
    BY DEF BlobInv, Settings!FullPushBlob, Settings!Blob
  <2>3. request' \in Settings!Request
    BY <2>1, <2>2 DEF BlobInv, Settings!Request
  <2> QED
    BY <1>1, <2>1, <2>2, <2>3 DEF BlobInv, Settings!SendsBack
<1> QED
  BY <1>2, <1>3

\* While a push is open nothing is received; a pull adds and never takes.
LEMMA BlobReplies ==
    ASSUME BlobInv, Settings!Replies PROVE BlobInv' /\ Settings!SendsBack
<1>0. Settings!Idle \in Settings!Request /\ Settings!Idle.call # "push"
  BY DEF Settings!Request, Settings!Idle
<1>1. ASSUME NEW ok \in BOOLEAN, Settings!PushReply(ok)
      PROVE  BlobInv' /\ Settings!SendsBack
  <2> DEFINE of == request.p
             blob == request.blob
  <2>1. of \in Profiles /\ blob \in Settings!Blob /\ blob.rest = rest[of]
    BY <1>1 DEF BlobInv, Settings!PushReply, Settings!Request, Settings!Idle
  <2>2. /\ request' = Settings!Idle
        /\ UNCHANGED <<profile, player, cw, rest>>
        /\ server' = server \/ server' = [server EXCEPT ![of] = blob]
    BY <1>1 DEF Settings!PushReply
  <2> HIDE DEF of, blob
  <2>3. server' \in [Profiles -> Settings!Blob] /\ Settings!SendsBack
    BY <2>1, <2>2 DEF BlobInv, Settings!SendsBack
  <2> QED
    BY <1>0, <2>2, <2>3 DEF BlobInv
<1>2. ASSUME Settings!PullFails PROVE BlobInv' /\ Settings!SendsBack
  BY <1>0, <1>2 DEF BlobInv, Settings!PullFails, Settings!SendsBack
<1>3. ASSUME Settings!PullReply PROVE BlobInv' /\ Settings!SendsBack
  <2> DEFINE of == request.p
             b == server[of]
             newCw == Settings!Present(b.cw, cw[of])
             newPlayer == Settings!Present(b.player, player[profile])
             newRest == Settings!Present(b.rest, rest[profile])
  <2>1. of \in Profiles
    BY <1>3 DEF BlobInv, Settings!PullReply, Settings!Request, Settings!Idle
  <2>2. b \in Settings!Blob
    BY <2>1 DEF BlobInv
  <2>3. newCw \in Settings!Feature /\ newPlayer \in Settings!Feature
        /\ newRest \in Settings!Owned
    BY <2>1, <2>2 DEF BlobInv, Settings!Blob, Settings!Present
  <2>4. /\ request' = Settings!Idle /\ UNCHANGED <<profile, server>>
        /\ rest' = [rest EXCEPT ![profile] = newRest]
        /\ cw' = [cw EXCEPT ![of] = newCw]
        /\ player' = [player EXCEPT ![profile] = newPlayer]
    BY <1>3 DEF Settings!PullReply
  <2> HIDE DEF of, b, newCw, newPlayer, newRest
  <2> QED
    BY <1>0, <2>1, <2>3, <2>4 DEF BlobInv, Settings!SendsBack
<1> QED
  BY <1>1, <1>2, <1>3 DEF Settings!Replies

\* Every step of SyncOrchestrator keeps the invariant and sends back.
LEMMA BlobStep == ASSUME BlobInv, Settings!Next PROVE BlobInv' /\ Settings!SendsBack
<1>1. ASSUME NEW p \in Profiles, NEW v \in Values, Settings!OtherClient(p, v)
      PROVE  BlobInv' /\ Settings!SendsBack
  <2> DEFINE b == [player |-> v, cw |-> v, rest |-> p]
  <2>1. b \in Settings!Blob /\ b.rest # None
    BY ServicesAssumption DEF Settings!Blob, Settings!Feature, Settings!Owned
  <2>2. /\ server' = [server EXCEPT ![p] = b]
        /\ UNCHANGED <<profile, rest, request, player, cw>>
    BY <1>1 DEF Settings!OtherClient
  <2> HIDE DEF b
  <2> QED
    BY <2>1, <2>2 DEF BlobInv, Settings!SendsBack
<1> QED
  BY <1>1, BlobUser, BlobPush, BlobReplies DEF Settings!Next

\* What a push carries is what the profile it is for has received, always.
LEMMA BlobIsInvariant == Spec => [](which = "settings" => BlobInv)
<1> DEFINE I == which = "settings" => BlobInv
<1>1. Init => I
  BY BlobInit DEF Init
<1>2. I /\ [Next]_vars => I'
  <2> SUFFICES ASSUME I, [Next]_vars, which' = "settings" PROVE BlobInv'
    OBVIOUS
  <2>1. CASE Next
    BY <2>1, BlobStep DEF Next
  <2>2. CASE UNCHANGED vars
    <3>1. UNCHANGED <<which, profile, settingsVars>>
      BY <2>2 DEF vars
    <3> QED
      BY <3>1 DEF BlobInv, settingsVars
  <2> QED
    BY <2>1, <2>2
<1> QED
  BY <1>1, <1>2, PTL DEF Spec

\* SyncOrchestrator sends back what it has received of other clients, for any
\* profiles and values.
THEOREM SendsBackWhatItReceived == Spec => ReceivedIsSentBack
<1>1. (which = "settings" => BlobInv) /\ [Next]_vars =>
        [which = "settings" => Settings!SendsBack]_vars
  <2> SUFFICES ASSUME which = "settings", BlobInv, Next PROVE Settings!SendsBack
    OBVIOUS
  <2>1. Settings!Next
    BY DEF Next
  <2> QED
    BY <2>1, BlobStep
<1> QED
  BY <1>1, BlobIsInvariant, PTL DEF Spec, ReceivedIsSentBack

-----------------------------------------------------------------------------
(* AppSettings. *)

\* A key written for the active profile is the one that is read for it.
PrefInv ==
    /\ profile \in Profiles /\ kept = [p \in Profiles |-> kept[p]]
    /\ Preferences!ShownIsStored

\* A getter without an older key reads the active profile's key.
LEMMA GotWithoutLegacy ==
    ASSUME legacy = None
    PROVE  /\ Preferences!Got.value = Preferences!ReadOf(kept[profile])
           /\ Preferences!Got.kept = kept
BY DEF Preferences!Got

\* A getter that migrates keeps a key for each profile.
LEMMA GotKeepsKeys ==
    ASSUME PrefInv
    PROVE  Preferences!Got.kept = [p \in Profiles |-> Preferences!Got.kept[p]]
BY DEF PrefInv, Preferences!Got

\* What a step that writes raw, and tells of it, makes of the invariant.
LEMMA WriteTold ==
    ASSUME PrefInv, NEW raw, profile' = profile, kind' = kind, legacy' = None,
           kept' = [Preferences!Got.kept EXCEPT ![profile] = raw],
           Preferences!Notify(raw)
    PROVE  PrefInv'
<1>1. kept' = [p \in Profiles |-> kept'[p]] /\ kept'[profile] = raw
  BY GotKeepsKeys DEF PrefInv
<1>2. shown' # None => shown' = Preferences!ReadOf(raw)
  BY DEF Preferences!Notify, Preferences!Displays
<1>3. Preferences!ReadOf(raw)' = Preferences!ReadOf(raw)
  BY DEF Preferences!ReadOf
<1> QED
  BY <1>1, <1>2, <1>3 DEF PrefInv, Preferences!ShownIsStored

\* Opening a page, and the signals of a family, show what is stored.
LEMMA PrefReads ==
    ASSUME PrefInv, Preferences!OpenPage \/ Preferences!ClosePage
                    \/ Preferences!SignalOfFamily
    PROVE  PrefInv'
<1>1. CASE Preferences!OpenPage
  <2>1. legacy # None => fromLegacy'
    BY <1>1, Zenon DEF Preferences!OpenPage
  <2>2. legacy = None => shown' = Preferences!ReadOf(kept[profile]) /\ kept' = kept
    BY <1>1, GotWithoutLegacy DEF Preferences!OpenPage, Preferences!Displays
  <2>3. profile' = profile /\ kind' = kind /\ legacy' = None
        /\ kept' = Preferences!Got.kept
    BY <1>1 DEF Preferences!OpenPage
  <2>4. kept' = [p \in Profiles |-> kept'[p]]
    BY <2>3, GotKeepsKeys
  <2> QED
    BY <2>1, <2>2, <2>3, <2>4 DEF PrefInv, Preferences!ShownIsStored,
                                  Preferences!ReadOf
<1>2. CASE Preferences!ClosePage
  BY <1>2 DEF PrefInv, Preferences!ShownIsStored, Preferences!ClosePage
<1>3. CASE Preferences!SignalOfFamily
  BY <1>3 DEF PrefInv, Preferences!ShownIsStored, Preferences!SignalOfFamily,
              Preferences!Notify, Preferences!Displays, Preferences!ReadOf
<1> QED
  BY <1>1, <1>2, <1>3

\* A setter that is given what it has, and a pull that reads as what was there,
\* tell nothing and need not.
LEMMA PrefWrites ==
    ASSUME PrefInv, NEW v \in Preferences!SettingValues,
           Preferences!Set(v) \/ Preferences!ApplyPlayerSyncPayload(v)
    PROVE  PrefInv'
<1>1. CASE Preferences!Set(v)
  <2>1. CASE Preferences!Got.value = Preferences!Clamped(v)
    <3>1. /\ UNCHANGED <<profile, kind, shown, moved, fromLegacy>>
          /\ legacy' = None /\ kept' = Preferences!Got.kept
      BY <1>1, <2>1 DEF Preferences!Set
    <3>2. shown # None => kept' = kept
      BY <3>1, GotWithoutLegacy DEF PrefInv, Preferences!ShownIsStored
    <3>3. kept' = [p \in Profiles |-> kept'[p]]
      BY <3>1, GotKeepsKeys
    <3> QED
      BY <3>1, <3>2, <3>3 DEF PrefInv, Preferences!ShownIsStored, Preferences!ReadOf
  <2>2. CASE Preferences!Got.value # Preferences!Clamped(v)
    BY <1>1, <2>2, WriteTold DEF Preferences!Set
  <2> QED
    BY <2>1, <2>2
<1>2. CASE Preferences!ApplyPlayerSyncPayload(v)
  <2>1. CASE Preferences!ReadOf(v) = Preferences!Got.value
    <3>1. /\ UNCHANGED <<profile, kind, shown, moved, fromLegacy>>
          /\ legacy' = None
          /\ kept' = [Preferences!Got.kept EXCEPT ![profile] = v]
      BY <1>2, <2>1 DEF Preferences!ApplyPlayerSyncPayload
    <3>2. kept' = [p \in Profiles |-> kept'[p]] /\ kept'[profile] = v
      BY <3>1, GotKeepsKeys DEF PrefInv
    <3>3. shown # None => Preferences!ReadOf(v) = Preferences!ReadOf(kept[profile])
      BY <2>1, GotWithoutLegacy DEF PrefInv, Preferences!ShownIsStored
    <3> QED
      BY <3>1, <3>2, <3>3 DEF PrefInv, Preferences!ShownIsStored, Preferences!ReadOf
  <2>2. CASE Preferences!ReadOf(v) # Preferences!Got.value
    BY <1>2, <2>2, WriteTold DEF Preferences!ApplyPlayerSyncPayload
  <2> QED
    BY <2>1, <2>2
<1> QED
  BY <1>1, <1>2

\* A profile that moves refreshes the page, or is recorded as moved.
LEMMA PrefMoves ==
    ASSUME PrefInv, NEW p \in Profiles,
           Preferences!SwitchAndRefresh(p) \/ Preferences!MoveSilently(p)
    PROVE  PrefInv'
<1>1. CASE Preferences!SwitchAndRefresh(p)
  BY <1>1 DEF PrefInv, Preferences!ShownIsStored, Preferences!SwitchAndRefresh,
              Preferences!Notify, Preferences!Displays, Preferences!ReadOf
<1>2. CASE Preferences!MoveSilently(p)
  <2>1. shown # None => moved'
    BY <1>2, Zenon DEF Preferences!MoveSilently
  <2> QED
    BY <1>2, <2>1 DEF PrefInv, Preferences!ShownIsStored, Preferences!MoveSilently
<1> QED
  BY <1>1, <1>2

\* Every step of AppSettings keeps the invariant.
LEMMA PrefStep == ASSUME PrefInv, Preferences!Next PROVE PrefInv'
BY PrefReads, PrefWrites, PrefMoves DEF Preferences!Next

\* What a page shows, over every call of AppSettings.
LEMMA PrefIsInvariant == Spec => [](which = "preferences" => PrefInv)
<1> DEFINE I == which = "preferences" => PrefInv
<1>1. Init => I
  BY DEF Init, Preferences!Init, PrefInv, Preferences!ShownIsStored
<1>2. I /\ [Next]_vars => I'
  <2> SUFFICES ASSUME I, [Next]_vars, which' = "preferences" PROVE PrefInv'
    OBVIOUS
  <2>1. CASE Next
    BY <2>1, PrefStep DEF Next
  <2>2. CASE UNCHANGED vars
    <3>1. UNCHANGED <<which, profile, prefVars>>
      BY <2>2 DEF vars
    <3> QED
      BY <3>1 DEF PrefInv, Preferences!ShownIsStored, Preferences!ReadOf, prefVars
  <2> QED
    BY <2>1, <2>2
<1> QED
  BY <1>1, <1>2, PTL DEF Spec

\* A page of AppSettings shows what the active profile's keys hold, for any
\* profiles.
THEOREM PagesShowWhatIsStored == Spec => []ShownIsStored
<1>1. (which = "preferences" => PrefInv) => ShownIsStored
  BY DEF PrefInv, ShownIsStored
<1> QED
  BY <1>1, PrefIsInvariant, PTL

-----------------------------------------------------------------------------
(* CollectionStore. *)

\* A token is a number that only grows.
FolderInv == folderToken \in Nat /\ Collections!ItemsOfOneFolder

\* A reply adds to the folder of its own token (CollectionStore::loadFolder).
LEMMA FolderStep == ASSUME FolderInv, Collections!Next PROVE FolderInv'
<1> USE DEF FolderInv, Collections!ItemsOfOneFolder
<1>1. ASSUME Collections!NoFolder PROVE FolderInv'
  BY <1>1 DEF Collections!NoFolder
<1>2. ASSUME NEW id \in Ids, Collections!LoadFolder(id) PROVE FolderInv'
  BY <1>2 DEF Collections!LoadFolder
<1>3. ASSUME NEW r \in folderReplies, NEW ok \in BOOLEAN, Collections!FolderReply(r, ok)
      PROVE  FolderInv'
  BY <1>3 DEF Collections!FolderReply, Collections!Superseded
<1>4. ASSUME NEW p \in Profiles, Collections!SwitchProfile(p) PROVE FolderInv'
  BY <1>4 DEF Collections!SwitchProfile
<1>5. ASSUME NEW id \in Ids,
             \/ Collections!CreateCollection(id) \/ Collections!RemoveCollection(id)
             \/ \E delta \in {-1, 1} : Collections!MoveCollection(id, delta)
             \/ \E s \in SUBSET Sources : Collections!EditCollection(id, s)
      PROVE  FolderInv'
  BY <1>1, <1>5, Zenon DEF Collections!CreateCollection, Collections!RemoveCollection,
                    Collections!MoveCollection, Collections!EditCollection
<1>6. ASSUME Collections!SignInOrOut \/ Collections!PushNow PROVE FolderInv'
  BY <1>1, <1>6 DEF Collections!SignInOrOut, Collections!PushNow
<1>7. ASSUME \/ \E ok \in BOOLEAN : Collections!PushReply(ok) \/ Collections!PullReply(ok)
             \/ Collections!PullFails
      PROVE  FolderInv'
  BY <1>1, <1>7 DEF Collections!PushReply, Collections!PullReply, Collections!PullFails
<1> QED
  BY <1>2, <1>3, <1>4, <1>5, <1>6, <1>7
  DEF Collections!Next, Collections!User, Collections!Replies

\* The folder page of CollectionStore shows one load, for any collections,
\* sources and number of loads.
THEOREM OneFolderAtATime == Spec => []ItemsOfOneFolder
<1> DEFINE I == which = "collections" => FolderInv
<1>1. Init => I
  BY DEF Init, Collections!Init, FolderInv, Collections!ItemsOfOneFolder
<1>2. I /\ [Next]_vars => I'
  <2> SUFFICES ASSUME I, [Next]_vars, which' = "collections" PROVE FolderInv'
    OBVIOUS
  <2>1. CASE Next
    BY <2>1, FolderStep DEF Next
  <2>2. CASE UNCHANGED vars
    <3>1. UNCHANGED <<which, collectionVars>>
      BY <2>2 DEF vars
    <3> QED
      BY <3>1 DEF FolderInv, Collections!ItemsOfOneFolder, collectionVars
  <2> QED
    BY <2>1, <2>2
<1>3. I => ItemsOfOneFolder
  BY DEF FolderInv, ItemsOfOneFolder
<1> QED
  BY <1>1, <1>2, <1>3, PTL DEF Spec

-----------------------------------------------------------------------------
(* HomeShelves. *)

\* What a setter of the page writes, m_payload, has off what the file has off.
ShelfInv ==
    /\ profile \in Profiles
    /\ savedRows \in [Profiles -> [Shelves -> HomePage!RowStates]]
    /\ payload \in [Shelves -> HomePage!RowStates]
    /\ \A k \in Shelves : savedRows[profile][k] = "off" => payload[k] = "off"

\* rebuildDefinitions of a file's rows turns nothing on in it.
LEMMA RebuildKeeps ==
    ASSUME ShelfInv, NEW p \in Profiles, NEW file \in [Shelves -> HomePage!RowStates],
           NEW ds, HomePage!Rebuild(p, file, ds), profile' = p
    PROVE  /\ ShelfInv'
           /\ \A k \in Shelves : file[k] = "off" => savedRows'[p][k] = "off"
           /\ \A q \in Profiles : q # p => savedRows'[q] = savedRows[q]
<1> DEFINE new == HomePage!Reconciled(file, ds)
<1>1. /\ new \in [Shelves -> HomePage!RowStates]
      /\ \A k \in Shelves : file[k] = "off" <=> new[k] = "off"
  BY DEF HomePage!Reconciled, HomePage!RowStates
<1>2. payload' = file /\ savedRows' = [savedRows EXCEPT ![p] = new]
  BY DEF HomePage!Rebuild
<1> HIDE DEF new
<1> QED
  BY <1>1, <1>2 DEF ShelfInv

\* A refresh rebuilds the rows before it fetches.
LEMMA RefreshRebuilds ==
    ASSUME NEW p, NEW file, NEW ds, HomePage!Refresh(p, file, ds)
    PROVE  HomePage!Rebuild(p, file, ds)
BY DEF HomePage!Refresh

\* Changes of addons, switches and moves rebuild from the file.
LEMMA ShelvesAsked ==
    ASSUME ShelfInv,
           \/ \E ds \in SUBSET Shelves : HomePage!AddonsChange(ds)
           \/ \E p \in Profiles : HomePage!SwitchShelves(p)
           \/ \E k \in Shelves : HomePage!MoveShelf(k)
    PROVE  ShelfInv' /\ HomePage!KeepsOff
<1>1. ASSUME NEW p \in Profiles, NEW ds, profile' = p,
             HomePage!Rebuild(p, savedRows[p], ds)
      PROVE  ShelfInv' /\ HomePage!KeepsOff
  <2>1. savedRows[p] \in [Shelves -> HomePage!RowStates]
    BY DEF ShelfInv
  <2>2. /\ ShelfInv'
        /\ \A k \in Shelves : savedRows[p][k] = "off" => savedRows'[p][k] = "off"
        /\ \A q \in Profiles : q # p => savedRows'[q] = savedRows[q]
    BY <1>1, <2>1, RebuildKeeps
  <2> QED
    BY <2>2 DEF HomePage!KeepsOff
<1>2. ASSUME NEW ds \in SUBSET Shelves, HomePage!AddonsChange(ds)
      PROVE  ShelfInv' /\ HomePage!KeepsOff
  BY <1>1, <1>2, RefreshRebuilds DEF HomePage!AddonsChange, ShelfInv
<1>3. ASSUME NEW p \in Profiles, HomePage!SwitchShelves(p)
      PROVE  ShelfInv' /\ HomePage!KeepsOff
  BY <1>1, <1>3, RefreshRebuilds DEF HomePage!SwitchShelves
<1>4. ASSUME NEW k \in Shelves, HomePage!MoveShelf(k)
      PROVE  ShelfInv' /\ HomePage!KeepsOff
  BY <1>1, <1>4 DEF HomePage!MoveShelf, HomePage!Rebuilt, ShelfInv
<1> QED
  BY <1>2, <1>3, <1>4

\* The settings of the page and the server's, which write the file as they say.
LEMMA ShelvesSet ==
    ASSUME ShelfInv, NEW k \in Shelves, NEW on \in BOOLEAN,
           NEW remote \in [Shelves -> HomePage!RowStates],
           \/ HomePage!SetPageFlag \/ HomePage!TouchShelf(k)
           \/ HomePage!SetShelfEnabled(k, on) \/ HomePage!ApplySynced(remote)
    PROVE  ShelfInv' /\ HomePage!KeepsOff
<1>1. CASE HomePage!SetPageFlag
  BY <1>1 DEF ShelfInv, HomePage!KeepsOff, HomePage!SetPageFlag
<1>2. CASE HomePage!TouchShelf(k)
  BY <1>2 DEF ShelfInv, HomePage!KeepsOff, HomePage!TouchShelf
<1>3. CASE HomePage!SetShelfEnabled(k, on)
  <2> DEFINE state == IF on THEN "on" ELSE "off"
  <2>1. /\ savedRows' = [savedRows EXCEPT ![profile][k] = state]
        /\ payload' = savedRows'[profile] /\ profile' = profile
    BY <1>3 DEF HomePage!SetShelfEnabled
  <2>2. state \in HomePage!RowStates /\ (state # "off" => on = TRUE)
    BY DEF HomePage!RowStates
  <2> HIDE DEF state
  <2>3. ShelfInv'
    BY <2>1, <2>2 DEF ShelfInv
  <2>4. ASSUME NEW p \in Profiles, NEW j \in Shelves, savedRows[p][j] = "off",
               savedRows'[p][j] # "off"
        PROVE  p = profile /\ j = k /\ on = TRUE
    BY <2>1, <2>2, <2>4 DEF ShelfInv
  <2> QED
    BY <1>3, <2>3, <2>4 DEF HomePage!KeepsOff
<1>4. CASE HomePage!ApplySynced(remote)
  <2>1. PICK file \in [Shelves -> HomePage!RowStates] : HomePage!Rebuilt(file)
    BY <1>4 DEF HomePage!ApplySynced, ShelfInv, HomePage!RowStates
  <2>2. HomePage!Rebuild(profile, file, defs) /\ profile' = profile
        /\ profile \in Profiles
    BY <2>1 DEF HomePage!Rebuilt, ShelfInv
  <2>3. /\ ShelfInv'
        /\ \A q \in Profiles : q # profile => savedRows'[q] = savedRows[q]
    BY <2>2, RebuildKeeps
  <2> QED
    BY <1>4, <2>3 DEF HomePage!KeepsOff
<1> QED
  BY <1>1, <1>2, <1>3, <1>4

\* Every step of HomeShelves keeps the invariant and turns on nothing.
LEMMA ShelfStep == ASSUME ShelfInv, HomePage!Next PROVE ShelfInv' /\ HomePage!KeepsOff
<1>1. ASSUME NEW k \in Shelves, HomePage!ShelfReply(k)
      PROVE  ShelfInv' /\ HomePage!KeepsOff
  BY <1>1 DEF ShelfInv, HomePage!KeepsOff, HomePage!ShelfReply
<1>2. ASSUME HomePage!SetPageFlag PROVE ShelfInv' /\ HomePage!KeepsOff
  BY <1>2 DEF ShelfInv, HomePage!KeepsOff, HomePage!SetPageFlag
<1>3. ASSUME NEW k \in Shelves,
             HomePage!TouchShelf(k) \/ \E on \in BOOLEAN : HomePage!SetShelfEnabled(k, on)
      PROVE  ShelfInv' /\ HomePage!KeepsOff
  <2>1. [j \in Shelves |-> "none"] \in [Shelves -> HomePage!RowStates]
    BY DEF HomePage!RowStates
  <2> QED
    BY <1>3, <2>1, ShelvesSet
<1>4. ASSUME NEW remote \in [Shelves -> HomePage!RowStates], HomePage!ApplySynced(remote)
      PROVE  ShelfInv' /\ HomePage!KeepsOff
  <2>1. CASE Shelves = {}
    BY <1>4, <2>1 DEF HomePage!ApplySynced, HomePage!Rebuilt, HomePage!Rebuild,
       HomePage!Reconciled, ShelfInv, HomePage!KeepsOff
  <2> QED
    BY <1>4, <2>1, ShelvesSet
<1> QED
  BY <1>1, <1>2, <1>3, <1>4, ShelvesAsked DEF HomePage!Next, HomePage!User

\* HomeShelves turns no shelf on that the user turned off, for any shelves,
\* profiles and slots.
THEOREM OffUntilTurnedOn == Spec => OffStaysOff
<1> DEFINE I == which = "shelves" => ShelfInv
           A == which = "shelves" => HomePage!KeepsOff
<1>1. Init => I
  BY DEF Init, HomePage!Init, ShelfInv, HomePage!RowStates
<1>2. I /\ [Next]_vars => I' /\ [A]_vars
  <2> SUFFICES ASSUME I, [Next]_vars PROVE I' /\ [A]_vars
    OBVIOUS
  <2>1. CASE Next
    BY <2>1, ShelfStep DEF Next
  <2>2. CASE UNCHANGED vars
    <3>1. UNCHANGED <<which, profile, shelfVars>>
      BY <2>2 DEF vars
    <3> QED
      BY <2>2, <3>1 DEF ShelfInv, shelfVars
  <2> QED
    BY <2>1, <2>2
<1> QED
  BY <1>1, <1>2, PTL DEF Spec, OffStaysOff

-----------------------------------------------------------------------------
(* P2pEngine and TorrServerProcess. *)

\* A queued call or signal that leads to an answer for the current stream; the
\* missing binary does so through the connection of its generation.
Leads(e) == e.of = generation /\ (e.kind = "missing" => generation \in wired)

\* What the current stream waits for.  The bring-up of the server answers those
\* that are connected only, and the idle timer runs only when no stream waits.
StreamInv ==
    /\ generation \in Nat
    /\ IsFiniteSet(wired) /\ wired \subseteq Nat /\ sessions \subseteq Nat
    /\ posted \in Seq(Torrents!Event)
    /\ phase \in {"Idle", "OrphanWait", "Starting", "Running"}
    /\ attempts \in 0..Torrents!NoTorrent
    /\ answered \in BOOLEAN /\ idleTimer \in BOOLEAN
    /\ idleTimer => answered
    /\ \/ answered
       \/ phase \in {"OrphanWait", "Starting"} /\ generation \in wired
       \/ generation \in sessions
       \/ attempts # Torrents!NoTorrent
       \/ \E e \in Torrents!Range(posted) : Leads(e)

\* SetToSeq, as the instance of TorrServer names it, lists the whole set.
LEMMA StreamsListed ==
    ASSUME NEW S, IsFiniteSet(S)
    PROVE  /\ Torrents!SetToSeq(S) \in Seq(S)
           /\ \A x \in S : \E n \in DOMAIN Torrents!SetToSeq(S) :
                  Torrents!SetToSeq(S)[n] = x
<1> DEFINE size == Cardinality(S)
           all == {f \in [1..size -> S] : Torrents!IsInjective(f)}
<1>1. size \in Nat /\ ExistsBijection(1..size, S)
  BY FS_CardinalityType
<1>2. PICK b : b \in Bijection(1..size, S)
  BY <1>1 DEF ExistsBijection
<1>3. b \in all
  BY <1>2, Zenon DEF Bijection, Injection, Surjection, IsInjective, Torrents!IsInjective
<1>4. Torrents!Cardinality(S) = size
  BY DEF Cardinality, Torrents!Cardinality
<1>5. Torrents!SetToSeq(S) = CHOOSE f \in [1..size -> S] : Torrents!IsInjective(f)
  BY <1>4 DEF Torrents!SetToSeq
<1> DEFINE s == Torrents!SetToSeq(S)
<1>6. s \in [1..size -> S] /\ Torrents!IsInjective(s)
  BY <1>3, <1>5, Zenon
<1> HIDE DEF s
<1>7. s \in Injection(1..size, S)
  BY <1>6, Zenon DEF Injection, IsInjective, Torrents!IsInjective
<1>8. Cardinality(1..size) = size
  BY <1>1, FS_Interval
<1>9. s \in Surjection(1..size, S)
  BY <1>7, <1>8, FS_Injection
<1>10. \A x \in S : \E n \in 1..size : s[n] = x
  BY <1>9 DEF Surjection
<1>11. s \in Seq(S)
  BY <1>1, <1>6
<1>12. DOMAIN s = 1..size
  BY <1>6
<1> QED
  BY <1>10, <1>11, <1>12 DEF s

\* A signal reaches every connection.
LEMMA SignalReaches ==
    ASSUME StreamInv, NEW sig \in {"ready", "failed"}
    PROVE  /\ Torrents!Emits(sig) \in Seq(Torrents!Event)
           /\ \A g \in wired :
                  [kind |-> sig, of |-> g] \in Torrents!Range(Torrents!Emits(sig))
<1> DEFINE s == Torrents!SetToSeq(wired)
<1>1. s \in Seq(wired) /\ \A g \in wired : \E n \in DOMAIN s : s[n] = g
  BY StreamsListed DEF StreamInv
<1>2. Torrents!Emits(sig) = [n \in 1..Len(s) |-> [kind |-> sig, of |-> s[n]]]
  BY DEF Torrents!Emits
<1>3. wired \subseteq Nat
  BY DEF StreamInv
<1> HIDE DEF s
<1>4. s \in Seq(wired)
  BY <1>1
<1>5. \A n \in 1..Len(s) : s[n] \in wired
  BY <1>4
<1>6. \A n \in 1..Len(s) : s[n] \in Nat
  BY <1>3, <1>5
<1>7. \A g \in Nat : [kind |-> sig, of |-> g] \in Torrents!Event
  BY DEF Torrents!Event
<1>8. \A n \in 1..Len(s) : [kind |-> sig, of |-> s[n]] \in Torrents!Event
  BY <1>6, <1>7
<1>9. [n \in 1..Len(s) |-> [kind |-> sig, of |-> s[n]]] \in Seq(Torrents!Event)
  BY <1>1, <1>8
<1>10. \A g \in wired : \E n \in 1..Len(s) : s[n] = g
  BY <1>1
<1>11. \A g \in wired : \E n \in DOMAIN Torrents!Emits(sig) :
          Torrents!Emits(sig)[n] = [kind |-> sig, of |-> g]
  BY <1>2, <1>10
<1> QED
  BY <1>2, <1>9, <1>11 DEF Torrents!Range

\* What is posted joins what is queued.
LEMMA RangeOfPosts ==
    ASSUME NEW s \in Seq(Torrents!Event), NEW t \in Seq(Torrents!Event)
    PROVE  /\ s \o t \in Seq(Torrents!Event)
           /\ Torrents!Range(s) \subseteq Torrents!Range(s \o t)
           /\ Torrents!Range(t) \subseteq Torrents!Range(s \o t)
<1>1. s \o t \in Seq(Torrents!Event)
  OBVIOUS
<1>2. \A i \in DOMAIN s : i \in DOMAIN (s \o t) /\ (s \o t)[i] = s[i]
  OBVIOUS
<1>3. \A i \in DOMAIN t : Len(s) + i \in DOMAIN (s \o t) /\ (s \o t)[Len(s) + i] = t[i]
  OBVIOUS
<1> QED
  BY <1>1, <1>2, <1>3 DEF Torrents!Range

\* What is not at the head of the queue stays queued.
LEMMA RangeOfRest ==
    ASSUME NEW s \in Seq(Torrents!Event), s # <<>>
    PROVE  /\ Tail(s) \in Seq(Torrents!Event) /\ Head(s) \in Torrents!Event
           /\ \A e \in Torrents!Range(s) : e = Head(s) \/ e \in Torrents!Range(Tail(s))
<1>1. \A i \in DOMAIN s : i = 1 \/ (i - 1 \in DOMAIN Tail(s) /\ Tail(s)[i - 1] = s[i])
  OBVIOUS
<1>2. Head(s) = s[1]
  OBVIOUS
<1> QED
  BY <1>1, <1>2 DEF Torrents!Range

\* One call or signal, posted.
LEMMA OnePost ==
    ASSUME NEW g \in Nat,
           NEW sig \in {"missing", "ready", "failed", "streamReady", "streamFailed"}
    PROVE  /\ Torrents!Posting(sig, g) \in Seq(Torrents!Event)
           /\ [kind |-> sig, of |-> g] \in Torrents!Range(Torrents!Posting(sig, g))
BY DEF Torrents!Posting, Torrents!Event, Torrents!Range

\* startStream connects the new generation, and the bring-up under way answers
\* it too; a hash or a binary it has not is told to it.
LEMMA StreamStarts ==
    ASSUME StreamInv, NEW valid \in BOOLEAN, NEW binary \in BOOLEAN,
           Torrents!StartStream(valid, binary)
    PROVE  StreamInv'
<1> DEFINE g == generation + 1
           news == CASE ~valid -> Torrents!Posting("streamFailed", g)
                     [] valid /\ phase = "Idle" /\ ~binary -> Torrents!Posting("missing", g)
                     [] OTHER -> <<>>
<1>1. /\ generation' = g /\ g \in Nat /\ posted' = posted \o news
      /\ idleTimer' = FALSE /\ answered' = FALSE
      /\ attempts' = Torrents!NoTorrent /\ attempts' \in 0..Torrents!NoTorrent
      /\ wired' = IF valid THEN wired \cup {g} ELSE wired
      /\ sessions' = IF valid /\ phase = "Running" THEN sessions \cup {g} ELSE sessions
      /\ phase' = IF valid /\ phase = "Idle" /\ binary THEN "OrphanWait" ELSE phase
  BY ServicesAssumption DEF StreamInv, Torrents!StartStream, Torrents!NoTorrent
<1>2. IsFiniteSet(wired') /\ wired' \subseteq Nat /\ sessions' \subseteq Nat
  BY <1>1, FS_AddElement DEF StreamInv
<1>3. CASE ~valid
  <2>1. news = Torrents!Posting("streamFailed", g)
    BY <1>3
  <2>2. [kind |-> "streamFailed", of |-> g] \in Torrents!Range(posted')
        /\ posted' \in Seq(Torrents!Event)
    BY <1>1, <2>1, OnePost, RangeOfPosts DEF StreamInv
  <2> HIDE DEF news
  <2> QED
    BY <1>1, <1>2, <2>2 DEF StreamInv, Leads
<1>4. CASE valid /\ phase = "Idle" /\ ~binary
  <2>1. news = Torrents!Posting("missing", g)
    BY <1>4
  <2>2. [kind |-> "missing", of |-> g] \in Torrents!Range(posted')
        /\ posted' \in Seq(Torrents!Event)
    BY <1>1, <2>1, OnePost, RangeOfPosts DEF StreamInv
  <2> HIDE DEF news
  <2> QED
    BY <1>1, <1>2, <1>4, <2>2 DEF StreamInv, Leads
<1>5. CASE valid /\ ~(phase = "Idle" /\ ~binary)
  <2>1. news = <<>>
    BY <1>5
  <2>2. posted' \in Seq(Torrents!Event)
    <3>1. <<>> \in Seq(Torrents!Event)
      OBVIOUS
    <3> QED
      BY <1>1, <2>1, <3>1, RangeOfPosts DEF StreamInv
  <2>3. phase \in {"Idle", "OrphanWait", "Starting", "Running"}
    BY DEF StreamInv
  <2> HIDE DEF news
  <2> QED
    BY <1>1, <1>2, <1>5, <2>2, <2>3 DEF StreamInv
<1> QED
  BY <1>3, <1>4, <1>5

\* A bring-up that fails or succeeds says so to the current generation.
LEMMA BringUpEnds ==
    ASSUME StreamInv, NEW sig \in {"ready", "failed"},
           phase \in {"OrphanWait", "Starting"},
           posted' = posted \o Torrents!Emits(sig),
           phase' \in {"Idle", "OrphanWait", "Starting", "Running"},
           Torrents!processUnchanged
    PROVE  StreamInv'
<1>1. /\ UNCHANGED <<idleTimer, generation, wired, sessions, attempts, answered>>
  BY DEF Torrents!processUnchanged, Torrents!engineVars
<1>2. posted' \in Seq(Torrents!Event)
      /\ Torrents!Range(posted) \subseteq Torrents!Range(posted')
      /\ \A g \in wired : [kind |-> sig, of |-> g] \in Torrents!Range(posted')
  BY SignalReaches, RangeOfPosts DEF StreamInv
<1>3. generation \in wired => \E e \in Torrents!Range(posted') : Leads(e)'
  BY <1>1, <1>2 DEF Leads
<1>4. \A e : Leads(e) => Leads(e)'
  BY <1>1 DEF Leads
<1> QED
  BY <1>1, <1>2, <1>3, <1>4 DEF StreamInv

\* A queued call or signal that is delivered leads on.
LEMMA StreamDelivers == ASSUME StreamInv, Torrents!Deliver PROVE StreamInv'
<1> DEFINE e == Head(posted)
           tail == Tail(posted)
<1>1. /\ posted # <<>>
      /\ UNCHANGED <<idleTimer, generation, wired>>
  BY DEF Torrents!Deliver
<1>2. /\ e \in Torrents!Event /\ tail \in Seq(Torrents!Event)
      /\ \A d \in Torrents!Range(posted) : d = e \/ d \in Torrents!Range(tail)
  BY <1>1, RangeOfRest DEF StreamInv
<1>3. \A d : Leads(d) => Leads(d)'
  BY <1>1 DEF Leads
<1>4. CASE e.kind = "missing"
  <2>1. phase' = "Idle" /\ posted' = tail \o Torrents!Emits("failed")
        /\ UNCHANGED <<sessions, attempts, answered>>
    BY <1>4 DEF Torrents!Deliver, Torrents!engineVars
  <2>2. posted' \in Seq(Torrents!Event)
        /\ Torrents!Range(tail) \subseteq Torrents!Range(posted')
        /\ \A g \in wired : [kind |-> "failed", of |-> g] \in Torrents!Range(posted')
    BY <1>2, <2>1, SignalReaches, RangeOfPosts
  <2>3. generation \in wired => \E d \in Torrents!Range(posted') : Leads(d)'
    BY <1>1, <2>2 DEF Leads
  <2>4. Leads(e) => generation \in wired
    BY <1>4 DEF Leads
  <2> HIDE DEF e, tail
  <2> QED
    BY <1>1, <1>2, <1>3, <2>1, <2>2, <2>3, <2>4 DEF StreamInv
<1>5. CASE e.kind = "failed"
  <2>1. posted' = tail \o Torrents!FailToken(e.of)
        /\ UNCHANGED <<phase, sessions, attempts, answered>>
    BY <1>5 DEF Torrents!Deliver, Torrents!engineVars
  <2>2. generation \in Nat
    BY DEF StreamInv
  <2>3. CASE e.of = generation
    <3>1. posted' = tail \o Torrents!Posting("streamFailed", generation)
      BY <2>1, <2>3 DEF Torrents!FailToken
    <3>2. posted' \in Seq(Torrents!Event)
          /\ [kind |-> "streamFailed", of |-> generation] \in Torrents!Range(posted')
      BY <1>2, <2>2, <3>1, OnePost, RangeOfPosts
    <3>3. Leads([kind |-> "streamFailed", of |-> generation])'
      BY <1>1 DEF Leads
    <3> QED
      BY <1>1, <2>1, <3>2, <3>3 DEF StreamInv
  <2>4. CASE e.of # generation
    <3>1. posted' = tail
      BY <1>2, <2>1, <2>4 DEF Torrents!FailToken
    <3>2. ~Leads(e)
      BY <2>4 DEF Leads
    <3> HIDE DEF e, tail
    <3> QED
      BY <1>1, <1>2, <1>3, <2>1, <3>1, <3>2 DEF StreamInv
  <2> QED
    BY <2>3, <2>4
<1>6. CASE e.kind = "ready"
  <2>1. /\ sessions' = IF e.of = generation THEN sessions \cup {e.of} ELSE sessions
        /\ posted' = tail
        /\ UNCHANGED <<phase, attempts, answered>>
    BY <1>6 DEF Torrents!Deliver
  <2>2. e.of \in Nat
    BY <1>2 DEF Torrents!Event
  <2>3. Leads(e) => generation \in sessions'
    BY <2>1 DEF Leads
  <2> HIDE DEF e, tail
  <2> QED
    BY <1>1, <1>2, <1>3, <2>1, <2>2, <2>3 DEF StreamInv
<1>7. CASE e.kind \in {"streamReady", "streamFailed"}
  <2>1. /\ answered' = (answered \/ e.of = generation)
        /\ posted' = tail
        /\ UNCHANGED <<phase, sessions, attempts>>
    BY <1>7 DEF Torrents!Deliver
  <2>2. Leads(e) => answered'
    BY <2>1 DEF Leads
  <2>3. answered' \in BOOLEAN /\ (answered => answered')
    BY <2>1 DEF StreamInv
  <2> HIDE DEF e, tail
  <2> QED
    BY <1>1, <1>2, <1>3, <2>1, <2>2, <2>3 DEF StreamInv
<1>8. e.kind \in {"missing", "ready", "failed", "streamReady", "streamFailed"}
  BY <1>2 DEF Torrents!Event
<1> QED
  BY <1>4, <1>5, <1>6, <1>7, <1>8

\* Without a hash the current stream fails; with one it waits for the metadata.
LEMMA StreamAdds ==
    ASSUME StreamInv, NEW g \in Nat, NEW ok \in BOOLEAN, Torrents!TorrentAdded(g, ok)
    PROVE  StreamInv'
<1>1. /\ g \in sessions /\ sessions' = sessions \ {g}
      /\ attempts' = IF ok /\ g = generation THEN kMetadataDeadlineAttempts ELSE attempts
      /\ posted' = IF ok THEN posted ELSE posted \o Torrents!FailToken(g)
      /\ UNCHANGED <<phase, idleTimer, generation, wired, answered>>
  BY DEF Torrents!TorrentAdded
<1>2. kMetadataDeadlineAttempts \in 0..Torrents!NoTorrent
      /\ kMetadataDeadlineAttempts # Torrents!NoTorrent
  BY ServicesAssumption DEF Torrents!NoTorrent
<1>3. \A d : Leads(d) => Leads(d)'
  BY <1>1 DEF Leads
<1>4. CASE ok \/ g # generation
  <2>1. posted' = posted
    <3>1. g # generation => Torrents!FailToken(g) = <<>>
      BY DEF Torrents!FailToken
    <3> QED
      BY <1>1, <1>4, <3>1 DEF StreamInv
  <2> QED
    BY <1>1, <1>2, <1>3, <1>4, <2>1 DEF StreamInv
<1>5. CASE ~ok /\ g = generation
  <2>1. posted' = posted \o Torrents!Posting("streamFailed", generation)
    BY <1>1, <1>5 DEF Torrents!FailToken
  <2>2. posted' \in Seq(Torrents!Event)
        /\ [kind |-> "streamFailed", of |-> generation] \in Torrents!Range(posted')
    BY <1>5, <2>1, OnePost, RangeOfPosts DEF StreamInv
  <2>3. Leads([kind |-> "streamFailed", of |-> generation])'
    BY <1>1 DEF Leads
  <2> QED
    BY <1>1, <1>5, <2>2, <2>3 DEF StreamInv
<1> QED
  BY <1>4, <1>5

\* The last look at the metadata answers.
LEMMA StreamLooks ==
    ASSUME StreamInv, NEW files \in BOOLEAN, Torrents!Metadata(files)
    PROVE  StreamInv'
<1>1. /\ attempts # Torrents!NoTorrent
      /\ UNCHANGED <<phase, idleTimer, generation, wired, sessions, answered>>
  BY DEF Torrents!Metadata
<1>2. CASE files \/ attempts = 0
  <2>1. attempts' = Torrents!NoTorrent
        /\ posted' = posted \o Torrents!Posting("streamReady", generation)
    BY <1>2 DEF Torrents!Metadata
  <2>2. posted' \in Seq(Torrents!Event)
        /\ [kind |-> "streamReady", of |-> generation] \in Torrents!Range(posted')
    BY <2>1, OnePost, RangeOfPosts DEF StreamInv
  <2>3. Leads([kind |-> "streamReady", of |-> generation])'
    BY <1>1 DEF Leads
  <2>4. Torrents!NoTorrent \in 0..Torrents!NoTorrent
    BY ServicesAssumption DEF Torrents!NoTorrent
  <2> QED
    BY <1>1, <2>1, <2>2, <2>3, <2>4 DEF StreamInv
<1>3. CASE ~files /\ attempts # 0
  <2>1. attempts' = attempts - 1 /\ posted' = posted
    BY <1>3 DEF Torrents!Metadata
  <2>2. attempts' \in 0..Torrents!NoTorrent /\ attempts' # Torrents!NoTorrent
    BY <1>3, <2>1, ServicesAssumption DEF StreamInv, Torrents!NoTorrent
  <2> QED
    BY <1>1, <2>1, <2>2 DEF StreamInv
<1> QED
  BY <1>2, <1>3

\* Every step of P2pEngine and of TorrServerProcess keeps the invariant.
LEMMA StreamStep == ASSUME StreamInv, Torrents!Next PROVE StreamInv'
<1>1. CASE Torrents!StopStream
  <2>1. /\ generation' = generation + 1 /\ idleTimer' = TRUE /\ answered' = TRUE
        /\ attempts' = Torrents!NoTorrent
        /\ UNCHANGED <<phase, wired, posted, sessions>>
    BY <1>1 DEF Torrents!StopStream
  <2>2. Torrents!NoTorrent \in 0..Torrents!NoTorrent
    BY ServicesAssumption DEF Torrents!NoTorrent
  <2> QED
    BY <2>1, <2>2 DEF StreamInv
<1>2. CASE Torrents!IdleStop
  BY <1>2 DEF StreamInv, Torrents!IdleStop, Torrents!engineVars
<1>3. ASSUME NEW exists \in BOOLEAN, Torrents!OrphanSettles(exists) PROVE StreamInv'
  <2>1. CASE exists
    BY <1>3, <2>1 DEF Torrents!OrphanSettles, Torrents!processUnchanged,
                      Torrents!engineVars, StreamInv, Leads
  <2>2. CASE ~exists
    BY <1>3, <2>2, BringUpEnds DEF Torrents!OrphanSettles, Torrents!FinishFailure
  <2> QED
    BY <2>1, <2>2
<1>4. CASE Torrents!HealthReply
  BY <1>4, BringUpEnds DEF Torrents!HealthReply
<1>5. CASE Torrents!StartFails
  BY <1>5, BringUpEnds DEF Torrents!StartFails, Torrents!FinishFailure
<1>6. 1..MaxStreams \subseteq Int /\ \A g \in 1..MaxStreams : g \in Nat
  OBVIOUS
<1> QED
  BY <1>1, <1>2, <1>3, <1>4, <1>5, <1>6, StreamStarts, StreamDelivers, StreamAdds,
     StreamLooks DEF Torrents!Next

\* An answer of the current stream is on its way, always.
LEMMA StreamIsInvariant == Spec => [](which = "torrents" => StreamInv)
<1> DEFINE I == which = "torrents" => StreamInv
<1>1. Init => I
  <2>1. ASSUME Torrents!Init PROVE StreamInv
    <3>1. IsFiniteSet({})
      BY FS_EmptySet
    <3>2. Torrents!NoTorrent \in 0..Torrents!NoTorrent
      BY ServicesAssumption DEF Torrents!NoTorrent
    <3>3. <<>> \in Seq(Torrents!Event)
      OBVIOUS
    <3> QED
      BY <2>1, <3>1, <3>2, <3>3 DEF Torrents!Init, StreamInv
  <2> QED
    BY <2>1 DEF Init
<1>2. I /\ [Next]_vars => I'
  <2> SUFFICES ASSUME I, [Next]_vars, which' = "torrents" PROVE StreamInv'
    OBVIOUS
  <2>1. CASE Next
    BY <2>1, StreamStep DEF Next
  <2>2. CASE UNCHANGED vars
    <3>1. UNCHANGED <<which, torrVars>>
      BY <2>2 DEF vars
    <3> QED
      BY <3>1 DEF StreamInv, Leads, torrVars
  <2> QED
    BY <2>1, <2>2
<1> QED
  BY <1>1, <1>2, PTL DEF Spec

\* P2pEngine leaves no stream without an answer on its way, for any number of
\* generations and of looks at the metadata.
THEOREM NoStreamIsForgotten == Spec => []StreamsAreAnswered
<1>1. (which = "torrents" => StreamInv) => StreamsAreAnswered
  BY DEF StreamInv, Leads, StreamsAreAnswered, Torrents!StreamsAreAnswered
<1> QED
  BY <1>1, StreamIsInvariant, PTL

-----------------------------------------------------------------------------
(* PluginRepository. *)

\* Unless rows were mixed, a list holds what is its profile's, and so will what a
\* download of this token adds, which a switch of profiles outdates.
PluginInv ==
    /\ profile \in Profiles
    /\ repos \in [Profiles -> SUBSET Urls] /\ owned \in [Profiles -> SUBSET Urls]
    /\ mixed \in BOOLEAN
    /\ fetches \in Seq(PluginRepos!Fetch) /\ pluginCalls \in Seq(PluginRepos!Call)
    /\ \/ mixed
       \/ /\ \A p \in Profiles : repos[p] \subseteq owned[p]
          /\ \A f \in PluginRepos!Range(fetches) :
                 f.current => f.url \in owned[profile]

\* SetToSeq, as the instance of Plugins names it, lists members of the set only.
LEMMA UrlsListed ==
    ASSUME NEW S, IsFiniteSet(S)
    PROVE  PluginRepos!SetToSeq(S) \in Seq(S)
<1> DEFINE size == Cardinality(S)
           all == {f \in [1..size -> S] : PluginRepos!IsInjective(f)}
<1>1. size \in Nat /\ ExistsBijection(1..size, S)
  BY FS_CardinalityType
<1>2. PICK b : b \in Bijection(1..size, S)
  BY <1>1 DEF ExistsBijection
<1>3. b \in all
  BY <1>2, Zenon DEF Bijection, Injection, Surjection, IsInjective,
                     PluginRepos!IsInjective
<1>4. PluginRepos!Cardinality(S) = size
  BY DEF Cardinality, PluginRepos!Cardinality
<1>5. PluginRepos!SetToSeq(S) =
          CHOOSE f \in [1..size -> S] : PluginRepos!IsInjective(f)
  BY <1>4 DEF PluginRepos!SetToSeq
<1>6. PluginRepos!SetToSeq(S) \in [1..size -> S]
  BY <1>3, <1>5, Zenon
<1> QED
  BY <1>1, <1>6

\* A sequence without one of its elements.
LEMMA WithoutOne ==
    ASSUME NEW E, NEW s \in Seq(E), NEW i \in DOMAIN s
    PROVE  /\ PluginRepos!RemoveAt(s, i) \in Seq(E)
           /\ PluginRepos!Range(PluginRepos!RemoveAt(s, i)) \subseteq PluginRepos!Range(s)
<1> DEFINE a == SubSeq(s, 1, i - 1)
           b == SubSeq(s, i + 1, Len(s))
<1>1. /\ a \in Seq(E) /\ Len(a) = i - 1
      /\ \A n \in 1..Len(a) : n \in DOMAIN s /\ a[n] = s[n]
  OBVIOUS
<1>2. /\ b \in Seq(E) /\ Len(b) = Len(s) - i
      /\ \A n \in 1..Len(b) : i + n \in DOMAIN s /\ b[n] = s[i + n]
  OBVIOUS
<1> HIDE DEF a, b
<1>3. a \o b \in Seq(E)
  BY <1>1, <1>2
<1>4. ASSUME NEW n \in DOMAIN (a \o b)
      PROVE  \E k \in DOMAIN s : (a \o b)[n] = s[k]
  <2>1. CASE n <= Len(a)
    <3>1. n \in 1..Len(a) /\ (a \o b)[n] = a[n]
      BY <1>1, <1>2, <1>4, <2>1
    <3> QED
      BY <1>1, <3>1
  <2>2. CASE ~(n <= Len(a))
    <3>1. n - Len(a) \in 1..Len(b) /\ (a \o b)[n] = b[n - Len(a)]
      BY <1>1, <1>2, <1>4, <2>2
    <3> QED
      BY <1>2, <3>1
  <2> QED
    BY <2>1, <2>2
<1>5. PluginRepos!RemoveAt(s, i) = a \o b
  BY DEF PluginRepos!RemoveAt, a, b
<1> QED
  BY <1>3, <1>4, <1>5 DEF PluginRepos!Range

\* Two sequences joined hold what either of them holds.
LEMMA JoinedRange ==
    ASSUME NEW E, NEW s \in Seq(E), NEW t \in Seq(E)
    PROVE  /\ s \o t \in Seq(E)
           /\ PluginRepos!Range(s \o t) \subseteq
                  PluginRepos!Range(s) \cup PluginRepos!Range(t)
<1>1. ASSUME NEW n \in DOMAIN (s \o t)
      PROVE  \/ \E k \in DOMAIN s : (s \o t)[n] = s[k]
             \/ \E k \in DOMAIN t : (s \o t)[n] = t[k]
  <2>1. CASE n <= Len(s)
    BY <1>1, <2>1
  <2>2. CASE ~(n <= Len(s))
    <3>1. n - Len(s) \in DOMAIN t /\ (s \o t)[n] = t[n - Len(s)]
      BY <1>1, <2>2
    <3> QED
      BY <3>1
  <2> QED
    BY <2>1, <2>2
<1>2. s \o t \in Seq(E)
  OBVIOUS
<1> QED
  BY <1>1, <1>2 DEF PluginRepos!Range

\* The downloads of a set of urls.
Asking(urls, reason) ==
    LET news == PluginRepos!SetToSeq(urls)
    IN  [k \in DOMAIN news |->
            [url |-> news[k], reason |-> reason, current |-> TRUE,
             stage |-> "manifest"]]

\* The downloads of a set of urls ask for these urls only.
LEMMA AskingFor ==
    ASSUME NEW urls \in SUBSET Urls, NEW reason \in PluginRepos!Reasons
    PROVE  /\ Asking(urls, reason) \in Seq(PluginRepos!Fetch)
           /\ \A f \in PluginRepos!Range(Asking(urls, reason)) : f.url \in urls
<1> DEFINE news == PluginRepos!SetToSeq(urls)
<1>1. IsFiniteSet(urls)
  BY ServicesAssumption, FS_Subset
<1>2. news \in Seq(urls)
  BY <1>1, UrlsListed
<1>3. Asking(urls, reason) =
          [k \in DOMAIN news |-> [url |-> news[k], reason |-> reason,
                                  current |-> TRUE, stage |-> "manifest"]]
  BY DEF Asking
<1> HIDE DEF news
<1>4. \A k \in DOMAIN news : news[k] \in urls
  BY <1>2
<1>5. Len(news) \in Nat /\ DOMAIN news = 1..Len(news)
  BY <1>2
<1>6. \A u \in Urls : [url |-> u, reason |-> reason, current |-> TRUE,
                       stage |-> "manifest"] \in PluginRepos!Fetch
  BY DEF PluginRepos!Fetch
<1>7. \A k \in 1..Len(news) :
          [url |-> news[k], reason |-> reason, current |-> TRUE,
           stage |-> "manifest"] \in PluginRepos!Fetch
  BY <1>4, <1>5, <1>6
<1>8. Asking(urls, reason) \in [1..Len(news) -> PluginRepos!Fetch]
  BY <1>3, <1>5, <1>7
<1>9. Asking(urls, reason) \in Seq(PluginRepos!Fetch)
  BY <1>5, <1>8
<1>10. \A k \in DOMAIN news : Asking(urls, reason)[k].url = news[k]
  BY <1>3
<1>11. DOMAIN Asking(urls, reason) = DOMAIN news
  BY <1>3
<1> QED
  BY <1>4, <1>9, <1>10, <1>11 DEF PluginRepos!Range

\* What is fetched is asked for the active profile.
LEMMA FetchesOf ==
    ASSUME PluginInv, NEW urls \in SUBSET Urls, NEW reason \in PluginRepos!Reasons,
           PluginRepos!Fetches(urls, reason, fetches)
    PROVE  /\ fetches' \in Seq(PluginRepos!Fetch)
           /\ \A f \in PluginRepos!Range(fetches') :
                  f \in PluginRepos!Range(fetches) \/ f.url \in urls
<1> DEFINE news == urls \ refreshing
<1>1. fetches' = fetches \o Asking(news, reason)
  BY DEF PluginRepos!Fetches, Asking
<1>2. /\ Asking(news, reason) \in Seq(PluginRepos!Fetch)
      /\ \A f \in PluginRepos!Range(Asking(news, reason)) : f.url \in news
  BY AskingFor
<1> HIDE DEF news
<1>3. fetches' \in Seq(PluginRepos!Fetch)
      /\ PluginRepos!Range(fetches') \subseteq
           PluginRepos!Range(fetches) \cup PluginRepos!Range(Asking(news, reason))
  BY <1>1, <1>2, JoinedRange DEF PluginInv
<1> QED
  BY <1>2, <1>3 DEF news

\* A push adds a call, if anything.
LEMMA PushesOf ==
    ASSUME PluginInv, NEW cs \in Seq(PluginRepos!Call), PluginRepos!Pushes(cs)
    PROVE  pluginCalls' \in Seq(PluginRepos!Call)
<1>1. [fn |-> "push", of |-> profile] \in PluginRepos!Call
  BY DEF PluginInv, PluginRepos!Call
<1> QED
  BY <1>1 DEF PluginRepos!Pushes

\* ++m_token outdates every download.
LEMMA OutdatedFetches ==
    ASSUME PluginInv
    PROVE  /\ PluginRepos!Outdated \in Seq(PluginRepos!Fetch)
           /\ \A f \in PluginRepos!Range(PluginRepos!Outdated) : ~f.current
<1>1. DOMAIN fetches = 1..Len(fetches) /\ Len(fetches) \in Nat
      /\ \A i \in DOMAIN fetches : fetches[i] \in PluginRepos!Fetch
  BY DEF PluginInv
<1>2. \A f \in PluginRepos!Fetch : [f EXCEPT !.current = FALSE] \in PluginRepos!Fetch
                                   /\ [f EXCEPT !.current = FALSE].current = FALSE
  BY DEF PluginRepos!Fetch
<1>3. PluginRepos!Outdated \in [1..Len(fetches) -> PluginRepos!Fetch]
  BY <1>1, <1>2 DEF PluginRepos!Outdated
<1>4. \A i \in 1..Len(fetches) : PluginRepos!Outdated[i].current = FALSE
  BY <1>1, <1>2 DEF PluginRepos!Outdated
<1> QED
  BY <1>1, <1>3, <1>4 DEF PluginRepos!Range

\* A switch and a pull outdate what is under way.
LEMMA PluginMoves ==
    ASSUME PluginInv,
           \/ \E p \in Profiles : PluginRepos!SetProfileId(p)
           \/ PluginRepos!PullFromServer
    PROVE  PluginInv'
<1>1. /\ fetches' = PluginRepos!Outdated /\ profile' \in Profiles
      /\ UNCHANGED <<repos, owned, mixed>>
  BY DEF PluginRepos!SetProfileId, PluginRepos!Moves, PluginRepos!PullFromServer,
         PluginInv
<1>2. pluginCalls' \in Seq(PluginRepos!Call)
  <2>1. CASE PluginRepos!PullFromServer
    <3>1. [fn |-> "pull", of |-> profile] \in PluginRepos!Call
      BY DEF PluginInv, PluginRepos!Call
    <3> QED
      BY <2>1, <3>1 DEF PluginInv, PluginRepos!PullFromServer
  <2>2. CASE \E p \in Profiles : PluginRepos!SetProfileId(p)
    BY <2>2 DEF PluginInv, PluginRepos!SetProfileId
  <2> QED
    BY <2>1, <2>2
<1> QED
  BY <1>1, <1>2, OutdatedFetches DEF PluginInv

\* A new start refreshes what the first profile lists.
LEMMA PluginStarts ==
    ASSUME PluginInv, NEW due \in SUBSET Urls, PluginRepos!Restart(due)
    PROVE  PluginInv'
<1>1. PluginRepos!FirstProfile \in Profiles
  BY ServicesAssumption DEF PluginRepos!FirstProfile
<1>2. /\ profile' = PluginRepos!FirstProfile
      /\ due \subseteq repos[PluginRepos!FirstProfile]
      /\ UNCHANGED <<repos, owned, mixed>>
  BY DEF PluginRepos!Restart
<1>3. pluginCalls' \in Seq(PluginRepos!Call)
  <2>1. [fn |-> "pull", of |-> PluginRepos!FirstProfile] \in PluginRepos!Call
    BY <1>1 DEF PluginRepos!Call
  <2> QED
    BY <2>1 DEF PluginRepos!Restart
<1>4. fetches' = Asking(due, "auto")
  <2>1. PluginRepos!SetToSeq(due) \in Seq(due)
    BY UrlsListed, FS_Subset, ServicesAssumption
  <2>2. DOMAIN PluginRepos!SetToSeq(due) = 1..Len(PluginRepos!SetToSeq(due))
    BY <2>1
  <2> QED
    BY <2>2 DEF PluginRepos!Restart, Asking
<1>5. /\ fetches' \in Seq(PluginRepos!Fetch)
      /\ \A f \in PluginRepos!Range(fetches') : f.url \in due
  BY <1>4, AskingFor DEF PluginRepos!Reasons
<1> QED
  BY <1>1, <1>2, <1>3, <1>5 DEF PluginInv

\* What the user adds is the active profile's from then on.
LEMMA PluginUser == ASSUME PluginInv, PluginRepos!User PROVE PluginInv'
<1>1. ASSUME NEW url \in Urls, PluginRepos!AddRepository(url) PROVE PluginInv'
  <2>1. /\ owned' = [owned EXCEPT ![profile] = @ \cup {url}]
        /\ UNCHANGED <<profile, repos, mixed, pluginCalls>>
    BY <1>1 DEF PluginRepos!AddRepository
  <2>2. /\ fetches' \in Seq(PluginRepos!Fetch)
        /\ \A f \in PluginRepos!Range(fetches') :
               f \in PluginRepos!Range(fetches) \/ f.url \in {url}
    BY <1>1, FetchesOf DEF PluginRepos!AddRepository, PluginRepos!Reasons
  <2>3. /\ owned' \in [Profiles -> SUBSET Urls] /\ url \in owned'[profile]
        /\ \A p \in Profiles : owned[p] \subseteq owned'[p]
    BY <2>1 DEF PluginInv
  <2> QED
    BY <2>1, <2>2, <2>3 DEF PluginInv
<1>2. ASSUME NEW url \in Urls, PluginRepos!RemoveRepository(url) PROVE PluginInv'
  <2>1. /\ repos' = [repos EXCEPT ![profile] = @ \ {url}]
        /\ UNCHANGED <<profile, owned, mixed, fetches>>
    BY <1>2 DEF PluginRepos!RemoveRepository
  <2>2. pluginCalls' \in Seq(PluginRepos!Call)
    BY <1>2, PushesOf DEF PluginRepos!RemoveRepository, PluginInv
  <2>3. /\ repos' \in [Profiles -> SUBSET Urls]
        /\ \A p \in Profiles : repos'[p] \subseteq repos[p]
    BY <2>1 DEF PluginInv
  <2> QED
    BY <2>1, <2>2, <2>3 DEF PluginInv
<1>3. ASSUME NEW url \in Urls, PluginRepos!ToggleScraper(url) PROVE PluginInv'
  BY <1>3 DEF PluginInv, PluginRepos!ToggleScraper
<1>4. ASSUME NEW urls \in SUBSET Urls, NEW reason \in PluginRepos!Reasons,
             PluginRepos!Refresh(urls, reason)
      PROVE  PluginInv'
  <2>1. /\ urls \subseteq repos[profile]
        /\ UNCHANGED <<profile, repos, owned, mixed, pluginCalls>>
    BY <1>4 DEF PluginRepos!Refresh
  <2>2. /\ fetches' \in Seq(PluginRepos!Fetch)
        /\ \A f \in PluginRepos!Range(fetches') :
               f \in PluginRepos!Range(fetches) \/ f.url \in urls
    BY <1>4, FetchesOf DEF PluginRepos!Refresh
  <2> QED
    BY <2>1, <2>2 DEF PluginInv
<1>5. repos[profile] \in SUBSET Urls /\ \A u \in Urls : {u} \in SUBSET Urls
  BY DEF PluginInv
<1>6. "user" \in PluginRepos!Reasons /\ "auto" \in PluginRepos!Reasons
  BY DEF PluginRepos!Reasons
<1> QED
  BY <1>1, <1>2, <1>3, <1>4, <1>5, <1>6 DEF PluginRepos!User

\* A download of this token adds its url, one of another nothing.
LEMMA PluginFetched ==
    ASSUME PluginInv, NEW i \in DOMAIN fetches,
           \/ \E a \in PluginRepos!Manifests : PluginRepos!ManifestReply(i, a)
           \/ \E a \in {"none", "on", "barred"} : PluginRepos!CodeReply(i, a)
    PROVE  PluginInv'
<1> DEFINE f == fetches[i]
<1>1. /\ f \in PluginRepos!Fetch /\ f \in PluginRepos!Range(fetches)
      /\ fetches \in Seq(PluginRepos!Fetch)
  BY DEF PluginInv, PluginRepos!Range
<1>2. UNCHANGED <<profile, owned, mixed>>
  BY DEF PluginRepos!ManifestReply, PluginRepos!CodeReply
<1>3. \/ fetches' = PluginRepos!RemoveAt(fetches, i)
      \/ fetches' = [fetches EXCEPT ![i].stage = "code"]
  BY DEF PluginRepos!ManifestReply, PluginRepos!CodeReply
<1>4. /\ fetches' \in Seq(PluginRepos!Fetch)
      /\ \A g \in PluginRepos!Range(fetches') : \E h \in PluginRepos!Range(fetches) :
             g.url = h.url /\ g.current = h.current
  <2>1. CASE fetches' = PluginRepos!RemoveAt(fetches, i)
    BY <1>1, <2>1, WithoutOne
  <2>2. CASE fetches' = [fetches EXCEPT ![i].stage = "code"]
    <3>1. [f EXCEPT !.stage = "code"] \in PluginRepos!Fetch
          /\ [f EXCEPT !.stage = "code"].url = f.url
          /\ [f EXCEPT !.stage = "code"].current = f.current
      BY <1>1 DEF PluginRepos!Fetch
    <3>2. fetches' = [fetches EXCEPT ![i] = [f EXCEPT !.stage = "code"]]
      BY <2>2
    <3>3. DOMAIN fetches' = DOMAIN fetches
          /\ \A n \in DOMAIN fetches : fetches'[n] =
                 IF n = i THEN [f EXCEPT !.stage = "code"] ELSE fetches[n]
      BY <3>2
    <3>4. fetches' \in Seq(PluginRepos!Fetch)
      BY <1>1, <3>1, <3>2
    <3>5. DOMAIN fetches' = DOMAIN fetches
          /\ \A n \in DOMAIN fetches : /\ fetches'[n].url = fetches[n].url
                                       /\ fetches'[n].current = fetches[n].current
      BY <3>1, <3>3
    <3> HIDE DEF f
    <3> QED
      BY <3>4, <3>5 DEF PluginRepos!Range
  <2> QED
    BY <1>3, <2>1, <2>2
<1>5. \/ UNCHANGED <<repos, pluginCalls>>
      \/ /\ f.current
         /\ repos' = [repos EXCEPT ![profile] = @ \cup {f.url}]
         /\ \/ UNCHANGED pluginCalls
            \/ PluginRepos!Pushes(pluginCalls)
  <2>1. ASSUME NEW scraper, PluginRepos!ApplyFetched(f, scraper)
        PROVE  /\ repos' = [repos EXCEPT ![profile] = @ \cup {f.url}]
               /\ \/ UNCHANGED pluginCalls
                  \/ PluginRepos!Pushes(pluginCalls)
    BY <2>1, Zenon DEF PluginRepos!ApplyFetched
  <2>2. ASSUME NEW a \in PluginRepos!Manifests, PluginRepos!ManifestReply(i, a)
        PROVE  \/ UNCHANGED <<repos, pluginCalls>>
               \/ f.current /\ PluginRepos!ApplyFetched(f, "none")
    BY <2>2 DEF PluginRepos!ManifestReply, PluginRepos!ApplyFetchError
  <2>3. ASSUME NEW a \in {"none", "on", "barred"}, PluginRepos!CodeReply(i, a)
        PROVE  \/ UNCHANGED <<repos, pluginCalls>>
               \/ f.current /\ PluginRepos!ApplyFetched(f, a)
    BY <2>3 DEF PluginRepos!CodeReply
  <2> HIDE DEF f
  <2> QED
    BY <2>1, <2>2, <2>3
<1>6. pluginCalls' \in Seq(PluginRepos!Call)
  BY <1>5, PushesOf DEF PluginInv
<1>7. repos' \in [Profiles -> SUBSET Urls]
      /\ \A p \in Profiles : \/ repos'[p] = repos[p]
                             \/ /\ p = profile /\ f.current
                                /\ repos'[p] = repos[p] \cup {f.url}
  <2>1. f.url \in Urls
    BY <1>1 DEF PluginRepos!Fetch
  <2> HIDE DEF f
  <2> QED
    BY <1>5, <2>1 DEF PluginInv
<1> HIDE DEF f
<1>8. mixed \/ \A p \in Profiles : repos'[p] \subseteq owned[p]
  BY <1>1, <1>7 DEF PluginInv
<1>9. mixed \/ \A g \in PluginRepos!Range(fetches') : g.current => g.url \in owned[profile]
  BY <1>4 DEF PluginInv
<1> QED
  BY <1>2, <1>4, <1>6, <1>7, <1>8, <1>9 DEF PluginInv

\* The rows of an answer are of the profile they were asked for, which is not the
\* active one only when they are mixed.
LEMMA PluginAnswered ==
    ASSUME PluginInv, NEW i \in DOMAIN pluginCalls, NEW ok \in BOOLEAN,
           NEW given \in SUBSET Urls, NEW due \in SUBSET Urls,
           PluginRepos!CallReply(i, ok, given, due)
    PROVE  PluginInv'
<1> DEFINE c == pluginCalls[i]
           remaining == PluginRepos!RemoveAt(pluginCalls, i)
<1>1. /\ c \in PluginRepos!Call /\ remaining \in Seq(PluginRepos!Call)
  BY WithoutOne DEF PluginInv
<1>2. /\ UNCHANGED profile
      /\ c.fn = "push" => given = {}
      /\ due \subseteq given \cap repos[profile]
  BY DEF PluginRepos!CallReply
<1>3. CASE ~(pulling /\ ok)
  <2>1. UNCHANGED <<repos, owned, mixed, fetches>> /\ pluginCalls' = remaining
    BY <1>3 DEF PluginRepos!CallReply
  <2> QED
    BY <1>1, <1>2, <2>1 DEF PluginInv
<1>4. CASE pulling /\ ok
  <2>1. /\ PluginRepos!TakeRows(given, due, remaining)
        /\ owned' = [owned EXCEPT ![c.of] = @ \cup given]
        /\ mixed' = (mixed \/ (c.fn = "pull" /\ c.of # profile))
    BY <1>4 DEF PluginRepos!CallReply
  <2>2. /\ owned' \in [Profiles -> SUBSET Urls] /\ mixed' \in BOOLEAN
        /\ \A p \in Profiles : owned[p] \subseteq owned'[p]
        /\ mixed => mixed'
        /\ ~mixed' => given \subseteq owned'[profile]
    BY <1>1, <1>2, <2>1 DEF PluginInv, PluginRepos!Call
  <2> HIDE DEF c, remaining
  <2>3. CASE given = {} /\ ~pulled
    <3>1. UNCHANGED <<repos, fetches>>
      BY <2>1, <2>3 DEF PluginRepos!TakeRows
    <3>2. pluginCalls' \in Seq(PluginRepos!Call)
      BY <1>1, <2>1, <2>3, PushesOf DEF PluginRepos!TakeRows
    <3> QED
      BY <1>2, <2>2, <3>1, <3>2 DEF PluginInv
  <2>4. CASE ~(given = {} /\ ~pulled)
    <3>1. /\ repos' = [repos EXCEPT ![profile] = given]
          /\ pluginCalls' = remaining
      BY <2>1, <2>4 DEF PluginRepos!TakeRows
    <3>2. /\ fetches' \in Seq(PluginRepos!Fetch)
          /\ \A f \in PluginRepos!Range(fetches') :
                 f \in PluginRepos!Range(fetches) \/ f.url \in given
      <4> DEFINE urls == (given \ repos[profile]) \cup due
      <4>1. PluginRepos!Fetches(urls, "auto", fetches)
        BY <2>1, <2>4 DEF PluginRepos!TakeRows
      <4>2. urls \in SUBSET Urls /\ urls \subseteq given
        BY <1>2
      <4> HIDE DEF urls
      <4> QED
        BY <4>1, <4>2, FetchesOf DEF PluginRepos!Reasons
    <3>3. /\ repos' \in [Profiles -> SUBSET Urls]
          /\ \A p \in Profiles : repos'[p] = IF p = profile THEN given ELSE repos[p]
      BY <3>1 DEF PluginInv
    <3>4. mixed' \/ \A p \in Profiles : repos'[p] \subseteq owned'[p]
      BY <2>2, <3>3 DEF PluginInv
    <3>5. mixed' \/ \A f \in PluginRepos!Range(fetches') :
                       f.current => f.url \in owned'[profile]
      BY <2>2, <3>2 DEF PluginInv
    <3> QED
      BY <1>1, <1>2, <2>2, <3>1, <3>2, <3>3, <3>4, <3>5 DEF PluginInv
  <2> QED
    BY <2>3, <2>4
<1> QED
  BY <1>3, <1>4

\* Every step of PluginRepository keeps the invariant.
LEMMA PluginStep == ASSUME PluginInv, PluginRepos!Next PROVE PluginInv'
<1>1. CASE PluginRepos!SessionChange
  BY <1>1 DEF PluginInv, PluginRepos!SessionChange, PluginRepos!pluginVars
<1> QED
  BY <1>1, PluginMoves, PluginStarts, PluginUser, PluginFetched, PluginAnswered
  DEF PluginRepos!Next, PluginRepos!Replies

\* The lists of the profiles and the downloads of the current one, always.
LEMMA PluginIsInvariant == Spec => [](which = "plugins" => PluginInv)
<1> DEFINE I == which = "plugins" => PluginInv
<1>1. Init => I
  <2>1. ASSUME PluginRepos!Init PROVE PluginInv
    <3>1. PluginRepos!FirstProfile \in Profiles
      BY ServicesAssumption DEF PluginRepos!FirstProfile
    <3>2. <<>> \in Seq(PluginRepos!Fetch) /\ <<>> \in Seq(PluginRepos!Call)
      OBVIOUS
    <3>3. PluginRepos!Range(<<>>) = {}
      BY DEF PluginRepos!Range
    <3> QED
      BY <2>1, <3>1, <3>2, <3>3 DEF PluginRepos!Init, PluginInv
  <2> QED
    BY <2>1 DEF Init
<1>2. I /\ [Next]_vars => I'
  <2> SUFFICES ASSUME I, [Next]_vars, which' = "plugins" PROVE PluginInv'
    OBVIOUS
  <2>1. CASE Next
    BY <2>1, PluginStep DEF Next
  <2>2. CASE UNCHANGED vars
    <3>1. UNCHANGED <<which, profile, pluginVars>>
      BY <2>2 DEF vars
    <3> QED
      BY <3>1 DEF PluginInv, pluginVars
  <2> QED
    BY <2>1, <2>2
<1> QED
  BY <1>1, <1>2, PTL DEF Spec

\* PluginRepository keeps the lists of the profiles apart, but for rows of a pull
\* that came late, for any profiles, urls and open requests.
THEOREM RepositoriesStayApart == Spec => []ListsStayApart
<1>1. (which = "plugins" => PluginInv) => ListsStayApart
  BY DEF PluginInv, ListsStayApart, PluginRepos!ListsStayApart
<1> QED
  BY <1>1, PluginIsInvariant, PTL

-----------------------------------------------------------------------------
(* Types. *)

\* ProviderCredsController asks with the values of the active profile.
LEMMA CredsAsk ==
    ASSUME Creds!TypeOK, NEW call \in {"pull", "push", "seed"}
    PROVE  Creds!Ask(call) \in Creds!Request
BY DEF Creds!TypeOK, Creds!Ask, Creds!Request

\* syncNow.
LEMMA CredsSyncNow ==
    ASSUME Creds!TypeOK, Creds!SyncNow
    PROVE  credsRequest' \in Creds!Request /\ baseline' \in Creds!Snapshot \cup {None}
<1>1. /\ Creds!Ask("pull") \in Creds!Request /\ Creds!Ask("push") \in Creds!Request
      /\ creds[profile] \in Creds!Snapshot
      /\ credsRequest \in Creds!Request /\ baseline \in Creds!Snapshot \cup {None}
  BY CredsAsk DEF Creds!TypeOK
<1> QED
  BY <1>1 DEF Creds!SyncNow

\* Values, rows, the request and the baseline keep to their types.
LEMMA CredsTyped == ASSUME Creds!TypeOK, Creds!Next PROVE Creds!TypeOK'
<1> USE DEF Creds!TypeOK
<1>1. ASSUME NEW c \in Providers, NEW v \in Values \cup {None}, Creds!Edit(c, v)
      PROVE  Creds!TypeOK'
  <2>1. creds' \in [Profiles -> Creds!Snapshot]
    BY <1>1 DEF Creds!Edit, Creds!Snapshot
  <2> QED
    BY <1>1, <2>1 DEF Creds!Edit, Creds!Changed
<1>2. ASSUME NEW p \in Profiles, Creds!SwitchProfile(p) PROVE Creds!TypeOK'
  BY <1>2 DEF Creds!SwitchProfile, Creds!Changed
<1>3. ASSUME Creds!SignInOrOut PROVE Creds!TypeOK'
  BY <1>3, CredsSyncNow DEF Creds!SignInOrOut
<1>4. ASSUME Creds!DebounceFires PROVE Creds!TypeOK'
  BY <1>4, CredsSyncNow DEF Creds!DebounceFires
<1>5. Creds!NoRequest \in Creds!Request
  BY DEF Creds!Request
<1>6. ASSUME credsRequest.call \in {"pull", "push", "seed"}
      PROVE  credsRequest \in [call : {"pull", "push", "seed"}, p : Profiles,
                               snapshot : Creds!Snapshot]
  BY <1>6 DEF Creds!Request, Creds!NoRequest
<1>7. ASSUME NEW ok \in BOOLEAN, Creds!Stored(ok) PROVE Creds!TypeOK'
  <2> DEFINE row == serverCreds[credsRequest.p]
             new == [c \in Providers |-> IF credsRequest.call = "seed" /\ row[c] # Creds!Absent
                                         THEN row[c] ELSE credsRequest.snapshot[c]]
  <2>1. /\ credsRequest.p \in Profiles /\ credsRequest.snapshot \in Creds!Snapshot
        /\ row \in [Providers -> Values \cup {None, Creds!Absent}]
    BY <1>6, <1>7 DEF Creds!Stored
  <2>2. new \in [Providers -> Values \cup {None, Creds!Absent}]
    BY <2>1 DEF Creds!Snapshot
  <2>3. serverCreds' \in {[serverCreds EXCEPT ![credsRequest.p] = new], serverCreds}
    BY <1>7 DEF Creds!Stored
  <2> HIDE DEF new
  <2>4. serverCreds' \in [Profiles -> [Providers -> Values \cup {None, Creds!Absent}]]
    BY <2>2, <2>3
  <2> QED
    BY <1>5, <1>7, <2>1, <2>4 DEF Creds!Stored
<1>8. ASSUME Creds!PullFails PROVE Creds!TypeOK'
  BY <1>5, <1>8 DEF Creds!PullFails
<1>9. ASSUME Creds!Seeds PROVE Creds!TypeOK'
  <2>1. credsRequest' \in Creds!Request
    BY <1>6, <1>9 DEF Creds!Seeds, Creds!Request
  <2> QED
    BY <1>9, <2>1 DEF Creds!Seeds
<1>10. ASSUME Creds!Merges PROVE Creds!TypeOK'
  <2> DEFINE local == credsRequest.snapshot
             row == serverCreds[credsRequest.p]
             merged == [c \in Providers |-> IF row[c] = Creds!Absent THEN local[c] ELSE row[c]]
             own == creds[profile]
             taken == [c \in Providers |-> IF merged[c] # local[c] THEN merged[c] ELSE own[c]]
  <2>1. /\ local \in Creds!Snapshot /\ own \in Creds!Snapshot
        /\ row \in [Providers -> Values \cup {None, Creds!Absent}]
    BY <1>6, <1>10 DEF Creds!Merges
  <2>2. merged \in Creds!Snapshot
    BY <2>1 DEF Creds!Snapshot
  <2>3. creds' = [creds EXCEPT ![profile] = taken] /\ baseline' = merged
    BY <1>10 DEF Creds!Merges
  <2> HIDE DEF merged
  <2>4. taken \in Creds!Snapshot
    BY <2>1, <2>2 DEF Creds!Snapshot
  <2> HIDE DEF taken
  <2>5. creds' \in [Profiles -> Creds!Snapshot]
    BY <2>3, <2>4
  <2>6. credsDebounce' \in BOOLEAN /\ signedIn' = signedIn /\ profile' = profile
        /\ serverCreds' = serverCreds /\ credsRequest' = Creds!NoRequest
    BY <1>10 DEF Creds!Merges
  <2> QED
    BY <1>5, <2>2, <2>3, <2>5, <2>6
<1>11. ASSUME NEW p \in Profiles, NEW c \in Providers, NEW v \in Values,
              Creds!OtherClient(p, c, v)
       PROVE  Creds!TypeOK'
  <2>1. serverCreds' \in [Profiles -> [Providers -> Values \cup {None, Creds!Absent}]]
    BY <1>11 DEF Creds!OtherClient
  <2> QED
    BY <1>11, <2>1 DEF Creds!OtherClient
<1> QED
  BY <1>1, <1>2, <1>3, <1>4, <1>7, <1>8, <1>9, <1>10, <1>11
  DEF Creds!Next, Creds!User, Creds!Replies

\* The program starts with them.
LEMMA CredsBegin == ASSUME Creds!Init PROVE Creds!TypeOK
<1>1. Creds!Empty \in Creds!Snapshot
  BY DEF Creds!Empty, Creds!Snapshot
<1>2. creds \in [Profiles -> Creds!Snapshot] /\ profile \in Profiles
  BY <1>1 DEF Creds!Init
<1>3. Creds!Ask("pull") \in Creds!Request /\ Creds!NoRequest \in Creds!Request
  BY <1>2 DEF Creds!Ask, Creds!Request
<1>4. serverCreds \in [Profiles -> [Providers -> Values \cup {None, Creds!Absent}]]
  BY DEF Creds!Init
<1> QED
  BY <1>1, <1>2, <1>3, <1>4 DEF Creds!Init, Creds!TypeOK

\* The rest of HomeCatalogSyncController: what CatalogInv does not say.
LEMMA CatalogTyped ==
    ASSUME CatalogInv, CatalogInv', HomeCatalog!TypeOK, HomeCatalog!Next
    PROVE  HomeCatalog!TypeOK'
<1>1. ASSUME catalogRequest.call = "pull" PROVE catalogRequest.of \in HomeCatalog!Owners
  BY <1>1 DEF CatalogInv, HomeCatalog!Request, HomeCatalog!NoRequest
<1>2. catalogDebounce' \in BOOLEAN /\ pullComplete' \in HomeCatalog!Owners \cup {None}
  <2> USE DEF HomeCatalog!TypeOK
  <2>1. ASSUME NEW v \in CatalogValues, HomeCatalog!EditPrefs(v)
        PROVE  catalogDebounce' \in BOOLEAN /\ pullComplete' = pullComplete
    BY <2>1 DEF HomeCatalog!EditPrefs
  <2>2. ASSUME NEW p \in Profiles, HomeCatalog!SwitchProfile(p)
        PROVE  catalogDebounce' \in BOOLEAN /\ pullComplete' = pullComplete
    BY <2>2 DEF HomeCatalog!SwitchProfile
  <2>3. ASSUME NEW u \in Users \cup {None}, HomeCatalog!ChangeUser(u)
        PROVE  UNCHANGED <<catalogDebounce, pullComplete>>
    BY <2>3 DEF HomeCatalog!ChangeUser
  <2>4. ASSUME HomeCatalog!PushNow
        PROVE  catalogDebounce' \in BOOLEAN /\ pullComplete' = pullComplete
    BY <2>4 DEF HomeCatalog!PushNow
  <2>5. ASSUME NEW ok \in BOOLEAN, HomeCatalog!PushReply(ok)
        PROVE  UNCHANGED <<catalogDebounce, pullComplete>>
    BY <2>5 DEF HomeCatalog!PushReply
  <2>6. ASSUME HomeCatalog!PullFails PROVE UNCHANGED <<catalogDebounce, pullComplete>>
    BY <2>6 DEF HomeCatalog!PullFails
  <2>7. ASSUME HomeCatalog!PullReply
        PROVE  catalogDebounce' \in BOOLEAN /\ pullComplete' \in HomeCatalog!Owners
    BY <1>1, <2>7 DEF HomeCatalog!PullReply
  <2> QED
    BY <2>1, <2>2, <2>3, <2>4, <2>5, <2>6, <2>7 DEF HomeCatalog!Next
<1> QED
  BY <1>2 DEF CatalogInv, HomeCatalog!TypeOK

\* The rest of SyncOrchestrator: its flags and both signatures.
LEMMA BlobTyped ==
    ASSUME BlobInv, BlobInv', Settings!TypeOK, Settings!Next
    PROVE  Settings!TypeOK'
<1> DEFINE sigs == lastPushSig' \in Settings!Blob \cup {None}
                     /\ skipNextSig' \in Settings!Blob \cup {None}
           flags == signedIn' \in BOOLEAN /\ pullAttempted' \in BOOLEAN /\ debounce' \in BOOLEAN
<1> USE DEF Settings!TypeOK
<1>1. Settings!FullPushBlob' \in Settings!Blob
  BY DEF BlobInv, Settings!FullPushBlob, Settings!Blob
<1>2. ASSUME NEW v \in Values, Settings!EditPlayer(v) \/ Settings!EditCw(v) PROVE sigs /\ flags
  BY <1>2 DEF Settings!EditPlayer, Settings!EditCw, Settings!SchedulePush
<1>3. ASSUME \/ \E p \in Profiles : Settings!SwitchProfile(p)
             \/ Settings!SignInOrOut
      PROVE  sigs /\ flags
  BY <1>3 DEF Settings!SwitchProfile, Settings!SignInOrOut, settingsVars, Settings!settingsVars
<1>4. ASSUME Settings!Restart PROVE sigs /\ flags
  BY <1>4 DEF Settings!Restart
<1>5. ASSUME Settings!DoPush PROVE sigs /\ flags
  BY <1>5 DEF Settings!DoPush
<1>6. ASSUME NEW ok \in BOOLEAN, Settings!PushReply(ok) PROVE sigs /\ flags
  <2>1. request.blob \in Settings!Blob
    BY <1>6 DEF Settings!PushReply, BlobInv, Settings!Request, Settings!Idle
  <2> QED
    BY <1>6, <2>1 DEF Settings!PushReply
<1>7. ASSUME Settings!PullFails PROVE sigs /\ flags
  BY <1>7 DEF Settings!PullFails
<1>8. ASSUME Settings!PullReply PROVE sigs /\ flags
  <2>1. /\ signedIn' = signedIn /\ pullAttempted' = TRUE /\ lastPushSig' = lastPushSig
        /\ skipNextSig' = Settings!FullPushBlob' \/ skipNextSig' = skipNextSig
        /\ debounce' = debounce \/ Settings!SchedulePush(Settings!Idle, TRUE)
    BY <1>8, Zenon DEF Settings!PullReply
  <2> QED
    BY <1>1, <2>1 DEF Settings!SchedulePush
<1>9. ASSUME NEW p \in Profiles, NEW v \in Values, Settings!OtherClient(p, v)
      PROVE  sigs /\ flags
  BY <1>9 DEF Settings!OtherClient
<1>10. sigs /\ flags
  BY <1>2, <1>3, <1>4, <1>5, <1>6, <1>7, <1>8, <1>9
  DEF Settings!Next, Settings!User, Settings!Replies
<1> QED
  BY <1>10 DEF BlobInv

\* The rest of TraktAuth, SimklAuth and DebridAuth: their flags.
LEMMA AuthTyped ==
    ASSUME AuthInv', Accounts!TypeOK, Accounts!Next
    PROVE  Accounts!TypeOK'
<1> DEFINE flags == flowActive' \in BOOLEAN /\ busy' \in BOOLEAN /\ service' = service
<1> USE DEF Accounts!TypeOK, Accounts!Flow
<1>1. ASSUME Accounts!User PROVE flags
  BY <1>1 DEF Accounts!User, Accounts!StartFlow, Accounts!CancelFlow, Accounts!SignOut,
              Accounts!EnterKey, Accounts!Refresh, Accounts!SwitchAccount
<1>2. ASSUME NEW r \in asked, NEW good \in BOOLEAN,
             Accounts!StartReply(r, good) \/ Accounts!KeyReply(r, good)
      PROVE  flags
  BY <1>2 DEF Accounts!StartReply, Accounts!KeyReply, Accounts!Ignored
<1>3. ASSUME NEW r \in asked, NEW expired \in BOOLEAN, Accounts!PollTimer(r, expired)
      PROVE  flags
  BY <1>3 DEF Accounts!PollTimer, Accounts!Ignored
<1>4. ASSUME NEW r \in asked, NEW answer, Accounts!PollReply(r, answer) PROVE flags
  BY <1>4 DEF Accounts!PollReply, Accounts!Ignored
<1>5. ASSUME NEW r \in asked, NEW answer, Accounts!RefreshReply(r, answer) PROVE flags
  BY <1>5 DEF Accounts!RefreshReply
<1>6. flags
  BY <1>1, <1>2, <1>3, <1>4, <1>5 DEF Accounts!Next
<1> QED
  BY <1>6 DEF AuthInv

\* AppSettings: what a getter and a setter make of a value is a value.
LEMMA PrefValues ==
    ASSUME Preferences!TypeOK
    PROVE  /\ \A raw \in Preferences!Raw : Preferences!ReadOf(raw) \in Preferences!Raw
           /\ \A v \in Preferences!Raw : Preferences!Encoded(v) \in Preferences!Raw
           /\ Preferences!Got.value \in Preferences!Raw
           /\ Preferences!Got.kept \in [Profiles -> Preferences!Raw]
<1> USE DEF Preferences!TypeOK
<1>1. ASSUME NEW raw \in Preferences!Raw PROVE Preferences!ReadOf(raw) \in Preferences!Raw
  <2>1. /\ Preferences!Flag(raw) \in Preferences!Raw
        /\ Preferences!Word(raw) \in Preferences!Raw
        /\ Preferences!Size(raw) \in Preferences!Raw
        /\ Preferences!Text(raw) \in Preferences!Raw
    BY <1>1 DEF Preferences!Flag, Preferences!Word, Preferences!Size, Preferences!Text,
                Preferences!Raw, Preferences!SettingValues
  <2> QED
    BY <2>1 DEF Preferences!ReadOf
<1>2. ASSUME NEW v \in Preferences!Raw PROVE Preferences!Encoded(v) \in Preferences!Raw
  BY <1>2 DEF Preferences!Encoded, Preferences!Converted, Preferences!Clamped,
              Preferences!Raw, Preferences!SettingValues
<1>3. Preferences!Got.value \in Preferences!Raw
  BY <1>1 DEF Preferences!Got
<1>4. Preferences!Got.kept \in [Profiles -> Preferences!Raw]
  BY <1>2 DEF Preferences!Got
<1> QED
  BY <1>1, <1>2, <1>3, <1>4

\* A signal shows a value.
LEMMA NotifyTyped ==
    ASSUME Preferences!TypeOK, NEW raw \in Preferences!Raw, Preferences!Notify(raw)
    PROVE  shown' \in Preferences!Raw /\ moved' \in BOOLEAN /\ fromLegacy' \in BOOLEAN
BY PrefValues DEF Preferences!TypeOK, Preferences!Notify, Preferences!Displays

\* Keys, the page and its history keep to their types.
LEMMA PreferencesTyped == ASSUME Preferences!TypeOK, Preferences!Next PROVE Preferences!TypeOK'
<1> USE DEF Preferences!TypeOK
<1>1. None \in Preferences!Raw
  BY DEF Preferences!Raw
<1>2. ASSUME Preferences!OpenPage PROVE Preferences!TypeOK'
  BY <1>1, <1>2, PrefValues DEF Preferences!OpenPage, Preferences!Displays
<1>3. ASSUME Preferences!ClosePage PROVE Preferences!TypeOK'
  BY <1>1, <1>3 DEF Preferences!ClosePage
<1>4. ASSUME Preferences!SignalOfFamily PROVE Preferences!TypeOK'
  <2>1. kept[profile] \in Preferences!Raw
    OBVIOUS
  <2> QED
    BY <1>4, <2>1, NotifyTyped DEF Preferences!SignalOfFamily
<1>5. ASSUME NEW v \in Preferences!SettingValues, Preferences!Set(v) PROVE Preferences!TypeOK'
  <2>1. v \in Preferences!Raw
    BY DEF Preferences!Raw
  <2>2. Preferences!Encoded(v) \in Preferences!Raw
    BY <2>1, PrefValues
  <2>3. kept' \in [Profiles -> Preferences!Raw]
    BY <1>5, <2>2, PrefValues DEF Preferences!Set
  <2>4. shown' \in Preferences!Raw /\ moved' \in BOOLEAN /\ fromLegacy' \in BOOLEAN
    BY <1>5, <2>2, NotifyTyped DEF Preferences!Set
  <2> QED
    BY <1>1, <1>5, <2>3, <2>4 DEF Preferences!Set
<1>6. ASSUME NEW v \in Preferences!SettingValues, Preferences!ApplyPlayerSyncPayload(v)
      PROVE  Preferences!TypeOK'
  <2>1. v \in Preferences!Raw
    BY DEF Preferences!Raw
  <2>2. kept' \in [Profiles -> Preferences!Raw]
    BY <1>6, <2>1, PrefValues DEF Preferences!ApplyPlayerSyncPayload
  <2>3. shown' \in Preferences!Raw /\ moved' \in BOOLEAN /\ fromLegacy' \in BOOLEAN
    BY <1>6, <2>1, NotifyTyped DEF Preferences!ApplyPlayerSyncPayload
  <2> QED
    BY <1>1, <1>6, <2>2, <2>3 DEF Preferences!ApplyPlayerSyncPayload
<1>7. ASSUME NEW p \in Profiles, Preferences!SwitchAndRefresh(p) PROVE Preferences!TypeOK'
  <2>1. kept[p] \in Preferences!Raw
    OBVIOUS
  <2> QED
    BY <1>7, <2>1, NotifyTyped DEF Preferences!SwitchAndRefresh
<1>8. ASSUME NEW p \in Profiles, Preferences!MoveSilently(p) PROVE Preferences!TypeOK'
  BY <1>8 DEF Preferences!MoveSilently
<1> QED
  BY <1>2, <1>3, <1>4, <1>5, <1>6, <1>7, <1>8 DEF Preferences!Next

\* DebridResolver: an answer of a call goes to the end of its answers.
LEMMA FinishTyped ==
    ASSUME LinkInv, Debrid!TypeOK, NEW t \in 1..MaxCalls, NEW a \in Debrid!Answer,
           Debrid!Finish(t, a)
    PROVE  \A c \in 1..MaxCalls : linkAnswers'[c] \in Seq(Debrid!Answer)
<1>1. Append(linkAnswers[t], a) \in Seq(Debrid!Answer)
  BY DEF Debrid!TypeOK
<1>2. \/ linkAnswers' = linkAnswers
      \/ linkAnswers' = [linkAnswers EXCEPT ![t] = Append(linkAnswers[t], a)]
  BY DEF Debrid!Finish
<1>3. linkAnswers = [c \in 1..MaxCalls |-> linkAnswers[c]]
  BY DEF LinkInv
<1> QED
  BY <1>1, <1>2, <1>3 DEF Debrid!TypeOK

\* The first of a set of places in a list of two.
LEMMA FirstIs ==
    ASSUME NEW is \in SUBSET {1, 2}, is # {}
    PROVE  Debrid!First(is) \in is
<1>1. \E i \in is : \A j \in is : i <= j
  <2>1. CASE 1 \in is
    BY <2>1
  <2>2. CASE 1 \notin is
    <3>1. 2 \in is /\ \A j \in is : j = 2
      BY <2>2
    <3> QED
      BY <3>1
  <2> QED
    BY <2>1, <2>2
<1> QED
  BY <1>1 DEF Debrid!First

\* selectTorrentFile picks one of the files.
LEMMA SelectedFile ==
    ASSUME NEW files \in Debrid!FileLists, Debrid!Playable(files) # {}
    PROVE  Debrid!SelectTorrentFile(files) \in Debrid!File
<1>1. /\ Debrid!Playable(files) \in SUBSET {1, 2}
      /\ \A i \in Debrid!Playable(files) : files[i] \in Debrid!File
      /\ \A i \in Debrid!Playable(files) : files[i].size \in 1..2
  BY DEF Debrid!FileLists, Debrid!Playable, Debrid!File
<1>2. CASE Debrid!Matching(files) # {}
  <2>1. Debrid!First(Debrid!Matching(files)) \in Debrid!Matching(files)
    BY <1>1, <1>2, FirstIs DEF Debrid!Matching
  <2> QED
    BY <1>1, <1>2, <2>1 DEF Debrid!Matching, Debrid!SelectTorrentFile
<1>3. CASE Debrid!Matching(files) = {}
  <2> DEFINE biggest == {i \in Debrid!Playable(files) :
                           \A j \in Debrid!Playable(files) :
                              files[j].size <= files[i].size}
  <2>1. biggest \in SUBSET {1, 2} /\ biggest \subseteq Debrid!Playable(files)
    BY <1>1
  <2>2. biggest # {}
    <3>1. CASE \E i \in Debrid!Playable(files) : files[i].size = 2
      BY <1>1, <3>1
    <3>2. CASE \A i \in Debrid!Playable(files) : files[i].size = 1
      BY <1>1, <3>2
    <3> QED
      BY <1>1, <3>1, <3>2
  <2>3. Debrid!First(biggest) \in Debrid!Playable(files)
    BY <2>1, <2>2, FirstIs
  <2> QED
    BY <1>1, <1>3, <2>3 DEF Debrid!SelectTorrentFile
<1> QED
  BY <1>2, <1>3

\* A handler that asks for more, or ends the call.
LEMMA FollowTyped ==
    ASSUME Debrid!TypeOK, NEW s \in linkSteps, NEW n \in Debrid!LinkStep, Debrid!Follow(s, n)
    PROVE  linkSteps' \subseteq Debrid!LinkStep /\ linkAnswers' = linkAnswers
BY DEF Debrid!TypeOK, Debrid!Follow

LEMMA CloseTyped ==
    ASSUME LinkInv, Debrid!TypeOK, NEW s \in linkSteps, NEW a \in Debrid!Answer, Debrid!Close(s, a)
    PROVE  /\ linkSteps' \subseteq Debrid!LinkStep
           /\ \A c \in 1..MaxCalls : linkAnswers'[c] \in Seq(Debrid!Answer)
<1>1. s \in Debrid!LinkStep /\ Debrid!Finish(s.token, a)
  BY DEF Debrid!TypeOK, Debrid!Close
<1>2. s.token \in 1..MaxCalls
  BY <1>1 DEF Debrid!LinkStep
<1>3. \A c \in 1..MaxCalls : linkAnswers'[c] \in Seq(Debrid!Answer)
  BY <1>1, <1>2, FinishTyped
<1> QED
  BY <1>3 DEF Debrid!TypeOK, Debrid!Close

\* A reply: what follows it is a request, what ends the call is an answer.
LEMMA LinkReplyTyped ==
    ASSUME LinkInv, Debrid!TypeOK, NEW s \in linkSteps, Debrid!LinkReply(s)
    PROVE  /\ linkSteps' \subseteq Debrid!LinkStep
           /\ \A c \in 1..MaxCalls : linkAnswers'[c] \in Seq(Debrid!Answer)
<1> DEFINE typed == /\ linkSteps' \subseteq Debrid!LinkStep
                    /\ \A c \in 1..MaxCalls : linkAnswers'[c] \in Seq(Debrid!Answer)
<1>1. s \in Debrid!LinkStep /\ s.token \in 1..MaxCalls
  BY DEF Debrid!TypeOK, Debrid!LinkStep
<1>2. ASSUME NEW reason \in Debrid!Reasons, Debrid!Close(s, [reason |-> reason]) PROVE typed
  <2>1. [reason |-> reason] \in Debrid!Answer
    BY DEF Debrid!Answer
  <2> QED
    BY <1>2, <2>1, CloseTyped
<1>3. ASSUME NEW step \in {"create", "list"},
             Debrid!Follow(s, [token |-> s.token, step |-> step])
      PROVE  typed
  <2>1. [token |-> s.token, step |-> step] \in Debrid!LinkStep
    BY <1>1 DEF Debrid!LinkStep, Debrid!Steps
  <2> QED
    BY <1>3, <2>1, FollowTyped DEF Debrid!TypeOK
<1>4. CASE Debrid!Drop(s)
  BY <1>4 DEF Debrid!Drop, Debrid!TypeOK
<1>5. CASE Debrid!CheckReply(s)
  BY <1>3, <1>5 DEF Debrid!CheckReply
<1>6. CASE Debrid!CreateReply(s)
  <2>1. CASE Debrid!Follow(s, [token |-> s.token, step |-> "list"])
    BY <1>3, <2>1
  <2>2. CASE \E reason \in {"NotCached", "Stale"} : Debrid!Close(s, [reason |-> reason])
    BY <1>2, <2>2 DEF Debrid!Reasons
  <2> QED
    BY <1>6, <2>1, <2>2 DEF Debrid!CreateReply
<1>7. CASE Debrid!DownloadReply(s)
  <2> DEFINE a == [reason |-> "resolved", file |-> s.file]
  <2>1. s.step = "download"
    BY <1>7 DEF Debrid!DownloadReply
  <2>2. s.file \in Debrid!File
    BY <1>1, <2>1 DEF Debrid!LinkStep
  <2>3. a \in Debrid!Answer
    BY <2>2 DEF Debrid!Answer
  <2>4. \/ Debrid!Close(s, a)
        \/ Debrid!Close(s, [reason |-> "Stale"])
    BY <1>7 DEF Debrid!DownloadReply
  <2> HIDE DEF a
  <2> QED
    BY <1>2, <2>3, <2>4, CloseTyped DEF Debrid!Reasons
<1>8. ASSUME NEW files \in Debrid!FileLists, Debrid!ListReply(s, files) PROVE typed
  <2> DEFINE n == [token |-> s.token, step |-> "download",
                   file |-> Debrid!SelectTorrentFile(files)]
  <2>1. CASE Debrid!Close(s, [reason |-> "Stale"])
    BY <1>2, <2>1 DEF Debrid!Reasons
  <2>2. CASE Debrid!Playable(files) # {} /\ Debrid!Follow(s, n)
    <3>1. Debrid!SelectTorrentFile(files) \in Debrid!File
      BY <2>2, SelectedFile
    <3>2. n \in Debrid!LinkStep
      BY <1>1, <3>1 DEF Debrid!LinkStep
    <3> HIDE DEF n
    <3> QED
      BY <2>2, <3>2, FollowTyped DEF Debrid!TypeOK
  <2> QED
    BY <1>8, <2>1, <2>2 DEF Debrid!ListReply
<1>9. ASSUME NEW files \in Debrid!FileLists, Debrid!DirectReply(s, files) PROVE typed
  <2> DEFINE a == [reason |-> "resolved", file |-> Debrid!SelectTorrentFile(files)]
  <2>1. CASE \E reason \in Debrid!Reasons : Debrid!Close(s, [reason |-> reason])
    BY <1>2, <2>1
  <2>2. CASE Debrid!Playable(files) # {} /\ Debrid!Close(s, a)
    <3>1. Debrid!SelectTorrentFile(files) \in Debrid!File
      BY <2>2, SelectedFile
    <3>2. a \in Debrid!Answer
      BY <3>1 DEF Debrid!Answer
    <3> HIDE DEF a
    <3> QED
      BY <2>2, <3>2, CloseTyped
  <2> QED
    BY <1>9, <2>1, <2>2, Zenon DEF Debrid!DirectReply, Debrid!Reasons
<1> QED
  BY <1>4, <1>5, <1>6, <1>7, <1>8, <1>9 DEF Debrid!LinkReply

\* The settings, requests and answers keep to their types.
LEMMA LinksTyped == ASSUME LinkInv, Debrid!TypeOK, Debrid!Next PROVE Debrid!TypeOK'
<1>1. ASSUME Debrid!ChangeSettings PROVE Debrid!TypeOK'
  BY <1>1 DEF Debrid!ChangeSettings, Debrid!TypeOK
<1>2. ASSUME Debrid!ResolveTorrent PROVE Debrid!TypeOK'
  <2>1. token' \in 0..MaxCalls /\ token' \in 1..MaxCalls
    BY <1>2, ServicesAssumption DEF Debrid!ResolveTorrent, Debrid!TypeOK
  <2>2. CASE ~debridOn \/ configured = {}
    <3> DEFINE a == [reason |-> "NoCredential"]
    <3>1. a \in Debrid!Answer
      BY DEF Debrid!Answer, Debrid!Reasons
    <3>2. Debrid!Finish(token', a) /\ linkSteps' = linkSteps
      BY <1>2, <2>2 DEF Debrid!ResolveTorrent, Debrid!Fail
    <3> HIDE DEF a
    <3>3. \A c \in 1..MaxCalls : linkAnswers'[c] \in Seq(Debrid!Answer)
      BY <2>1, <3>1, <3>2, FinishTyped
    <3> QED
      BY <1>2, <2>1, <3>2, <3>3 DEF Debrid!ResolveTorrent, Debrid!TypeOK
  <2>3. CASE ~(~debridOn \/ configured = {})
    <3>1. ASSUME NEW step \in {"check", "directdl"}
          PROVE  [token |-> token', step |-> step] \in Debrid!LinkStep
      BY <2>1, <3>1 DEF Debrid!LinkStep, Debrid!Steps
    <3>2. linkSteps' \subseteq Debrid!LinkStep /\ linkAnswers' = linkAnswers
      BY <1>2, <2>3, <3>1 DEF Debrid!ResolveTorrent, Debrid!TypeOK
    <3> QED
      BY <1>2, <2>1, <3>2 DEF Debrid!ResolveTorrent, Debrid!TypeOK
  <2> QED
    BY <2>2, <2>3
<1>3. ASSUME NEW s \in linkSteps, Debrid!LinkReply(s) PROVE Debrid!TypeOK'
  <2>1. /\ linkSteps' \subseteq Debrid!LinkStep
        /\ \A c \in 1..MaxCalls : linkAnswers'[c] \in Seq(Debrid!Answer)
    BY <1>3, LinkReplyTyped
  <2>2. UNCHANGED <<configured, preferred, debridOn, token>>
    BY <1>3 DEF Debrid!LinkReply
  <2> QED
    BY <2>1, <2>2 DEF Debrid!TypeOK
<1> QED
  BY <1>1, <1>2, <1>3 DEF Debrid!Next

\* Queued calls and signals of the generations up to g.
Owned(s, g) == s \in Seq(Torrents!Event) /\ \A n \in 1..Len(s) : s[n].of \in 1..g

\* Generations count up to the bound; what is connected, under way or queued
\* is of one of them.
StreamTypes ==
    /\ generation \in 0..MaxStreams
    /\ generation = 0 => attempts = Torrents!NoTorrent
    /\ wired \subseteq 1..generation /\ sessions \subseteq 1..generation
    /\ Owned(posted, generation)

\* Queues of these are such queues, joined, rested or when generations go on.
LEMMA OwnedPosts ==
    ASSUME NEW g \in Nat, NEW s, NEW t, Owned(s, g), Owned(t, g)
    PROVE  Owned(s \o t, g)
<1>1. s \in Seq(Torrents!Event) /\ t \in Seq(Torrents!Event)
  BY DEF Owned
<1>2. s \o t \in Seq(Torrents!Event) /\ Len(s \o t) = Len(s) + Len(t)
  BY <1>1
<1>3. \A n \in 1..Len(s \o t) : \/ n \in 1..Len(s) /\ (s \o t)[n] = s[n]
                                \/ n - Len(s) \in 1..Len(t) /\ (s \o t)[n] = t[n - Len(s)]
  BY <1>1, <1>2
<1> QED
  BY <1>2, <1>3 DEF Owned

LEMMA OwnedRest ==
    ASSUME NEW g \in Nat, NEW s, Owned(s, g), s # <<>>
    PROVE  Owned(Tail(s), g) /\ Head(s).of \in 1..g
<1>1. s \in Seq(Torrents!Event)
  BY DEF Owned
<1>2. /\ Tail(s) \in Seq(Torrents!Event) /\ Len(Tail(s)) = Len(s) - 1 /\ Len(s) > 0
      /\ \A n \in 1..Len(Tail(s)) : n + 1 \in 1..Len(s) /\ Tail(s)[n] = s[n + 1]
      /\ Head(s) = s[1]
  BY <1>1
<1> QED
  BY <1>2 DEF Owned

LEMMA OwnedLonger == ASSUME NEW g \in Nat, NEW s, Owned(s, g) PROVE Owned(s, g + 1)
BY DEF Owned

LEMMA OwnedPost ==
    ASSUME NEW g \in Nat, NEW of \in 1..g,
           NEW sig \in {"missing", "ready", "failed", "streamReady", "streamFailed"}
    PROVE  Owned(Torrents!Posting(sig, of), g)
<1>0. of \in Nat
  OBVIOUS
<1>1. Torrents!Posting(sig, of) \in Seq(Torrents!Event)
  BY <1>0, OnePost
<1> QED
  BY <1>1 DEF Owned, Torrents!Posting

LEMMA OwnedNone == ASSUME NEW g \in Nat PROVE Owned(<<>>, g)
BY DEF Owned

\* A signal goes to generations that are connected.
LEMMA OwnedSignals ==
    ASSUME StreamInv, StreamTypes, NEW sig \in {"ready", "failed"}
    PROVE  Owned(Torrents!Emits(sig), generation)
<1> DEFINE s == Torrents!SetToSeq(wired)
<1>1. s \in Seq(wired)
  BY StreamsListed DEF StreamInv
<1>2. Torrents!Emits(sig) = [n \in 1..Len(s) |-> [kind |-> sig, of |-> s[n]]]
  BY DEF Torrents!Emits
<1>3. Torrents!Emits(sig) \in Seq(Torrents!Event)
  BY SignalReaches
<1> HIDE DEF s
<1>4. Len(s) \in Nat /\ \A n \in 1..Len(s) : s[n] \in wired
  BY <1>1
<1>5. Len(Torrents!Emits(sig)) = Len(s)
  BY <1>2, <1>4
<1>6. \A n \in 1..Len(s) : Torrents!Emits(sig)[n].of = s[n]
  BY <1>2
<1> QED
  BY <1>3, <1>4, <1>5, <1>6 DEF Owned, StreamTypes

\* startStream.
LEMMA StartTyped ==
    ASSUME StreamInv, StreamTypes, NEW valid \in BOOLEAN, NEW binary \in BOOLEAN,
           Torrents!StartStream(valid, binary)
    PROVE  StreamTypes'
<1> DEFINE g == generation + 1
           news == CASE ~valid -> Torrents!Posting("streamFailed", g)
                     [] valid /\ phase = "Idle" /\ ~binary -> Torrents!Posting("missing", g)
                     [] OTHER -> <<>>
<1>1. /\ generation' = g /\ g \in 1..MaxStreams /\ posted' = posted \o news
      /\ wired' \subseteq wired \cup {g} /\ sessions' \subseteq sessions \cup {g}
      /\ generation \in Nat /\ g \in Nat /\ g \in 1..g /\ g # 0
  BY ServicesAssumption DEF StreamTypes, Torrents!StartStream
<1>2. wired' \subseteq 1..g /\ sessions' \subseteq 1..g
  BY <1>1 DEF StreamTypes
<1>3. Owned(Torrents!Posting("streamFailed", g), g) /\ Owned(Torrents!Posting("missing", g), g)
      /\ Owned(<<>>, g) /\ Owned(posted, g)
  BY <1>1, OwnedPost, OwnedNone, OwnedLonger DEF StreamTypes
<1>4. Owned(news, g)
  BY <1>3
<1> HIDE DEF news
<1>5. Owned(posted', g)
  BY <1>1, <1>3, <1>4, OwnedPosts
<1> QED
  BY <1>1, <1>2, <1>5 DEF StreamTypes

\* Deliver.
LEMMA DeliverTyped ==
    ASSUME StreamInv, StreamTypes, Torrents!Deliver PROVE StreamTypes'
<1> DEFINE e == Head(posted)
           tail == Tail(posted)
<1>1. generation \in Nat /\ Owned(posted, generation) /\ posted # <<>>
      /\ UNCHANGED <<generation, wired>>
  BY DEF StreamTypes, Torrents!Deliver
<1>2. Owned(tail, generation) /\ e.of \in 1..generation
  BY <1>1, OwnedRest
<1>3. Owned(Torrents!FailToken(e.of), generation)
  BY <1>1, <1>2, OwnedPost, OwnedNone DEF Torrents!FailToken
<1>4. Owned(Torrents!Emits("failed"), generation)
  BY OwnedSignals
<1>5. /\ \/ posted' = tail
         \/ posted' = tail \o Torrents!Emits("failed")
         \/ posted' = tail \o Torrents!FailToken(e.of)
      /\ sessions' = sessions \/ sessions' = sessions \cup {e.of}
      /\ attempts' = attempts
  BY DEF Torrents!Deliver, Torrents!engineVars
<1> HIDE DEF e, tail
<1>6. Owned(posted', generation)
  <2>1. CASE posted' = tail
    BY <1>2, <2>1
  <2>2. CASE posted' = tail \o Torrents!Emits("failed")
    BY <1>1, <1>2, <1>4, <2>2, OwnedPosts
  <2>3. CASE posted' = tail \o Torrents!FailToken(e.of)
    BY <1>1, <1>2, <1>3, <2>3, OwnedPosts
  <2> QED
    BY <1>5, <2>1, <2>2, <2>3
<1>7. sessions' \subseteq 1..generation
  BY <1>2, <1>5 DEF StreamTypes
<1> QED
  BY <1>1, <1>5, <1>6, <1>7 DEF StreamTypes

\* A step that posts what is owned, and ends sessions at most, keeps the types.
LEMMA PostsTyped ==
    ASSUME StreamTypes, NEW t, Owned(t, generation),
           posted' = posted \/ posted' = posted \o t,
           UNCHANGED <<generation, wired>>, sessions' \subseteq sessions,
           attempts' = attempts \/ generation # 0
    PROVE  StreamTypes'
<1>1. generation \in Nat /\ Owned(posted, generation)
  BY DEF StreamTypes
<1>2. Owned(posted \o t, generation)
  BY <1>1, OwnedPosts
<1> QED
  BY <1>1, <1>2 DEF StreamTypes

\* Every step of P2pEngine and TorrServerProcess keeps the types.
LEMMA StreamTypesStep == ASSUME StreamInv, StreamTypes, Torrents!Next PROVE StreamTypes'
<1>0. /\ Owned(Torrents!Emits("failed"), generation) /\ Owned(Torrents!Emits("ready"), generation)
      /\ generation \in Nat /\ Owned(<<>>, generation)
  BY OwnedSignals, OwnedNone DEF StreamTypes
<1>1. ASSUME NEW valid \in BOOLEAN, NEW binary \in BOOLEAN, Torrents!StartStream(valid, binary)
      PROVE  StreamTypes'
  BY <1>1, StartTyped
<1>2. ASSUME Torrents!StopStream PROVE StreamTypes'
  <2>1. generation' = generation + 1 /\ generation' \in 1..MaxStreams
        /\ UNCHANGED <<wired, posted, sessions>>
    BY <1>2, ServicesAssumption DEF Torrents!StopStream, StreamTypes
  <2>2. Owned(posted, generation + 1)
    BY <1>0, OwnedLonger DEF StreamTypes
  <2> QED
    BY <2>1, <2>2 DEF StreamTypes
<1>3. ASSUME Torrents!IdleStop PROVE StreamTypes'
  BY <1>3 DEF Torrents!IdleStop, Torrents!engineVars, StreamTypes
<1>4. ASSUME NEW exists \in BOOLEAN, Torrents!OrphanSettles(exists) PROVE StreamTypes'
  <2>1. /\ posted' = posted \/ posted' = posted \o Torrents!Emits("failed")
        /\ UNCHANGED <<generation, wired>> /\ sessions' \subseteq sessions
        /\ attempts' = attempts \/ generation # 0
    BY <1>4 DEF Torrents!OrphanSettles, Torrents!FinishFailure, Torrents!processUnchanged,
                Torrents!engineVars
  <2> QED
    BY <1>0, <2>1, PostsTyped
<1>5. ASSUME Torrents!HealthReply PROVE StreamTypes'
  <2>1. /\ posted' = posted \o Torrents!Emits("ready")
        /\ UNCHANGED <<generation, wired>> /\ sessions' \subseteq sessions
        /\ attempts' = attempts \/ generation # 0
    BY <1>5 DEF Torrents!HealthReply, Torrents!processUnchanged, Torrents!engineVars
  <2> QED
    BY <1>0, <2>1, PostsTyped
<1>6. ASSUME Torrents!StartFails PROVE StreamTypes'
  <2>1. /\ posted' = posted \o Torrents!Emits("failed")
        /\ UNCHANGED <<generation, wired>> /\ sessions' \subseteq sessions
        /\ attempts' = attempts \/ generation # 0
    BY <1>6 DEF Torrents!StartFails, Torrents!FinishFailure, Torrents!processUnchanged,
                Torrents!engineVars
  <2> QED
    BY <1>0, <2>1, PostsTyped
<1>7. ASSUME Torrents!Deliver PROVE StreamTypes'
  BY <1>7, DeliverTyped
<1>8. ASSUME NEW g \in 1..MaxStreams, NEW ok \in BOOLEAN, Torrents!TorrentAdded(g, ok)
      PROVE  StreamTypes'
  <2>1. g \in 1..generation
    BY <1>8 DEF Torrents!TorrentAdded, StreamTypes
  <2>2. Owned(Torrents!FailToken(g), generation)
    BY <1>0, <2>1, OwnedPost DEF Torrents!FailToken
  <2>3. /\ posted' = posted \/ posted' = posted \o Torrents!FailToken(g)
        /\ UNCHANGED <<generation, wired>> /\ sessions' \subseteq sessions
        /\ attempts' = attempts \/ generation # 0
    BY <1>0, <1>8, <2>1 DEF Torrents!TorrentAdded
  <2> QED
    BY <2>2, <2>3, PostsTyped
<1>9. ASSUME NEW files \in BOOLEAN, Torrents!Metadata(files) PROVE StreamTypes'
  <2>1. \/ posted' = posted
        \/ posted' = posted \o Torrents!Posting("streamReady", generation)
    BY <1>9 DEF Torrents!Metadata
  <2>2. UNCHANGED <<generation, wired>> /\ sessions' \subseteq sessions
        /\ generation # 0
    BY <1>9 DEF Torrents!Metadata, StreamTypes
  <2>3. generation \in 1..generation
    BY <1>0, <2>2
  <2>4. Owned(Torrents!Posting("streamReady", generation), generation)
    BY <1>0, <2>3, OwnedPost
  <2> QED
    BY <2>1, <2>2, <2>4, PostsTyped
<1> QED
  BY <1>1, <1>2, <1>3, <1>4, <1>5, <1>6, <1>7, <1>8, <1>9 DEF Torrents!Next

\* The rest of PluginRepository: the scrapers of its repositories and its flags.
PluginTypes ==
    /\ scrapers \in [Profiles -> [Urls -> PluginRepos!States]]
    /\ pulled \in BOOLEAN /\ pulling \in BOOLEAN /\ signedIn \in BOOLEAN
    /\ refreshing \subseteq Urls

\* One scraper of the active profile takes a state.
LEMMA ScraperTyped ==
    ASSUME PluginInv, PluginTypes, NEW u \in Urls, NEW s \in PluginRepos!States
    PROVE  [scrapers EXCEPT ![profile][u] = s] \in [Profiles -> [Urls -> PluginRepos!States]]
<1>1. profile \in Profiles /\ scrapers[profile] \in [Urls -> PluginRepos!States]
  BY DEF PluginInv, PluginTypes
<1>2. [scrapers[profile] EXCEPT ![u] = s] \in [Urls -> PluginRepos!States]
  BY <1>1
<1> QED
  BY <1>1, <1>2 DEF PluginTypes

\* applyFetched.
LEMMA AppliedTyped ==
    ASSUME PluginInv, PluginTypes, NEW f \in PluginRepos!Fetch, NEW s \in PluginRepos!States,
           PluginRepos!ApplyFetched(f, s)
    PROVE  scrapers' \in [Profiles -> [Urls -> PluginRepos!States]]
<1>1. f.url \in Urls
  BY DEF PluginRepos!Fetch
<1> QED
  BY <1>1, ScraperTyped DEF PluginRepos!ApplyFetched

\* The user's steps keep the types.
LEMMA PluginUserTyped ==
    ASSUME PluginInv, PluginTypes, PluginRepos!User PROVE PluginTypes'
<1>1. repos[profile] \subseteq Urls
  BY DEF PluginInv
<1>2. ASSUME NEW u \in Urls, PluginRepos!AddRepository(u) PROVE PluginTypes'
  BY <1>2 DEF PluginRepos!AddRepository, PluginRepos!Fetches, PluginTypes
<1>3. ASSUME NEW u \in Urls, PluginRepos!RemoveRepository(u) PROVE PluginTypes'
  <2>1. "none" \in PluginRepos!States
    BY DEF PluginRepos!States
  <2> QED
    BY <1>3, <2>1, ScraperTyped DEF PluginRepos!RemoveRepository, PluginTypes
<1>4. ASSUME NEW u \in Urls, PluginRepos!ToggleScraper(u) PROVE PluginTypes'
  <2> DEFINE s == IF scrapers[profile][u] = "on" THEN "off" ELSE "on"
  <2>1. s \in PluginRepos!States
    BY DEF PluginRepos!States
  <2>2. scrapers' = [scrapers EXCEPT ![profile][u] = s]
    BY <1>4 DEF PluginRepos!ToggleScraper, PluginInv, PluginTypes
  <2> HIDE DEF s
  <2>3. scrapers' \in [Profiles -> [Urls -> PluginRepos!States]]
    BY <2>1, <2>2, ScraperTyped
  <2> QED
    BY <1>4, <2>3 DEF PluginRepos!ToggleScraper, PluginTypes
<1>5. ASSUME NEW urls \in SUBSET Urls, NEW reason, PluginRepos!Refresh(urls, reason)
      PROVE  PluginTypes'
  BY <1>5 DEF PluginRepos!Refresh, PluginRepos!Fetches, PluginTypes
<1>6. ASSUME NEW u \in Urls, PluginRepos!Refresh({u}, "user") PROVE PluginTypes'
  <2>1. {u} \in SUBSET Urls
    OBVIOUS
  <2> QED
    BY <1>5, <1>6, <2>1
<1>7. ASSUME PluginRepos!Refresh(repos[profile], "auto") PROVE PluginTypes'
  BY <1>1, <1>5, <1>7
<1> QED
  BY <1>2, <1>3, <1>4, <1>6, <1>7 DEF PluginRepos!User

\* The replies keep them.
LEMMA PluginReplyTyped ==
    ASSUME PluginInv, PluginTypes, PluginRepos!Replies PROVE PluginTypes'
<1>1. \A i \in DOMAIN fetches : fetches[i] \in PluginRepos!Fetch
  BY DEF PluginInv
<1>2. {"none", "on", "barred"} \subseteq PluginRepos!States
  BY DEF PluginRepos!States
<1>3. ASSUME NEW i \in DOMAIN fetches, NEW made \in PluginRepos!Manifests,
             PluginRepos!ManifestReply(i, made)
      PROVE  PluginTypes'
  <2>1. \/ scrapers' = scrapers
        \/ PluginRepos!ApplyFetched(fetches[i], "none")
    BY <1>3, Zenon DEF PluginRepos!ManifestReply, PluginRepos!ApplyFetchError
  <2>2. scrapers' \in [Profiles -> [Urls -> PluginRepos!States]]
    BY <1>1, <1>2, <2>1, AppliedTyped DEF PluginTypes
  <2>3. refreshing' = refreshing \ {fetches[i].url} /\ UNCHANGED <<signedIn, pulled, pulling>>
    BY <1>3 DEF PluginRepos!ManifestReply
  <2> QED
    BY <2>2, <2>3 DEF PluginTypes
<1>4. ASSUME NEW i \in DOMAIN fetches, NEW s \in {"none", "on", "barred"},
             PluginRepos!CodeReply(i, s)
      PROVE  PluginTypes'
  <2>1. \/ scrapers' = scrapers
        \/ PluginRepos!ApplyFetched(fetches[i], s)
    BY <1>4 DEF PluginRepos!CodeReply
  <2>2. scrapers' \in [Profiles -> [Urls -> PluginRepos!States]]
    BY <1>1, <1>2, <2>1, AppliedTyped DEF PluginTypes
  <2> QED
    BY <1>4, <2>2 DEF PluginRepos!CodeReply, PluginTypes
<1>5. ASSUME NEW i \in DOMAIN pluginCalls, NEW ok \in BOOLEAN, NEW rs \in SUBSET Urls,
             NEW due \in SUBSET Urls, PluginRepos!CallReply(i, ok, rs, due)
      PROVE  PluginTypes'
  <2> DEFINE rest1 == PluginRepos!RemoveAt(pluginCalls, i)
  <2>1. signedIn' = signedIn /\ pulling' = FALSE
    BY <1>5 DEF PluginRepos!CallReply
  <2>2. \/ PluginRepos!TakeRows(rs, due, rest1)
        \/ UNCHANGED <<scrapers, pulled, refreshing>>
    BY <1>5 DEF PluginRepos!CallReply
  <2> HIDE DEF rest1
  <2>3. ASSUME PluginRepos!TakeRows(rs, due, rest1) PROVE PluginTypes'
    <3>1. "none" \in PluginRepos!States /\ profile \in Profiles
      BY DEF PluginRepos!States, PluginInv
    <3>2. scrapers[profile] \in [Urls -> PluginRepos!States]
      BY <3>1 DEF PluginTypes
    <3>3. PluginRepos!Only(rs) \in [Urls -> PluginRepos!States]
      BY <3>1, <3>2 DEF PluginRepos!Only
    <3>4. scrapers' = scrapers \/ scrapers' = [scrapers EXCEPT ![profile] = PluginRepos!Only(rs)]
      BY <2>3 DEF PluginRepos!TakeRows
    <3>5. scrapers' \in [Profiles -> [Urls -> PluginRepos!States]]
      BY <3>3, <3>4 DEF PluginTypes
    <3>6. pulled' = TRUE /\ refreshing' \subseteq Urls
      BY <2>3 DEF PluginRepos!TakeRows, PluginRepos!Fetches, PluginTypes
    <3> QED
      BY <2>1, <3>5, <3>6 DEF PluginTypes
  <2>4. ASSUME UNCHANGED <<scrapers, pulled, refreshing>> PROVE PluginTypes'
    BY <2>1, <2>4 DEF PluginTypes
  <2> QED
    BY <2>2, <2>3, <2>4
<1> QED
  BY <1>3, <1>4, <1>5 DEF PluginRepos!Replies

\* Every step keeps them.
LEMMA PluginTypesStep == ASSUME PluginInv, PluginTypes, PluginRepos!Next PROVE PluginTypes'
<1>1. CASE PluginRepos!PullFromServer
  BY <1>1 DEF PluginRepos!PullFromServer, PluginTypes
<1>2. CASE PluginRepos!SessionChange
  BY <1>2 DEF PluginRepos!SessionChange, PluginRepos!pluginVars, PluginTypes
<1>3. ASSUME NEW p \in Profiles, PluginRepos!SetProfileId(p) PROVE PluginTypes'
  BY <1>3 DEF PluginRepos!SetProfileId, PluginRepos!Moves, PluginTypes
<1>4. ASSUME NEW due \in SUBSET Urls, PluginRepos!Restart(due) PROVE PluginTypes'
  BY <1>4 DEF PluginRepos!Restart, PluginTypes
<1>5. CASE PluginRepos!User
  BY <1>5, PluginUserTyped
<1>6. CASE PluginRepos!Replies
  BY <1>6, PluginReplyTyped
<1> QED
  BY <1>1, <1>2, <1>3, <1>4, <1>5, <1>6 DEF PluginRepos!Next

\* ProviderCredsController keeps to its types.
LEMMA CredsAreTyped == Spec => [](which = "creds" => Creds!TypeOK)
<1> DEFINE I == which = "creds" => Creds!TypeOK
<1>1. Init => I
  BY CredsBegin DEF Init
<1>2. I /\ [Next]_vars => I'
  <2> SUFFICES ASSUME I, [Next]_vars, which' = "creds" PROVE Creds!TypeOK'
    OBVIOUS
  <2>1. CASE Next
    BY <2>1, CredsTyped DEF Next
  <2>2. CASE UNCHANGED vars
    <3>1. UNCHANGED <<which, signedIn, profile, credsVars>>
      BY <2>2 DEF vars
    <3> QED
      BY <3>1 DEF Creds!TypeOK, credsVars
  <2> QED
    BY <2>1, <2>2
<1> QED
  BY <1>1, <1>2, PTL DEF Spec

\* HomeCatalogSyncController keeps to its types.
LEMMA CatalogIsTyped == Spec => [](which = "catalog" => HomeCatalog!TypeOK)
<1> DEFINE I == which = "catalog" => HomeCatalog!TypeOK
           J == which = "catalog" => CatalogInv
<1>1. Init /\ J => I
  BY DEF Init, HomeCatalog!Init, HomeCatalog!TypeOK, CatalogInv
<1>2. I /\ J /\ J' /\ [Next]_vars => I'
  <2> SUFFICES ASSUME I, J, J', [Next]_vars, which' = "catalog" PROVE HomeCatalog!TypeOK'
    OBVIOUS
  <2>1. CASE Next
    BY <2>1, CatalogTyped DEF Next
  <2>2. CASE UNCHANGED vars
    <3>1. UNCHANGED <<which, profile, catalogVars>>
      BY <2>2 DEF vars
    <3> QED
      BY <3>1 DEF HomeCatalog!TypeOK, catalogVars
  <2> QED
    BY <2>1, <2>2
<1> QED
  BY <1>1, <1>2, CatalogIsInvariant, PTL DEF Spec

\* SyncOrchestrator keeps to its types.
LEMMA BlobIsTyped == Spec => [](which = "settings" => Settings!TypeOK)
<1> DEFINE I == which = "settings" => Settings!TypeOK
           J == which = "settings" => BlobInv
<1>1. Init /\ J => I
  BY DEF Init, Settings!Init, Settings!TypeOK, BlobInv
<1>2. I /\ J /\ J' /\ [Next]_vars => I'
  <2> SUFFICES ASSUME I, J, J', [Next]_vars, which' = "settings" PROVE Settings!TypeOK'
    OBVIOUS
  <2>1. CASE Next
    BY <2>1, BlobTyped DEF Next
  <2>2. CASE UNCHANGED vars
    <3>1. UNCHANGED <<which, signedIn, profile, settingsVars>>
      BY <2>2 DEF vars
    <3> QED
      BY <3>1 DEF Settings!TypeOK, settingsVars
  <2> QED
    BY <2>1, <2>2
<1> QED
  BY <1>1, <1>2, BlobIsInvariant, PTL DEF Spec

\* TraktAuth, SimklAuth and DebridAuth keep to their types.
LEMMA AuthIsTyped == Spec => [](which = "accounts" => Accounts!TypeOK)
<1> DEFINE I == which = "accounts" => Accounts!TypeOK
           J == which = "accounts" => AuthInv
<1>1. Init /\ J => I
  BY DEF Init, Accounts!Init, Accounts!TypeOK, AuthInv
<1>2. I /\ J /\ J' /\ [Next]_vars => I'
  <2> SUFFICES ASSUME I, J, J', [Next]_vars, which' = "accounts" PROVE Accounts!TypeOK'
    OBVIOUS
  <2>1. CASE Next
    BY <2>1, AuthTyped DEF Next
  <2>2. CASE UNCHANGED vars
    <3>1. UNCHANGED <<which, profile, authVars>>
      BY <2>2 DEF vars
    <3> QED
      BY <3>1 DEF Accounts!TypeOK, authVars
  <2> QED
    BY <2>1, <2>2
<1> QED
  BY <1>1, <1>2, AuthIsInvariant, PTL DEF Spec

\* AppSettings and its pages keep to their types.
LEMMA PrefIsTyped == Spec => [](which = "preferences" => Preferences!TypeOK)
<1> DEFINE I == which = "preferences" => Preferences!TypeOK
<1>1. Init => I
  BY DEF Init, Preferences!Init, Preferences!TypeOK, Preferences!Raw
<1>2. I /\ [Next]_vars => I'
  <2> SUFFICES ASSUME I, [Next]_vars, which' = "preferences" PROVE Preferences!TypeOK'
    OBVIOUS
  <2>1. CASE Next
    BY <2>1, PreferencesTyped DEF Next
  <2>2. CASE UNCHANGED vars
    <3>1. UNCHANGED <<which, profile, prefVars>>
      BY <2>2 DEF vars
    <3> QED
      BY <3>1 DEF Preferences!TypeOK, prefVars
  <2> QED
    BY <2>1, <2>2
<1> QED
  BY <1>1, <1>2, PTL DEF Spec

\* DebridResolver keeps to its types.
LEMMA LinkIsTyped == Spec => [](which = "debrid" => Debrid!TypeOK)
<1> DEFINE I == which = "debrid" => Debrid!TypeOK
           J == which = "debrid" => LinkInv
<1>1. Init => I
  <2>1. 0 \in 0..MaxCalls /\ <<>> \in Seq(Debrid!Answer)
    BY ServicesAssumption
  <2>2. ASSUME Debrid!Init PROVE \A c \in 1..MaxCalls : linkAnswers[c] = <<>>
    BY <2>2 DEF Debrid!Init
  <2>3. ASSUME Debrid!Init PROVE Debrid!TypeOK
    BY <2>1, <2>2, <2>3 DEF Debrid!Init, Debrid!TypeOK
  <2> QED
    BY <2>3 DEF Init
<1>2. I /\ J /\ [Next]_vars => I'
  <2> SUFFICES ASSUME I, J, [Next]_vars, which' = "debrid" PROVE Debrid!TypeOK'
    OBVIOUS
  <2>1. CASE Next
    BY <2>1, LinksTyped DEF Next
  <2>2. CASE UNCHANGED vars
    <3>1. UNCHANGED <<which, linkVars>>
      BY <2>2 DEF vars
    <3> QED
      BY <3>1 DEF Debrid!TypeOK, linkVars
  <2> QED
    BY <2>1, <2>2
<1> QED
  BY <1>1, <1>2, LinkIsInvariant, PTL DEF Spec

\* P2pEngine and TorrServerProcess keep to their types.
LEMMA StreamIsTyped == Spec => [](which = "torrents" => Torrents!TypeOK)
<1> DEFINE I == which = "torrents" => StreamTypes
           J == which = "torrents" => StreamInv
<1>1. Init => I
  <2>1. Owned(<<>>, 0)
    BY OwnedNone
  <2> QED
    BY <2>1, ServicesAssumption DEF Init, Torrents!Init, StreamTypes
<1>2. I /\ J /\ [Next]_vars => I'
  <2> SUFFICES ASSUME I, J, [Next]_vars, which' = "torrents" PROVE StreamTypes'
    OBVIOUS
  <2>1. CASE Next
    BY <2>1, StreamTypesStep DEF Next
  <2>2. CASE UNCHANGED vars
    <3>1. UNCHANGED <<which, torrVars>>
      BY <2>2 DEF vars
    <3> QED
      BY <3>1 DEF StreamTypes, torrVars
  <2> QED
    BY <2>1, <2>2
<1>3. I /\ J => (which = "torrents" => Torrents!TypeOK)
  BY DEF StreamTypes, StreamInv, Torrents!TypeOK
<1> QED
  BY <1>1, <1>2, <1>3, StreamIsInvariant, PTL DEF Spec

\* PluginRepository keeps to its types.
LEMMA PluginIsTyped == Spec => [](which = "plugins" => PluginRepos!TypeOK)
<1> DEFINE I == which = "plugins" => PluginTypes
           J == which = "plugins" => PluginInv
<1>1. Init => I
  BY DEF Init, PluginRepos!Init, PluginTypes, PluginRepos!States
<1>2. I /\ J /\ [Next]_vars => I'
  <2> SUFFICES ASSUME I, J, [Next]_vars, which' = "plugins" PROVE PluginTypes'
    OBVIOUS
  <2>1. CASE Next
    BY <2>1, PluginTypesStep DEF Next
  <2>2. CASE UNCHANGED vars
    <3>1. UNCHANGED <<which, signedIn, pluginVars>>
      BY <2>2 DEF vars
    <3> QED
      BY <3>1 DEF PluginTypes, pluginVars
  <2> QED
    BY <2>1, <2>2
<1>3. I /\ J => (which = "plugins" => PluginRepos!TypeOK)
  BY DEF PluginTypes, PluginInv, PluginRepos!TypeOK
<1> QED
  BY <1>1, <1>2, <1>3, PluginIsInvariant, PTL DEF Spec
=============================================================================
