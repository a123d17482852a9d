------------------------- MODULE PlaySession_proofs -------------------------
(***************************************************************************)
(* Proofs about PlaySession, for any items, addons and number of clicks:   *)
(* what the reuse cache holds is never a link that expires nor another     *)
(* item's link, and a click without an answer has a request under way or   *)
(* is stranded.                                                            *)
(***************************************************************************)
EXTENDS PlaySession, FiniteSetTheorems, TLAPS

\* A debrid answer is saved under the pending item, so the cache can be kept
\* right only together with what is pending and what debrid was asked.
CacheInv ==
    /\ cache \in [Items -> Link \cup {None}]
    /\ pending \in Items \cup {None}
    /\ debrid \in Items \cup {None}
    /\ CacheHoldsLastingLinks

\* What a step may do to the cache: save a link to an item under that item, or
\* forget one.
Saves == \E i \in Items, link \in Link : link.of = i /\ Save(i, link)

Forgets == \E i \in Items : cache' = [cache EXCEPT ![i] = None]

CacheStep == Saves \/ Forgets \/ UNCHANGED cache

-----------------------------------------------------------------------------
\* Only links that do not expire are saved (StreamLinkCache::save).
LEMMA CacheStepKeeps ==
    ASSUME CacheInv, CacheStep,
           pending' \in Items \cup {None}, debrid' \in Items \cup {None}
    PROVE  CacheInv'
<1>1. CASE Saves
  <2> PICK i \in Items, link \in Link : link.of = i /\ Save(i, link)
    BY <1>1 DEF Saves
  <2>1. link.via = "plain" => link = [of |-> i, via |-> "plain"]
    BY DEF Link
  <2> QED
    BY <2>1 DEF Save, CacheInv, CacheHoldsLastingLinks
<1>2. CASE Forgets
  BY <1>2 DEF Forgets, CacheInv, CacheHoldsLastingLinks
<1>3. CASE UNCHANGED cache
  BY <1>3 DEF CacheInv, CacheHoldsLastingLinks
<1> QED
  BY <1>1, <1>2, <1>3 DEF CacheStep

\* The torrent tier leaves the cache alone and asks debrid for the pending item
\* only (decideTorrentTier).
LEMMA TorrentTierKeeps ==
    ASSUME NEW res, NEW i \in Items \cup {None}, NEW n, NEW by \in Items \cup {None},
           TorrentTier(res, i, n, by)
    PROVE  debrid' \in Items \cup {None} /\ UNCHANGED cache
<1>1. \/ debrid' = by /\ UNCHANGED cache
      \/ debrid' = i /\ UNCHANGED cache
  <2>1. CASE "torrent" \notin Entries(res, i)
    BY <2>1 DEF TorrentTier
  <2>2. CASE "torrent" \in Entries(res, i) /\ debridOn
    BY <2>2 DEF TorrentTier
  <2>3. CASE "torrent" \in Entries(res, i) /\ ~debridOn
    BY <2>3 DEF TorrentTier
  <2> QED
    BY <2>1, <2>2, <2>3
<1> QED
  BY <1>1

\* An addon's direct link is saved under the item it was found for (decide).
LEMMA DecideKeeps ==
    ASSUME CacheInv, NEW res, NEW i \in Items, NEW key, NEW n, Decide(res, i, key, n)
    PROVE  debrid' \in Items \cup {None} /\ CacheStep
<1> DEFINE links == {[of |-> i, via |-> via] : via \in Direct \cap Entries(res, i)}
<1>1. CASE links # {}
  <2>1. /\ \E link \in links : Save(i, link)
        /\ UNCHANGED debrid
    BY <1>1 DEF Decide
  <2>2. \A link \in links : link \in Link /\ link.of = i
    BY DEF Link
  <2> QED
    BY <2>1, <2>2 DEF CacheInv, CacheStep, Saves
<1>2. CASE links = {}
  <2>1. TorrentTier(res, i, n, debrid) \/ UNCHANGED <<cache, debrid>>
    BY <1>2 DEF Decide, PluginTier
  <2> QED
    BY <2>1, TorrentTierKeeps DEF CacheInv, CacheStep
<1> QED
  BY <1>1, <1>2

-----------------------------------------------------------------------------
LEMMA InitCacheInv == Init => CacheInv
<1> SUFFICES ASSUME Init PROVE CacheInv
  OBVIOUS
<1>1. /\ cache \in [Items -> Link \cup {None}]
      /\ \A i \in Items : cache[i] \in {None, [of |-> i, via |-> "plain"]}
  BY DEF Init
<1> QED
  BY <1>1 DEF Init, CacheInv, CacheHoldsLastingLinks

\* requestPlay with each of its outcomes, and the settings.
LEMMA UserKeeps == ASSUME CacheInv, User PROVE CacheInv'
<1>1. ASSUME NEW i \in Items, PlaysLocalFile(i) \/ PlaysCachedLink(i)
      PROVE  CacheInv'
  BY <1>1, CacheStepKeeps
     DEF PlaysLocalFile, PlaysCachedLink, RequestPlay, tierVars, CacheInv, CacheStep
<1>2. ASSUME NEW i \in Items, AsksAddons(i) PROVE CacheInv'
  <2>1. pending' = i
    BY <1>2 DEF AsksAddons, RequestPlay
  <2>2. Decide(results, i, None, 0) \/ UNCHANGED tierVars
    BY <1>2 DEF AsksAddons
  <2>3. debrid' \in Items \cup {None} /\ CacheStep
    BY <2>2, DecideKeeps DEF tierVars, CacheInv, CacheStep
  <2> QED
    BY <2>1, <2>3, CacheStepKeeps
<1>3. ASSUME (\E new \in SUBSET Addons : SetAddons(new)) \/ ToggleDebrid
      PROVE  CacheInv'
  BY <1>3, CacheStepKeeps DEF SetAddons, ToggleDebrid, tierVars, CacheInv, CacheStep
<1> QED
  BY <1>1, <1>2, <1>3 DEF User

\* Answers of addons, scrapers and debrid.  A debrid answer for another click
\* than the pending one is dropped.
LEMMA RepliesKeep == ASSUME CacheInv, Replies PROVE CacheInv'
<1>1. ASSUME NEW i \in Items, NEW a \in Addons, NEW o \in Outcomes, AddonReply(i, a, o)
      PROVE  CacheInv'
  <2> DEFINE res == [results EXCEPT ![i][a] = o]
  <2>1. pending' = pending
    BY <1>1 DEF AddonReply
  <2>2. Decide(res, i, pluginKey, answers) \/ UNCHANGED tierVars
    BY <1>1 DEF AddonReply
  <2>3. debrid' \in Items \cup {None} /\ CacheStep
    BY <2>2, DecideKeeps DEF tierVars, CacheInv, CacheStep
  <2> QED
    BY <2>1, <2>3, CacheStepKeeps DEF CacheInv
<1>2. ASSUME NEW i \in Items, NEW found \in BOOLEAN, PluginReply(i, found)
      PROVE  CacheInv'
  <2>1. pending' = pending
    BY <1>2 DEF PluginReply
  <2>2. TorrentTier(results, i, answers, debrid) \/ UNCHANGED <<cache, debrid>>
    BY <1>2 DEF PluginReply
  <2> QED
    BY <2>1, <2>2, TorrentTierKeeps, CacheStepKeeps DEF CacheInv, CacheStep
<1>3. ASSUME NEW via \in Direct, DebridResolved(via) PROVE CacheInv'
  <2> DEFINE link == [of |-> debrid, via |-> via]
  <2>1. pending' = pending /\ debrid' = None /\ debrid \in Items
    BY <1>3 DEF DebridResolved, CacheInv
  <2>2. (debrid = pending /\ Save(pending, link)) \/ UNCHANGED cache
    BY <1>3 DEF DebridResolved, ForPending
  <2>3. link \in Link /\ link.of = debrid
    BY <2>1 DEF Link
  <2> HIDE DEF link
  <2>4. CacheStep
    BY <2>1, <2>2, <2>3 DEF CacheStep, Saves
  <2> QED
    BY <2>1, <2>4, CacheStepKeeps DEF CacheInv
<1>4. ASSUME DebridFails PROVE CacheInv'
  <2>1. pending' = pending
    BY <1>4 DEF DebridFails
  <2>2. TorrentTier(results, pending, answers, None) \/ (debrid' = None /\ UNCHANGED cache)
    BY <1>4 DEF DebridFails
  <2> QED
    BY <2>1, <2>2, TorrentTierKeeps, CacheStepKeeps DEF CacheInv, CacheStep
<1> QED
  BY <1>1, <1>2, <1>3, <1>4 DEF Replies

LEMMA NextKeeps == CacheInv /\ [Next]_vars => CacheInv'
<1> SUFFICES ASSUME CacheInv, [Next]_vars PROVE CacheInv'
  OBVIOUS
<1>1. CASE Engine \/ ServerStarts
  BY <1>1, CacheStepKeeps
     DEF Engine, ServerStarts, EngineAnswers, StartStreamReturns, SignalArrives,
         otherVars, CacheInv, CacheStep
<1>2. CASE \E i \in Items : LinkAges(i)
  BY <1>2, CacheStepKeeps DEF LinkAges, CacheInv, CacheStep, Forgets
<1>3. CASE UNCHANGED vars
  BY <1>3, CacheStepKeeps DEF vars, CacheInv, CacheStep
<1> QED
  BY <1>1, <1>2, <1>3, UserKeeps, RepliesKeep DEF Next

\* The reuse cache holds under an item only links to that item which do not
\* expire, for any items, addons, clicks and streams: no relay, no scraper link
\* and no answer of debrid to a click that was superseded is ever kept.
THEOREM CacheIsSound == Spec => []CacheHoldsLastingLinks
<1>1. CacheInv => CacheHoldsLastingLinks
  BY DEF CacheInv
<1> QED
  BY <1>1, InitCacheInv, NextKeeps, PTL DEF Spec

-----------------------------------------------------------------------------
(* Nothing is lost between the tiers. *)

\* The calls of startStream that have not returned are nested: each holds a later
\* token than the one around it.  While the current one is among them the
\* engine owes its answer.  Signals are of generations there have been.
FramesOK ==
    /\ \A n \in DOMAIN frames : 1 <= frames[n] /\ frames[n] <= Current
    /\ \A n \in DOMAIN frames : \A k \in DOMAIN frames : k < n => frames[k] < frames[n]
    /\ (\E n \in DOMAIN frames : frames[n] = Current) => busy
    /\ busy => 1 <= Current
    /\ \A s \in Range(queued) : s.token \in 1..Current

EngineUnderway ==
    \/ frames # <<>>
    \/ awaiting /\ token = Current
                /\ \/ busy
                   \/ \E s \in Range(queued) : s.token = token

TierUnderway == scraping[pending] > 0 \/ debrid = pending \/ EngineUnderway

\* What an unanswered click waits for before the addons have answered it.
AddonsUnderway ==
    \/ changed
    \/ \E a \in Addons : asked[pending][a] > 0
    \/ \E a \in installed : asked[pending][a] = 0 /\ results[pending][a] = NoReply

\* NothingLost alone would not survive a change of the addons: that the click is
\* stranded by them counts only before the tiers were consulted for it.
LossInv ==
    /\ TypeOK /\ FramesOK
    /\ awaiting \/ frames # <<>> => pending \in Items
    /\ Waiting => \/ TierUnderway
                  \/ awaiting /\ token # Current
                  \/ pluginKey # pending /\ AddonsUnderway

TierTypes ==
    /\ playing \in Session \cup {None} /\ answers \in 0..2
    /\ debrid \in Items \cup {None}
    /\ cache \in [Items -> Link \cup {None}] /\ scraping \in [Items -> Nat]
    /\ debridOn \in BOOLEAN

EngineTypes ==
    /\ streams \in Seq(Items) /\ busy \in BOOLEAN /\ serverUp \in BOOLEAN
    /\ queued \in Seq(Signal) /\ frames \in Seq(Nat)
    /\ token \in Nat /\ awaiting \in BOOLEAN

\* What a tier leaves when it goes on for the item i: an answer or a request.
GoesOn(i) ==
    /\ TierTypes' /\ EngineTypes' /\ FramesOK'
    /\ answers' # 0 \/ scraping'[i] > 0 \/ debrid' = i \/ EngineUnderway'

\* startStream leaves its own call open, or the wait for its answer.
LEMMA StreamStarts ==
    ASSUME LossInv, NEW i \in Items, StartStream(i)
    PROVE  EngineTypes' /\ FramesOK' /\ EngineUnderway'
<1>1. /\ streams \in Seq(Items) /\ frames \in Seq(Nat) /\ queued \in Seq(Signal)
      /\ FramesOK
  BY DEF LossInv, TypeOK
<1>2. /\ streams' = Append(streams, i) /\ busy' = TRUE
      /\ UNCHANGED <<serverUp, queued>>
  BY DEF StartStream
<1>3. /\ streams' \in Seq(Items) /\ Len(streams') = Len(streams) + 1
      /\ Len(streams) \in Nat
  BY <1>1, <1>2
<1>4. CASE serverUp
  <2>1. frames' = Append(frames, Len(streams')) /\ UNCHANGED <<token, awaiting>>
    BY <1>4 DEF StartStream
  <2>2. /\ frames' \in Seq(Nat) /\ frames' # <<>> /\ Len(frames') = Len(frames) + 1
        /\ \A n \in DOMAIN frames' :
               frames'[n] = IF n = Len(frames') THEN Len(streams') ELSE frames[n]
        /\ \A n \in DOMAIN frames' : n = Len(frames') \/ n \in DOMAIN frames
    BY <1>1, <1>3, <2>1
  <2>3. \A n \in DOMAIN frames : frames[n] \in Nat /\ frames[n] < Len(streams')
    BY <1>1, <1>3 DEF FramesOK, Current
  <2>4. \A n \in DOMAIN frames' : n \in Nat /\ n <= Len(frames')
    BY <2>2
  <2>5. FramesOK'
    <3>1. \A n \in DOMAIN frames' : 1 <= frames'[n] /\ frames'[n] <= Len(streams')
      BY <1>1, <1>3, <2>2, <2>3 DEF FramesOK
    <3>3. \A s \in Range(queued') : s.token \in 1..Len(streams')
      BY <1>1, <1>2, <1>3 DEF FramesOK, Current
    <3>2. ASSUME NEW n \in DOMAIN frames', NEW k \in DOMAIN frames', k < n
          PROVE  frames'[k] < frames'[n]
      <4>1. k # Len(frames') /\ k \in DOMAIN frames /\ frames'[k] = frames[k]
        BY <2>2, <2>4, <3>2
      <4>2. CASE n = Len(frames')
        BY <2>2, <2>3, <4>1, <4>2
      <4>3. CASE n # Len(frames')
        BY <1>1, <2>2, <3>2, <4>1, <4>3 DEF FramesOK
      <4> QED
        BY <4>2, <4>3
    <3> QED
      BY <1>2, <1>3, <3>1, <3>2, <3>3 DEF FramesOK, Current
  <2> QED
    BY <1>1, <1>2, <1>3, <2>1, <2>2, <2>5 DEF LossInv, TypeOK, EngineTypes,
                                             EngineUnderway
<1>5. CASE ~serverUp
  <2>1. token' = Len(streams') /\ awaiting' = TRUE /\ UNCHANGED frames
    BY <1>5 DEF StartStream
  <2>2. FramesOK'
    BY <1>1, <1>2, <1>3, <2>1 DEF FramesOK, Current
  <2> QED
    BY <1>1, <1>2, <1>3, <2>1, <2>2 DEF LossInv, TypeOK, EngineTypes,
                                       EngineUnderway, Current
<1> QED
  BY <1>4, <1>5

\* A step that leaves the engine alone leaves what is said of it.
LEMMA SameEngine ==
    ASSUME LossInv, UNCHANGED engineVars
    PROVE  EngineTypes' /\ FramesOK' /\ (EngineUnderway' <=> EngineUnderway)
BY DEF LossInv, TypeOK, EngineTypes, engineVars, FramesOK, EngineUnderway, Current

\* decideTorrentTier answers, asks debrid or starts the engine.
LEMMA TorrentGoesOn ==
    ASSUME LossInv, NEW res, NEW i \in Items, NEW n \in 0..2,
           NEW by \in Items \cup {None}, TorrentTier(res, i, n, by),
           scraping' \in [Items -> Nat], UNCHANGED debridOn
    PROVE  GoesOn(i)
<1>1. /\ cache \in [Items -> Link \cup {None}] /\ scraping' \in [Items -> Nat]
      /\ debridOn' \in BOOLEAN /\ playing \in Session \cup {None}
  BY DEF LossInv, TypeOK
<1>2. Announced(n) \in 1..2
  BY DEF Announced
<1>3. CASE "torrent" \notin Entries(res, i)
  <2>1. /\ answers' = Announced(n) /\ debrid' = by
        /\ UNCHANGED <<playing, cache, engineVars>>
    BY <1>3 DEF TorrentTier, Unavailable
  <2> QED
    BY <1>1, <1>2, <2>1, SameEngine DEF GoesOn, TierTypes
<1>4. CASE "torrent" \in Entries(res, i) /\ debridOn
  <2>1. answers' = n /\ debrid' = i /\ UNCHANGED <<playing, cache, engineVars>>
    BY <1>4 DEF TorrentTier, Silent
  <2> QED
    BY <1>1, <2>1, SameEngine DEF GoesOn, TierTypes
<1>5. CASE "torrent" \in Entries(res, i) /\ ~debridOn
  <2>1. answers' = n /\ debrid' = by /\ StartStream(i) /\ UNCHANGED <<playing, cache>>
    BY <1>5 DEF TorrentTier, Silent
  <2> QED
    BY <1>1, <2>1, StreamStarts DEF GoesOn, TierTypes
<1> QED
  BY <1>3, <1>4, <1>5

\* A link that is played is an answer.
LEMMA PlayGoesOn ==
    ASSUME LossInv, NEW i \in Items, NEW link \in Link, NEW n \in 0..2,
           Play(i, link, n), debrid' \in Items \cup {None},
           cache' \in [Items -> Link \cup {None}], scraping' \in [Items -> Nat],
           UNCHANGED <<debridOn, engineVars>>
    PROVE  GoesOn(i)
<1>1. answers' \in 1..2 /\ playing' \in Session
  BY DEF Play, Announced, Session
<1>2. debridOn' \in BOOLEAN
  BY DEF LossInv, TypeOK
<1> QED
  BY <1>1, <1>2, SameEngine DEF GoesOn, TierTypes

LEMMA SaveTyped ==
    ASSUME LossInv, NEW i \in Items, NEW link \in Link, Save(i, link)
    PROVE  cache' \in [Items -> Link \cup {None}]
BY DEF LossInv, TypeOK, Save

\* So does decide, which plays a direct link or goes on to the other tiers.
LEMMA DecideGoesOn ==
    ASSUME LossInv, NEW res, NEW i \in Items, NEW key \in Items \cup {None},
           NEW n \in 0..2, Decide(res, i, key, n), UNCHANGED debridOn
    PROVE  GoesOn(i) /\ pluginKey' \in Items \cup {None}
<1> DEFINE links == {[of |-> i, via |-> via] : via \in Direct \cap Entries(res, i)}
<1>1. debrid \in Items \cup {None} /\ scraping \in [Items -> Nat]
  BY DEF LossInv, TypeOK
<1>2. CASE links # {}
  <2>1. /\ \E link \in links : Save(i, link) /\ Play(i, link, n)
        /\ pluginKey' = key /\ UNCHANGED <<scraping, debrid, engineVars>>
    BY <1>2 DEF Decide
  <2>2. links \subseteq Link
    BY DEF Link
  <2> QED
    BY <1>1, <2>1, <2>2, PlayGoesOn, SaveTyped
<1>3. CASE links = {}
  <2>1. /\ pluginKey' = i
        /\ \/ TorrentTier(res, i, n, debrid) /\ UNCHANGED scraping
           \/ PluginTier(res, i, n)
    BY <1>3 DEF Decide
  <2>2. CASE TorrentTier(res, i, n, debrid) /\ UNCHANGED scraping
    BY <1>1, <2>1, <2>2, TorrentGoesOn
  <2>3. CASE /\ scraping' = [scraping EXCEPT ![i] = @ + 1] /\ Silent(n)
             /\ UNCHANGED <<cache, debrid, engineVars>>
    <3>1. scraping' \in [Items -> Nat] /\ scraping'[i] > 0
      BY <1>1, <2>3
    <3> QED
      BY <2>1, <2>3, <3>1, SameEngine DEF GoesOn, TierTypes, Silent, LossInv, TypeOK
  <2> QED
    BY <2>1, <2>2, <2>3 DEF PluginTier
<1> QED
  BY <1>2, <1>3

\* While not every addon has answered, one that is installed has not.
LEMMA SomeHasNotAnswered ==
    ASSUME NEW res, NEW i \in Items, installed \subseteq Addons, ~Complete(res, i)
    PROVE  \E a \in installed : res[i][a] = NoReply
<1> SUFFICES ASSUME \A a \in installed : res[i][a] # NoReply PROVE FALSE
  OBVIOUS
<1>1. installed \subseteq Arrived(res, i) /\ Arrived(res, i) \subseteq Addons
  BY DEF Arrived
<1>2. IsFiniteSet(Arrived(res, i))
  BY <1>1, FS_Subset, PlayAssumption
<1>3. /\ Cardinality(installed) <= Cardinality(Arrived(res, i))
      /\ Cardinality(installed) \in Nat /\ Cardinality(Arrived(res, i)) \in Nat
  BY <1>1, <1>2, FS_Subset, FS_CardinalityType
<1> QED
  BY <1>3 DEF Complete

\* A step of the tiers that goes on for the pending item.
LEMMA GoingOnKeeps ==
    ASSUME LossInv, GoesOn(pending'), pending' \in Items,
           pluginKey' \in Items \cup {None}, clicks' \in 0..MaxClicks,
           changed' \in BOOLEAN, installed' \subseteq Addons,
           asked' \in [Items -> [Addons -> Nat]],
           results' \in [Items -> [Addons -> Outcomes \cup {NoReply}]]
    PROVE  LossInv'
BY DEF GoesOn, LossInv, TypeOK, TierTypes, EngineTypes, TierUnderway, Waiting

-----------------------------------------------------------------------------
\* requestPlay answers, decides or leaves the addons asked.
LEMMA ClickKeepsAll ==
    ASSUME LossInv, NEW i \in Items,
           PlaysLocalFile(i) \/ PlaysCachedLink(i) \/ AsksAddons(i)
    PROVE  LossInv'
<1>1. /\ pending' = i /\ clicks' \in 0..MaxClicks /\ changed' = FALSE
      /\ UNCHANGED <<installed, results>>
  <2>1. RequestPlay(i)
    BY DEF PlaysLocalFile, PlaysCachedLink, AsksAddons
  <2> QED
    BY <2>1, PlayAssumption DEF RequestPlay, LossInv, TypeOK
<1>2. /\ installed' \subseteq Addons
      /\ results' \in [Items -> [Addons -> Outcomes \cup {NoReply}]]
      /\ debrid \in Items \cup {None} /\ scraping \in [Items -> Nat]
      /\ cache \in [Items -> Link \cup {None}]
      /\ asked \in [Items -> [Addons -> Nat]]
  BY <1>1 DEF LossInv, TypeOK
<1>3. ASSUME NEW link \in Link, Play(i, link, 0), pluginKey' = None,
             UNCHANGED <<asked, tierVars>>
      PROVE  LossInv'
  <2>1. GoesOn(i)
    BY <1>2, <1>3, PlayGoesOn DEF tierVars
  <2> QED
    BY <1>1, <1>2, <1>3, <2>1, GoingOnKeeps
<1>4. CASE PlaysLocalFile(i)
  BY <1>3, <1>4 DEF PlaysLocalFile, Link
<1>5. CASE PlaysCachedLink(i)
  <2>1. cache[i] \in Link
    BY <1>2, <1>5 DEF PlaysCachedLink, Hit
  <2> QED
    BY <1>3, <1>5, <2>1 DEF PlaysCachedLink
<1>6. CASE AsksAddons(i)
  <2>1. asked' \in [Items -> [Addons -> Nat]]
    BY <1>2, <1>6 DEF AsksAddons, Resolve
  <2>2. CASE DecidesAtOnce(i)
    <3>1. GoesOn(i) /\ pluginKey' \in Items \cup {None}
      BY <1>6, <2>2, DecideGoesOn DEF AsksAddons
    <3> QED
      BY <1>1, <1>2, <2>1, <3>1, GoingOnKeeps
  <2>3. CASE ~DecidesAtOnce(i)
    <3>1. answers' = 0 /\ UNCHANGED playing /\ pluginKey' = None /\ UNCHANGED tierVars
      BY <1>6, <2>3 DEF AsksAddons, Silent
    <3>2. \E a \in installed : results[i][a] = NoReply
      BY <1>1, <1>2, <2>3, SomeHasNotAnswered DEF DecidesAtOnce
    <3>3. AddonsUnderway'
      BY <1>1, <1>2, <2>1, <3>2 DEF AddonsUnderway
    <3>4. pluginKey' # pending'
      BY <1>1, <3>1, PlayAssumption
    <3>5. EngineTypes' /\ FramesOK'
      BY <3>1, SameEngine DEF tierVars
    <3>6. TypeOK'
      <4>1. /\ playing' \in Session \cup {None} /\ debridOn' \in BOOLEAN
            /\ cache' \in [Items -> Link \cup {None}] /\ scraping' \in [Items -> Nat]
            /\ debrid' \in Items \cup {None}
        BY <1>2, <3>1 DEF LossInv, TypeOK, tierVars
      <4>2. pending' \in Items /\ pluginKey' = None /\ changed' = FALSE
        BY <1>1, <3>1
      <4>3. answers' = 0
        BY <3>1
      <4>4. answers' \in 0..2
        BY <4>3
      <4> QED
        BY <1>1, <1>2, <2>1, <3>5, <4>1, <4>2, <4>4 DEF TypeOK, EngineTypes
    <3> QED
      BY <1>1, <3>3, <3>4, <3>5, <3>6 DEF LossInv
  <2> QED
    BY <2>2, <2>3
<1> QED
  BY <1>4, <1>5, <1>6

\* A change of the addons strands a click that waits for them only.
LEMMA SettingsKeepAll ==
    ASSUME LossInv, (\E new \in SUBSET Addons : SetAddons(new)) \/ ToggleDebrid
                    \/ (\E i \in Items : LinkAges(i))
    PROVE  LossInv'
<1>1. CASE \E new \in SUBSET Addons : SetAddons(new)
  <2>1. /\ installed' \subseteq Addons /\ changed' = TRUE
        /\ UNCHANGED <<asked, results, pending, pluginKey, playing, answers, cache,
                      scraping, debridOn, debrid, engineVars, clicks>>
    BY <1>1 DEF SetAddons, tierVars
  <2>2. EngineTypes' /\ FramesOK' /\ (EngineUnderway' <=> EngineUnderway)
    BY <2>1, SameEngine
  <2> QED
    BY <2>1, <2>2 DEF LossInv, TypeOK, EngineTypes, TierUnderway, AddonsUnderway,
                      Waiting, engineVars, Current
<1>2. CASE ToggleDebrid \/ \E i \in Items : LinkAges(i)
  <2>1. /\ UNCHANGED <<installed, changed, asked, results, pending, pluginKey, playing,
                      answers, scraping, debrid, engineVars, clicks>>
        /\ debridOn' \in BOOLEAN /\ cache' \in [Items -> Link \cup {None}]
    BY <1>2 DEF ToggleDebrid, LinkAges, resolverVars, LossInv, TypeOK
  <2>2. EngineTypes' /\ FramesOK' /\ (EngineUnderway' <=> EngineUnderway)
    BY <2>1, SameEngine
  <2> QED
    BY <2>1, <2>2 DEF LossInv, TypeOK, EngineTypes, TierUnderway, AddonsUnderway,
                      Waiting, engineVars, Current
<1> QED
  BY <1>1, <1>2

\* The last addon to answer decides; an earlier one leaves another to wait for.
LEMMA AddonKeepsAll ==
    ASSUME LossInv, NEW i \in Items, NEW a \in Addons, NEW o \in Outcomes,
           AddonReply(i, a, o)
    PROVE  LossInv'
<1> DEFINE res == [results EXCEPT ![i][a] = o]
<1>1. /\ asked' = [asked EXCEPT ![i][a] = @ - 1] /\ asked[i][a] > 0
      /\ results' = res
      /\ UNCHANGED <<installed, changed, pending, debridOn, clicks>>
  BY DEF AddonReply
<1>2. /\ asked \in [Items -> [Addons -> Nat]] /\ installed \subseteq Addons
      /\ results \in [Items -> [Addons -> Outcomes \cup {NoReply}]]
      /\ pluginKey \in Items \cup {None} /\ answers \in 0..2
      /\ pending \in Items \cup {None}
      /\ clicks \in 0..MaxClicks /\ changed \in BOOLEAN
  BY DEF LossInv, TypeOK
<1>3. /\ asked' \in [Items -> [Addons -> Nat]]
      /\ results' \in [Items -> [Addons -> Outcomes \cup {NoReply}]]
  BY <1>1, <1>2
<1>4. CASE Complete(res, i) /\ pending = i
  <2>1. GoesOn(i) /\ pluginKey' \in Items \cup {None}
    <3>1. Decide(res, i, pluginKey, answers)
      BY <1>4 DEF AddonReply
    <3> HIDE DEF res
    <3> QED
      BY <1>1, <1>2, <3>1, DecideGoesOn
  <2> HIDE DEF res
  <2> QED
    BY <1>1, <1>2, <1>3, <1>4, <2>1, GoingOnKeeps
<1>5. CASE ~(Complete(res, i) /\ pending = i)
  <2>1. UNCHANGED <<pluginKey, playing, answers, tierVars>>
    BY <1>5 DEF AddonReply
  <2>2. EngineTypes' /\ FramesOK' /\ (EngineUnderway' <=> EngineUnderway)
    BY <2>1, SameEngine DEF tierVars
  <2>3. TierUnderway' <=> TierUnderway
    BY <1>1, <2>1, <2>2 DEF TierUnderway, tierVars
  <2>4. pending \in Items /\ AddonsUnderway => AddonsUnderway'
    <3>1. CASE pending = i
      <4>1. \E b \in installed : res[i][b] = NoReply
        BY <1>2, <1>5, <3>1, SomeHasNotAnswered
      <4>2. \E b \in installed : results'[i][b] = NoReply
        BY <1>1, <4>1
      <4> QED
        BY <1>1, <1>2, <1>3, <3>1, <4>2 DEF AddonsUnderway
    <3>2. CASE pending # i
      <4>1. pending \in Items => asked'[pending] = asked[pending]
                                 /\ results'[pending] = results[pending]
        BY <1>1, <1>2, <3>2
      <4> QED
        BY <1>1, <4>1 DEF AddonsUnderway
    <3> QED
      BY <3>1, <3>2
  <2>5. TypeOK'
    <3> HIDE DEF res
    <3> QED
      BY <1>1, <1>2, <1>3, <2>1, <2>2 DEF LossInv, TypeOK, EngineTypes, tierVars
  <2>6. Waiting => pending \in Items
    BY <1>2 DEF Waiting
  <2> HIDE DEF res
  <2> QED
    BY <1>1, <2>1, <2>2, <2>3, <2>4, <2>5, <2>6 DEF LossInv, Waiting, tierVars,
       engineVars, Current
<1> QED
  BY <1>4, <1>5

\* Without a link the answer of the scrapers hands over to the torrent tier.
LEMMA ScraperKeepsAll ==
    ASSUME LossInv, NEW i \in Items, NEW found \in BOOLEAN, PluginReply(i, found)
    PROVE  LossInv'
<1>1. /\ scraping' = [scraping EXCEPT ![i] = @ - 1] /\ scraping[i] > 0
      /\ UNCHANGED <<installed, asked, results, changed, pending, pluginKey, debridOn,
                    clicks>>
  BY DEF PluginReply, resolverVars
<1>2. /\ scraping' \in [Items -> Nat] /\ debrid \in Items \cup {None}
      /\ cache \in [Items -> Link \cup {None}] /\ answers \in 0..2
  BY <1>1 DEF LossInv, TypeOK
<1>3. CASE pending # i
  <2>1. UNCHANGED <<playing, answers, cache, debrid, engineVars>>
    BY <1>3 DEF PluginReply
  <2>2. EngineTypes' /\ FramesOK' /\ (EngineUnderway' <=> EngineUnderway)
    BY <2>1, SameEngine
  <2>3. pending \in Items => scraping'[pending] = scraping[pending]
    BY <1>1, <1>3 DEF LossInv, TypeOK
  <2>4. TypeOK'
    BY <1>1, <1>2, <2>1, <2>2 DEF LossInv, TypeOK, EngineTypes
  <2>5. Waiting => pending \in Items
    BY DEF LossInv, TypeOK, Waiting
  <2>6. AddonsUnderway <=> AddonsUnderway'
    BY <1>1 DEF AddonsUnderway
  <2>7. Waiting /\ TierUnderway => TierUnderway'
    BY <1>1, <2>1, <2>2, <2>3, <2>5 DEF TierUnderway
  <2>8. Waiting <=> Waiting'
    BY <1>1, <2>1 DEF Waiting
  <2> QED
    BY <1>1, <2>1, <2>2, <2>4, <2>6, <2>7, <2>8 DEF LossInv, engineVars, Current
<1>4. CASE pending = i
  <2>1. GoesOn(i)
    <3>1. CASE found
      <4>1. Play(i, [of |-> i, via |-> "plugin"], answers)
            /\ UNCHANGED <<cache, debrid, engineVars>>
        BY <1>4, <3>1 DEF PluginReply
      <4>2. [of |-> i, via |-> "plugin"] \in Link
        BY DEF Link
      <4> QED
        BY <1>1, <1>2, <4>1, <4>2, PlayGoesOn
    <3>2. CASE ~found
      <4>1. TorrentTier(results, i, answers, debrid)
        BY <1>4, <3>2 DEF PluginReply
      <4> QED
        BY <1>1, <1>2, <4>1, TorrentGoesOn
    <3> QED
      BY <3>1, <3>2
  <2> QED
    BY <1>1, <1>4, <2>1, GoingOnKeeps DEF LossInv, TypeOK
<1> QED
  BY <1>3, <1>4

\* An answer of debrid for the pending item plays or goes on; another one leaves
\* the pending item what it waits for.
LEMMA DebridKeepsAll ==
    ASSUME LossInv, DebridFails \/ \E via \in Direct : DebridResolved(via)
    PROVE  LossInv'
<1>1. /\ debrid # None
      /\ UNCHANGED <<installed, asked, results, changed, pending, pluginKey, scraping,
                    debridOn, clicks>>
  BY DEF DebridFails, DebridResolved, resolverVars
<1>2. /\ scraping \in [Items -> Nat] /\ debrid \in Items
      /\ cache \in [Items -> Link \cup {None}] /\ answers \in 0..2
  BY <1>1 DEF LossInv, TypeOK
<1>3. CASE pending # debrid
  <2>1. debrid' = None /\ UNCHANGED <<playing, answers, cache, engineVars>>
    BY <1>3 DEF DebridFails, DebridResolved, ForPending
  <2>2. EngineTypes' /\ FramesOK' /\ (EngineUnderway' <=> EngineUnderway)
    BY <2>1, SameEngine
  <2>3. TypeOK'
    BY <1>1, <1>2, <2>1, <2>2 DEF LossInv, TypeOK, EngineTypes
  <2>4. AddonsUnderway <=> AddonsUnderway'
    BY <1>1 DEF AddonsUnderway
  <2>5. TierUnderway => TierUnderway'
    BY <1>1, <1>3, <2>1, <2>2 DEF TierUnderway
  <2>6. Waiting <=> Waiting'
    BY <1>1, <2>1 DEF Waiting
  <2> QED
    BY <1>1, <2>1, <2>2, <2>3, <2>4, <2>5, <2>6 DEF LossInv, engineVars, Current
<1>4. CASE pending = debrid
  <2>1. GoesOn(pending)
    <3>1. ASSUME NEW via \in Direct, DebridResolved(via) PROVE GoesOn(pending)
      <4> DEFINE link == [of |-> debrid, via |-> via]
      <4>1. Save(pending, link) /\ Play(pending, link, answers) /\ debrid' = None
            /\ UNCHANGED engineVars
        BY <1>4, <3>1 DEF DebridResolved, ForPending
      <4>2. link \in Link
        BY <1>2 DEF Link
      <4> HIDE DEF link
      <4> QED
        BY <1>1, <1>2, <1>4, <4>1, <4>2, SaveTyped, PlayGoesOn
    <3>2. ASSUME DebridFails PROVE GoesOn(pending)
      <4>1. TorrentTier(results, pending, answers, None)
        BY <1>4, <3>2 DEF DebridFails, ForPending
      <4> QED
        BY <1>1, <1>2, <1>4, <4>1, TorrentGoesOn
    <3> QED
      BY <3>1, <3>2
  <2> QED
    BY <1>1, <1>2, <1>4, <2>1, GoingOnKeeps DEF LossInv, TypeOK
<1> QED
  BY <1>3, <1>4

\* The engine's answer is queued with the token of its generation.
LEMMA AnswerQueued ==
    ASSUME NEW q \in Seq(Signal), NEW s \in Signal
    PROVE  /\ Append(q, s) \in Seq(Signal)
           /\ Range(Append(q, s)) = Range(q) \cup {s}
<1>1. /\ Append(q, s) \in Seq(Signal) /\ Len(Append(q, s)) = Len(q) + 1
      /\ \A n \in 1..Len(q) : Append(q, s)[n] = q[n]
      /\ Append(q, s)[Len(q) + 1] = s
  OBVIOUS
<1>2. /\ DOMAIN q = 1..Len(q) /\ Len(q) \in Nat
      /\ DOMAIN Append(q, s) = 1..(Len(q) + 1)
  BY <1>1
<1> QED
  BY <1>1, <1>2 DEF Range

\* A call of startStream that returns may have queued the answer; when a later
\* one is open around it the session waits for a token that is superseded.
LEMMA EngineKeepsAll ==
    ASSUME LossInv, Engine \/ ServerStarts
    PROVE  LossInv'
<1> USE DEF Current
<1>1. /\ streams \in Seq(Items) /\ frames \in Seq(Nat) /\ queued \in Seq(Signal)
      /\ busy \in BOOLEAN /\ serverUp \in BOOLEAN /\ token \in Nat
      /\ awaiting \in BOOLEAN /\ answers \in 0..2 /\ playing \in Session \cup {None}
      /\ pending \in Items \cup {None}
  BY DEF LossInv, TypeOK
<1>2. UNCHANGED otherVars
  BY DEF Engine, ServerStarts, EngineAnswers, StartStreamReturns, SignalArrives
<1>3. /\ AddonsUnderway <=> AddonsUnderway'
      /\ UNCHANGED <<pending, pluginKey, scraping, debrid, streams>>
  BY <1>2 DEF AddonsUnderway, otherVars, resolverVars
<1>4. ASSUME EngineTypes', playing' \in Session \cup {None}, answers' \in 0..2
      PROVE  TypeOK'
  BY <1>2, <1>4 DEF LossInv, TypeOK, EngineTypes, otherVars, resolverVars
<1>5. CASE ServerStarts
  <2>1. serverUp' = TRUE
        /\ UNCHANGED <<playing, answers, busy, queued, frames, token, awaiting>>
    BY <1>5 DEF ServerStarts
  <2>2. TypeOK'
    BY <1>1, <1>3, <1>4, <2>1 DEF EngineTypes
  <2>3. /\ FramesOK' /\ (TierUnderway <=> TierUnderway') /\ (Waiting <=> Waiting')
    BY <1>3, <2>1 DEF LossInv, FramesOK, TierUnderway, EngineUnderway, Waiting
  <2> QED
    BY <1>3, <2>1, <2>2, <2>3 DEF LossInv
<1>6. ASSUME NEW ready \in BOOLEAN, EngineAnswers(ready) PROVE LossInv'
  <2> DEFINE s == [ready |-> ready, token |-> Current]
  <2>1. /\ Current \notin Range(frames) /\ busy' = FALSE
        /\ queued' = Append(queued, s)
        /\ UNCHANGED <<playing, answers, serverUp, frames, token, awaiting>>
    BY <1>6 DEF EngineAnswers
  <2>2. s \in Signal /\ s.token = Current
    BY <1>1 DEF Signal
  <2> HIDE DEF s
  <2>3. queued' \in Seq(Signal) /\ Range(queued') = Range(queued) \cup {s}
    BY <1>1, <2>1, <2>2, AnswerQueued
  <2>4. TypeOK'
    BY <1>1, <1>3, <1>4, <2>1, <2>3 DEF EngineTypes
  <2>5. FramesOK'
    <3>1. 1 <= Current
      BY <1>6 DEF EngineAnswers, LossInv, FramesOK
    <3> QED
      BY <1>1, <1>3, <2>1, <2>2, <2>3, <3>1 DEF LossInv, FramesOK, Range
  <2>6. TierUnderway => TierUnderway'
    BY <1>3, <2>1, <2>2, <2>3 DEF TierUnderway, EngineUnderway
  <2>7. Waiting <=> Waiting'
    BY <1>3, <2>1 DEF Waiting
  <2> QED
    BY <1>3, <2>1, <2>4, <2>5, <2>6, <2>7 DEF LossInv
<1>7. ASSUME NEW signals \in {<<>>} \cup {<<[ready |-> r, token |-> Current]>> :
                                          r \in BOOLEAN},
             StartStreamReturns(signals)
      PROVE  LossInv'
  <2>1. /\ frames # <<>> /\ token' = Last(frames) /\ awaiting' = TRUE
        /\ frames' = Front(frames)
        /\ UNCHANGED <<playing, answers, serverUp>>
    BY <1>7 DEF StartStreamReturns
  <2>2. /\ frames' \in Seq(Nat) /\ token' \in Nat
        /\ Len(frames) \in Nat /\ Len(frames) \in DOMAIN frames
        /\ token' = frames[Len(frames)]
        /\ DOMAIN frames' \subseteq DOMAIN frames
        /\ \A n \in DOMAIN frames' : n \in Nat /\ n < Len(frames) /\ frames'[n] = frames[n]
    BY <1>1, <2>1 DEF Last, Front
  <2>3. /\ \A n \in DOMAIN frames' : frames'[n] < token'
        /\ token' <= Current
    BY <2>2 DEF LossInv, FramesOK
  <2>4. CASE signals = <<>>
    <3>1. UNCHANGED <<busy, queued>>
      BY <1>7, <2>4 DEF StartStreamReturns
    <3>2. TypeOK'
      BY <1>1, <1>3, <1>4, <2>1, <2>2, <3>1 DEF EngineTypes
    <3>3. FramesOK'
      BY <1>3, <2>2, <3>1 DEF LossInv, FramesOK
    <3>4. token' = Current' => TierUnderway'
      BY <1>3, <2>1, <2>2, <3>1 DEF LossInv, FramesOK, TierUnderway, EngineUnderway
    <3> QED
      BY <1>3, <2>1, <3>2, <3>3, <3>4 DEF LossInv
  <2>5. CASE signals # <<>>
    <3>1. PICK r \in BOOLEAN : signals = <<[ready |-> r, token |-> Current]>>
      BY <2>5
    <3> DEFINE s == [ready |-> r, token |-> Current]
    <3>2. token' = Current /\ busy' = FALSE /\ queued' = queued \o <<s>>
      BY <1>7, <2>1, <2>5, <3>1 DEF StartStreamReturns
    <3>3. s \in Signal /\ s.token = Current
      BY <1>1 DEF Signal
    <3> HIDE DEF s
    <3>4. queued' = Append(queued, s)
      BY <1>1, <3>2, <3>3
    <3>5. queued' \in Seq(Signal) /\ Range(queued') = Range(queued) \cup {s}
      BY <1>1, <3>3, <3>4, AnswerQueued
    <3>6. TypeOK'
      BY <1>1, <1>3, <1>4, <2>1, <2>2, <3>2, <3>5 DEF EngineTypes
    <3>7. \A n \in DOMAIN frames' : frames'[n] # Current
      BY <1>1, <2>2, <2>3, <3>2
    <3>8. FramesOK'
      <4>1. 1 <= token'
        BY <2>2 DEF LossInv, FramesOK
      <4> QED
        BY <1>1, <1>3, <2>2, <3>2, <3>3, <3>5, <3>7, <4>1 DEF LossInv, FramesOK
    <3>9. TierUnderway'
      BY <1>3, <2>1, <3>2, <3>3, <3>5 DEF TierUnderway, EngineUnderway
    <3> QED
      BY <1>3, <2>1, <3>6, <3>8, <3>9 DEF LossInv
  <2> QED
    BY <2>4, <2>5
<1>8. CASE SignalArrives
  <2> DEFINE s == Head(queued)
  <2>1. /\ queued # <<>> /\ queued' = Tail(queued)
        /\ UNCHANGED <<busy, serverUp, frames, token>>
    BY <1>8 DEF SignalArrives
  <2>2. /\ s \in Signal /\ queued' \in Seq(Signal)
        /\ \A d \in Range(queued) : d = s \/ d \in Range(queued')
        /\ s \in Range(queued) /\ Range(queued') \subseteq Range(queued)
    <3>1. \A n \in DOMAIN queued :
              n = 1 \/ (n - 1 \in DOMAIN Tail(queued) /\ Tail(queued)[n - 1] = queued[n])
      BY <1>1, <2>1
    <3>2. Head(queued) = queued[1] /\ Head(queued) \in Signal
          /\ Tail(queued) \in Seq(Signal) /\ 1 \in DOMAIN queued
      BY <1>1, <2>1
    <3>3. \A n \in DOMAIN Tail(queued) :
              n + 1 \in DOMAIN queued /\ Tail(queued)[n] = queued[n + 1]
      BY <1>1, <2>1
    <3>4. \A d \in Range(queued) : d = s \/ d \in Range(queued')
      BY <2>1, <3>1, <3>2 DEF Range
    <3>5. s \in Range(queued)
      BY <3>2 DEF Range
    <3>6. Range(queued') \subseteq Range(queued)
      BY <2>1, <3>3 DEF Range
    <3> QED
      BY <2>1, <3>2, <3>4, <3>5, <3>6
  <2>3. FramesOK'
    BY <1>3, <2>1, <2>2 DEF LossInv, FramesOK
  <2>4. CASE awaiting /\ s.token = token
    <3>1. awaiting' = FALSE /\ answers' = Announced(answers)
      BY <1>8, <2>4 DEF SignalArrives, Play, Unavailable
    <3>2. answers' \in 1..2
      BY <1>1, <3>1 DEF Announced
    <3>3. pending \in Items /\ s.token \in DOMAIN streams
      BY <1>1, <2>2, <2>4 DEF LossInv, FramesOK
    <3>4. playing' \in Session \cup {None}
      <4>1. CASE s.ready
        <5>1. playing' = [item |-> pending,
                          url |-> [of |-> streams[s.token], via |-> "relay"]]
          BY <1>8, <2>4, <4>1 DEF SignalArrives, Play
        <5>2. streams[s.token] \in Items
          BY <1>1, <3>3
        <5>3. [of |-> streams[s.token], via |-> "relay"] \in Link
          BY <5>2 DEF Link
        <5> QED
          BY <3>3, <5>1, <5>3 DEF Session
      <4>2. CASE ~s.ready
        BY <1>1, <1>8, <2>4, <4>2 DEF SignalArrives, Unavailable
      <4> QED
        BY <4>1, <4>2
    <3>5. TypeOK'
      <4>1. token' \in Nat /\ frames' \in Seq(Nat) /\ busy' \in BOOLEAN /\ serverUp' \in BOOLEAN
        BY <1>1, <2>1
      <4>2. awaiting' \in BOOLEAN
        BY <3>1
      <4>3. EngineTypes'
        <5>1. streams' \in Seq(Items) /\ queued' \in Seq(Signal)
          BY <1>1, <1>3, <2>2
        <5> QED
          BY <4>1, <4>2, <5>1 DEF EngineTypes
      <4>4. answers' \in 0..2
        BY <3>2
      <4> QED
        BY <1>4, <3>4, <4>3, <4>4
    <3>6. ~Waiting'
      BY <3>2 DEF Waiting
    <3>7. pending' \in Items
      BY <1>3, <3>3
    <3> QED
      BY <2>3, <3>5, <3>6, <3>7 DEF LossInv
  <2>5. CASE ~(awaiting /\ s.token = token)
    <3>1. UNCHANGED <<playing, answers, awaiting>>
      BY <1>8, <2>5 DEF SignalArrives
    <3>2. TypeOK'
      BY <1>1, <1>3, <1>4, <2>1, <2>2, <3>1 DEF EngineTypes
    <3>3. TierUnderway => TierUnderway'
      BY <1>3, <2>1, <2>2, <2>5, <3>1 DEF TierUnderway, EngineUnderway
    <3>4. Waiting <=> Waiting'
      BY <1>3, <3>1 DEF Waiting
    <3> QED
      BY <1>3, <2>1, <2>3, <3>1, <3>2, <3>3, <3>4 DEF LossInv
  <2> QED
    BY <2>4, <2>5
<1> QED
  BY <1>5, <1>6, <1>7, <1>8 DEF Engine

\* Every step keeps what an unanswered click rests on.
LEMMA NextKeepsAll == LossInv /\ [Next]_vars => LossInv'
<1> SUFFICES ASSUME LossInv, [Next]_vars PROVE LossInv'
  OBVIOUS
<1>1. CASE User
  BY <1>1, ClickKeepsAll, SettingsKeepAll DEF User
<1>2. CASE Replies
  BY <1>2, AddonKeepsAll, ScraperKeepsAll, DebridKeepsAll DEF Replies
<1>3. CASE Engine \/ ServerStarts
  BY <1>3, EngineKeepsAll
<1>4. CASE \E i \in Items : LinkAges(i)
  BY <1>4, SettingsKeepAll
<1>5. CASE UNCHANGED vars
  <2>1. UNCHANGED <<installed, asked, results, changed, pending, pluginKey, playing,
                    answers, cache, scraping, debridOn, debrid, engineVars, clicks>>
    BY <1>5 DEF vars, resolverVars
  <2>2. EngineTypes' /\ FramesOK' /\ (EngineUnderway' <=> EngineUnderway)
    BY <2>1, SameEngine
  <2> QED
    BY <2>1, <2>2 DEF LossInv, TypeOK, EngineTypes, TierUnderway, AddonsUnderway,
                      Waiting, engineVars, Current
<1> QED
  BY <1>1, <1>2, <1>3, <1>4, <1>5 DEF Next

\* Nothing has been clicked at first.
LEMMA InitLossInv == Init => LossInv
<1> SUFFICES ASSUME Init PROVE LossInv
  OBVIOUS
<1>1. <<>> \in Seq(Items) /\ <<>> \in Seq(Signal) /\ <<>> \in Seq(Nat)
  OBVIOUS
<1>2. Range(queued) = {} /\ Len(streams) = 0
  BY DEF Init, Range
<1>3. cache \in [Items -> Link \cup {None}]
  BY DEF Init, Link, Direct
<1>4. TypeOK
  <2>1. /\ asked \in [Items -> [Addons -> Nat]] /\ scraping \in [Items -> Nat]
        /\ results \in [Items -> [Addons -> Outcomes \cup {NoReply}]]
    BY DEF Init
  <2>2. /\ answers \in 0..2 /\ clicks \in 0..MaxClicks /\ token \in Nat
    BY PlayAssumption DEF Init
  <2>3. /\ installed \subseteq Addons /\ debridOn \in BOOLEAN /\ changed \in BOOLEAN
        /\ busy \in BOOLEAN /\ serverUp \in BOOLEAN /\ awaiting \in BOOLEAN
    BY DEF Init
  <2>4. /\ pending = None /\ pluginKey = None /\ playing = None /\ debrid = None
        /\ streams = <<>> /\ queued = <<>> /\ frames = <<>>
    BY DEF Init
  <2> QED
    BY <1>1, <1>3, <2>1, <2>2, <2>3, <2>4 DEF TypeOK
<1>5. FramesOK
  BY <1>2 DEF Init, FramesOK, Current
<1> QED
  BY <1>4, <1>5 DEF Init, LossInv, Waiting

\* What a click waits for is a request under way, or what strands it.
LEMMA LossInvSuffices == LossInv => TypeOK /\ NothingLost
BY DEF LossInv, NothingLost, TierUnderway, EngineUnderway, AddonsUnderway, Underway,
       Stranded

\* The session's state is of the expected types, for any items, addons, clicks
\* and streams.
THEOREM TypeCorrect == Spec => []TypeOK
BY InitLossInv, NextKeepsAll, LossInvSuffices, PTL DEF Spec

\* Nothing is lost between the tiers of PlaybackSession: a click without an
\* answer has a request under way, unless a change of the addons or a stream
\* started in a nested event loop stranded it.
THEOREM NoClickIsLost == Spec => []NothingLost
BY InitLossInv, NextKeepsAll, LossInvSuffices, PTL DEF Spec
=============================================================================
