---------------------------- MODULE PlaySession ----------------------------
(***************************************************************************)
(* PlaybackSession and StreamResolver (src/systems/playback): from the     *)
(* user's click on an item to a url for the player, through the tiers      *)
(* local file, cached link, addons, plugin scrapers, debrid, torrent       *)
(* server.  DebridResolver and P2pEngine appear by what they promise the   *)
(* session.                                                                *)
(*                                                                         *)
(* P2pEngine::startStream waits for its own requests in a nested event     *)
(* loop when the torrent server is up, so clicks and replies are handled   *)
(* before it returns and the session stores its token; frames is the stack *)
(* of those calls.                                                         *)
(*                                                                         *)
(* The order of the addons, the titles and the episode numbers are left    *)
(* out; an item is the type and id of a click.                             *)
(***************************************************************************)
EXTENDS Naturals, FiniteSets, SequencesExt

\* A direct link's query carries no credential that expires, or it does.
Direct == {"plain", "expiring"}

CONSTANTS Items, Addons,
          Kinds,        \* what addons may answer with
          None,         \* no item, no link
          MaxClicks,    \* bound on requestPlay
          MaxStreams    \* bound on startStream

ASSUME PlayAssumption == /\ None \notin Items
                         /\ Kinds \subseteq {"torrent"} \cup Direct
                         /\ IsFiniteSet(Addons)
                         /\ MaxClicks \in Nat /\ MaxStreams \in Nat

VARIABLES
    installed,  \* m_addonOrder
    asked,      \* open stream requests, by item and addon
    results,    \* m_results: the kinds of streams each addon answered
    pending,    \* m_pendingType, m_pendingId
    pluginKey,  \* m_pluginKey
    playing,    \* the session: its item and its url
    answers,    \* signals sent since the last click, 2 for more than one
    cache,      \* StreamLinkCache
    scraping,   \* open plugin executions, by item
    debridOn,   \* DebridResolver::canResolve
    debrid,     \* the item of DebridResolver's current token, until it answers
    streams,    \* the item of each generation of P2pEngine
    busy,       \* the current generation has queued no answer yet
    serverUp,   \* TorrServerProcess::isRunning
    queued,     \* streamReady and streamFailed signals not yet delivered
    frames,     \* calls of startStream that have not returned
    token,      \* m_activeToken
    awaiting,   \* m_awaitingP2p
    clicks,
    changed     \* auxiliary: the addons have changed since the click

resolverVars == <<installed, asked, results, changed>>
engineVars == <<streams, busy, serverUp, queued, frames, token, awaiting>>
vars == <<resolverVars, pending, pluginKey, playing, answers, cache, scraping,
          debridOn, debrid, engineVars, clicks>>

Outcomes == SUBSET Kinds
NoReply  == {"no reply yet"}

Link    == [of : Items, via : Direct \cup {"local", "plugin", "relay"}]
Session == [item : Items, url : Link]
Signal  == [ready : BOOLEAN, token : Nat]

TypeOK ==
    /\ installed \subseteq Addons
    /\ asked \in [Items -> [Addons -> Nat]]
    /\ results \in [Items -> [Addons -> Outcomes \cup {NoReply}]]
    /\ pending \in Items \cup {None}
    /\ pluginKey \in Items \cup {None}
    /\ playing \in Session \cup {None}
    /\ answers \in 0..2
    /\ cache \in [Items -> Link \cup {None}]
    /\ scraping \in [Items -> Nat]
    /\ debridOn \in BOOLEAN
    /\ debrid \in Items \cup {None}
    /\ streams \in Seq(Items)
    /\ busy \in BOOLEAN /\ serverUp \in BOOLEAN
    /\ queued \in Seq(Signal)
    /\ frames \in Seq(Nat)
    /\ token \in Nat /\ awaiting \in BOOLEAN
    /\ clicks \in 0..MaxClicks /\ changed \in BOOLEAN

Init ==
    /\ installed \in SUBSET Addons
    /\ asked = [i \in Items |-> [a \in Addons |-> 0]]
    /\ results = [i \in Items |-> [a \in Addons |-> NoReply]]
    /\ pending = None /\ pluginKey = None /\ playing = None
    /\ answers = 0
    /\ cache \in {f \in [Items -> Link \cup {None}] :
                    \A i \in Items : f[i] \in {None, [of |-> i, via |-> "plain"]}}
    /\ scraping = [i \in Items |-> 0]
    /\ debridOn \in BOOLEAN
    /\ debrid = None
    /\ streams = <<>> /\ busy = FALSE /\ serverUp = FALSE
    /\ queued = <<>> /\ frames = <<>> /\ token = 0 /\ awaiting = FALSE
    /\ clicks = 0 /\ changed = FALSE

-----------------------------------------------------------------------------
(* StreamResolver. *)

Arrived(res, i) == {a \in Addons : res[i][a] # NoReply}

\* Answers of addons no longer installed count as well.
Complete(res, i) == Cardinality(Arrived(res, i)) >= Cardinality(installed)

Entries(res, i) == UNION {res[i][a] : a \in installed \cap Arrived(res, i)}

\* resolve: nothing is asked once any addon has answered for the item.
Resolve(i) ==
    IF Arrived(results, i) # {} THEN asked
    ELSE [asked EXCEPT ![i] = [a \in Addons |-> IF a \in installed
                                                THEN @[a] + 1 ELSE @[a]]]

-----------------------------------------------------------------------------
(* The tiers, each a way of going on for the pending item i; res are the    *)
(* addons' answers, n the signals sent since the click.                     *)

Announced(n) == IF n < 2 THEN n + 1 ELSE 2

Play(i, link, n) ==
    /\ playing' = [item |-> i, url |-> link]
    /\ answers' = Announced(n)

Silent(n) == answers' = n /\ UNCHANGED playing

\* playbackUnavailable leaves the session as it was.
Unavailable(n) == answers' = Announced(n) /\ UNCHANGED playing

\* StreamLinkCache::save refuses a link that expires, and drops the old one.
Save(i, link) ==
    cache' = [cache EXCEPT ![i] = IF link.via = "plain" THEN link ELSE None]

\* P2pEngine::startStream, as the session calls it.
StartStream(i) ==
    /\ Len(streams) < MaxStreams
    /\ streams' = Append(streams, i)
    /\ busy' = TRUE
    /\ IF serverUp
       THEN /\ frames' = Append(frames, Len(streams'))
            /\ UNCHANGED <<token, awaiting>>
       ELSE /\ token' = Len(streams')
            /\ awaiting' = TRUE
            /\ UNCHANGED frames
    /\ UNCHANGED <<serverUp, queued>>

\* decideTorrentTier: debrid when a provider is set up, else the engine; by is
\* what becomes of the resolver otherwise.
TorrentTier(res, i, n, by) ==
    CASE "torrent" \notin Entries(res, i) ->
              Unavailable(n) /\ debrid' = by /\ UNCHANGED <<cache, engineVars>>
      [] "torrent" \in Entries(res, i) /\ debridOn ->
              Silent(n) /\ debrid' = i /\ UNCHANGED <<cache, engineVars>>
      [] OTHER ->
              Silent(n) /\ debrid' = by /\ StartStream(i) /\ UNCHANGED cache

\* executeFor: without an enabled scraper its callback runs at once.
PluginTier(res, i, n) ==
    \/ /\ TorrentTier(res, i, n, debrid)
       /\ UNCHANGED scraping
    \/ /\ scraping' = [scraping EXCEPT ![i] = @ + 1]
       /\ Silent(n)
       /\ UNCHANGED <<cache, debrid, engineVars>>

\* decide; key is the item the plugin tier was last consulted for.
Decide(res, i, key, n) ==
    LET links == {[of |-> i, via |-> via] : via \in Direct \cap Entries(res, i)}
    IN  IF links # {}
        THEN /\ \E link \in links : Save(i, link) /\ Play(i, link, n)
             /\ pluginKey' = key
             /\ UNCHANGED <<scraping, debrid, engineVars>>
        ELSE /\ pluginKey' = i
             /\ IF key = i THEN TorrentTier(res, i, n, debrid) /\ UNCHANGED scraping
                           ELSE PluginTier(res, i, n)

-----------------------------------------------------------------------------
(* The user. *)

tierVars == <<cache, scraping, debridOn, debrid, engineVars>>

\* requestPlay: a downloaded file answers at once, and so does a cached link
\* when the reuse setting is on.
RequestPlay(i) ==
    /\ clicks < MaxClicks
    /\ clicks' = clicks + 1
    /\ pending' = i
    /\ changed' = FALSE
    /\ UNCHANGED <<installed, results>>

PlaysLocalFile(i) ==
    /\ RequestPlay(i)
    /\ Play(i, [of |-> i, via |-> "local"], 0)
    /\ pluginKey' = None
    /\ UNCHANGED <<asked, tierVars>>

\* Mutant of Hit: a miss is taken for a hit.
AnyHit(i) == TRUE

Hit(i) == cache[i] # None

PlaysCachedLink(i) ==
    /\ Hit(i)
    /\ RequestPlay(i)
    /\ Play(i, cache[i], 0)
    /\ pluginKey' = None
    /\ UNCHANGED <<asked, tierVars>>

\* Mutant of DecidesAtOnce: a second click on a resolved item waits for a
\* signal that is never sent.
DecidesLater(i) == FALSE

DecidesAtOnce(i) == Complete(results, i)

AsksAddons(i) ==
    /\ RequestPlay(i)
    /\ asked' = Resolve(i)
    /\ IF DecidesAtOnce(i)
       THEN Decide(results, i, None, 0)
       ELSE Silent(0) /\ pluginKey' = None /\ UNCHANGED tierVars
    /\ UNCHANGED debridOn

\* AddonRegistry::changed: an addon is installed, removed or switched off.
SetAddons(new) ==
    /\ new # installed
    /\ installed' = new
    /\ changed' = TRUE
    /\ UNCHANGED <<asked, results, pending, pluginKey, playing, answers,
                   tierVars, clicks>>

\* A link older than the reuse window counts as none.
LinkAges(i) ==
    /\ cache[i] # None
    /\ cache' = [cache EXCEPT ![i] = None]
    /\ UNCHANGED <<resolverVars, pending, pluginKey, playing, answers, scraping,
                   debridOn, debrid, engineVars, clicks>>

-----------------------------------------------------------------------------
(* Replies and callbacks. *)

\* applyAddonStreams; resolutionComplete is sent again by every later answer.
AddonReply(i, a, outcome) ==
    LET res == [results EXCEPT ![i][a] = outcome]
    IN  /\ asked[i][a] > 0
        /\ asked' = [asked EXCEPT ![i][a] = @ - 1]
        /\ results' = res
        /\ IF Complete(res, i) /\ pending = i
           THEN Decide(res, i, pluginKey, answers)
           ELSE UNCHANGED <<pluginKey, playing, answers, tierVars>>
        /\ UNCHANGED <<installed, changed, pending, debridOn, clicks>>

\* Scraper links are never cached; rows without a url count as none.
PluginReply(i, found) ==
    /\ scraping[i] > 0
    /\ scraping' = [scraping EXCEPT ![i] = @ - 1]
    /\ CASE pending # i -> UNCHANGED <<playing, answers, cache, debrid, engineVars>>
         [] pending = i /\ found ->
              /\ Play(i, [of |-> i, via |-> "plugin"], answers)
              /\ UNCHANGED <<cache, debrid, engineVars>>
         [] OTHER -> TorrentTier(results, i, answers, debrid)
    /\ UNCHANGED <<resolverVars, pending, pluginKey, debridOn, clicks>>

\* Mutant of ForPending: an answer for a superseded click is taken.
ForAny(i) == TRUE

\* m_debridKey against the pending item.
ForPending(i) == i = pending

\* DebridResolver answers for its current token only.
DebridResolved(via) ==
    /\ debrid # None
    /\ debrid' = None
    /\ IF ForPending(debrid)
       THEN LET link == [of |-> debrid, via |-> via]
            IN  Save(pending, link) /\ Play(pending, link, answers)
       ELSE UNCHANGED <<playing, answers, cache>>
    /\ UNCHANGED <<resolverVars, pending, pluginKey, scraping, debridOn,
                   engineVars, clicks>>

\* unavailable goes back to the torrent tier, which asks debrid again while a
\* provider is set up.
DebridFails ==
    /\ debrid # None
    /\ IF ForPending(debrid)
       THEN TorrentTier(results, pending, answers, None)
       ELSE debrid' = None /\ UNCHANGED <<playing, answers, cache, engineVars>>
    /\ UNCHANGED <<resolverVars, pending, pluginKey, scraping, debridOn, clicks>>

\* The user sets a provider up or switches debrid off.
ToggleDebrid ==
    /\ debridOn' = ~debridOn
    /\ UNCHANGED <<resolverVars, pending, pluginKey, playing, answers, cache,
                   scraping, debrid, engineVars, clicks>>

-----------------------------------------------------------------------------
(* P2pEngine.  Its signals are queued and carry the token of startStream.   *)

Current == Len(streams)

otherVars == <<resolverVars, pending, pluginKey, cache, scraping, debridOn,
               debrid, streams, clicks>>

\* TorrServerProcess gets its first answer from the server it has started.
ServerStarts ==
    /\ busy /\ ~serverUp
    /\ serverUp' = TRUE
    /\ UNCHANGED <<playing, answers, busy, queued, frames, token, awaiting>>
    /\ UNCHANGED otherVars

\* Metadata, its deadline, or a failure, outside a call of startStream: a
\* generation that has been superseded says nothing.
EngineAnswers(ready) ==
    /\ busy
    /\ ready => serverUp
    /\ Current \notin Range(frames)
    /\ busy' = FALSE
    /\ queued' = Append(queued, [ready |-> ready, token |-> Current])
    /\ UNCHANGED <<playing, answers, serverUp, frames, token, awaiting>>
    /\ UNCHANGED otherVars

\* The innermost startStream returns, with or without an answer queued, and
\* the session stores its token, however many streams were started meanwhile.
StartStreamReturns(signals) ==
    /\ frames # <<>>
    /\ token' = Last(frames)
    /\ awaiting' = TRUE
    /\ frames' = Front(frames)
    /\ IF signals # <<>>
       THEN /\ Last(frames) = Current
            /\ busy' = FALSE
            /\ queued' = queued \o signals
       ELSE UNCHANGED <<busy, queued>>
    /\ UNCHANGED <<playing, answers, serverUp>>
    /\ UNCHANGED otherVars

\* The session's handlers of streamReady and streamFailed.
SignalArrives ==
    /\ queued # <<>>
    /\ queued' = Tail(queued)
    /\ LET s == Head(queued)
           i == pending
       IN  IF awaiting /\ s.token = token
           THEN /\ awaiting' = FALSE
                /\ IF s.ready
                   THEN Play(i, [of |-> streams[s.token], via |-> "relay"], answers)
                   ELSE Unavailable(answers)
           ELSE UNCHANGED <<playing, answers, awaiting>>
    /\ UNCHANGED <<busy, serverUp, frames, token>>
    /\ UNCHANGED otherVars

-----------------------------------------------------------------------------
User == \/ \E i \in Items : \/ PlaysLocalFile(i) \/ PlaysCachedLink(i)
                            \/ AsksAddons(i)
        \/ \E new \in SUBSET Addons : SetAddons(new)
        \/ ToggleDebrid

Replies ==
    \/ \E i \in Items, a \in Addons, o \in Outcomes : AddonReply(i, a, o)
    \/ \E i \in Items, found \in BOOLEAN : PluginReply(i, found)
    \/ \E via \in Direct : DebridResolved(via)
    \/ DebridFails

Engine ==
    \/ \E ready \in BOOLEAN : EngineAnswers(ready)
    \/ \E signals \in {<<>>} \cup {<<[ready |-> r, token |-> Current]>> :
                                    r \in BOOLEAN} : StartStreamReturns(signals)
    \/ SignalArrives

Next == User \/ Replies \/ Engine \/ ServerStarts \/ \E i \in Items : LinkAges(i)

\* The network ends every request of addons and debrid, which carry no timeout;
\* scrapers run out of time and the engine has deadlines; calls return and
\* queued signals are delivered.
Fairness ==
    /\ \A i \in Items, a \in Addons :
          WF_vars(\E o \in Outcomes : AddonReply(i, a, o))
    /\ \A i \in Items : WF_vars(\E found \in BOOLEAN : PluginReply(i, found))
    /\ WF_vars(DebridFails \/ \E via \in Direct : DebridResolved(via))
    /\ WF_vars(Engine)

Spec == Init /\ [][Next]_vars /\ Fairness

-----------------------------------------------------------------------------
(* Properties. *)

\* What the reuse cache holds under an item is a link to that item which does
\* not expire: no relay, no scraper link, and no link of a click that was
\* superseded while debrid was asked.
CacheHoldsLastingLinks ==
    \A i \in Items : cache[i] \in {None, [of |-> i, via |-> "plain"]}

\* The ways a click can come to nothing that the code has: the addons changed
\* after the item's addons were asked, so that their number is not reached or
\* not noticed; a nested call of startStream returned after a later one, so that
\* the session waits for a token whose stream was superseded.
Stranded ==
    \/ changed /\ pluginKey # pending
    \/ \E a \in installed : asked[pending][a] = 0 /\ results[pending][a] = NoReply
    \/ awaiting /\ token # Current

\* A request on the way that will come back to the pending item.
Underway ==
    \/ \E a \in Addons : asked[pending][a] > 0
    \/ scraping[pending] > 0
    \/ debrid = pending
    \/ frames # <<>>
    \/ awaiting /\ token = Current
                /\ \/ busy
                   \/ \E s \in Range(queued) : s.token = token

Waiting == pending # None /\ answers = 0

\* Nothing is lost between the tiers: a click without an answer has a request
\* underway, unless it is stranded.
NothingLost == Waiting => Underway \/ Stranded

\* "exactly one terminal signal": when debrid does not fail for ever and the
\* user stops clicking, a click is answered, unless it is stranded.
ClicksAreAnswered ==
    <>[][~DebridFails]_vars => (Waiting ~> ~Waiting \/ Stranded)

-----------------------------------------------------------------------------
(* What a comment of the code says, and the code does not do.              *)

\* "stale completions never launch the wrong title" (main.cpp): the url of the
\* session is a source of the session's item.
SessionPlaysItsItem == playing # None => playing.url.of = playing.item
=============================================================================
