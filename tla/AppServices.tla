----------------------------- MODULE AppServices ----------------------------
(***************************************************************************)
(* The services that main.cpp builds around the session and the active     *)
(* profile, each a module of its own: the sync controllers of the account, *)
(* the profiles, the home page, the accounts of other providers, what the  *)
(* player uses, the release alerts and the updater.                        *)
(*                                                                         *)
(* They write no state of each other and are moved by the session and the   *)
(* profile, which here change at any time.  A property of one is therefore  *)
(* about the behaviours of that one, and a behaviour is chosen at the start *)
(* as one of which; what belongs to the others stays Off.                  *)
(***************************************************************************)
EXTENDS Naturals, FiniteSets

CONSTANTS Profiles, None, Users,
          Urls, MaxRows,                                     \* AddonsSync
          Ids, Sources, MaxLoads, MaxEdits,                  \* CollectionSync
          CatalogValues,                                     \* HomeCatalogSync
          Providers, Values,                                 \* CredsSync, SettingsSync
          Shelves, kMaxInFlight, MaxOpen,                    \* HomeShelves
          kMaxProfiles, MaxCalls,                            \* Profiles, DebridLinks
          MaxAsked,                                          \* DeviceAuth
          Items, kLast, kMaxStopAttempts, MaxSends,          \* Scrobbles
          MaxStreams, kMetadataDeadlineAttempts,             \* TorrServer
          MaxFetches, MaxPluginCalls,                        \* Plugins
          MaxElements, MaxCompounds,                         \* DomSelect
          Shows, kFetchConcurrency, MaxMeta,                 \* ReleaseAlerts
          Tags                                               \* Updater

ASSUME ServicesAssumption ==
    /\ MaxCalls \in Nat /\ kMetadataDeadlineAttempts \in Nat
    /\ {kMaxProfiles, kMaxStopAttempts, kFetchConcurrency} \subseteq Nat \ {0}
    /\ {kLast, kMaxInFlight, MaxOpen, MaxMeta, MaxElements, MaxCompounds,
        MaxStreams, MaxLoads, MaxEdits} \subseteq Nat
    /\ kFetchConcurrency <= MaxMeta
    /\ Profiles # {} /\ None \notin Profiles
    /\ None \notin Users
    /\ IsFiniteSet(Urls) /\ IsFiniteSet(Shelves) /\ IsFiniteSet(Shows)
    /\ IsFiniteSet(Ids)

VARIABLES
    which,
    signedIn, profile,
    installed, enabledStates, manifests, rows, fetching, adding, serverRows,
    addonsRequest, addonsDebounce, addonsLastPush,
    saved, collections, folder, folderToken, folderItems, folderReplies,
    serverCollections, collRequest, collDebounce, edits,
    user, prefs, settingsJson, catalogRequest, catalogDebounce, pullComplete,
    cachedRemote,
    creds, serverCreds, credsRequest, credsDebounce, baseline,
    player, cw, rest, server, request, pullAttempted, debounce, lastPushSig,
    skipNextSig,
    defs, savedRows, payload, shelfRows, data, queue, pending, open,
    session, m, stored, pinCache, boundTo, calls, handlers,
    service, keys, flowActive, busy, asked,
    configured, preferred, debridOn, token, linkSteps, linkAnswers,
    item, startSent, completionSent, wasPaused, lastPos, connected, traktLast,
    sends, lastWord,
    phase, idleTimer, generation, wired, posted, sessions, attempts, answered,
    kind, kept, legacy, shown, moved, fromLegacy,
    repos, scrapers, pulled, refreshing, fetches, pulling, pluginCalls, owned,
    mixed,
    parent, tag, holder, scope, selector, found,
    series, bound, follows, alertsOn, told, loading, backlog, inflight,
    metaFetches, collecting, miscounted,
    offer, dialog, checking, ignored, downloading, transfer, dest, package, path,
    requested, confused, handed

Addons      == INSTANCE AddonsSync
Collections == INSTANCE CollectionSync
HomeCatalog == INSTANCE HomeCatalogSync
Creds       == INSTANCE CredsSync
Settings    == INSTANCE SettingsSync
HomePage    == INSTANCE HomeShelves
Manager     == INSTANCE Profiles
Accounts    == INSTANCE DeviceAuth
Debrid      == INSTANCE DebridLinks
Tracking    == INSTANCE Scrobbles
Torrents    == INSTANCE TorrServer
Preferences == INSTANCE AppSettings
PluginRepos == INSTANCE Plugins
ScraperDom  == INSTANCE DomSelect
Alerts      == INSTANCE ReleaseAlerts
Updates     == INSTANCE Updater

\* None, of an empty m_lastItemKey, is no word.
ASSUME NoneAssumption == None \notin Tracking!Word

WithSession == {"addons", "collections", "creds", "settings", "plugins"}
WithProfile == WithSession \cup {"catalog", "shelves", "accounts", "preferences",
                               "alerts"}
All == WithProfile \cup {"profiles", "debrid", "tracking", "torrents", "dom",
                        "updates"}

addonsVars == <<installed, enabledStates, manifests, rows, fetching, adding,
                serverRows, addonsRequest, addonsDebounce, addonsLastPush>>
collectionVars == <<saved, collections, folder, folderToken, folderItems,
                    folderReplies, serverCollections, collRequest, collDebounce,
                    edits>>
catalogVars == <<user, prefs, settingsJson, catalogRequest, catalogDebounce,
                 pullComplete, cachedRemote>>
credsVars == <<creds, serverCreds, credsRequest, credsDebounce, baseline>>
settingsVars == <<player, cw, rest, server, request, pullAttempted, debounce,
                  lastPushSig, skipNextSig>>
shelfVars == <<defs, savedRows, payload, shelfRows, data, queue, pending, open>>
profileVars == <<session, m, stored, pinCache, boundTo, calls, handlers>>
authVars == <<service, keys, flowActive, busy, asked>>
linkVars == <<configured, preferred, debridOn, token, linkSteps, linkAnswers>>
scrobbleVars == <<item, startSent, completionSent, wasPaused, lastPos, connected,
                  traktLast, sends, lastWord>>
torrVars == <<phase, idleTimer, generation, wired, posted, sessions, attempts,
              answered>>
prefVars == <<kind, kept, legacy, shown, moved, fromLegacy>>
pluginVars == <<repos, scrapers, pulled, refreshing, fetches, pulling,
                pluginCalls, owned, mixed>>
domVars == <<parent, tag, holder, scope, selector, found>>
alertVars == <<series, bound, follows, alertsOn, told, loading, backlog, inflight,
               metaFetches, collecting, miscounted>>
updaterVars == <<offer, dialog, checking, ignored, downloading, transfer, dest,
                 package, path, requested, confused, handed>>
vars == <<which, signedIn, profile, addonsVars, collectionVars, catalogVars,
          credsVars, settingsVars, shelfVars, profileVars, authVars, linkVars,
          scrobbleVars, torrVars, prefVars, pluginVars, domVars, alertVars,
          updaterVars>>

Off == "off"

Init ==
    /\ which \in All
    /\ which \notin WithSession => signedIn = Off
    /\ which \notin WithProfile => profile = Off
    /\ IF which = "addons" THEN Addons!Init
       ELSE /\ installed = Off /\ enabledStates = Off /\ manifests = Off
            /\ rows = Off /\ fetching = Off /\ adding = Off /\ serverRows = Off
            /\ addonsRequest = Off /\ addonsDebounce = Off /\ addonsLastPush = Off
    /\ IF which = "collections" THEN Collections!Init
       ELSE /\ saved = Off /\ collections = Off /\ folder = Off
            /\ folderToken = Off /\ folderItems = Off /\ folderReplies = Off
            /\ serverCollections = Off /\ collRequest = Off /\ collDebounce = Off
            /\ edits = Off
    /\ IF which = "catalog" THEN HomeCatalog!Init
       ELSE /\ user = Off /\ prefs = Off /\ settingsJson = Off
            /\ catalogRequest = Off /\ catalogDebounce = Off
            /\ pullComplete = Off /\ cachedRemote = Off
    /\ IF which = "creds" THEN Creds!Init
       ELSE /\ creds = Off /\ serverCreds = Off /\ credsRequest = Off
            /\ credsDebounce = Off /\ baseline = Off
    /\ IF which = "settings" THEN Settings!Init
       ELSE /\ player = Off /\ cw = Off /\ rest = Off /\ server = Off
            /\ request = Off /\ pullAttempted = Off /\ debounce = Off
            /\ lastPushSig = Off /\ skipNextSig = Off
    /\ IF which = "shelves" THEN HomePage!Init
       ELSE /\ defs = Off /\ savedRows = Off /\ payload = Off /\ shelfRows = Off
            /\ data = Off /\ queue = Off /\ pending = Off /\ open = Off
    /\ IF which = "profiles" THEN Manager!Init
       ELSE /\ session = Off /\ m = Off /\ stored = Off /\ pinCache = Off
            /\ boundTo = Off /\ calls = Off /\ handlers = Off
    /\ IF which = "accounts" THEN Accounts!Init
       ELSE service = Off /\ keys = Off /\ flowActive = Off /\ busy = Off /\ asked = Off
    /\ IF which = "debrid" THEN Debrid!Init
       ELSE /\ configured = Off /\ preferred = Off /\ debridOn = Off
            /\ token = Off /\ linkSteps = Off /\ linkAnswers = Off
    /\ IF which = "tracking" THEN Tracking!Init
       ELSE /\ item = Off /\ startSent = Off /\ completionSent = Off
            /\ wasPaused = Off /\ lastPos = Off /\ connected = Off
            /\ traktLast = Off /\ sends = Off /\ lastWord = Off
    /\ IF which = "torrents" THEN Torrents!Init
       ELSE /\ phase = Off /\ idleTimer = Off /\ generation = Off /\ wired = Off
            /\ posted = Off /\ sessions = Off /\ attempts = Off /\ answered = Off
    /\ IF which = "preferences" THEN Preferences!Init
       ELSE /\ kind = Off /\ kept = Off /\ legacy = Off /\ shown = Off
            /\ moved = Off /\ fromLegacy = Off
    /\ IF which = "plugins" THEN PluginRepos!Init
       ELSE /\ repos = Off /\ scrapers = Off /\ pulled = Off /\ refreshing = Off
            /\ fetches = Off /\ pulling = Off /\ pluginCalls = Off
            /\ owned = Off /\ mixed = Off
    /\ IF which = "dom" THEN ScraperDom!Init
       ELSE /\ parent = Off /\ tag = Off /\ holder = Off
            /\ scope = Off /\ selector = Off /\ found = Off
    /\ IF which = "alerts" THEN Alerts!Init
       ELSE /\ series = Off /\ bound = Off /\ follows = Off /\ alertsOn = Off
            /\ told = Off /\ loading = Off /\ backlog = Off /\ inflight = Off
            /\ metaFetches = Off /\ collecting = Off /\ miscounted = Off
    /\ IF which = "updates" THEN Updates!Init
       ELSE /\ offer = Off /\ dialog = Off /\ checking = Off /\ ignored = Off
            /\ downloading = Off /\ transfer = Off /\ dest = Off
            /\ package = Off /\ path = Off /\ requested = Off
            /\ confused = Off /\ handed = Off

\* One service moves, and nothing else.
Next ==
    /\ UNCHANGED which
    /\ IF which \in WithSession THEN TRUE ELSE UNCHANGED signedIn
    /\ IF which \in WithProfile THEN TRUE ELSE UNCHANGED profile
    /\ IF which = "addons" THEN Addons!Next ELSE UNCHANGED addonsVars
    /\ IF which = "collections" THEN Collections!Next
                                ELSE UNCHANGED collectionVars
    /\ IF which = "catalog" THEN HomeCatalog!Next ELSE UNCHANGED catalogVars
    /\ IF which = "creds" THEN Creds!Next ELSE UNCHANGED credsVars
    /\ IF which = "settings" THEN Settings!Next ELSE UNCHANGED settingsVars
    /\ IF which = "shelves" THEN HomePage!Next ELSE UNCHANGED shelfVars
    /\ IF which = "profiles" THEN Manager!Next ELSE UNCHANGED profileVars
    /\ IF which = "accounts" THEN Accounts!Next ELSE UNCHANGED authVars
    /\ IF which = "debrid" THEN Debrid!Next ELSE UNCHANGED linkVars
    /\ IF which = "tracking" THEN Tracking!Next ELSE UNCHANGED scrobbleVars
    /\ IF which = "torrents" THEN Torrents!Next ELSE UNCHANGED torrVars
    /\ IF which = "preferences" THEN Preferences!Next ELSE UNCHANGED prefVars
    /\ IF which = "plugins" THEN PluginRepos!Next ELSE UNCHANGED pluginVars
    /\ IF which = "dom" THEN ScraperDom!Next ELSE UNCHANGED domVars
    /\ IF which = "alerts" THEN Alerts!Next ELSE UNCHANGED alertVars
    /\ IF which = "updates" THEN Updates!Next ELSE UNCHANGED updaterVars

Spec == Init /\ [][Next]_vars

-----------------------------------------------------------------------------
(* Properties: those of the modules, of the service that runs.             *)

TypeOK ==
    /\ which \in All
    /\ which = "addons"        => Addons!TypeOK
    /\ which = "collections"   => Collections!TypeOK
    /\ which = "catalog"       => HomeCatalog!TypeOK
    /\ which = "creds"         => Creds!TypeOK
    /\ which = "settings"      => Settings!TypeOK
    /\ which = "shelves"       => HomePage!TypeOK
    /\ which = "profiles"      => Manager!TypeOK
    /\ which = "accounts"      => Accounts!TypeOK
    /\ which = "debrid"        => Debrid!TypeOK
    /\ which = "tracking"      => Tracking!TypeOK
    /\ which = "torrents"      => Torrents!TypeOK
    /\ which = "preferences"   => Preferences!TypeOK
    /\ which = "plugins"       => PluginRepos!TypeOK
    /\ which = "dom"           => ScraperDom!TypeOK
    /\ which = "alerts"        => Alerts!TypeOK
    /\ which = "updates"       => Updates!TypeOK

\* AddonRegistry: what is installed for the active profile is in the list that
\* is shown and pushed.
InstalledIsShown == which = "addons" => Addons!InstalledIsShown

\* CollectionStore: no late answer is mixed into the items of a folder opened
\* after it was asked for.
ItemsOfOneFolder == which = "collections" => Collections!ItemsOfOneFolder

\* HomeCatalogSyncController: keys of other clients go back to the user and the
\* profile they were pulled for.
KeysReturnToTheirOwner == which = "catalog" => HomeCatalog!KeysReturnToTheirOwner

\* SyncOrchestrator: what other clients own and this one has received is in
\* every push.
ReceivedIsSentBack == [][which = "settings" => Settings!SendsBack]_vars

\* HomeShelves: a shelf waits only while every slot is in use, and every slot in
\* use has a reply under way.  ReleaseNotificationManager: a refresh that is
\* loading has the requests it counts.
LoadingGoesOn ==
    /\ which = "shelves" => HomePage!ShelvesKeepLoading
    /\ which = "alerts" => Alerts!RefreshEnds

\* HomeShelves: only the user and the server turn a shelf on that was off.
OffStaysOff == [][which = "shelves" => HomePage!KeepsOff]_vars

\* ProfileManager: the file holds what the manager shows, whichever handlers ran
\* on whichever answer.
FileFollowsManager == which = "profiles" => Manager!FileFollowsManager

\* ProfileManager: a move of the active profile reaches the objects that keep a
\* profile's state, unless the session changes or the program restarts.
MovesAreAnnounced == [][which = "profiles" => Manager!Announces]_vars

\* TraktAuth, SimklAuth, DebridAuth: one flow polls at a time, and ends with the
\* profile it began with.
FlowsKeepToThemselves == which = "accounts" => Accounts!FlowsKeepToThemselves

\* DebridResolver: the last call has one answer or one request under way.
OneAnswerPerCall == which = "debrid" => Debrid!OneAnswerPerCall

\* TraktScrobbler: what it remembers having told is what the pump said last.
LastWordIsKept == which = "tracking" => Tracking!LastWordIsKept

\* P2pEngine: whoever waits for a stream waits for something that comes.
StreamsAreAnswered == which = "torrents" => Torrents!StreamsAreAnswered

\* AppSettings: a page shows what the active profile's keys hold.
ShownIsStored == which = "preferences" => Preferences!ShownIsStored

\* PluginRepository: no late download, and no answer of the server but to an
\* earlier pull, brings a repository of one profile into another's list.
ListsStayApart == which = "plugins" => PluginRepos!ListsStayApart

\* DomBridge: select and find answer what a plain selector names, each once.
SelectIsCss == which = "dom" => ScraperDom!SelectIsCss

\* AppUpdater: what is given to the desktop to install was asked for, and is
\* whole and of the release asked for while no check is answered in between.
HandsOverWhatWasAsked == which = "updates" => Updates!HandsOverWhatWasAsked
=============================================================================
