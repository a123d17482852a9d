# Verification of Nuvio Linux Qt

TLA+ modules, TLC configurations and TLAPS proofs kept beside the C++/Qt sources
of Nuvio Linux Qt, a media client for Linux.  Paths below are relative to the
repository.  `PROJECT.json` lists the components, the runs, the definition-to-code
map, the hazards, the mutants of each property and the theorems.

Check a model with `tlc -config <run>.cfg <Module>.tla`, a proof with
`tlapm <Module>_proofs.tla`.


## 1. The system

The program is one process with one Qt event loop (plus worker threads inside mpv
and the plugin runtime).  What can interleave are therefore event handlers: user
actions, timers, replies of the network, queued signals, and, in two places, a
nested event loop inside a handler.  Each system lives in `systems/<name>` and is
wired to the others in `app/main.cpp`.

| Component | State | Operations | Talks to |
|---|---|---|---|
| AuthService (`systems/authsync`) | tokens, e-mail, user id in memory and in `auth.properties`; active flag; open requests | sign in, sign up, sign out, restore, refresh, replies | emits `stateChanged`; every sync controller reads `accessToken()` |
| ProgressSyncController | in-flight counter, two debounce timers, page accumulator | push of dirty rows, then of deletions; full pull, pages, cursor, delta | WatchingStore files, SyncRpcClient, WatchRecorder's signals |
| WatchingStore, WatchRecorder (`systems/watching`) | two files of rows with dirty marks and a cursor; the recorder's cached copy | save a position, complete, mark, unmark | PropertiesStore; told by the player |
| LibrarySyncController, LibraryStore | `library.properties`: items, pending upserts and deletes, cursor; the pages' own copy | add, remove; snapshot by pages, cursor, delta, push, delete | SyncRpcClient |
| SyncOrchestrator (`systems/authsync`) | last pushed and skipped signature, in-flight and pull-attempted flags, what other clients own | pull, apply, debounced push of a profile's whole blob | AppSettings and the settings objects of each system |
| CollectionSync-, AddonsSync-, HomeCatalogSync-, ProviderCredsController | in-flight flag, last push or baseline, cached remote document | pull, apply, debounced push of a whole list or of what changed | the stores of `systems/library`, credential stores |
| AddonRegistry, CollectionStore, HomeShelves (`systems/library`) | installed addons and their manifests; collections and an open folder; rows of the home page, queue of fetches | add, remove, enable, reorder; load a folder; load shelves a few at a time | addon servers, sync controllers |
| SyncRpcClient | open requests, connected lambdas | call; one `finished` signal for all | server |
| PlaybackSession (`systems/playback`) | pending item, url of the session, tokens of what it waits for | `requestPlay`, callbacks of each tier | StreamResolver, StreamLinkCache, plugins, DebridResolver, P2pEngine, DownloadManager |
| StreamResolver, StreamLinkCache | answers by item and addon; last link by item | resolve, addon answers; save, get | AddonRegistry |
| P2pEngine, TorrServerProcess (`systems/p2p`) | generation, phase of the server process, timers | start a stream, poll metadata, stop | child process over HTTP |
| DebridResolver, DebridAuth (`systems/debrid`) | token of the current call; device flow, keys by profile | resolve, close, poll, store a key | provider's HTTP API |
| PluginRepository, DomBridge (`systems/plugins`) | repositories and scrapers by profile, refreshes; the page a scraper has loaded | add, refresh, pull, push; select, find | server, QuickJS worker |
| DownloadManager (`systems/downloads`) | rows by profile, running transfers, `.part` and final files | enqueue, pause, resume, cancel, transfer end, retry, profile switch | network, disk |
| ProfileManager (`systems/profiles`) | rows, active profile, PIN cache; one `finished` for all requests | activate, create, delete, lock, unlock, pull | SyncRpcClient; `activeProfileChanged` moves every other system |
| AppSettings, PropertiesStore (`systems/settings`) | properties files, each read once and rewritten whole | get, put | all systems |
| ScrobblePump, TraktScrobbler, SimklScrobbler, TraktAuth, SimklAuth (`systems/tracking`) | what was said last, retries; device flow, tokens by profile | tick, seek, stop, send; connect, poll, refresh, sign out | player; Trakt and Simkl |
| ReleaseNotificationManager (`systems/notifications`) | followed series, what was told, count of open requests | refresh, toggle, switch of profile | LibraryStore, MetaService, `notify-send` |
| AppUpdater (`systems/updater`) | offer, transfer, package in the updates directory | check, download, cancel, install | releases feed, disk, desktop |
| Membership, metadata services, trailer, deep links, integrations, diagnostics, player, UI | caches and views | — | see `PROJECT.json` |

What is hard here, and what makes each component correct:

* **One signal for all requests.**  `SyncRpcClient::finished` does not say which
  request it answers.  A controller is right only if it never has two requests
  open, or if waking the wrong lambda does no harm.
* **A reply meets newer local state.**  The user edits rows, switches profile or
  signs out while a request is open.  A reply must not age a row, drop a mark that
  was never sent, or overrule a pending edit.
* **Slots must come free.**  Every controller guards itself with an in-flight
  counter; one error path that forgets to give it back stops syncing silently.
* **Two stores on one file.**  Stores cache files and rewrite them whole.
* **Identities are stored field by field** and a process can die in between.
* **Superseded clicks.**  Every tier of playback answers late; an answer must be
  recognised as belonging to an earlier click, and a click must not get lost.
* **Nested event loops.**  `P2pEngine::startStream` waits inside the call;
  `QNetworkReply::abort` emits `finished` inside the call.
* **One profile, many objects.**  `activeProfileChanged` reaches the systems one
  after the other, while their requests for the former profile are open.
* **Whole documents.**  Blobs, lists and catalogs are pushed whole, so that what
  another client wrote must have been received first, for the same profile.
* **Transfers and rows** must stay paired through pauses, replacements, retries,
  profile switches and deaths.


## 2. The modules

| Module | Models | State and actions |
|---|---|---|
| `WatchPayload` | one profile's record in `watch_progress.properties` or `watched.properties` | pure operators, one per operation of `WatchingStore`; a row is its stamp |
| `ProgressSync` | `ProgressSyncController`, the recorder's local writes, the two files | `disk`/`mem`/`cached` are the files and the recorder's copy; `inFlight`, `calls`, `handlers` the slot, the wire and the connected lambdas; one action per entry point, timer and reply handler |
| `SerialRpc` | the abstract promise to the RPC client: one request at a time, chained requests keep the slot, the slot is given back | refined by `ProgressSync` (`ImplementsSerialRpc`) |
| `AuthSession` | `AuthService` and `auth.properties` | `SignIn`, `SignUp`, `SignOut`, the replies, `Relaunch`, `CrashWhileStoring` and `CrashWhileClearing` (n of four writes, or removals, done) |
| `SessionSync` | composition of the two as `main.cpp` wires them | each step is a step of one of them; a session change also runs the startup listener |
| `MCSessionSync` | its instance for TLC: accounts and profiles are symmetric | |
| `LibrarySync` | `LibrarySyncController` and `LibraryStore` | `Wake*` is what each lambda does with an answer, possibly another request's; `Emit` wakes all connected lambdas in order |
| `PlaySession` | `PlaybackSession`, `StreamResolver`, `StreamLinkCache`, with debrid and P2P engine by what they promise | one action per click outcome, per callback; `frames` is the stack of `startStream` calls that wait in the nested loop |
| `Downloads` | `DownloadManager` | rows, transfers (with the attempt captured by the reply's lambda), forgotten replies, files |
| `AddonsSync` | `AddonRegistry`, `AddonStore`, `AddonsSyncController` | list, enabled flags, manifests and their fetches; pull and full push |
| `CollectionSync` | `CollectionStore`, `CollectionSyncController` | collections in the file, in the pages and on the server; the replies of an open folder |
| `HomeCatalogSync` | `HomeCatalogSyncController`, `HomeCatalogSync` | the server's document with keys of other clients, its cached copy, the gate of a complete pull |
| `CredsSync` | `ProviderCredsController` | local values, server rows, baseline of the last exchange |
| `SettingsSync` | `SyncOrchestrator` | blobs of three kinds of feature; pull, refused pull, debounced push, signatures |
| `HomeShelves` | `HomeShelves`, `HomeCatalogSettings` | rows in file, payload and list; queue, slots, open requests |
| `Profiles` | `ProfileManager`, `ProfileStore` | rows, PINs, what there is of a session: `restored` has the user id without the token; `handlers` are the lambdas that one answer wakes |
| `DeviceAuth` | `TraktAuth`, `SimklAuth`, `DebridAuth` | one flow, its polls and timers, refreshes, keys by profile |
| `DebridLinks` | `DebridResolver`, `DebridFileSelect` | chain of requests of each call, answers of each call, the file chosen |
| `Scrobbles` | `ScrobblePump`, `TrackingRegistry`, both scrobblers | what the pump keeps between ticks, throttle, sends and retries |
| `TorrServer` | `P2pEngine`, `TorrServerProcess` | phase of the child process, generations with connections and queued signals, nested waits |
| `AppSettings` | `AppSettings` over `PropertiesStore` | one setting of any kind: raw value, older key, what a page shows |
| `Plugins` | `PluginRepository` | repositories and scrapers by profile, fetches of a refresh, pulls and pushes on one signal |
| `DomSelect` | `DomBridge`'s selectors | a page, a selector as the code cuts it into groups and compounds, the answer as the code computes it level by level |
| `ReleaseAlerts` | `ReleaseNotificationManager` | followed series, backlog, open requests of refreshes old and new |
| `Updater` | `AppUpdater` | a check and a transfer under way together, the file, the hand-over |
| `AppServices` | composition of the sixteen modules above | see below |
| `ProgressSync_proofs`, `SessionSync_proofs`, `LibrarySync_proofs`, `PlaySession_proofs`, `Downloads_proofs`, `AppServices_proofs`, `ServiceLists_proofs` | — | theorems, see section 5 |
| `InductionLemmas` | — | induction over the natural numbers in a form the provers can use, and what it says of folds |

`AppServices` composes the sixteen services with `INSTANCE`.  They write no state of
each other, and what moves them all, the session and the active profile, changes at
any time in each of them.  So a behaviour of `AppServices` is that of one service,
`which`, chosen at the start, and the variables of the others stay `Off`: nothing is
lost to a property of one service, and the product of independent state spaces is
not explored.  Where one object's order of events depends on another, the order
is in the module: a switch of profile moves the library before the release
alerts (`ReleaseAlerts`, `main.cpp:871` and `:888`).  Variables that record history for
a property only (`confused`, `miscounted`, `mixed`, `moved`, `fromLegacy`, `requested`,
`owned`, `lastWord`, `handed`) are read by no guard.

Abstractions used throughout.  A row, an item, a file is its key plus what the
properties tell apart (a stamp, a status).  JSON is modelled by what parsing it
gives, including that the wrong body parses to nothing where a handler may get
one.  The server may answer a request with an error or with any rows and events,
not only with those that were pushed.  Deaths are steps that keep the files and
reset the rest.  `DownloadManager::setProfileId` has undefined behaviour when
transfers run; `SwitchUnderTransfers` is a choice over what can come of it.

Operators described as mutants are what the code would be with a plausible
mistake.  No next-state relation uses them; each property is shown to fail
when the named definition is replaced by its mutant.


## 3. The runs

All runs finish within four minutes on two workers.

| Run | Shows | Bounds |
|---|---|---|
| `ProgressSync` | `SerialSlot`; `MarksLeaveByAck` | two profiles, one key, one local write, deltas without events |
| `ProgressSync_rows` | types; `RepliesNeverAge`; the refinement of `SerialRpc` with its liveness | one key, two stamps, two local writes, three pages of one row, deltas of two ordered events; one profile |
| `SessionSync` | `PermissionIsSession`, `RestartKeepsSession`, `HeldIsStored` | two accounts, two open auth requests; one watch key |
| `LibrarySync` | `PendingCoherent`, `PendingWins`, `SlotComesFree` | one key, two profiles, snapshots of two pages, two open requests |
| `PlaySession` | `CacheHoldsLastingLinks`, `NothingLost` | two items, one addon, three clicks, three streams; 4.4 M distinct states |
| `PlaySession_clicks` | `ClicksAreAnswered` | one item clicked twice, two addons |
| `Downloads` | `TransfersMatchRows`, `OneDownloadPerTitle`, `PartsCanBeResumed`, `TransfersEnd` | two titles, two profiles, two downloads started; the safety part was also run with three |
| `AppServices` | the sixteen properties of the services, and their types | per service below; 2.3 M distinct states |
| `ProgressSync_newer`, `AuthSession_token`, `LibrarySync_ack`, `PlaySession_title` | divergences, section 6 | |

Why the bounds are enough.  The conflicts of sync are between one reply and one
local write of the same key.  Two stamps distinguish older from newer.  Two pages with a
full first one make the accumulator carry rows over a reply, the watched ones too; a delta
of two events can name one key twice, or bring a row and its deletion in either order.  Two profiles suffice for "the other
profile"; in progress sync they fit only beside one key and one local write, which is what
`ProgressSync` has.  What its two runs leave out rests on the theorems, which hold for any
keys, profiles and clock: that a switch of profile under an open request ages no row on
`NoReplyAges`, that an acknowledgement drops the marks of its own push and not those of
another key edited meanwhile on `NoMarkIsLost`, and a push of rows that is followed by one
of deletions on `SlotImplementsSerialRpc`.  Two open requests give every pair of crossed answers.  In playback two
items give one superseded click; the third click comes back to the first item.
Three streams let two nested `startStream` calls return in the wrong order.  Two
downloads give a replacement of a title and a row beside it; the three attempts
are the code's own bound.

Bounds of `AppServices`, chosen per service.  Two profiles throughout, so that every
reply can meet the other one.  Addons: one url, shown at most once by an add;
with two urls the list's order multiplies the states and no new conflict
comes.  Collections: two, one source each, two folders opened, one edit.  Home
catalog, profiles: one account and signed out; that several accounts stay apart rests on
`KeysReturn` and on `FileIsWhatIsShown`.  Two values, so that a merge differs from both sides.  Credentials and
settings blob: one value beside none, which tells "cleared" from "never set".  Shelves: two,
with `kMaxInFlight` 1 (the code has 4), the smallest where a shelf must wait.
Profile rows: two, two open calls, which wake each other's handlers.  Flows: two
requests under way, an outdated one and its successor.  Debrid: two calls, so that
the first is superseded in each of its steps.  Scrobbles: two items, two places
before the end, two attempts of a stop (the code has 3) and two sends.  Streams:
four generations, so that a superseded one lies between two others; one metadata
attempt (15 in the code) suffices for giving up.  Plugins: one manifest under way,
two calls open.  Selectors: every tree of three elements against every selector of one or two
compounds, stray `>` and invalid compounds among them, alone or with a second group of one.  Alerts: two
series with one slot (the code has 4) and two open requests.  Updater: two newer releases.

Deadlock checking is switched off in all runs: clocks, clicks and ids are
bounded, and a signed-out program without open requests rests.

### Fairness

* Progress and library sync: every open request is answered, with an error if need
  be, and timers fire.  `SyncRpcClient` sets no transfer timeout, so the first is an
  assumption on the network: a server that stalls holds the slot and stops syncing
  until the program is restarted.  Nothing is assumed of the user, the session or startup code.
* Playback: requests of addons and debrid carry no timeout in the code; that they
  end is an assumption on the network.  Scrapers run under a deadline, the torrent
  engine gives up after a number of metadata attempts, calls return, and queued signals are
  delivered.  `ClicksAreAnswered` further assumes that debrid does not fail for
  ever, because the session asks it again each time (section 6).
* Downloads: transfers end.  The code sets no transfer timeout, so this too is an
  assumption on the network; a server that stalls leaves a row Downloading.


## 4. The properties

* `SerialSlot`: one open request, counted by the slot, and the connected lambda is
  the one written for it.  This is the reason why the unnamed `finished` signal is
  safe for this controller.
* `ImplementsSerialRpc`: the same as a protocol, with chained requests, and that
  the slot is always given back.
* `MarksLeaveByAck`: between two local writes a dirty mark goes only on the
  successful answer to a push that was built while the key was dirty.
* `RepliesNeverAge`: no reply replaces a row by an older one.
* `RestartKeepsSession`, `HeldIsStored`, `PermissionIsSession`: a restart restores
  the session that was there and no other, a death between the writes of a reply
  loses none, memory and file agree under a token, and a controller talks to the
  server in a session only.  Nothing is said of what a torn write leaves: section 6.
* `PendingCoherent`, `PendingWins`: pending marks and items agree in the file and in
  the pages' copy, and no answer overrules a pending edit, even when answers wake
  each other's handlers.
* `SlotComesFree`: crossed answers never lose the slot for good.
* `NothingLost`: a click without an answer has a request underway, or is stranded in
  one of two ways the code has (`Stranded`): the set of addons changed after they
  were asked, or a nested `startStream` returned after a later one and overwrote
  its token.
* `ClicksAreAnswered`: the liveness counterpart.
* `CacheHoldsLastingLinks`: the reuse cache holds under an item a link to that item
  that does not expire.
* `TransfersMatchRows`, `OneDownloadPerTitle`, `PartsCanBeResumed`, `TransfersEnd`:
  what is shown as downloading is what is transferred, once; titles are unique;
  no `.part` file is left behind; no transfer goes on for ever.

Of the services:

* `InstalledIsShown`: list and file of the addons go separate ways through edits, late
  manifests and late pulls; what is installed is in the list, which is what is pushed.
* `ItemsOfOneFolder`: no late answer is mixed into a folder opened later.
* `KeysReturnToTheirOwner`: other clients' keys are sent back only to the user and the profile
  they came from.
* `ReceivedIsSentBack`: a push that drops what other clients own is one of a client that
  has never received it.
* `LoadingGoesOn`: a shelf waits only while every slot is in use, and every slot in
  use has its reply; a refresh of the release alerts that is loading has the
  requests it counts.  The exception `miscounted` is the code's: section 6.
* `OffStaysOff`: a shelf turned off is not turned on by stale rows.
* `FileFollowsManager`, `MovesAreAnnounced`: several handlers run on one answer, edits are made
  in the file where there is no token, and still file and manager agree for the account,
  and the objects bound to a profile end where it does.  A change of the session and a
  restart move the profile without telling: section 6.
* `FlowsKeepToThemselves`: one device flow polls at a time; Simkl's tokens stay with
  the profile that asked for them.  Trakt and debrid have other requests, for which
  this does not hold (section 6), so the second half is about Simkl.
* `OneAnswerPerCall`: the last call of the resolver has one answer or one request, the calls
  before it at most one answer.  Which file is taken is modelled, substring match and all,
  but no property promises that it is the episode: section 6.
* `LastWordIsKept`: the throttle drops only repetitions.  It says nothing of whether a request
  succeeds.
* `StreamsAreAnswered`: whoever waits for a stream waits for something that comes, which may
  be the address of a server that died.
* `ShownIsStored`: a settings page shows what is stored.  Exceptions: the profile moved without
  a signal (`moved`), or what is shown was read from an older key (`fromLegacy`).
* `ListsStayApart`: no late download brings one profile's repositories into another's
  list.  Exception `mixed`: a pull was handed an earlier pull's rows.
* `SelectIsCss`: no element is answered twice, and the answer to a plain selector, one whose
  groups are valid and keep their `>`, is its definition by chains of elements.  What the
  parser makes of other selectors is in the model; that it is not CSS: section 6.
* `HandsOverWhatWasAsked`: what is installed was asked for; it is whole and the release of
  the button unless `confused`: since this download was asked for, a check found a release
  while it was transferred or kept, or the transfer had no body or no length.  The next
  download begins anew.

The named exceptions are history variables that tell how the code gets there;
outside them the properties hold in every state.


## 5. The proofs

Every theorem holds for all values of the constants allowed by the named
assumptions, which TLC evaluates in the runs.  They say

* of bounds and the code's own constants (`kMaxInFlight`, `kMaxStopAttempts`, ...), that they
  are natural numbers, those that count something there must be at least one; that the
  clock stays within the stamps; that the bound on metadata requests leaves room for
  `kFetchConcurrency` of them; that a page of the library is not empty;
* of names, that None is no profile, no word of the pump and nothing else it stands
  beside, that there is a profile, and that the empty string is no account and no item;
* of sets that the code keeps in lists, that they are finite: addons, repository urls,
  shelves, series, the ids of collections.

**`ProgressSync_proofs`** proves `Spec => []TypeOK` and `Spec => []SerialSlot`.  The
inductive invariant is their conjunction: that a reply releases the slot to 0 needs
that one request was open, and that `Head(handlers)` is the awaited lambda needs
the types of the sequences.  One lemma for each of `Start`, `Chain`, `Release`; then
one per action.  On it rest three more theorems:

* `SlotImplementsSerialRpc`, the safety half of the refinement: each step takes the
  slot, chains a request on it, frees it, empties it or leaves it alone (`SlotStep`),
  and each of these is a step of `SerialRpc` or a stutter.
* `NoReplyAges` (`RepliesNeverAge`): `ReplyWrites` lists what a reply may write, and none
  of these writes makes a row older, since each compares stamps with the row on disk at
  the time of the answer.
* `NoMarkIsLost` (`MarksLeaveByAck`): the invariant adds `BatchOK`, that the keys the
  connected handler clears, now or after its deletions, are keys of its push.

**`InductionLemmas`**.  The library's induction theorems take an operator, which the provers
cannot instantiate.  `NatSetInduction` takes a set instead, and is proved from the
pigeonhole principle for finite sets: were some x missing from the set, n |-> n - 1 would
map the missing numbers up to x one to one into themselves without reaching x.  A loop of
the code is a `FoldLeft` in the models, whose definition chooses a function on sets of
places.  `FoldOverExists` says that there is such a function, so that the one chosen is one;
`FoldReaches`, that what holds before the first step of a fold and is kept by each holds after
the last.

**`LibrarySync_proofs`** proves `TypeOK`, `PendingCoherent` and `PendingWins`.  One answer
wakes every connected lambda, in order, and each may store, send, connect and
disconnect; `Emit` is the fold over them.  Its invariant is about the state in the middle of
an answer: of the lambdas still to run and those just connected, at most one holds the slot
(`Slot`, `SlotIsHeld`; the cursor's never does), so that no answer to another request lets two chains
go on; items and marks agree in every file and in the pages' copy; and what a profile
had pending when the answer came is pending still, or is covered by a push that was
acknowledged.  Each lambda keeps this (`WakeKeeps`), whichever answer it is handed, hence
so does the fold (`EmitKeeps`).

**`SessionSync_proofs`** proves `AuthTypeOK`, `RestartKeepsSession`, `HeldIsStored`
and `PermissionIsSession` for the composition, and the invariant of `AuthSession`
on its own.  `RestartKeepsSession` is not inductive: a reply that brings some
fields must leave a stored refresh token wherever it leaves an access token.  The
invariant therefore adds `TokensArePaired` (an access token comes with a refresh
token and an active session), and `HeldIsStored`, from which it follows that a
reply without a token stores what was stored.  A death between two writes starts
from an identity that may be torn; `StartsWithKeeps` shows that any identity on
disk is a good start.  The composition is split by `SyncsLeavePermission`: no step of the
controller changes the session.

**`PlaySession_proofs`** proves `CacheHoldsLastingLinks`.  The invariant keeps it with the
types of the cache, of what is pending and of what debrid was asked.  Every step is
shown to save a link to an item under that item, to forget one, or to leave the
cache alone (`CacheStep`); the interesting case is a debrid answer, which is saved
under the pending item and is right only because it was asked for that item.
`TypeCorrect` (`TypeOK`) and `NoClickIsLost` (`NothingLost`) rest on `LossInv`.  `NothingLost`
is not inductive: an excuse it allows, that the addons changed, may go away while the
tiers have already been consulted.  `LossInv` lets it count only before that, and adds
`FramesOK`: the nested calls of `startStream` hold later and later tokens, while the
current one is among them the engine owes its answer, and every queued signal is of a
generation there has been.

**`Downloads_proofs`** proves `TypeOK`, `TransfersMatchRows` and
`OneDownloadPerTitle`.  The invariant `IInv` adds to them that the ids of a list are
distinct and at most `lastId`: a replacement takes out rows by title and transfers
by id, so rows and transfers stay matched only if neither occurs twice, and this is
kept only if a new id is new.  `NoPartIsLeft` (`PartsCanBeResumed`) follows from `IInv`:
an active transfer has a row that can be resumed, and each step that takes such a row
out takes its .part file with it.

**`AppServices_proofs`** proves ten properties of the services for any number of
profiles, users, shelves, items, releases and calls.  Each proof shows that the invariant
of one service holds whenever that service runs.  None of the properties is inductive:

* `HandsOverWhatWasAsked` rests on `UpdaterInv`: once the path is set this run has emptied the
  directory, so that a package there was asked for by this run; and unless
  `confused` the offer is what is being, or has been, transferred.
* `OneAnswerPerCall` rests on `LinkInv`: every open step belongs to a call
  that has been made, and the last call is either answered with no step left or has exactly one.  Counting the steps of a call needs facts about
  cardinalities of sets that differ in one element, stated as lemmas.
* `FlowsKeepToThemselves` rests on `AuthInv`: at most one request belongs to the current
  flow, and it was asked by the active profile, because every switch outdates it.
* `KeysReturnToTheirOwner` rests on `CatalogInv`: the cached document belongs to
  `pullComplete`, and an open push was built from it for that owner.
* `ReceivedIsSentBack` rests on `BlobInv`: an open push carries what its profile has received,
  until it is answered.  This needs that a pull cannot be answered while a push is open.
* `ShownIsStored` rests on `PrefInv`, `ItemsOfOneFolder` on `FolderInv`.
* `OffStaysOff` rests on `ShelfInv`: what is off in the active profile's file is off
  in the payload too, which is what is written back.
* `StreamsAreAnswered` rests on `StreamInv`: the idle timer runs only while no stream waits, and
  an unanswered stream that waits for the server is connected to its signals, which reach
  every connection.
* `ListsStayApart` rests on `PluginInv`: a download that still counts asks for an url of the
  active profile, since every switch outdates the ones before.

* What these invariants leave out of the services' `TypeOK` follows at the end, one lemma
  for each service.  Of the torrent server it needs that a queued signal is of a generation
  there has been, and that metadata is asked for only once there is one.

**`ServiceLists_proofs`** goes on with the services whose lists and counts matter.

* `LastWordIsKept` rests on `WordInv`: told one word, a scrobbler's memory agrees with it, also
  when it is a repetition that the throttle drops; the words of a tick are a fold of that.
* `FileFollowsManager`, `MovesAreAnnounced` rest on `ManagerInv`: each function connected to
  `finished` leaves file and manager agreeing, and the active profile where it was or
  announced (`Settled`); one answer is the fold over those connected.  An edit without a token
  writes the file it changes the manager by.
* `InstalledIsShown` rests on `AddonsInv`, which holds for lists of any length: what an
  operation takes out of the rows it takes out of the installed urls, and what it
  puts in gets a row, a placeholder if need be.
* `LoadingGoesOn`: `LoadInv` counts the slots in use as the number of open replies, over all
  shelves, so that a free slot and a shelf that waits cannot be there together; a superseded
  fetch keeps its slot until its reply.  `AlertInv` counts the requests of a refresh as
  those begun since it started.
* `SelectIsCss` rests on what each combinator adds to a set of elements: the fold over the
  compounds of a group keeps that the elements reached are the ends of chains that
  match the compounds so far, on a page of any size, and the fold over the groups that no
  element is answered twice.
* `TypeOK` (`ServicesTypeCorrect`) puts the services together.  The invariant of the
  collections says in addition that no list of them, saved, shown, sent or on the
  server, names an id twice: a list is edited, moved and reduced by id.

Only model-checked: liveness (`TransfersEnd`, `SlotComesFree`, `ClicksAreAnswered`, and the second
half of `ImplementsSerialRpc`), which is out of the prover's reach.  Every invariant and
every action property of the passing runs is proved.


## 6. Where the code and its comments disagree

With a run that shows it:

* **A newer edit's mark is cleared** (`ProgressSync_newer`).  The push handler clears
  the keys captured when the push was built, also one edited since
  (`ProgressSyncController.cpp:104`).
* **A restored session has no token** (`AuthSession_token`).  `restoreSession` makes the
  session active without loading the tokens (`AuthService.cpp:57`); the controllers
  take the user for signed out.
* **Marks cleared without acknowledgement** (`LibrarySync_ack`).  The cursor request is sent
  with the slot given back (`LibrarySyncController.cpp:231`).
* **The wrong title is played** (`PlaySession_title`).  A relay that becomes ready after
  another click is taken for that click (`PlaybackSession.cpp:54`).

Seen while modelling, part of the models as the code has it, without a run:

* Watch progress: the recorder's cached copy of a file rolls back cursor and marks
  that the controller stored (`PropertiesStore.cpp:311`; `WatchingStore.h:65-66` says
  they must be preserved); deletions from the server are marked for another push
  (`ProgressSyncController.cpp:215`); when both legs of a push are sent, the second
  clears only the deleted keys' marks; replies are written to the profile switched to.
* Startup: the two pulls are called in a row and share a slot, so the watched pull
  is refused (`main.cpp:841-842`); the listener reads a local variable of a block
  that has been left.
* Auth: the fields of an identity are written and removed one by one: a death in the middle of
  a reply may leave the token of one account with the e-mail of another, which the next
  start restores; a death in the middle of a sign-out may leave the refresh token alone,
  and the next start signs in with it (`AuthService.cpp:61-64`, `:189-192`).  `m_email` is assigned before `setSession` compares it, so a change of account
  under an active session is not announced; a pending sign-up's answer overwrites
  another session's e-mail; an answer that arrives after a sign-out signs in again.
* Library: a push sends 500 rows at most and clears every mark; the pages' store
  never reloads what the controller wrote and writes it over; upserts of a delta are
  applied before its deletions whatever their order.
* Playback: a failure of debrid asks debrid again as long as a provider is set up
  (`PlaybackSession.cpp:109`; the header says it falls through to the torrent
  engine); two clicks before the first answer give two terminal signals; an addon
  installed during a resolution strands the click; cached links are not kept by profile.
* Downloads: a reply's body is never written to the `.part` file, so a completed
  download is an empty file, no `Range` is ever sent and status 416 cannot occur;
  `setProfileId` under running transfers aborts inside its own loop
  (`DownloadManager.cpp:270`), reads freed memory and may leave a retry running for
  the old profile, whose handler may later complete another transfer of its row.
* Settings blob: an edit made while a request is open is not pushed afterwards
  (`SyncOrchestrator.cpp:321` drops it); a pull refused for want of a session opens the
  gate as well (`:56`), so that an edit made signed out may be pushed before any pull.
* Addons: a late pull's rows are applied to the profile that is active by then
  (`AddonsSyncController.cpp:69`); `rebuildRow` writes to a copy out of a const map and loses
  the enabled flag (`AddonRegistry.cpp:118`).
* Profiles: two pulls at startup share one signal and each answer runs both handlers; after
  a restart the user id is known and the token is not (`ProfileManager.h:87`), so that pulls send
  nothing, edits are called those of nobody (`ProfileManager.cpp:315`) and are yet written
  under the account, and the next pull replaces them; a change of
  the session moves the active profile without telling (`ActiveProfile.h:13-15`).
* Device flows: the reply to a refresh or to a key's test is stored under the profile
  active by then; a poll that is lost leaves the flow active with nothing under way.
* Debrid: the file of an episode is found by a pattern its name contains, so that for season 1,
  episode 1 a file named `1x10` is taken when it comes first (`DebridFileSelect.cpp:55-56`, `:77-83`).
* Scrobbles: a stop that is retried may be sent after the start that followed it (`TraktScrobble.cpp:174`).
* Torrent server: the kill timer of an earlier stop may end a process started since
  (`TorrServerProcess.cpp:194`); a process that dies while running is not noticed (`:99`);
  nothing calls `stopStream`, so that the idle stop described at `P2pEngine.h:18-20` never
  starts and the server stays (the model lets it be called at any time).
* Files: `PropertiesStore.cpp:516-521` does not look at what `write` returns before it renames.
* Settings: a comment says that older keys are left in place and never destroyed
  (`AppSettings.cpp:64-67`); the migration removes it (`:153`).
* Plugins: the answer to a push may be taken for the empty list of a pull, which wipes the local
  repositories (`PluginRepository.cpp:493-566`); a refresh forgets which scrapers
  were off (`:645`, `:651`); a repository removed during its refresh is added
  again (`:885`); a pull drops open fetches by its token and leaves rows refreshing (`:491`, `:728`);
  a code file that cannot be fetched drops its scraper (`:850`).
* Scraper pages: jobs queued by a script are drained without the deadline of `PluginRuntime.h`
  (`JsEngine.cpp:166-170`).  A `>` before the first compound of a
  group or after the last is dropped (`DomBridge.cpp:186-194`), so that `find("> li")` answers every
  descendant; a selector is cut at each comma and blank, also inside `:contains()` and the value
  of an attribute (`:181-185`, `:381`).  A group that is not valid is passed over and the others are
  answered (`:388`), where `DomBridge.h:46-47` says `[]` on any failure.  Handles are said to come in
  document order (`DomBridge.h:23`): they come group by group, and under a child combinator
  parent by parent.
* Release alerts: a reply of an earlier refresh lowers the count of the running one
  (`ReleaseNotifications.cpp:403`); a start binds the alerts to profile 1 until the profile moves
  (`main.cpp:650`; the model lets a restart bind them to any); on a switch of profile the library moves first, and the new
  profile's series are written into the former one's row (`main.cpp:871`, `:888`).
* Updater: a check during a download makes the page forget it; a second download aborts the
  first inside itself and then uses a null pointer (`AppUpdater.cpp:184-186`); an answer
  without a body leaves an earlier file to be installed; after a later check the banner names a
  newer release than the file.


## 7. Not modelled

* Codecs, parsers and formatters (JSON of rows and blobs, escaping of properties files,
  stream templates, versions, dates, urls of the torrent server): conversions
  without state.  The models take their results as inputs or opaque values.
* `CatalogService`, `MetaService`, cloud library, membership, metadata services, trailers, skip segments:
  a request that fills the page or cache that asks.
* Next-episode rules, track selection, the completion threshold: pure choices over one
  title's data; no other state depends on them.
* The player (libmpv, OpenGL), the JavaScript host and its cryptography, the QML pages,
  desktop integrations, crash reports: output, or libraries behind one call.
* In `DeviceAuth` one variable stands for the active profile and the one each object was
  given.  They differ from a start, when the file's profile is loaded without telling, to the
  next switch.
* Unmodelled parts of modelled components are named in the notes of `PROJECT.json`:
  a push of more than 500 rows, names and colours of profiles, the percentage of a transfer.
* Vendored code and packaging.


## 8. The plan

Done, in this order: progress sync with its abstract protocol; session and the
composition with it; library sync; playback session; downloads; their proofs; then the
sync of settings, addons, collections, catalogs and credentials; shelves, profiles, device
flows, debrid links, scrobbles, torrent server, preferences, plugins, selectors, release alerts and
updater, composed in `AppServices`; the proofs about them; induction for folds, and with it
the proofs about `LibrarySync` and about the lists and counts of the services.

What would come next, most important first:

1. `PlaySession`'s torrent engine as an abstraction of `TorrServer`, shown by refinement.
2. The next-episode rules, the version order and the order of the continue-watching rail as
   operators checked against reference definitions.
