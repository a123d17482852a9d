---------------------------- MODULE ProgressSync ----------------------------
(***************************************************************************)
(* ProgressSyncController (src/systems/authsync) together with the two     *)
(* files it shares with WatchRecorder.                                     *)
(*                                                                         *)
(* The controller builds a fresh WatchingStore for every operation, so it  *)
(* reads and writes the disk.  The recorder keeps one WatchingStore for    *)
(* the life of the program; its PropertiesStore reads each file once and   *)
(* afterwards rewrites the whole file from that copy.                      *)
(*                                                                         *)
(* All requests go through one SyncRpcClient, whose finished signal does   *)
(* not say which request it answers: a reply wakes whatever handler is     *)
(* connected.  m_inFlight is what keeps requests and handlers paired.      *)
(* The server answers anything a server may answer; replies are chosen     *)
(* from the sets below.                                                    *)
(***************************************************************************)
EXTENDS WatchPayload, SequencesExt

CONSTANTS Profiles,     \* profile indices
          MaxClock,     \* bound on local writes: one tick each
          MaxPages,     \* the server holds fewer than MaxPages full pages
          PageSize,     \* m_watchPageSize
          DeltaLimit    \* 200 in the code

ASSUME SyncAssumption == /\ MaxClock \in Nat /\ MaxClock <= MaxStamp
                         /\ MaxPages \in Nat /\ PageSize \in Nat \ {0}
                         /\ DeltaLimit \in Nat

VARIABLES
    disk,       \* the two files, by profile
    mem,        \* the recorder's copy of each file ...
    cached,     \* ... once it has been read (PropertiesStore::m_loaded)
    profile,    \* m_profileId, of controller and recorder
    signedIn,   \* m_token() is not empty
    inFlight,   \* m_inFlight
    calls,      \* requests on the wire
    handlers,   \* lambdas connected to SyncRpcClient::finished
    armed,      \* the two debounce timers, by the file they push
    accum,      \* m_watchAccum, newest row per key
    clock       \* local writes so far

storeVars == <<disk, mem, cached>>
slotVars  == <<inFlight, calls, handlers>>
vars == <<disk, mem, cached, profile, signedIn, inFlight, calls, handlers,
          armed, accum, clock>>

Files == {"progress", "watched"}

PushKinds  == {"push", "delete", "watchedPush", "watchedDelete"}
PullKinds  == {"pull", "cursor", "delta",
               "watchedPage", "watchedCursor", "watchedDelta"}
Kinds      == PushKinds \cup PullKinds

\* The profile and cursor of a request are those in its parameters.
Call == [kind : Kinds, profile : Profiles, after : Events]

\* What a handler captured: the dirty keys it will clear, the deletions it
\* still has to send, the page it waits for.  batch and sent are history: all
\* the keys of the push the handler belongs to, and the rows it was built from.
Handler == [kind : Kinds, keys : SUBSET Keys, deletes : SUBSET Keys,
            page : Nat, batch : SUBSET Keys, sent : [Keys -> Rows]]

NoRows == [k \in Keys |-> NoRow]

Plain(kind) == [kind |-> kind, keys |-> {}, deletes |-> {}, page |-> 1,
                batch |-> {}, sent |-> NoRows]

TypeOK ==
    /\ disk \in [Files -> [Profiles -> Payload]]
    /\ mem \in [Files -> [Profiles -> Payload]]
    /\ cached \in [Files -> BOOLEAN]
    /\ profile \in Profiles
    /\ signedIn \in BOOLEAN
    /\ inFlight \in Nat
    /\ calls \in Seq(Call)
    /\ handlers \in Seq(Handler)
    /\ armed \in [Files -> BOOLEAN]
    /\ accum \in [Keys -> Rows]
    /\ clock \in 0..MaxClock

Init ==
    /\ disk = [f \in Files |-> [p \in Profiles |-> EmptyPayload]]
    /\ mem = [f \in Files |-> [p \in Profiles |-> EmptyPayload]]
    /\ cached = [f \in Files |-> FALSE]
    /\ profile \in Profiles
    /\ signedIn = FALSE
    /\ inFlight = 0
    /\ calls = <<>>
    /\ handlers = <<>>
    /\ armed = [f \in Files |-> FALSE]
    /\ accum = NoRows
    /\ clock = 0

-----------------------------------------------------------------------------
(* The slot. *)

\* Connect a handler, send its request, take the slot (++m_inFlight).
Start(call, handler) ==
    /\ inFlight' = inFlight + 1
    /\ calls' = Append(calls, call)
    /\ handlers' = Append(handlers, handler)

Request(kind) == [kind |-> kind, profile |-> profile, after |-> 0]

\* A reply to the request calls[i] disconnects the handler that it wakes.  The
\* slot stays taken when the handler chains another request.
Chain(i, call, handler) ==
    /\ calls' = Append(RemoveAt(calls, i), call)
    /\ handlers' = Append(Tail(handlers), handler)
    /\ UNCHANGED inFlight

Release(i, slot) ==
    /\ calls' = RemoveAt(calls, i)
    /\ handlers' = Tail(handlers)
    /\ inFlight' = slot

\* Mutant of Ready: an entry point forgets to look at the slot.
ReadyWheneverSignedIn == signedIn

Ready == signedIn /\ inFlight = 0

-----------------------------------------------------------------------------
(* Local writes, by the recorder's long-lived store. *)

View(f) == IF cached[f] THEN mem[f] ELSE disk[f]

\* putString on the recorder's copy rewrites the file, every profile of it.
Write(f, pay) == [View(f) EXCEPT ![profile] = pay]

RecorderWrites(f, pay) ==
    /\ disk' = [disk EXCEPT ![f] = Write(f, pay)]
    /\ mem' = [mem EXCEPT ![f] = Write(f, pay)]
    /\ cached' = [cached EXCEPT ![f] = TRUE]

\* onLocalProgressChanged, onWatchedChanged: the timers of the files fs.
Arm(fs) == armed' = [f \in Files |-> armed[f] \/ (signedIn /\ f \in fs)]

Tick == /\ clock < MaxClock
        /\ clock' = clock + 1

LocalVars == <<profile, signedIn, inFlight, calls, handlers, accum>>

\* publishPosition past the hysteresis, endSessionAbandoned.
SavePosition(k) ==
    /\ Tick
    /\ RecorderWrites("progress", Upsert(View("progress")[profile], k, clock'))
    /\ Arm({"progress"})
    /\ UNCHANGED LocalVars

\* endSessionCompleted and markWatched: marked watched, resume row dropped.  An
\* item already marked leaves watched.properties unwritten.
CompleteOrMarkWatched(k) ==
    LET marked == Has(View("watched")[profile], k)
        new == [f \in Files |->
                  IF f = "progress"
                  THEN Write(f, RemoveLocal(View(f)[profile], k))
                  ELSE Write(f, MarkWatched(View(f)[profile], k, clock'))]
    IN  /\ Tick
        /\ disk' = [f \in Files |-> IF f = "watched" /\ marked THEN disk[f]
                                                             ELSE new[f]]
        /\ mem' = new
        /\ cached' = [f \in Files |-> TRUE]
        /\ Arm(Files)
        /\ UNCHANGED LocalVars

UnmarkWatched(k) ==
    /\ Tick
    /\ RecorderWrites("watched", RemoveLocal(View("watched")[profile], k))
    /\ Arm(Files)
    /\ UNCHANGED LocalVars

\* The continue-watching rail and the badges read through the same store.
RecorderReads(f) ==
    /\ ~cached[f]
    /\ cached' = [cached EXCEPT ![f] = TRUE]
    /\ mem' = [mem EXCEPT ![f] = disk[f]]
    /\ UNCHANGED <<disk, armed, clock>>
    /\ UNCHANGED LocalVars

\* activeProfileChanged retargets recorder and controller; the recorder's
\* rebuilt model counts as a local progress change.
SwitchProfile(p) ==
    /\ p # profile
    /\ profile' = p
    /\ Arm({"progress"})
    /\ UNCHANGED <<signedIn, inFlight, calls, handlers, accum, clock>>
    /\ UNCHANGED storeVars

\* AuthService gains or loses the access token the provider returns.
SignInOrOut ==
    /\ signedIn' = ~signedIn
    /\ UNCHANGED <<profile, armed, accum, clock>>
    /\ UNCHANGED <<storeVars, slotVars>>

\* The process ends at any point and is started again: only the files remain.
\* AuthService starts without an access token, whatever it has stored.
Restart ==
    /\ profile' \in Profiles
    /\ signedIn' = FALSE
    /\ mem' = [f \in Files |-> [p \in Profiles |-> EmptyPayload]]
    /\ cached' = [f \in Files |-> FALSE]
    /\ inFlight' = 0
    /\ calls' = <<>>
    /\ handlers' = <<>>
    /\ armed' = [f \in Files |-> FALSE]
    /\ accum' = NoRows
    /\ UNCHANGED <<disk, clock>>

-----------------------------------------------------------------------------
(* Entry points of the controller. *)

Here(f) == disk[f][profile]

\* The dirty keys split into rows to push and absent keys to delete; with no
\* row to push the deletions are sent at once.
PushOrDelete(f, push, delete) ==
    LET dirty   == Here(f).dirty
        present == {k \in dirty : Has(Here(f), k)}
        handler(kind, later) ==
            [kind |-> kind, keys |-> dirty, deletes |-> later, page |-> 1,
             batch |-> dirty, sent |-> Here(f).row]
    IN  IF ~Ready \/ dirty = {}
        THEN UNCHANGED slotVars
        ELSE IF present # {}
             THEN Start(Request(push), handler(push, dirty \ present))
             ELSE Start(Request(delete), handler(delete, {}))

PushDirty        == PushOrDelete("progress", "push", "delete")
PushWatchedDirty == PushOrDelete("watched", "watchedPush", "watchedDelete")

\* A single-shot timer; when the slot is taken its push is not retried.
DebounceFires(f) ==
    /\ armed[f]
    /\ armed' = [armed EXCEPT ![f] = FALSE]
    /\ IF f = "progress" THEN PushDirty ELSE PushWatchedDirty
    /\ UNCHANGED <<profile, signedIn, accum, clock>>
    /\ UNCHANGED storeVars

\* The first pull of a profile fetches everything, later ones the events since
\* the stored cursor.
BeginPull ==
    LET d == Here("progress")
    IN  IF d.init
        THEN Start([kind |-> "delta", profile |-> profile, after |-> d.cursor],
                   Plain("delta"))
        ELSE Start(Request("pull"), Plain("pull"))

BeginWatchedPull ==
    LET d == Here("watched")
    IN  IF d.init
        THEN /\ Start([kind |-> "watchedDelta", profile |-> profile,
                       after |-> d.cursor], Plain("watchedDelta"))
             /\ UNCHANGED accum
        ELSE /\ Start(Request("watchedPage"), Plain("watchedPage"))
             /\ accum' = NoRows

FullSyncThenDeltas ==
    /\ Ready
    /\ BeginPull
    /\ UNCHANGED <<profile, signedIn, armed, accum, clock>>
    /\ UNCHANGED storeVars

FullWatchedSyncThenDeltas ==
    /\ Ready
    /\ BeginWatchedPull
    /\ UNCHANGED <<profile, signedIn, armed, clock>>
    /\ UNCHANGED storeVars

-----------------------------------------------------------------------------
(* Replies.  Handlers write to the profile that is active when they run. *)

ToFile(f, pay) == disk' = [disk EXCEPT ![f][profile] = pay]

\* std::max(m_inFlight - 1, 0)
OneLess == IF inFlight > 0 THEN inFlight - 1 ELSE 0

Woken(kind, i) ==
    /\ i \in DOMAIN calls
    /\ handlers # <<>>
    /\ Head(handlers).kind = kind

ReplyVars == <<mem, cached, profile, signedIn, armed, clock>>

\* Mutants of RequestFails: the slot is never given back; the marks of the
\* failed push are cleared as if it had been acknowledged.
RequestFailsHoldingSlot(i) ==
    /\ i \in DOMAIN calls
    /\ handlers # <<>>
    /\ Release(i, inFlight)
    /\ UNCHANGED <<disk, accum>>
    /\ UNCHANGED ReplyVars

RequestFailsAcknowledged(i) ==
    /\ i \in DOMAIN calls
    /\ handlers # <<>>
    /\ Release(i, 0)
    /\ disk' = [f \in Files |-> [disk[f] EXCEPT ![profile] =
                                    ClearDirty(@, Head(handlers).keys)]]
    /\ UNCHANGED accum
    /\ UNCHANGED ReplyVars

\* The push RPC failed, or its pull answered anything but 200.
RequestFails(i) ==
    /\ i \in DOMAIN calls
    /\ handlers # <<>>
    /\ LET h == Head(handlers)
       IN  /\ Release(i, CASE h.kind \in {"push", "delete"} -> 0
                           [] h.kind \in {"watchedPush", "watchedDelete"} -> OneLess
                           [] OTHER -> inFlight - 1)
           /\ accum' = IF h.kind = "watchedPage" THEN NoRows ELSE accum
    /\ UNCHANGED disk
    /\ UNCHANGED ReplyVars

\* With deletions to send, the delete leg ends the push and clears its own
\* keys only.
PushReply(i) ==
    /\ Woken("push", i)
    /\ LET h == Head(handlers)
       IN  IF h.deletes # {}
           THEN /\ Chain(i, Request("delete"),
                         [h EXCEPT !.kind = "delete", !.keys = h.deletes,
                                   !.deletes = {}])
                /\ UNCHANGED disk
           ELSE /\ ToFile("progress", ClearDirty(Here("progress"), h.keys))
                /\ Release(i, 0)
    /\ UNCHANGED accum
    /\ UNCHANGED ReplyVars

DeleteReply(i) ==
    /\ Woken("delete", i)
    /\ ToFile("progress", ClearDirty(Here("progress"), Head(handlers).keys))
    /\ Release(i, 0)
    /\ UNCHANGED accum
    /\ UNCHANGED ReplyVars

\* Full pull: newest wins, then the cursor is asked for in the same slot.
PullReply(i, rows) ==
    /\ Woken("pull", i)
    /\ ToFile("progress", MergeRows(Here("progress"), rows))
    /\ Chain(i, Request("cursor"), Plain("cursor"))
    /\ UNCHANGED accum
    /\ UNCHANGED ReplyVars

\* A body parseCursor rejects leaves the envelope as it is.
CursorReply(i, f, parsed, c) ==
    /\ Woken(IF f = "progress" THEN "cursor" ELSE "watchedCursor", i)
    /\ IF parsed THEN ToFile(f, SetCursor(Here(f), c)) ELSE UNCHANGED disk
    /\ Release(i, inFlight - 1)
    /\ UNCHANGED accum
    /\ UNCHANGED ReplyVars

\* An event of the server; a stamp of NoRow is a deletion.
Event == [key : Keys, stamp : Rows]

Batches == BoundedSeq(Event, DeltaLimit)

\* The events are applied in the order of the answer; remove marks its key,
\* removeWatchedByContentId does not.
ApplyEvent(f, pay, e) ==
    CASE e.stamp # NoRow -> MergeRow(pay, e.key, e.stamp)
      [] e.stamp = NoRow /\ f = "progress" -> RemoveLocal(pay, e.key)
      [] e.stamp = NoRow /\ f = "watched"  -> RemoveRemote(pay, e.key)

ApplyDelta(f, pay, events) == FoldLeft(LAMBDA d, e : ApplyEvent(f, d, e), pay, events)

Advanced(pay, last) == IF last > 0 THEN SetCursor(pay, last) ELSE pay

\* last is the highest id of the events.
DeltaReply(i, events, last) ==
    /\ Woken("delta", i)
    /\ ToFile("progress", Advanced(ApplyDelta("progress", Here("progress"), events), last))
    /\ Release(i, inFlight - 1)
    /\ UNCHANGED accum
    /\ UNCHANGED ReplyVars

WatchedPushReply(i) ==
    /\ Woken("watchedPush", i)
    /\ LET h == Head(handlers)
       IN  IF h.deletes # {}
           THEN /\ Chain(i, Request("watchedDelete"),
                         [h EXCEPT !.kind = "watchedDelete", !.deletes = {}])
                /\ UNCHANGED disk
           ELSE /\ ToFile("watched", ClearDirty(Here("watched"), h.keys))
                /\ Release(i, OneLess)
    /\ UNCHANGED accum
    /\ UNCHANGED ReplyVars

WatchedDeleteReply(i) ==
    /\ Woken("watchedDelete", i)
    /\ ToFile("watched", ClearDirty(Here("watched"), Head(handlers).keys))
    /\ Release(i, OneLess)
    /\ UNCHANGED accum
    /\ UNCHANGED ReplyVars

\* fetchWatchedPage: a full page asks for the next one, a short page merges
\* what was accumulated and asks for the cursor.
WatchedPageReply(i, rows) ==
    LET count == Cardinality({k \in Keys : rows[k] # NoRow})
        page  == Head(handlers).page
        all   == [k \in Keys |-> IF Newer(accum[k], rows[k]) THEN rows[k]
                                                             ELSE accum[k]]
    IN  /\ Woken("watchedPage", i)
        /\ count <= (IF page < MaxPages THEN PageSize ELSE PageSize - 1)
        /\ IF count >= PageSize
           THEN /\ accum' = all
                /\ Chain(i, Request("watchedPage"),
                         [Plain("watchedPage") EXCEPT !.page = page + 1])
                /\ UNCHANGED disk
           ELSE /\ accum' = NoRows
                /\ ToFile("watched", MergeRows(Here("watched"), all))
                /\ Chain(i, Request("watchedCursor"), Plain("watchedCursor"))
        /\ UNCHANGED ReplyVars

WatchedDeltaReply(i, events, last) ==
    /\ Woken("watchedDelta", i)
    /\ ToFile("watched", Advanced(ApplyDelta("watched", Here("watched"), events), last))
    /\ Release(i, inFlight - 1)
    /\ UNCHANGED accum
    /\ UNCHANGED ReplyVars

-----------------------------------------------------------------------------
\* What the server may answer: any rows, and any events past the cursor asked
\* for, several of them about one key.
Answers == [Keys -> Rows]

PastCursor(i, events, last) == IF events = <<>> THEN last = 0 ELSE last > calls[i].after

Local == \/ \E k \in Keys : \/ SavePosition(k)
                            \/ CompleteOrMarkWatched(k)
                            \/ UnmarkWatched(k)
         \/ \E f \in Files : RecorderReads(f)

Session == \/ SignInOrOut
           \/ Restart
           \/ \E p \in Profiles : SwitchProfile(p)

Pulls == FullSyncThenDeltas \/ FullWatchedSyncThenDeltas

ReplyTo(i) ==
    \/ RequestFails(i)
    \/ PushReply(i)
    \/ DeleteReply(i)
    \/ WatchedPushReply(i)
    \/ WatchedDeleteReply(i)
    \/ \E rows \in Answers : PullReply(i, rows) \/ WatchedPageReply(i, rows)
    \/ \E f \in Files, parsed \in BOOLEAN, c \in Events :
           CursorReply(i, f, parsed, c)
    \/ \E events \in Batches, last \in Events :
           /\ PastCursor(i, events, last)
           /\ \/ DeltaReply(i, events, last)
              \/ WatchedDeltaReply(i, events, last)

Reply == \E i \in DOMAIN calls : ReplyTo(i)

Next == Local \/ Session \/ Pulls \/ Reply \/ \E f \in Files : DebounceFires(f)

\* Timers fire and the network ends every request, which carries no timeout.
\* Nothing is assumed of the user, the session or the startup code.
Fairness == WF_vars(Reply) /\ \A f \in Files : WF_vars(DebounceFires(f))

Spec == Init /\ [][Next]_vars /\ Fairness

-----------------------------------------------------------------------------
(* Properties. *)

\* One request at most is open, the slot counts it, and the one connected
\* lambda is the one written for it: no reply is read by another operation.
SerialSlot ==
    /\ inFlight = Len(calls)
    /\ Len(handlers) = Len(calls)
    /\ Len(calls) <= 1
    /\ \A i \in DOMAIN calls : calls[i].kind = handlers[i].kind

\* The controller keeps the promise of SerialRpc: the cursor is asked for, and
\* the deletions are sent, without giving the slot back, and every operation
\* gives it back in the end.
Follows == {<<"push", "delete">>, <<"pull", "cursor">>,
            <<"watchedPush", "watchedDelete">>,
            <<"watchedPage", "watchedCursor">>}

Rpc == INSTANCE SerialRpc WITH
           slot    <- inFlight,
           wire    <- [i \in DOMAIN calls |-> calls[i].kind],
           awaited <- [i \in DOMAIN handlers |-> handlers[i].kind]

ImplementsSerialRpc == Rpc!SerialSpec

\* A reply never puts an older row over a newer one, whatever the server says,
\* however long the reply took and over how many pages: rows only get newer or
\* are deleted.  An older row may follow where an event of the same answer has
\* deleted the newer one.
Deletes(events, k) == \E j \in DOMAIN events : events[j] = [key |-> k, stamp |-> NoRow]

DeltaDeletes(k) ==
    \E i \in DOMAIN calls, events \in Batches, last \in Events :
        /\ Deletes(events, k)
        /\ DeltaReply(i, events, last) \/ WatchedDeltaReply(i, events, last)

NeverAges ==
    clock' = clock =>
      \A f \in Files, p \in Profiles, k \in Keys :
          \/ disk'[f][p].row[k] >= disk[f][p].row[k]
          \/ disk'[f][p].row[k] = NoRow
          \/ DeltaDeletes(k)

RepliesNeverAge == [][NeverAges]_disk

\* Between two local writes a dirty mark disappears only on the successful
\* answer to a push that was built while the key was dirty.
LeaveByAck ==
    clock' = clock =>
      \A f \in Files, p \in Profiles :
          LET gone == disk[f][p].dirty \ disk'[f][p].dirty
          IN  gone # {} =>
                /\ gone \subseteq Head(handlers).batch
                /\ \E i \in DOMAIN calls :
                       \/ PushReply(i) \/ DeleteReply(i)
                       \/ WatchedPushReply(i) \/ WatchedDeleteReply(i)

MarksLeaveByAck == [][LeaveByAck]_vars

-----------------------------------------------------------------------------
(* What the comments of the code say, and the code does not do.            *)

\* "success clears those dirty marks" (ProgressSyncController.h), the marks of
\* what was sent: a key edited while its push was on the wire stays marked.
SuccessKeepsNewerMarks ==
    [][\A i \in DOMAIN calls : PushReply(i) \/ DeleteReply(i) =>
         \A k \in Here("progress").dirty \ disk'["progress"][profile].dirty :
             Here("progress").row[k] = Head(handlers).sent[k]]_vars
=============================================================================
