---------------------------- MODULE LibrarySync ----------------------------
(***************************************************************************)
(* LibrarySyncController (src/systems/authsync) and LibraryStore           *)
(* (src/systems/library): the saved library of one profile, edited through *)
(* the store the pages use and synced through stores built afresh for each *)
(* operation.                                                              *)
(*                                                                         *)
(* Unlike ProgressSync, this controller asks for the cursor with its       *)
(* in-flight slot given back, so another request may join the cursor       *)
(* request on the wire.  The client's finished signal then wakes the       *)
(* lambdas of both with whichever answer arrives, and this is modelled as  *)
(* it is: a reply runs every connected handler, in the order connected.    *)
(*                                                                         *)
(* An item is its key.  A payload's cursor value is left out: the server   *)
(* may answer a delta request with any events whatever the cursor.  Dirty  *)
(* sets fit one batch of 500.                                              *)
(***************************************************************************)
EXTENDS Naturals, FiniteSets, SequencesExt

CONSTANTS Keys, Profiles,
          MaxOpen,      \* bound on open requests when a sync begins
          MaxPages      \* bound on the pages of a snapshot

ASSUME LibraryAssumption == MaxOpen \in Nat /\ MaxPages \in Nat \ {0}

VARIABLES
    disk,       \* library.properties, by profile
    ui,         \* the pages' LibraryStore
    profile, signedIn,
    inFlight, calls, handlers,
    accum,      \* m_snapAccum
    armed       \* m_debounce is active

wireVars == <<inFlight, calls, handlers, accum>>
vars == <<disk, ui, profile, signedIn, wireVars, armed>>

Payload == [items : SUBSET Keys, up : SUBSET Keys, del : SUBSET Keys,
            init : BOOLEAN]

Kinds == {"push", "delete", "page", "cursor", "delta"}

\* The keys a push or a delete request carries.
Call == [kind : Kinds, keys : SUBSET Keys]

\* The keys a handler acknowledges, the deletions its push still has to send,
\* the page it waits for.
Handler == [kind : Kinds, keys : SUBSET Keys, dels : SUBSET Keys,
            page : 1..MaxPages]

TypeOK ==
    /\ disk \in [Profiles -> Payload]
    /\ ui \in Payload
    /\ profile \in Profiles
    /\ signedIn \in BOOLEAN
    /\ inFlight \in Nat
    /\ calls \in Seq(Call)
    /\ handlers \in Seq(Handler)
    /\ accum \in SUBSET Keys
    /\ armed \in BOOLEAN

\* Items saved before the first sync, by this program or the other client.
Init ==
    /\ disk \in [Profiles -> [items : SUBSET Keys, up : {{}}, del : {{}},
                              init : {FALSE}]]
    /\ profile \in Profiles
    /\ ui = disk[profile]
    /\ signedIn = FALSE
    /\ inFlight = 0 /\ calls = <<>> /\ handlers = <<>> /\ accum = {}
    /\ armed = FALSE

-----------------------------------------------------------------------------
(* LibraryStore. *)

\* Mutant of AddItem: the pending deletion of the key stays.
AddItemKeepingTombstone(pay, k) == [pay EXCEPT !.items = @ \cup {k},
                                           !.up = @ \cup {k}]

AddItem(pay, k) == [pay EXCEPT !.items = @ \cup {k}, !.up = @ \cup {k},
                           !.del = @ \ {k}]

RemoveItem(pay, k) == [pay EXCEPT !.items = @ \ {k}, !.up = @ \ {k},
                              !.del = @ \cup {k}]

\* Mutant of MergeSnapshot: pending deletions are not taken out.
MergeSnapshotOverDeletes(pay, snap) ==
    [pay EXCEPT !.items = snap \cup (pay.up \cap @)]

\* finishSnapshotMerge: an empty server and an unmarked library mark every item
\* for a push; otherwise the snapshot replaces the items, pending keys apart.
MergeSnapshot(pay, snap) ==
    IF snap = {} /\ pay.items # {} /\ pay.up = {} /\ pay.del = {}
    THEN [pay EXCEPT !.up = pay.items]
    ELSE [pay EXCEPT !.items = (snap \ pay.del) \cup (pay.up \cap @)]

\* pullLibraryDelta's reply: pending keys are skipped, upserts are applied
\* before deletions.
ApplyDelta(pay, came, gone) ==
    LET free == Keys \ (pay.up \cup pay.del)
    IN  [pay EXCEPT !.items = (@ \cup (came \cap free)) \ (gone \cap free),
                    !.init = @ \/ came \cup gone # {}]

-----------------------------------------------------------------------------
(* The controller's operations, on a context: the payload on disk of the    *)
(* active profile, the slot, the wire.                                      *)

Context == [pay |-> disk[profile], inFlight |-> inFlight, calls |-> calls,
            handlers |-> handlers, accum |-> accum]

Becomes(c) ==
    /\ disk' = [disk EXCEPT ![profile] = c.pay]
    /\ inFlight' = c.inFlight
    /\ calls' = c.calls
    /\ handlers' = c.handlers
    /\ accum' = c.accum

Hook(kind, keys, dels, page) ==
    [kind |-> kind, keys |-> keys, dels |-> dels, page |-> page]

Send(c, kind, keys, handler) ==
    [c EXCEPT !.calls = Append(@, [kind |-> kind, keys |-> keys]),
              !.handlers = Append(@, handler)]

Take(c) == [c EXCEPT !.inFlight = @ + 1]
Give(c) == [c EXCEPT !.inFlight = @ - 1]

FetchPage(c, page) == Send(Take(c), "page", {}, Hook("page", {}, {}, page))

\* The second leg of a push, or its end.
RunDeletes(c, dels) ==
    IF dels = {} THEN Give(c)
                 ELSE Send(c, "delete", dels, Hook("delete", dels, {}, 1))

PushDirty(c) ==
    LET up  == c.pay.up \cap c.pay.items
        del == c.pay.del
    IN  CASE ~signedIn \/ c.inFlight # 0 \/ c.pay.up \cup del = {} -> c
          [] OTHER -> IF up = {} THEN RunDeletes(Take(c), del)
                      ELSE Send(Take(c), "push", up, Hook("push", up, del, 1))

PullDelta(c) ==
    IF ~signedIn \/ c.inFlight # 0 \/ ~c.pay.init
    THEN c
    ELSE Send(Take(c), "delta", {}, Hook("delta", {}, {}, 1))

-----------------------------------------------------------------------------
(* What each handler does with an answer, which may be meant for another.   *)
(* A body of another form parses to nothing, but a page's handler reads the *)
(* events of a delta as rows, those of deletions too.                       *)

WakePage(c, h, a) ==
    LET got == [Give(c) EXCEPT !.accum = @ \cup a.came \cup a.gone]
    IN  CASE ~a.ok -> Give(c)
          [] a.ok /\ a.more /\ h.page < MaxPages ->
                FetchPage(got, h.page + 1)
          [] OTHER -> Send([got EXCEPT !.pay = MergeSnapshot(@, got.accum)],
                           "cursor", {}, Hook("cursor", {}, {}, 1))

\* Mutant of WakeCursor: gives back a slot it did not take.
WakeCursorGiving(c, a) ==
    IF a.ok THEN PullDelta([Give(c) EXCEPT !.pay.init = TRUE]) ELSE Give(c)

WakeCursor(c, a) ==
    IF a.ok THEN PullDelta([c EXCEPT !.pay.init = TRUE]) ELSE c

WakePush(c, h, a) ==
    IF a.ok THEN RunDeletes([c EXCEPT !.pay.up = @ \ h.keys], h.dels)
            ELSE Give(c)

\* Mutant of WakeDelete: a refused deletion keeps the slot.
WakeDeleteHolding(c, h, a) ==
    IF a.ok THEN [Give(c) EXCEPT !.pay.del = @ \ h.keys] ELSE c

WakeDelete(c, h, a) ==
    IF a.ok THEN [Give(c) EXCEPT !.pay.del = @ \ h.keys] ELSE Give(c)

WakeDelta(c, a) ==
    IF a.ok /\ a.kind = "delta"
    THEN [Give(c) EXCEPT !.pay = ApplyDelta(@, a.came, a.gone)]
    ELSE Give(c)

Wake(c, h, a) ==
    CASE h.kind = "page"   -> WakePage(c, h, a)
      [] h.kind = "cursor" -> WakeCursor(c, a)
      [] h.kind = "push"   -> WakePush(c, h, a)
      [] h.kind = "delete" -> WakeDelete(c, h, a)
      [] h.kind = "delta"  -> WakeDelta(c, a)

\* SyncRpcClient::finished: every handler connected when it is emitted runs,
\* each disconnecting itself first; handlers they connect wait for a later one.
Emit(c, a) ==
    FoldLeft(LAMBDA d, h : Wake([d EXCEPT !.handlers = Tail(@)], h, a),
             c, c.handlers)

-----------------------------------------------------------------------------
LocalEdit(pay) ==
    /\ ui' = pay
    /\ disk' = [disk EXCEPT ![profile] = pay]
    /\ armed' = (armed \/ signedIn)
    /\ UNCHANGED <<profile, signedIn, wireVars>>

AddToLibrary(k) == LocalEdit(AddItem(ui, k))

RemoveFromLibrary(k) == k \in ui.items /\ LocalEdit(RemoveItem(ui, k))

\* The store the pages use reloads; it reports a change.
SwitchProfile(p) ==
    /\ p # profile
    /\ profile' = p
    /\ ui' = disk[p]
    /\ armed' = (armed \/ signedIn)
    /\ UNCHANGED <<disk, signedIn, wireVars>>

\* stateChanged with an active session begins a full sync; in the second case
\* its guard refuses it.
SignIn ==
    /\ ~signedIn
    /\ signedIn' = TRUE
    /\ Len(calls) < MaxOpen
    /\ IF inFlight = 0 THEN Becomes(FetchPage([Context EXCEPT !.accum = {}], 1))
                       ELSE UNCHANGED <<disk, wireVars>>
    /\ UNCHANGED <<ui, profile, armed>>

SignOut ==
    /\ signedIn
    /\ signedIn' = FALSE
    /\ UNCHANGED <<disk, ui, profile, wireVars, armed>>

Restart ==
    /\ profile' \in Profiles
    /\ ui' = disk[profile']
    /\ signedIn' = FALSE
    /\ inFlight' = 0 /\ calls' = <<>> /\ handlers' = <<>> /\ accum' = {}
    /\ armed' = FALSE
    /\ UNCHANGED disk

DebounceFires ==
    /\ armed
    /\ armed' = FALSE
    /\ Becomes(PushDirty(Context))
    /\ UNCHANGED <<ui, profile, signedIn>>

\* The server's answers: an error, rows, events; more of them than a page holds.
Answers(kind) ==
    LET answer(oks, mores, cames, gones) ==
            [kind : {kind}, ok : oks, more : mores, came : cames, gone : gones]
        none == {{}}
        full == SUBSET Keys
    IN  answer({FALSE}, {FALSE}, none, none) \cup
        (CASE kind = "page"  -> answer({TRUE}, BOOLEAN, full, none)
           [] kind = "delta" -> answer({TRUE}, BOOLEAN, full, full)
           [] OTHER          -> answer({TRUE}, {FALSE}, none, none))

Reply(i) ==
    /\ i \in DOMAIN calls
    /\ \E a \in Answers(calls[i].kind) :
          Becomes(Emit([Context EXCEPT !.calls = RemoveAt(@, i)], a))
    /\ UNCHANGED <<ui, profile, signedIn, armed>>

Replies == \E i \in DOMAIN calls : Reply(i)

Next ==
    \/ \E k \in Keys : AddToLibrary(k) \/ RemoveFromLibrary(k)
    \/ \E p \in Profiles : SwitchProfile(p)
    \/ SignIn \/ SignOut \/ Restart
    \/ DebounceFires
    \/ Replies

\* Every open request is answered; the timer fires.
Fairness == WF_vars(Replies) /\ WF_vars(DebounceFires)

Spec == Init /\ [][Next]_vars /\ Fairness

-----------------------------------------------------------------------------
(* Properties. *)

\* The marks agree with the items, in the file and in the pages' store: what is
\* to be pushed is there, what is to be deleted is not.  Were it otherwise, a
\* push would drop an edit silently or a snapshot bring back a deleted item.
PendingCoherent ==
    \A pay \in {ui} \cup {disk[p] : p \in Profiles} :
        pay.up \subseteq pay.items /\ pay.del \cap pay.items = {}

\* "delta with pending-wins" (PLAN.md): no answer, in whatever order answers
\* come, brings back an item the user removed or removes one the user added
\* while the mark is pending.
PendingWins ==
    [][calls' # calls =>
         \A k \in disk[profile].up \cup disk[profile].del :
             k \in disk'[profile].items <=> k \in disk[profile].items]_vars

\* The slot always comes free again: a mixed-up answer delays no later sync.
SlotComesFree == []<>(inFlight = 0)

\* "each clears only its own acknowledged keys" (LibrarySyncController.cpp): a
\* mark goes on the successful answer to a request that carried its key.
ClearsOnlyAcknowledged ==
    [][\A i \in DOMAIN calls : Reply(i) =>
         /\ disk[profile].up \ disk'[profile].up \subseteq
                IF calls[i].kind = "push" THEN calls[i].keys ELSE {}
         /\ disk[profile].del \ disk'[profile].del \subseteq
                IF calls[i].kind = "delete" THEN calls[i].keys ELSE {}]_vars
=============================================================================
