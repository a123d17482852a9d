----------------------------- MODULE HomeShelves -----------------------------
(***************************************************************************)
(* HomeShelves over HomeCatalogSettingsStore: the shelves of the home page, *)
(* their settings and the fetches that fill them.                          *)
(*                                                                         *)
(* A shelf is the key of a catalog.  Of its settings the model keeps        *)
(* whether there is a row and whether it is on; titles, the order and the   *)
(* hero flags only change what is drawn, so the queue is a set.  Rows of   *)
(* collections, which every operation keeps as they are, are left out.     *)
(***************************************************************************)
EXTENDS Naturals, FiniteSets

CONSTANTS Profiles, Shelves,
          kMaxInFlight,   \* 4 in the code
          MaxOpen         \* bound on the replies under way for one shelf

VARIABLES
    profile,
    defs,       \* m_defs: the shelves of the addons that are enabled
    savedRows,     \* the rows of each profile's file: "none", "on" or "off"
    payload,    \* m_payload.items
    shelfRows,  \* m_rows, in the same terms
    data,       \* m_data: "none", "idle", "fetching" or "done"
    queue, pending,
    open        \* the replies under way, of each shelf

shelfVars == <<defs, savedRows, payload, shelfRows, data, queue, pending, open>>
vars == <<profile, shelfVars>>

RowStates == {"none", "on", "off"}

TypeOK ==
    /\ profile \in Profiles /\ defs \subseteq Shelves
    /\ savedRows \in [Profiles -> [Shelves -> RowStates]]
    /\ payload \in [Shelves -> RowStates] /\ shelfRows \in [Shelves -> RowStates]
    /\ data \in [Shelves -> {"none", "idle", "fetching", "done"}]
    /\ queue \subseteq Shelves /\ pending \in 0..kMaxInFlight
    /\ open \in [Shelves -> 0..MaxOpen]

Live(rows) == {k \in Shelves : rows[k] = "on"}

\* reconcile: a shelf without a row gets one, which is on.
Reconciled(items, ds) == [k \in Shelves |-> IF k \in ds /\ items[k] = "none" THEN "on"
                                            ELSE items[k]]

\* rebuildDefinitions, over the rows that file holds.  m_payload is what was
\* read before reconcile wrote its additions.
Rebuild(p, file, ds) ==
    /\ defs' = ds
    /\ payload' = file
    /\ savedRows' = [savedRows EXCEPT ![p] = Reconciled(file, ds)]
    /\ shelfRows' = [k \in Shelves |-> IF k \in ds THEN Reconciled(file, ds)[k] ELSE "none"]

Pruned(rows) == [k \in Shelves |-> IF k \in Live(rows) THEN data[k] ELSE "none"]

\* Mutant of Pump: the queue is emptied whatever the slots.
PumpAll(ds, d, q, used, replies) ==
    LET fetched == {k \in q \cap ds : d[k] = "idle"}
    IN  /\ pending' = used + Cardinality(fetched)
        /\ \A k \in fetched : replies[k] < MaxOpen
        /\ data' = [k \in Shelves |-> IF k \in fetched THEN "fetching" ELSE d[k]]
        /\ queue' = {}
        /\ open' = [k \in Shelves |-> replies[k] + IF k \in fetched THEN 1 ELSE 0]

\* pumpQueue, over the data d, the queue q, the slots in use and the replies
\* under way: it takes keys until the slots are full, fetches those that are
\* idle and known and passes over the others.
Pump(ds, d, q, used, replies) ==
    \E taken \in SUBSET q :
        LET fetched == {k \in taken \cap ds : d[k] = "idle"}
        IN  /\ pending' = used + Cardinality(fetched)
            /\ pending' <= kMaxInFlight
            /\ q # taken => pending' = kMaxInFlight
            /\ \A k \in fetched : replies[k] < MaxOpen
            /\ data' = [k \in Shelves |-> IF k \in fetched THEN "fetching" ELSE d[k]]
            /\ queue' = q \ taken
            /\ open' = [k \in Shelves |-> replies[k] + IF k \in fetched THEN 1 ELSE 0]

\* The shelves that are on and have neither data nor a fetch are queued.
Refresh(p, file, ds) ==
    /\ Rebuild(p, file, ds)
    /\ IF ds = {}
       THEN /\ data' = [k \in Shelves |-> "none"]
            /\ queue' = {}
            /\ UNCHANGED <<pending, open>>
       ELSE LET kept == Pruned(shelfRows')
                wanted == {k \in Live(shelfRows') : kept[k] \in {"none", "idle"}}
            IN  Pump(ds, [k \in Shelves |-> IF k \in wanted THEN "idle" ELSE kept[k]],
                     queue \cup wanted, pending, open)

Init ==
    /\ profile \in Profiles /\ defs = {}
    /\ savedRows = [p \in Profiles |-> [k \in Shelves |-> "none"]]
    /\ payload = [k \in Shelves |-> "none"] /\ shelfRows = payload
    /\ data = [k \in Shelves |-> "none"]
    /\ queue = {} /\ pending = 0 /\ open = [k \in Shelves |-> 0]

-----------------------------------------------------------------------------
(* AddonRegistry::changed and setProfileId. *)

AddonsChange(ds) == /\ Refresh(profile, savedRows[profile], ds)
                    /\ UNCHANGED profile

SwitchShelves(p) == /\ p # profile
                    /\ profile' = p
                    /\ Refresh(p, savedRows[p], defs)

\* Mutant of ShelfReply: the slot is freed and the queue is not pumped.
ShelfReplyOnly(k) ==
    /\ open[k] > 0
    /\ pending' = pending - 1
    /\ open' = [open EXCEPT ![k] = @ - 1]
    /\ data' = IF data[k] = "none" THEN data ELSE [data EXCEPT ![k] = "done"]
    /\ UNCHANGED <<profile, defs, savedRows, payload, shelfRows, queue>>

\* The finished handler of fetchShelf.  A failure is done as well, with the
\* items it had; the reply of a shelf that is gone is dropped.
ShelfReply(k) ==
    /\ open[k] > 0
    /\ Pump(defs, IF data[k] = "none" THEN data ELSE [data EXCEPT ![k] = "done"],
            queue, pending - 1, [open EXCEPT ![k] = @ - 1])
    /\ UNCHANGED <<profile, defs, savedRows, payload, shelfRows>>

-----------------------------------------------------------------------------
(* The settings of the page. *)

\* setHeroEnabled and its two like write m_payload, whatever the file holds.
SetPageFlag ==
    /\ savedRows' = [savedRows EXCEPT ![profile] = payload]
    /\ UNCHANGED <<profile, defs, payload, shelfRows, data, queue, pending, open>>

\* Mutant of SetShelfEnabled: the file is written and m_payload is not.
SetShelfEnabledInFile(k, on) ==
    LET state == IF on THEN "on" ELSE "off"
    IN  /\ savedRows[profile][k] # "none"
        /\ savedRows' = [savedRows EXCEPT ![profile][k] = state]
        /\ shelfRows' = [shelfRows EXCEPT ![k] = IF @ = "none" THEN @ ELSE state]
        /\ IF on /\ data[k] = "none"
           THEN Pump(defs, [data EXCEPT ![k] = "idle"], queue \cup {k}, pending, open)
           ELSE UNCHANGED <<data, queue, pending, open>>
        /\ UNCHANGED <<profile, defs, payload>>

\* setShelfEnabled, of a shelf the file has a row for.
SetShelfEnabled(k, on) ==
    LET state == IF on THEN "on" ELSE "off"
    IN  /\ savedRows[profile][k] # "none"
        /\ savedRows' = [savedRows EXCEPT ![profile][k] = state]
        /\ payload' = savedRows'[profile]
        /\ shelfRows' = [shelfRows EXCEPT ![k] = IF @ = "none" THEN @ ELSE state]
        /\ IF on /\ data[k] = "none"
           THEN Pump(defs, [data EXCEPT ![k] = "idle"], queue \cup {k}, pending, open)
           ELSE UNCHANGED <<data, queue, pending, open>>
        /\ UNCHANGED <<profile, defs>>

\* setShelfHeroSource and setShelfCustomTitle.
TouchShelf(k) ==
    /\ savedRows[profile][k] # "none"
    /\ payload' = savedRows[profile]
    /\ UNCHANGED <<profile, defs, savedRows, shelfRows, data, queue, pending, open>>

\* Nothing is fetched: the rows a rebuild adds wait for the next refresh.
Rebuilt(file) ==
    /\ Rebuild(profile, file, defs)
    /\ data' = Pruned(shelfRows')
    /\ UNCHANGED <<profile, queue, pending, open>>

MoveShelf(k) == savedRows[profile][k] # "none" /\ Rebuilt(savedRows[profile])

\* applySyncedPayload: the rows of the server, and those of the file that it
\* does not name and that belong to an addon.  An empty list is ignored.
ApplySynced(remote) ==
    Rebuilt(IF remote = [k \in Shelves |-> "none"]
            THEN savedRows[profile]
            ELSE [k \in Shelves |-> IF remote[k] # "none" THEN remote[k]
                                    ELSE IF k \in defs THEN savedRows[profile][k]
                                    ELSE "none"])

-----------------------------------------------------------------------------
User == \/ \E p \in Profiles : SwitchShelves(p)
        \/ SetPageFlag
        \/ \E k \in Shelves : \/ \E on \in BOOLEAN : SetShelfEnabled(k, on)
                              \/ TouchShelf(k)
                              \/ MoveShelf(k)

Next == \/ User
        \/ \E ds \in SUBSET Shelves : AddonsChange(ds)
        \/ \E remote \in [Shelves -> RowStates] : ApplySynced(remote)
        \/ \E k \in Shelves : ShelfReply(k)

Spec == Init /\ [][Next]_vars

-----------------------------------------------------------------------------
(* Properties. *)

\* The slots and the queue of pumpQueue, over replies that come in any order,
\* for shelves that have gone, come back or been asked for twice: a key waits
\* only while every slot is in use, and every slot in use has its reply.
ShelvesKeepLoading ==
    /\ queue # {} => pending = kMaxInFlight
    /\ pending > 0 <=> \E k \in Shelves : open[k] > 0
    /\ \A k \in Live(shelfRows) :
          /\ data[k] = "idle" => k \in queue
          /\ data[k] = "fetching" => open[k] > 0

\* A shelf the user turned off is turned on by the user or by the server's
\* settings, never by a rebuild, a page flag or a switch of profiles.
KeepsOff ==
    \A p \in Profiles, k \in Shelves :
        savedRows[p][k] = "off" /\ savedRows'[p][k] # "off" =>
            /\ p = profile
            /\ \/ SetShelfEnabled(k, TRUE)
               \/ \E remote \in [Shelves -> RowStates] : ApplySynced(remote)

OffStaysOff == [][KeepsOff]_vars
=============================================================================
