---------------------------- MODULE WatchPayload ----------------------------
(***************************************************************************)
(* One profile's record in watch_progress.properties or in                 *)
(* watched.properties, and what each operation of WatchingStore does to it *)
(* (src/systems/watching/src/WatchingStore.cpp).  Both files hold rows by  *)
(* key plus the same sync envelope: the keys edited since their last       *)
(* acknowledged push, the id of the last server event applied, and whether *)
(* that cursor was ever seeded.                                            *)
(*                                                                         *)
(* A row is its stamp alone (lastUpdatedEpochMs, markedAtEpochMs), 0 when  *)
(* the key has no row.  lastSuccessfulPushEpochMs is written by the code   *)
(* and read nowhere, so it is left out.                                    *)
(***************************************************************************)
EXTENDS Naturals

CONSTANTS Keys,         \* progress keys and watched keys
          MaxStamp,     \* bound on row stamps
          MaxEvent      \* bound on server event ids

ASSUME BoundsAssumption == MaxStamp \in Nat /\ MaxEvent \in Nat

Stamps == 1..MaxStamp
NoRow  == 0
Rows   == Stamps \cup {NoRow}
Events == 0..MaxEvent

Payload == [row : [Keys -> Rows], dirty : SUBSET Keys,
            cursor : Events, init : BOOLEAN]

EmptyPayload == [row |-> [k \in Keys |-> NoRow], dirty |-> {},
                 cursor |-> 0, init |-> FALSE]

Has(pay, k) == pay.row[k] # NoRow

\* upsert: a local write replaces the row and marks the key dirty.
Upsert(pay, k, t) == [pay EXCEPT !.row[k] = t, !.dirty = @ \cup {k}]

\* remove, unmarkWatched: the row goes, the key is marked even if it had none.
RemoveLocal(pay, k) == [pay EXCEPT !.row[k] = NoRow, !.dirty = @ \cup {k}]

\* markWatched: an item already marked is left as it is, unmarked as dirty too.
MarkWatched(pay, k, t) == IF Has(pay, k) THEN pay ELSE Upsert(pay, k, t)

\* Mutant of Newer: the test forgets the comparison.
NewerIfAny(old, new) == new # NoRow

\* The newest-wins test in front of every upsertRemote / upsertWatchedRemote.
Newer(old, new) == new # NoRow /\ (old = NoRow \/ new > old)

\* The rows of a full pull, merged one by one; no key is marked.
MergeRows(pay, rows) ==
    [pay EXCEPT !.row = [k \in Keys |-> IF Newer(pay.row[k], rows[k])
                                        THEN rows[k] ELSE pay.row[k]]]

\* One row of the server.
MergeRow(pay, k, t) == IF Newer(pay.row[k], t) THEN [pay EXCEPT !.row[k] = t] ELSE pay

\* removeWatchedByContentId: the server's deletion, nothing is marked.
RemoveRemote(pay, k) == [pay EXCEPT !.row[k] = NoRow]

ClearDirty(pay, ks) == [pay EXCEPT !.dirty = @ \ ks]

\* Mutant of SetCursor: stores the id of the next event.
SetCursorPastEvent(pay, c) == [pay EXCEPT !.cursor = c + 1, !.init = TRUE]

SetCursor(pay, c) == [pay EXCEPT !.cursor = c, !.init = TRUE]
=============================================================================
