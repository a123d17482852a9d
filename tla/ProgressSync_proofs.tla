------------------------ MODULE ProgressSync_proofs -------------------------
(* Proofs about ProgressSync, for any keys, profiles and bounds. *)
EXTENDS ProgressSync, InductionLemmas, SequenceTheorems, TLAPS

USE BoundsAssumption, SyncAssumption

(***************************************************************************)
(* The operations of the store keep a payload a payload.                   *)
(***************************************************************************)
LEMMA EmptyIsPayload == EmptyPayload \in Payload
  BY DEF EmptyPayload, Payload, Rows, NoRow, Events

LEMMA LocalWritesTyped ==
    ASSUME NEW pay \in Payload, NEW k \in Keys, NEW t \in Stamps
    PROVE  /\ Upsert(pay, k, t) \in Payload
           /\ RemoveLocal(pay, k) \in Payload
           /\ MarkWatched(pay, k, t) \in Payload
  BY DEF Upsert, RemoveLocal, MarkWatched, Payload, Rows, NoRow

LEMMA RemoteWritesTyped ==
    ASSUME NEW pay \in Payload, NEW rows \in [Keys -> Rows],
           NEW ks \in SUBSET Keys, NEW c \in Events
    PROVE  /\ MergeRows(pay, rows) \in Payload
           /\ ClearDirty(pay, ks) \in Payload
           /\ SetCursor(pay, c) \in Payload
  BY DEF MergeRows, ClearDirty, SetCursor, Payload, Rows, NoRow

LEMMA RowWritesTyped ==
    ASSUME NEW pay \in Payload, NEW k \in Keys, NEW t \in Rows
    PROVE  /\ MergeRow(pay, k, t) \in Payload
           /\ RemoveRemote(pay, k) \in Payload
           /\ RemoveLocal(pay, k) \in Payload
  BY DEF MergeRow, RemoveRemote, RemoveLocal, Payload, Rows, NoRow

\* No row of new is older than in old, unless a key among the first n of the events
\* was deleted; every mark of old is there.
RowsGrow(old, new, events, n) ==
    /\ old.dirty \subseteq new.dirty
    /\ \A k \in Keys :
           \/ new.row[k] >= old.row[k]
           \/ \E j \in 1..n : events[j] = [key |-> k, stamp |-> NoRow]

LEMMA EventGrows ==
    ASSUME NEW f \in Files, NEW pay \in Payload, NEW d \in Payload,
           NEW n \in Nat, NEW events, NEW k \in 1..n, events[k] \in Event,
           RowsGrow(pay, d, events, k - 1)
    PROVE  /\ ApplyEvent(f, d, events[k]) \in Payload
           /\ RowsGrow(pay, ApplyEvent(f, d, events[k]), events, k)
  <1> DEFINE e == events[k]
             a == ApplyEvent(f, d, e)
  <1>1. /\ e.key \in Keys /\ e.stamp \in Rows /\ e = [key |-> e.key, stamp |-> e.stamp]
        /\ f \in {"progress", "watched"}
    BY DEF Event, Files
  <1>2. /\ \A j \in Keys : pay.row[j] \in Nat /\ d.row[j] \in Nat
        /\ e.stamp \in Nat /\ d.row \in [Keys -> Rows] /\ d.dirty \in SUBSET Keys
    BY <1>1 DEF Payload, Rows, NoRow, Stamps
  <1>3. \A j \in 1..(k - 1) : j \in 1..k
    OBVIOUS
  <1>4. CASE e.stamp # NoRow
    <2>1. a = MergeRow(d, e.key, e.stamp)
      BY <1>4 DEF ApplyEvent
    <2>2. a \in Payload
      BY <1>1, <2>1, RowWritesTyped
    <2>3. /\ a.dirty = d.dirty
          /\ \A j \in Keys : a.row[j] >= d.row[j]
      BY <1>1, <1>2, <2>1 DEF MergeRow, Newer, Payload, NoRow
    <2>4. \A j \in Keys : a.row[j] \in Nat
      BY <2>2 DEF Payload, Rows, NoRow, Stamps
    <2> HIDE DEF a
    <2>5. RowsGrow(pay, a, events, k)
      BY <1>2, <1>3, <2>3, <2>4 DEF RowsGrow
    <2> QED
      BY <2>2, <2>5 DEF a
  <1>5. CASE e.stamp = NoRow
    <2>1. a = IF f = "progress" THEN RemoveLocal(d, e.key) ELSE RemoveRemote(d, e.key)
      BY <1>1, <1>5 DEF ApplyEvent
    <2>2. a \in Payload
      BY <1>1, <2>1, RowWritesTyped
    <2>3. /\ d.dirty \subseteq a.dirty
          /\ \A j \in Keys : j # e.key => a.row[j] = d.row[j]
      BY <1>1, <1>2, <2>1 DEF RemoveLocal, RemoveRemote, Payload
    <2>4. k \in 1..k /\ events[k] = [key |-> e.key, stamp |-> NoRow]
      BY <1>1, <1>5
    <2> HIDE DEF a, e
    <2>5. RowsGrow(pay, a, events, k)
      BY <1>2, <1>3, <2>3, <2>4 DEF RowsGrow
    <2> QED
      BY <2>2, <2>5 DEF a, e
  <1> QED
    BY <1>4, <1>5

\* The events of an answer, in their order: f[i] is what those at the places i
\* make of pay.
Applying(g, f, pay, events) ==
    g = [i \in SUBSET (1..Len(events)) |->
            IF i = {} THEN pay
            ELSE ApplyEvent(f, g[i \ {Greatest(i)}], events[Greatest(i)])]

LEMMA DeltaGrows ==
    ASSUME NEW f \in Files, NEW pay \in Payload, NEW events \in Seq(Event)
    PROVE  /\ ApplyDelta(f, pay, events) \in Payload
           /\ RowsGrow(pay, ApplyDelta(f, pay, events), events, Len(events))
  <1> DEFINE n == Len(events)
             H == [x \in Payload \X (1..n) |-> ApplyEvent(f, x[1], events[x[2]])]
             a == ApplyDelta(f, pay, events)
             g == CHOOSE h : Applying(h, f, pay, events)
             G == [k \in 0..n |-> {d \in Payload : RowsGrow(pay, d, events, k)}]
  <1>1. n \in Nat /\ DOMAIN events = 1..n /\ \A k \in 1..n : events[k] \in Event
    OBVIOUS
  <1>2. a = g[1..n]
    BY <1>1 DEF ApplyDelta, FoldLeft, MapThenFoldSet, Max, Applying, Greatest
  <1> HIDE DEF a, n
  <1>3. \A d \in Payload, k \in 1..n : /\ H[<<d, k>>] = ApplyEvent(f, d, events[k])
                                       /\ H[<<d, k>>] \in Payload
    <2>1. ASSUME NEW d \in Payload, NEW e \in Event PROVE ApplyEvent(f, d, e) \in Payload
      <3>1. e.key \in Keys /\ e.stamp \in Rows /\ f \in {"progress", "watched"}
        BY DEF Event, Files
      <3> QED
        BY <3>1 DEF ApplyEvent, MergeRow, RemoveLocal, RemoveRemote, Payload, Rows, NoRow
    <2> QED
      BY <1>1, <2>1
  <1> HIDE DEF H
  <1>4. PICK h : FoldOver(h, n, pay, H)
    BY <1>1, FoldOverExists
  <1>5. \A i \in SUBSET (1..n) : h[i] \in Payload
    BY <1>1, <1>3, <1>4, FoldOverStays
  <1>6. Applying(h, f, pay, events)
    <2>1. ASSUME NEW i \in SUBSET (1..n), i # {}
          PROVE  H[<<h[i \ {Greatest(i)}], Greatest(i)>>] =
                   ApplyEvent(f, h[i \ {Greatest(i)}], events[Greatest(i)])
      BY <1>1, <1>3, <1>5, <2>1, GreatestOf
    <2> QED
      BY <1>4, <2>1 DEF Applying, FoldOver, n
  <1>7. Applying(g, f, pay, events)
    BY <1>6
  <1> HIDE DEF g
  <1>8. g[{}] = pay
    BY <1>7 DEF Applying
  <1>9. ASSUME NEW k \in 1..n, g[1..(k - 1)] \in G[k - 1] PROVE g[1..k] \in G[k]
    <2>1. g[1..k] = ApplyEvent(f, g[1..(k - 1)], events[k])
      <3> DEFINE i == 1..k
      <3>1. /\ i \in SUBSET (1..n) /\ i # {} /\ Greatest(i) = k
            /\ i \ {Greatest(i)} = 1..(k - 1)
        BY <1>1, Prefix
      <3> HIDE DEF i
      <3>2. g[i] = ApplyEvent(f, g[i \ {Greatest(i)}], events[Greatest(i)])
        BY <1>7, <3>1 DEF Applying, n
      <3> QED
        BY <3>1, <3>2 DEF i
    <2>2. k \in 0..n /\ k - 1 \in 0..n /\ k \in 1..n
      BY <1>1
    <2>3. g[1..(k - 1)] \in Payload /\ RowsGrow(pay, g[1..(k - 1)], events, k - 1)
      BY <1>9, <2>2
    <2> HIDE DEF G
    <2>4. /\ ApplyEvent(f, g[1..(k - 1)], events[k]) \in Payload
          /\ RowsGrow(pay, ApplyEvent(f, g[1..(k - 1)], events[k]), events, k)
      BY <1>1, <2>2, <2>3, EventGrows
    <2> QED
      BY <2>1, <2>2, <2>4 DEF G
  <1>10. g[{}] \in G[0]
    <2>1. RowsGrow(pay, pay, events, 0)
      <3>1. \A k \in Keys : pay.row[k] \in Nat
        BY DEF Payload, Rows, NoRow, Stamps
      <3> QED
        BY <3>1 DEF RowsGrow
    <2> QED
      BY <1>1, <1>8, <2>1
  <1> HIDE DEF G
  <1>11. a \in G[n]
    BY <1>1, <1>2, <1>9, <1>10, FoldReaches
  <1> QED
    BY <1>1, <1>11 DEF G, a, n

\* An answer holds finitely many events.
LEMMA BatchesAreSequences ==
    ASSUME NEW events \in Batches
    PROVE  events \in Seq(Event)
  BY DEF Batches, BoundedSeq, SeqOf

LEMMA DeltasTyped ==
    ASSUME NEW f \in Files, NEW pay \in Payload, NEW events \in Batches,
           NEW last \in Events
    PROVE  Advanced(ApplyDelta(f, pay, events), last) \in Payload
  <1>1. ApplyDelta(f, pay, events) \in Payload
    BY BatchesAreSequences, DeltaGrows
  <1> QED
    BY <1>1 DEF Advanced, SetCursor, Payload

(***************************************************************************)
(* A sequence of one element, after its only element was taken or          *)
(* replaced.                                                               *)
(***************************************************************************)
LEMMA OnlyOne ==
    ASSUME NEW S, NEW s \in Seq(S), Len(s) = 1
    PROVE  /\ s[1] \in S
           /\ Head(s) = s[1]
           /\ Tail(s) = <<>>
           /\ RemoveAt(s, 1) = <<>>
  <1>1. s[1] \in S /\ Head(s) = s[1]
    OBVIOUS
  <1>2. Tail(s) = <<>>
    <2>1. Len(<<>>) # 1
      BY EmptySeq
    <2>2. s # <<>>
      BY <2>1, Zenon
    <2>3. Tail(s) = SubSeq(s, 2, 1)
      BY <2>2, TailIsSubSeq
    <2> QED
      BY <2>3, SubSeqEmpty
  <1>3. SubSeq(s, 1, 1 - 1) = <<>> /\ SubSeq(s, 1 + 1, Len(s)) = <<>>
    BY SubSeqEmpty
  <1>4. RemoveAt(s, 1) = <<>> \o <<>>
    BY <1>3 DEF RemoveAt
  <1>5. <<>> \o <<>> = <<>>
    BY ConcatEmptySeq, EmptySeq
  <1> QED
    BY <1>1, <1>2, <1>4, <1>5

LEMMA AppendToNone ==
    ASSUME NEW S, NEW x \in S
    PROVE  /\ Append(<<>>, x) \in Seq(S)
           /\ Len(Append(<<>>, x)) = 1
           /\ Append(<<>>, x)[1] = x
  OBVIOUS

(***************************************************************************)
(* The slot.  SlotOK is the part of the invariant about the slot, the      *)
(* requests and the handlers; what any operation does to these three is    *)
(* Start, Chain or Release.                                                *)
(***************************************************************************)
SlotOK == /\ inFlight \in Nat
          /\ calls \in Seq(Call)
          /\ handlers \in Seq(Handler)
          /\ SerialSlot

LEMMA SlotInUse ==
    ASSUME SlotOK, NEW i \in DOMAIN calls
    PROVE  /\ i = 1 /\ inFlight = 1 /\ Len(calls) = 1 /\ Len(handlers) = 1
           /\ handlers # <<>>
           /\ calls[1] \in Call
           /\ Head(handlers) \in Handler
           /\ Head(handlers).kind = calls[1].kind
           /\ RemoveAt(calls, i) = <<>>
           /\ Tail(handlers) = <<>>
  <1>1. DOMAIN calls = 1..Len(calls) /\ Len(calls) \in Nat
    BY LenProperties DEF SlotOK
  <1>2. Len(calls) = 1 /\ i = 1 /\ inFlight = 1 /\ Len(handlers) = 1
    BY <1>1 DEF SlotOK, SerialSlot
  <1>3. handlers # <<>>
    BY <1>2, EmptySeq DEF SlotOK
  <1> QED
    BY <1>2, <1>3, OnlyOne DEF SlotOK, SerialSlot

LEMMA EmptySlot ==
    ASSUME inFlight' = 0, calls' = <<>>, handlers' = <<>>
    PROVE  SlotOK'
  <1>1. calls' \in Seq(Call) /\ handlers' \in Seq(Handler)
    BY EmptySeq
  <1>2. SerialSlot'
    BY DEF SerialSlot
  <1> QED
    BY <1>1, <1>2 DEF SlotOK

LEMMA FullSlot ==
    ASSUME NEW call \in Call, NEW handler \in Handler,
           call.kind = handler.kind,
           inFlight' = 1,
           calls' = Append(<<>>, call), handlers' = Append(<<>>, handler)
    PROVE  SlotOK'
  <1>1. /\ calls' \in Seq(Call) /\ Len(calls') = 1 /\ calls'[1] = call
        /\ handlers' \in Seq(Handler) /\ Len(handlers') = 1
        /\ handlers'[1] = handler
    BY AppendToNone
  <1>2. SerialSlot'
    BY <1>1 DEF SerialSlot
  <1> QED
    BY <1>1, <1>2 DEF SlotOK

LEMMA StartTakes ==
    ASSUME SlotOK, inFlight = 0,
           NEW call \in Call, NEW handler \in Handler,
           call.kind = handler.kind, Start(call, handler)
    PROVE  SlotOK'
  <1>1. calls = <<>> /\ handlers = <<>>
    BY EmptySeq DEF SlotOK, SerialSlot
  <1> QED
    BY <1>1, FullSlot DEF Start

LEMMA ChainKeeps ==
    ASSUME SlotOK, NEW i \in DOMAIN calls,
           NEW call \in Call, NEW handler \in Handler,
           call.kind = handler.kind, Chain(i, call, handler)
    PROVE  SlotOK'
  BY SlotInUse, FullSlot DEF Chain

LEMMA ReleaseFrees ==
    ASSUME SlotOK, NEW i \in DOMAIN calls, NEW slot \in {0, OneLess, inFlight - 1},
           Release(i, slot)
    PROVE  SlotOK'
  BY SlotInUse, EmptySlot DEF Release, OneLess

LEMMA RequestTyped ==
    ASSUME profile \in Profiles, NEW kind \in Kinds
    PROVE  /\ Request(kind) \in Call /\ Request(kind).kind = kind
           /\ Plain(kind) \in Handler /\ Plain(kind).kind = kind
  BY DEF Request, Plain, Call, Handler, Events, NoRows, Rows, NoRow

LEMMA SlotUnchanged ==
    ASSUME SlotOK, UNCHANGED slotVars
    PROVE  SlotOK'
  BY DEF SlotOK, SerialSlot, slotVars

-----------------------------------------------------------------------------
(* The inductive invariant: types, and the slot.                           *)

IInv == TypeOK /\ SerialSlot

LEMMA IInvParts ==
    ASSUME IInv
    PROVE  /\ SlotOK /\ profile \in Profiles
           /\ \A f \in Files, p \in Profiles :
                  disk[f][p] \in Payload /\ mem[f][p] \in Payload
  BY DEF IInv, TypeOK, SlotOK

\* The types of everything but the slot.
DataOK == /\ disk \in [Files -> [Profiles -> Payload]]
          /\ mem \in [Files -> [Profiles -> Payload]]
          /\ cached \in [Files -> BOOLEAN]
          /\ profile \in Profiles
          /\ signedIn \in BOOLEAN
          /\ armed \in [Files -> BOOLEAN]
          /\ accum \in [Keys -> Rows]
          /\ clock \in 0..MaxClock

LEMMA IInvSplit == IInv <=> DataOK /\ SlotOK
  BY DEF IInv, TypeOK, DataOK, SlotOK

LEMMA IInvSplitNext == IInv' <=> DataOK' /\ SlotOK'
  BY DEF IInv, TypeOK, DataOK, SlotOK

LEMMA InitIInv == Init => IInv
  <1> SUFFICES ASSUME Init PROVE IInv
    OBVIOUS
  <1>1. DataOK
    <2>1. [p \in Profiles |-> EmptyPayload] \in [Profiles -> Payload]
      BY EmptyIsPayload
    <2>2. disk \in [Files -> [Profiles -> Payload]]
          /\ mem \in [Files -> [Profiles -> Payload]]
      BY <2>1 DEF Init
    <2>3. accum \in [Keys -> Rows]
      BY DEF Init, NoRows, Rows, NoRow
    <2>4. clock \in 0..MaxClock
      BY DEF Init
    <2>5. cached \in [Files -> BOOLEAN] /\ armed \in [Files -> BOOLEAN]
      BY DEF Init
    <2>6. profile \in Profiles /\ signedIn \in BOOLEAN
      BY DEF Init
    <2> QED
      BY <2>2, <2>3, <2>4, <2>5, <2>6 DEF DataOK
  <1>2. SlotOK
    <2>1. calls \in Seq(Call) /\ handlers \in Seq(Handler)
      BY EmptySeq DEF Init
    <2>2. SerialSlot
      BY DEF Init, SerialSlot
    <2> QED
      BY <2>1, <2>2 DEF Init, SlotOK
  <1> QED
    BY <1>1, <1>2, IInvSplit

-----------------------------------------------------------------------------
(* Local writes. *)

LEMMA ViewTyped ==
    ASSUME DataOK, NEW f \in Files
    PROVE  /\ View(f) \in [Profiles -> Payload]
           /\ View(f)[profile] \in Payload
           /\ \A pay \in Payload : Write(f, pay) \in [Profiles -> Payload]
  BY DEF DataOK, View, Write

LEMMA RecorderWritesTyped ==
    ASSUME DataOK, NEW f \in Files, NEW pay \in Payload, RecorderWrites(f, pay)
    PROVE  /\ disk' \in [Files -> [Profiles -> Payload]]
           /\ mem' \in [Files -> [Profiles -> Payload]]
           /\ cached' \in [Files -> BOOLEAN]
  BY ViewTyped DEF RecorderWrites, DataOK

LEMMA ArmTyped ==
    ASSUME DataOK, NEW fs \in SUBSET Files, Arm(fs)
    PROVE  armed' \in [Files -> BOOLEAN]
  BY DEF Arm, DataOK

LEMMA TickTyped ==
    ASSUME DataOK, Tick
    PROVE  clock' \in 0..MaxClock /\ clock' \in Stamps
  BY DEF Tick, DataOK, Stamps

LEMMA FileNames == "progress" \in Files /\ "watched" \in Files
  BY DEF Files

LEMMA SavePositionKeeps ==
    ASSUME IInv, NEW k \in Keys, SavePosition(k)
    PROVE  IInv'
  <1> USE IInvSplit
  <1>1. Upsert(View("progress")[profile], k, clock') \in Payload
    BY ViewTyped, TickTyped, LocalWritesTyped, FileNames DEF SavePosition
  <1>2. DataOK'
    BY <1>1, RecorderWritesTyped, ArmTyped, TickTyped, FileNames
       DEF SavePosition, LocalVars, DataOK
  <1>3. SlotOK'
    BY SlotUnchanged DEF SavePosition, LocalVars, slotVars
  <1> QED
    BY <1>2, <1>3, IInvSplitNext

LEMMA CompleteOrMarkWatchedKeeps ==
    ASSUME IInv, NEW k \in Keys, CompleteOrMarkWatched(k)
    PROVE  IInv'
  <1> USE IInvSplit
  <1> DEFINE marked == Has(View("watched")[profile], k)
             new == [f \in Files |->
                       IF f = "progress"
                       THEN Write(f, RemoveLocal(View(f)[profile], k))
                       ELSE Write(f, MarkWatched(View(f)[profile], k, clock'))]
  <1>1. clock' \in 0..MaxClock /\ clock' \in Stamps
    BY TickTyped DEF CompleteOrMarkWatched
  <1>2. new \in [Files -> [Profiles -> Payload]]
    <2> SUFFICES ASSUME NEW f \in Files
                 PROVE  /\ Write(f, RemoveLocal(View(f)[profile], k))
                              \in [Profiles -> Payload]
                        /\ Write(f, MarkWatched(View(f)[profile], k, clock'))
                              \in [Profiles -> Payload]
      OBVIOUS
    <2> QED
      BY <1>1, ViewTyped, LocalWritesTyped
  <1>3. /\ disk' = [f \in Files |-> IF f = "watched" /\ marked THEN disk[f]
                                                             ELSE new[f]]
        /\ mem' = new
        /\ cached' = [f \in Files |-> TRUE]
        /\ armed' \in [Files -> BOOLEAN]
        /\ UNCHANGED LocalVars
    BY ArmTyped DEF CompleteOrMarkWatched
  <1>4. disk' \in [Files -> [Profiles -> Payload]]
    <2>1. \A f \in Files : /\ disk[f] \in [Profiles -> Payload]
                           /\ new[f] \in [Profiles -> Payload]
      BY <1>2 DEF DataOK
    <2> HIDE DEF new, marked
    <2> QED
      BY <1>3, <2>1
  <1> HIDE DEF new, marked
  <1>5. DataOK'
    BY <1>1, <1>2, <1>3, <1>4 DEF LocalVars, DataOK
  <1>6. SlotOK'
    BY <1>3, SlotUnchanged DEF LocalVars, slotVars
  <1> QED
    BY <1>5, <1>6, IInvSplitNext

LEMMA UnmarkWatchedKeeps ==
    ASSUME IInv, NEW k \in Keys, UnmarkWatched(k)
    PROVE  IInv'
  <1> USE IInvSplit
  <1>0. MaxStamp \in Nat
    OBVIOUS
  <1>1. RemoveLocal(View("watched")[profile], k) \in Payload
    BY ViewTyped, TickTyped, LocalWritesTyped, FileNames DEF UnmarkWatched
  <1>2. DataOK'
    BY <1>1, RecorderWritesTyped, ArmTyped, TickTyped, FileNames
       DEF UnmarkWatched, LocalVars, DataOK
  <1>3. SlotOK'
    BY SlotUnchanged DEF UnmarkWatched, LocalVars, slotVars
  <1> QED
    BY <1>2, <1>3, IInvSplitNext

LEMMA RecorderReadsKeeps ==
    ASSUME IInv, NEW f \in Files, RecorderReads(f)
    PROVE  IInv'
  <1> USE IInvSplit
  <1>1. DataOK'
    BY DEF RecorderReads, LocalVars, DataOK
  <1>2. SlotOK'
    BY SlotUnchanged DEF RecorderReads, LocalVars, slotVars
  <1> QED
    BY <1>1, <1>2, IInvSplitNext

LEMMA SessionKeeps ==
    ASSUME IInv, Session
    PROVE  IInv'
  <1> USE IInvSplit
  <1>1. CASE SignInOrOut
    <2>1. DataOK'
      BY <1>1 DEF SignInOrOut, storeVars, slotVars, DataOK
    <2>2. SlotOK'
      BY <1>1, SlotUnchanged DEF SignInOrOut
    <2> QED
      BY <2>1, <2>2, IInvSplitNext
  <1>2. CASE Restart
    <2>1. mem' \in [Files -> [Profiles -> Payload]]
      BY <1>2, EmptyIsPayload DEF Restart
    <2>2. accum' \in [Keys -> Rows]
      BY <1>2 DEF Restart, NoRows, Rows, NoRow
    <2>3. cached' \in [Files -> BOOLEAN] /\ armed' \in [Files -> BOOLEAN]
      BY <1>2 DEF Restart
    <2>4. DataOK'
      BY <1>2, <2>1, <2>2, <2>3 DEF Restart, DataOK
    <2>5. SlotOK'
      BY <1>2, EmptySlot DEF Restart
    <2> QED
      BY <2>4, <2>5, IInvSplitNext
  <1>3. ASSUME NEW p \in Profiles, SwitchProfile(p)
        PROVE  IInv'
    <2>1. DataOK'
      BY <1>3, ArmTyped, FileNames DEF SwitchProfile, storeVars, DataOK
    <2>2. SlotOK'
      BY <1>3, SlotUnchanged DEF SwitchProfile, slotVars
    <2> QED
      BY <2>1, <2>2, IInvSplitNext
  <1> QED
    BY <1>1, <1>2, <1>3 DEF Session

-----------------------------------------------------------------------------
(* Entry points. *)

LEMMA HereTyped ==
    ASSUME DataOK, NEW f \in Files
    PROVE  Here(f) \in Payload
  BY DEF DataOK, Here

LEMMA PushOrDeleteKeeps ==
    ASSUME IInv, NEW f \in Files,
           NEW push \in PushKinds, NEW delete \in PushKinds,
           PushOrDelete(f, push, delete)
    PROVE  SlotOK'
  <1> DEFINE dirty   == Here(f).dirty
             present == {k \in dirty : Has(Here(f), k)}
             handler(kind, later) ==
                 [kind |-> kind, keys |-> dirty, deletes |-> later, page |-> 1,
                  batch |-> dirty, sent |-> Here(f).row]
  <1>1. SlotOK /\ DataOK
    BY IInvSplit
  <1>2. dirty \in SUBSET Keys /\ Here(f).row \in [Keys -> Rows]
    BY <1>1, HereTyped DEF Payload
  <1>3. \A kind \in PushKinds, later \in SUBSET Keys :
            /\ handler(kind, later) \in Handler
            /\ handler(kind, later).kind = kind
    BY <1>2 DEF Handler, Kinds
  <1>4. \A kind \in PushKinds : Request(kind) \in Call /\ Request(kind).kind = kind
    BY <1>1, RequestTyped DEF DataOK, Kinds
  <1>5. CASE ~Ready \/ dirty = {}
    BY <1>1, <1>5, SlotUnchanged DEF PushOrDelete
  <1>6. CASE Ready /\ dirty # {} /\ present # {}
    <2>1. Start(Request(push), handler(push, dirty \ present))
      BY <1>6 DEF PushOrDelete
    <2>2. dirty \ present \in SUBSET Keys /\ inFlight = 0
      BY <1>2, <1>6 DEF Ready
    <2> HIDE DEF handler
    <2> QED
      BY <1>1, <1>3, <1>4, <2>1, <2>2, StartTakes
  <1>7. CASE Ready /\ dirty # {} /\ present = {}
    <2>1. Start(Request(delete), handler(delete, {}))
      BY <1>7 DEF PushOrDelete
    <2>2. inFlight = 0
      BY <1>7 DEF Ready
    <2> HIDE DEF handler
    <2> QED
      BY <1>1, <1>3, <1>4, <2>1, <2>2, StartTakes
  <1> QED
    BY <1>5, <1>6, <1>7

LEMMA DebounceKeeps ==
    ASSUME IInv, NEW f \in Files, DebounceFires(f)
    PROVE  IInv'
  <1> USE IInvSplit
  <1>1. DataOK'
    BY DEF DebounceFires, storeVars, DataOK
  <1>2. SlotOK'
    BY PushOrDeleteKeeps, FileNames
       DEF DebounceFires, PushDirty, PushWatchedDirty, PushKinds
  <1> QED
    BY <1>1, <1>2, IInvSplitNext

LEMMA PullCallsTyped ==
    ASSUME DataOK, NEW f \in Files, NEW kind \in Kinds
    PROVE  LET call == [kind |-> kind, profile |-> profile,
                        after |-> Here(f).cursor]
           IN  call \in Call /\ call.kind = kind
  BY HereTyped DEF Call, Payload, DataOK

LEMMA PullsKeep ==
    ASSUME IInv, Pulls
    PROVE  IInv'
  <1> USE IInvSplit
  <1>0. /\ {"pull", "delta", "watchedPage", "watchedDelta"} \subseteq Kinds
        /\ inFlight = 0
    BY DEF Kinds, PullKinds, Pulls, FullSyncThenDeltas,
           FullWatchedSyncThenDeltas, Ready
  <1>1. CASE FullSyncThenDeltas
    <2>1. DataOK'
      BY <1>1 DEF FullSyncThenDeltas, storeVars, DataOK
    <2>2. SlotOK'
      <3>1. profile \in Profiles
        BY DEF DataOK
      <3>2. CASE Here("progress").init
        BY <1>0, <1>1, <3>1, <3>2, PullCallsTyped, RequestTyped, StartTakes,
           FileNames DEF FullSyncThenDeltas, BeginPull
      <3>3. CASE ~Here("progress").init
        BY <1>0, <1>1, <3>1, <3>3, RequestTyped, StartTakes
           DEF FullSyncThenDeltas, BeginPull
      <3> QED
        BY <3>2, <3>3
    <2> QED
      BY <2>1, <2>2, IInvSplitNext
  <1>2. CASE FullWatchedSyncThenDeltas
    <2>1. NoRows \in [Keys -> Rows]
      BY DEF NoRows, Rows, NoRow
    <2>2. DataOK'
      BY <1>2, <2>1
         DEF FullWatchedSyncThenDeltas, BeginWatchedPull, storeVars, DataOK
    <2>3. SlotOK'
      <3>1. profile \in Profiles
        BY DEF DataOK
      <3>2. CASE Here("watched").init
        BY <1>0, <1>2, <3>1, <3>2, PullCallsTyped, RequestTyped, StartTakes,
           FileNames DEF FullWatchedSyncThenDeltas, BeginWatchedPull
      <3>3. CASE ~Here("watched").init
        BY <1>0, <1>2, <3>1, <3>3, RequestTyped, StartTakes
           DEF FullWatchedSyncThenDeltas, BeginWatchedPull
      <3> QED
        BY <3>2, <3>3
    <2> QED
      BY <2>2, <2>3, IInvSplitNext
  <1> QED
    BY <1>1, <1>2 DEF Pulls

-----------------------------------------------------------------------------
(* Replies. *)

LEMMA ToFileTyped ==
    ASSUME DataOK, NEW f \in Files, NEW pay \in Payload,
           ToFile(f, pay) \/ UNCHANGED disk,
           accum' \in [Keys -> Rows], UNCHANGED ReplyVars
    PROVE  DataOK'
  <1>1. [disk[f] EXCEPT ![profile] = pay] \in [Profiles -> Payload]
    BY DEF DataOK
  <1>2. disk' \in [Files -> [Profiles -> Payload]]
    <2>1. CASE disk' = [disk EXCEPT ![f] = [disk[f] EXCEPT ![profile] = pay]]
      BY <1>1, <2>1 DEF DataOK
    <2>2. CASE UNCHANGED disk
      BY <2>2 DEF DataOK
    <2> QED
      BY <2>1, <2>2 DEF ToFile
  <1> QED
    BY <1>2 DEF ReplyVars, DataOK

LEMMA NoRowsTyped == NoRows \in [Keys -> Rows]
  BY DEF NoRows, Rows, NoRow

LEMMA HandlerTyped ==
    ASSUME SlotOK, NEW i \in DOMAIN calls
    PROVE  /\ Head(handlers) \in Handler
           /\ Head(handlers).keys \in SUBSET Keys
           /\ Head(handlers).deletes \in SUBSET Keys
  BY SlotInUse DEF Handler

LEMMA RequestFailsKeeps ==
    ASSUME IInv, NEW i \in DOMAIN calls, RequestFails(i)
    PROVE  IInv'
  <1> USE IInvSplit
  <1>1. accum' \in [Keys -> Rows]
    BY NoRowsTyped DEF RequestFails, DataOK
  <1>2. DataOK'
    BY <1>1 DEF RequestFails, ReplyVars, DataOK
  <1>3. PICK slot \in {0, OneLess, inFlight - 1} : Release(i, slot)
    BY DEF RequestFails
  <1> QED
    BY <1>2, <1>3, ReleaseFrees, IInvSplitNext

LEMMA PushReplyKeeps ==
    ASSUME IInv, NEW i \in DOMAIN calls, PushReply(i)
    PROVE  IInv'
  <1> USE IInvSplit
  <1> DEFINE h == Head(handlers)
             next == [h EXCEPT !.kind = "delete", !.keys = h.deletes,
                               !.deletes = {}]
  <1>1. h \in Handler /\ h.keys \in SUBSET Keys
    BY HandlerTyped
  <1>2. accum' \in [Keys -> Rows] /\ UNCHANGED ReplyVars
    BY DEF PushReply, DataOK
  <1>3. CASE h.deletes # {}
    <2>1. Chain(i, Request("delete"), next) /\ UNCHANGED disk
      BY <1>3 DEF PushReply
    <2>2. next \in Handler /\ next.kind = "delete"
      BY <1>1 DEF Handler, Kinds, PushKinds
    <2>3. SlotOK'
      <3> HIDE DEF next, h
      <3> QED
        BY <2>1, <2>2, ChainKeeps, RequestTyped
           DEF DataOK, Kinds, PushKinds
    <2>4. DataOK'
      BY <1>2, <2>1 DEF ReplyVars, DataOK
    <2> QED
      BY <2>3, <2>4, IInvSplitNext
  <1>4. CASE h.deletes = {}
    <2>1. ToFile("progress", ClearDirty(Here("progress"), h.keys))
          /\ Release(i, 0)
      BY <1>4 DEF PushReply
    <2>2. DataOK'
      BY <1>1, <1>2, <2>1, ToFileTyped, HereTyped, FileNames, RemoteWritesTyped,
         NoRowsTyped
         DEF Events
    <2> QED
      BY <2>1, <2>2, ReleaseFrees, IInvSplitNext
  <1> QED
    BY <1>3, <1>4

LEMMA DeleteReplyKeeps ==
    ASSUME IInv, NEW i \in DOMAIN calls, DeleteReply(i)
    PROVE  IInv'
  <1> USE IInvSplit
  <1>1. Head(handlers).keys \in SUBSET Keys
    BY HandlerTyped
  <1>2. ClearDirty(Here("progress"), Head(handlers).keys) \in Payload
    BY <1>1, HereTyped, FileNames, RemoteWritesTyped, NoRowsTyped DEF Events
  <1>3. accum' \in [Keys -> Rows]
    BY DEF DeleteReply, DataOK
  <1>4. DataOK'
    BY <1>2, <1>3, ToFileTyped, FileNames DEF DeleteReply
  <1> QED
    BY <1>4, ReleaseFrees, IInvSplitNext DEF DeleteReply

LEMMA PullReplyKeeps ==
    ASSUME IInv, NEW i \in DOMAIN calls, NEW rows \in Answers,
           PullReply(i, rows)
    PROVE  IInv'
  <1> USE IInvSplit
  <1>1. MergeRows(Here("progress"), rows) \in Payload
    BY HereTyped, FileNames, RemoteWritesTyped DEF Events, Answers
  <1>2. accum' \in [Keys -> Rows]
    BY DEF PullReply, DataOK
  <1>3. DataOK'
    BY <1>1, <1>2, ToFileTyped, FileNames DEF PullReply
  <1>4. SlotOK'
    BY ChainKeeps, RequestTyped DEF PullReply, DataOK, Kinds, PullKinds
  <1> QED
    BY <1>3, <1>4, IInvSplitNext

LEMMA CursorReplyKeeps ==
    ASSUME IInv, NEW i \in DOMAIN calls, NEW f \in Files,
           NEW parsed \in BOOLEAN, NEW c \in Events,
           CursorReply(i, f, parsed, c)
    PROVE  IInv'
  <1> USE IInvSplit
  <1>1. SetCursor(Here(f), c) \in Payload
    BY HereTyped, RemoteWritesTyped, NoRowsTyped
  <1>2. DataOK'
    BY <1>1, ToFileTyped DEF CursorReply, DataOK
  <1> QED
    BY <1>2, ReleaseFrees, IInvSplitNext DEF CursorReply

LEMMA DeltaReplyKeeps ==
    ASSUME IInv, NEW i \in DOMAIN calls, NEW events \in Batches, NEW last \in Events,
           DeltaReply(i, events, last) \/ WatchedDeltaReply(i, events, last)
    PROVE  IInv'
  <1> USE IInvSplit
  <1>1. \A f \in Files : Advanced(ApplyDelta(f, Here(f), events), last) \in Payload
    BY HereTyped, DeltasTyped
  <1>2. DataOK'
    BY <1>1, ToFileTyped, FileNames DEF DeltaReply, WatchedDeltaReply, DataOK
  <1> QED
    BY <1>2, ReleaseFrees, IInvSplitNext DEF DeltaReply, WatchedDeltaReply

LEMMA WatchedPushReplyKeeps ==
    ASSUME IInv, NEW i \in DOMAIN calls, WatchedPushReply(i)
    PROVE  IInv'
  <1> USE IInvSplit
  <1> DEFINE h == Head(handlers)
             next == [h EXCEPT !.kind = "watchedDelete", !.deletes = {}]
  <1>1. h \in Handler /\ h.keys \in SUBSET Keys
    BY HandlerTyped
  <1>2. accum' \in [Keys -> Rows] /\ UNCHANGED ReplyVars
    BY DEF WatchedPushReply, DataOK
  <1>3. CASE h.deletes # {}
    <2>1. Chain(i, Request("watchedDelete"), next) /\ UNCHANGED disk
      BY <1>3 DEF WatchedPushReply
    <2>2. next \in Handler /\ next.kind = "watchedDelete"
      BY <1>1 DEF Handler, Kinds, PushKinds
    <2>3. SlotOK'
      <3> HIDE DEF next, h
      <3> QED
        BY <2>1, <2>2, ChainKeeps, RequestTyped
           DEF DataOK, Kinds, PushKinds
    <2>4. DataOK'
      BY <1>2, <2>1 DEF ReplyVars, DataOK
    <2> QED
      BY <2>3, <2>4, IInvSplitNext
  <1>4. CASE h.deletes = {}
    <2>1. ToFile("watched", ClearDirty(Here("watched"), h.keys))
          /\ Release(i, OneLess)
      BY <1>4 DEF WatchedPushReply
    <2>2. DataOK'
      BY <1>1, <1>2, <2>1, ToFileTyped, HereTyped, FileNames, RemoteWritesTyped,
         NoRowsTyped
         DEF Events
    <2> QED
      BY <2>1, <2>2, ReleaseFrees, IInvSplitNext
  <1> QED
    BY <1>3, <1>4

LEMMA WatchedDeleteReplyKeeps ==
    ASSUME IInv, NEW i \in DOMAIN calls, WatchedDeleteReply(i)
    PROVE  IInv'
  <1> USE IInvSplit
  <1>1. Head(handlers).keys \in SUBSET Keys
    BY HandlerTyped
  <1>2. ClearDirty(Here("watched"), Head(handlers).keys) \in Payload
    BY <1>1, HereTyped, FileNames, RemoteWritesTyped, NoRowsTyped DEF Events
  <1>3. accum' \in [Keys -> Rows]
    BY DEF WatchedDeleteReply, DataOK
  <1>4. DataOK'
    BY <1>2, <1>3, ToFileTyped, FileNames DEF WatchedDeleteReply
  <1> QED
    BY <1>4, ReleaseFrees, IInvSplitNext DEF WatchedDeleteReply

LEMMA WatchedPageReplyKeeps ==
    ASSUME IInv, NEW i \in DOMAIN calls, NEW rows \in Answers,
           WatchedPageReply(i, rows)
    PROVE  IInv'
  <1> USE IInvSplit
  <1> DEFINE count == Cardinality({k \in Keys : rows[k] # NoRow})
             page  == Head(handlers).page
             next  == [Plain("watchedPage") EXCEPT !.page = page + 1]
             all   == [k \in Keys |-> IF Newer(accum[k], rows[k])
                                      THEN rows[k] ELSE accum[k]]
  <1>1. all \in [Keys -> Rows]
    BY DEF Answers, DataOK
  <1>2. profile \in Profiles /\ {"watchedPage", "watchedCursor"} \subseteq Kinds
    BY DEF DataOK, Kinds, PullKinds
  <1>3. next \in Handler /\ next.kind = "watchedPage"
    <2>1. page \in Nat
      BY HandlerTyped DEF Handler
    <2>2. Plain("watchedPage") \in Handler /\ Plain("watchedPage").kind = "watchedPage"
      BY <1>2, RequestTyped
    <2> QED
      BY <2>1, <2>2 DEF Handler
  <1>4. UNCHANGED ReplyVars
    BY DEF WatchedPageReply
  <1>5. CASE count >= PageSize
    <2>1. /\ accum' = all
          /\ Chain(i, Request("watchedPage"), next)
          /\ UNCHANGED disk
      BY <1>5 DEF WatchedPageReply
    <2> HIDE DEF all, next
    <2>2. DataOK'
      BY <1>1, <1>4, <2>1 DEF ReplyVars, DataOK
    <2>3. SlotOK'
      BY <1>2, <1>3, <2>1, ChainKeeps, RequestTyped
    <2> QED
      BY <2>2, <2>3, IInvSplitNext
  <1>6. CASE ~(count >= PageSize)
    <2>1. /\ accum' = NoRows
          /\ ToFile("watched", MergeRows(Here("watched"), all))
          /\ Chain(i, Request("watchedCursor"), Plain("watchedCursor"))
      BY <1>6 DEF WatchedPageReply
    <2> HIDE DEF all, next
    <2>2. MergeRows(Here("watched"), all) \in Payload
      BY <1>1, HereTyped, FileNames, RemoteWritesTyped DEF Events
    <2>3. DataOK'
      BY <1>4, <2>1, <2>2, ToFileTyped, FileNames, NoRowsTyped
    <2>4. SlotOK'
      BY <1>2, <2>1, ChainKeeps, RequestTyped
    <2> QED
      BY <2>3, <2>4, IInvSplitNext
  <1> QED
    BY <1>5, <1>6

LEMMA ReplyKeeps ==
    ASSUME IInv, Reply
    PROVE  IInv'
  <1>1. PICK i \in DOMAIN calls : ReplyTo(i)
    BY DEF Reply
  <1>2. CASE RequestFails(i)
    BY <1>2, RequestFailsKeeps
  <1>3. CASE PushReply(i) \/ DeleteReply(i)
    BY <1>3, PushReplyKeeps, DeleteReplyKeeps
  <1>4. CASE WatchedPushReply(i) \/ WatchedDeleteReply(i)
    BY <1>4, WatchedPushReplyKeeps, WatchedDeleteReplyKeeps
  <1>5. ASSUME NEW rows \in Answers, PullReply(i, rows) \/ WatchedPageReply(i, rows)
        PROVE  IInv'
    BY <1>5, PullReplyKeeps, WatchedPageReplyKeeps
  <1>6. ASSUME NEW f \in Files, NEW parsed \in BOOLEAN, NEW c \in Events,
               CursorReply(i, f, parsed, c)
        PROVE  IInv'
    BY <1>6, CursorReplyKeeps
  <1>7. ASSUME NEW events \in Batches, NEW last \in Events,
               DeltaReply(i, events, last) \/ WatchedDeltaReply(i, events, last)
        PROVE  IInv'
    BY <1>7, DeltaReplyKeeps
  <1> QED
    BY <1>1, <1>2, <1>3, <1>4, <1>5, <1>6, <1>7 DEF ReplyTo

-----------------------------------------------------------------------------
LEMMA NextKeeps ==
    ASSUME IInv, [Next]_vars
    PROVE  IInv'
  <1>1. CASE Local
    BY <1>1, SavePositionKeeps, CompleteOrMarkWatchedKeeps, UnmarkWatchedKeeps,
       RecorderReadsKeeps DEF Local
  <1>2. CASE Session
    BY <1>2, SessionKeeps
  <1>3. CASE Pulls
    BY <1>3, PullsKeep
  <1>4. CASE Reply
    BY <1>4, ReplyKeeps
  <1>5. CASE \E f \in Files : DebounceFires(f)
    BY <1>5, DebounceKeeps
  <1>6. CASE UNCHANGED vars
    BY <1>6 DEF vars, IInv, TypeOK, SerialSlot
  <1> QED
    BY <1>1, <1>2, <1>3, <1>4, <1>5, <1>6 DEF Next

LEMMA InductiveInvariant == Spec => []IInv
  BY InitIInv, NextKeeps, PTL DEF Spec

\* Whatever the profiles, keys and bounds, the state of the controller and of
\* both files stays what the code declares it to be.
THEOREM TypeCorrect == Spec => []TypeOK
  <1>1. IInv => TypeOK
    BY DEF IInv
  <1> QED
    BY <1>1, InductiveInvariant, PTL

\* ProgressSyncController never has two requests open, its counter agrees, and
\* the lambda that a reply wakes is the one written for that request.
THEOREM RepliesReachTheirHandler == Spec => []SerialSlot
  <1>1. IInv => SerialSlot
    BY DEF IInv
  <1> QED
    BY <1>1, InductiveInvariant, PTL

-----------------------------------------------------------------------------
(* What a step does to the slot: every operation takes it, follows a reply by *)
(* the next request, gives it back, or leaves it alone.                      *)

\* The keys a handler will clear, now or on its deletions, are of its push.
InBatch(h) == h.keys \subseteq h.batch /\ h.deletes \subseteq h.batch

Takes ==
    \E call \in Call, h \in Handler :
        inFlight = 0 /\ call.kind = h.kind /\ InBatch(h) /\ Start(call, h)

Chains ==
    \E i \in DOMAIN calls, call \in Call, h \in Handler :
        /\ call.kind = h.kind
        /\ InBatch(Head(handlers)) => InBatch(h)
        /\ call.kind # Head(handlers).kind =>
              <<Head(handlers).kind, call.kind>> \in Follows
        /\ Chain(i, call, h)

Frees ==
    \E i \in DOMAIN calls, slot \in {0, OneLess, inFlight - 1} : Release(i, slot)

Empties == inFlight' = 0 /\ calls' = <<>> /\ handlers' = <<>>

SlotStep == UNCHANGED slotVars \/ Takes \/ Chains \/ Frees \/ Empties

LEMMA PlainInBatch == ASSUME NEW kind PROVE InBatch(Plain(kind))
  BY DEF InBatch, Plain

LEMMA PushTakes ==
    ASSUME IInv, NEW f \in Files, DebounceFires(f)
    PROVE  SlotStep
  <1> DEFINE dirty   == Here(f).dirty
             present == {k \in dirty : Has(Here(f), k)}
             handler(kind, later) ==
                 [kind |-> kind, keys |-> dirty, deletes |-> later, page |-> 1,
                  batch |-> dirty, sent |-> Here(f).row]
  <1>1. PICK push \in PushKinds, delete \in PushKinds : PushOrDelete(f, push, delete)
    <2>1. CASE f = "progress"
      BY <2>1 DEF DebounceFires, PushDirty, PushKinds
    <2>2. CASE f = "watched"
      BY <2>2 DEF DebounceFires, PushWatchedDirty, PushKinds
    <2> QED
      BY <2>1, <2>2 DEF Files
  <1>2. dirty \in SUBSET Keys /\ Here(f).row \in [Keys -> Rows]
    BY IInvSplit, HereTyped DEF Payload
  <1>3. \A kind \in PushKinds, later \in SUBSET dirty :
            /\ handler(kind, later) \in Handler
            /\ handler(kind, later).kind = kind
            /\ InBatch(handler(kind, later))
    BY <1>2 DEF Handler, Kinds, InBatch
  <1>4. \A kind \in PushKinds : Request(kind) \in Call /\ Request(kind).kind = kind
    BY IInvSplit, RequestTyped DEF DataOK, Kinds
  <1>5. CASE ~Ready \/ dirty = {}
    BY <1>1, <1>5 DEF PushOrDelete, SlotStep
  <1>6. CASE Ready /\ dirty # {} /\ present # {}
    <2>1. Start(Request(push), handler(push, dirty \ present)) /\ inFlight = 0
      BY <1>1, <1>6 DEF PushOrDelete, Ready
    <2>2. dirty \ present \in SUBSET dirty
      OBVIOUS
    <2> HIDE DEF handler, present, dirty
    <2> QED
      BY <1>3, <1>4, <2>1, <2>2 DEF SlotStep, Takes
  <1>7. CASE Ready /\ dirty # {} /\ present = {}
    <2>1. Start(Request(delete), handler(delete, {})) /\ inFlight = 0
      BY <1>1, <1>7 DEF PushOrDelete, Ready
    <2>2. {} \in SUBSET dirty
      OBVIOUS
    <2> HIDE DEF handler, present, dirty
    <2> QED
      BY <1>3, <1>4, <2>1, <2>2 DEF SlotStep, Takes
  <1> QED
    BY <1>5, <1>6, <1>7

LEMMA PullsTake ==
    ASSUME IInv, Pulls
    PROVE  SlotStep
  <1>1. PICK f \in Files, delta \in Kinds, full \in Kinds :
            /\ inFlight = 0
            /\ \/ Start([kind |-> delta, profile |-> profile, after |-> Here(f).cursor],
                        Plain(delta))
               \/ Start(Request(full), Plain(full))
    <2>1. {"pull", "delta", "watchedPage", "watchedDelta"} \subseteq Kinds
      BY DEF Kinds, PullKinds
    <2>2. CASE FullSyncThenDeltas
      BY <2>1, <2>2, FileNames DEF FullSyncThenDeltas, BeginPull, Ready
    <2>3. CASE FullWatchedSyncThenDeltas
      BY <2>1, <2>3, FileNames DEF FullWatchedSyncThenDeltas, BeginWatchedPull, Ready
    <2> QED
      BY <2>2, <2>3 DEF Pulls
  <1>2. DataOK /\ profile \in Profiles
    BY IInvSplit DEF DataOK
  <1> QED
    BY <1>1, <1>2, PullCallsTyped, RequestTyped, PlainInBatch DEF SlotStep, Takes

LEMMA ChainsPlain ==
    ASSUME IInv, NEW i \in DOMAIN calls, NEW kind \in Kinds, NEW h \in Handler,
           h.kind = kind, InBatch(Head(handlers)) => InBatch(h),
           \/ kind = Head(handlers).kind
           \/ <<Head(handlers).kind, kind>> \in Follows,
           Chain(i, Request(kind), h)
    PROVE  Chains
  <1>1. Request(kind) \in Call /\ Request(kind).kind = kind
    BY IInvSplit, RequestTyped DEF DataOK
  <1> QED
    BY <1>1 DEF Chains

LEMMA ReplyMovesSlot ==
    ASSUME IInv, NEW i \in DOMAIN calls, ReplyTo(i)
    PROVE  Chains \/ Frees
  <1> DEFINE h == Head(handlers)
  <1>1. /\ h \in Handler /\ h.keys \in SUBSET Keys /\ h.deletes \in SUBSET Keys
        /\ SlotOK /\ profile \in Profiles
    BY IInvSplit, HandlerTyped DEF DataOK
  <1>2. \A kind \in Kinds : Plain(kind) \in Handler /\ Plain(kind).kind = kind
    BY <1>1, RequestTyped
  <1>3. {"delete", "watchedDelete", "cursor", "watchedCursor", "watchedPage"} \subseteq Kinds
    BY DEF Kinds, PushKinds, PullKinds
  <1>4. CASE RequestFails(i)
    BY <1>4 DEF RequestFails, Frees
  <1>5. CASE PushReply(i)
    <2> DEFINE next == [h EXCEPT !.kind = "delete", !.keys = h.deletes, !.deletes = {}]
    <2>1. CASE h.deletes = {}
      BY <1>5, <2>1 DEF PushReply, Frees
    <2>2. CASE h.deletes # {}
      <3>1. Chain(i, Request("delete"), next) /\ h.kind = "push"
        BY <1>5, <2>2 DEF PushReply, Woken
      <3>2. next \in Handler /\ next.kind = "delete"
        BY <1>1, <1>3 DEF Handler
      <3>3. InBatch(h) => InBatch(next)
        BY <1>1 DEF InBatch, Handler
      <3>4. <<h.kind, "delete">> \in Follows
        BY <3>1 DEF Follows
      <3> HIDE DEF next, h
      <3>5. InBatch(Head(handlers)) => InBatch(next)
        BY <3>3 DEF h
      <3>6. <<Head(handlers).kind, "delete">> \in Follows
        BY <3>4 DEF h
      <3> QED
        BY <1>3, <3>1, <3>2, <3>5, <3>6, ChainsPlain
    <2> QED
      BY <2>1, <2>2
  <1>6. CASE WatchedPushReply(i)
    <2> DEFINE next == [h EXCEPT !.kind = "watchedDelete", !.deletes = {}]
    <2>1. CASE h.deletes = {}
      BY <1>6, <2>1 DEF WatchedPushReply, Frees
    <2>2. CASE h.deletes # {}
      <3>1. Chain(i, Request("watchedDelete"), next) /\ h.kind = "watchedPush"
        BY <1>6, <2>2 DEF WatchedPushReply, Woken
      <3>2. next \in Handler /\ next.kind = "watchedDelete"
        BY <1>1, <1>3 DEF Handler
      <3>3. InBatch(h) => InBatch(next)
        BY <1>1 DEF InBatch, Handler
      <3>4. <<h.kind, "watchedDelete">> \in Follows
        BY <3>1 DEF Follows
      <3> HIDE DEF next, h
      <3>5. InBatch(Head(handlers)) => InBatch(next)
        BY <3>3 DEF h
      <3>6. <<Head(handlers).kind, "watchedDelete">> \in Follows
        BY <3>4 DEF h
      <3> QED
        BY <1>3, <3>1, <3>2, <3>5, <3>6, ChainsPlain
    <2> QED
      BY <2>1, <2>2
  <1>7. CASE DeleteReply(i) \/ WatchedDeleteReply(i)
    BY <1>7 DEF DeleteReply, WatchedDeleteReply, Frees
  <1>8. ASSUME NEW rows \in Answers, PullReply(i, rows)
        PROVE  Chains
    <2>1. h.kind = "pull" /\ Chain(i, Request("cursor"), Plain("cursor"))
      BY <1>8 DEF PullReply, Woken
    <2>2. <<h.kind, "cursor">> \in Follows
      BY <2>1 DEF Follows
    <2> QED
      BY <1>2, <1>3, <2>1, <2>2, PlainInBatch, ChainsPlain
  <1>9. ASSUME NEW rows \in Answers, WatchedPageReply(i, rows)
        PROVE  Chains
    <2> DEFINE next == [Plain("watchedPage") EXCEPT !.page = h.page + 1]
    <2>1. h.kind = "watchedPage"
      BY <1>9 DEF WatchedPageReply, Woken
    <2>2. CASE Chain(i, Request("watchedPage"), next)
      <3>1. next \in Handler /\ next.kind = "watchedPage" /\ InBatch(next)
        <4>1. h.page + 1 \in Nat
          BY <1>1 DEF Handler
        <4>2. Plain("watchedPage") \in Handler /\ Plain("watchedPage").kind = "watchedPage"
          BY <1>2, <1>3
        <4> HIDE DEF h
        <4>3. next \in Handler /\ next.kind = "watchedPage"
          BY <4>1, <4>2 DEF Handler
        <4>4. InBatch(next)
          BY DEF InBatch, Plain
        <4> QED
          BY <4>3, <4>4
      <3> HIDE DEF next
      <3> QED
        BY <1>3, <2>1, <2>2, <3>1, ChainsPlain
    <2>3. CASE Chain(i, Request("watchedCursor"), Plain("watchedCursor"))
      <3>1. <<h.kind, "watchedCursor">> \in Follows
        BY <2>1 DEF Follows
      <3> QED
        BY <1>2, <1>3, <2>3, <3>1, PlainInBatch, ChainsPlain
    <2> QED
      BY <1>9, <2>2, <2>3 DEF WatchedPageReply
  <1>10. ASSUME NEW f \in Files, NEW parsed \in BOOLEAN, NEW c \in Events,
                CursorReply(i, f, parsed, c)
         PROVE  Frees
    BY <1>10 DEF CursorReply, Frees
  <1>11. ASSUME NEW events \in Batches, NEW last \in Events,
                DeltaReply(i, events, last) \/ WatchedDeltaReply(i, events, last)
         PROVE  Frees
    BY <1>11 DEF DeltaReply, WatchedDeltaReply, Frees
  <1> QED
    BY <1>4, <1>5, <1>6, <1>7, <1>8, <1>9, <1>10, <1>11 DEF ReplyTo

LEMMA SlotSteps ==
    ASSUME IInv, [Next]_vars
    PROVE  SlotStep
  <1>1. CASE Local
    BY <1>1 DEF Local, SavePosition, CompleteOrMarkWatched, UnmarkWatched, RecorderReads,
                LocalVars, SlotStep, slotVars
  <1>2. CASE Session
    BY <1>2 DEF Session, SignInOrOut, Restart, SwitchProfile, SlotStep, Empties, slotVars
  <1>3. CASE Pulls
    BY <1>3, PullsTake
  <1>4. CASE Reply
    BY <1>4, ReplyMovesSlot DEF Reply, SlotStep
  <1>5. CASE \E f \in Files : DebounceFires(f)
    BY <1>5, PushTakes
  <1>6. CASE UNCHANGED vars
    BY <1>6 DEF vars, SlotStep, slotVars
  <1> QED
    BY <1>1, <1>2, <1>3, <1>4, <1>5, <1>6 DEF Next

-----------------------------------------------------------------------------
(* The safety half of the refinement of SerialRpc. *)

\* The kinds of a sequence of one request, or of one handler.
LEMMA KindsOfOne ==
    ASSUME NEW s, NEW S, s \in Seq(S), Len(s) = 1
    PROVE  [i \in DOMAIN s |-> s[i].kind] = <<s[1].kind>>
  <1>1. DOMAIN s = 1..1
    BY LenProperties
  <1>2. [i \in 1..1 |-> s[i].kind] = <<s[1].kind>>
    OBVIOUS
  <1> QED
    BY <1>1, <1>2

LEMMA KindsOfNone ==
    [i \in DOMAIN << >> |-> << >>[i].kind] = << >>
  OBVIOUS

\* A slot in use holds one kind.
LEMMA SlotHolds ==
    ASSUME SlotOK, NEW i \in DOMAIN calls
    PROVE  Head(handlers).kind \in Kinds /\ Rpc!Holds(Head(handlers).kind)
  <1>1. /\ inFlight = 1 /\ calls \in Seq(Call) /\ Len(calls) = 1
        /\ handlers \in Seq(Handler) /\ Len(handlers) = 1
        /\ Head(handlers).kind = calls[1].kind
        /\ Head(handlers) = handlers[1] /\ Head(handlers) \in Handler
    BY SlotInUse, OnlyOne DEF SlotOK
  <1> QED
    BY <1>1, KindsOfOne DEF Rpc!Holds, Handler

\* An operation that takes the slot holds it.
LEMMA FullHolds ==
    ASSUME NEW call \in Call, NEW handler \in Handler, call.kind = handler.kind,
           inFlight' = 1,
           calls' = Append(<<>>, call), handlers' = Append(<<>>, handler)
    PROVE  call.kind \in Kinds /\ Rpc!Holds(call.kind)'
  <1>1. /\ calls' \in Seq(Call) /\ Len(calls') = 1 /\ calls'[1] = call
        /\ handlers' \in Seq(Handler) /\ Len(handlers') = 1 /\ handlers'[1] = handler
    BY AppendToNone
  <1>2. /\ [i \in DOMAIN calls' |-> calls'[i].kind] = <<calls'[1].kind>>
        /\ [i \in DOMAIN handlers' |-> handlers'[i].kind] = <<handlers'[1].kind>>
    BY <1>1, KindsOfOne
  <1> QED
    BY <1>1, <1>2 DEF Rpc!Holds, Call

LEMMA EmptyIdles ==
    ASSUME Empties
    PROVE  Rpc!Idle'
  BY KindsOfNone DEF Empties, Rpc!Idle

\* A free slot is idle.
LEMMA FreeIdles ==
    ASSUME SlotOK, inFlight = 0
    PROVE  calls = <<>> /\ handlers = <<>> /\ Rpc!Idle
  <1>1. calls = <<>> /\ handlers = <<>>
    BY EmptySeq DEF SlotOK, SerialSlot
  <1> QED
    BY <1>1, KindsOfNone DEF Rpc!Idle

\* Each step of the controller is a step of SerialRpc or leaves it alone.
LEMMA StepRefines ==
    ASSUME IInv, SlotStep
    PROVE  [Rpc!SerialNext]_<<inFlight, [i \in DOMAIN calls |-> calls[i].kind],
                              [i \in DOMAIN handlers |-> handlers[i].kind]>>
  <1> USE IInvSplit
  <1>1. CASE UNCHANGED slotVars
    BY <1>1 DEF slotVars
  <1>2. CASE Takes
    <2>1. PICK call \in Call, h \in Handler :
              inFlight = 0 /\ call.kind = h.kind /\ Start(call, h)
      BY <1>2 DEF Takes
    <2>2. Rpc!Idle /\ calls = <<>> /\ handlers = <<>>
      BY <2>1, FreeIdles
    <2>3. call.kind \in Kinds /\ Rpc!Holds(call.kind)'
      BY <2>1, <2>2, FullHolds DEF Start
    <2> QED
      BY <2>2, <2>3 DEF Rpc!SerialNext, Rpc!Issue
  <1>3. CASE Chains
    <2>1. PICK i \in DOMAIN calls, call \in Call, h \in Handler :
              /\ call.kind = h.kind
              /\ call.kind # Head(handlers).kind =>
                    <<Head(handlers).kind, call.kind>> \in Follows
              /\ Chain(i, call, h)
      BY <1>3 DEF Chains
    <2>2. Head(handlers).kind \in Kinds /\ Rpc!Holds(Head(handlers).kind)
      BY SlotHolds
    <2>3. call.kind \in Kinds /\ Rpc!Holds(call.kind)'
      BY <2>1, SlotInUse, FullHolds DEF Chain
    <2>4. CASE call.kind = Head(handlers).kind
      BY <2>2, <2>3, <2>4 DEF Rpc!Holds
    <2>5. CASE call.kind # Head(handlers).kind
      BY <2>1, <2>2, <2>3, <2>5 DEF Rpc!SerialNext, Rpc!Follow
    <2> QED
      BY <2>4, <2>5
  <1>4. CASE Frees
    <2>1. PICK i \in DOMAIN calls, slot \in {0, OneLess, inFlight - 1} : Release(i, slot)
      BY <1>4 DEF Frees
    <2>2. Empties
      BY <2>1, SlotInUse DEF Release, OneLess, Empties
    <2>3. Head(handlers).kind \in Kinds /\ Rpc!Holds(Head(handlers).kind)
      BY SlotHolds
    <2> QED
      BY <2>2, <2>3, EmptyIdles DEF Rpc!SerialNext, Rpc!Finish
  <1>5. CASE Empties
    <2>1. Rpc!Idle'
      BY <1>5, EmptyIdles
    <2>2. CASE DOMAIN calls = {}
      <3>1. inFlight = 0
        BY <2>2, LenProperties DEF SlotOK, SerialSlot
      <3> QED
        BY <2>1, <3>1, FreeIdles DEF Rpc!Idle
    <2>3. ASSUME NEW i \in DOMAIN calls
          PROVE  Rpc!SerialNext
      BY <2>1, SlotHolds DEF Rpc!SerialNext, Rpc!Finish
    <2> QED
      BY <2>2, <2>3
  <1> QED
    BY <1>1, <1>2, <1>3, <1>4, <1>5 DEF SlotStep

\* ProgressSyncController keeps the safety half of SerialRpc for any keys,
\* profiles and bounds: a request is sent on a free slot, or on the reply to one
\* that it may follow, and nothing else moves the slot.
THEOREM SlotImplementsSerialRpc == Spec => Rpc!SerialSafety
  <1>1. Init => Rpc!Idle
    BY KindsOfNone DEF Init, Rpc!Idle
  <1>2. IInv /\ [Next]_vars => [Rpc!SerialNext]_Rpc!rpcVars
    BY SlotSteps, StepRefines DEF Rpc!rpcVars
  <1> QED
    BY <1>1, <1>2, InductiveInvariant, PTL DEF Spec, Rpc!SerialSafety

-----------------------------------------------------------------------------
(* What a reply writes. *)

\* No row of the file gets older.
RowsKeep(old, new) == \A k \in Keys : new.row[k] >= old.row[k] \/ new.row[k] = NoRow

LEMMA RemoteWritesKeep ==
    ASSUME NEW pay \in Payload, NEW rows \in [Keys -> Rows],
           NEW ks \in SUBSET Keys, NEW c \in Events
    PROVE  /\ RowsKeep(pay, MergeRows(pay, rows))
           /\ pay.dirty \subseteq MergeRows(pay, rows).dirty
           /\ RowsKeep(pay, ClearDirty(pay, ks))
           /\ ClearDirty(pay, ks).dirty = pay.dirty \ ks
           /\ RowsKeep(pay, SetCursor(pay, c))
           /\ pay.dirty \subseteq SetCursor(pay, c).dirty
  BY DEF RowsKeep, MergeRows, ClearDirty, SetCursor, Newer, Payload, Rows, NoRow, Stamps

\* The replies that clear marks, and those that keep them.
Acknowledges(i) == \/ PushReply(i) \/ DeleteReply(i)
                   \/ WatchedPushReply(i) \/ WatchedDeleteReply(i)

WritesKept == \E f \in Files, pay \in Payload :
                  /\ ToFile(f, pay)
                  /\ RowsKeep(Here(f), pay) /\ Here(f).dirty \subseteq pay.dirty

\* An answer of events writes rows that are not older, or that it deleted first.
DeltaWrites == \E f \in Files, pay \in Payload :
                   /\ ToFile(f, pay) /\ Here(f).dirty \subseteq pay.dirty
                   /\ \A k \in Keys : pay.row[k] >= Here(f).row[k] \/ DeltaDeletes(k)

ClearsKeys == \E f \in Files : ToFile(f, ClearDirty(Here(f), Head(handlers).keys))

LEMMA ReplyWrites ==
    ASSUME IInv, NEW i \in DOMAIN calls, ReplyTo(i)
    PROVE  \/ UNCHANGED disk \/ WritesKept \/ DeltaWrites
           \/ Acknowledges(i) /\ ClearsKeys
  <1>1. \A f \in Files : Here(f) \in Payload
    BY IInvSplit, HereTyped
  <1>2. CASE Acknowledges(i)
    BY <1>2, FileNames DEF Acknowledges, ClearsKeys, PushReply, DeleteReply,
                           WatchedPushReply, WatchedDeleteReply
  <1>3. CASE RequestFails(i)
    BY <1>3 DEF RequestFails
  <1>4. ASSUME NEW f \in Files, NEW rows \in [Keys -> Rows],
               ToFile(f, MergeRows(Here(f), rows))
        PROVE  WritesKept
    BY <1>1, <1>4, RemoteWritesTyped, RemoteWritesKeep DEF WritesKept, Events
  <1>5. ASSUME NEW rows \in Answers, PullReply(i, rows)
        PROVE  WritesKept
    BY <1>4, <1>5, FileNames DEF PullReply, Answers
  <1>6. ASSUME NEW rows \in Answers, WatchedPageReply(i, rows)
        PROVE  UNCHANGED disk \/ WritesKept
    <2> DEFINE all == [k \in Keys |-> IF Newer(accum[k], rows[k]) THEN rows[k] ELSE accum[k]]
    <2>1. all \in [Keys -> Rows]
      BY IInvSplit DEF DataOK, Answers
    <2>2. UNCHANGED disk \/ ToFile("watched", MergeRows(Here("watched"), all))
      BY <1>6 DEF WatchedPageReply
    <2> HIDE DEF all
    <2> QED
      BY <1>4, <2>1, <2>2, FileNames
  <1>7. ASSUME NEW f \in Files, NEW parsed \in BOOLEAN, NEW c \in Events,
               CursorReply(i, f, parsed, c)
        PROVE  UNCHANGED disk \/ WritesKept
    BY <1>1, <1>7, RemoteWritesTyped, RemoteWritesKeep, NoRowsTyped
       DEF CursorReply, WritesKept
  <1>8. ASSUME NEW events \in Batches, NEW last \in Events,
               DeltaReply(i, events, last) \/ WatchedDeltaReply(i, events, last)
        PROVE  DeltaWrites
    <2>1. PICK f \in Files : ToFile(f, Advanced(ApplyDelta(f, Here(f), events), last))
      BY <1>8, FileNames DEF DeltaReply, WatchedDeltaReply
    <2> DEFINE pay == ApplyDelta(f, Here(f), events)
    <2>2. events \in Seq(Event) /\ pay \in Payload
          /\ RowsGrow(Here(f), pay, events, Len(events))
      BY <1>1, BatchesAreSequences, DeltaGrows
    <2>3. /\ Advanced(pay, last) \in Payload
          /\ Advanced(pay, last).row = pay.row /\ Advanced(pay, last).dirty = pay.dirty
      BY <2>2 DEF Advanced, SetCursor, Payload
    <2> HIDE DEF pay
    <2>4. ASSUME NEW k \in Keys, ~(pay.row[k] >= Here(f).row[k])
          PROVE  DeltaDeletes(k)
      <3>1. \E j \in 1..Len(events) : events[j] = [key |-> k, stamp |-> NoRow]
        BY <2>2, <2>4 DEF RowsGrow
      <3>2. Deletes(events, k)
        BY <2>2, <3>1 DEF Deletes
      <3> QED
        BY <1>8, <3>2 DEF DeltaDeletes
    <2> QED
      BY <2>1, <2>2, <2>3, <2>4 DEF DeltaWrites, RowsGrow, pay
  <1> QED
    BY <1>2, <1>3, <1>5, <1>6, <1>7, <1>8 DEF ReplyTo, Acknowledges

\* ToFile writes one profile of one file.
LEMMA OneRecord ==
    ASSUME DataOK, NEW f \in Files, NEW pay, ToFile(f, pay),
           NEW g \in Files, NEW p \in Profiles
    PROVE  disk'[g][p] = IF g = f /\ p = profile THEN pay ELSE disk[g][p]
  BY DEF ToFile, DataOK

\* Every step that writes a file without the clock is a reply.
LEMMA QuietSteps ==
    ASSUME IInv, [Next]_vars, clock' = clock
    PROVE  UNCHANGED disk \/ Reply
  <1>1. CASE Local
    <2>1. clock \in Nat
      BY IInvSplit DEF DataOK
    <2> QED
      BY <1>1, <2>1 DEF Local, SavePosition, CompleteOrMarkWatched, UnmarkWatched,
                        RecorderReads, Tick
  <1>2. CASE Session
    BY <1>2 DEF Session, SignInOrOut, Restart, SwitchProfile, storeVars
  <1>3. CASE Pulls
    BY <1>3 DEF Pulls, FullSyncThenDeltas, FullWatchedSyncThenDeltas, storeVars
  <1>4. CASE \E f \in Files : DebounceFires(f)
    BY <1>4 DEF DebounceFires, storeVars
  <1>5. CASE UNCHANGED vars
    BY <1>5 DEF vars
  <1> QED
    BY <1>1, <1>2, <1>3, <1>4, <1>5 DEF Next

LEMMA RowsStay == ASSUME IInv PROVE UNCHANGED disk => NeverAges
  <1>1. \A f \in Files, p \in Profiles, k \in Keys : disk[f][p].row[k] \in Nat
    BY IInvParts DEF Payload, Rows, NoRow, Stamps
  <1> QED
    BY <1>1 DEF NeverAges

LEMMA StepNeverAges ==
    ASSUME IInv, [Next]_vars
    PROVE  NeverAges
  <1>1. CASE clock' # clock
    BY <1>1 DEF NeverAges
  <1>2. CASE UNCHANGED disk
    BY <1>2, RowsStay
  <1>3. ASSUME NEW f \in Files, NEW pay, ToFile(f, pay), RowsKeep(Here(f), pay)
        PROVE  NeverAges
    <2> SUFFICES ASSUME NEW g \in Files, NEW p \in Profiles, NEW k \in Keys
                 PROVE  \/ disk'[g][p].row[k] >= disk[g][p].row[k]
                        \/ disk'[g][p].row[k] = NoRow
      BY DEF NeverAges
    <2>1. disk'[g][p] = IF g = f /\ p = profile THEN pay ELSE disk[g][p]
      BY <1>3, IInvSplit, OneRecord
    <2>2. disk[g][p].row[k] \in Nat
      BY IInvParts DEF Payload, Rows, NoRow, Stamps
    <2> QED
      BY <1>3, <2>1, <2>2 DEF RowsKeep, Here
  <1>4. CASE WritesKept
    BY <1>3, <1>4 DEF WritesKept
  <1>5. ASSUME NEW i \in DOMAIN calls, ClearsKeys
        PROVE  NeverAges
    <2>1. PICK f \in Files : ToFile(f, ClearDirty(Here(f), Head(handlers).keys))
      BY <1>5 DEF ClearsKeys
    <2>2. Here(f) \in Payload /\ Head(handlers).keys \in SUBSET Keys
      BY IInvSplit, HereTyped, HandlerTyped
    <2>3. RowsKeep(Here(f), ClearDirty(Here(f), Head(handlers).keys))
      BY <2>2, RemoteWritesKeep, NoRowsTyped DEF Events
    <2> QED
      BY <1>3, <2>1, <2>3
  <1>6. CASE DeltaWrites
    <2>1. PICK f \in Files, pay \in Payload :
              /\ ToFile(f, pay)
              /\ \A k \in Keys : pay.row[k] >= Here(f).row[k] \/ DeltaDeletes(k)
      BY <1>6 DEF DeltaWrites
    <2> SUFFICES ASSUME NEW g \in Files, NEW p \in Profiles, NEW k \in Keys
                 PROVE  disk'[g][p].row[k] >= disk[g][p].row[k] \/ DeltaDeletes(k)
      BY DEF NeverAges
    <2>2. disk'[g][p] = IF g = f /\ p = profile THEN pay ELSE disk[g][p]
      BY <2>1, IInvSplit, OneRecord
    <2>3. disk[g][p].row[k] \in Nat
      BY IInvParts DEF Payload, Rows, NoRow, Stamps
    <2> QED
      BY <2>1, <2>2, <2>3 DEF Here
  <1> QED
    BY <1>1, <1>2, <1>4, <1>5, <1>6, QuietSteps, ReplyWrites DEF Reply

\* No reply of the server puts an older row over a newer one, in either file,
\* unless an event before it deletes the newer one, for any keys, profiles, stamps,
\* pages and events.
THEOREM NoReplyAges == Spec => RepliesNeverAge
  <1>1. IInv /\ [Next]_vars => [NeverAges]_disk
    BY StepNeverAges
  <1> QED
    BY <1>1, InductiveInvariant, PTL DEF Spec, RepliesNeverAge

-----------------------------------------------------------------------------
(* The marks. *)

\* The connected handler clears, now or after its deletions, keys of its push.
BatchOK == handlers # <<>> => InBatch(Head(handlers))

LEMMA BatchOfOne ==
    ASSUME NEW h, InBatch(h), handlers' = Append(<<>>, h)
    PROVE  BatchOK'
  <1>1. Head(Append(<<>>, h)) = h
    OBVIOUS
  <1> QED
    BY <1>1 DEF BatchOK, InBatch

LEMMA BatchKept ==
    ASSUME IInv, BatchOK, SlotStep
    PROVE  BatchOK'
  <1> USE IInvSplit
  <1>1. CASE UNCHANGED slotVars
    BY <1>1 DEF slotVars, BatchOK, InBatch
  <1>2. CASE Takes
    BY <1>2, FreeIdles, BatchOfOne DEF Takes, Start
  <1>3. CASE Chains
    BY <1>3, SlotInUse, BatchOfOne DEF Chains, Chain, BatchOK
  <1>4. CASE Frees
    BY <1>4, SlotInUse DEF Frees, Release, BatchOK
  <1>5. CASE Empties
    BY <1>5 DEF Empties, BatchOK
  <1> QED
    BY <1>1, <1>2, <1>3, <1>4, <1>5 DEF SlotStep

LEMMA StepLeavesByAck ==
    ASSUME IInv, BatchOK, [Next]_vars
    PROVE  LeaveByAck
  <1>1. CASE clock' # clock
    BY <1>1 DEF LeaveByAck
  <1>2. CASE UNCHANGED disk
    BY <1>2 DEF LeaveByAck
  <1>3. CASE WritesKept \/ DeltaWrites
    <2>1. PICK f \in Files, pay \in Payload :
              ToFile(f, pay) /\ Here(f).dirty \subseteq pay.dirty
      BY <1>3 DEF WritesKept, DeltaWrites
    <2>2. \A g \in Files, p \in Profiles :
              disk'[g][p] = IF g = f /\ p = profile THEN pay ELSE disk[g][p]
      BY <2>1, IInvSplit, OneRecord
    <2>3. \A g \in Files, p \in Profiles : disk[g][p].dirty \ disk'[g][p].dirty = {}
      BY <2>1, <2>2 DEF Here
    <2> QED
      BY <2>3 DEF LeaveByAck
  <1>4. ASSUME NEW i \in DOMAIN calls, Acknowledges(i), ClearsKeys
        PROVE  LeaveByAck
    <2>1. PICK f \in Files : ToFile(f, ClearDirty(Here(f), Head(handlers).keys))
      BY <1>4 DEF ClearsKeys
    <2>2. Here(f) \in Payload /\ Head(handlers).keys \in SUBSET Keys /\ handlers # <<>>
      BY IInvSplit, HereTyped, HandlerTyped, SlotInUse
    <2>3. Head(handlers).keys \subseteq Head(handlers).batch
      BY <2>2 DEF BatchOK, InBatch
    <2>4. ClearDirty(Here(f), Head(handlers).keys).dirty = Here(f).dirty \ Head(handlers).keys
      BY <2>2, RemoteWritesKeep, NoRowsTyped DEF Events
    <2>5. ASSUME NEW g \in Files, NEW p \in Profiles
          PROVE  disk[g][p].dirty \ disk'[g][p].dirty \subseteq Head(handlers).batch
      <3>1. disk'[g][p] = IF g = f /\ p = profile
                          THEN ClearDirty(Here(f), Head(handlers).keys) ELSE disk[g][p]
        BY <2>1, IInvSplit, OneRecord
      <3> QED
        BY <2>3, <2>4, <3>1 DEF Here
    <2> QED
      BY <1>4, <2>5 DEF LeaveByAck, Acknowledges
  <1> QED
    BY <1>1, <1>2, <1>3, <1>4, QuietSteps, ReplyWrites DEF Reply

\* A dirty mark leaves only by a local write or by the answer to a push that was
\* built while the key was marked, for any keys, profiles and pages.
THEOREM NoMarkIsLost == Spec => MarksLeaveByAck
  <1>1. Init => BatchOK
    BY DEF Init, BatchOK
  <1>2. IInv /\ BatchOK /\ [Next]_vars => BatchOK'
    BY SlotSteps, BatchKept
  <1>3. IInv /\ BatchOK /\ [Next]_vars => [LeaveByAck]_vars
    BY StepLeavesByAck
  <1> QED
    BY <1>1, <1>2, <1>3, InductiveInvariant, PTL DEF Spec, MarksLeaveByAck

=============================================================================
