------------------------- MODULE LibrarySync_proofs -------------------------
(***************************************************************************)
(* Proofs about LibrarySync, for any keys, profiles and bounds: a reply     *)
(* that wakes every connected lambda leaves the slot with one holder at     *)
(* most, the marks agreeing with the items, and pending items alone.        *)
(***************************************************************************)
EXTENDS LibrarySync, InductionLemmas, TLAPS

\* Every lambda but the cursor's keeps the slot until it runs.
Holds(h) == h.kind # "cursor"

Unheld(hs) == \A i \in DOMAIN hs : ~Holds(hs[i])

\* One lambda holds the slot when it is taken, none when it is free.
Slot(n, hs) ==
    /\ \A i, j \in DOMAIN hs : Holds(hs[i]) /\ Holds(hs[j]) => i = j
    /\ n = IF Unheld(hs) THEN 0 ELSE 1

Coherent(pay) == pay.up \subseteq pay.items /\ pay.del \cap pay.items = {}

Contexts == [pay : Payload, inFlight : Nat, calls : Seq(Call),
             handlers : Seq(Handler), accum : SUBSET Keys]

Good(c) == c \in Contexts /\ Coherent(c.pay) /\ Slot(c.inFlight, c.handlers)

\* The holder has been taken out of the lambdas and has not run yet.
Taken(c) == /\ c \in Contexts /\ Coherent(c.pay)
            /\ c.inFlight = 1 /\ Unheld(c.handlers)

\* The marks and the items of two payloads.
Same(p, q) == q.items = p.items /\ q.up = p.up /\ q.del = p.del

Kept(p, q) == \A k \in p.up \cup p.del : k \in q.items <=> k \in p.items

\* A step of an operation connects one lambda at most, behind the others.
Connects(c, d) == \/ d.handlers = c.handlers
                  \/ \E h \in Handler : d.handlers = Append(c.handlers, h)

Inv == TypeOK /\ PendingCoherent /\ Slot(inFlight, handlers)

AnswerSet == [kind : Kinds, ok : BOOLEAN, more : BOOLEAN, came : SUBSET Keys,
              gone : SUBSET Keys]

-----------------------------------------------------------------------------
(* The slot. *)

\* What a request adds to a context.
LEMMA SendAdds ==
    ASSUME NEW c \in Contexts, NEW kind \in Kinds, NEW keys \in SUBSET Keys,
           NEW h \in Handler
    PROVE  LET d == Send(c, kind, keys, h)
           IN  /\ d \in Contexts /\ d.pay = c.pay /\ d.inFlight = c.inFlight
               /\ d.handlers = Append(c.handlers, h)
               /\ Connects(c, d)
               /\ DOMAIN d.handlers = 1..(Len(c.handlers) + 1) /\ Len(c.handlers) \in Nat
               /\ DOMAIN c.handlers = 1..Len(c.handlers)
               /\ \A i \in 1..Len(c.handlers) : d.handlers[i] = c.handlers[i]
               /\ d.handlers[Len(c.handlers) + 1] = h
<1> DEFINE d == Send(c, kind, keys, h)
           cs == Append(c.calls, [kind |-> kind, keys |-> keys])
           hs == Append(c.handlers, h)
<1>1. /\ c.calls \in Seq(Call) /\ c.handlers \in Seq(Handler)
      /\ c = [pay |-> c.pay, inFlight |-> c.inFlight, calls |-> c.calls,
              handlers |-> c.handlers, accum |-> c.accum]
  BY DEF Contexts
<1>2. [kind |-> kind, keys |-> keys] \in Call
  BY DEF Call
<1>3. cs \in Seq(Call) /\ hs \in Seq(Handler)
  BY <1>1, <1>2
<1>4. d = [c EXCEPT !.calls = cs, !.handlers = hs]
  BY DEF Send
<1>5. /\ DOMAIN hs = 1..(Len(c.handlers) + 1) /\ Len(c.handlers) \in Nat
      /\ DOMAIN c.handlers = 1..Len(c.handlers)
      /\ \A i \in 1..Len(c.handlers) : hs[i] = c.handlers[i]
      /\ hs[Len(c.handlers) + 1] = h
  BY <1>1
<1> HIDE DEF cs, hs
<1>6. d \in Contexts /\ d.pay = c.pay /\ d.inFlight = c.inFlight /\ d.handlers = hs
  BY <1>3, <1>4 DEF Contexts
<1> HIDE DEF d
<1>7. Connects(c, d)
  BY <1>6 DEF Connects, hs
<1> QED
  BY <1>5, <1>6, <1>7 DEF d, hs

\* A request of a holder of the slot, its page or its keys, is connected.
LEMMA SendKeeps ==
    ASSUME NEW c, Taken(c), NEW kind \in Kinds, NEW keys \in SUBSET Keys,
           NEW h \in Handler, Holds(h)
    PROVE  /\ Good(Send(c, kind, keys, h))
           /\ Send(c, kind, keys, h).pay = c.pay
           /\ Connects(c, Send(c, kind, keys, h))
<1> DEFINE d == Send(c, kind, keys, h)
           n == Len(c.handlers)
<1>1. /\ d \in Contexts /\ d.pay = c.pay /\ d.inFlight = c.inFlight
      /\ Connects(c, d) /\ DOMAIN d.handlers = 1..(n + 1) /\ n \in Nat
      /\ DOMAIN c.handlers = 1..n /\ d.handlers[n + 1] = h
      /\ \A i \in 1..n : d.handlers[i] = c.handlers[i]
  <2>1. c \in Contexts
    BY DEF Taken
  <2> QED
    BY <2>1, SendAdds
<1> HIDE DEF d, n
<1>2. \A i \in DOMAIN d.handlers : Holds(d.handlers[i]) => i = n + 1
  BY <1>1 DEF Taken, Unheld
<1>3. ~Unheld(d.handlers)
  BY <1>1 DEF Unheld
<1>4. Good(d)
  BY <1>1, <1>2, <1>3 DEF Taken, Good, Slot
<1> QED
  BY <1>1, <1>4 DEF d

\* The cursor request leaves the slot as it is.
LEMMA CursorKeeps ==
    ASSUME NEW c, Good(c), NEW keys \in SUBSET Keys,
           NEW h \in Handler, ~Holds(h)
    PROVE  /\ Good(Send(c, "cursor", keys, h))
           /\ Send(c, "cursor", keys, h).pay = c.pay
           /\ Connects(c, Send(c, "cursor", keys, h))
<1> DEFINE d == Send(c, "cursor", keys, h)
           n == Len(c.handlers)
<1>1. /\ d \in Contexts /\ d.pay = c.pay /\ d.inFlight = c.inFlight
      /\ Connects(c, d) /\ DOMAIN d.handlers = 1..(n + 1) /\ n \in Nat
      /\ DOMAIN c.handlers = 1..n /\ d.handlers[n + 1] = h
      /\ \A i \in 1..n : d.handlers[i] = c.handlers[i]
  <2> DEFINE kind == "cursor"
  <2>1. c \in Contexts
    BY DEF Good
  <2>2. kind \in Kinds
    BY DEF Kinds
  <2> HIDE DEF kind
  <2>3. LET e == Send(c, kind, keys, h)
        IN  /\ e \in Contexts /\ e.pay = c.pay /\ e.inFlight = c.inFlight
            /\ Connects(c, e) /\ DOMAIN e.handlers = 1..(n + 1) /\ n \in Nat
            /\ DOMAIN c.handlers = 1..n /\ e.handlers[n + 1] = h
            /\ \A i \in 1..n : e.handlers[i] = c.handlers[i]
    <3> DEFINE e == Send(c, kind, keys, h)
    <3> HIDE DEF n
    <3>1. e \in Contexts /\ e.pay = c.pay /\ e.inFlight = c.inFlight /\ Connects(c, e)
      BY <2>1, <2>2, SendAdds
    <3>2. /\ DOMAIN e.handlers = 1..(n + 1) /\ n \in Nat
          /\ DOMAIN c.handlers = 1..n /\ e.handlers[n + 1] = h
          /\ \A i \in 1..n : e.handlers[i] = c.handlers[i]
      BY <2>1, <2>2, SendAdds DEF n
    <3> QED
      BY <3>1, <3>2
  <2> QED
    BY <2>3 DEF kind
<1> HIDE DEF d, n
<1>2. \A i \in DOMAIN d.handlers : Holds(d.handlers[i]) =>
          i \in DOMAIN c.handlers /\ Holds(c.handlers[i])
  BY <1>1
<1>3. Unheld(d.handlers) <=> Unheld(c.handlers)
  BY <1>1 DEF Unheld
<1>4. Good(d)
  BY <1>1, <1>2, <1>3 DEF Good, Slot
<1> QED
  BY <1>1, <1>4 DEF d

\* --m_inFlight by the holder, ++m_inFlight when nothing is open.
LEMMA SlotChanges ==
    ASSUME NEW c
    PROVE  /\ Taken(c) => Good(Give(c)) /\ Give(c).inFlight = 0
           /\ Good(c) /\ c.inFlight = 0 => Taken(Take(c))
           /\ c \in Contexts => /\ Give(c).pay = c.pay /\ Give(c).handlers = c.handlers
                                /\ Give(c).accum = c.accum
                                /\ Take(c).pay = c.pay /\ Take(c).handlers = c.handlers
<1>1. ASSUME c \in Contexts
      PROVE  /\ Give(c).pay = c.pay /\ Give(c).handlers = c.handlers
             /\ Take(c).pay = c.pay /\ Take(c).handlers = c.handlers
             /\ Give(c).accum = c.accum
             /\ Give(c).inFlight = c.inFlight - 1 /\ Take(c).inFlight = c.inFlight + 1
             /\ Take(c) \in Contexts
             /\ c.inFlight = 1 => Give(c) \in Contexts
  BY <1>1 DEF Contexts, Give, Take
<1>2. ASSUME Taken(c) PROVE Good(Give(c)) /\ Give(c).inFlight = 0
  BY <1>1, <1>2 DEF Taken, Good, Slot, Unheld
<1>3. ASSUME Good(c), c.inFlight = 0 PROVE Taken(Take(c))
  BY <1>1, <1>3 DEF Taken, Good, Slot
<1> QED
  BY <1>1, <1>2, <1>3

-----------------------------------------------------------------------------
(* The payload. *)

\* The snapshot and the events of a delta leave what is pending alone.
LEMMA MergesKeep ==
    ASSUME NEW pay \in Payload, Coherent(pay), NEW came \in SUBSET Keys,
           NEW gone \in SUBSET Keys
    PROVE  /\ MergeSnapshot(pay, came) \in Payload
           /\ Coherent(MergeSnapshot(pay, came)) /\ Kept(pay, MergeSnapshot(pay, came))
           /\ ApplyDelta(pay, came, gone) \in Payload
           /\ Coherent(ApplyDelta(pay, came, gone))
           /\ Kept(pay, ApplyDelta(pay, came, gone))
<1>1. /\ MergeSnapshot(pay, came) \in Payload
      /\ Coherent(MergeSnapshot(pay, came)) /\ Kept(pay, MergeSnapshot(pay, came))
  <2>1. CASE came = {} /\ pay.items # {} /\ pay.up = {} /\ pay.del = {}
    BY <2>1 DEF MergeSnapshot, Payload, Coherent, Kept
  <2>2. CASE ~(came = {} /\ pay.items # {} /\ pay.up = {} /\ pay.del = {})
    BY <2>2 DEF MergeSnapshot, Payload, Coherent, Kept
  <2> QED
    BY <2>1, <2>2
<1>2. /\ ApplyDelta(pay, came, gone) \in Payload
      /\ Coherent(ApplyDelta(pay, came, gone))
      /\ Kept(pay, ApplyDelta(pay, came, gone))
  BY DEF ApplyDelta, Payload, Coherent, Kept
<1> QED
  BY <1>1, <1>2

\* The edits of the pages' store.
LEMMA EditsKeep ==
    ASSUME NEW pay \in Payload, Coherent(pay), NEW k \in Keys
    PROVE  /\ AddItem(pay, k) \in Payload /\ Coherent(AddItem(pay, k))
           /\ RemoveItem(pay, k) \in Payload /\ Coherent(RemoveItem(pay, k))
BY DEF AddItem, RemoveItem, Payload, Coherent

-----------------------------------------------------------------------------
(* The operations. *)

\* What an operation may do: the context stays good, a lambda at most is
\* connected, and what is pending stays as it is.
Keeps(c, d) == Good(d) /\ Connects(c, d) /\ Kept(c.pay, d.pay)

\* The second leg of a push, or its end.
LEMMA DeletesKeep ==
    ASSUME NEW c, Taken(c), NEW dels \in SUBSET Keys
    PROVE  /\ Good(RunDeletes(c, dels)) /\ RunDeletes(c, dels).pay = c.pay
           /\ Connects(c, RunDeletes(c, dels))
<1>1. c \in Contexts
  BY DEF Taken
<1>2. CASE dels = {}
  BY <1>1, <1>2, SlotChanges DEF RunDeletes, Connects
<1>3. CASE dels # {}
  <2> DEFINE h == Hook("delete", dels, {}, 1)
  <2>1. h \in Handler /\ Holds(h)
    BY LibraryAssumption DEF Hook, Handler, Kinds, Holds
  <2>2. "delete" \in Kinds
    BY DEF Kinds
  <2> HIDE DEF h
  <2>3. /\ Good(Send(c, "delete", dels, h)) /\ Send(c, "delete", dels, h).pay = c.pay
        /\ Connects(c, Send(c, "delete", dels, h))
    BY <2>1, <2>2, SendKeeps
  <2> QED
    BY <1>3, <2>3 DEF RunDeletes, h
<1> QED
  BY <1>2, <1>3

\* A page is asked for when nothing holds the slot.
LEMMA PageKeeps ==
    ASSUME NEW c, Good(c), c.inFlight = 0, NEW page \in 1..MaxPages
    PROVE  /\ Good(FetchPage(c, page)) /\ FetchPage(c, page).pay = c.pay
           /\ Connects(c, FetchPage(c, page))
<1> DEFINE h == Hook("page", {}, {}, page)
<1>1. h \in Handler /\ Holds(h) /\ "page" \in Kinds
  BY DEF Hook, Handler, Kinds, Holds
<1>2. c \in Contexts
  BY DEF Good
<1>3. Taken(Take(c)) /\ Take(c).pay = c.pay /\ Take(c).handlers = c.handlers
  BY <1>2, SlotChanges
<1> HIDE DEF h
<1> DEFINE d == Send(Take(c), "page", {}, h)
<1>4. Good(d) /\ d.pay = Take(c).pay /\ Connects(Take(c), d)
  BY <1>1, <1>3, SendKeeps
<1>5. FetchPage(c, page) = d
  BY DEF FetchPage, h
<1> HIDE DEF d
<1> QED
  BY <1>3, <1>4, <1>5 DEF Connects

\* A push and a delta are sent only when nothing holds the slot.
LEMMA PushKeeps ==
    ASSUME NEW c, Good(c)
    PROVE  Good(PushDirty(c)) /\ PushDirty(c).pay = c.pay /\ Connects(c, PushDirty(c))
<1> DEFINE up == c.pay.up \cap c.pay.items
           del == c.pay.del
<1>1. c \in Contexts /\ up \in SUBSET Keys /\ del \in SUBSET Keys
  BY DEF Good, Contexts, Payload
<1>2. CASE ~signedIn \/ c.inFlight # 0 \/ c.pay.up \cup del = {}
  BY <1>2 DEF PushDirty, Connects
<1>3. CASE ~(~signedIn \/ c.inFlight # 0 \/ c.pay.up \cup del = {})
  <2>1. Taken(Take(c)) /\ Take(c).pay = c.pay /\ Take(c).handlers = c.handlers
    BY <1>1, <1>3, SlotChanges
  <2>2. CASE up = {}
    <3>1. PushDirty(c) = RunDeletes(Take(c), del)
      BY <1>3, <2>2 DEF PushDirty
    <3> QED
      BY <1>1, <2>1, <3>1, DeletesKeep DEF Connects
  <2>3. CASE up # {}
    <3> DEFINE h == Hook("push", up, del, 1)
    <3>1. h \in Handler /\ Holds(h)
      BY <1>1, LibraryAssumption DEF Hook, Handler, Kinds, Holds
    <3>2. "push" \in Kinds
      BY DEF Kinds
    <3>3. PushDirty(c) = Send(Take(c), "push", up, h)
      BY <1>3, <2>3 DEF PushDirty
    <3> HIDE DEF h, up
    <3> DEFINE d == Send(Take(c), "push", up, h)
    <3>4. Good(d) /\ d.pay = Take(c).pay /\ Connects(Take(c), d)
      BY <1>1, <2>1, <3>1, <3>2, SendKeeps
    <3> HIDE DEF d
    <3> QED
      BY <2>1, <3>3, <3>4 DEF Connects, d
  <2> QED
    BY <2>2, <2>3
<1> QED
  BY <1>2, <1>3

\* A delta is pulled by a session whose cursor is known and whose slot is free.
LEMMA DeltaKeeps ==
    ASSUME NEW c, Good(c)
    PROVE  Good(PullDelta(c)) /\ PullDelta(c).pay = c.pay /\ Connects(c, PullDelta(c))
<1>1. c \in Contexts
  BY DEF Good
<1>2. CASE ~signedIn \/ c.inFlight # 0 \/ ~c.pay.init
  BY <1>2 DEF PullDelta, Connects
<1>3. CASE ~(~signedIn \/ c.inFlight # 0 \/ ~c.pay.init)
  <2> DEFINE h == Hook("delta", {}, {}, 1)
  <2>1. Taken(Take(c)) /\ Take(c).pay = c.pay /\ Take(c).handlers = c.handlers
    BY <1>1, <1>3, SlotChanges
  <2>2. h \in Handler /\ Holds(h) /\ "delta" \in Kinds
    BY LibraryAssumption DEF Hook, Handler, Kinds, Holds
  <2>3. PullDelta(c) = Send(Take(c), "delta", {}, h)
    BY <1>3 DEF PullDelta
  <2> HIDE DEF h
  <2> DEFINE d == Send(Take(c), "delta", {}, h)
  <2>4. Good(d) /\ d.pay = Take(c).pay /\ Connects(Take(c), d)
    BY <2>1, <2>2, SendKeeps
  <2> HIDE DEF d
  <2> QED
    BY <2>1, <2>3, <2>4 DEF Connects, d
<1> QED
  BY <1>2, <1>3

-----------------------------------------------------------------------------
(* The lambdas. *)

\* Storing another payload or another accumulator touches nothing else.
LEMMA Stores ==
    ASSUME NEW c, Good(c) \/ Taken(c), NEW pay \in Payload, Coherent(pay),
           NEW keys \in SUBSET Keys
    PROVE  /\ LET d == [c EXCEPT !.pay = pay]
              IN  /\ d.pay = pay /\ d.handlers = c.handlers /\ d.inFlight = c.inFlight
                  /\ d.accum = c.accum
                  /\ (Good(c) => Good(d)) /\ (Taken(c) => Taken(d))
           /\ LET d == [c EXCEPT !.accum = keys]
              IN  /\ d.pay = c.pay /\ d.handlers = c.handlers /\ d.inFlight = c.inFlight
                  /\ d.accum = keys
                  /\ (Good(c) => Good(d)) /\ (Taken(c) => Taken(d))
<1>1. c \in Contexts
  BY DEF Good, Taken
<1>2. /\ [c EXCEPT !.pay = pay] \in Contexts /\ [c EXCEPT !.accum = keys] \in Contexts
      /\ [c EXCEPT !.pay = pay].pay = pay /\ [c EXCEPT !.accum = keys].pay = c.pay
      /\ [c EXCEPT !.pay = pay].handlers = c.handlers
      /\ [c EXCEPT !.accum = keys].handlers = c.handlers
      /\ [c EXCEPT !.pay = pay].inFlight = c.inFlight
      /\ [c EXCEPT !.accum = keys].inFlight = c.inFlight
      /\ [c EXCEPT !.pay = pay].accum = c.accum
      /\ [c EXCEPT !.accum = keys].accum = keys
  BY <1>1 DEF Contexts
<1> DEFINE d == [c EXCEPT !.pay = pay]
           e == [c EXCEPT !.accum = keys]
<1> HIDE DEF d, e
<1>3. /\ (Good(c) => Good(d)) /\ (Taken(c) => Taken(d))
  BY <1>2 DEF Good, Taken, d
<1>4. /\ (Good(c) => Good(e)) /\ (Taken(c) => Taken(e))
  BY <1>2 DEF Good, Taken, e
<1> QED
  BY <1>2, <1>3, <1>4 DEF d, e

\* A page that was answered brings the next one, or the merge and the cursor.
LEMMA WakePageKeeps ==
    ASSUME NEW c, Taken(c), NEW h \in Handler, NEW a \in AnswerSet
    PROVE  Keeps(c, WakePage(c, h, a))
<1> DEFINE came == a.came \cup a.gone
           got == [Give(c) EXCEPT !.accum = @ \cup a.came \cup a.gone]
           merged == [got EXCEPT !.pay = MergeSnapshot(@, got.accum)]
           hook == Hook("cursor", {}, {}, 1)
<1>1. /\ c \in Contexts /\ Good(Give(c)) /\ Give(c).inFlight = 0
      /\ Give(c).pay = c.pay /\ Give(c).handlers = c.handlers
  BY SlotChanges DEF Taken
<1>2. c.pay \in Payload /\ Coherent(c.pay) /\ Give(c).accum \in SUBSET Keys
      /\ came \in SUBSET Keys
  BY <1>1 DEF Contexts, Taken, AnswerSet, Good
<1>3. CASE ~a.ok
  BY <1>1, <1>3 DEF WakePage, Keeps, Connects, Kept
<1>4. CASE a.ok
  <2>1. Good(got) /\ got.pay = c.pay /\ got.handlers = c.handlers
        /\ got.inFlight = 0 /\ got.accum \in SUBSET Keys
    <3> DEFINE all == Give(c).accum \cup came
    <3>1. all \in SUBSET Keys /\ got = [Give(c) EXCEPT !.accum = all]
      <4>1. Give(c).accum \cup a.came \cup a.gone = all
        OBVIOUS
      <4> QED
        BY <1>2, <4>1
    <3> HIDE DEF all, got, came
    <3> QED
      BY <1>1, <1>2, <3>1, Stores
  <2> HIDE DEF got, came
  <2>2. CASE a.more /\ h.page < MaxPages
    <3>1. WakePage(c, h, a) = FetchPage(got, h.page + 1)
      BY <1>4, <2>2 DEF WakePage, got, came
    <3>2. h.page + 1 \in 1..MaxPages
      BY <2>2, LibraryAssumption DEF Handler
    <3> QED
      BY <2>1, <3>1, <3>2, PageKeeps DEF Keeps, Connects, Kept
  <2>3. CASE ~(a.more /\ h.page < MaxPages)
    <3> DEFINE pay == MergeSnapshot(c.pay, got.accum)
    <3>1. merged = [got EXCEPT !.pay = pay]
      BY <2>1
    <3>2. pay \in Payload /\ Coherent(pay) /\ Kept(c.pay, pay)
      BY <1>2, <2>1, MergesKeep
    <3> HIDE DEF pay, merged
    <3>3. Good(merged) /\ merged.pay = pay /\ merged.handlers = c.handlers
      BY <1>2, <2>1, <3>1, <3>2, Stores
    <3>4. hook \in Handler /\ ~Holds(hook)
      BY LibraryAssumption DEF Hook, Handler, Kinds, Holds
    <3>5. WakePage(c, h, a) = Send(merged, "cursor", {}, hook)
      BY <1>4, <2>3 DEF WakePage, got, came, merged
    <3> HIDE DEF hook
    <3> DEFINE d == Send(merged, "cursor", {}, hook)
    <3>6. Good(d) /\ d.pay = merged.pay /\ Connects(merged, d)
      BY <3>3, <3>4, CursorKeeps
    <3> HIDE DEF d
    <3> QED
      BY <3>2, <3>3, <3>5, <3>6 DEF Keeps, Connects, d
  <2> QED
    BY <2>2, <2>3
<1> QED
  BY <1>3, <1>4

\* The acknowledged marks go.
LEMMA WakePushKeeps ==
    ASSUME NEW c, Taken(c), NEW h \in Handler, NEW a \in AnswerSet
    PROVE  Keeps(c, WakePush(c, h, a)) /\ Keeps(c, WakeDelete(c, h, a))
<1> DEFINE up == [c.pay EXCEPT !.up = @ \ h.keys]
           del == [c.pay EXCEPT !.del = @ \ h.keys]
<1>1. /\ c \in Contexts /\ Good(Give(c)) /\ Give(c).pay = c.pay
      /\ Give(c).handlers = c.handlers
  BY SlotChanges DEF Taken
<1>2. c.pay \in Payload /\ Coherent(c.pay) /\ h.dels \in SUBSET Keys
  BY <1>1 DEF Contexts, Taken, Handler
<1>3. /\ up \in Payload /\ Coherent(up) /\ Kept(c.pay, up)
      /\ del \in Payload /\ Coherent(del) /\ Kept(c.pay, del)
  BY <1>2 DEF Payload, Coherent, Kept
<1>4. /\ [c EXCEPT !.pay.up = @ \ h.keys] = [c EXCEPT !.pay = up]
      /\ [Give(c) EXCEPT !.pay.del = @ \ h.keys] = [Give(c) EXCEPT !.pay = del]
  BY <1>1
<1> HIDE DEF up, del
<1>5. CASE ~a.ok
  BY <1>1, <1>5 DEF WakePush, WakeDelete, Keeps, Connects, Kept
<1>6. CASE a.ok
  <2>1. WakePush(c, h, a) = RunDeletes([c EXCEPT !.pay = up], h.dels)
    BY <1>4, <1>6 DEF WakePush
  <2>2. WakeDelete(c, h, a) = [Give(c) EXCEPT !.pay = del]
    BY <1>4, <1>6 DEF WakeDelete
  <2>3. Keeps(c, WakePush(c, h, a))
    <3> DEFINE d == [c EXCEPT !.pay = up]
    <3>1. Taken(d) /\ d.pay = up /\ d.handlers = c.handlers
      BY <1>3, Stores
    <3> HIDE DEF d
    <3>2. /\ Good(RunDeletes(d, h.dels)) /\ RunDeletes(d, h.dels).pay = up
          /\ Connects(d, RunDeletes(d, h.dels))
      BY <1>2, <3>1, DeletesKeep
    <3> QED
      BY <1>3, <2>1, <3>1, <3>2 DEF Keeps, Connects, d
  <2>4. Keeps(c, WakeDelete(c, h, a))
    <3> DEFINE d == [Give(c) EXCEPT !.pay = del]
    <3>1. Good(d) /\ d.pay = del /\ d.handlers = c.handlers
      BY <1>1, <1>3, Stores
    <3> HIDE DEF d
    <3> QED
      BY <1>3, <2>2, <3>1 DEF Keeps, Connects, d
  <2> QED
    BY <2>3, <2>4
<1> QED
  BY <1>5, <1>6

\* Events are applied around the pending keys; another answer brings none.
LEMMA WakeDeltaKeeps ==
    ASSUME NEW c, Taken(c), NEW a \in AnswerSet
    PROVE  Keeps(c, WakeDelta(c, a))
<1> DEFINE pay == ApplyDelta(c.pay, a.came, a.gone)
<1>1. /\ c \in Contexts /\ Good(Give(c)) /\ Give(c).pay = c.pay
      /\ Give(c).handlers = c.handlers
  BY SlotChanges DEF Taken
<1>2. CASE ~(a.ok /\ a.kind = "delta")
  BY <1>1, <1>2 DEF WakeDelta, Keeps, Connects, Kept
<1>3. CASE a.ok /\ a.kind = "delta"
  <2>1. c.pay \in Payload /\ Coherent(c.pay) /\ a.came \in SUBSET Keys
        /\ a.gone \in SUBSET Keys
    BY <1>1 DEF Contexts, Taken, AnswerSet
  <2>2. pay \in Payload /\ Coherent(pay) /\ Kept(c.pay, pay)
    BY <2>1, MergesKeep
  <2>3. WakeDelta(c, a) = [Give(c) EXCEPT !.pay = pay]
    BY <1>1, <1>3 DEF WakeDelta
  <2> HIDE DEF pay
  <2> DEFINE d == [Give(c) EXCEPT !.pay = pay]
  <2>4. Good(d) /\ d.pay = pay /\ d.handlers = c.handlers
    BY <1>1, <2>2, Stores
  <2> HIDE DEF d
  <2> QED
    BY <2>2, <2>3, <2>4 DEF Keeps, Connects, d
<1> QED
  BY <1>2, <1>3

\* The cursor's lambda may start a delta, but stores the cursor only.
LEMMA WakeCursorKeeps ==
    ASSUME NEW c, Good(c), NEW a \in AnswerSet
    PROVE  Keeps(c, WakeCursor(c, a)) /\ Same(c.pay, WakeCursor(c, a).pay)
<1> DEFINE pay == [c.pay EXCEPT !.init = TRUE]
<1>1. CASE ~a.ok
  BY <1>1 DEF WakeCursor, Keeps, Connects, Kept, Same
<1>2. CASE a.ok
  <2>1. c \in Contexts /\ c.pay \in Payload /\ Coherent(c.pay)
    BY DEF Good, Contexts
  <2>2. pay \in Payload /\ Coherent(pay) /\ Same(c.pay, pay)
    BY <2>1 DEF Payload, Coherent, Same
  <2>3. [c EXCEPT !.pay.init = TRUE] = [c EXCEPT !.pay = pay]
    BY <2>1
  <2> HIDE DEF pay
  <2>4. WakeCursor(c, a) = PullDelta([c EXCEPT !.pay = pay])
    BY <1>2, <2>3 DEF WakeCursor
  <2> DEFINE d == [c EXCEPT !.pay = pay]
  <2>5. Good(d) /\ d.pay = pay /\ d.handlers = c.handlers
    BY <2>2, Stores
  <2> HIDE DEF d
  <2>6. Good(PullDelta(d)) /\ PullDelta(d).pay = pay /\ Connects(d, PullDelta(d))
    BY <2>5, DeltaKeeps
  <2> QED
    BY <2>2, <2>4, <2>5, <2>6 DEF Keeps, Connects, Kept, Same, d
<1> QED
  BY <1>1, <1>2

\* Whichever lambda is woken by whichever answer.
LEMMA WakeKeeps ==
    ASSUME NEW c, NEW h \in Handler, NEW a \in AnswerSet,
           IF Holds(h) THEN Taken(c) ELSE Good(c)
    PROVE  Keeps(c, Wake(c, h, a)) /\ (~Holds(h) => Same(c.pay, Wake(c, h, a).pay))
<1>1. h.kind \in Kinds
  BY DEF Handler
<1>2. CASE h.kind = "cursor"
  BY <1>2, WakeCursorKeeps DEF Holds, Wake
<1>3. CASE h.kind = "page"
  BY <1>3, WakePageKeeps DEF Holds, Wake
<1>4. CASE h.kind = "push"
  BY <1>4, WakePushKeeps DEF Holds, Wake
<1>5. CASE h.kind = "delete"
  BY <1>5, WakePushKeeps DEF Holds, Wake
<1>6. CASE h.kind = "delta"
  BY <1>6, WakeDeltaKeeps DEF Holds, Wake
<1> QED
  BY <1>1, <1>2, <1>3, <1>4, <1>5, <1>6 DEF Kinds

-----------------------------------------------------------------------------
(* The emission. *)

\* One lambda, disconnected and run.
Handled(d, h, a) == Wake([d EXCEPT !.handlers = Tail(@)], h, a)

\* Folded(f, c, s, a): f[i] is the context once the lambdas of s at the places i
\* have run, in their order, from the context c on.
Folded(f, c, s, n, a) ==
    f = [i \in SUBSET (1..n) |->
            IF i = {} THEN c ELSE Handled(f[i \ {Max(i)}], s[Max(i)], a)]

\* Max of a set of places, and of the others.
LEMMA MaxOf ==
    ASSUME NEW n \in Nat, NEW i \in SUBSET (1..n), i # {}
    PROVE  /\ Max(i) \in i /\ \A x \in i : Max(i) >= x
           /\ i \ {Max(i)} \in SUBSET (1..n)
BY GreatestExists DEF Max

\* There is such a function, for any number of lambdas.
LEMMA FoldExists ==
    ASSUME NEW c, NEW s, NEW a, NEW n \in Nat
    PROVE  \E f : Folded(f, c, s, n, a)
<1> DEFINE T == {m \in Nat : \E f : Folded(f, c, s, m, a)}
<1>1. 0 \in T
  <2> DEFINE f == [i \in SUBSET (1..0) |-> c]
  <2>1. \A i \in SUBSET (1..0) : i = {}
    OBVIOUS
  <2>2. Folded(f, c, s, 0, a)
    BY <2>1 DEF Folded
  <2> QED
    BY <2>2
<1>2. ASSUME NEW m \in Nat, m \in T PROVE m + 1 \in T
  <2>1. PICK f : Folded(f, c, s, m, a)
    BY <1>2
  <2> DEFINE g == [i \in SUBSET (1..(m + 1)) |->
                     IF m + 1 \in i THEN Handled(f[i \ {m + 1}], s[m + 1], a) ELSE f[i]]
  <2>2. \A i \in SUBSET (1..m) : i \in SUBSET (1..(m + 1)) /\ m + 1 \notin i
    OBVIOUS
  <2>3. \A i \in SUBSET (1..m) : g[i] = f[i]
    BY <2>2
  <2>4. ASSUME NEW i \in SUBSET (1..(m + 1))
        PROVE  g[i] = IF i = {} THEN c ELSE Handled(g[i \ {Max(i)}], s[Max(i)], a)
    <3>1. CASE m + 1 \in i
      <4>1. Max(i) \in i /\ \A x \in i : Max(i) >= x
        BY <3>1, MaxOf
      <4>2. Max(i) = m + 1
        <5>1. Max(i) \in 1..(m + 1) /\ Max(i) >= m + 1
          BY <3>1, <4>1
        <5> HIDE DEF g
        <5> QED
          BY <5>1
      <4>3. i \ {m + 1} \in SUBSET (1..m)
        OBVIOUS
      <4>4. g[i] = Handled(f[i \ {m + 1}], s[m + 1], a)
        BY <3>1
      <4>5. g[i \ {m + 1}] = f[i \ {m + 1}]
        BY <2>3, <4>3
      <4> HIDE DEF g
      <4> QED
        BY <3>1, <4>2, <4>4, <4>5
    <3>2. CASE m + 1 \notin i
      <4>1. i \in SUBSET (1..m)
        BY <3>2
      <4>2. g[i] = f[i]
        BY <2>3, <4>1
      <4>3. f[i] = IF i = {} THEN c ELSE Handled(f[i \ {Max(i)}], s[Max(i)], a)
        BY <2>1, <4>1 DEF Folded
      <4>4. i # {} => i \ {Max(i)} \in SUBSET (1..m)
        BY <4>1
      <4>5. i # {} => g[i \ {Max(i)}] = f[i \ {Max(i)}]
        BY <2>3, <4>4
      <4> HIDE DEF g
      <4> QED
        BY <4>2, <4>3, <4>5
    <3> QED
      BY <3>1, <3>2
  <2>5. Folded(g, c, s, m + 1, a)
    <3>1. g = [i \in SUBSET (1..(m + 1)) |-> g[i]]
      OBVIOUS
    <3> HIDE DEF g
    <3> QED
      BY <2>4, <3>1 DEF Folded
  <2> QED
    BY <2>5
<1> HIDE DEF T
<1>3. n \in T
  BY <1>1, <1>2, NatSetInduction
<1> QED
  BY <1>3 DEF T

\* What is good before the first lambda, and after k lambdas when after k - 1, is
\* good after the emission.
LEMMA EmitReaches ==
    ASSUME NEW c, NEW a, NEW G, c.handlers \in Seq(Handler), c \in G[0],
           \A k \in 1..Len(c.handlers) : \A d \in G[k - 1] :
               Handled(d, c.handlers[k], a) \in G[k]
    PROVE  Emit(c, a) \in G[Len(c.handlers)]
<1> DEFINE s == c.handlers
           n == Len(s)
           f == CHOOSE g : Folded(g, c, s, n, a)
<1>1. n \in Nat /\ DOMAIN s = 1..n
  OBVIOUS
<1>2. Emit(c, a) = f[1..n]
  BY <1>1 DEF Emit, FoldLeft, MapThenFoldSet, Handled, Folded
<1>3. Folded(f, c, s, n, a)
  BY <1>1, FoldExists
<1> HIDE DEF f, n
<1>4. f[{}] = c
  BY <1>3 DEF Folded
<1>5. ASSUME NEW k \in 1..n, f[1..(k - 1)] \in G[k - 1] PROVE f[1..k] \in G[k]
  <2> DEFINE i == 1..k
  <2>1. i \in SUBSET (1..n) /\ i # {} /\ k \in i /\ \A x \in i : k >= x
    <3>1. n \in Nat /\ k \in 1..n
      BY <1>1, <1>5
    <3>2. \A x \in 1..k : x \in 1..n /\ k >= x
      BY <3>1
    <3>3. k \in 1..k
      BY <3>1
    <3> HIDE DEF n
    <3> QED
      BY <3>2, <3>3
  <2>2. Max(i) \in i /\ \A x \in i : Max(i) >= x
    BY <1>1, <2>1, MaxOf
  <2>3. Max(i) = k
    BY <2>1, <2>2
  <2>4. i \ {k} = 1..(k - 1)
    BY <1>1
  <2>5. f[i] = Handled(f[i \ {Max(i)}], s[Max(i)], a)
    BY <1>3, <2>1 DEF Folded
  <2> HIDE DEF i
  <2>6. f[i] = Handled(f[1..(k - 1)], s[k], a)
    BY <2>3, <2>4, <2>5
  <2> QED
    BY <1>1, <1>5, <2>6 DEF i, n
<1> QED
  BY <1>1, <1>2, <1>4, <1>5, FoldReaches DEF n

\* What a context is after k of the lambdas s, p0 the payload before the first:
\* the others are still connected in front, the payload is as it was, but for
\* the cursor, until the holder of the slot runs, and keeps what was pending.
After(p0, s, k) ==
    {d \in Contexts :
        /\ Good(d) /\ Len(d.handlers) >= Len(s) - k
        /\ \A j \in 1..(Len(s) - k) : d.handlers[j] = s[k + j]
        /\ \/ Same(p0, d.pay)
           \/ Kept(p0, d.pay) /\ \A j \in (k + 1)..Len(s) : ~Holds(s[j])}

\* Taking the first lambda out leaves a context in which it can run.
LEMMA Disconnects ==
    ASSUME NEW d, Good(d), d.handlers # <<>>
    PROVE  LET e == [d EXCEPT !.handlers = Tail(@)]
               h == Head(d.handlers)
           IN  /\ e \in Contexts /\ e.pay = d.pay /\ e.handlers = Tail(d.handlers)
               /\ h \in Handler /\ IF Holds(h) THEN Taken(e) ELSE Good(e)
<1> DEFINE e == [d EXCEPT !.handlers = Tail(@)]
           hs == d.handlers
           h == Head(hs)
<1>1. d \in Contexts /\ hs \in Seq(Handler) /\ Slot(d.inFlight, hs) /\ Coherent(d.pay)
      /\ d.inFlight \in Nat
  BY DEF Good, Contexts
<1>2. /\ Tail(hs) \in Seq(Handler) /\ h \in Handler /\ h = hs[1] /\ 1 \in DOMAIN hs
      /\ \A i \in DOMAIN Tail(hs) : i + 1 \in DOMAIN hs /\ Tail(hs)[i] = hs[i + 1]
                                    /\ i \in Nat /\ i + 1 # 1
      /\ \A i \in DOMAIN hs : i # 1 => i - 1 \in DOMAIN Tail(hs)
                                       /\ Tail(hs)[i - 1] = hs[i]
  BY <1>1
<1>3. e = [d EXCEPT !.handlers = Tail(hs)]
  OBVIOUS
<1> DEFINE ts == Tail(hs)
<1> HIDE DEF ts
<1>4. e \in Contexts /\ e.pay = d.pay /\ e.handlers = ts /\ e.inFlight = d.inFlight
  BY <1>1, <1>2, <1>3 DEF Contexts, ts
<1> HIDE DEF e, hs, h
<1>5. CASE Holds(h)
  <2>1. Unheld(ts)
    BY <1>1, <1>2, <1>5 DEF Slot, Unheld, ts
  <2>2. ~Unheld(hs)
    BY <1>2, <1>5 DEF Unheld
  <2>3. Taken(e)
    BY <1>1, <1>4, <2>1, <2>2 DEF Taken, Slot
  <2> QED
    BY <1>2, <1>4, <1>5, <2>3 DEF e, hs, h, ts
<1>6. CASE ~Holds(h)
  <2>1. Unheld(ts) <=> Unheld(hs)
    BY <1>2, <1>6 DEF Unheld, ts
  <2>2. \A i, j \in DOMAIN ts : Holds(ts[i]) /\ Holds(ts[j]) => i = j
    <3> SUFFICES ASSUME NEW i \in DOMAIN ts, NEW j \in DOMAIN ts, Holds(ts[i]),
                        Holds(ts[j])
                 PROVE  i = j
      OBVIOUS
    <3>1. i + 1 = j + 1 /\ i \in Nat /\ j \in Nat
      BY <1>1, <1>2 DEF Slot, ts
    <3> QED
      BY <3>1
  <2>3. Good(e)
    BY <1>1, <1>4, <2>1, <2>2 DEF Good, Slot
  <2> QED
    BY <1>2, <1>4, <1>6, <2>3 DEF e, hs, h, ts
<1> QED
  BY <1>5, <1>6

\* One lambda of the emission.
LEMMA HandledGoesOn ==
    ASSUME NEW s \in Seq(Handler), NEW p0 \in Payload, NEW a \in AnswerSet,
           \A i, j \in DOMAIN s : Holds(s[i]) /\ Holds(s[j]) => i = j,
           NEW k \in 1..Len(s), NEW d \in After(p0, s, k - 1)
    PROVE  Handled(d, s[k], a) \in After(p0, s, k)
<1> DEFINE e == [d EXCEPT !.handlers = Tail(@)]
           h == Head(d.handlers)
           w == Wake(e, h, a)
           n == Len(s)
<1>1. /\ Good(d) /\ Len(d.handlers) >= n - (k - 1) /\ d.handlers \in Seq(Handler)
      /\ \A j \in 1..(n - (k - 1)) : d.handlers[j] = s[(k - 1) + j]
      /\ \/ Same(p0, d.pay)
         \/ Kept(p0, d.pay) /\ \A j \in ((k - 1) + 1)..n : ~Holds(s[j])
  BY DEF After, Contexts
<1>2. n \in Nat /\ k \in 1..n /\ (k - 1) + 1 = k /\ n - (k - 1) = (n - k) + 1
      /\ n - k \in Nat /\ DOMAIN s = 1..n
  OBVIOUS
<1>3. d.handlers # <<>> /\ h = s[k]
  BY <1>1, <1>2
<1>4. /\ e \in Contexts /\ e.pay = d.pay /\ e.handlers = Tail(d.handlers)
      /\ h \in Handler /\ IF Holds(h) THEN Taken(e) ELSE Good(e)
  BY <1>1, <1>3, Disconnects
<1> HIDE DEF e, h
<1>5. Keeps(e, w) /\ (~Holds(h) => Same(e.pay, w.pay))
  BY <1>4, WakeKeeps
<1>6. w = Handled(d, s[k], a)
  BY <1>3 DEF Handled, e
<1> HIDE DEF w
<1>7. /\ Len(e.handlers) >= n - k /\ e.handlers \in Seq(Handler)
      /\ \A j \in 1..(n - k) : e.handlers[j] = s[k + j]
  <2>1. /\ Len(e.handlers) = Len(d.handlers) - 1 /\ e.handlers \in Seq(Handler)
        /\ \A j \in 1..(Len(d.handlers) - 1) : e.handlers[j] = d.handlers[j + 1]
        /\ Len(d.handlers) \in Nat
    BY <1>1, <1>3, <1>4
  <2>2. ASSUME NEW j \in 1..(n - k) PROVE e.handlers[j] = s[k + j]
    <3>1. j + 1 \in 1..(n - (k - 1)) /\ j \in 1..(Len(d.handlers) - 1)
          /\ (k - 1) + (j + 1) = k + j
      BY <1>1, <1>2, <2>1
    <3> QED
      BY <1>1, <2>1, <3>1
  <2> QED
    BY <1>1, <1>2, <2>1, <2>2
<1>8. Len(w.handlers) >= n - k /\ \A j \in 1..(n - k) : w.handlers[j] = s[k + j]
  <2>1. CASE w.handlers = e.handlers
    BY <1>7, <2>1
  <2>2. ASSUME NEW x \in Handler, w.handlers = Append(e.handlers, x)
        PROVE  Len(w.handlers) >= n - k
               /\ \A j \in 1..(n - k) : w.handlers[j] = s[k + j]
    BY <1>2, <1>7, <2>2
  <2> QED
    BY <1>5, <2>1, <2>2 DEF Keeps, Connects
<1>9. \/ Same(p0, w.pay)
      \/ Kept(p0, w.pay) /\ \A j \in (k + 1)..n : ~Holds(s[j])
  <2>1. CASE Holds(h)
    <3>1. Same(p0, d.pay)
      BY <1>1, <1>2, <1>3, <2>1
    <3>2. Kept(p0, w.pay)
      BY <1>4, <1>5, <3>1 DEF Keeps, Kept, Same
    <3>3. \A j \in (k + 1)..n : j \in DOMAIN s /\ j # k /\ k \in DOMAIN s
      BY <1>2
    <3> QED
      BY <1>3, <2>1, <3>2, <3>3
  <2>2. CASE ~Holds(h)
    <3>1. \A j \in (k + 1)..n : j \in ((k - 1) + 1)..n
      BY <1>2
    <3> QED
      BY <1>1, <1>4, <1>5, <2>2, <3>1 DEF Same, Kept
  <2> QED
    BY <2>1, <2>2
<1>10. w \in Contexts /\ Good(w)
  BY <1>5 DEF Keeps, Good
<1> QED
  BY <1>6, <1>8, <1>9, <1>10 DEF After

\* The whole emission.
LEMMA EmitKeeps ==
    ASSUME NEW c, Good(c), NEW a \in AnswerSet
    PROVE  Good(Emit(c, a)) /\ Kept(c.pay, Emit(c, a).pay)
<1> DEFINE s == c.handlers
           G == [k \in 0..Len(s) |-> After(c.pay, s, k)]
<1>1. /\ c \in Contexts /\ s \in Seq(Handler) /\ c.pay \in Payload
      /\ \A i, j \in DOMAIN s : Holds(s[i]) /\ Holds(s[j]) => i = j
  BY DEF Good, Contexts, Slot
<1>2. c \in G[0]
  <2>1. Same(c.pay, c.pay)
    BY DEF Same
  <2>2. /\ Len(s) \in Nat /\ Len(s) - 0 = Len(s) /\ 0 \in 0..Len(s)
        /\ \A j \in 1..Len(s) : s[j] = s[0 + j]
    BY <1>1
  <2>3. c \in After(c.pay, s, 0)
    BY <1>1, <2>1, <2>2 DEF After
  <2> QED
    BY <2>2, <2>3
<1>3. ASSUME NEW k \in 1..Len(s), NEW d \in G[k - 1] PROVE Handled(d, s[k], a) \in G[k]
  <2>1. k \in 0..Len(s) /\ k - 1 \in 0..Len(s)
    BY <1>1
  <2>2. d \in After(c.pay, s, k - 1)
    BY <1>3, <2>1
  <2>3. Handled(d, s[k], a) \in After(c.pay, s, k)
    BY <1>1, <2>2, HandledGoesOn
  <2> QED
    BY <2>1, <2>3
<1> HIDE DEF G
<1>4. Emit(c, a) \in G[Len(s)]
  BY <1>1, <1>2, <1>3, EmitReaches
<1>5. Emit(c, a) \in After(c.pay, s, Len(s))
  <2>1. Len(s) \in 0..Len(s)
    BY <1>1
  <2> QED
    BY <1>4, <2>1 DEF G
<1> QED
  BY <1>5 DEF After, Same, Kept
-----------------------------------------------------------------------------
(* The actions. *)

\* The context of the active profile is good.
LEMMA ContextIsGood ==
    ASSUME Inv
    PROVE  Good(Context) /\ Context.pay = disk[profile]
<1>1. /\ disk[profile] \in Payload /\ inFlight \in Nat /\ calls \in Seq(Call)
      /\ handlers \in Seq(Handler) /\ accum \in SUBSET Keys /\ Coherent(disk[profile])
      /\ Slot(inFlight, handlers)
  BY DEF Inv, TypeOK, PendingCoherent, Coherent
<1> QED
  BY <1>1 DEF Good, Contexts, Context

\* A good context may become the state.
LEMMA BecomesKeeps ==
    ASSUME Inv, NEW c, Good(c), Becomes(c), UNCHANGED profile, UNCHANGED ui,
           armed' \in BOOLEAN, signedIn' \in BOOLEAN
    PROVE  Inv' /\ disk'[profile] = c.pay
<1>1. /\ c.pay \in Payload /\ c.inFlight \in Nat /\ c.calls \in Seq(Call)
      /\ c.handlers \in Seq(Handler) /\ c.accum \in SUBSET Keys /\ Coherent(c.pay)
      /\ Slot(c.inFlight, c.handlers)
  BY DEF Good, Contexts
<1>2. disk \in [Profiles -> Payload] /\ profile \in Profiles /\ ui \in Payload
      /\ Coherent(ui) /\ \A p \in Profiles : Coherent(disk[p])
  BY DEF Inv, TypeOK, PendingCoherent, Coherent
<1>3. /\ disk' \in [Profiles -> Payload] /\ disk'[profile] = c.pay
      /\ \A p \in Profiles : p # profile => disk'[p] = disk[p]
  BY <1>1, <1>2 DEF Becomes
<1>4. TypeOK'
  BY <1>1, <1>2, <1>3 DEF TypeOK, Becomes
<1>5. \A p \in Profiles : Coherent(disk'[p])
  BY <1>1, <1>2, <1>3
<1>6. PendingCoherent'
  BY <1>2, <1>5 DEF PendingCoherent, Coherent
<1>7. Slot(inFlight, handlers)'
  BY <1>1 DEF Becomes, Slot, Unheld, Holds
<1> QED
  BY <1>3, <1>4, <1>6, <1>7 DEF Inv

\* An edit of the pages stores the same payload in both places.
LEMMA EditStores ==
    ASSUME Inv, NEW pay \in Payload, Coherent(pay), LocalEdit(pay)
    PROVE  Inv'
<1>1. disk \in [Profiles -> Payload] /\ profile \in Profiles
      /\ \A p \in Profiles : Coherent(disk[p])
  BY DEF Inv, TypeOK, PendingCoherent, Coherent
<1>2. /\ disk' \in [Profiles -> Payload]
      /\ \A p \in Profiles : Coherent(disk'[p])
  BY <1>1 DEF LocalEdit
<1>3. TypeOK'
  BY <1>2 DEF Inv, TypeOK, LocalEdit, wireVars
<1>4. PendingCoherent'
  BY <1>2 DEF PendingCoherent, Coherent, LocalEdit
<1> QED
  BY <1>3, <1>4 DEF Inv, LocalEdit, wireVars, Slot, Unheld, Holds

\* A switch and a restart show the file of another profile.
LEMMA ReloadKeeps ==
    ASSUME Inv,
           \/ \E p \in Profiles : SwitchProfile(p)
           \/ SignOut
           \/ Restart
    PROVE  Inv' /\ disk' = disk
<1>1. disk \in [Profiles -> Payload] /\ \A p \in Profiles : Coherent(disk[p])
      /\ Coherent(ui)
  BY DEF Inv, TypeOK, PendingCoherent, Coherent
<1>2. disk' = disk
  BY DEF SwitchProfile, SignOut, Restart
<1>3. profile' \in Profiles /\ (ui' = ui \/ ui' = disk[profile'])
  BY DEF Inv, TypeOK, SwitchProfile, SignOut, Restart
<1>4. CASE Restart
  <2>1. inFlight' = 0 /\ calls' = <<>> /\ handlers' = <<>> /\ accum' = {}
        /\ armed' = FALSE /\ signedIn' = FALSE
    BY <1>4 DEF Restart
  <2>2. TypeOK'
    <3>1. <<>> \in Seq(Call) /\ <<>> \in Seq(Handler)
      OBVIOUS
    <3>2. 0 \in Nat /\ {} \in SUBSET Keys /\ FALSE \in BOOLEAN
      OBVIOUS
    <3>3. ui' \in Payload
      BY <1>1, <1>3 DEF Inv, TypeOK
    <3> QED
      BY <1>1, <1>2, <1>3, <2>1, <3>1, <3>2, <3>3, Zenon DEF TypeOK
  <2>3. Slot(inFlight, handlers)'
    BY <2>1 DEF Slot, Unheld
  <2> QED
    BY <1>1, <1>2, <1>3, <2>2, <2>3 DEF Inv, PendingCoherent, Coherent
<1>5. CASE (\E p \in Profiles : SwitchProfile(p)) \/ SignOut
  <2>1. UNCHANGED wireVars /\ armed' \in BOOLEAN /\ signedIn' \in BOOLEAN
    BY <1>5 DEF Inv, TypeOK, SwitchProfile, SignOut
  <2>2. TypeOK'
    BY <1>1, <1>2, <1>3, <2>1 DEF Inv, TypeOK, wireVars
  <2>3. Slot(inFlight, handlers)'
    BY <2>1 DEF Inv, Slot, Unheld, Holds, wireVars
  <2> QED
    BY <1>1, <1>2, <1>3, <2>2, <2>3 DEF Inv, PendingCoherent, Coherent
<1> QED
  BY <1>2, <1>4, <1>5

\* A sign-in asks for the first page, when the slot is free.
LEMMA SignInKeeps ==
    ASSUME Inv, SignIn
    PROVE  Inv' /\ disk' = disk
<1>1. CASE inFlight = 0
  <2> DEFINE c == [Context EXCEPT !.accum = {}]
             d == FetchPage(c, 1)
  <2>1. Good(Context) /\ Context.pay = disk[profile] /\ Context.inFlight = 0
    BY <1>1, ContextIsGood DEF Context
  <2>2. Context.pay \in Payload /\ Coherent(Context.pay) /\ {} \in SUBSET Keys
    BY <2>1 DEF Good, Contexts
  <2>3. c.pay = Context.pay /\ c.inFlight = Context.inFlight /\ Good(c)
    BY <2>1, <2>2, Stores
  <2> HIDE DEF c
  <2>4. 1 \in 1..MaxPages
    BY LibraryAssumption
  <2>5. Good(d) /\ d.pay = c.pay
    BY <2>1, <2>3, <2>4, PageKeeps
  <2>6. Becomes(d) /\ UNCHANGED profile /\ UNCHANGED ui /\ armed' \in BOOLEAN
        /\ signedIn' \in BOOLEAN
    BY <1>1 DEF SignIn, c, Inv, TypeOK
  <2> HIDE DEF d
  <2>7. Inv' /\ disk'[profile] = d.pay
    BY <2>5, <2>6, BecomesKeeps
  <2>8. disk' = [disk EXCEPT ![profile] = disk[profile]]
    BY <2>1, <2>3, <2>5, <2>6 DEF Becomes
  <2> QED
    BY <2>7, <2>8 DEF Inv, TypeOK
<1>2. CASE inFlight # 0
  <2>1. UNCHANGED <<disk, wireVars, ui, profile, armed>> /\ signedIn' = TRUE
    BY <1>2 DEF SignIn
  <2>2. TypeOK'
    BY <2>1 DEF Inv, TypeOK, wireVars
  <2>3. PendingCoherent' /\ Slot(inFlight, handlers)'
    BY <2>1 DEF Inv, PendingCoherent, wireVars, Slot, Unheld, Holds
  <2> QED
    BY <2>1, <2>2, <2>3 DEF Inv
<1> QED
  BY <1>1, <1>2

\* The timer pushes the marks, when the slot is free.
LEMMA DebounceKeeps ==
    ASSUME Inv, DebounceFires
    PROVE  Inv' /\ disk'[profile] = disk[profile]
<1> DEFINE d == PushDirty(Context)
<1>1. Good(Context) /\ Context.pay = disk[profile]
  BY ContextIsGood
<1>2. Good(d) /\ d.pay = Context.pay
  BY <1>1, PushKeeps
<1>3. Becomes(d) /\ UNCHANGED profile /\ UNCHANGED ui /\ armed' \in BOOLEAN
      /\ signedIn' \in BOOLEAN
  BY DEF DebounceFires, Inv, TypeOK
<1> HIDE DEF d
<1> QED
  BY <1>1, <1>2, <1>3, BecomesKeeps

\* The answers are typed, whatever was asked.
LEMMA AnswersTyped ==
    ASSUME NEW kind \in Kinds
    PROVE  Answers(kind) \subseteq AnswerSet
BY DEF Answers, AnswerSet

\* A request leaves the wire.
LEMMA RemoveTyped ==
    ASSUME NEW s \in Seq(Call), NEW i \in DOMAIN s
    PROVE  RemoveAt(s, i) \in Seq(Call)
BY DEF RemoveAt

\* An answer wakes every lambda connected.
LEMMA ReplyKeeps ==
    ASSUME Inv, NEW i, Reply(i)
    PROVE  Inv' /\ Kept(disk[profile], disk'[profile])
<1> DEFINE c == [Context EXCEPT !.calls = RemoveAt(@, i)]
           rest == RemoveAt(calls, i)
<1>1. i \in DOMAIN calls /\ calls \in Seq(Call) /\ calls[i].kind \in Kinds
  <2>1. i \in DOMAIN calls /\ calls \in Seq(Call)
    BY DEF Reply, Inv, TypeOK
  <2>2. calls[i] \in Call
    BY <2>1
  <2> QED
    BY <2>1, <2>2 DEF Call
<1>2. rest \in Seq(Call)
  BY <1>1, RemoveTyped
<1>3. c = [Context EXCEPT !.calls = rest]
  BY DEF Context
<1> HIDE DEF rest
<1>4. Good(Context) /\ Context.pay = disk[profile]
  BY ContextIsGood
<1>5. Good(c) /\ c.pay = disk[profile]
  <2>1. c \in Contexts /\ c.pay = Context.pay /\ c.inFlight = Context.inFlight
        /\ c.handlers = Context.handlers
    BY <1>2, <1>3, <1>4 DEF Good, Contexts
  <2> HIDE DEF c
  <2> QED
    BY <1>4, <2>1 DEF Good
<1>6. PICK a \in Answers(calls[i].kind) : Becomes(Emit(c, a))
  BY DEF Reply
<1>7. a \in AnswerSet
  BY <1>1, <1>6, AnswersTyped
<1> HIDE DEF c
<1> DEFINE d == Emit(c, a)
<1>8. Good(d) /\ Kept(c.pay, d.pay)
  BY <1>5, <1>7, EmitKeeps
<1>9. Becomes(d) /\ UNCHANGED profile /\ UNCHANGED ui /\ armed' \in BOOLEAN
      /\ signedIn' \in BOOLEAN
  BY <1>6 DEF Reply, Inv, TypeOK
<1> HIDE DEF d
<1>10. Inv' /\ disk'[profile] = d.pay
  BY <1>8, <1>9, BecomesKeeps
<1> QED
  BY <1>5, <1>8, <1>10

-----------------------------------------------------------------------------
(* The theorems. *)

\* Nothing is open, marked or armed at the start.
LEMMA InitIsGood == Init => Inv
<1> SUFFICES ASSUME Init PROVE Inv
  OBVIOUS
<1>1. /\ disk \in [Profiles -> Payload]
      /\ \A p \in Profiles : disk[p].up = {} /\ disk[p].del = {}
  <2>1. \A pay \in [items : SUBSET Keys, up : {{}}, del : {{}}, init : {FALSE}] :
           pay \in Payload /\ pay.up = {} /\ pay.del = {}
    BY DEF Payload
  <2> QED
    BY <2>1 DEF Init
<1>2. TypeOK
  <2>1. disk[profile] \in Payload /\ <<>> \in Seq(Call) /\ <<>> \in Seq(Handler)
    BY <1>1 DEF Init
  <2>2. 0 \in Nat /\ {} \in SUBSET Keys /\ FALSE \in BOOLEAN
    OBVIOUS
  <2> QED
    BY <1>1, <2>1, <2>2, Zenon DEF Init, TypeOK
<1>3. PendingCoherent
  BY <1>1 DEF Init, PendingCoherent
<1>4. Slot(inFlight, handlers)
  BY DEF Init, Slot, Unheld
<1> QED
  BY <1>2, <1>3, <1>4 DEF Inv

\* Every step keeps the invariant, and what is pending in the active profile
\* unless it is an edit of the pages.
LEMMA StepKeeps ==
    ASSUME Inv, [Next]_vars
    PROVE  Inv' /\ (calls' # calls => Kept(disk[profile], disk'[profile]))
<1>1. ASSUME NEW k \in Keys, AddToLibrary(k) \/ RemoveFromLibrary(k)
      PROVE  Inv' /\ calls' = calls
  <2>1. ui \in Payload /\ Coherent(ui)
    BY DEF Inv, TypeOK, PendingCoherent, Coherent
  <2>2. calls' = calls
    BY <1>1 DEF AddToLibrary, RemoveFromLibrary, LocalEdit, wireVars
  <2>3. PICK pay \in Payload : Coherent(pay) /\ LocalEdit(pay)
    BY <1>1, <2>1, EditsKeep DEF AddToLibrary, RemoveFromLibrary
  <2> QED
    BY <2>2, <2>3, EditStores
<1>2. CASE (\E p \in Profiles : SwitchProfile(p)) \/ SignOut \/ Restart
  BY <1>2, ReloadKeeps DEF Kept
<1>3. CASE SignIn
  BY <1>3, SignInKeeps DEF Kept
<1>4. CASE DebounceFires
  BY <1>4, DebounceKeeps DEF Kept
<1>5. CASE Replies
  BY <1>5, ReplyKeeps DEF Replies
<1>6. CASE UNCHANGED vars
  <2>1. TypeOK' /\ PendingCoherent'
    BY <1>6 DEF vars, wireVars, Inv, TypeOK, PendingCoherent
  <2>2. Slot(inFlight, handlers)' /\ calls' = calls
    BY <1>6 DEF vars, wireVars, Inv, Slot, Unheld, Holds
  <2> QED
    BY <2>1, <2>2 DEF Inv
<1> QED
  BY <1>1, <1>2, <1>3, <1>4, <1>5, <1>6 DEF Next

\* The invariant, always.
LEMMA Invariance == Spec => []Inv
<1>1. Inv /\ [Next]_vars => Inv'
  BY StepKeeps
<1> QED
  BY <1>1, InitIsGood, PTL DEF Spec

\* Every variable keeps its type: no lambda, woken by whichever answer, takes the
\* slot's counter below zero.
THEOREM TypeCorrect == Spec => []TypeOK
<1>1. Inv => TypeOK
  BY DEF Inv
<1> QED
  BY <1>1, Invariance, PTL

\* The slot is held by one connected lambda at most, and taken exactly when one
\* holds it: a reply that wakes the lambdas of two requests gives it back once.
THEOREM SlotIsHeld == Spec => []Slot(inFlight, handlers)
<1>1. Inv => Slot(inFlight, handlers)
  BY DEF Inv
<1> QED
  BY <1>1, Invariance, PTL

\* The marks agree with the items in every file and in the pages' store, through
\* edits, pushes, snapshots and deltas: AddItem, RemoveItem, finishSnapshotMerge
\* and pullLibraryDelta.
THEOREM MarksAgree == Spec => []PendingCoherent
<1>1. Inv => PendingCoherent
  BY DEF Inv
<1> QED
  BY <1>1, Invariance, PTL

\* No answer brings back an item whose deletion is pending, or removes one whose
\* push is, in whatever order the answers come and whichever lambdas they wake.
THEOREM PendingIsKept == Spec => PendingWins
<1>1. Inv /\ [Next]_vars =>
        [calls' # calls =>
            \A k \in disk[profile].up \cup disk[profile].del :
                k \in disk'[profile].items <=> k \in disk[profile].items]_vars
  BY StepKeeps DEF Kept
<1> QED
  BY <1>1, Invariance, PTL DEF Spec, PendingWins
=============================================================================
