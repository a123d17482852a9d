-------------------------- MODULE Downloads_proofs --------------------------
(***************************************************************************)
(* Proofs about Downloads, for any titles, profiles and number of          *)
(* downloads: types, that a profile has one download of a title, and that  *)
(* the rows shown as downloading are the ones that are transferred.        *)
(***************************************************************************)
EXTENDS Downloads, TLAPS

\* Neither an id nor a title occurs twice in a list.
Distinct(rs) == \A r, s \in rs : (r.id = s.id \/ r.key = s.key) => r = s

\* Ids are given out in order, so that a new one is in no list.
Given(rs, n) == \A r \in rs : r.id <= n

OneEach(ts) == \A t, u \in ts : t.id = u.id => t = u

ListOK == \A p \in Profiles : Distinct(rows[p]) /\ Given(rows[p], lastId)

\* The inductive invariant: that transfers match rows is kept by a replacement
\* only when the rows of a list are distinct, and these are kept distinct only
\* when the next id is new.
IInv == TypeOK /\ ListOK /\ TransfersMatchRows

-----------------------------------------------------------------------------
(* What load and mutate make of a list. *)

\* load keeps ids and titles and leaves nothing downloading
\* (DownloadManager::load).
LEMMA LoadFacts ==
    ASSUME NEW rs \in SUBSET Row, Distinct(rs), NEW n \in Nat, Given(rs, n)
    PROVE  /\ Load(rs) \in SUBSET Row
           /\ Distinct(Load(rs)) /\ Given(Load(rs), n)
           /\ Running(Load(rs)) = {}
<1> DEFINE L(r) == [r EXCEPT !.status = IF @ = "Downloading" THEN "Paused" ELSE @]
<1>1. \A r \in rs : /\ L(r) \in Row /\ L(r).id = r.id /\ L(r).key = r.key
                    /\ L(r).status # "Downloading"
  BY DEF Row, Status
<1>2. \A x \in Load(rs) : \E r \in rs : x = L(r)
  BY DEF Load
<1> HIDE DEF L
<1>3. Load(rs) \in SUBSET Row
  BY <1>1, <1>2
<1>4. Distinct(Load(rs))
  BY <1>1, <1>2 DEF Distinct
<1>5. Given(Load(rs), n)
  BY <1>1, <1>2 DEF Given
<1>6. Running(Load(rs)) = {}
  BY <1>1, <1>2, Zenon DEF Running, IdsOf
<1> QED
  BY <1>3, <1>4, <1>5, <1>6

\* mutate keeps ids and titles, and takes the given ids off the ones that are
\* downloading (DownloadManager::mutate).
LEMMA SetStatusFacts ==
    ASSUME NEW rs \in SUBSET Row, Distinct(rs), NEW n \in Nat, Given(rs, n),
           NEW ids, NEW status \in Status \ {"Downloading"}
    PROVE  /\ SetStatus(rs, ids, status) \in SUBSET Row
           /\ Distinct(SetStatus(rs, ids, status))
           /\ Given(SetStatus(rs, ids, status), n)
           /\ Running(SetStatus(rs, ids, status)) = Running(rs) \ ids
<1> DEFINE Hit(r) == r.id \in ids /\ r.status = "Downloading"
           S(r) == IF Hit(r) THEN [r EXCEPT !.status = status] ELSE r
           new == SetStatus(rs, ids, status)
<1>1. \A r \in rs : /\ S(r) \in Row /\ S(r).id = r.id /\ S(r).key = r.key
                    /\ S(r).status = "Downloading" <=> r.status = "Downloading" /\ r.id \notin ids
  BY DEF Row, Status
<1>2. \A x \in new : \E r \in rs : x = S(r)
  BY DEF SetStatus
<1>3. \A r \in rs : S(r) \in new
  BY DEF SetStatus
<1> HIDE DEF S, new
<1>4. new \in SUBSET Row
  BY <1>1, <1>2
<1>5. Distinct(new)
  BY <1>1, <1>2 DEF Distinct
<1>6. Given(new, n)
  BY <1>1, <1>2 DEF Given
<1>7. Running(new) = Running(rs) \ ids
  <2>1. \A i \in Running(new) : i \in Running(rs) \ ids
    BY <1>1, <1>2 DEF Running, IdsOf
  <2>2. \A i \in Running(rs) \ ids : i \in Running(new)
    BY <1>1, <1>3 DEF Running, IdsOf
  <2> QED
    BY <2>1, <2>2
<1> QED
  BY <1>4, <1>5, <1>6, <1>7 DEF new

\* The transfers that stay are the ones of the other ids.
LEMMA WithoutFacts ==
    ASSUME NEW ids, active \subseteq Transfer, OneEach(active)
    PROVE  /\ Without(ids) \subseteq Transfer /\ OneEach(Without(ids))
           /\ IdsOf(Without(ids)) = IdsOf(active) \ ids
BY DEF Without, OneEach, IdsOf

-----------------------------------------------------------------------------

\* startTransfer keeps the invariant for a list rs with the row of id shown as
\* downloading, when the transfers ts are those of its other rows
\* (DownloadManager::startTransfer).
LEMMA StartTransferKeeps ==
    ASSUME TypeOK, ListOK, lastId' \in 0..MaxIds, lastId <= lastId',
           NEW rs \in SUBSET Row, Distinct(rs), Given(rs, lastId'),
           NEW id \in Running(rs), NEW attempt \in 1..kMaxAttempts,
           NEW ts \in SUBSET Transfer, OneEach(ts),
           IdsOf(ts) = Running(rs) \ {id},
           NEW parts \in SUBSET Ids,
           StartTransfer(rs, id, attempt, ts, parts)
    PROVE  /\ rows' \in [Profiles -> SUBSET Row]
           /\ active' \subseteq Transfer /\ part' \subseteq Ids
           /\ \A p \in Profiles : Distinct(rows'[p]) /\ Given(rows'[p], lastId')
           /\ OneEach(active') /\ IdsOf(active') = Running(rows'[profile])
<1>1. id \in Ids
  BY DEF Running, IdsOf, Row
<1>2. \A p \in Profiles : Given(rows[p], lastId')
  <2>1. \A p \in Profiles : \A r \in rows[p] : r.id \in Nat
    BY DEF TypeOK, Row, Ids
  <2> QED
    BY <2>1, DownloadsAssumption DEF TypeOK, ListOK, Given
<1>3. CASE /\ rows' = [rows EXCEPT ![profile] = rs]
           /\ active' = ts \cup {[id |-> id, attempt |-> attempt]}
           /\ part' = parts \cup {id}
  <2> DEFINE t0 == [id |-> id, attempt |-> attempt]
  <2>1. t0 \in Transfer /\ t0.id = id
    BY <1>1 DEF Transfer
  <2>2. \A t \in ts : t.id # id
    BY DEF IdsOf
  <2>3. OneEach(active')
    BY <1>3, <2>1, <2>2 DEF OneEach
  <2>4. IdsOf(active') = Running(rs)
    BY <1>3, <2>1 DEF IdsOf
  <2>5. rows'[profile] = rs /\ rows' \in [Profiles -> SUBSET Row]
    BY <1>3 DEF TypeOK
  <2>6. \A p \in Profiles : Distinct(rows'[p]) /\ Given(rows'[p], lastId')
    BY <1>2, <1>3, <2>5 DEF TypeOK, ListOK
  <2> QED
    BY <1>1, <1>3, <2>1, <2>3, <2>4, <2>5, <2>6
<1>4. CASE /\ rows' = [rows EXCEPT ![profile] = SetStatus(rs, {id}, "Failed")]
           /\ active' = ts
           /\ part' = parts
  <2> DEFINE new == SetStatus(rs, {id}, "Failed")
  <2>1. /\ new \in SUBSET Row /\ Distinct(new) /\ Given(new, lastId')
        /\ Running(new) = Running(rs) \ {id}
    BY SetStatusFacts DEF Status
  <2> HIDE DEF new
  <2>2. rows' = [rows EXCEPT ![profile] = new]
    BY <1>4 DEF new
  <2>3. rows'[profile] = new /\ rows' \in [Profiles -> SUBSET Row]
    BY <2>1, <2>2 DEF TypeOK
  <2>4. \A p \in Profiles : Distinct(rows'[p]) /\ Given(rows'[p], lastId')
    BY <1>2, <2>1, <2>2, <2>3 DEF TypeOK, ListOK
  <2> QED
    BY <1>4, <2>1, <2>3, <2>4
<1> QED
  BY <1>3, <1>4 DEF StartTransfer

\* A list is replaced by one that shows fewer rows as downloading, and their
\* transfers are dropped (pauseDownload, cancelDownload, the last failure, the
\* success).
LEMMA ListShrinks ==
    ASSUME IInv, NEW rs \in SUBSET Row, Distinct(rs), Given(rs, lastId),
           NEW id, Running(rs) = Running(rows[profile]) \ {id},
           rows' = [rows EXCEPT ![profile] = rs], active' = Without({id}),
           part' \subseteq Ids, final' \subseteq Ids, orphans' \subseteq Transfer,
           UNCHANGED <<profile, lastId>>
    PROVE  IInv'
<1>1. IdsOf(active) = Running(rows[profile]) /\ OneEach(active) /\ active \subseteq Transfer
  BY DEF IInv, TypeOK, TransfersMatchRows, OneEach, IdsOf, Running
<1>2. /\ active' \subseteq Transfer /\ OneEach(active')
      /\ IdsOf(active') = Running(rs)
  BY <1>1, WithoutFacts
<1>3. rows'[profile] = rs /\ rows' \in [Profiles -> SUBSET Row]
  BY DEF IInv, TypeOK
<1>4. TypeOK'
  BY <1>2, <1>3 DEF IInv, TypeOK
<1>5. ListOK'
  BY DEF IInv, TypeOK, ListOK
<1>6. TransfersMatchRows'
  BY <1>2, <1>3 DEF TransfersMatchRows, OneEach, IdsOf, Running
<1> QED
  BY <1>4, <1>5, <1>6 DEF IInv

\* A transfer begins in the list rs (enqueue, resumeDownload, a retry).
LEMMA TransferBegins ==
    ASSUME IInv, lastId' \in 0..MaxIds, lastId <= lastId',
           NEW rs \in SUBSET Row, Distinct(rs), Given(rs, lastId'),
           NEW id \in Running(rs), NEW attempt \in 1..kMaxAttempts,
           NEW ids, IdsOf(active) \ ids = Running(rs) \ {id},
           NEW parts \in SUBSET Ids,
           StartTransfer(rs, id, attempt, Without(ids), parts),
           final' \subseteq Ids, orphans' \subseteq Transfer,
           UNCHANGED profile
    PROVE  IInv'
<1>1. /\ Without(ids) \in SUBSET Transfer /\ OneEach(Without(ids))
      /\ IdsOf(Without(ids)) = Running(rs) \ {id}
  BY WithoutFacts DEF IInv, TypeOK, TransfersMatchRows, OneEach
<1>2. TypeOK /\ ListOK
  BY DEF IInv
<1> DEFINE ts == Without(ids)
<1> HIDE DEF ts
<1>3. /\ rows' \in [Profiles -> SUBSET Row]
      /\ active' \subseteq Transfer /\ part' \subseteq Ids
      /\ \A p \in Profiles : Distinct(rows'[p]) /\ Given(rows'[p], lastId')
      /\ OneEach(active') /\ IdsOf(active') = Running(rows'[profile])
  <2>1. /\ ts \in SUBSET Transfer /\ OneEach(ts)
        /\ IdsOf(ts) = Running(rs) \ {id}
        /\ StartTransfer(rs, id, attempt, ts, parts)
    BY <1>1 DEF ts
  <2> QED
    BY <1>2, <2>1, StartTransferKeeps
<1>4. TypeOK'
  BY <1>3 DEF IInv, TypeOK
<1>5. ListOK'
  BY <1>3 DEF ListOK
<1>6. TransfersMatchRows'
  BY <1>3 DEF TransfersMatchRows, OneEach, IdsOf, Running
<1> QED
  BY <1>4, <1>5, <1>6 DEF IInv

\* What the invariant says of the list in memory and of m_active.
LEMMA ListFacts ==
    ASSUME IInv
    PROVE  /\ profile \in Profiles
           /\ rows[profile] \in SUBSET Row
           /\ Distinct(rows[profile]) /\ Given(rows[profile], lastId)
           /\ active \subseteq Transfer /\ OneEach(active)
           /\ IdsOf(active) = Running(rows[profile])
           /\ lastId \in 0..MaxIds /\ lastId \in Nat
BY DownloadsAssumption
   DEF IInv, TypeOK, ListOK, TransfersMatchRows, OneEach, IdsOf, Running

\* One row stops downloading, with its transfer.
LEMMA RowStops ==
    ASSUME IInv, NEW id, NEW status \in Status \ {"Downloading"},
           rows' = [rows EXCEPT ![profile] = SetStatus(@, {id}, status)],
           active' = Without({id}),
           part' \subseteq Ids, final' \subseteq Ids, orphans' \subseteq Transfer,
           UNCHANGED <<profile, lastId>>
    PROVE  IInv'
<1> DEFINE rs == SetStatus(rows[profile], {id}, status)
<1>1. /\ rs \in SUBSET Row /\ Distinct(rs) /\ Given(rs, lastId)
      /\ Running(rs) = Running(rows[profile]) \ {id}
  BY ListFacts, SetStatusFacts
<1> HIDE DEF rs
<1>2. rows' = [rows EXCEPT ![profile] = rs]
  BY DEF rs
<1> QED
  BY <1>1, <1>2, ListShrinks

\* The handler of finished, whichever reply runs it, for a transfer that is in
\* m_active.
LEMMA HandlerKeeps ==
    ASSUME IInv, NEW id \in IdsOf(active), NEW attempt \in 1..kMaxAttempts,
           Completes(id) \/ Retries(id, attempt),
           orphans' \subseteq Transfer, UNCHANGED <<profile, lastId>>
    PROVE  IInv'
<1>1. part \subseteq Ids /\ final \subseteq Ids /\ id \in Ids
  BY ListFacts DEF IInv, TypeOK, IdsOf, Transfer
<1>2. CASE Completes(id)
  BY <1>1, <1>2, RowStops DEF Completes, Renames, Status
<1>3. CASE Retries(id, attempt) /\ MayRetry(attempt)
  <2>1. attempt + 1 \in 1..kMaxAttempts
    BY <1>3 DEF MayRetry, kMaxAttempts
  <2>2. /\ StartTransfer(rows[profile], id, attempt + 1, Without({id}), part)
        /\ final' \subseteq Ids
    <3>1. id \in Running(rows[profile])
      BY ListFacts
    <3> QED
      BY <1>1, <1>3, <3>1 DEF Retries
  <2>3. id \in Running(rows[profile]) /\ IdsOf(active) \ {id} = Running(rows[profile]) \ {id}
    BY ListFacts
  <2> QED
    BY <1>1, <2>1, <2>2, <2>3, ListFacts, TransferBegins
<1>4. CASE Retries(id, attempt) /\ ~MayRetry(attempt)
  BY <1>1, <1>4, RowStops DEF Retries, Status
<1> QED
  BY <1>2, <1>3, <1>4

\* Every list is the list after a restart or a change of profile: nothing is
\* being transferred and nothing shows as downloading.
LEMMA ListIsLoaded ==
    ASSUME IInv, NEW p \in Profiles, NEW rs \in SUBSET Row,
           Distinct(rs), Given(rs, lastId),
           rows' = [rows EXCEPT ![profile] = rs, ![p] = Load(IF p = profile THEN rs ELSE @)],
           profile' = p, active' = {}, part' \subseteq Ids, final' \subseteq Ids,
           orphans' \subseteq Transfer, UNCHANGED lastId
    PROVE  IInv'
<1> DEFINE old == IF p = profile THEN rs ELSE rows[p]
           new == Load(old)
<1>1. old \in SUBSET Row /\ Distinct(old) /\ Given(old, lastId) /\ lastId \in Nat
  BY ListFacts DEF IInv, TypeOK, ListOK
<1> HIDE DEF old
<1>2. /\ new \in SUBSET Row /\ Distinct(new) /\ Given(new, lastId)
      /\ Running(new) = {}
  BY <1>1, LoadFacts
<1> HIDE DEF new
<1>3. rows' = [rows EXCEPT ![profile] = rs, ![p] = new]
  BY DEF new, old, IInv, TypeOK
<1>4. rows' \in [Profiles -> SUBSET Row] /\ rows'[p] = new
  BY <1>2, <1>3 DEF IInv, TypeOK
<1>5. TypeOK'
  BY <1>4 DEF IInv, TypeOK
<1>6. ListOK'
  BY <1>2, <1>3 DEF IInv, TypeOK, ListOK
<1>7. TransfersMatchRows'
  BY <1>2, <1>4 DEF TransfersMatchRows, IdsOf, Running
<1> QED
  BY <1>5, <1>6, <1>7 DEF IInv

LEMMA EndsKeeps ==
    ASSUME IInv, Ends, part' \subseteq Ids, final' \subseteq Ids
    PROVE  IInv'
<1>1. /\ rows' = [rows EXCEPT ![profile] = rows[profile],
                              ![profile] = Load(IF profile = profile THEN rows[profile] ELSE @)]
      /\ profile' = profile /\ active' = {} /\ orphans' \subseteq Transfer
      /\ UNCHANGED lastId
  BY DEF Ends, IInv, TypeOK
<1> QED
  BY <1>1, ListFacts, ListIsLoaded

-----------------------------------------------------------------------------

\* Nothing is listed and nothing is transferred at first.
LEMMA InitIInv == Init => IInv
BY DownloadsAssumption
   DEF Init, IInv, TypeOK, ListOK, Distinct, Given, TransfersMatchRows, IdsOf

\* enqueue keeps the invariant: the new row's id is given to no other row, and
\* the replaced rows go with their transfers (DownloadManager::enqueue).
LEMMA EnqueueKeeps ==
    ASSUME IInv, NEW k \in Keys, Enqueue(k)
    PROVE  IInv'
<1> DEFINE old == Replaced(k)
           new == [id |-> lastId + 1, key |-> k, status |-> "Downloading"]
           rs == (rows[profile] \ old) \cup {new}
<1>1. /\ lastId' = lastId + 1 /\ lastId' \in 0..MaxIds /\ lastId <= lastId'
      /\ lastId \in Nat /\ new \in Row
  BY ListFacts, DownloadsAssumption DEF Enqueue, Row, Ids, Status
<1>2. \A r \in rows[profile] : r \in Row /\ r.id \in Nat /\ r.id <= lastId
  BY ListFacts DEF Given, Row, Ids
<1>3. \A r \in rows[profile] \ old : r.key # k
  BY DEF Replaced
<1>4. \A r \in rows[profile] : r.id # new.id
  BY <1>1, <1>2
<1>5. new.key = k /\ new.status = "Downloading" /\ new.id = lastId + 1
  OBVIOUS
<1>6. StartTransfer(rs, new.id, 1, Without(IdsOf(old)), part \ IdsOf(old))
  BY DEF Enqueue
<1>7. old \subseteq rows[profile] /\ Stored(old) \subseteq IdsOf(old)
  BY DEF Replaced, Stored, IdsOf
<1> HIDE DEF new, old
<1>8. rs \in SUBSET Row
  BY <1>1, <1>2
<1>9. Distinct(rs)
  BY <1>3, <1>4, <1>5, ListFacts DEF Distinct
<1>10. Given(rs, lastId')
  BY <1>1, <1>2, <1>5 DEF Given
<1>11. new.id \in Running(rs)
  BY <1>5 DEF Running, IdsOf
<1>12. IdsOf(active) \ IdsOf(old) = Running(rs) \ {new.id}
  <2>1. Running(rs) \ {new.id} = Running(rows[profile] \ old)
    BY <1>4, <1>5, <1>7 DEF Running, IdsOf
  <2>2. Running(rows[profile] \ old) = Running(rows[profile]) \ IdsOf(old)
    BY <1>7, ListFacts DEF Running, IdsOf, Distinct
  <2> QED
    BY <2>1, <2>2, ListFacts
<1>13. /\ final' \subseteq Ids /\ orphans' \subseteq Transfer /\ profile' = profile
       /\ part \ IdsOf(old) \in SUBSET Ids
  BY DEF Enqueue, IInv, TypeOK
<1>14. 1 \in 1..kMaxAttempts
  BY DEF kMaxAttempts
<1> HIDE DEF rs
<1> QED
  BY <1>1, <1>6, <1>8, <1>9, <1>10, <1>11, <1>12, <1>13, <1>14, TransferBegins

\* pauseDownload keeps the invariant: the row and its transfer stop together.
LEMMA PauseKeeps ==
    ASSUME IInv, NEW r \in rows[profile], PauseDownload(r)
    PROVE  IInv'
BY RowStops DEF PauseDownload, Taken, Status, IInv, TypeOK

\* resumeDownload keeps the invariant: a row that is resumed has no transfer.
LEMMA ResumeKeeps ==
    ASSUME IInv, NEW r \in rows[profile], ResumeDownload(r)
    PROVE  IInv'
<1> DEFINE new == [r EXCEPT !.status = "Downloading"]
           rs == (rows[profile] \ {r}) \cup {new}
<1>1. /\ r \in Row /\ new \in Row /\ new.id = r.id /\ new.key = r.key
      /\ new.status = "Downloading"
  BY ListFacts DEF Row, Status
<1>2. /\ StartTransfer(rs, r.id, 1, Without({r.id}), part)
      /\ UNCHANGED <<profile, orphans, final, lastId>>
  BY DEF ResumeDownload
<1> HIDE DEF new
<1>3. rs \in SUBSET Row
  BY <1>1, ListFacts
<1>4. Distinct(rs)
  BY <1>1, ListFacts DEF Distinct
<1>5. Given(rs, lastId')
  BY <1>1, <1>2, ListFacts DEF Given
<1>6. r.id \in Running(rs)
  BY <1>1 DEF Running, IdsOf
<1>7. IdsOf(active) \ {r.id} = Running(rs) \ {r.id}
  <2>1. Running(rs) \ {r.id} = Running(rows[profile]) \ {r.id}
    BY <1>1 DEF Running, IdsOf
  <2> QED
    BY <2>1, ListFacts
<1>8. 1 \in 1..kMaxAttempts /\ lastId' \in 0..MaxIds /\ lastId <= lastId'
  BY <1>2, ListFacts DEF kMaxAttempts
<1>9. final' \subseteq Ids /\ orphans' \subseteq Transfer /\ part \in SUBSET Ids
  BY <1>2 DEF IInv, TypeOK
<1> HIDE DEF rs
<1> QED
  BY <1>2, <1>3, <1>4, <1>5, <1>6, <1>7, <1>8, <1>9, TransferBegins

\* cancelDownload keeps the invariant: the row goes with its transfer.
LEMMA CancelKeeps ==
    ASSUME IInv, NEW r \in rows[profile], CancelDownload(r)
    PROVE  IInv'
<1> DEFINE rs == rows[profile] \ {r}
<1>1. rs \in SUBSET Row /\ Distinct(rs) /\ Given(rs, lastId)
  BY ListFacts DEF Distinct, Given
<1>2. Running(rs) = Running(rows[profile]) \ {r.id}
  BY ListFacts DEF Running, IdsOf, Distinct
<1>3. /\ rows' = [rows EXCEPT ![profile] = rs] /\ active' = Without({r.id})
      /\ part' \subseteq Ids /\ final' \subseteq Ids /\ orphans' \subseteq Transfer
      /\ UNCHANGED <<profile, lastId>>
  BY DEF CancelDownload, Taken, PartsAfterCancel, IInv, TypeOK
<1> HIDE DEF rs
<1> QED
  BY <1>1, <1>2, <1>3, ListShrinks

\* setProfileId keeps the invariant, also when it is called under running
\* transfers and whatever the new attempts do.
LEMMA SwitchKeeps ==
    ASSUME IInv, NEW p \in Profiles,
           SwitchProfile(p) \/ SwitchUnderTransfers(p)
    PROVE  IInv'
<1>1. part' \subseteq Ids /\ final' \subseteq Ids /\ lastId' = lastId /\ p # profile /\ profile' = p
  BY DEF SwitchProfile, SwitchUnderTransfers, IInv, TypeOK
<1>2. CASE SwitchProfile(p)
  <2>1. /\ rows' = [rows EXCEPT ![profile] = rows[profile],
                                ![p] = Load(IF p = profile THEN rows[profile] ELSE @)]
        /\ active' = {} /\ orphans' \subseteq Transfer
    BY <1>2 DEF SwitchProfile, IInv, TypeOK
  <2> QED
    BY <1>1, <2>1, ListFacts, ListIsLoaded
<1>3. CASE SwitchUnderTransfers(p)
  <2>1. PICK begun \in SUBSET Transfer :
          LET lost == {t.id : t \in active} \ {t.id : t \in begun}
          IN  /\ orphans' = orphans \cup begun
              /\ rows' = [rows EXCEPT ![profile] = SetStatus(@, lost, "Failed"),
                                      ![p] = Load(@)]
    BY <1>3 DEF SwitchUnderTransfers
  <2> DEFINE lost == {t.id : t \in active} \ {t.id : t \in begun}
  <2> DEFINE rs == SetStatus(rows[profile], lost, "Failed")
  <2>2. rs \in SUBSET Row /\ Distinct(rs) /\ Given(rs, lastId)
    BY ListFacts, SetStatusFacts DEF Status
  <2>3. rows' = [rows EXCEPT ![profile] = rs,
                             ![p] = Load(IF p = profile THEN rs ELSE @)]
    BY <1>1, <2>1 DEF IInv, TypeOK
  <2>4. active' = {} /\ orphans' \subseteq Transfer
    BY <1>3, <2>1 DEF SwitchUnderTransfers, IInv, TypeOK
  <2> HIDE DEF rs
  <2> QED
    BY <1>1, <2>2, <2>3, <2>4, ListIsLoaded
<1> QED
  BY <1>2, <1>3

\* The end of a reply keeps the invariant, also when the handler that runs is
\* a forgotten one's, of an earlier transfer of the row.
LEMMA RepliesKeep ==
    ASSUME IInv, NEW ok \in BOOLEAN, NEW t,
           \/ t \in active /\ TransferEnds(t, ok)
           \/ t \in orphans /\ OrphanEnds(t, ok)
    PROVE  IInv'
<1>1. t \in Transfer
  BY DEF IInv, TypeOK
<1>2. t.attempt \in 1..kMaxAttempts
  BY <1>1 DEF Transfer
<1>3. CASE t \in active /\ TransferEnds(t, ok)
  <2>1. t.id \in IdsOf(active) /\ (Completes(t.id) \/ Retries(t.id, t.attempt))
    BY <1>3 DEF TransferEnds, IdsOf
  <2>2. orphans' \subseteq Transfer /\ UNCHANGED <<profile, lastId>>
    BY <1>3 DEF TransferEnds, IInv, TypeOK
  <2> QED
    BY <1>2, <2>1, <2>2, HandlerKeeps
<1>4. CASE OrphanEnds(t, ok) /\ \E u \in active : u.id = t.id
  <2>1. t.id \in IdsOf(active) /\ (Completes(t.id) \/ Retries(t.id, t.attempt))
    BY <1>4 DEF OrphanEnds, IdsOf
  <2>2. orphans' \subseteq Transfer /\ UNCHANGED <<profile, lastId>>
    BY <1>4 DEF OrphanEnds, IInv, TypeOK
  <2> QED
    BY <1>2, <2>1, <2>2, HandlerKeeps
<1>5. CASE OrphanEnds(t, ok) /\ ~\E u \in active : u.id = t.id
  <2>1. orphans' \subseteq Transfer /\ UNCHANGED <<profile, rows, active, part, final, lastId>>
    BY <1>5 DEF OrphanEnds, IInv, TypeOK
  <2> QED
    BY <2>1 DEF IInv, TypeOK, ListOK, Distinct, Given, TransfersMatchRows, IdsOf
<1> QED
  BY <1>3, <1>4, <1>5

\* A death of the process, wherever it strikes, keeps the invariant.
LEMMA DeathsKeep ==
    ASSUME IInv, Deaths
    PROVE  IInv'
<1>1. Ends
  BY DEF Deaths, Restart, DiesCompleting, DiesRemoving
<1>2. \A t \in active : t.id \in Ids
  BY ListFacts DEF Transfer
<1>3. part' \subseteq Ids /\ final' \subseteq Ids
  BY <1>2 DEF Deaths, Restart, DiesCompleting, DiesRemoving, Renames, IInv, TypeOK
<1> QED
  BY <1>1, <1>3, EndsKeeps

LEMMA NextKeeps == IInv /\ [Next]_vars => IInv'
<1> SUFFICES ASSUME IInv, [Next]_vars PROVE IInv'
  OBVIOUS
<1>1. CASE User
  <2>1. \/ \E k \in Keys : Enqueue(k)
        \/ \E r \in rows[profile] : PauseDownload(r) \/ ResumeDownload(r) \/ CancelDownload(r)
        \/ \E p \in Profiles : SwitchProfile(p) \/ SwitchUnderTransfers(p)
    BY <1>1 DEF User
  <2> QED
    BY <2>1, EnqueueKeeps, PauseKeeps, ResumeKeeps, CancelKeeps, SwitchKeeps
<1>2. CASE Replies
  BY <1>2, RepliesKeep DEF Replies
<1>3. CASE Deaths
  BY <1>3, DeathsKeep
<1>4. CASE UNCHANGED vars
  BY <1>4 DEF vars, IInv, TypeOK, ListOK, Distinct, Given, TransfersMatchRows, IdsOf
<1> QED
  BY <1>1, <1>2, <1>3, <1>4 DEF Next

THEOREM Invariance == Spec => []IInv
BY InitIInv, NextKeeps, PTL DEF Spec

\* Every variable keeps its type: no transfer makes a fourth attempt.
THEOREM TypeCorrect == Spec => []TypeOK
BY Invariance, PTL DEF IInv

\* What the list shows as downloading is what m_active transfers, one transfer
\* for each row, for any titles, profiles and number of downloads, under any
\* pauses, replacements, retries, profile switches and deaths.
THEOREM TransfersMatch == Spec => []TransfersMatchRows
BY Invariance, PTL DEF IInv

\* "logical keys are unique by construction" (DownloadManager::enqueue).
THEOREM UniqueTitles == Spec => []OneDownloadPerTitle
<1>1. IInv => OneDownloadPerTitle
  BY DEF IInv, ListOK, Distinct, OneDownloadPerTitle
<1> QED
  BY <1>1, Invariance, PTL

-----------------------------------------------------------------------------
(* The .part files. *)

\* The ids of a list that can be resumed or cancelled.
Resumable(rs) == IdsOf({r \in rs : r.status # "Completed"})

\* A step keeps each .part file with its row when it takes files off for the
\* rows it takes out, and makes one only for a row that can be resumed.
LEMMA PartsStay ==
    ASSUME PartsCanBeResumed, profile \in Profiles, NEW gone,
           \A p \in Profiles : Resumable(rows[p]) \ gone \subseteq Resumable(rows'[p]),
           \A id \in part' : id \in part \ gone \/ id \in Resumable(rows'[profile])
    PROVE  PartsCanBeResumed'
<1>1. \A id \in part : \E p \in Profiles : id \in Resumable(rows[p])
  BY DEF PartsCanBeResumed, Resumable, IdsOf
<1>2. \A id \in part' : \E p \in Profiles : id \in Resumable(rows'[p])
  BY <1>1
<1> QED
  BY <1>2 DEF PartsCanBeResumed, Resumable, IdsOf

\* load and mutate leave what can be resumed, but for a row that completes.
LEMMA ResumableKept ==
    ASSUME NEW rs \in SUBSET Row, NEW ids, NEW status \in Status
    PROVE  /\ Resumable(rs) \subseteq Resumable(Load(rs))
           /\ Resumable(rs) \ ids \subseteq Resumable(SetStatus(rs, ids, status))
           /\ status # "Completed" =>
                 Resumable(rs) \subseteq Resumable(SetStatus(rs, ids, status))
<1> DEFINE L(r) == [r EXCEPT !.status = IF @ = "Downloading" THEN "Paused" ELSE @]
           S(r) == IF r.id \in ids /\ r.status = "Downloading"
                   THEN [r EXCEPT !.status = status] ELSE r
<1>1. \A r \in rs : /\ L(r).id = r.id /\ S(r).id = r.id
                    /\ r.status # "Completed" => L(r).status # "Completed"
                    /\ r.status # "Completed" /\ (r.id \notin ids \/ status # "Completed") =>
                          S(r).status # "Completed"
  BY DEF Row, Status
<1>2. \A r \in rs : L(r) \in Load(rs) /\ S(r) \in SetStatus(rs, ids, status)
  BY DEF Load, SetStatus
<1> HIDE DEF L, S
<1> QED
  BY <1>1, <1>2 DEF Resumable, IdsOf

\* The list of one profile changes (enqueue, pauseDownload, resumeDownload,
\* cancelDownload, the handler of finished).
LEMMA ListKeepsParts ==
    ASSUME IInv, PartsCanBeResumed, NEW rs, NEW gone,
           rows' = [rows EXCEPT ![profile] = rs],
           Resumable(rows[profile]) \ gone \subseteq Resumable(rs),
           \A id \in part' : id \in part \ gone \/ id \in Resumable(rs)
    PROVE  PartsCanBeResumed'
<1>1. /\ profile \in Profiles /\ rows'[profile] = rs
      /\ \A p \in Profiles : p # profile => rows'[p] = rows[p]
  BY DEF IInv, TypeOK
<1> QED
  BY <1>1, PartsStay

\* A transfer that begins makes the .part file of a row that is not completed
\* (startTransfer).
LEMMA StartKeepsParts ==
    ASSUME IInv, PartsCanBeResumed, NEW rs \in SUBSET Row, NEW id \in Resumable(rs),
           NEW gone, NEW attempt, NEW ts,
           Resumable(rows[profile]) \ gone \subseteq Resumable(rs),
           StartTransfer(rs, id, attempt, ts, part \ gone)
    PROVE  PartsCanBeResumed'
<1>1. CASE rows' = [rows EXCEPT ![profile] = rs] /\ part' = (part \ gone) \cup {id}
  BY <1>1, ListKeepsParts
<1>2. CASE /\ rows' = [rows EXCEPT ![profile] = SetStatus(rs, {id}, "Failed")]
           /\ part' = part \ gone
  <2> DEFINE new == SetStatus(rs, {id}, "Failed")
  <2>1. Resumable(rows[profile]) \ gone \subseteq Resumable(new)
    BY ResumableKept DEF Status
  <2> HIDE DEF new
  <2>2. rows' = [rows EXCEPT ![profile] = new]
    BY <1>2 DEF new
  <2> QED
    BY <1>2, <2>1, <2>2, ListKeepsParts
<1> QED
  BY <1>1, <1>2 DEF StartTransfer

\* A transfer that is in m_active has a row that can be resumed.
LEMMA ActiveResumable ==
    ASSUME IInv, NEW id \in IdsOf(active)
    PROVE  id \in Resumable(rows[profile])
<1>1. id \in Running(rows[profile])
  BY ListFacts
<1> QED
  BY <1>1 DEF Running, Resumable, IdsOf

\* The handler of finished renames or keeps the file with the status of its row.
LEMMA HandlerKeepsParts ==
    ASSUME IInv, PartsCanBeResumed, NEW id \in IdsOf(active), NEW attempt,
           Completes(id) \/ Retries(id, attempt)
    PROVE  PartsCanBeResumed'
<1>1. rows[profile] \in SUBSET Row
  BY ListFacts
<1>2. CASE Completes(id)
  <2> DEFINE new == SetStatus(rows[profile], {id}, "Completed")
  <2>1. Resumable(rows[profile]) \ {id} \subseteq Resumable(new)
    BY <1>1, ResumableKept DEF Status
  <2> HIDE DEF new
  <2>2. rows' = [rows EXCEPT ![profile] = new] /\ part' = part \ {id}
    BY <1>2 DEF Completes, Renames, new
  <2> QED
    BY <2>1, <2>2, ListKeepsParts
<1>3. CASE Retries(id, attempt) /\ MayRetry(attempt)
  <2>1. StartTransfer(rows[profile], id, attempt + 1, Without({id}), part \ {})
    <3>1. id \in Running(rows[profile])
      BY ListFacts
    <3> QED
      BY <1>3, <3>1 DEF Retries
  <2> QED
    BY <1>1, <2>1, ActiveResumable, StartKeepsParts
<1>4. CASE Retries(id, attempt) /\ ~MayRetry(attempt)
  <2> DEFINE new == SetStatus(rows[profile], {id}, "Failed")
  <2>1. Resumable(rows[profile]) \ {} \subseteq Resumable(new)
    BY <1>1, ResumableKept DEF Status
  <2> HIDE DEF new
  <2>2. rows' = [rows EXCEPT ![profile] = new] /\ part' = part
    BY <1>4 DEF Retries, new
  <2> QED
    BY <2>1, <2>2, ListKeepsParts
<1> QED
  BY <1>2, <1>3, <1>4

\* enqueue takes the replaced rows out with their .part files.
LEMMA EnqueueKeepsParts ==
    ASSUME IInv, PartsCanBeResumed, NEW k \in Keys, Enqueue(k)
    PROVE  PartsCanBeResumed'
<1> DEFINE old == Replaced(k)
           new == [id |-> lastId + 1, key |-> k, status |-> "Downloading"]
           rs == (rows[profile] \ old) \cup {new}
<1>1. new \in Row /\ new.status = "Downloading" /\ rows[profile] \in SUBSET Row
  BY ListFacts, DownloadsAssumption DEF Enqueue, Row, Ids, Status
<1>2. StartTransfer(rs, new.id, 1, Without(IdsOf(old)), part \ IdsOf(old))
  BY DEF Enqueue
<1> HIDE DEF new, old
<1>3. rs \in SUBSET Row /\ new.id \in Resumable(rs)
  BY <1>1 DEF Resumable, IdsOf
<1>4. Resumable(rows[profile]) \ IdsOf(old) \subseteq Resumable(rs)
  BY DEF Resumable, IdsOf
<1> HIDE DEF rs
<1> QED
  BY <1>2, <1>3, <1>4, StartKeepsParts

\* The other buttons of a row.
LEMMA ButtonsKeepParts ==
    ASSUME IInv, PartsCanBeResumed, NEW r \in rows[profile],
           PauseDownload(r) \/ ResumeDownload(r) \/ CancelDownload(r)
    PROVE  PartsCanBeResumed'
<1>1. r \in Row /\ rows[profile] \in SUBSET Row
  BY ListFacts
<1>2. CASE PauseDownload(r)
  <2> DEFINE new == SetStatus(rows[profile], {r.id}, "Paused")
  <2>1. Resumable(rows[profile]) \ {} \subseteq Resumable(new)
    BY <1>1, ResumableKept DEF Status
  <2> HIDE DEF new
  <2>2. rows' = [rows EXCEPT ![profile] = new] /\ part' = part
    BY <1>2 DEF PauseDownload, new
  <2> QED
    BY <2>1, <2>2, ListKeepsParts
<1>3. CASE ResumeDownload(r)
  <2> DEFINE new == [r EXCEPT !.status = "Downloading"]
             rs == (rows[profile] \ {r}) \cup {new}
  <2>1. new \in Row /\ new.id = r.id /\ new.status = "Downloading"
    BY <1>1 DEF Row, Status
  <2>2. StartTransfer(rs, r.id, 1, Without({r.id}), part \ {})
    BY <1>3 DEF ResumeDownload
  <2> HIDE DEF new
  <2>3. rs \in SUBSET Row /\ r.id \in Resumable(rs)
    BY <1>1, <2>1 DEF Resumable, IdsOf
  <2>4. Resumable(rows[profile]) \ {} \subseteq Resumable(rs)
    BY <2>1 DEF Resumable, IdsOf
  <2> HIDE DEF rs
  <2> QED
    BY <2>2, <2>3, <2>4, StartKeepsParts
<1>4. CASE CancelDownload(r)
  <2> DEFINE new == rows[profile] \ {r}
  <2>1. Resumable(rows[profile]) \ {r.id} \subseteq Resumable(new)
    BY DEF Resumable, IdsOf
  <2> HIDE DEF new
  <2>2. rows' = [rows EXCEPT ![profile] = new] /\ part' = part \ {r.id}
    BY <1>4 DEF CancelDownload, PartsAfterCancel, new
  <2> QED
    BY <2>1, <2>2, ListKeepsParts
<1> QED
  BY <1>2, <1>3, <1>4

\* setProfileId moves no file.
LEMMA SwitchKeepsParts ==
    ASSUME IInv, PartsCanBeResumed, NEW p \in Profiles,
           SwitchProfile(p) \/ SwitchUnderTransfers(p)
    PROVE  PartsCanBeResumed'
<1>1. /\ p # profile /\ part' = part /\ profile \in Profiles
      /\ \A q \in Profiles : rows[q] \in SUBSET Row
  BY DEF SwitchProfile, SwitchUnderTransfers, IInv, TypeOK
<1>2. \A q \in Profiles : Resumable(rows[q]) \subseteq Resumable(rows'[q])
  <2>1. CASE SwitchProfile(p)
    <3>1. \A q \in Profiles : rows'[q] = IF q = p THEN Load(rows[q]) ELSE rows[q]
      BY <2>1 DEF SwitchProfile, IInv, TypeOK
    <3> QED
      BY <1>1, <3>1, ResumableKept DEF Status
  <2>2. CASE SwitchUnderTransfers(p)
    <3>1. PICK lost : rows' = [rows EXCEPT ![profile] = SetStatus(@, lost, "Failed"),
                                           ![p] = Load(@)]
      BY <2>2 DEF SwitchUnderTransfers
    <3>2. \A q \in Profiles :
              rows'[q] = CASE q = p -> Load(rows[q])
                           [] q = profile -> SetStatus(rows[q], lost, "Failed")
                           [] OTHER -> rows[q]
      BY <1>1, <3>1 DEF IInv, TypeOK
    <3>3. \A q \in Profiles :
              /\ Resumable(rows[q]) \subseteq Resumable(Load(rows[q]))
              /\ Resumable(rows[q]) \subseteq Resumable(SetStatus(rows[q], lost, "Failed"))
      BY <1>1, ResumableKept DEF Status
    <3> QED
      BY <1>1, <3>2, <3>3
  <2> QED
    BY <2>1, <2>2
<1> QED
  BY <1>1, <1>2, PartsStay

\* A death leaves at most the files that were there, and every row that was not
\* completed.
LEMMA DeathsKeepParts ==
    ASSUME IInv, PartsCanBeResumed, Deaths
    PROVE  PartsCanBeResumed'
<1> DEFINE new == Load(rows[profile])
<1>1. Resumable(rows[profile]) \ {} \subseteq Resumable(new)
  BY ListFacts, ResumableKept DEF Status
<1> HIDE DEF new
<1>2. Ends /\ \A id \in part' : id \in part
  BY DEF Deaths, Restart, DiesCompleting, DiesRemoving, Renames
<1>3. rows' = [rows EXCEPT ![profile] = new]
  BY <1>2 DEF Ends, new
<1> QED
  BY <1>1, <1>2, <1>3, ListKeepsParts

LEMMA PartsKeep == IInv /\ PartsCanBeResumed /\ [Next]_vars => PartsCanBeResumed'
<1> SUFFICES ASSUME IInv, PartsCanBeResumed, [Next]_vars PROVE PartsCanBeResumed'
  OBVIOUS
<1>1. CASE User
  BY <1>1, EnqueueKeepsParts, ButtonsKeepParts, SwitchKeepsParts DEF User
<1>2. ASSUME NEW ok \in BOOLEAN, NEW t \in active, TransferEnds(t, ok)
      PROVE  PartsCanBeResumed'
  BY <1>2, HandlerKeepsParts DEF TransferEnds, IdsOf
<1>3. ASSUME NEW ok \in BOOLEAN, NEW t \in orphans, OrphanEnds(t, ok)
      PROVE  PartsCanBeResumed'
  <2>1. CASE \E u \in active : u.id = t.id
    BY <1>3, <2>1, HandlerKeepsParts DEF OrphanEnds, IdsOf
  <2>2. CASE ~\E u \in active : u.id = t.id
    BY <1>3, <2>2 DEF OrphanEnds, PartsCanBeResumed
  <2> QED
    BY <2>1, <2>2
<1>4. CASE Deaths
  BY <1>4, DeathsKeepParts
<1>5. CASE UNCHANGED vars
  BY <1>5 DEF vars, PartsCanBeResumed
<1> QED
  BY <1>1, <1>2, <1>3, <1>4, <1>5 DEF Next, Replies

\* No .part file is left behind: each belongs to a row, of any profile, that can
\* still be resumed or cancelled, also after deaths between the change of a file
\* and of the list.
THEOREM NoPartIsLeft == Spec => []PartsCanBeResumed
<1>1. Init => PartsCanBeResumed
  BY DEF Init, PartsCanBeResumed
<1> QED
  BY <1>1, PartsKeep, Invariance, PTL DEF Spec
=============================================================================
