----------------------------- MODULE Downloads -----------------------------
(***************************************************************************)
(* DownloadManager (src/systems/downloads): the list of downloads of a     *)
(* profile, their transfers and their files.                               *)
(*                                                                         *)
(* A row is its id, its logical content key and its status; its            *)
(* localFileUri is set while it is Completed and at no other time.  The    *)
(* list in memory and the one on disk differ only by what load makes of    *)
(* the latter, so one variable stands for both.  Names of files are        *)
(* unique, like ids.  Bytes and their progress are left out: the code      *)
(* writes none of a reply's body to the .part file, so the file is empty   *)
(* whenever a transfer begins, no Range is ever sent, and the branch for   *)
(* status 416 cannot be taken.                                             *)
(***************************************************************************)
EXTENDS Naturals, FiniteSets

CONSTANTS Keys, Profiles,
          MaxIds        \* bound on enqueue

ASSUME DownloadsAssumption == MaxIds \in Nat

kMaxAttempts == 3

VARIABLES
    profile,
    rows,       \* m_items, and what is stored for the other profiles
    active,     \* m_active
    orphans,    \* replies that run and are not in m_active
    part,       \* ids whose .part file exists
    final,      \* ids whose file exists
    lastId

vars == <<profile, rows, active, orphans, part, final, lastId>>

Ids == 1..MaxIds

Status == {"Downloading", "Paused", "Completed", "Failed"}

Row == [id : Ids, key : Keys, status : Status]

\* attempt is what the handler of the reply's finished signal has captured.
Transfer == [id : Ids, attempt : 1..kMaxAttempts]

TypeOK ==
    /\ profile \in Profiles
    /\ rows \in [Profiles -> SUBSET Row]
    /\ active \subseteq Transfer /\ orphans \subseteq Transfer
    /\ part \subseteq Ids /\ final \subseteq Ids
    /\ lastId \in 0..MaxIds

Init ==
    /\ profile \in Profiles
    /\ rows = [p \in Profiles |-> {}]
    /\ active = {} /\ orphans = {}
    /\ part = {} /\ final = {}
    /\ lastId = 0

-----------------------------------------------------------------------------

\* load: a row that was interrupted is paused.
Load(rs) == {[r EXCEPT !.status = IF @ = "Downloading" THEN "Paused" ELSE @] :
                r \in rs}

\* mutate, as every caller uses it: only a row that is downloading changes.
SetStatus(rs, ids, status) ==
    {IF r.id \in ids /\ r.status = "Downloading"
     THEN [r EXCEPT !.status = status] ELSE r : r \in rs}

Without(ids) == {t \in active : t.id \notin ids}

\* startTransfer for a row of rs; parts are the .part files there are.
StartTransfer(rs, id, attempt, ts, parts) ==
    \/ /\ rows' = [rows EXCEPT ![profile] = rs]
       /\ active' = ts \cup {[id |-> id, attempt |-> attempt]}
       /\ part' = parts \cup {id}
    \/ /\ rows' = [rows EXCEPT ![profile] = SetStatus(rs, {id}, "Failed")]
       /\ active' = ts
       /\ part' = parts

-----------------------------------------------------------------------------
(* The user. *)

\* Mutant of Replaced: an interrupted download of the title is kept.
ReplacedWhenDone(k) ==
    {r \in rows[profile] : r.key = k /\ r.status = "Completed"}

Replaced(k) == {r \in rows[profile] : r.key = k}

IdsOf(rs) == {r.id : r \in rs}

\* The rows that show as downloading.
Running(rs) == IdsOf({r \in rs : r.status = "Downloading"})

Stored(rs) == IdsOf({r \in rs : r.status = "Completed"})

\* enqueue: a download of the same title is replaced, with its files.
Enqueue(k) ==
    LET old == Replaced(k)
        new == [id |-> lastId + 1, key |-> k, status |-> "Downloading"]
    IN  /\ lastId < MaxIds
        /\ lastId' = new.id
        /\ StartTransfer((rows[profile] \ old) \cup {new}, new.id, 1,
                         Without(IdsOf(old)), part \ IdsOf(old))
        /\ final' = final \ Stored(old)
        /\ UNCHANGED <<profile, orphans>>

\* Mutant of Taken: the transfer stays in m_active.
NotTaken(ids) == active

Taken(ids) == Without(ids)

PauseDownload(r) ==
    /\ active' = Taken({r.id})
    /\ rows' = [rows EXCEPT ![profile] = SetStatus(@, {r.id}, "Paused")]
    /\ UNCHANGED <<profile, orphans, part, final, lastId>>

ResumeDownload(r) ==
    /\ r.status \in {"Paused", "Failed"}
    /\ StartTransfer((rows[profile] \ {r}) \cup {[r EXCEPT !.status = "Downloading"]},
                     r.id, 1, Without({r.id}), part)
    /\ UNCHANGED <<profile, orphans, final, lastId>>

\* Mutant of PartsAfterCancel: the .part file stays.
PartsKept(r) == part

PartsAfterCancel(r) == part \ {r.id}

CancelDownload(r) ==
    /\ active' = Taken({r.id})
    /\ rows' = [rows EXCEPT ![profile] = @ \ {r}]
    /\ part' = PartsAfterCancel(r)
    /\ final' = final \ Stored({r})
    /\ UNCHANGED <<profile, orphans, lastId>>

SwitchProfile(p) ==
    /\ p # profile
    /\ active = {}
    /\ profile' = p
    /\ rows' = [rows EXCEPT ![p] = Load(@)]
    /\ UNCHANGED <<active, orphans, part, final, lastId>>

\* setProfileId aborts the transfers with m_active unchanged: abort sends
\* finished at once, its handler deletes the transfer that the loop is at and
\* starts the next attempt, which the loop may come to as well.  What follows
\* is undefined; the process dies (Restart), or goes on with any of the new
\* attempts running and forgotten.
SwitchUnderTransfers(p) ==
    /\ p # profile
    /\ active # {}
    /\ profile' = p
    /\ \E begun \in SUBSET {t \in Transfer : \E u \in active : u.id = t.id /\ u.attempt < t.attempt} :
          LET lost == {t.id : t \in active} \ {t.id : t \in begun}
          IN  /\ orphans' = orphans \cup begun
              /\ rows' = [rows EXCEPT ![profile] = SetStatus(@, lost, "Failed"),
                                      ![p] = Load(@)]
    /\ active' = {}
    /\ UNCHANGED <<part, final, lastId>>

-----------------------------------------------------------------------------
(* The handler of a reply's finished signal, with the attempt it captured,  *)
(* for the transfer it takes out of m_active.                               *)

\* Mutant of MayRetry: one attempt too many.
MayRetryLonger(attempt) == attempt <= kMaxAttempts

MayRetry(attempt) == attempt < kMaxAttempts

\* Mutant of Retries: out of attempts, the download begins again.
BeginsAgain(id, attempt) ==
    /\ StartTransfer(rows[profile], id, IF MayRetry(attempt) THEN attempt + 1 ELSE 1,
                     Without({id}), part)
    /\ UNCHANGED final

\* Another attempt while there are any left and the row still says Downloading.
Retries(id, attempt) ==
    /\ IF MayRetry(attempt) /\ id \in Running(rows[profile])
       THEN StartTransfer(rows[profile], id, attempt + 1, Without({id}), part)
       ELSE /\ rows' = [rows EXCEPT ![profile] = SetStatus(@, {id}, "Failed")]
            /\ active' = Without({id})
            /\ UNCHANGED part
    /\ UNCHANGED final

\* The .part file takes the place of the file, if it is there.
Renames(id) ==
    /\ part' = part \ {id}
    /\ final' = IF id \in part THEN final \cup {id} ELSE final \ {id}

Completes(id) ==
    /\ Renames(id)
    /\ rows' = [rows EXCEPT ![profile] = SetStatus(@, {id}, "Completed")]
    /\ active' = Without({id})

TransferEnds(t, ok) ==
    /\ IF ok THEN Completes(t.id) ELSE Retries(t.id, t.attempt)
    /\ UNCHANGED <<profile, orphans, lastId>>

\* A forgotten reply's handler takes whatever transfer its id has now, and
\* reads the status of that one's reply.
OrphanEnds(t, ok) ==
    /\ orphans' = orphans \ {t}
    /\ IF \E u \in active : u.id = t.id
       THEN IF ok THEN Completes(t.id) ELSE Retries(t.id, t.attempt)
       ELSE UNCHANGED <<rows, active, part, final>>
    /\ UNCHANGED <<profile, lastId>>

-----------------------------------------------------------------------------
(* The process ends, between two steps or between a change of files and the *)
(* list that tells of it.                                                   *)

Ends ==
    /\ rows' = [rows EXCEPT ![profile] = Load(@)]
    /\ active' = {} /\ orphans' = {}
    /\ UNCHANGED <<profile, lastId>>

Restart == Ends /\ UNCHANGED <<part, final>>

DiesCompleting(t) == Ends /\ Renames(t.id)

\* In enqueue or cancelDownload.
DiesRemoving(r) ==
    /\ Ends
    /\ final' = final \ Stored({r})
    /\ part' \in {part, part \ {r.id}}

-----------------------------------------------------------------------------
User == \/ \E k \in Keys : Enqueue(k)
        \/ \E r \in rows[profile] : \/ PauseDownload(r)
                                    \/ ResumeDownload(r)
                                    \/ CancelDownload(r)
        \/ \E p \in Profiles : SwitchProfile(p) \/ SwitchUnderTransfers(p)

Replies == \E ok \in BOOLEAN : \/ \E t \in active : TransferEnds(t, ok)
                               \/ \E t \in orphans : OrphanEnds(t, ok)

Deaths == \/ Restart
          \/ \E t \in active : DiesCompleting(t)
          \/ \E r \in rows[profile] : DiesRemoving(r)

Next == User \/ Replies \/ Deaths

\* The network ends every transfer sooner or later; the code sets no timeout.
Fairness ==
    \A id \in Ids : WF_vars(\E t \in active, ok \in BOOLEAN :
                               t.id = id /\ TransferEnds(t, ok))

Spec == Init /\ [][Next]_vars /\ Fairness

-----------------------------------------------------------------------------
(* Properties. *)

\* What the list shows as downloading is what is being transferred, each row
\* by one transfer, whatever was paused, replaced, resumed or retried
\* meanwhile, also by handlers that were forgotten.
TransfersMatchRows ==
    /\ {t.id : t \in active} = IdsOf({r \in rows[profile] : r.status = "Downloading"})
    /\ \A t, u \in active : t.id = u.id => t = u

\* "logical keys are unique by construction" (enqueue): a profile has one
\* download of a title, so that replacing the first one found is enough.
OneDownloadPerTitle ==
    \A p \in Profiles : \A r, s \in rows[p] : r.key = s.key => r = s

\* No .part file is left behind: each belongs to a row, of any profile, that
\* can still be resumed or cancelled.
PartsCanBeResumed ==
    \A id \in part : \E p \in Profiles : \E r \in rows[p] :
        r.id = id /\ r.status # "Completed"

\* A transfer does not go on for ever: three attempts end, whatever the user
\* does with other rows.
TransfersEnd ==
    \A id \in Ids : (\E t \in active : t.id = id) ~> (\A t \in active : t.id # id)
=============================================================================
