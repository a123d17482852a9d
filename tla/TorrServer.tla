----------------------------- MODULE TorrServer -----------------------------
(***************************************************************************)
(* P2pEngine over TorrServerProcess (src/systems/p2p): the local torrent   *)
(* server is brought up on demand, shared by the generations of            *)
(* startStream, and answers the current one with a url or a failure.       *)
(*                                                                         *)
(* Signals between the two are queued, and every startStream leaves its     *)
(* connections behind; requests to the server are awaited in nested event   *)
(* loops, so anything may happen before they return.  PlaySession has the   *)
(* stack of those loops; here they return in any order.  The process may    *)
(* end at any time: it crashes, or the kill timer of an earlier stop finds  *)
(* the new process.  That is noticed only while it starts.                  *)
(***************************************************************************)
EXTENDS Naturals, SequencesExt

CONSTANTS MaxStreams,                  \* bound on the generations
          kMetadataDeadlineAttempts    \* 15 in the code

VARIABLES
    phase,      \* TorrServerProcess::m_phase
    idleTimer,  \* the binary is to be stopped
    generation,
    wired,      \* the generations connected to ready and failed
    posted,     \* queued calls and signals
    sessions,     \* the generations inside beginSession
    attempts,   \* attemptsLeft of the current generation, or NoTorrent
    answered    \* auxiliary: the current generation is stopped or answered

engineVars == <<sessions, attempts, answered>>
torrVars == <<phase, idleTimer, generation, wired, posted, engineVars>>

NoTorrent == kMetadataDeadlineAttempts + 1

Event == [kind : {"missing", "ready", "failed", "streamReady", "streamFailed"},
          of : Nat]

TypeOK ==
    /\ phase \in {"Idle", "OrphanWait", "Starting", "Running"}
    /\ idleTimer \in BOOLEAN
    /\ generation \in 0..MaxStreams
    /\ wired \subseteq 1..generation /\ sessions \subseteq 1..generation
    /\ posted \in Seq(Event)
    /\ attempts \in 0..NoTorrent /\ answered \in BOOLEAN

Init ==
    /\ phase = "Idle" /\ idleTimer = FALSE
    /\ generation = 0 /\ wired = {} /\ posted = <<>>
    /\ sessions = {} /\ attempts = NoTorrent /\ answered = TRUE

Posting(kind, g) == <<[kind |-> kind, of |-> g]>>

\* A signal of the process, to every connection there is.
Emits(kind) == [n \in 1..Len(SetToSeq(wired)) |->
                  [kind |-> kind, of |-> SetToSeq(wired)[n]]]

\* Mutant of FinishFailure: the process is stopped and nothing is told.
StopsOnly == phase' = "Idle" /\ UNCHANGED posted

\* finishFailure; stop by itself emits nothing.
FinishFailure == phase' = "Idle" /\ posted' = posted \o Emits("failed")

-----------------------------------------------------------------------------
(* P2pEngine, as it is called. *)

\* startStream; the magnet of an invalid hash is empty, and an empty path of
\* the binary is reported by a queued call.
StartStream(valid, binary) ==
    LET g == generation + 1
    IN  /\ generation < MaxStreams
        /\ generation' = g
        /\ idleTimer' = FALSE
        /\ attempts' = NoTorrent /\ answered' = FALSE
        /\ wired' = IF valid THEN wired \cup {g} ELSE wired
        /\ sessions' = IF valid /\ phase = "Running" THEN sessions \cup {g} ELSE sessions
        /\ phase' = IF valid /\ phase = "Idle" /\ binary THEN "OrphanWait" ELSE phase
        /\ posted' = posted \o CASE ~valid -> Posting("streamFailed", g)
                                 [] valid /\ phase = "Idle" /\ ~binary -> Posting("missing", g)
                                 [] OTHER -> <<>>

\* stopStream, which nothing calls yet.  The drop it posts, and its wait for that,
\* are left out.
StopStream ==
    /\ generation < MaxStreams
    /\ generation' = generation + 1
    /\ idleTimer' = TRUE
    /\ attempts' = NoTorrent /\ answered' = TRUE
    /\ UNCHANGED <<phase, wired, posted, sessions>>

IdleStop ==
    /\ idleTimer
    /\ idleTimer' = FALSE
    /\ phase' = "Idle"
    /\ UNCHANGED <<generation, wired, posted, engineVars>>

-----------------------------------------------------------------------------
(* TorrServerProcess. *)

processUnchanged == UNCHANGED <<idleTimer, generation, wired, engineVars>>

\* The leftover instance has had its second: spawn.
OrphanSettles(exists) ==
    /\ phase = "OrphanWait"
    /\ IF exists THEN phase' = "Starting" /\ UNCHANGED posted
                 ELSE FinishFailure
    /\ processUnchanged

\* pollHealth: /echo answers, whoever listens on the port.
HealthReply ==
    /\ phase = "Starting"
    /\ phase' = "Running"
    /\ posted' = posted \o Emits("ready")
    /\ processUnchanged

\* The deadline, a binary that does not run, a process that ends.
StartFails ==
    /\ phase = "Starting"
    /\ FinishFailure
    /\ processUnchanged

-----------------------------------------------------------------------------
(* P2pEngine, from its event loop. *)

\* failToken.
FailToken(g) == IF g = generation THEN Posting("streamFailed", g) ELSE <<>>

Deliver ==
    LET e == Head(posted)
        rest == Tail(posted)
    IN  /\ posted # <<>>
        /\ CASE e.kind = "missing" ->
                  phase' = "Idle" /\ posted' = rest \o Emits("failed") /\ UNCHANGED engineVars
             [] e.kind = "failed" ->
                  posted' = rest \o FailToken(e.of) /\ UNCHANGED <<phase, engineVars>>
             [] e.kind = "ready" ->
                  /\ sessions' = IF e.of = generation THEN sessions \cup {e.of} ELSE sessions
                  /\ posted' = rest
                  /\ UNCHANGED <<phase, attempts, answered>>
             [] OTHER ->
                  /\ answered' = (answered \/ e.of = generation)
                  /\ posted' = rest
                  /\ UNCHANGED <<phase, sessions, attempts>>
        /\ UNCHANGED <<idleTimer, generation, wired>>

\* beginSession has sent the cache size, whatever came of that, and the torrent:
\* without a hash in the answer the stream fails.
TorrentAdded(g, ok) ==
    /\ g \in sessions
    /\ sessions' = sessions \ {g}
    /\ attempts' = IF ok /\ g = generation THEN kMetadataDeadlineAttempts ELSE attempts
    /\ posted' = IF ok THEN posted ELSE posted \o FailToken(g)
    /\ UNCHANGED <<phase, idleTimer, generation, wired, answered>>

\* awaitMetadata: a file is chosen as soon as there are any, and file 1 when
\* the attempts are used up.
Metadata(files) ==
    /\ attempts # NoTorrent
    /\ IF files \/ attempts = 0
       THEN /\ attempts' = NoTorrent
            /\ posted' = posted \o Posting("streamReady", generation)
       ELSE attempts' = attempts - 1 /\ UNCHANGED posted
    /\ UNCHANGED <<phase, idleTimer, generation, wired, sessions, answered>>

Next == \/ \E valid, binary \in BOOLEAN : StartStream(valid, binary)
        \/ StopStream \/ IdleStop
        \/ \E exists \in BOOLEAN : OrphanSettles(exists)
        \/ HealthReply \/ StartFails
        \/ Deliver
        \/ \E g \in 1..MaxStreams, ok \in BOOLEAN : TorrentAdded(g, ok)
        \/ \E files \in BOOLEAN : Metadata(files)

Spec == Init /\ [][Next]_torrVars

-----------------------------------------------------------------------------
(* Properties. *)

\* Whoever waits for the current stream waits for something: the server comes
\* up or fails, a request returns, the next look at the metadata is due, or the
\* answer is queued.  No superseded start, failed bring-up or stop of the idle
\* server leaves it without.
StreamsAreAnswered ==
    answered \/ \/ phase \in {"OrphanWait", "Starting"}
                \/ generation \in sessions
                \/ attempts # NoTorrent
                \/ \E e \in Range(posted) : e.of = generation
=============================================================================
