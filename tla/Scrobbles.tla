------------------------------ MODULE Scrobbles -----------------------------
(***************************************************************************)
(* ScrobblePump, TrackingRegistry and the scrobblers: what the player's     *)
(* ticks tell Trakt and Simkl.                                             *)
(*                                                                         *)
(* A position is a number of parts of an item, of which kLast is the one    *)
(* at 80 per cent; two ticks more than one part apart are a seek.  Every    *)
(* item has an imdb id.  A scrobble Simkl is sent is never repeated, so     *)
(* Simkl is only connected or not.                                         *)
(***************************************************************************)
EXTENDS Integers, FiniteSets, Sequences, SequencesExt

CONSTANTS Items, None, kLast,
          kMaxStopAttempts,   \* 3 in the code
          MaxSends            \* bound on the requests and retries under way

Places == 0..kLast

VARIABLES
    item,                               \* m_media, None before beginItem
    startSent, completionSent, wasPaused,
    lastPos,                            \* m_lastPosMs, -1 before a position
    connected,                          \* Trakt's entry in the registry
    traktLast,                          \* m_lastAction, m_lastItemKey, m_lastProgress
    sends,                              \* requests and retry timers of send
    lastWord                            \* what the pump last told Trakt's scrobbler

scrobbleVars == <<item, startSent, completionSent, wasPaused, lastPos, connected,
                  traktLast, sends, lastWord>>

Word == [action : {"start", "pause", "stop"}, item : Items, place : Places]

Send == [word : Word, attempt : 1..kMaxStopAttempts, waiting : BOOLEAN]

TypeOK ==
    /\ item \in Items \cup {None} /\ lastPos \in Places \cup {-1}
    /\ {startSent, completionSent, wasPaused, connected} \subseteq BOOLEAN
    /\ traktLast \in Word \cup {None} /\ lastWord \in Word \cup {None}
    /\ sends \subseteq Send

-----------------------------------------------------------------------------
\* Mutant of Throttled: another action on the same item is a repetition.
ThrottledAnyAction(last, word) ==
    last # None /\ last.item = word.item /\ last.place = word.place

\* TraktScrobbler::scrobble's throttle: the same action, again, on the same
\* item, near the same place, within the window.
Throttled(last, word) ==
    last # None /\ last.action = word.action /\ last.item = word.item
                /\ last.place = word.place

\* One word for Trakt: told is the throttle's memory, what is sent, and
\* whether the window of the memory is still open.  Without a token the word
\* is remembered and not sent.
TellTrakt(told, word, bearer) ==
    IF told.inWindow /\ Throttled(told.last, word) THEN told
    ELSE [last |-> word, inWindow |-> TRUE,
          out |-> told.out \cup IF bearer THEN {[word |-> word, attempt |-> 1,
                                                 waiting |-> FALSE]} ELSE {}]

\* dispatch and dispatchSeekStop of the words of one tick, in order.
Dispatch(words) ==
    IF ~connected THEN UNCHANGED <<traktLast, sends, lastWord>>
    ELSE \E inWindow, bearer \in BOOLEAN :
            LET told == FoldLeft(LAMBDA t, w : TellTrakt(t, w, bearer),
                                 [last |-> traktLast, inWindow |-> inWindow, out |-> sends],
                                 words)
            IN  /\ traktLast' = told.last
                /\ sends' = told.out
                /\ Cardinality(sends') <= MaxSends
                /\ lastWord' = IF words = <<>> THEN lastWord ELSE Last(words)

Init ==
    /\ item = None /\ lastPos = -1
    /\ startSent = FALSE /\ completionSent = FALSE /\ wasPaused = FALSE
    /\ connected \in BOOLEAN
    /\ traktLast = None /\ lastWord = None /\ sends = {}

-----------------------------------------------------------------------------
BeginItem(i) ==
    /\ item' = i /\ lastPos' = -1
    /\ startSent' = FALSE /\ completionSent' = FALSE /\ wasPaused' = FALSE
    /\ UNCHANGED <<connected, traktLast, sends, lastWord>>

Say(condition, action, place) ==
    IF condition THEN <<[action |-> action, item |-> item, place |-> place]>> ELSE <<>>

\* tick, at a position or at -1, of a duration that is known or not: a jump stops
\* and starts again.  Without a duration the progress is zero at any position.
Tick(pos, known, paused) ==
    /\ item # None
    /\ LET jump == lastPos >= 0 /\ pos >= 0 /\ (pos > lastPos + 1 \/ lastPos > pos + 1)
           place == IF known /\ pos >= 0 THEN pos ELSE 0
           starts == pos >= 0 /\ (jump \/ ~startSent)
           completes == place = kLast /\ (jump \/ ~completionSent)
       IN  /\ startSent' = ((startSent /\ ~jump) \/ starts)
           /\ completionSent' = ((completionSent /\ ~jump) \/ completes)
           /\ Dispatch(Say(jump, "stop", place) \o Say(starts, "start", place)
                       \o Say(paused /\ ~wasPaused, "pause", place)
                       \o Say(completes, "stop", place))
    /\ lastPos' = IF pos >= 0 THEN pos ELSE lastPos
    /\ wasPaused' = paused
    /\ UNCHANGED <<item, connected>>

\* setProviderAuthenticated, on TraktAuth::stateChanged.
TraktChange ==
    /\ connected' = ~connected
    /\ UNCHANGED <<item, startSent, completionSent, wasPaused, lastPos, traktLast,
                   sends, lastWord>>

\* The reply to a scrobble: a stop that fails is tried again, one that is not
\* authorized signs Trakt out.
SendReply(s, answer) ==
    /\ ~s.waiting
    /\ sends' = (sends \ {s}) \cup
                IF answer = "failed" /\ s.word.action = "stop" /\ s.attempt < kMaxStopAttempts
                THEN {[s EXCEPT !.waiting = TRUE]} ELSE {}
    /\ connected' = (connected /\ answer # "unauthorized")
    /\ UNCHANGED <<item, startSent, completionSent, wasPaused, lastPos, traktLast, lastWord>>

\* The retry timer; without a token the retry is given up.
Retry(s) ==
    /\ s.waiting
    /\ \E again \in {{}, {[s EXCEPT !.waiting = FALSE, !.attempt = @ + 1]}} :
          sends' = (sends \ {s}) \cup again
    /\ UNCHANGED <<item, startSent, completionSent, wasPaused, lastPos, connected,
                   traktLast, lastWord>>

-----------------------------------------------------------------------------
Next == \/ \E i \in Items : BeginItem(i)
        \/ \E pos \in Places \cup {-1}, known, paused \in BOOLEAN : Tick(pos, known, paused)
        \/ TraktChange
        \/ \E s \in sends : \/ \E answer \in {"ok", "failed", "unauthorized"} : SendReply(s, answer)
                            \/ Retry(s)

Spec == Init /\ [][Next]_scrobbleVars

-----------------------------------------------------------------------------
(* Properties. *)

\* The throttle drops repetitions only: over seeks, pauses and changes of the
\* item, what it remembers telling Trakt is what the pump said last.
LastWordIsKept ==
    lastWord # None => /\ traktLast # None
                       /\ traktLast.action = lastWord.action
                       /\ traktLast.item = lastWord.item
=============================================================================
