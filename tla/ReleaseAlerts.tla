---------------------------- MODULE ReleaseAlerts ----------------------------
(***************************************************************************)
(* ReleaseNotificationManager: the series of a profile's library are        *)
(* followed, their metadata is fetched a few at a time, and an episode that *)
(* is out is told once by notify-send.                                     *)
(*                                                                         *)
(* A series has one episode here, due or not when it is asked for.  Every   *)
(* change of the members is written before the handler ends, so they are    *)
(* the row of the file of m_profileId.  Left out: the titles and messages   *)
(* of the page, and the test notification.                                 *)
(***************************************************************************)
EXTENDS Integers, Sequences, FiniteSets, SequencesExt

CONSTANTS Profiles, Shows,
          kFetchConcurrency,   \* 4 in the code
          MaxMeta           \* bound on the open requests

VARIABLES
    profile,        \* of the library
    series,         \* the series in the library of each profile
    bound,          \* m_profileId
    follows, alertsOn, told,   \* the file: followedShows, enabled, _fired
    loading,
    backlog,        \* m_queue
    inflight,       \* m_inflight
    metaFetches,    \* the open requests; current: their token is m_refreshToken
    collecting,     \* m_collecting, of what is due
    miscounted      \* history: an earlier refresh's reply was counted in this one

alertVars == <<series, bound, follows, alertsOn, told, loading, backlog, inflight,
               metaFetches, collecting, miscounted>>
vars == <<profile, alertVars>>

MetaFetch == [of : Shows, current : BOOLEAN]

TypeOK ==
    /\ profile \in Profiles /\ bound \in Profiles
    /\ series \in [Profiles -> SUBSET Shows] /\ follows \in [Profiles -> SUBSET Shows]
    /\ alertsOn \in [Profiles -> BOOLEAN] /\ told \in [Profiles -> SUBSET Shows]
    /\ loading \in BOOLEAN /\ miscounted \in BOOLEAN
    /\ backlog \in Seq(Shows) /\ metaFetches \in Seq(MetaFetch)
    /\ inflight \in -MaxMeta..kFetchConcurrency
    /\ collecting \subseteq Shows

\* ++m_refreshToken.
Superseded == [i \in DOMAIN metaFetches |-> [metaFetches[i] EXCEPT !.current = FALSE]]

\* reconcile, and persist when it has changed something.
Reconciled(library) == [follows EXCEPT ![bound] = library]

Fetching(shows) == [i \in DOMAIN shows |-> [of |-> shows[i], current |-> TRUE]]

\* The first kFetchConcurrency of the shows are asked for.
Pumped(shows) ==
    LET now == IF Len(shows) < kFetchConcurrency THEN Len(shows) ELSE kFetchConcurrency
    IN  /\ metaFetches' = Superseded \o Fetching(SubSeq(shows, 1, now))
        /\ Len(metaFetches') <= MaxMeta
        /\ backlog' = SubSeq(shows, now + 1, Len(shows))
        /\ inflight' = now

\* refreshAsync of the shows in the library; busy is m_loading when it is called.
RefreshAsync(library, busy, available) ==
    IF busy THEN UNCHANGED <<follows, loading, backlog, inflight, metaFetches,
                             collecting, miscounted>>
    ELSE /\ follows' = Reconciled(library)
         /\ IF alertsOn'[bound] /\ available /\ library # {}
            THEN /\ Pumped(SetToSeq(library))
                 /\ loading' = TRUE /\ collecting' = {} /\ miscounted' = FALSE
            ELSE /\ loading' = FALSE
                 /\ UNCHANGED <<backlog, inflight, metaFetches, collecting, miscounted>>

Init ==
    /\ profile \in Profiles /\ bound = profile
    /\ series \in [Profiles -> SUBSET Shows] /\ follows = series
    /\ alertsOn = [p \in Profiles |-> FALSE]
    /\ told = [p \in Profiles |-> {}]
    /\ loading = FALSE /\ backlog = <<>> /\ inflight = 0
    /\ metaFetches = <<>> /\ collecting = {} /\ miscounted = FALSE

-----------------------------------------------------------------------------
\* The toggle of the page, disabled during a refresh.
SetEnabled(on, available) ==
    /\ ~loading
    /\ alertsOn' = [alertsOn EXCEPT ![bound] = on /\ available]
    /\ IF on /\ available THEN RefreshAsync(series[profile], FALSE, TRUE)
       ELSE UNCHANGED <<follows, loading, backlog, inflight, metaFetches, collecting,
                        miscounted>>
    /\ UNCHANGED <<profile, series, bound, told>>

\* applySyncPayload: a refresh that runs is forgotten, its requests go on.
ApplySyncPayload(on, available) ==
    /\ alertsOn[bound] # on
    /\ alertsOn' = [alertsOn EXCEPT ![bound] = on]
    /\ RefreshAsync(series[profile], FALSE, available)
    /\ UNCHANGED <<profile, series, bound, told>>

\* LibraryStore::changed.
LibraryChanges(library, available) ==
    /\ library # series[profile]
    /\ series' = [series EXCEPT ![profile] = library]
    /\ UNCHANGED <<profile, bound, alertsOn, told>>
    /\ IF alertsOn[bound] /\ ~loading THEN RefreshAsync(library, FALSE, available)
       ELSE /\ follows' = Reconciled(library)
            /\ UNCHANGED <<loading, backlog, inflight, metaFetches, collecting,
                           miscounted>>

\* activeProfileChanged: the library moves first, so its signal finds the
\* former profile, whose rows are reconciled with the new one's library and
\* fetched; then setProfileId drops that refresh.
SwitchProfile(p, available) ==
    LET fetch == alertsOn[bound] /\ ~loading /\ available /\ series[p] # {}
        shows == SetToSeq(series[p])
        now == IF Len(shows) < kFetchConcurrency THEN Len(shows) ELSE kFetchConcurrency
        dropped == [i \in 1..now |-> [of |-> shows[i], current |-> FALSE]]
    IN  /\ p # profile
        /\ profile' = p /\ bound' = p
        /\ follows' = Reconciled(series[p])
        /\ metaFetches' = Superseded \o (IF fetch THEN dropped ELSE <<>>)
        /\ Len(metaFetches') <= MaxMeta
        /\ backlog' = IF fetch THEN SubSeq(shows, now + 1, Len(shows)) ELSE backlog
        /\ collecting' = IF fetch THEN {} ELSE collecting
        /\ loading' = FALSE /\ inflight' = 0 /\ miscounted' = FALSE
        /\ UNCHANGED <<series, alertsOn, told>>

\* The program starts, with the library and the alerts of profile p: 1 in the
\* code, whichever was active.  main refreshes once.
Restart(p, available) ==
    LET shows == SetToSeq(series[p])
        now == IF Len(shows) < kFetchConcurrency THEN Len(shows) ELSE kFetchConcurrency
        fetch == alertsOn[p] /\ available /\ shows # <<>>
    IN  /\ profile' = p /\ bound' = p
        /\ follows' = [follows EXCEPT ![p] = series[p]]
        /\ loading' = fetch
        /\ metaFetches' = IF fetch THEN Fetching(SubSeq(shows, 1, now)) ELSE <<>>
        /\ backlog' = IF fetch THEN SubSeq(shows, now + 1, Len(shows)) ELSE <<>>
        /\ inflight' = IF fetch THEN now ELSE 0
        /\ collecting' = {} /\ miscounted' = FALSE
        /\ UNCHANGED <<series, alertsOn, told>>

-----------------------------------------------------------------------------
\* finishRefresh: what is due and was not told yet is told, if it can be sent.
FinishRefresh(due, sent) ==
    /\ loading' = FALSE /\ inflight' = 0
    /\ told' = IF sent THEN [told EXCEPT ![bound] = @ \cup due] ELSE told

\* Mutant of MetaReply: a failed request pumps nothing.
MetaReplyOfGood(i, due, sent) ==
    LET r == metaFetches[i]
    IN  /\ metaFetches' = RemoveAt(metaFetches, i)
        /\ collecting' = IF r.current /\ due THEN collecting \cup {r.of} ELSE collecting
        /\ IF r.current /\ due /\ backlog = <<>> /\ inflight = 1 /\ loading
           THEN FinishRefresh(collecting', sent)
           ELSE inflight' = inflight - 1 /\ UNCHANGED <<loading, told>>
        /\ miscounted' = (miscounted \/ (loading /\ ~r.current))
        /\ UNCHANGED <<profile, series, bound, follows, alertsOn, backlog>>

\* A reply of pumpQueue.  One of an earlier refresh is passed over, but only
\* after it has lowered the count.
MetaReply(i, due, sent) ==
    LET r == metaFetches[i]
        open == RemoveAt(metaFetches, i)
    IN  /\ collecting' = IF r.current /\ due THEN collecting \cup {r.of} ELSE collecting
        /\ CASE r.current /\ backlog # <<>> ->
                  /\ metaFetches' = open \o Fetching(<<Head(backlog)>>)
                  /\ backlog' = Tail(backlog)
                  /\ UNCHANGED <<inflight, loading, told>>
             [] r.current /\ backlog = <<>> /\ inflight = 1 /\ loading ->
                  /\ metaFetches' = open
                  /\ FinishRefresh(collecting', sent)
                  /\ UNCHANGED backlog
             [] OTHER ->
                  /\ metaFetches' = open
                  /\ inflight' = inflight - 1
                  /\ UNCHANGED <<backlog, loading, told>>
        /\ miscounted' = (miscounted \/ (loading /\ ~r.current))
        /\ UNCHANGED <<profile, series, bound, follows, alertsOn>>

Next ==
    \E available \in BOOLEAN :
        \/ \E on \in BOOLEAN : SetEnabled(on, available) \/ ApplySyncPayload(on, available)
        \/ \E library \in SUBSET Shows : LibraryChanges(library, available)
        \/ \E p \in Profiles : SwitchProfile(p, available) \/ Restart(p, available)
        \/ \E i \in DOMAIN metaFetches, due, sent \in BOOLEAN : MetaReply(i, due, sent)

Spec == Init /\ [][Next]_vars

-----------------------------------------------------------------------------
(* Properties. *)

\* A refresh that is loading, which no other can follow, has a request open, and
\* as many as it counts: unless replies of an earlier one were counted in it,
\* after which it may end early or never.
RefreshEnds ==
    loading /\ ~miscounted =>
        /\ inflight > 0
        /\ inflight = Cardinality({i \in DOMAIN metaFetches : metaFetches[i].current})
=============================================================================
