---------------------------- MODULE DebridLinks -----------------------------
(***************************************************************************)
(* DebridResolver and DebridFileSelect: a torrent's hash becomes the link   *)
(* of one of its files, at the provider the settings name, in one to four   *)
(* requests.  A later call silences the earlier ones.                      *)
(***************************************************************************)
EXTENDS Naturals, Sequences, FiniteSets

CONSTANTS MaxCalls   \* bound on the calls of resolveTorrent

\* What selectTorrentFile looks at in a file.  matches: the name contains one of
\* the three patterns of the episode, which the name of another episode may do
\* too (1x10 contains 1x1).
File == [video : BOOLEAN, matches : BOOLEAN, size : 1..2]

\* The file lists of the provider's answers.
FileLists == {<<>>} \cup [1..1 -> File] \cup [1..2 -> File]

LinkProviders == {"torbox", "premiumize"}

VARIABLES
    configured,     \* the providers that resolve and have a key
    preferred,      \* preferredResolverProviderId
    debridOn,       \* DebridSettings::enabled
    token,          \* m_token
    linkSteps,      \* the open requests: their token and step
    linkAnswers     \* what each call was answered, in order

linkVars == <<configured, preferred, debridOn, token, linkSteps, linkAnswers>>

Steps == {"check", "create", "list", "download", "directdl"}

Reasons == {"NoCredential", "NotCached", "Stale", "Error"}

Answer == [reason : {"resolved"}, file : File] \cup [reason : Reasons]

LinkStep == [token : 1..MaxCalls, step : Steps \ {"download"}]
            \cup [token : 1..MaxCalls, step : {"download"}, file : File]

TypeOK ==
    /\ configured \subseteq LinkProviders /\ preferred \in LinkProviders \cup {"realdebrid"}
    /\ debridOn \in BOOLEAN /\ token \in 0..MaxCalls
    /\ linkSteps \subseteq LinkStep
    /\ \A c \in 1..MaxCalls : linkAnswers[c] \in Seq(Answer)

\* activeResolverProviderId: the preferred one, else the first that is set up.
ActiveProvider ==
    IF preferred \in configured THEN preferred
    ELSE IF "torbox" \in configured THEN "torbox" ELSE "premiumize"

\* selectTorrentFile as the resolver calls it, without names or an index: of the
\* files that play, the first that matches a pattern, else the first of the
\* biggest.
Playable(files) == {i \in DOMAIN files : files[i].video}

Matching(files) == {i \in Playable(files) : files[i].matches}

First(is) == CHOOSE i \in is : \A j \in is : i <= j

SelectTorrentFile(files) ==
    IF Matching(files) # {} THEN files[First(Matching(files))]
    ELSE files[First({i \in Playable(files) :
                        \A j \in Playable(files) : files[j].size <= files[i].size})]

Init ==
    /\ configured \in SUBSET LinkProviders
    /\ preferred \in LinkProviders \cup {"realdebrid"} /\ debridOn \in BOOLEAN
    /\ token = 0 /\ linkSteps = {}
    /\ linkAnswers = [c \in 1..MaxCalls |-> <<>>]

\* finishOk and finishFail, which ask for the token again.
Finish(t, answer) ==
    linkAnswers' = IF t = token' THEN [linkAnswers EXCEPT ![t] = Append(@, answer)]
                   ELSE linkAnswers

Fail(t, reason) == Finish(t, [reason |-> reason])

-----------------------------------------------------------------------------
\* The settings pages.
ChangeSettings ==
    /\ configured' \in SUBSET LinkProviders
    /\ debridOn' \in BOOLEAN
    /\ UNCHANGED <<preferred, token, linkSteps, linkAnswers>>

ResolveTorrent ==
    /\ token < MaxCalls
    /\ token' = token + 1
    /\ IF ~debridOn \/ configured = {}
       THEN Fail(token', "NoCredential") /\ UNCHANGED linkSteps
       ELSE /\ linkSteps' = linkSteps \cup
                  {[token |-> token', step |-> IF ActiveProvider = "torbox" THEN "check"
                                               ELSE "directdl"]}
            /\ UNCHANGED linkAnswers
    /\ UNCHANGED <<configured, preferred, debridOn>>

\* The guard of every handler; m_pendingKey changes with m_token only.
Superseded(s) == s.token # token

Drop(s) == /\ Superseded(s)
           /\ linkSteps' = linkSteps \ {s}
           /\ UNCHANGED linkAnswers

\* A handler that asks for more, and one that ends the call.
Follow(s, next) == /\ ~Superseded(s)
                   /\ linkSteps' = (linkSteps \ {s}) \cup {next}
                   /\ UNCHANGED linkAnswers

\* Mutant of Close: a handler returns without an answer.
CloseSilently(s, answer) == /\ ~Superseded(s)
                            /\ linkSteps' = linkSteps \ {s}
                            /\ UNCHANGED linkAnswers

Close(s, answer) == /\ ~Superseded(s)
                    /\ linkSteps' = linkSteps \ {s}
                    /\ Finish(s.token, answer)

\* checkcached decides nothing: whatever it says, the torrent is created.
CheckReply(s) == s.step = "check" /\ Follow(s, [token |-> s.token, step |-> "create"])

CreateReply(s) ==
    /\ s.step = "create"
    /\ \/ Follow(s, [token |-> s.token, step |-> "list"])
       \/ \E reason \in {"NotCached", "Stale"} : Close(s, [reason |-> reason])

\* Nothing plays, or the file picked came without an id.
ListReply(s, files) ==
    /\ s.step = "list"
    /\ \/ Close(s, [reason |-> "Stale"])
       \/ /\ Playable(files) # {}
          /\ Follow(s, [token |-> s.token, step |-> "download",
                        file |-> SelectTorrentFile(files)])

DownloadReply(s) ==
    /\ s.step = "download"
    /\ \/ Close(s, [reason |-> "resolved", file |-> s.file])
       \/ Close(s, [reason |-> "Stale"])

\* resolvePremiumize: one request answers all.
DirectReply(s, files) ==
    /\ s.step = "directdl"
    /\ \/ \E reason \in {"Error", "NotCached", "Stale"} : Close(s, [reason |-> reason])
       \/ Close(s, IF Playable(files) = {} THEN [reason |-> "Stale"]
                   ELSE [reason |-> "resolved", file |-> SelectTorrentFile(files)])

LinkReply(s) ==
    /\ UNCHANGED <<configured, preferred, debridOn, token>>
    /\ \/ Drop(s) \/ CheckReply(s) \/ CreateReply(s) \/ DownloadReply(s)
       \/ \E files \in FileLists : ListReply(s, files) \/ DirectReply(s, files)

Next == \/ ChangeSettings
        \/ ResolveTorrent
        \/ \E s \in linkSteps : LinkReply(s)

Spec == Init /\ [][Next]_linkVars

-----------------------------------------------------------------------------
(* Properties. *)

\* Exactly one of resolved and unavailable fires per call, and a superseded
\* call stays silent: the last call has one answer or one request under way,
\* whatever the replies of the earlier ones do.
OneAnswerPerCall ==
    /\ \A c \in 1..MaxCalls : Len(linkAnswers[c]) <= 1
    /\ token > 0 =>
          Len(linkAnswers[token]) + Cardinality({s \in linkSteps : s.token = token}) = 1
=============================================================================
