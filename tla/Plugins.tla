------------------------------- MODULE Plugins -------------------------------
(***************************************************************************)
(* PluginRepository: the scraper repositories of a profile, the downloads   *)
(* that refresh them, and their list on the server.                        *)
(*                                                                         *)
(* A manifest names at most one scraper here.  What changes the list of a   *)
(* profile writes its file in the same handler, so the file and the members *)
(* are one, and a switch or a restart only reads.  Left out: the flags that *)
(* hide all scrapers or group their rows, how the rows of the settings page *)
(* show a refresh, and the runs of a scraper, which change nothing.  Other  *)
(* clients write the server's list, so a pull is answered by any rows.      *)
(***************************************************************************)
EXTENDS Naturals, FiniteSets, Sequences, SequencesExt

CONSTANTS Profiles, Urls,
          MaxFetches, MaxPluginCalls   \* bounds on the open requests

VARIABLES
    signedIn, profile,
    repos,          \* the list of each profile
    scrapers,       \* the scraper of each repository, by profile
    pulled,         \* m_pulledFromServer
    refreshing,     \* m_refreshing
    fetches,        \* downloads under way; current: their token is m_token
    pulling,        \* the function of a pull whose token is m_token is connected
    pluginCalls,    \* the open requests of the client
    owned,          \* history: what was added or pulled for each profile
    mixed           \* history: a pull has read another profile's rows

pluginVars == <<repos, scrapers, pulled, refreshing, fetches, pulling,
                pluginCalls, owned, mixed>>
vars == <<signedIn, profile, pluginVars>>

States == {"none", "on", "off", "barred"}   \* barred: off in the manifest

Reasons == {"add", "auto", "user"}

Fetch == [url : Urls, reason : Reasons, current : BOOLEAN,
          stage : {"manifest", "code"}]

Call == [fn : {"pull", "push"}, of : Profiles]

TypeOK ==
    /\ signedIn \in BOOLEAN /\ profile \in Profiles
    /\ repos \in [Profiles -> SUBSET Urls]
    /\ scrapers \in [Profiles -> [Urls -> States]]
    /\ pulled \in BOOLEAN /\ pulling \in BOOLEAN /\ mixed \in BOOLEAN
    /\ refreshing \subseteq Urls
    /\ fetches \in Seq(Fetch) /\ pluginCalls \in Seq(Call)
    /\ owned \in [Profiles -> SUBSET Urls]

FirstProfile == CHOOSE p \in Profiles : TRUE   \* m_profileId is 1 at first

\* ++m_token: replies of what is under way find another token.
Outdated == [i \in DOMAIN fetches |-> [fetches[i] EXCEPT !.current = FALSE]]

\* fetchManifest for some urls, those being refreshed excepted.
Fetches(urls, reason, open) ==
    LET news == SetToSeq(urls \ refreshing)
    IN  /\ refreshing' = refreshing \cup urls
        /\ fetches' = open \o [k \in DOMAIN news |->
               [url |-> news[k], reason |-> reason, current |-> TRUE,
                stage |-> "manifest"]]
        /\ Len(fetches') <= MaxFetches

\* pushToServer: nobody looks at the answer.
Pushes(open) ==
    /\ pluginCalls' = IF ~signedIn THEN open
                      ELSE Append(open, [fn |-> "push", of |-> profile])
    /\ Len(pluginCalls') <= MaxPluginCalls

\* The scraper of a repository that is no longer listed goes with it.
Only(urls) == [u \in Urls |-> IF u \in urls THEN scrapers[profile][u] ELSE "none"]

Init ==
    /\ signedIn \in BOOLEAN /\ profile = FirstProfile
    /\ repos = [p \in Profiles |-> {}] /\ owned = repos
    /\ scrapers = [p \in Profiles |-> [u \in Urls |-> "none"]]
    /\ pulled = FALSE /\ pulling = FALSE /\ mixed = FALSE
    /\ refreshing = {} /\ fetches = <<>> /\ pluginCalls = <<>>

-----------------------------------------------------------------------------
(* The session and the profile. *)

\* Pulls of a former profile are still answered; m_pulledFromServer starts over.
Moves(p) ==
    /\ profile' = p
    /\ refreshing' = {} /\ pulled' = FALSE /\ pulling' = FALSE

\* Mutant of SetProfileId: the token stays.
SetProfileIdOnly(p) ==
    /\ p # profile
    /\ Moves(p)
    /\ UNCHANGED <<signedIn, repos, scrapers, fetches, pluginCalls, owned, mixed>>

SetProfileId(p) ==
    /\ p # profile
    /\ Moves(p)
    /\ fetches' = Outdated
    /\ UNCHANGED <<signedIn, repos, scrapers, pluginCalls, owned, mixed>>

PullFromServer ==
    /\ signedIn
    /\ Len(pluginCalls) < MaxPluginCalls
    /\ pluginCalls' = Append(pluginCalls, [fn |-> "pull", of |-> profile])
    /\ pulling' = TRUE
    /\ fetches' = Outdated
    /\ UNCHANGED <<signedIn, profile, repos, scrapers, pulled, refreshing,
                   owned, mixed>>

\* main.cpp: a session pulls at the start, then what is due is refreshed.
Restart(due) ==
    /\ profile' = FirstProfile
    /\ due \subseteq repos[FirstProfile]
    /\ pulled' = FALSE /\ pulling' = signedIn
    /\ pluginCalls' = IF signedIn THEN <<[fn |-> "pull", of |-> FirstProfile]>>
                      ELSE <<>>
    /\ refreshing' = due
    /\ fetches' = [k \in 1..Len(SetToSeq(due)) |->
           [url |-> SetToSeq(due)[k], reason |-> "auto", current |-> TRUE,
            stage |-> "manifest"]]
    /\ UNCHANGED <<signedIn, repos, scrapers, owned, mixed>>

SessionChange ==
    /\ signedIn' = ~signedIn
    /\ UNCHANGED <<profile, pluginVars>>

-----------------------------------------------------------------------------
(* The user. *)

\* The row appears once the manifest and the code are there.
AddRepository(url) ==
    /\ url \notin repos[profile]
    /\ owned' = [owned EXCEPT ![profile] = @ \cup {url}]
    /\ Fetches({url}, "add", fetches)
    /\ UNCHANGED <<signedIn, profile, repos, scrapers, pulled, pulling,
                   pluginCalls, mixed>>

RemoveRepository(url) ==
    /\ url \in repos[profile]
    /\ repos' = [repos EXCEPT ![profile] = @ \ {url}]
    /\ scrapers' = [scrapers EXCEPT ![profile][url] = "none"]
    /\ Pushes(pluginCalls)
    /\ UNCHANGED <<signedIn, profile, pulled, refreshing, fetches, pulling,
                   owned, mixed>>

\* refreshRepository pushes what it finds, refreshAll does not.
Refresh(urls, reason) ==
    /\ urls \subseteq repos[profile]
    /\ reason = "user" => Cardinality(urls) = 1
    /\ Fetches(urls, reason, fetches)
    /\ UNCHANGED <<signedIn, profile, repos, scrapers, pulled, pulling,
                   pluginCalls, owned, mixed>>

ToggleScraper(url) ==
    /\ scrapers[profile][url] \in {"on", "off"}
    /\ scrapers' = [scrapers EXCEPT ![profile][url] =
                        IF @ = "on" THEN "off" ELSE "on"]
    /\ UNCHANGED <<signedIn, profile, repos, pulled, refreshing, fetches, pulling,
                   pluginCalls, owned, mixed>>

-----------------------------------------------------------------------------
(* Replies. *)

\* applyFetched: the row is replaced, or comes to the end of the list, and its
\* scraper is the one of the manifest, on unless the manifest says off.
ApplyFetched(f, scraper) ==
    /\ repos' = [repos EXCEPT ![profile] = @ \cup {f.url}]
    /\ scrapers' = [scrapers EXCEPT ![profile][f.url] = scraper]
    /\ IF f.reason = "auto" THEN UNCHANGED pluginCalls
       ELSE Pushes(pluginCalls)

\* What parsing makes of a manifest's answer: nothing, when the request failed or
\* the manifest has no name, version or scraper, or the scrapers it lists; of
\* these none may be for this platform.
Manifests == {"failed", "none", "one"}

\* applyFetchError: it shows in the row, or answers the user who adds one.
ApplyFetchError == UNCHANGED <<repos, scrapers, pluginCalls>>

ManifestReply(i, manifest) ==
    LET f == fetches[i]
        wanted == f.current /\ manifest = "one"
    IN  /\ f.stage = "manifest"
        /\ refreshing' = refreshing \ {f.url}
        /\ fetches' = IF wanted THEN [fetches EXCEPT ![i].stage = "code"]
                      ELSE RemoveAt(fetches, i)
        /\ CASE wanted -> UNCHANGED <<repos, scrapers, pluginCalls>>
             [] f.current /\ manifest = "none" -> ApplyFetched(f, "none")
             [] f.current /\ manifest = "failed" -> ApplyFetchError
             [] OTHER -> UNCHANGED <<repos, scrapers, pluginCalls>>
        /\ UNCHANGED <<signedIn, profile, pulled, pulling, owned, mixed>>

\* Code that did not arrive leaves its scraper out.
CodeReply(i, scraper) ==
    LET f == fetches[i]
    IN  /\ f.stage = "code"
        /\ fetches' = RemoveAt(fetches, i)
        /\ IF f.current THEN ApplyFetched(f, scraper)
           ELSE UNCHANGED <<repos, scrapers, pluginCalls>>
        /\ UNCHANGED <<signedIn, profile, pulled, refreshing, pulling, owned, mixed>>

\* The function of a pull: an empty list seeds the server the first time, any
\* other replaces the local one and refreshes what is new or due.
TakeRows(rows, due, open) ==
    /\ pulled' = TRUE
    /\ IF rows = {} /\ ~pulled
       THEN /\ IF repos[profile] # {} THEN Pushes(open)
               ELSE pluginCalls' = open
            /\ UNCHANGED <<repos, scrapers, refreshing, fetches>>
       ELSE /\ repos' = [repos EXCEPT ![profile] = rows]
            /\ scrapers' = [scrapers EXCEPT ![profile] = Only(rows)]
            /\ Fetches((rows \ repos[profile]) \cup due, "auto", fetches)
            /\ pluginCalls' = open

\* The finished signal runs every function connected to it, whichever request
\* is answered; a push is answered by no rows.
CallReply(i, ok, rows, due) ==
    LET c == pluginCalls[i]
        open == RemoveAt(pluginCalls, i)
    IN  /\ c.fn = "push" => rows = {}
        /\ due \subseteq rows \cap repos[profile]
        /\ pulling' = FALSE
        /\ IF pulling /\ ok
           THEN /\ TakeRows(rows, due, open)
                /\ owned' = [owned EXCEPT ![c.of] = @ \cup rows]
                /\ mixed' = (mixed \/ (c.fn = "pull" /\ c.of # profile))
           ELSE /\ pluginCalls' = open
                /\ UNCHANGED <<repos, scrapers, pulled, refreshing, fetches, owned,
                               mixed>>
        /\ UNCHANGED <<signedIn, profile>>

User ==
    \/ \E u \in Urls : AddRepository(u) \/ RemoveRepository(u) \/ ToggleScraper(u)
    \/ \E u \in Urls : Refresh({u}, "user")
    \/ Refresh(repos[profile], "auto")

Replies ==
    \/ \E i \in DOMAIN fetches, m \in Manifests : ManifestReply(i, m)
    \/ \E i \in DOMAIN fetches, s \in {"none", "on", "barred"} : CodeReply(i, s)
    \/ \E i \in DOMAIN pluginCalls, ok \in BOOLEAN, rows, due \in SUBSET Urls :
           CallReply(i, ok, rows, due)

Next ==
    \/ PullFromServer \/ SessionChange
    \/ \E p \in Profiles : SetProfileId(p)
    \/ \E due \in SUBSET Urls : Restart(due)
    \/ User \/ Replies

Spec == Init /\ [][Next]_vars

-----------------------------------------------------------------------------
(* Properties. *)

\* A download that ends after a switch adds nothing to the new profile's list,
\* which every push would then send: what is listed for a profile was added or
\* pulled for it, unless a pull was handed the rows of an earlier one, asked
\* for another profile.
ListsStayApart == mixed \/ \A p \in Profiles : repos[p] \subseteq owned[p]
=============================================================================
