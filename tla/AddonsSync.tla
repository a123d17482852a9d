----------------------------- MODULE AddonsSync -----------------------------
(***************************************************************************)
(* AddonRegistry over AddonStore, and AddonsSyncController: the addons of a *)
(* profile, their manifests and the rows of the server.                    *)
(*                                                                         *)
(* An addon is its url, which stands for its manifest's id and name too; a *)
(* row that is not known is a placeholder, with an empty id.  Urls are     *)
(* normalized before they get here.  sort_order is the place in the        *)
(* sequence, which the server keeps.                                       *)
(***************************************************************************)
EXTENDS Naturals, Sequences, SequencesExt

CONSTANTS Profiles, Urls, None,
          MaxRows   \* bound on the rows that add makes

VARIABLES
    signedIn, profile,
    installed,      \* installed_addon_urls, of each profile
    enabledStates,  \* addon_enabled_states: the urls that are off
    manifests,      \* the cache: "none", "good" or "bad" (not a manifest)
    rows,           \* m_addons
    fetching,       \* urls of fetchManifest's replies
    adding,         \* urls of add's replies, in the order they were asked for
    serverRows,     \* of each profile
    addonsRequest, addonsDebounce, addonsLastPush

addonsVars == <<installed, enabledStates, manifests, rows, fetching, adding,
                serverRows, addonsRequest, addonsDebounce, addonsLastPush>>
vars == <<signedIn, profile, addonsVars>>

Row == [url : Urls, known : BOOLEAN, enabled : BOOLEAN]

ServerRow == [url : Urls, enabled : BOOLEAN]

NoRequest == [call |-> "none"]

TypeOK ==
    /\ signedIn \in BOOLEAN /\ profile \in Profiles
    /\ \A p \in Profiles : installed[p] \in Seq(Urls) /\ enabledStates[p] \subseteq Urls
    /\ manifests \in [Urls -> {"none", "good", "bad"}]
    /\ rows \in Seq(Row) /\ fetching \subseteq Urls /\ adding \in Seq(Urls)
    /\ \A p \in Profiles : serverRows[p] \in Seq(ServerRow)
    /\ addonsRequest.call \in {"none", "pull", "push"}
    /\ addonsDebounce \in BOOLEAN

UrlsOf(seq) == {seq[i].url : i \in DOMAIN seq}

\* load and applyServerRows: the rows of a list of urls, from the cache.
RowsFor(urls, off) ==
    [i \in DOMAIN urls |-> [url |-> urls[i],
                            known |-> manifests[urls[i]] = "good",
                            enabled |-> urls[i] \notin off]]

\* What has no cached answer, good or bad, is fetched.
Uncached(urls) == {urls[i] : i \in {j \in DOMAIN urls : manifests[urls[j]] = "none"}}

\* Mutant of Load: a switch leaves the other profile's rows.
LoadOfFetchesOnly(p) ==
    /\ rows' = rows
    /\ fetching' = fetching \cup Uncached(installed[p])

Load(p) ==
    /\ rows' = RowsFor(installed[p], enabledStates[p])
    /\ fetching' = fetching \cup Uncached(installed[p])

\* changed, which schedulePush hears of.
Changed ==
    addonsDebounce' = (addonsDebounce \/ (signedIn /\ addonsRequest = NoRequest))

\* PullNow asks for the rows of the active profile.
Asked == [call |-> "pull", p |-> profile]

Init ==
    /\ signedIn \in BOOLEAN /\ profile \in Profiles
    /\ installed = [p \in Profiles |-> <<>>]
    /\ enabledStates = [p \in Profiles |-> {}]
    /\ manifests = [u \in Urls |-> "none"]
    /\ rows = <<>> /\ fetching = {} /\ adding = <<>>
    /\ serverRows \in [Profiles -> {<<>>} \cup
                          {<<[url |-> u, enabled |-> e]>> : u \in Urls, e \in BOOLEAN}]
    /\ addonsRequest = IF signedIn THEN Asked ELSE NoRequest
    /\ addonsDebounce = FALSE
    /\ addonsLastPush = None

-----------------------------------------------------------------------------
(* The registry. *)

FetchReply(u, answer) ==
    /\ u \in fetching
    /\ fetching' = fetching \ {u}
    /\ IF answer = "none"
       THEN UNCHANGED <<manifests, rows, addonsDebounce>>
       ELSE /\ manifests' = [manifests EXCEPT ![u] = answer]
            /\ rows' = LET found == {i \in DOMAIN rows : rows[i].url = u}
                           i == CHOOSE j \in found : \A k \in found : j <= k
                       IN  IF answer = "bad" \/ found = {} THEN rows
                           \* The flag is written to a copy that is thrown away.
                           ELSE [rows EXCEPT ![i] = [url |-> u, known |-> TRUE,
                                                     enabled |-> TRUE]]
            /\ Changed
    /\ UNCHANGED <<signedIn, profile, installed, enabledStates, adding,
                   serverRows, addonsRequest, addonsLastPush>>

Add(u) ==
    /\ u \notin {installed[profile][i] : i \in DOMAIN installed[profile]}
    /\ Len(adding) < MaxRows
    /\ adding' = Append(adding, u)
    /\ UNCHANGED <<signedIn, profile, installed, enabledStates, manifests, rows,
                   fetching, serverRows, addonsRequest, addonsDebounce,
                   addonsLastPush>>

Without(seq, i) == SubSeq(seq, 1, i - 1) \o SubSeq(seq, i + 1, Len(seq))

\* The answer installs into the profile that is active now.
AddReply(i, good) ==
    /\ good => Len(rows) < MaxRows
    /\ adding' = Without(adding, i)
    /\ LET u == adding[i]
           urls == installed[profile]
       IN  IF good
           THEN /\ installed' = [installed EXCEPT ![profile] =
                                    IF \E j \in DOMAIN urls : urls[j] = u
                                    THEN urls ELSE Append(urls, u)]
                /\ enabledStates' = [enabledStates EXCEPT ![profile] = @ \ {u}]
                /\ manifests' = [manifests EXCEPT ![u] = "good"]
                /\ rows' = Append(rows, [url |-> u, known |-> TRUE, enabled |-> TRUE])
                /\ Changed
           ELSE UNCHANGED <<installed, enabledStates, manifests, rows, addonsDebounce>>
    /\ UNCHANGED <<signedIn, profile, fetching, serverRows, addonsRequest,
                   addonsLastPush>>

\* QStringList::removeAll.
RemoveAll(urls, u) ==
    FoldLeft(LAMBDA left, v : IF v = u THEN left ELSE Append(left, v), <<>>, urls)

\* By the id, which a placeholder has not.
RemoveAddon(u) ==
    LET found == {i \in DOMAIN rows : rows[i].url = u /\ rows[i].known}
    IN  /\ found # {}
        /\ rows' = Without(rows, CHOOSE i \in found : \A j \in found : i <= j)
        /\ installed' = [installed EXCEPT ![profile] = RemoveAll(@, u)]
        /\ enabledStates' = [enabledStates EXCEPT ![profile] = @ \ {u}]
        /\ manifests' = [manifests EXCEPT ![u] = "none"]
        /\ Changed
        /\ UNCHANGED <<signedIn, profile, fetching, adding, serverRows,
                       addonsRequest, addonsLastPush>>

SetEnabled(i, on) ==
    /\ rows[i].enabled # on
    /\ rows' = [rows EXCEPT ![i].enabled = on]
    /\ enabledStates' = [enabledStates EXCEPT ![profile] =
                            IF on THEN @ \ {rows[i].url} ELSE @ \cup {rows[i].url}]
    /\ Changed
    /\ UNCHANGED <<signedIn, profile, installed, manifests, fetching, adding,
                   serverRows, addonsRequest, addonsLastPush>>

\* load says changed: the new profile's list is pushed, though only a change
\* of the session pulls.
SwitchProfile(p) ==
    /\ p # profile
    /\ profile' = p
    /\ Load(p)
    /\ Changed
    /\ UNCHANGED <<signedIn, installed, enabledStates, manifests, adding,
                   serverRows, addonsRequest, addonsLastPush>>

-----------------------------------------------------------------------------
(* AddonsSyncController. *)

\* stateChanged: a session that becomes active pulls, if nothing is open.
SignInOrOut ==
    /\ signedIn' = ~signedIn
    /\ addonsRequest' = IF signedIn' /\ addonsRequest = NoRequest THEN Asked
                        ELSE addonsRequest
    /\ UNCHANGED <<profile, installed, enabledStates, manifests, rows, fetching,
                   adding, serverRows, addonsDebounce, addonsLastPush>>

\* Without the name, which the manifest brings.
ExportServerRows ==
    [i \in DOMAIN rows |-> [url |-> rows[i].url, enabled |-> rows[i].enabled]]

\* A name that has changed is pushed too.
DoPush(renamed) ==
    /\ addonsDebounce
    /\ addonsDebounce' = FALSE
    /\ addonsRequest' =
          IF /\ signedIn /\ addonsRequest = NoRequest
             /\ renamed \/ ExportServerRows # addonsLastPush
          THEN [call |-> "push", p |-> profile, rows |-> ExportServerRows]
          ELSE addonsRequest
    /\ UNCHANGED <<signedIn, profile, installed, enabledStates, manifests, rows,
                   fetching, adding, serverRows, addonsLastPush>>

PushReply(ok) ==
    /\ addonsRequest.call = "push"
    /\ addonsRequest' = NoRequest
    /\ serverRows' \in {[serverRows EXCEPT ![addonsRequest.p] = addonsRequest.rows]}
                       \cup IF ok THEN {} ELSE {serverRows}
    /\ addonsLastPush' = IF ok THEN addonsRequest.rows ELSE addonsLastPush
    /\ UNCHANGED <<signedIn, profile, installed, enabledStates, manifests, rows,
                   fetching, adding, addonsDebounce>>

PullFails ==
    /\ addonsRequest.call = "pull"
    /\ addonsRequest' = NoRequest
    /\ UNCHANGED <<signedIn, profile, installed, enabledStates, manifests, rows,
                   fetching, adding, serverRows, addonsDebounce, addonsLastPush>>

\* applyServerRows, on the profile that is active now.
PullReply ==
    /\ addonsRequest.call = "pull"
    /\ addonsRequest' = NoRequest
    /\ LET got == serverRows[addonsRequest.p]
           urls == [i \in DOMAIN got |-> got[i].url]
           off == {got[i].url : i \in {j \in DOMAIN got : ~got[j].enabled}}
       IN  /\ installed' = [installed EXCEPT ![profile] = urls]
           /\ enabledStates' = [enabledStates EXCEPT ![profile] = off]
           /\ rows' = RowsFor(urls, off)
           /\ fetching' = fetching \cup Uncached(urls)
    /\ addonsDebounce' = (addonsDebounce \/ signedIn)
    /\ UNCHANGED <<signedIn, profile, manifests, adding, serverRows, addonsLastPush>>

-----------------------------------------------------------------------------
User == \/ \E u \in Urls : Add(u) \/ RemoveAddon(u)
        \/ \E i \in DOMAIN rows, on \in BOOLEAN : SetEnabled(i, on)
        \/ \E p \in Profiles : SwitchProfile(p)
        \/ SignInOrOut

Replies == \/ \E u \in Urls, answer \in {"none", "good", "bad"} : FetchReply(u, answer)
           \/ \E i \in DOMAIN adding, good \in BOOLEAN : AddReply(i, good)
           \/ \E ok \in BOOLEAN : PushReply(ok)
           \/ PullReply \/ PullFails

Next == User \/ (\E renamed \in BOOLEAN : DoPush(renamed)) \/ Replies

Spec == Init /\ [][Next]_vars

-----------------------------------------------------------------------------
(* Properties. *)

\* m_addons and the file go separate ways: both are edited by every operation,
\* by answers that come after a switch, and by the pull.  What is installed for
\* the active profile is shown, so that the next push does not drop it.
InstalledIsShown ==
    \A i \in DOMAIN installed[profile] : installed[profile][i] \in UrlsOf(rows)
=============================================================================
