--------------------------- MODULE CollectionSync ---------------------------
(***************************************************************************)
(* CollectionStore and CollectionSyncController: a profile's collections.  *)
(*                                                                         *)
(* A collection is its id and the sources of its folder; titles, pins and  *)
(* the other fields change the way a source does, by one edit of the       *)
(* collection that has the id, and members of another client ride along    *)
(* unread.  The controller works on stores of its own that read the file   *)
(* afresh; the application's store has what it read when its profile       *)
(* became active.                                                          *)
(***************************************************************************)
EXTENDS Integers, Sequences, SequencesExt

CONSTANTS Profiles, Ids, Sources, None,
          MaxLoads,     \* bound on loadFolder
          MaxEdits      \* bound on the user's edits

VARIABLES
    signedIn, profile,
    saved,         \* the file: the collections of each profile
    collections,    \* m_collections of the application's store
    folder,         \* the collection whose folder is open, or None
    folderToken, folderItems,
    folderReplies,  \* replies of fetchFolderSource: its token and source
    serverCollections,
    collRequest, collDebounce,
    edits

collectionVars == <<saved, collections, folder, folderToken, folderItems,
                    folderReplies, serverCollections, collRequest, collDebounce,
                    edits>>
vars == <<signedIn, profile, collectionVars>>

Collection == [id : Ids, sources : SUBSET Sources]

\* Ids are unique: they are made by createUuid.
WellFormed(list) ==
    /\ list \in Seq(Collection)
    /\ \A i, j \in DOMAIN list : list[i].id = list[j].id => i = j

NoRequest == [call |-> "none"]

Item == [token : 0..MaxLoads, source : Sources]

TypeOK ==
    /\ signedIn \in BOOLEAN /\ profile \in Profiles
    /\ \A p \in Profiles : WellFormed(saved[p]) /\ WellFormed(serverCollections[p])
    /\ WellFormed(collections)
    /\ folder \in Ids \cup {None} /\ folderToken \in 0..MaxLoads
    /\ folderItems \subseteq Item /\ folderReplies \subseteq Item
    /\ collRequest.call \in {"none", "pull", "push"} /\ collDebounce \in BOOLEAN
    /\ edits \in 0..MaxEdits

Asked == [call |-> "pull", p |-> profile]

Init ==
    /\ signedIn \in BOOLEAN /\ profile \in Profiles
    /\ saved = [p \in Profiles |-> <<>>] /\ collections = <<>>
    /\ folder = None /\ folderToken = 0
    /\ folderItems = {} /\ folderReplies = {}
    \* Another client has made all the collections, or none.
    /\ serverCollections \in [Profiles -> {<<>>} \cup
           {[i \in DOMAIN ids |-> [id |-> ids[i], sources |-> {}]] : ids \in {SetToSeq(Ids)}}]
    /\ collRequest = IF signedIn THEN Asked ELSE NoRequest
    /\ collDebounce = FALSE /\ edits = 0

At(id) == {i \in DOMAIN collections : collections[i].id = id}

\* persist and changed, after an operation that makes m_collections new.
Persist(new) ==
    /\ edits < MaxEdits
    /\ edits' = edits + 1
    /\ collections' = new
    /\ saved' = [saved EXCEPT ![profile] = new]
    /\ collDebounce' = (collDebounce \/ signedIn)

NoFolder == UNCHANGED <<folder, folderToken, folderItems, folderReplies>>

NoSync == UNCHANGED <<serverCollections, collRequest>>

-----------------------------------------------------------------------------
(* The user's edits. *)

CreateCollection(id) ==
    /\ id \notin {collections[i].id : i \in DOMAIN collections}
    /\ Persist(Append(collections, [id |-> id, sources |-> {}]))
    /\ NoFolder /\ NoSync /\ UNCHANGED <<signedIn, profile>>

\* remove_if.
Without(id) ==
    FoldLeft(LAMBDA left, c : IF c.id = id THEN left ELSE Append(left, c), <<>>, collections)

RemoveCollection(id) ==
    /\ At(id) # {}
    /\ Persist(Without(id))
    /\ NoFolder /\ NoSync /\ UNCHANGED <<signedIn, profile>>

MoveCollection(id, delta) ==
    \E i \in At(id) :
        /\ i + delta \in DOMAIN collections
        /\ Persist([collections EXCEPT ![i] = collections[i + delta],
                                       ![i + delta] = collections[i]])
        /\ NoFolder /\ NoSync /\ UNCHANGED <<signedIn, profile>>

EditCollection(id, sources) ==
    \E i \in At(id) :
        /\ sources # collections[i].sources
        /\ Persist([collections EXCEPT ![i].sources = sources])
        /\ NoFolder /\ NoSync /\ UNCHANGED <<signedIn, profile>>

\* setProfileId: the folder is forgotten, its token is not.
SwitchProfile(p) ==
    /\ p # profile
    /\ profile' = p
    /\ collections' = saved[p]
    /\ folder' = None /\ folderItems' = {}
    /\ collDebounce' = (collDebounce \/ signedIn)
    /\ UNCHANGED <<signedIn, saved, folderToken, folderReplies, edits>> /\ NoSync

-----------------------------------------------------------------------------
(* The open folder. *)

LoadFolder(id) ==
    /\ folderToken < MaxLoads
    /\ folder' = id
    /\ folderToken' = folderToken + 1
    /\ folderItems' = {}
    /\ folderReplies' = folderReplies \cup
           {[token |-> folderToken', source |-> s] :
               s \in UNION {collections[i].sources : i \in At(id)}}
    /\ NoSync
    /\ UNCHANGED <<signedIn, profile, saved, collections, collDebounce, edits>>

\* Mutant of Superseded: any answer is shown.
NeverSuperseded(token) == FALSE

Superseded(token) == token # folderToken

FolderReply(r, ok) ==
    /\ folderReplies' = folderReplies \ {r}
    /\ folderItems' = IF Superseded(r.token) \/ ~ok THEN folderItems
                      ELSE folderItems \cup {r}
    /\ NoSync
    /\ UNCHANGED <<signedIn, profile, saved, collections, collDebounce, edits,
                   folder, folderToken>>

-----------------------------------------------------------------------------
(* CollectionSyncController. *)

\* stateChanged: a session that becomes active pulls, if nothing is open.
SignInOrOut ==
    /\ signedIn' = ~signedIn
    /\ collRequest' = IF signedIn' /\ collRequest = NoRequest THEN Asked
                      ELSE collRequest
    /\ NoFolder
    /\ UNCHANGED <<profile, saved, collections, serverCollections, collDebounce, edits>>

PushNow ==
    /\ collDebounce
    /\ collDebounce' = FALSE
    /\ collRequest' = IF signedIn /\ collRequest = NoRequest
                      THEN [call |-> "push", p |-> profile, list |-> saved[profile]]
                      ELSE collRequest
    /\ NoFolder
    /\ UNCHANGED <<signedIn, profile, saved, collections, serverCollections, edits>>

PushReply(ok) ==
    /\ collRequest.call = "push"
    /\ collRequest' = NoRequest
    /\ serverCollections' \in
          {[serverCollections EXCEPT ![collRequest.p] = collRequest.list]}
          \cup IF ok THEN {} ELSE {serverCollections}
    /\ NoFolder
    /\ UNCHANGED <<signedIn, profile, saved, collections, collDebounce, edits>>

PullFails ==
    /\ collRequest.call = "pull"
    /\ collRequest' = NoRequest
    /\ NoFolder
    /\ UNCHANGED <<signedIn, profile, saved, collections, serverCollections,
                   collDebounce, edits>>

\* The whole list is replaced, in the file, under the profile that is active
\* now; the application's store does not hear of it.  An answer of another
\* shape is an empty list.
PullReply(understood) ==
    /\ collRequest.call = "pull"
    /\ collRequest' = NoRequest
    /\ saved' = [saved EXCEPT ![profile] =
                     IF understood THEN serverCollections[collRequest.p] ELSE <<>>]
    /\ NoFolder
    /\ UNCHANGED <<signedIn, profile, collections, serverCollections, collDebounce, edits>>

-----------------------------------------------------------------------------
User == \/ \E id \in Ids : \/ CreateCollection(id) \/ RemoveCollection(id)
                           \/ \E delta \in {-1, 1} : MoveCollection(id, delta)
                           \/ \E s \in SUBSET Sources : EditCollection(id, s)
                           \/ LoadFolder(id)
        \/ \E p \in Profiles : SwitchProfile(p)
        \/ SignInOrOut

Replies == \/ \E r \in folderReplies, ok \in BOOLEAN : FolderReply(r, ok)
           \/ \E ok \in BOOLEAN : PushReply(ok) \/ PullReply(ok)
           \/ PullFails

Next == User \/ PushNow \/ Replies

Spec == Init /\ [][Next]_vars

-----------------------------------------------------------------------------
(* Properties. *)

\* What the folder page shows comes from one load, the last one: an answer
\* that was asked for a folder left behind is never mixed into the next one's
\* items, however late it comes.
ItemsOfOneFolder == \A r \in folderItems : r.token = folderToken
=============================================================================
