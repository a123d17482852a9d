------------------------------ MODULE Updater -------------------------------
(***************************************************************************)
(* AppUpdater: a check of the releases feed offers the newest release, its  *)
(* package is streamed into the updates directory beside a .part file, and  *)
(* the whole file is handed to the desktop, after which the program quits.  *)
(*                                                                         *)
(* A check and a transfer can be under way together, and the answer of the  *)
(* one resets members of the other.  Left out: the percentage, the texts,   *)
(* and ignoreThisVersion, which nothing calls: what the file says is        *)
(* ignored stays.                                                          *)
(***************************************************************************)
EXTENDS Naturals

CONSTANTS Tags,     \* the releases newer than the program
          None

VARIABLES
    offer,          \* m_tag, with m_asset... its package; m_available: there is one
    dialog,         \* m_showDialog
    checking,       \* "no", "auto" or "forced"
    ignored,        \* ignored_release_tag of the file
    downloading,    \* m_downloading, which the page shows
    transfer,       \* m_downloadReply, m_partFile: of which release, opened
    dest,           \* m_destPath is set
    package,        \* the file there
    path,           \* m_downloadedPath is set, to m_destPath
    requested,      \* history: the releases the user pressed Download for
    confused,       \* history: since the transfer began, what a press is for and
                    \* what is there may have come to differ
    handed          \* history: the file last given to the desktop, for which
                    \* release, and that nothing was confused then

updaterVars == <<offer, dialog, checking, ignored, downloading, transfer, dest,
                 package, path, requested, confused, handed>>

Package  == [of : Tags, whole : BOOLEAN]
Transfer == [of : Tags, opened : BOOLEAN]

TypeOK ==
    /\ offer \in Tags \cup {None} /\ ignored \in Tags \cup {None}
    /\ checking \in {"no", "auto", "forced"}
    /\ dialog \in BOOLEAN /\ downloading \in BOOLEAN
    /\ dest \in BOOLEAN /\ path \in BOOLEAN
    /\ transfer \in Transfer \cup {None} /\ package \in Package \cup {None}
    /\ requested \subseteq Tags /\ confused \in BOOLEAN
    /\ handed \in [file : Package, for : Tags, sure : BOOLEAN] \cup {None}

\* The members when the program starts, which checks at once; the file of an
\* earlier run stays in the directory.
Started ==
    /\ offer' = None /\ dialog' = FALSE /\ checking' = "auto"
    /\ downloading' = FALSE /\ transfer' = None
    /\ dest' = FALSE /\ path' = FALSE
    /\ requested' = {} /\ confused' = FALSE /\ handed' = None
    /\ UNCHANGED <<ignored, package>>

Init ==
    /\ offer = None /\ dialog = FALSE /\ checking = "auto"
    /\ ignored \in Tags \cup {None}
    /\ downloading = FALSE /\ transfer = None
    /\ dest = FALSE /\ path = FALSE /\ package = None
    /\ requested = {} /\ confused = FALSE /\ handed = None

BannerVisible == dialog /\ offer # None

-----------------------------------------------------------------------------
\* The button of the settings page, checkForUpdates(true, true).
CheckForUpdates ==
    /\ checking = "no"
    /\ checking' = "forced" /\ dialog' = FALSE
    /\ UNCHANGED <<offer, ignored, downloading, transfer, dest, package, path,
                   requested, confused, handed>>

\* applyCheckSuccess of a newer release.  It says that nothing is downloading,
\* and keeps the path of what has been downloaded.
ApplyNewer(release) ==
    /\ offer' = release
    /\ dialog' = (checking = "forced" \/ release # ignored)
    /\ downloading' = FALSE
    /\ confused' = (confused \/ path \/ transfer # None)
    /\ UNCHANGED path

\* applyCheckSuccess of one that is not newer, and applyCheckFailure.
ApplyNothing ==
    /\ offer' = None /\ dialog' = (checking = "forced")
    /\ downloading' = FALSE /\ path' = FALSE
    /\ UNCHANGED confused

\* A feed without a release of the channel.
NoRelease ==
    /\ dialog' = (dialog /\ checking # "forced")
    /\ UNCHANGED <<offer, downloading, path, confused>>

CheckReply ==
    /\ checking # "no"
    /\ checking' = "no"
    /\ (\E release \in Tags : ApplyNewer(release)) \/ ApplyNothing \/ NoRelease
    /\ UNCHANGED <<ignored, transfer, dest, package, requested, handed>>

\* Later, on the banner.
DismissBanner ==
    /\ BannerVisible /\ ~downloading
    /\ dialog' = FALSE
    /\ UNCHANGED <<offer, checking, ignored, downloading, transfer, dest, package,
                   path, requested, confused, handed>>

\* Download or Retry, on the banner.  A transfer that a check has hidden is
\* aborted, which runs finishDownload and failDownload; then the reply they have
\* set to null is used.
DownloadUpdate ==
    /\ BannerVisible /\ ~downloading /\ ~path
    /\ \/ /\ downloading' = TRUE
          /\ transfer' = [of |-> offer, opened |-> FALSE]
          /\ requested' = requested \cup {offer} /\ confused' = FALSE
          /\ UNCHANGED <<offer, dialog, checking, ignored, dest, package, path,
                         handed>>
       \/ /\ transfer # None
          /\ Started

\* readyRead, the first: the directory is emptied, and the file may not open.
FirstBytes(canWrite) ==
    /\ transfer # None /\ ~transfer.opened
    /\ package' = None /\ dest' = TRUE
    /\ IF canWrite
       THEN /\ transfer' = [transfer EXCEPT !.opened = TRUE]
            /\ UNCHANGED <<dialog, downloading, path>>
       ELSE /\ transfer' = None
            /\ dialog' = TRUE /\ downloading' = FALSE /\ path' = FALSE
    /\ UNCHANGED <<offer, checking, ignored, requested, confused, handed>>

\* installDownloadedUpdate of file, asked for as release.
Install(file, release, launched) ==
    IF launched
    THEN /\ handed' = [file |-> file, for |-> release, sure |-> ~confused']
         /\ UNCHANGED dialog
    ELSE dialog' = TRUE /\ UNCHANGED handed

\* finishDownload of a file that is there.
Downloaded(file, launched) ==
    /\ package' = file /\ downloading' = FALSE /\ path' = TRUE
    /\ Install(file, transfer.of, launched)

FailDownload ==
    /\ dialog' = TRUE /\ downloading' = FALSE /\ path' = FALSE
    /\ UNCHANGED <<package, handed>>

\* Mutant of TransferEnds: the size is compared with nothing.
UnmeasuredEnds(body, measured, launched) ==
    /\ transfer # None
    /\ transfer' = None
    /\ UNCHANGED <<offer, checking, ignored, dest, requested, confused>>
    /\ \/ /\ transfer.opened
          /\ Downloaded([of |-> transfer.of, whole |-> body = "whole"], launched)
       \/ FailDownload

\* finished: a whole body, one that ends early, of a length that is known or is
\* not, none at all, or an error.  With no body the file of an earlier transfer
\* counts as this one's.
TransferEnds(body, measured, launched) ==
    /\ transfer # None
    /\ transfer' = None
    /\ \/ /\ transfer.opened /\ (body = "short" => ~measured)
          /\ confused' = (confused \/ body = "short")
          /\ Downloaded([of |-> transfer.of, whole |-> body = "whole"], launched)
       \/ /\ ~transfer.opened /\ dest /\ package # None
          /\ confused' = TRUE
          /\ Downloaded(package, launched)
       \/ FailDownload /\ UNCHANGED confused
    /\ UNCHANGED <<offer, checking, ignored, dest, requested>>

\* Install, on the banner.
InstallDownloadedUpdate(launched) ==
    /\ BannerVisible /\ ~downloading /\ path
    /\ package # None
    /\ UNCHANGED <<offer, checking, ignored, downloading, transfer, dest, package,
                   path, requested, confused>>
    /\ Install(package, offer, launched)

\* The program ends, by itself after an install or not, and starts.
Restart == Started

Next ==
    \/ CheckForUpdates \/ CheckReply \/ DismissBanner \/ DownloadUpdate \/ Restart
    \/ \E canWrite \in BOOLEAN : FirstBytes(canWrite)
    \/ \E body \in {"whole", "short"}, measured, launched \in BOOLEAN :
          TransferEnds(body, measured, launched)
    \/ \E launched \in BOOLEAN : InstallDownloadedUpdate(launched)

Spec == Init /\ [][Next]_updaterVars

-----------------------------------------------------------------------------
(* Properties. *)

\* What is given to the desktop was asked for, and it is whole and the release
\* that the button was pressed for: unless a check was answered during or after
\* its transfer, the transfer had no body, or no length to be measured by.
HandsOverWhatWasAsked ==
    handed # None =>
        /\ handed.file.of \in requested
        /\ handed.sure => handed.file.whole /\ handed.file.of = handed.for
=============================================================================
