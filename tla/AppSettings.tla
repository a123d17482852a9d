----------------------------- MODULE AppSettings ----------------------------
(***************************************************************************)
(* AppSettings over PropertiesStore: one setting, the keys it has for each  *)
(* profile, the key of an older version that it migrates from, and the      *)
(* binding of the settings page that shows it.                             *)
(*                                                                         *)
(* The sixty settings differ in what they read from and write to the file;  *)
(* kind is that of the one looked at.  Its values are its default, another  *)
(* one, and an odd one: beyond its range, or a word it does not know.  A    *)
(* put replaces the file, so the instance and the file are one.            *)
(***************************************************************************)
CONSTANTS Profiles, None

VARIABLES
    profile,    \* ActiveProfile
    kind,
    kept,       \* the raw value of each profile's key, None when there is none
    legacy,     \* that of the older key
    shown,      \* what the binding shows, None while there is no page
    moved,      \* ActiveProfile moved without refreshAll since that was read
    fromLegacy  \* what is shown is the value of the older key

prefVars == <<kind, kept, legacy, shown, moved, fromLegacy>>
vars == <<profile, prefVars>>

SettingValues == {"default", "other", "odd"}

Raw == SettingValues \cup {None}

\* "track": the settings that migrate and take any value.  "size" is the font
\* size, "optional" what an empty value erases, "text" also the sets of strings.
Migrating == {"decoder", "cache", "torrent", "track"}

Kinds == {"flag", "text", "word", "number", "size", "optional"} \cup Migrating

TypeOK ==
    /\ profile \in Profiles /\ kind \in Kinds
    /\ kept \in [Profiles -> Raw] /\ legacy \in Raw /\ shown \in Raw
    /\ moved \in BOOLEAN /\ fromLegacy \in BOOLEAN

\* What a getter makes of a raw value: of a flag, of a word, of a size, and of
\* any other, whose number or text is taken as it is.
Flag(raw) == IF raw \in {"default", "other"} THEN raw ELSE "default"

Word(raw) == IF raw \in {None, "odd"} THEN "default" ELSE raw

Size(raw) == IF raw = None THEN "default" ELSE IF raw = "odd" THEN "other" ELSE raw

Text(raw) == IF raw = None THEN "default" ELSE raw

ReadOf(raw) ==
    CASE kind = "flag" -> Flag(raw)
      [] kind \in {"word", "decoder", "cache", "torrent"} -> Word(raw)
      [] kind = "size" -> Size(raw)
      [] OTHER -> Text(raw)

\* The value a setter takes for what it is given: numbers are clamped, sizes of
\* the cache snap to the next one that has a name.
Clamped(v) == IF v = "odd" /\ kind \in {"number", "size", "cache"} THEN "other" ELSE v

\* A decoder the file has no word for is written as the default.
Converted(v) == IF kind = "decoder" /\ v = "odd" THEN "default" ELSE Clamped(v)

\* What is written for a value: an empty one erases the key.
Encoded(v) == IF kind = "optional" /\ v = "default" THEN None ELSE Converted(v)

\* A getter, over both keys: the older one is returned as it is, written in the
\* new form for the active profile, and removed.
Got ==
    IF legacy = None THEN [value |-> ReadOf(kept[profile]), kept |-> kept]
    ELSE [value |-> legacy,
          kept |-> IF kind = "torrent" /\ legacy = "odd" THEN kept
                   ELSE [kept EXCEPT ![profile] = Encoded(legacy)]]

\* The binding is read, by its signal or because the page is opened.
Displays(value) == shown' = value /\ moved' = FALSE

\* A signal of the setting, when its raw value is raw: the page reads it again,
\* and the older key is gone since it was opened.
Notify(raw) ==
    /\ IF shown = None THEN UNCHANGED <<shown, moved>> ELSE Displays(ReadOf(raw))
    /\ fromLegacy' = FALSE

Init ==
    /\ profile \in Profiles /\ kind \in Kinds
    /\ kept \in [Profiles -> Raw]
    /\ legacy \in IF kind \in Migrating THEN Raw ELSE {None}
    /\ shown = None /\ moved = FALSE /\ fromLegacy = FALSE

-----------------------------------------------------------------------------
OpenPage ==
    /\ shown = None
    /\ Displays(Got.value)
    /\ kept' = Got.kept /\ legacy' = None
    /\ fromLegacy' = (legacy # None)
    /\ UNCHANGED <<profile, kind>>

ClosePage ==
    /\ shown # None
    /\ shown' = None /\ moved' = FALSE /\ fromLegacy' = FALSE
    /\ UNCHANGED <<profile, kind, kept, legacy>>

\* A setter: the getter runs first, and the older key is gone whatever follows.
Set(v) ==
    /\ v = "odd" => kind \notin {"flag", "word", "torrent"}
    /\ legacy' = None
    /\ IF Got.value = Clamped(v)
       THEN kept' = Got.kept /\ UNCHANGED <<shown, moved, fromLegacy>>
       ELSE kept' = [Got.kept EXCEPT ![profile] = Encoded(v)] /\ Notify(Encoded(v))
    /\ UNCHANGED <<profile, kind>>

\* Another setting that shares the signal has changed.
SignalOfFamily ==
    /\ shown # None
    /\ Notify(kept[profile])
    /\ UNCHANGED <<profile, kind, kept, legacy>>

\* Mutant of ApplyPlayerSyncPayload: the values to compare with are taken when
\* the payload has been applied.
ApplyUnnoticed(raw) ==
    /\ kind # "torrent" /\ (kind = "flag" => raw # "odd")
    /\ legacy' = None
    /\ kept' = [Got.kept EXCEPT ![profile] = raw]
    /\ UNCHANGED <<profile, kind, shown, moved, fromLegacy>>

\* A value of the payload is written as it is, once the old one has been read;
\* only a value that flips is told.
ApplyPlayerSyncPayload(raw) ==
    /\ kind # "torrent" /\ (kind = "flag" => raw # "odd")
    /\ legacy' = None
    /\ kept' = [Got.kept EXCEPT ![profile] = raw]
    /\ IF ReadOf(raw) = Got.value THEN UNCHANGED <<shown, moved, fromLegacy>>
       ELSE Notify(raw)
    /\ UNCHANGED <<profile, kind>>

\* activeProfileChanged: refreshAll re-emits every signal.
SwitchAndRefresh(p) ==
    /\ profile' = p
    /\ Notify(kept[p])
    /\ UNCHANGED <<kind, kept, legacy>>

\* ProfileManager's setAuthUserId and loadLocal move ActiveProfile and say
\* nothing.
MoveSilently(p) ==
    /\ p # profile
    /\ profile' = p
    /\ moved' = (shown # None)
    /\ UNCHANGED <<kind, kept, legacy, shown, fromLegacy>>

Next ==
    \/ OpenPage \/ ClosePage \/ SignalOfFamily
    \/ \E v \in SettingValues : Set(v) \/ ApplyPlayerSyncPayload(v)
    \/ \E p \in Profiles : SwitchAndRefresh(p) \/ MoveSilently(p)

Spec == Init /\ [][Next]_vars

-----------------------------------------------------------------------------
(* Properties. *)

\* refreshAll and the signals of the setters and of a pull keep the page at
\* what the active profile's key holds, but for a profile that moved without
\* them; and once a setting is read nothing of an older key can overwrite it.
ShownIsStored ==
    shown # None => /\ legacy = None
                    /\ moved \/ fromLegacy \/ shown = ReadOf(kept[profile])
=============================================================================
