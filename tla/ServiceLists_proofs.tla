-------------------------- MODULE ServiceLists_proofs --------------------------
(***************************************************************************)
(* Proofs about AppServices where lists, counts and folds matter: what the  *)
(* scrobbler remembers, the handlers of ProfileManager, the list of addons, *)
(* the slots of HomeShelves and of a refresh, the selectors of DomBridge.   *)
(*                                                                         *)
(* A loop of the code is a fold in the model, and FoldLeft is a CHOOSE of a *)
(* function on sets of places.  Of each fold the same is proved: such a     *)
(* function exists (FoldOverExists), so the chosen one is one, and a set    *)
(* G[k] of what is right after k steps is reached step by step              *)
(* (FoldReaches).                                                          *)
(***************************************************************************)
EXTENDS AppServices_proofs, InductionLemmas

-----------------------------------------------------------------------------
(* TraktScrobbler. *)

\* Requests and retries: one that waits has attempts left.
Sent == {s \in Tracking!Send : s.waiting => s.attempt < kMaxStopAttempts}

Memories == [last : Tracking!Word \cup {None}, inWindow : BOOLEAN, out : SUBSET Sent]

Agrees(last, word) == last \in Tracking!Word /\ last.action = word.action /\ last.item = word.item

\* One word told to a memory: it agrees with the word afterwards, repeated or not.
LEMMA ToldAgrees ==
    ASSUME NEW t \in Memories, NEW w \in Tracking!Word, NEW bearer \in BOOLEAN
    PROVE  /\ Tracking!TellTrakt(t, w, bearer) \in Memories
           /\ Agrees(Tracking!TellTrakt(t, w, bearer).last, w)
<1>1. CASE t.inWindow /\ Tracking!Throttled(t.last, w)
  <2>1. t.last \in Tracking!Word /\ Tracking!TellTrakt(t, w, bearer) = t
    BY <1>1 DEF Tracking!TellTrakt, Tracking!Throttled, Memories
  <2> QED
    BY <1>1, <2>1 DEF Tracking!Throttled, Agrees
<1>2. CASE ~(t.inWindow /\ Tracking!Throttled(t.last, w))
  <2> DEFINE s == [word |-> w, attempt |-> 1, waiting |-> FALSE]
             new == t.out \cup IF bearer THEN {s} ELSE {}
  <2>1. s \in Sent
    BY ServicesAssumption DEF Sent, Tracking!Send
  <2> HIDE DEF s
  <2>2. new \in SUBSET Sent
    BY <2>1 DEF Memories
  <2> HIDE DEF new
  <2>3. Tracking!TellTrakt(t, w, bearer) = [last |-> w, inWindow |-> TRUE, out |-> new]
    BY <1>2 DEF Tracking!TellTrakt, new, s
  <2> QED
    BY <2>2, <2>3 DEF Memories, Agrees
<1> QED
  BY <1>1, <1>2

\* What the words of a tick, in their order, leave in the memory t0.
Telling(f, t0, words, bearer) ==
    f = [i \in SUBSET (1..Len(words)) |->
            IF i = {} THEN t0
            ELSE Tracking!TellTrakt(f[i \ {Greatest(i)}], words[Greatest(i)], bearer)]

\* The words of one tick: the memory agrees with the last.
LEMMA WordsTold ==
    ASSUME NEW words \in Seq(Tracking!Word), NEW bearer \in BOOLEAN, NEW t0 \in Memories
    PROVE  LET t1 == Tracking!FoldLeft(LAMBDA t, w : Tracking!TellTrakt(t, w, bearer), t0, words)
           IN  /\ t1 \in Memories /\ (words = <<>> => t1 = t0)
               /\ words # <<>> => Agrees(t1.last, words[Len(words)])
<1> DEFINE n == Len(words)
           H == [x \in Memories \X (1..n) |-> Tracking!TellTrakt(x[1], words[x[2]], bearer)]
           t1 == Tracking!FoldLeft(LAMBDA t, w : Tracking!TellTrakt(t, w, bearer), t0, words)
           g == CHOOSE f : Telling(f, t0, words, bearer)
           G == [k \in 0..n |-> IF k = 0 THEN Memories
                                ELSE {t \in Memories : Agrees(t.last, words[k])}]
<1>1. n \in Nat /\ DOMAIN words = 1..n /\ \A k \in 1..n : words[k] \in Tracking!Word
  OBVIOUS
<1>2. t1 = g[1..n]
  BY <1>1 DEF Tracking!FoldLeft, Tracking!MapThenFoldSet, Tracking!Max, Telling, Greatest
<1> HIDE DEF t1, n
<1>3. \A d \in Memories, k \in 1..n : /\ H[<<d, k>>] = Tracking!TellTrakt(d, words[k], bearer)
                                      /\ H[<<d, k>>] \in Memories
  BY <1>1, ToldAgrees
<1> HIDE DEF H
<1>4. PICK f : FoldOver(f, n, t0, H)
  BY <1>1, FoldOverExists
<1>5. \A i \in SUBSET (1..n) : f[i] \in Memories
  BY <1>1, <1>3, <1>4, FoldOverStays
<1>6. Telling(f, t0, words, bearer)
  <2>1. ASSUME NEW i \in SUBSET (1..n), i # {}
        PROVE  H[<<f[i \ {Greatest(i)}], Greatest(i)>>] =
                 Tracking!TellTrakt(f[i \ {Greatest(i)}], words[Greatest(i)], bearer)
    BY <1>1, <1>3, <1>5, <2>1, GreatestOf
  <2> QED
    BY <1>4, <2>1 DEF Telling, FoldOver, n
<1>7. Telling(g, t0, words, bearer)
  BY <1>6
<1> HIDE DEF g
<1>8. g[{}] = t0
  BY <1>7 DEF Telling
<1>9. ASSUME NEW k \in 1..n, g[1..(k - 1)] \in G[k - 1] PROVE g[1..k] \in G[k]
  <2>1. g[1..k] = Tracking!TellTrakt(g[1..(k - 1)], words[k], bearer)
    <3> DEFINE i == 1..k
    <3>1. /\ i \in SUBSET (1..n) /\ i # {} /\ Greatest(i) = k
          /\ i \ {Greatest(i)} = 1..(k - 1)
      BY <1>1, Prefix
    <3> HIDE DEF i
    <3>2. g[i] = Tracking!TellTrakt(g[i \ {Greatest(i)}], words[Greatest(i)], bearer)
      BY <1>7, <3>1 DEF Telling, n
    <3> QED
      BY <3>1, <3>2 DEF i
  <2>2. g[1..(k - 1)] \in Memories
    BY <1>1, <1>9
  <2>3. words[k] \in Tracking!Word
    BY <1>1
  <2>4. k \in 0..n /\ k # 0
    BY <1>1
  <2> QED
    BY <2>1, <2>2, <2>3, <2>4, ToldAgrees
<1>10. g[{}] \in G[0]
  BY <1>1, <1>8
<1> HIDE DEF G
<1>11. t1 \in G[n]
  BY <1>1, <1>2, <1>9, <1>10, FoldReaches
<1> QED
  <2>1. n \in 0..n /\ (words # <<>> => n # 0) /\ (words = <<>> => n = 0)
    BY <1>1 DEF n
  <2>2. n = 0 => t1 = t0
    <3>1. 1..0 = {}
      OBVIOUS
    <3> QED
      BY <1>2, <1>8, <3>1
  <2>3. n # 0 => t1 \in Memories /\ Agrees(t1.last, words[n])
    BY <1>11, <2>1 DEF G
  <2> QED
    BY <2>1, <2>2, <2>3 DEF t1, n

\* What the scrobbler remembers agrees with what the pump said last.
WordInv ==
    /\ item \in Items \cup {None} /\ lastPos \in Tracking!Places \cup {-1}
    /\ {startSent, completionSent, wasPaused, connected} \subseteq BOOLEAN
    /\ traktLast \in Tracking!Word \cup {None} /\ lastWord \in Tracking!Word \cup {None}
    /\ sends \subseteq Sent
    /\ lastWord # None => Agrees(traktLast, lastWord)

\* ScrobblePump::dispatch of the words of one tick.
LEMMA WordsDispatched ==
    ASSUME WordInv, NEW words \in Seq(Tracking!Word), Tracking!Dispatch(words)
    PROVE  /\ traktLast' \in Tracking!Word \cup {None}
           /\ lastWord' \in Tracking!Word \cup {None}
           /\ sends' \subseteq Sent
           /\ lastWord' # None => Agrees(traktLast', lastWord')
<1>1. CASE ~connected
  <2>1. traktLast' = traktLast /\ sends' = sends /\ lastWord' = lastWord
    BY <1>1 DEF Tracking!Dispatch
  <2> QED
    BY <2>1 DEF WordInv
<1>2. CASE connected
  <2>1. PICK inWindow \in BOOLEAN, bearer \in BOOLEAN :
          LET t1 == Tracking!FoldLeft(LAMBDA t, w : Tracking!TellTrakt(t, w, bearer),
                        [last |-> traktLast, inWindow |-> inWindow, out |-> sends], words)
          IN  /\ traktLast' = t1.last /\ sends' = t1.out
              /\ lastWord' = IF words = <<>> THEN lastWord ELSE words[Len(words)]
    BY <1>2 DEF Tracking!Dispatch, Tracking!Last
  <2> DEFINE t0 == [last |-> traktLast, inWindow |-> inWindow, out |-> sends]
             t1 == Tracking!FoldLeft(LAMBDA t, w : Tracking!TellTrakt(t, w, bearer), t0, words)
  <2>2. t0 \in Memories
    BY DEF WordInv, Memories
  <2>3. /\ t1 \in Memories /\ (words = <<>> => t1 = t0)
        /\ words # <<>> => Agrees(t1.last, words[Len(words)])
    <3> HIDE DEF t0
    <3> QED
      BY <2>2, WordsTold
  <2>4. /\ traktLast' = t1.last /\ sends' = t1.out
        /\ lastWord' = IF words = <<>> THEN lastWord ELSE words[Len(words)]
    BY <2>1
  <2>5. CASE words = <<>>
    <3>0. t0.last = traktLast
      OBVIOUS
    <3> HIDE DEF t1, t0
    <3>1. t1.last = traktLast
      BY <2>3, <2>5, <3>0
    <3> QED
      BY <2>3, <2>4, <2>5, <3>1 DEF WordInv, Memories
  <2>6. CASE words # <<>>
    <3>1. words[Len(words)] \in Tracking!Word
      BY <2>6
    <3> HIDE DEF t1, t0
    <3> QED
      BY <2>3, <2>4, <2>6, <3>1 DEF Memories
  <2> QED
    BY <2>5, <2>6
<1> QED
  BY <1>1, <1>2

\* The words of a tick are about the item that plays.
LEMMA SaysWords ==
    ASSUME item \in Items, NEW place \in Tracking!Places, NEW a \in BOOLEAN, NEW b \in BOOLEAN,
           NEW c \in BOOLEAN, NEW d \in BOOLEAN
    PROVE  Tracking!Say(a, "stop", place) \o Tracking!Say(b, "start", place)
             \o Tracking!Say(c, "pause", place) \o Tracking!Say(d, "stop", place)
               \in Seq(Tracking!Word)
<1>1. ASSUME NEW condition \in BOOLEAN, NEW action \in {"start", "pause", "stop"}
      PROVE  Tracking!Say(condition, action, place) \in Seq(Tracking!Word)
  <2> DEFINE word == [action |-> action, item |-> item, place |-> place]
  <2>1. word \in Tracking!Word
    BY DEF Tracking!Word
  <2> HIDE DEF word
  <2>2. <<word>> \in Seq(Tracking!Word) /\ <<>> \in Seq(Tracking!Word)
    BY <2>1
  <2> QED
    BY <2>2 DEF Tracking!Say, word
<1>2. "stop" \in {"start", "pause", "stop"} /\ "start" \in {"start", "pause", "stop"}
      /\ "pause" \in {"start", "pause", "stop"}
  OBVIOUS
<1>3. /\ Tracking!Say(a, "stop", place) \in Seq(Tracking!Word)
      /\ Tracking!Say(b, "start", place) \in Seq(Tracking!Word)
      /\ Tracking!Say(c, "pause", place) \in Seq(Tracking!Word)
      /\ Tracking!Say(d, "stop", place) \in Seq(Tracking!Word)
  BY <1>1, <1>2
<1> QED
  BY <1>3

\* ScrobblePump::tick.
LEMMA WordsTick ==
    ASSUME WordInv, NEW pos \in Tracking!Places \cup {-1}, NEW known \in BOOLEAN,
           NEW paused \in BOOLEAN, Tracking!Tick(pos, known, paused)
    PROVE  WordInv'
<1> DEFINE jump == lastPos >= 0 /\ pos >= 0 /\ (pos > lastPos + 1 \/ lastPos > pos + 1)
           place == IF known /\ pos >= 0 THEN pos ELSE 0
           starts == pos >= 0 /\ (jump \/ ~startSent)
           pauses == paused /\ ~wasPaused
           completes == place = kLast /\ (jump \/ ~completionSent)
           words == Tracking!Say(jump, "stop", place) \o Tracking!Say(starts, "start", place)
                      \o Tracking!Say(pauses, "pause", place)
                      \o Tracking!Say(completes, "stop", place)
<1>1. item \in Items /\ item' = item /\ connected' = connected
  BY DEF WordInv, Tracking!Tick
<1>2. place \in Tracking!Places
  BY ServicesAssumption DEF Tracking!Places
<1>3. jump \in BOOLEAN /\ starts \in BOOLEAN /\ pauses \in BOOLEAN /\ completes \in BOOLEAN
  OBVIOUS
<1>4. /\ Tracking!Dispatch(words)
      /\ startSent' \in BOOLEAN /\ completionSent' \in BOOLEAN /\ wasPaused' = paused
      /\ lastPos' \in {pos, lastPos}
  BY DEF Tracking!Tick
<1> HIDE DEF jump, place, starts, pauses, completes
<1>5. words \in Seq(Tracking!Word)
  BY <1>1, <1>2, <1>3, SaysWords
<1> HIDE DEF words
<1>6. /\ traktLast' \in Tracking!Word \cup {None} /\ lastWord' \in Tracking!Word \cup {None}
      /\ sends' \subseteq Sent /\ (lastWord' # None => Agrees(traktLast', lastWord'))
  BY <1>4, <1>5, WordsDispatched
<1>7. /\ item' \in Items \cup {None} /\ lastPos' \in Tracking!Places \cup {-1}
      /\ {startSent', completionSent', wasPaused', connected'} \subseteq BOOLEAN
  BY <1>1, <1>4 DEF WordInv
<1> QED
  BY <1>6, <1>7 DEF WordInv, Agrees

\* The replies and the retry timer.
LEMMA WordsSent ==
    ASSUME WordInv, NEW s \in sends,
           \/ \E answer \in {"ok", "failed", "unauthorized"} : Tracking!SendReply(s, answer)
           \/ Tracking!Retry(s)
    PROVE  WordInv'
<1>1. s \in Sent /\ s.attempt \in 1..kMaxStopAttempts /\ s.word \in Tracking!Word
      /\ s = [word |-> s.word, attempt |-> s.attempt, waiting |-> s.waiting]
  BY DEF WordInv, Sent, Tracking!Send
<1>2. sends' \subseteq Sent /\ connected' \in BOOLEAN
  <2>1. ASSUME NEW answer, Tracking!SendReply(s, answer)
        PROVE  sends' \subseteq Sent /\ connected' \in BOOLEAN
    <3>1. CASE s.attempt < kMaxStopAttempts
      <4>1. [s EXCEPT !.waiting = TRUE] \in Sent
        BY <1>1, <3>1 DEF Sent, Tracking!Send
      <4> QED
        BY <2>1, <4>1 DEF WordInv, Tracking!SendReply
    <3>2. CASE ~(s.attempt < kMaxStopAttempts)
      BY <2>1, <3>2 DEF WordInv, Tracking!SendReply
    <3> QED
      BY <3>1, <3>2
  <2>2. ASSUME Tracking!Retry(s) PROVE sends' \subseteq Sent /\ connected' \in BOOLEAN
    <3>1. s.attempt < kMaxStopAttempts
      BY <1>1, <2>2 DEF Sent, Tracking!Retry
    <3>2. s.attempt + 1 \in 1..kMaxStopAttempts
      BY <1>1, <3>1, ServicesAssumption
    <3>3. [s EXCEPT !.waiting = FALSE, !.attempt = @ + 1] \in Sent
      BY <1>1, <3>2 DEF Sent, Tracking!Send
    <3> QED
      BY <2>2, <3>3 DEF WordInv, Tracking!Retry
  <2> QED
    BY <2>1, <2>2
<1>3. UNCHANGED <<item, startSent, completionSent, wasPaused, lastPos, traktLast, lastWord>>
  BY DEF Tracking!SendReply, Tracking!Retry
<1> QED
  BY <1>2, <1>3 DEF WordInv, Agrees

\* Every step of the scrobblers.
LEMMA WordStep == ASSUME WordInv, Tracking!Next PROVE WordInv'
<1>1. ASSUME NEW i \in Items, Tracking!BeginItem(i) PROVE WordInv'
  BY <1>1 DEF WordInv, Tracking!BeginItem, Agrees
<1>2. CASE Tracking!TraktChange
  BY <1>2 DEF WordInv, Tracking!TraktChange, Agrees
<1> QED
  BY <1>1, <1>2, WordsTick, WordsSent DEF Tracking!Next

\* What the scrobbler remembers agrees with the pump, always.
LEMMA WordIsInvariant == Spec => [](which = "tracking" => WordInv)
<1> DEFINE I == which = "tracking" => WordInv
<1>1. Init => I
  <2> SUFFICES ASSUME Init, which = "tracking" PROVE WordInv
    OBVIOUS
  <2>1. Tracking!Init
    BY DEF Init
  <2> QED
    BY <2>1 DEF Tracking!Init, WordInv
<1>2. I /\ [Next]_vars => I'
  <2> SUFFICES ASSUME I, [Next]_vars, which' = "tracking" PROVE WordInv'
    OBVIOUS
  <2>1. which = "tracking" /\ WordInv
    BY DEF Next, vars
  <2>2. CASE Next
    <3>1. Tracking!Next
      BY <2>1, <2>2 DEF Next
    <3> QED
      BY <2>1, <3>1, WordStep
  <2>3. CASE UNCHANGED vars
    BY <2>1, <2>3 DEF vars, scrobbleVars, WordInv, Agrees
  <2> QED
    BY <2>2, <2>3
<1> QED
  BY <1>1, <1>2, PTL DEF Spec

\* TraktScrobbler: over seeks, pauses, changes of the item, failed requests and
\* retries, for any number of items and places, what it remembers having told is
\* what the pump said last; the throttle drops repetitions only.
THEOREM LastWordIsRemembered == Spec => []LastWordIsKept
<1>1. (which = "tracking" => WordInv) => LastWordIsKept
  BY NoneAssumption DEF LastWordIsKept, Tracking!LastWordIsKept, WordInv, Agrees
<1> QED
  BY <1>1, WordIsInvariant, PTL

-----------------------------------------------------------------------------
(* ProfileManager. *)

\* The file of the account in session and the members of the manager.
Follows(member, file) ==
    member.user # None /\ file.user = member.user =>
        file.list = member.list /\ file.active = member.active

\* The file follows, for every account that can be in session.
ManagerInv ==
    /\ Manager!TypeOK
    /\ Follows(m, stored)

\* What the functions of one answer share: the file follows, and a move of the
\* active profile away from a has reached the objects.
Answering == [m : Manager!ManagerType, stored : Manager!StoredType,
              pinCache : SUBSET Manager!Indexes, boundTo : Manager!Indexes,
              next : Seq(Manager!Handler)]

Settled(a) == {s \in Answering : /\ Follows(s.m, s.stored)
                                 /\ s.m.active = a \/ s.boundTo = s.m.active}

\* The bound on profiles allows the first.
LEMMA OneIsAnIndex == 1 \in Manager!Indexes
BY ServicesAssumption DEF Manager!Indexes

\* persist leaves a file that follows.
LEMMA WritesFollow ==
    ASSUME NEW member \in Manager!ManagerType, NEW file \in Manager!StoredType
    PROVE  /\ Manager!Written(member, file) \in Manager!StoredType
           /\ Follows(member, Manager!Written(member, file))
BY DEF Manager!Written, Manager!ManagerType, Manager!StoredType, Follows

\* What a file loads follows it.
LEMMA LoadsFollow ==
    ASSUME NEW who \in Users \cup {None}, NEW file \in Manager!StoredType,
           NEW verified \in SUBSET Manager!Indexes
    PROVE  /\ Manager!Loaded(who, file, verified) \in Manager!ManagerType
           /\ Follows(Manager!Loaded(who, file, verified), file)
<1>1. Manager!Empty \in Manager!Lists
  BY DEF Manager!Empty, Manager!Lists, Manager!Pins
<1> QED
  BY <1>1, OneIsAnIndex DEF Manager!Loaded, Manager!ManagerType, Manager!StoredType, Follows

\* Storing members, with their file, the objects and the PINs, is typed.
LEMMA MembersStored ==
    ASSUME NEW a, NEW s \in Settled(a), NEW member \in Manager!ManagerType,
           NEW pins \in SUBSET Manager!Indexes, NEW b \in Manager!Indexes,
           member.active = a \/ b = member.active
    PROVE  [s EXCEPT !.m = member, !.stored = Manager!Written(member, @),
                     !.boundTo = b, !.pinCache = pins] \in Settled(a)
<1> DEFINE file == Manager!Written(member, s.stored)
           d == [s EXCEPT !.m = member, !.stored = file, !.boundTo = b, !.pinCache = pins]
<1>1. s \in Answering /\ s.stored \in Manager!StoredType
  BY DEF Settled, Answering
<1>2. file \in Manager!StoredType /\ Follows(member, file)
  BY <1>1, WritesFollow
<1> HIDE DEF file
<1>3. d \in Answering /\ d.m = member /\ d.stored = file /\ d.boundTo = b
  BY <1>1, <1>2 DEF Answering
<1> HIDE DEF d
<1>4. d \in Settled(a)
  BY <1>2, <1>3 DEF Settled
<1> QED
  BY <1>4 DEF d, file

\* pullProfiles' function, on any rows.
LEMMA PulledSettles ==
    ASSUME NEW a, NEW s \in Settled(a), NEW list \in Manager!Lists
    PROVE  Manager!Pulled(s, list) \in Settled(a)
<1> DEFINE listed == {i \in Manager!Indexes : list[i] # "none"}
           moves == s.m.active \notin listed /\ listed # {}
           first == CHOOSE i \in listed : \A j \in listed : i <= j
           active == IF moves THEN first ELSE s.m.active
           member == [s.m EXCEPT !.list = list, !.active = active]
           b == IF moves THEN first ELSE s.boundTo
           pins == {i \in s.pinCache : list[i] = "pinned"}
<1>1. /\ s.m \in Manager!ManagerType /\ s.boundTo \in Manager!Indexes
      /\ s.pinCache \in SUBSET Manager!Indexes /\ s.m.active \in Manager!Indexes
      /\ s.m.active = a \/ s.boundTo = s.m.active
  BY DEF Settled, Answering, Manager!ManagerType
<1>2. moves => first \in Manager!Indexes
  <2>1. listed \in SUBSET (1..kMaxProfiles) /\ kMaxProfiles \in Nat
    BY ServicesAssumption DEF Manager!Indexes
  <2>2. listed # {} => \E i \in listed : \A j \in listed : i <= j
    <3> HIDE DEF listed
    <3> QED
      BY <2>1, LeastExists
  <2>3. listed # {} => first \in listed
    <3> HIDE DEF listed
    <3> QED
      BY <2>2
  <2> QED
    BY <2>3
<1> HIDE DEF first, listed
<1>3. active \in Manager!Indexes /\ b \in Manager!Indexes
      /\ (active = a \/ b = active) /\ pins \in SUBSET Manager!Indexes
  BY <1>1, <1>2
<1> HIDE DEF active, b, pins, moves
<1>4. member \in Manager!ManagerType /\ member.active = active
  BY <1>1, <1>3 DEF Manager!ManagerType
<1> HIDE DEF member
<1>5. [s EXCEPT !.m = member, !.stored = Manager!Written(member, @),
                !.boundTo = b, !.pinCache = pins] \in Settled(a)
  BY <1>3, <1>4, MembersStored
<1>6. Manager!Pulled(s, list) = [s EXCEPT !.m = member, !.stored = Manager!Written(member, @),
                                          !.boundTo = b, !.pinCache = pins]
  BY DEF Manager!Pulled, member, active, b, pins, moves, first, listed
<1> QED
  BY <1>5, <1>6

\* The functions that touch the PINs and ask for another pull.
LEMMA PinsSettle ==
    ASSUME NEW a, NEW s \in Settled(a), NEW pins \in SUBSET Manager!Indexes,
           NEW verified \in SUBSET Manager!Indexes
    PROVE  /\ [s EXCEPT !.next = Manager!PullNext(@)] \in Settled(a)
           /\ [s EXCEPT !.m.verified = verified, !.pinCache = pins] \in Settled(a)
           /\ [s EXCEPT !.pinCache = pins, !.next = Manager!PullNext(@)] \in Settled(a)
<1> DEFINE next == Manager!PullNext(s.next)
           member == [s.m EXCEPT !.verified = verified]
           d == [s EXCEPT !.next = next]
           e == [s EXCEPT !.m = member, !.pinCache = pins]
           f == [s EXCEPT !.pinCache = pins, !.next = next]
<1>1. /\ s \in Answering /\ s.next \in Seq(Manager!Handler) /\ s.m \in Manager!ManagerType
      /\ Follows(s.m, s.stored) /\ (s.m.active = a \/ s.boundTo = s.m.active)
  BY DEF Settled, Answering
<1>2. next \in Seq(Manager!Handler)
  <2>1. [fn |-> "pull", index |-> 1] \in Manager!Handler
    BY OneIsAnIndex DEF Manager!Handler, Manager!Fns
  <2> QED
    BY <1>1, <2>1 DEF Manager!PullNext
<1>3. /\ member \in Manager!ManagerType /\ member.user = s.m.user /\ member.list = s.m.list
      /\ member.active = s.m.active
  BY <1>1 DEF Manager!ManagerType
<1>4. Follows(member, s.stored)
  BY <1>1, <1>3 DEF Follows
<1> HIDE DEF next, member
<1>5. d \in Answering /\ d.m = s.m /\ d.stored = s.stored /\ d.boundTo = s.boundTo
  BY <1>1, <1>2 DEF Answering
<1>6. e \in Answering /\ e.m = member /\ e.stored = s.stored /\ e.boundTo = s.boundTo
  BY <1>1, <1>3 DEF Answering
<1>7. f \in Answering /\ f.m = s.m /\ f.stored = s.stored /\ f.boundTo = s.boundTo
  BY <1>1, <1>2 DEF Answering
<1> HIDE DEF d, e, f
<1>8. d \in Settled(a) /\ e \in Settled(a) /\ f \in Settled(a)
  BY <1>1, <1>3, <1>4, <1>5, <1>6, <1>7 DEF Settled
<1> QED
  BY <1>8 DEF d, e, f, next, member

\* deleteProfile's function.
LEMMA RemovedSettles ==
    ASSUME NEW a, NEW s \in Settled(a), NEW i \in Manager!Indexes
    PROVE  LET member == Manager!Removed(s.m, i)
           IN  [s EXCEPT !.m = member, !.stored = Manager!Written(member, @),
                         !.boundTo = IF s.m.active = i THEN 1 ELSE @] \in Settled(a)
<1> DEFINE member == Manager!Removed(s.m, i)
           b == IF s.m.active = i THEN 1 ELSE s.boundTo
<1>1. /\ s \in Answering /\ s.m \in Manager!ManagerType /\ s.boundTo \in Manager!Indexes
      /\ s.pinCache \in SUBSET Manager!Indexes /\ (s.m.active = a \/ s.boundTo = s.m.active)
  BY DEF Settled, Answering
<1>2. member \in Manager!ManagerType
      /\ member.active = IF s.m.active = i THEN 1 ELSE s.m.active
  BY <1>1, OneIsAnIndex DEF Manager!Removed, Manager!ManagerType, Manager!Lists, Manager!Pins
<1>3. b \in Manager!Indexes /\ (member.active = a \/ b = member.active)
  BY <1>1, <1>2, OneIsAnIndex
<1> HIDE DEF member, b
<1>4. [s EXCEPT !.m = member, !.stored = Manager!Written(member, @),
                !.boundTo = b, !.pinCache = s.pinCache] \in Settled(a)
  BY <1>1, <1>2, <1>3, MembersStored
<1>5. [s EXCEPT !.m = member, !.stored = Manager!Written(member, @),
                !.boundTo = b, !.pinCache = s.pinCache] =
      [s EXCEPT !.m = member, !.stored = Manager!Written(member, @), !.boundTo = b]
  BY <1>1 DEF Answering
<1> QED
  BY <1>4, <1>5 DEF member, b

\* Whichever function runs on whichever good answer.
LEMMA HandleSettles ==
    ASSUME NEW a, NEW s \in Settled(a), NEW h \in Manager!Handler, NEW unlocked,
           NEW list \in Manager!Lists
    PROVE  Manager!Handle(s, h, unlocked, list) \in Settled(a)
<1>1. h.fn \in Manager!Fns /\ h.index \in Manager!Indexes
  BY DEF Manager!Handler
<1>2. s.pinCache \in SUBSET Manager!Indexes /\ s.m.verified \in SUBSET Manager!Indexes
  BY DEF Settled, Answering, Manager!ManagerType
<1>3. /\ s.pinCache \cup {h.index} \in SUBSET Manager!Indexes
      /\ s.pinCache \ {h.index} \in SUBSET Manager!Indexes
      /\ s.m.verified \cup {h.index} \in SUBSET Manager!Indexes
  BY <1>1, <1>2
<1>4. CASE h.fn = "pull"
  BY <1>4, PulledSettles DEF Manager!Handle
<1>5. CASE h.fn = "push"
  BY <1>2, <1>5, PinsSettle DEF Manager!Handle
<1>6. CASE h.fn = "verify" /\ unlocked
  <2> DEFINE pins == s.pinCache \cup {h.index}
             verified == s.m.verified \cup {h.index}
  <2>1. Manager!Handle(s, h, unlocked, list) = [s EXCEPT !.m.verified = verified, !.pinCache = pins]
    BY <1>6, SMTT(30) DEF Manager!Handle
  <2>2. pins \in SUBSET Manager!Indexes /\ verified \in SUBSET Manager!Indexes
    BY <1>3
  <2> HIDE DEF pins, verified
  <2>3. [s EXCEPT !.m.verified = verified, !.pinCache = pins] \in Settled(a)
    BY <2>2, PinsSettle
  <2> QED
    BY <2>1, <2>3
<1>7. CASE h.fn = "delete"
  BY <1>1, <1>7, RemovedSettles DEF Manager!Handle
<1>8. CASE h.fn = "setPin"
  <2> DEFINE pins == s.pinCache \cup {h.index}
  <2>1. Manager!Handle(s, h, unlocked, list) =
          [s EXCEPT !.pinCache = pins, !.next = Manager!PullNext(@)]
    BY <1>8, SMTT(30) DEF Manager!Handle
  <2>2. pins \in SUBSET Manager!Indexes
    BY <1>3
  <2> HIDE DEF pins
  <2>3. [s EXCEPT !.pinCache = pins, !.next = Manager!PullNext(@)] \in Settled(a)
    BY <1>2, <2>2, PinsSettle
  <2> QED
    BY <2>1, <2>3
<1>9. CASE h.fn = "clearPin"
  <2> DEFINE pins == s.pinCache \ {h.index}
  <2>1. Manager!Handle(s, h, unlocked, list) =
          [s EXCEPT !.pinCache = pins, !.next = Manager!PullNext(@)]
    BY <1>9, SMTT(30) DEF Manager!Handle
  <2>2. pins \in SUBSET Manager!Indexes
    BY <1>3, SMTT(30)
  <2> HIDE DEF pins
  <2>3. [s EXCEPT !.pinCache = pins, !.next = Manager!PullNext(@)] \in Settled(a)
    BY <1>2, <2>2, PinsSettle
  <2> QED
    BY <2>1, <2>3
<1>10. CASE h.fn = "locks" \/ (h.fn = "verify" /\ ~unlocked)
  BY <1>10 DEF Manager!Handle
<1> QED
  BY <1>1, <1>4, <1>5, <1>6, <1>7, <1>8, <1>9, <1>10 DEF Manager!Fns

\* What the functions hs, in their order, make of s0.
Handling(f, s0, hs, unlocked, list) ==
    f = [i \in SUBSET (1..Len(hs)) |->
            IF i = {} THEN s0
            ELSE Manager!Handle(f[i \ {Greatest(i)}], hs[Greatest(i)], unlocked, list)]

AllHandled(s0, hs, unlocked, list) ==
    Manager!FoldLeft(LAMBDA t, h : Manager!Handle(t, h, unlocked, list), s0, hs)

\* All the functions connected, on one good answer.
LEMMA HandlersSettle ==
    ASSUME NEW a, NEW s0 \in Settled(a), NEW hs \in Seq(Manager!Handler), NEW unlocked,
           NEW list \in Manager!Lists
    PROVE  AllHandled(s0, hs, unlocked, list) \in Settled(a)
<1> DEFINE n == Len(hs)
           D == Settled(a)
           H == [x \in D \X (1..n) |-> Manager!Handle(x[1], hs[x[2]], unlocked, list)]
           t1 == AllHandled(s0, hs, unlocked, list)
           g == CHOOSE f : Handling(f, s0, hs, unlocked, list)
           G == [k \in 0..n |-> D]
<1>1. n \in Nat /\ DOMAIN hs = 1..n /\ \A k \in 1..n : hs[k] \in Manager!Handler
  OBVIOUS
<1>2. t1 = g[1..n]
  BY <1>1 DEF AllHandled, Manager!FoldLeft, Manager!MapThenFoldSet, Manager!Max, Handling,
              Greatest
<1> HIDE DEF t1, n
<1>3. \A d \in D, k \in 1..n : /\ H[<<d, k>>] = Manager!Handle(d, hs[k], unlocked, list)
                               /\ H[<<d, k>>] \in D
  BY <1>1, HandleSettles
<1> HIDE DEF H, D
<1>4. PICK f : FoldOver(f, n, s0, H)
  BY <1>1, FoldOverExists
<1>5. \A i \in SUBSET (1..n) : f[i] \in D
  BY <1>1, <1>3, <1>4, FoldOverStays DEF D
<1>6. Handling(f, s0, hs, unlocked, list)
  <2>1. ASSUME NEW i \in SUBSET (1..n), i # {}
        PROVE  H[<<f[i \ {Greatest(i)}], Greatest(i)>>] =
                 Manager!Handle(f[i \ {Greatest(i)}], hs[Greatest(i)], unlocked, list)
    BY <1>1, <1>3, <1>5, <2>1, GreatestOf
  <2> QED
    BY <1>4, <2>1 DEF Handling, FoldOver, n
<1>7. Handling(g, s0, hs, unlocked, list)
  BY <1>6
<1> HIDE DEF g
<1>8. g[{}] = s0
  BY <1>7 DEF Handling
<1>9. ASSUME NEW k \in 1..n, g[1..(k - 1)] \in G[k - 1] PROVE g[1..k] \in G[k]
  <2>1. g[1..k] = Manager!Handle(g[1..(k - 1)], hs[k], unlocked, list)
    <3> DEFINE i == 1..k
    <3>1. /\ i \in SUBSET (1..n) /\ i # {} /\ Greatest(i) = k
          /\ i \ {Greatest(i)} = 1..(k - 1)
      BY <1>1, Prefix
    <3> HIDE DEF i
    <3>2. g[i] = Manager!Handle(g[i \ {Greatest(i)}], hs[Greatest(i)], unlocked, list)
      BY <1>7, <3>1 DEF Handling, n
    <3> QED
      BY <3>1, <3>2 DEF i
  <2>2. g[1..(k - 1)] \in D /\ k \in 0..n
    BY <1>1, <1>9
  <2>3. hs[k] \in Manager!Handler
    BY <1>1
  <2> QED
    BY <2>1, <2>2, <2>3, HandleSettles DEF D
<1>10. g[{}] \in G[0]
  BY <1>1, <1>8 DEF D
<1> HIDE DEF G
<1>11. t1 \in G[n]
  BY <1>1, <1>2, <1>9, <1>10, FoldReaches
<1> QED
  <2>1. n \in 0..n
    BY <1>1
  <2> QED
    BY <1>11, <2>1 DEF G, t1, D

\* The functions of an answer, when the file follows.
LEMMA AnswersSettle ==
    ASSUME ManagerInv, NEW k \in DOMAIN calls, Manager!GoodAnswer(k)
    PROVE  ManagerInv' /\ Manager!Announces
<1> DEFINE s0 == [m |-> m, stored |-> stored, pinCache |-> pinCache, boundTo |-> boundTo,
                  next |-> <<>>]
           fn == calls[k]
           left == Manager!RemoveAt(calls, k)
<1>1. /\ m \in Manager!ManagerType /\ stored \in Manager!StoredType
      /\ pinCache \in SUBSET Manager!Indexes /\ boundTo \in Manager!Indexes
      /\ calls \in Seq(Manager!Fns) /\ handlers \in Seq(Manager!Handler)
      /\ session \in Manager!Sessions /\ Follows(m, stored)
  BY DEF ManagerInv, Manager!TypeOK
<1>2. s0 \in Settled(m.active)
  <2>1. <<>> \in Seq(Manager!Handler)
    OBVIOUS
  <2> QED
    BY <1>1, <2>1 DEF Settled, Answering
<1>3. Manager!RowsIn(fn) \subseteq Manager!Lists
  BY DEF Manager!RowsIn, Manager!Lists, Manager!Empty, Manager!Pins
<1>4. PICK list \in Manager!RowsIn(fn), unlocked \in {FALSE, fn = "verify"} :
        LET s == AllHandled(s0, handlers, unlocked, list)
        IN  /\ m' = s.m /\ stored' = s.stored /\ pinCache' = s.pinCache
            /\ boundTo' = s.boundTo /\ handlers' = s.next /\ UNCHANGED session
            /\ calls' = left \o [j \in DOMAIN s.next |-> "pull"]
  BY DEF Manager!GoodAnswer, AllHandled
<1> DEFINE s == AllHandled(s0, handlers, unlocked, list)
<1>5. /\ m' = s.m /\ stored' = s.stored /\ pinCache' = s.pinCache
      /\ boundTo' = s.boundTo /\ handlers' = s.next /\ session' = session
      /\ calls' = left \o [j \in DOMAIN s.next |-> "pull"]
  BY <1>4
<1>6. s \in Settled(m.active)
  <2>1. list \in Manager!Lists
    BY <1>3, <1>4
  <2> HIDE DEF s0, fn
  <2> QED
    BY <1>1, <1>2, <2>1, HandlersSettle
<1> HIDE DEF s
<1>7. /\ s.m \in Manager!ManagerType /\ s.stored \in Manager!StoredType
      /\ s.pinCache \in SUBSET Manager!Indexes /\ s.boundTo \in Manager!Indexes
      /\ s.next \in Seq(Manager!Handler) /\ Follows(s.m, s.stored)
      /\ s.m.active = m.active \/ s.boundTo = s.m.active
  BY <1>6 DEF Settled, Answering
<1>8. calls' \in Seq(Manager!Fns)
  <2>1. left \in Seq(Manager!Fns)
    BY <1>1 DEF Manager!RemoveAt
  <2>2. [j \in DOMAIN s.next |-> "pull"] \in Seq(Manager!Fns)
    BY <1>7 DEF Manager!Fns
  <2> HIDE DEF left
  <2> QED
    BY <1>5, <2>1, <2>2
<1>9. ManagerInv'
  BY <1>1, <1>5, <1>7, <1>8 DEF ManagerInv, Manager!TypeOK, Follows
<1> QED
  BY <1>5, <1>7, <1>9 DEF Manager!Announces

\* A request sent is typed.
LEMMA SendsTyped ==
    ASSUME ManagerInv, NEW fn \in Manager!Fns, NEW i \in Manager!Indexes, Manager!Sends(fn, i)
    PROVE  calls' \in Seq(Manager!Fns) /\ handlers' \in Seq(Manager!Handler)
<1>1. calls \in Seq(Manager!Fns) /\ handlers \in Seq(Manager!Handler)
  BY DEF ManagerInv, Manager!TypeOK
<1>2. [fn |-> fn, index |-> i] \in Manager!Handler
  BY DEF Manager!Handler
<1>3. calls' = Append(calls, fn) /\ handlers' = Append(handlers, [fn |-> fn, index |-> i])
  BY DEF Manager!Sends
<1> QED
  BY <1>1, <1>2, <1>3

\* The pulls of a session that starts are.
LEMMA StartsTyped ==
    ASSUME ManagerInv, Manager!StartUp
    PROVE  calls' \in Seq(Manager!Fns) /\ handlers' \in Seq(Manager!Handler)
<1> DEFINE fns == <<"pull", "locks">>
           new == [k \in DOMAIN fns |-> [fn |-> fns[k], index |-> 1]]
<1>1. /\ calls \in Seq(Manager!Fns) /\ handlers \in Seq(Manager!Handler)
      /\ fns \in Seq(Manager!Fns)
  BY DEF ManagerInv, Manager!TypeOK, Manager!Fns
<1>2. calls' = calls \o fns /\ handlers' = handlers \o new
  BY DEF Manager!StartUp
<1> HIDE DEF fns
<1>3. new \in Seq(Manager!Handler)
  <2>1. Len(fns) \in Nat /\ DOMAIN fns = 1..Len(fns)
    BY <1>1
  <2>2. \A k \in DOMAIN fns : [fn |-> fns[k], index |-> 1] \in Manager!Handler
    BY <1>1, OneIsAnIndex DEF Manager!Handler
  <2>3. new \in [1..Len(fns) -> Manager!Handler]
    BY <2>1, <2>2
  <2> HIDE DEF new
  <2> QED
    BY <2>1, <2>3
<1> HIDE DEF new
<1> QED
  BY <1>1, <1>2, <1>3

\* setAuthUserId, of any account.
LEMMA BindsFollow ==
    ASSUME ManagerInv, NEW who \in Users \cup {None}, Manager!Binds(who)
    PROVE  m' \in Manager!ManagerType /\ Follows(m', stored)
<1>1. /\ m \in Manager!ManagerType /\ stored \in Manager!StoredType
      /\ Follows(m, stored) /\ m.verified \in SUBSET Manager!Indexes
  BY DEF ManagerInv, Manager!TypeOK, Manager!ManagerType
<1>2. CASE who = m.user
  BY <1>1, <1>2 DEF Manager!Binds
<1>3. CASE who # m.user /\ who = None
  <2> DEFINE member == [user |-> None, list |-> Manager!Empty, active |-> 1, verified |-> {}]
  <2>1. m' = member
    BY <1>3 DEF Manager!Binds
  <2>2. Manager!Empty \in Manager!Lists
    BY DEF Manager!Empty, Manager!Lists, Manager!Pins
  <2>3. member \in Manager!ManagerType /\ member.user = None
    BY <2>2, OneIsAnIndex DEF Manager!ManagerType
  <2> QED
    BY <2>1, <2>3 DEF Follows
<1>4. CASE who # m.user /\ who # None
  <2>1. m' = Manager!Loaded(who, stored, m.verified)
    BY <1>4 DEF Manager!Binds
  <2> QED
    BY <1>1, <2>1, LoadsFollow
<1> QED
  BY <1>2, <1>3, <1>4

\* The session and the program.
LEMMA SessionFollows ==
    ASSUME ManagerInv,
           \/ \E s \in Manager!Sessions : Manager!SessionChange(s)
           \/ \E who \in Users : Manager!Regrant(who)
           \/ Manager!Restart
    PROVE  ManagerInv' /\ Manager!Announces
<1>1. /\ m \in Manager!ManagerType /\ stored \in Manager!StoredType
      /\ pinCache \in SUBSET Manager!Indexes /\ boundTo \in Manager!Indexes
      /\ calls \in Seq(Manager!Fns) /\ handlers \in Seq(Manager!Handler)
      /\ session \in Manager!Sessions /\ Follows(m, stored)
  BY DEF ManagerInv, Manager!TypeOK
<1>2. ASSUME NEW s \in Manager!Sessions, Manager!SessionChange(s)
      PROVE  ManagerInv' /\ Manager!Announces
  <2>1. calls' \in Seq(Manager!Fns) /\ handlers' \in Seq(Manager!Handler)
    BY <1>1, <1>2, StartsTyped DEF Manager!SessionChange
  <2>2. session' = s /\ Manager!Binds(s.user) /\ UNCHANGED <<stored, pinCache, boundTo>>
    BY <1>2 DEF Manager!SessionChange
  <2>3. s.user \in Users \cup {None}
    BY DEF Manager!Sessions
  <2>4. m' \in Manager!ManagerType /\ Follows(m', stored)
    BY <2>2, <2>3, BindsFollow
  <2>5. ManagerInv'
    BY <1>1, <2>1, <2>2, <2>4 DEF ManagerInv, Manager!TypeOK, Follows
  <2> QED
    BY <1>2, <2>5 DEF Manager!Announces
<1>3. ASSUME NEW who \in Users, Manager!Regrant(who)
      PROVE  ManagerInv' /\ Manager!Announces
  <2>1. session' \in Manager!Sessions
    BY <1>1, <1>3, ServicesAssumption DEF Manager!Regrant, Manager!HasToken, Manager!Sessions
  <2>2. UNCHANGED <<m, stored, pinCache, boundTo, calls, handlers>>
    BY <1>3 DEF Manager!Regrant
  <2> QED
    BY <1>1, <2>1, <2>2 DEF ManagerInv, Manager!TypeOK, Follows, Manager!Announces
<1>4. ASSUME Manager!Restart PROVE ManagerInv' /\ Manager!Announces
  <2>1. calls' \in Seq(Manager!Fns) /\ handlers' \in Seq(Manager!Handler)
    <3>1. <<>> \in Seq(Manager!Fns) /\ <<>> \in Seq(Manager!Handler)
      OBVIOUS
    <3> QED
      BY <1>4, <3>1 DEF Manager!Restart
  <2>2. boundTo' = 1 /\ UNCHANGED <<stored, pinCache>>
        /\ m' = Manager!Loaded(session'.user, stored, {})
    BY <1>4 DEF Manager!Restart
  <2>3. session' \in Manager!Sessions /\ session'.user \in Users \cup {None}
    BY <1>1, <1>4 DEF Manager!Restart, Manager!Sessions, Manager!NoSession
  <2>4. m' \in Manager!ManagerType /\ Follows(m', stored)
    <3>1. {} \in SUBSET Manager!Indexes
      OBVIOUS
    <3> QED
      BY <1>1, <2>2, <2>3, <3>1, LoadsFollow
  <2>5. ManagerInv'
    BY <1>1, <2>1, <2>2, <2>3, <2>4, OneIsAnIndex DEF ManagerInv, Manager!TypeOK, Follows
  <2> QED
    BY <1>4, <2>5 DEF Manager!Announces
<1> QED
  BY <1>2, <1>3, <1>4

\* The user's calls that are no edit.
LEMMA CallsFollow ==
    ASSUME ManagerInv, NEW i \in Manager!Indexes,
           \/ Manager!SwitchToProfile(i) \/ Manager!VerifyPin(i)
           \/ \E fn \in {"setPin", "clearPin"} : Manager!ChangePin(i, fn)
    PROVE  ManagerInv' /\ Manager!Announces
<1>1. /\ m \in Manager!ManagerType /\ stored \in Manager!StoredType
      /\ pinCache \in SUBSET Manager!Indexes /\ boundTo \in Manager!Indexes
      /\ calls \in Seq(Manager!Fns) /\ handlers \in Seq(Manager!Handler)
      /\ session \in Manager!Sessions /\ Follows(m, stored)
      /\ m.verified \in SUBSET Manager!Indexes
  BY DEF ManagerInv, Manager!TypeOK, Manager!ManagerType
<1>2. CASE Manager!SwitchToProfile(i)
  <2>1. /\ m' = [m EXCEPT !.active = i] /\ stored' = Manager!Written(m', stored)
        /\ boundTo' = i /\ UNCHANGED <<session, pinCache, calls, handlers>>
    BY <1>2 DEF Manager!SwitchToProfile
  <2>2. m' \in Manager!ManagerType /\ m'.active = i
    BY <1>1, <2>1 DEF Manager!ManagerType
  <2>3. stored' \in Manager!StoredType /\ Follows(m', stored')
    BY <1>1, <2>1, <2>2, WritesFollow
  <2>4. ManagerInv'
    BY <1>1, <2>1, <2>2, <2>3 DEF ManagerInv, Manager!TypeOK, Follows
  <2> QED
    BY <2>1, <2>2, <2>4 DEF Manager!Announces
<1>3. CASE Manager!VerifyPin(i)
  <2>1. UNCHANGED <<session, stored, boundTo>>
    BY <1>3 DEF Manager!VerifyPin
  <2>2. CASE Manager!Sends("verify", i) /\ UNCHANGED <<m, pinCache>>
    <3>1. "verify" \in Manager!Fns
      BY DEF Manager!Fns
    <3>2. calls' \in Seq(Manager!Fns) /\ handlers' \in Seq(Manager!Handler)
      BY <2>2, <3>1, SendsTyped
    <3>3. ManagerInv'
      BY <1>1, <2>1, <2>2, <3>2 DEF ManagerInv, Manager!TypeOK, Follows
    <3> QED
      BY <2>2, <3>3 DEF Manager!Announces
  <2>3. CASE m' = [m EXCEPT !.verified = @ \cup {i}] /\ UNCHANGED <<pinCache, calls, handlers>>
    <3>1. m' \in Manager!ManagerType /\ m'.active = m.active /\ m'.user = m.user
          /\ m'.list = m.list
      BY <1>1, <2>3 DEF Manager!ManagerType
    <3>2. ManagerInv'
      BY <1>1, <2>1, <2>3, <3>1 DEF ManagerInv, Manager!TypeOK, Follows
    <3> QED
      BY <3>1, <3>2 DEF Manager!Announces
  <2>4. CASE pinCache' = pinCache \ {i} /\ UNCHANGED <<m, calls, handlers>>
    BY <1>1, <2>1, <2>4 DEF ManagerInv, Manager!TypeOK, Follows, Manager!Announces
  <2> QED
    BY <1>3, <2>2, <2>3, <2>4 DEF Manager!VerifyPin
<1>4. ASSUME NEW fn \in {"setPin", "clearPin"}, Manager!ChangePin(i, fn)
      PROVE  ManagerInv' /\ Manager!Announces
  <2>1. fn \in Manager!Fns
    BY <1>4 DEF Manager!Fns
  <2>2. calls' \in Seq(Manager!Fns) /\ handlers' \in Seq(Manager!Handler)
        /\ UNCHANGED <<session, m, stored, pinCache, boundTo>>
    BY <1>4, <2>1, SendsTyped DEF Manager!ChangePin
  <2>3. ManagerInv'
    BY <1>1, <2>2 DEF ManagerInv, Manager!TypeOK, Follows
  <2> QED
    BY <2>2, <2>3 DEF Manager!Announces
<1> QED
  BY <1>2, <1>3, <1>4

\* An edit of the rows is pushed or written.
LEMMA EditFollows ==
    ASSUME ManagerInv, NEW list \in Manager!Lists, Manager!Edit(list)
    PROVE  ManagerInv' /\ Manager!Announces
<1>1. /\ m \in Manager!ManagerType /\ stored \in Manager!StoredType
      /\ pinCache \in SUBSET Manager!Indexes /\ boundTo \in Manager!Indexes
      /\ calls \in Seq(Manager!Fns) /\ handlers \in Seq(Manager!Handler)
      /\ session \in Manager!Sessions /\ Follows(m, stored)
  BY DEF ManagerInv, Manager!TypeOK
<1>2. UNCHANGED <<session, pinCache, boundTo>>
  BY DEF Manager!Edit
<1>3. CASE Manager!HasToken
  <2>1. "push" \in Manager!Fns
    BY DEF Manager!Fns
  <2>2. calls' \in Seq(Manager!Fns) /\ handlers' \in Seq(Manager!Handler)
        /\ UNCHANGED <<m, stored>>
    BY <1>3, <2>1, SendsTyped, OneIsAnIndex DEF Manager!Edit
  <2>3. ManagerInv'
    BY <1>1, <1>2, <2>2 DEF ManagerInv, Manager!TypeOK, Follows
  <2> QED
    BY <2>2, <2>3 DEF Manager!Announces
<1>4. CASE ~Manager!HasToken
  <2>1. /\ m' = [m EXCEPT !.list = list] /\ stored' = Manager!Written(m', stored)
        /\ UNCHANGED <<calls, handlers>>
    BY <1>4 DEF Manager!Edit
  <2>2. m' \in Manager!ManagerType /\ m'.active = m.active
    BY <1>1, <2>1 DEF Manager!ManagerType
  <2>3. stored' \in Manager!StoredType /\ Follows(m', stored')
    BY <1>1, <2>1, <2>2, WritesFollow
  <2>4. ManagerInv'
    BY <1>1, <1>2, <2>1, <2>2, <2>3 DEF ManagerInv, Manager!TypeOK, Follows
  <2> QED
    BY <2>2, <2>4 DEF Manager!Announces
<1> QED
  BY <1>3, <1>4

\* The rows that createProfile and the edits of a row want.
LEMMA EditsFollow ==
    ASSUME ManagerInv,
           \/ Manager!CreateProfile
           \/ \E i \in Manager!Indexes : Manager!EditProfile(i)
    PROVE  ManagerInv' /\ Manager!Announces
<1>1. m.list \in Manager!Lists
  BY DEF ManagerInv, Manager!TypeOK, Manager!ManagerType
<1>2. \A i \in Manager!Indexes : [m.list EXCEPT ![i] = "open"] \in Manager!Lists
  BY <1>1 DEF Manager!Lists, Manager!Pins
<1>3. PICK list \in Manager!Lists : Manager!Edit(list)
  BY <1>1, <1>2 DEF Manager!CreateProfile, Manager!EditProfile
<1> QED
  BY <1>3, EditFollows

\* deleteProfile.
LEMMA DeleteFollows ==
    ASSUME ManagerInv, NEW i \in Manager!Indexes, Manager!DeleteProfile(i)
    PROVE  ManagerInv' /\ Manager!Announces
<1> DEFINE forgot == [m EXCEPT !.verified = @ \ {i}]
           gone == Manager!Removed(forgot, i)
<1>1. /\ m \in Manager!ManagerType /\ stored \in Manager!StoredType
      /\ pinCache \in SUBSET Manager!Indexes /\ boundTo \in Manager!Indexes
      /\ calls \in Seq(Manager!Fns) /\ handlers \in Seq(Manager!Handler)
      /\ session \in Manager!Sessions /\ Follows(m, stored)
  BY DEF ManagerInv, Manager!TypeOK
<1>2. forgot \in Manager!ManagerType /\ forgot.active = m.active /\ forgot.user = m.user
      /\ forgot.list = m.list
  BY <1>1 DEF Manager!ManagerType
<1> HIDE DEF forgot
<1>3. gone \in Manager!ManagerType
      /\ gone.active = IF m.active = i THEN 1 ELSE m.active
  BY <1>2, OneIsAnIndex DEF Manager!Removed, Manager!ManagerType, Manager!Lists, Manager!Pins
<1> HIDE DEF gone
<1>4. UNCHANGED session /\ pinCache' = pinCache \ {i}
  BY DEF Manager!DeleteProfile
<1>5. CASE Manager!HasToken
  <2>1. m' = forgot /\ Manager!Sends("delete", i) /\ UNCHANGED <<stored, boundTo>>
    BY <1>5 DEF Manager!DeleteProfile, forgot
  <2>2. "delete" \in Manager!Fns
    BY DEF Manager!Fns
  <2>3. calls' \in Seq(Manager!Fns) /\ handlers' \in Seq(Manager!Handler)
    BY <2>1, <2>2, SendsTyped
  <2>4. ManagerInv'
    BY <1>1, <1>2, <1>4, <2>1, <2>3 DEF ManagerInv, Manager!TypeOK, Follows
  <2> QED
    BY <1>2, <2>1, <2>4 DEF Manager!Announces
<1>6. CASE ~Manager!HasToken
  <2>1. /\ m' = gone /\ stored' = Manager!Written(m', stored)
        /\ boundTo' = IF m.active = i THEN 1 ELSE boundTo
        /\ UNCHANGED <<calls, handlers>>
    BY <1>6 DEF Manager!DeleteProfile, forgot, gone
  <2>2. stored' \in Manager!StoredType /\ Follows(m', stored')
    BY <1>1, <1>3, <2>1, WritesFollow
  <2>3. boundTo' \in Manager!Indexes
    BY <1>1, <2>1, OneIsAnIndex
  <2>4. ManagerInv'
    BY <1>1, <1>3, <1>4, <2>1, <2>2, <2>3 DEF ManagerInv, Manager!TypeOK, Follows
  <2> QED
    BY <1>3, <2>1, <2>4 DEF Manager!Announces
<1> QED
  BY <1>5, <1>6

\* A failure wakes every function for nothing.
LEMMA FailuresFollow ==
    ASSUME ManagerInv, NEW k \in DOMAIN calls, Manager!BadAnswer(k)
    PROVE  ManagerInv' /\ Manager!Announces
<1>1. calls \in Seq(Manager!Fns)
  BY DEF ManagerInv, Manager!TypeOK
<1>2. calls' \in Seq(Manager!Fns)
  <2>1. Manager!RemoveAt(calls, k) \in Seq(Manager!Fns)
    BY <1>1 DEF Manager!RemoveAt
  <2> QED
    BY <2>1 DEF Manager!BadAnswer
<1>3. handlers' \in Seq(Manager!Handler) /\ UNCHANGED <<session, m, stored, pinCache, boundTo>>
  <2>1. <<>> \in Seq(Manager!Handler)
    OBVIOUS
  <2> QED
    BY <2>1 DEF Manager!BadAnswer
<1>4. ManagerInv'
  BY <1>2, <1>3 DEF ManagerInv, Manager!TypeOK, Follows
<1> QED
  BY <1>3, <1>4 DEF Manager!Announces

\* Every step of the profiles.
LEMMA ManagerStep == ASSUME ManagerInv, Manager!Next PROVE ManagerInv' /\ Manager!Announces
BY CallsFollow, DeleteFollows, EditsFollow, SessionFollows, AnswersSettle, FailuresFollow
   DEF Manager!Next, Manager!User

\* The profiles run.
LEMMA ManagerIsInvariant == Spec => [](which = "profiles" => ManagerInv)
<1> DEFINE I == which = "profiles" => ManagerInv
<1>1. Init => I
  <2> SUFFICES ASSUME Init, which = "profiles" PROVE ManagerInv
    OBVIOUS
  <2>1. Manager!Init
    BY DEF Init
  <2>2. Manager!Empty \in Manager!Lists
    BY DEF Manager!Empty, Manager!Lists, Manager!Pins
  <2>3. stored \in Manager!StoredType /\ m = Manager!Loaded(None, stored, {})
    BY <2>1, <2>2, OneIsAnIndex DEF Manager!Init, Manager!StoredType
  <2>4. m \in Manager!ManagerType /\ Follows(m, stored)
    <3>1. {} \in SUBSET Manager!Indexes /\ None \in Users \cup {None}
      OBVIOUS
    <3> QED
      BY <2>3, <3>1, LoadsFollow
  <2>5. <<>> \in Seq(Manager!Fns) /\ <<>> \in Seq(Manager!Handler)
    OBVIOUS
  <2> QED
    BY <2>1, <2>3, <2>4, <2>5, OneIsAnIndex
       DEF Manager!Init, ManagerInv, Manager!TypeOK, Manager!Sessions, Manager!NoSession
<1>2. I /\ [Next]_vars => I'
  <2> SUFFICES ASSUME I, [Next]_vars, which' = "profiles" PROVE ManagerInv'
    OBVIOUS
  <2>1. which = "profiles" /\ ManagerInv
    BY DEF Next, vars
  <2>2. CASE Next
    <3>1. Manager!Next
      BY <2>1, <2>2 DEF Next
    <3> QED
      BY <2>1, <3>1, ManagerStep
  <2>3. CASE UNCHANGED vars
    BY <2>1, <2>3 DEF vars, profileVars, ManagerInv, Manager!TypeOK, Follows
  <2> QED
    BY <2>2, <2>3
<1> QED
  BY <1>1, <1>2, PTL DEF Spec

\* ProfileManager: the file of the manager's account holds what the manager shows,
\* with or without a token, whatever functions an answer that names no request
\* makes run, for any accounts and any number of profiles and open requests.
THEOREM FileIsWhatIsShown == Spec => []FileFollowsManager
<1>1. (which = "profiles" => ManagerInv) => FileFollowsManager
  BY DEF FileFollowsManager, Manager!FileFollowsManager, ManagerInv, Follows
<1> QED
  BY <1>1, ManagerIsInvariant, PTL

\* ProfileManager: a move of the active profile reaches the objects that keep a
\* profile's state, however many functions of one answer move it, unless the
\* session changes or the program restarts.
THEOREM MovesReachTheObjects == Spec => MovesAreAnnounced
<1>1. (which = "profiles" => ManagerInv) /\ [Next]_vars =>
        [which = "profiles" => Manager!Announces]_vars
  <2> SUFFICES ASSUME which = "profiles", ManagerInv, Next PROVE Manager!Announces
    OBVIOUS
  <2>1. Manager!Next
    BY DEF Next
  <2> QED
    BY <2>1, ManagerStep
<1> QED
  BY <1>1, ManagerIsInvariant, PTL DEF Spec, MovesAreAnnounced

-----------------------------------------------------------------------------
(* AddonRegistry and AddonsSyncController. *)

\* The requests of the controller; a push carries any number of rows.
AddonRequests == {Addons!NoRequest} \cup [call : {"pull"}, p : Profiles]
                   \cup [call : {"push"}, p : Profiles, rows : Seq(Addons!ServerRow)]

\* Every installed url has its row; the lists are as long as they like.
AddonsInv ==
    /\ signedIn \in BOOLEAN /\ profile \in Profiles
    /\ installed \in [Profiles -> Seq(Urls)]
    /\ enabledStates \in [Profiles -> SUBSET Urls]
    /\ manifests \in [Urls -> {"none", "good", "bad"}]
    /\ rows \in Seq(Addons!Row) /\ fetching \in SUBSET Urls /\ adding \in Seq(Urls)
    /\ serverRows \in [Profiles -> Seq(Addons!ServerRow)]
    /\ addonsRequest \in AddonRequests
    /\ addonsDebounce \in BOOLEAN
    /\ Addons!InstalledIsShown

\* What a list holds once u has been taken out.
Others(urls, u) == {t \in Seq(Urls) : \A j \in DOMAIN t :
                        t[j] # u /\ \E k \in DOMAIN urls : t[j] = urls[k]}

\* One url of the list, kept unless it is u.
Keeping(f, urls, u) ==
    f = [i \in SUBSET (1..Len(urls)) |->
            IF i = {} THEN <<>>
            ELSE IF urls[Greatest(i)] = u THEN f[i \ {Greatest(i)}]
                 ELSE Append(f[i \ {Greatest(i)}], urls[Greatest(i)])]

\* QStringList::removeAll takes u out and puts nothing in.
LEMMA OthersAreLeft ==
    ASSUME NEW urls \in Seq(Urls), NEW u
    PROVE  Addons!RemoveAll(urls, u) \in Others(urls, u)
<1> DEFINE n == Len(urls)
           D == Others(urls, u)
           H == [x \in D \X (1..n) |-> IF urls[x[2]] = u THEN x[1]
                                       ELSE Append(x[1], urls[x[2]])]
           t1 == Addons!RemoveAll(urls, u)
           g == CHOOSE f : Keeping(f, urls, u)
           G == [k \in 0..n |-> D]
<1>1. n \in Nat /\ DOMAIN urls = 1..n /\ \A k \in 1..n : urls[k] \in Urls
  OBVIOUS
<1>2. t1 = g[1..n]
  BY <1>1 DEF Addons!RemoveAll, Addons!FoldLeft, Addons!MapThenFoldSet, Addons!Max, Keeping,
              Greatest
<1>3. <<>> \in D
  BY DEF Others
<1>4. ASSUME NEW d \in D, NEW k \in 1..n
      PROVE  (IF urls[k] = u THEN d ELSE Append(d, urls[k])) \in D
  <2>1. CASE urls[k] = u
    BY <2>1
  <2>2. CASE urls[k] # u
    <3> DEFINE e == Append(d, urls[k])
    <3>1. d \in Seq(Urls) /\ \A j \in DOMAIN d : d[j] # u /\ \E i \in DOMAIN urls : d[j] = urls[i]
      BY DEF Others
    <3>2. /\ e \in Seq(Urls) /\ DOMAIN e = 1..(Len(d) + 1) /\ Len(d) \in Nat
          /\ DOMAIN d = 1..Len(d) /\ e[Len(d) + 1] = urls[k]
          /\ \A j \in 1..Len(d) : e[j] = d[j]
      BY <1>1, <3>1
    <3> HIDE DEF e
    <3>3. ASSUME NEW j \in DOMAIN e PROVE e[j] # u /\ \E i \in DOMAIN urls : e[j] = urls[i]
      <4>1. CASE j = Len(d) + 1
        BY <1>1, <2>2, <3>2, <4>1
      <4>2. CASE j # Len(d) + 1
        <5>1. j \in DOMAIN d /\ e[j] = d[j]
          BY <3>2, <4>2
        <5> QED
          BY <3>1, <5>1
      <4> QED
        BY <4>1, <4>2
    <3>4. e \in D
      BY <3>2, <3>3 DEF Others
    <3> QED
      BY <2>2, <3>4 DEF e
  <2> QED
    BY <2>1, <2>2
<1> HIDE DEF t1, n, D
<1>5. \A d \in D, k \in 1..n :
        /\ H[<<d, k>>] = IF urls[k] = u THEN d ELSE Append(d, urls[k])
        /\ H[<<d, k>>] \in D
  BY <1>4
<1> HIDE DEF H
<1>6. PICK f : FoldOver(f, n, <<>>, H)
  BY <1>1, FoldOverExists
<1>7. \A i \in SUBSET (1..n) : f[i] \in D
  BY <1>1, <1>3, <1>5, <1>6, FoldOverStays
<1>8. Keeping(f, urls, u)
  <2>1. ASSUME NEW i \in SUBSET (1..n), i # {}
        PROVE  H[<<f[i \ {Greatest(i)}], Greatest(i)>>] =
                 IF urls[Greatest(i)] = u THEN f[i \ {Greatest(i)}]
                 ELSE Append(f[i \ {Greatest(i)}], urls[Greatest(i)])
    BY <1>1, <1>5, <1>7, <2>1, GreatestOf
  <2> QED
    BY <1>6, <2>1 DEF Keeping, FoldOver, n
<1>9. Keeping(g, urls, u)
  BY <1>8
<1> HIDE DEF g
<1>10. g[{}] = <<>>
  BY <1>9 DEF Keeping
<1>11. ASSUME NEW k \in 1..n, g[1..(k - 1)] \in G[k - 1] PROVE g[1..k] \in G[k]
  <2>1. g[1..k] = IF urls[k] = u THEN g[1..(k - 1)] ELSE Append(g[1..(k - 1)], urls[k])
    <3> DEFINE i == 1..k
    <3>1. /\ i \in SUBSET (1..n) /\ i # {} /\ Greatest(i) = k
          /\ i \ {Greatest(i)} = 1..(k - 1)
      BY <1>1, Prefix
    <3> HIDE DEF i
    <3>2. g[i] = IF urls[Greatest(i)] = u THEN g[i \ {Greatest(i)}]
                 ELSE Append(g[i \ {Greatest(i)}], urls[Greatest(i)])
      BY <1>9, <3>1 DEF Keeping, n
    <3> QED
      BY <3>1, <3>2 DEF i
  <2>2. g[1..(k - 1)] \in D /\ k \in 0..n
    BY <1>1, <1>11
  <2> QED
    BY <1>4, <2>1, <2>2
<1>12. g[{}] \in G[0]
  BY <1>1, <1>3, <1>10
<1> HIDE DEF G
<1>13. t1 \in G[n]
  BY <1>1, <1>2, <1>11, <1>12, FoldReaches
<1> QED
  <2>1. n \in 0..n
    BY <1>1
  <2> QED
    BY <1>13, <2>1 DEF G, t1, D

\* Fewer rows or urls: what is at i has gone, the others are there.
LEMMA WithoutTyped ==
    ASSUME NEW S, NEW s \in Seq(S), NEW i \in DOMAIN s
    PROVE  /\ Addons!Without(s, i) \in Seq(S)
           /\ \A j \in DOMAIN s : j # i =>
                 \E k \in DOMAIN Addons!Without(s, i) : Addons!Without(s, i)[k] = s[j]
<1> DEFINE a == SubSeq(s, 1, i - 1)
           b == SubSeq(s, i + 1, Len(s))
           w == a \o b
<1>1. /\ a \in Seq(S) /\ Len(a) = i - 1 /\ \A n \in 1..(i - 1) : a[n] = s[n]
  OBVIOUS
<1>2. /\ b \in Seq(S) /\ Len(b) = Len(s) - i /\ \A n \in 1..(Len(s) - i) : b[n] = s[i + n]
  OBVIOUS
<1>3. i \in 1..Len(s) /\ Len(s) \in Nat /\ DOMAIN s = 1..Len(s)
  OBVIOUS
<1> HIDE DEF a, b
<1>4. /\ w \in Seq(S) /\ DOMAIN w = 1..(Len(a) + Len(b))
      /\ \A n \in 1..Len(a) : w[n] = a[n]
      /\ \A n \in (Len(a) + 1)..(Len(a) + Len(b)) : w[n] = b[n - Len(a)]
  <2>1. a \in Seq(S) /\ b \in Seq(S) /\ Len(a) \in Nat /\ Len(b) \in Nat
    BY <1>1, <1>2
  <2>2. w \in Seq(S)
    BY <2>1
  <2>3. Len(w) = Len(a) + Len(b) /\ DOMAIN w = 1..Len(w)
    BY <2>1
  <2>4. \A n \in 1..(Len(a) + Len(b)) : w[n] = IF n <= Len(a) THEN a[n] ELSE b[n - Len(a)]
    BY <2>1
  <2> HIDE DEF w
  <2>5. \A n \in 1..Len(a) : n \in 1..(Len(a) + Len(b)) /\ n <= Len(a)
    BY <2>1
  <2>6. \A n \in (Len(a) + 1)..(Len(a) + Len(b)) : n \in 1..(Len(a) + Len(b)) /\ ~(n <= Len(a))
    BY <2>1
  <2> QED
    BY <2>2, <2>3, <2>4, <2>5, <2>6
<1>5. Addons!Without(s, i) = w
  BY DEF Addons!Without, a, b
<1> HIDE DEF w
<1>6. ASSUME NEW j \in DOMAIN s, j # i PROVE \E k \in DOMAIN w : w[k] = s[j]
  <2>1. CASE j < i
    <3>1. j \in 1..(i - 1) /\ j \in 1..Len(a) /\ j \in DOMAIN w
      BY <1>1, <1>2, <1>3, <1>4, <1>6, <2>1
    <3> QED
      BY <1>1, <1>4, <3>1
  <2>2. CASE j > i
    <3> DEFINE k == j - 1
    <3>1. i \in Nat /\ j \in Nat /\ Len(s) \in Nat /\ i >= 1 /\ i < j /\ j <= Len(s)
      BY <1>3, <1>6, <2>2
    <3>2. Len(a) = i - 1 /\ Len(b) = Len(s) - i
      BY <1>1, <1>2
    <3>3. j - i \in 1..(Len(s) - i) /\ i + (j - i) = j
      BY <3>1
    <3>4. k \in (Len(a) + 1)..(Len(a) + Len(b)) /\ k - Len(a) = j - i
      BY <3>1, <3>2
    <3>5. k \in DOMAIN w
      BY <1>4, <3>1, <3>2
    <3>6. w[k] = s[j]
      BY <1>2, <1>4, <3>3, <3>4
    <3> QED
      BY <3>5, <3>6
  <2> QED
    BY <1>3, <1>6, <2>1, <2>2
<1> QED
  BY <1>4, <1>5, <1>6

\* Every url of urls has a row in the list.
Shown(urls, list) == \A i \in DOMAIN urls : urls[i] \in Addons!UrlsOf(list)

\* load and applyServerRows: every url of the list has its row.
LEMMA RowsTyped ==
    ASSUME NEW urls \in Seq(Urls), NEW off, manifests \in [Urls -> {"none", "good", "bad"}]
    PROVE  /\ Addons!RowsFor(urls, off) \in Seq(Addons!Row)
           /\ Shown(urls, Addons!RowsFor(urls, off))
           /\ Addons!Uncached(urls) \in SUBSET Urls
<1> DEFINE list == Addons!RowsFor(urls, off)
<1>1. Len(urls) \in Nat /\ DOMAIN urls = 1..Len(urls) /\ \A i \in DOMAIN urls : urls[i] \in Urls
  OBVIOUS
<1>2. list = [i \in 1..Len(urls) |-> [url |-> urls[i], known |-> manifests[urls[i]] = "good",
                                       enabled |-> urls[i] \notin off]]
  BY <1>1 DEF Addons!RowsFor
<1>3. \A i \in 1..Len(urls) : list[i] \in Addons!Row /\ list[i].url = urls[i]
  BY <1>1, <1>2 DEF Addons!Row
<1>4. DOMAIN list = 1..Len(urls) /\ list = [i \in 1..Len(urls) |-> list[i]]
  BY <1>2
<1> HIDE DEF list
<1>5. list \in Seq(Addons!Row)
  BY <1>1, <1>3, <1>4
<1>6. Shown(urls, list)
  BY <1>1, <1>3, <1>4 DEF Shown, Addons!UrlsOf
<1>7. Addons!Uncached(urls) \in SUBSET Urls
  BY <1>1 DEF Addons!Uncached
<1> QED
  BY <1>5, <1>6, <1>7 DEF list

\* A row that stays with the same url shows it.
LEMMA RowReplaced ==
    ASSUME NEW list \in Seq(Addons!Row), NEW i \in DOMAIN list, NEW row \in Addons!Row,
           row.url = list[i].url
    PROVE  /\ [list EXCEPT ![i] = row] \in Seq(Addons!Row)
           /\ Addons!UrlsOf([list EXCEPT ![i] = row]) = Addons!UrlsOf(list)
<1> DEFINE d == [list EXCEPT ![i] = row]
<1>1. d \in Seq(Addons!Row) /\ DOMAIN d = DOMAIN list
  OBVIOUS
<1>2. \A j \in DOMAIN list : d[j].url = list[j].url
  OBVIOUS
<1> HIDE DEF d
<1>3. Addons!UrlsOf(d) = Addons!UrlsOf(list)
  BY <1>1, <1>2 DEF Addons!UrlsOf
<1> QED
  BY <1>1, <1>3 DEF d

\* An addon that is added at the end of both lists.
LEMMA RowAppended ==
    ASSUME NEW list \in Seq(Addons!Row), NEW row \in Addons!Row
    PROVE  /\ Append(list, row) \in Seq(Addons!Row)
           /\ row.url \in Addons!UrlsOf(Append(list, row))
           /\ Addons!UrlsOf(list) \subseteq Addons!UrlsOf(Append(list, row))
<1> DEFINE d == Append(list, row)
<1>1. /\ d \in Seq(Addons!Row) /\ Len(list) \in Nat /\ DOMAIN list = 1..Len(list)
      /\ DOMAIN d = 1..(Len(list) + 1) /\ d[Len(list) + 1] = row
      /\ \A j \in DOMAIN list : j \in DOMAIN d /\ d[j] = list[j]
  OBVIOUS
<1> HIDE DEF d
<1>2. Len(list) + 1 \in DOMAIN d
  BY <1>1
<1>3. row.url \in Addons!UrlsOf(d)
  BY <1>1, <1>2 DEF Addons!UrlsOf
<1>4. Addons!UrlsOf(list) \subseteq Addons!UrlsOf(d)
  BY <1>1 DEF Addons!UrlsOf
<1> QED
  BY <1>1, <1>3, <1>4 DEF d

\* fetchManifest's answer names a url that has its row, or none.
LEMMA AddonFetched ==
    ASSUME AddonsInv, NEW u \in Urls, NEW answer \in {"none", "good", "bad"},
           Addons!FetchReply(u, answer)
    PROVE  AddonsInv'
<1> DEFINE hits == {i \in DOMAIN rows : rows[i].url = u}
           first == CHOOSE j \in hits : \A k \in hits : j <= k
           row == [url |-> u, known |-> TRUE, enabled |-> TRUE]
<1>1. rows' \in Seq(Addons!Row) /\ Addons!UrlsOf(rows') = Addons!UrlsOf(rows)
  <2>1. CASE answer = "none" \/ answer = "bad" \/ hits = {}
    BY <2>1 DEF Addons!FetchReply, AddonsInv
  <2>2. CASE answer = "good" /\ hits # {}
    <3>1. Len(rows) \in Nat /\ DOMAIN rows = 1..Len(rows)
      BY DEF AddonsInv
    <3>2. hits \in SUBSET (1..Len(rows))
      BY <3>1
    <3>3. rows' = [rows EXCEPT ![first] = row]
      BY <2>2 DEF Addons!FetchReply
    <3> HIDE DEF hits
    <3>4. \E j \in hits : \A k \in hits : j <= k
      BY <2>2, <3>1, <3>2, LeastExists
    <3>5. first \in hits
      BY <3>4
    <3> HIDE DEF first
    <3>6. first \in DOMAIN rows /\ rows[first].url = u
      BY <3>5 DEF hits
    <3>7. row \in Addons!Row /\ row.url = u
      BY DEF Addons!Row
    <3>8. rows \in Seq(Addons!Row)
      BY DEF AddonsInv
    <3> HIDE DEF row
    <3> QED
      BY <3>3, <3>6, <3>7, <3>8, RowReplaced, ZenonT(30)
  <2> QED
    BY <2>1, <2>2
<1>2. /\ manifests' \in [Urls -> {"none", "good", "bad"}] /\ fetching' \in SUBSET Urls
      /\ addonsDebounce' \in BOOLEAN
  <2>1. CASE answer = "none"
    BY <2>1 DEF Addons!FetchReply, AddonsInv
  <2>2. CASE answer # "none"
    BY <2>2 DEF Addons!FetchReply, AddonsInv, Addons!Changed
  <2> QED
    BY <2>1, <2>2
<1>3. UNCHANGED <<signedIn, profile, installed, enabledStates, adding, serverRows,
                  addonsRequest>>
  BY DEF Addons!FetchReply
<1> QED
  BY <1>1, <1>2, <1>3 DEF AddonsInv, Addons!InstalledIsShown

\* add's answer goes to the end of both lists of the active profile.
LEMMA AddonAdded ==
    ASSUME AddonsInv, NEW i \in DOMAIN adding, NEW good \in BOOLEAN, Addons!AddReply(i, good)
    PROVE  AddonsInv'
<1> DEFINE u == adding[i]
           row == [url |-> u, known |-> TRUE, enabled |-> TRUE]
           urls == installed[profile]
           longer == IF \E j \in DOMAIN urls : urls[j] = u THEN urls ELSE Append(urls, u)
<1>1. adding \in Seq(Urls) /\ u \in Urls /\ urls \in Seq(Urls) /\ rows \in Seq(Addons!Row)
  BY DEF AddonsInv
<1>2. adding' \in Seq(Urls)
  <2>1. adding' = Addons!Without(adding, i)
    BY DEF Addons!AddReply
  <2> QED
    BY <1>1, <2>1, WithoutTyped
<1>3. UNCHANGED <<signedIn, profile, fetching, serverRows, addonsRequest>>
  BY DEF Addons!AddReply
<1>4. CASE ~good
  <2>1. UNCHANGED <<installed, enabledStates, manifests, rows, addonsDebounce>>
    BY <1>4 DEF Addons!AddReply
  <2> QED
    BY <1>2, <1>3, <2>1 DEF AddonsInv, Addons!InstalledIsShown
<1>5. CASE good
  <2>1. /\ installed' = [installed EXCEPT ![profile] = longer]
        /\ enabledStates' = [enabledStates EXCEPT ![profile] = @ \ {u}]
        /\ manifests' = [manifests EXCEPT ![u] = "good"]
        /\ rows' = Append(rows, row)
    BY <1>5 DEF Addons!AddReply
  <2>2. addonsDebounce' \in BOOLEAN
    BY <1>5 DEF Addons!AddReply, Addons!Changed, AddonsInv
  <2>3. row \in Addons!Row /\ row.url = u
    BY <1>1 DEF Addons!Row
  <2>4. longer \in Seq(Urls) /\ \A j \in DOMAIN longer : longer[j] = u \/ \E k \in DOMAIN urls : longer[j] = urls[k]
    <3>1. CASE \E j \in DOMAIN urls : urls[j] = u
      BY <1>1, <3>1
    <3>2. CASE ~\E j \in DOMAIN urls : urls[j] = u
      <4>1. longer = Append(urls, u)
        BY <3>2
      <4> HIDE DEF longer, urls, u
      <4>2. /\ Append(urls, u) \in Seq(Urls) /\ DOMAIN Append(urls, u) = 1..(Len(urls) + 1)
            /\ Len(urls) \in Nat /\ DOMAIN urls = 1..Len(urls)
            /\ Append(urls, u)[Len(urls) + 1] = u
            /\ \A j \in 1..Len(urls) : Append(urls, u)[j] = urls[j]
        BY <1>1
      <4> QED
        BY <4>1, <4>2
    <3> QED
      BY <3>1, <3>2
  <2> HIDE DEF row, longer
  <2>5. /\ rows' \in Seq(Addons!Row) /\ u \in Addons!UrlsOf(rows')
        /\ Addons!UrlsOf(rows) \subseteq Addons!UrlsOf(rows')
    BY <1>1, <2>1, <2>3, RowAppended
  <2>6. installed' \in [Profiles -> Seq(Urls)] /\ installed'[profile] = longer
    BY <2>1, <2>4 DEF AddonsInv
  <2>7. enabledStates' \in [Profiles -> SUBSET Urls]
    BY <2>1 DEF AddonsInv
  <2>8. manifests' \in [Urls -> {"none", "good", "bad"}]
    BY <2>1 DEF AddonsInv
  <2>9. \A j \in DOMAIN urls : urls[j] \in Addons!UrlsOf(rows)
    BY DEF AddonsInv, Addons!InstalledIsShown
  <2>10. Addons!InstalledIsShown'
    BY <1>3, <2>4, <2>5, <2>6, <2>9 DEF Addons!InstalledIsShown
  <2> QED
    BY <1>2, <1>3, <2>2, <2>5, <2>6, <2>7, <2>8, <2>10 DEF AddonsInv
<1> QED
  BY <1>4, <1>5

\* remove takes every copy of the url out of what is installed, and one row out
\* of the list.
LEMMA AddonRemoved ==
    ASSUME AddonsInv, NEW u \in Urls, Addons!RemoveAddon(u)
    PROVE  AddonsInv'
<1> DEFINE hits == {i \in DOMAIN rows : rows[i].url = u /\ rows[i].known}
           first == CHOOSE i \in hits : \A j \in hits : i <= j
           urls == installed[profile]
           left == Addons!RemoveAll(urls, u)
<1>1. rows \in Seq(Addons!Row) /\ Len(rows) \in Nat /\ DOMAIN rows = 1..Len(rows)
      /\ urls \in Seq(Urls)
  BY DEF AddonsInv
<1>2. /\ hits # {}
      /\ rows' = Addons!Without(rows, first)
      /\ installed' = [installed EXCEPT ![profile] = left]
      /\ enabledStates' = [enabledStates EXCEPT ![profile] = @ \ {u}]
      /\ manifests' = [manifests EXCEPT ![u] = "none"]
      /\ UNCHANGED <<signedIn, profile, fetching, adding, serverRows, addonsRequest>>
  BY DEF Addons!RemoveAddon
<1>3. addonsDebounce' \in BOOLEAN
  BY DEF Addons!RemoveAddon, Addons!Changed, AddonsInv
<1>4. first \in DOMAIN rows /\ rows[first].url = u
  <2>1. hits \in SUBSET (1..Len(rows))
    BY <1>1
  <2> HIDE DEF hits
  <2>2. \E i \in hits : \A j \in hits : i <= j
    BY <1>1, <1>2, <2>1, LeastExists
  <2>3. first \in hits
    BY <2>2
  <2> HIDE DEF first
  <2> QED
    BY <2>3 DEF hits
<1> HIDE DEF hits, first
<1>5. /\ rows' \in Seq(Addons!Row)
      /\ \A j \in DOMAIN rows : j # first => \E k \in DOMAIN rows' : rows'[k] = rows[j]
  BY <1>1, <1>2, <1>4, WithoutTyped
<1>6. left \in Others(urls, u)
  BY <1>1, OthersAreLeft
<1> HIDE DEF left
<1>7. left \in Seq(Urls) /\ \A j \in DOMAIN left : left[j] # u /\ \E k \in DOMAIN urls : left[j] = urls[k]
  BY <1>6 DEF Others
<1>8. installed' \in [Profiles -> Seq(Urls)] /\ installed'[profile] = left
  BY <1>2, <1>7 DEF AddonsInv
<1>9. /\ enabledStates' \in [Profiles -> SUBSET Urls]
      /\ manifests' \in [Urls -> {"none", "good", "bad"}]
  BY <1>2 DEF AddonsInv
<1>10. ASSUME NEW v, v # u, v \in Addons!UrlsOf(rows) PROVE v \in Addons!UrlsOf(rows')
  <2>1. PICK j \in DOMAIN rows : rows[j].url = v
    BY <1>10 DEF Addons!UrlsOf
  <2>2. j # first
    BY <1>4, <1>10, <2>1
  <2>3. PICK k \in DOMAIN rows' : rows'[k] = rows[j]
    BY <1>5, <2>2
  <2> QED
    BY <2>1, <2>3 DEF Addons!UrlsOf
<1>11. \A j \in DOMAIN urls : urls[j] \in Addons!UrlsOf(rows)
  BY DEF AddonsInv, Addons!InstalledIsShown
<1>12. Addons!InstalledIsShown'
  <2> SUFFICES ASSUME NEW j \in DOMAIN left PROVE left[j] \in Addons!UrlsOf(rows')
    BY <1>2, <1>8 DEF Addons!InstalledIsShown
  <2> QED
    BY <1>7, <1>10, <1>11
<1> QED
  BY <1>2, <1>3, <1>5, <1>8, <1>9, <1>12 DEF AddonsInv

\* What else the user does: an addon asked for, one turned on or off, the
\* profile, the session.
LEMMA AddonsUsed ==
    ASSUME AddonsInv, Addons!User
    PROVE  AddonsInv'
<1>1. ASSUME NEW u \in Urls, Addons!Add(u) PROVE AddonsInv'
  <2>1. adding' \in Seq(Urls)
    BY <1>1 DEF Addons!Add, AddonsInv
  <2> QED
    BY <1>1, <2>1 DEF Addons!Add, AddonsInv, Addons!InstalledIsShown
<1>2. ASSUME NEW i \in DOMAIN rows, NEW on \in BOOLEAN, Addons!SetEnabled(i, on)
      PROVE  AddonsInv'
  <2> DEFINE row == [rows[i] EXCEPT !.enabled = on]
  <2>0. rows \in Seq(Addons!Row)
    BY DEF AddonsInv
  <2>1. rows \in Seq(Addons!Row) /\ rows[i] \in Addons!Row /\ rows[i].url \in Urls
    <3>1. rows[i] \in Addons!Row
      BY <2>0
    <3> QED
      BY <2>0, <3>1 DEF Addons!Row
  <2>2. rows' = [rows EXCEPT ![i] = row]
    BY <1>2 DEF Addons!SetEnabled
  <2>3. row \in Addons!Row /\ row.url = rows[i].url
    BY <2>1 DEF Addons!Row
  <2> HIDE DEF row
  <2>4. rows' \in Seq(Addons!Row) /\ Addons!UrlsOf(rows') = Addons!UrlsOf(rows)
    BY <2>1, <2>2, <2>3, RowReplaced
  <2>5. enabledStates' \in [Profiles -> SUBSET Urls]
    BY <1>2, <2>1 DEF Addons!SetEnabled, AddonsInv
  <2>6. addonsDebounce' \in BOOLEAN
    BY <1>2 DEF Addons!SetEnabled, Addons!Changed, AddonsInv
  <2>7. UNCHANGED <<signedIn, profile, installed, manifests, fetching, adding, serverRows,
                    addonsRequest>>
    BY <1>2 DEF Addons!SetEnabled
  <2> QED
    BY <2>4, <2>5, <2>6, <2>7 DEF AddonsInv, Addons!InstalledIsShown
<1>3. ASSUME NEW p \in Profiles, Addons!SwitchProfile(p) PROVE AddonsInv'
  <2>1. installed[p] \in Seq(Urls) /\ manifests \in [Urls -> {"none", "good", "bad"}]
    BY DEF AddonsInv
  <2>2. /\ Addons!RowsFor(installed[p], enabledStates[p]) \in Seq(Addons!Row)
        /\ Shown(installed[p], Addons!RowsFor(installed[p], enabledStates[p]))
        /\ Addons!Uncached(installed[p]) \in SUBSET Urls
    BY <2>1, RowsTyped
  <2>3. /\ profile' = p /\ rows' = Addons!RowsFor(installed[p], enabledStates[p])
        /\ fetching' = fetching \cup Addons!Uncached(installed[p])
        /\ UNCHANGED <<signedIn, installed, enabledStates, manifests, adding, serverRows,
                       addonsRequest>>
    BY <1>3 DEF Addons!SwitchProfile, Addons!Load
  <2>4. addonsDebounce' \in BOOLEAN
    BY <1>3 DEF Addons!SwitchProfile, Addons!Changed, AddonsInv
  <2>5. Addons!InstalledIsShown'
    BY <2>2, <2>3 DEF Addons!InstalledIsShown, Shown
  <2> QED
    BY <2>2, <2>3, <2>4, <2>5 DEF AddonsInv
<1>4. CASE Addons!SignInOrOut
  <2>1. addonsRequest' \in AddonRequests
    BY <1>4 DEF Addons!SignInOrOut, AddonsInv, AddonRequests, Addons!Asked
  <2>2. UNCHANGED <<profile, installed, enabledStates, manifests, rows, fetching, adding,
                    serverRows, addonsDebounce>> /\ signedIn' \in BOOLEAN
    BY <1>4 DEF Addons!SignInOrOut
  <2> QED
    BY <2>1, <2>2 DEF AddonsInv, Addons!InstalledIsShown
<1> QED
  BY <1>1, <1>2, <1>3, <1>4, AddonRemoved DEF Addons!User

\* A row as it is sent and received.
LEMMA ServerRowsTyped ==
    ASSUME NEW list \in Seq(Addons!Row)
    PROVE  [i \in DOMAIN list |-> [url |-> list[i].url, enabled |-> list[i].enabled]]
             \in Seq(Addons!ServerRow)
<1> DEFINE d == [i \in DOMAIN list |-> [url |-> list[i].url, enabled |-> list[i].enabled]]
<1>1. Len(list) \in Nat /\ DOMAIN list = 1..Len(list) /\ \A i \in DOMAIN list : list[i] \in Addons!Row
  OBVIOUS
<1>2. \A i \in 1..Len(list) : [url |-> list[i].url, enabled |-> list[i].enabled] \in Addons!ServerRow
  BY <1>1 DEF Addons!Row, Addons!ServerRow
<1>3. d = [i \in 1..Len(list) |-> [url |-> list[i].url, enabled |-> list[i].enabled]]
  BY <1>1
<1> HIDE DEF d
<1>4. d \in Seq(Addons!ServerRow)
  BY <1>1, <1>2, <1>3
<1> QED
  BY <1>4 DEF d

\* doPush sends the rows that are shown, of the active profile.
LEMMA AddonsPush ==
    ASSUME AddonsInv, NEW renamed \in BOOLEAN, Addons!DoPush(renamed)
    PROVE  AddonsInv'
<1>1. Addons!ExportServerRows \in Seq(Addons!ServerRow)
  <2>1. rows \in Seq(Addons!Row)
    BY DEF AddonsInv
  <2> QED
    BY <2>1, ServerRowsTyped DEF Addons!ExportServerRows
<1>2. addonsRequest' \in AddonRequests
  <2>1. CASE addonsRequest' = addonsRequest
    BY <2>1 DEF AddonsInv
  <2>2. CASE addonsRequest' = [call |-> "push", p |-> profile, rows |-> Addons!ExportServerRows]
    <3>1. profile \in Profiles
      BY DEF AddonsInv
    <3> QED
      BY <1>1, <2>2, <3>1 DEF AddonRequests
  <2> QED
    BY <2>1, <2>2 DEF Addons!DoPush
<1>3. /\ UNCHANGED <<signedIn, profile, installed, enabledStates, manifests, rows, fetching,
                     adding, serverRows>>
      /\ addonsDebounce' \in BOOLEAN
  BY DEF Addons!DoPush
<1> QED
  BY <1>2, <1>3 DEF AddonsInv, Addons!InstalledIsShown

\* The answers to a push and a pull.
LEMMA AddonsAnswered ==
    ASSUME AddonsInv,
           (\E ok \in BOOLEAN : Addons!PushReply(ok)) \/ Addons!PullReply \/ Addons!PullFails
    PROVE  AddonsInv'
<1>0. Addons!NoRequest \in AddonRequests
  BY DEF AddonRequests
<1>1. ASSUME NEW ok \in BOOLEAN, Addons!PushReply(ok) PROVE AddonsInv'
  <2>1. addonsRequest \in AddonRequests /\ addonsRequest.call = "push"
    BY <1>1 DEF Addons!PushReply, AddonsInv
  <2>2. addonsRequest.p \in Profiles /\ addonsRequest.rows \in Seq(Addons!ServerRow)
    BY <2>1 DEF AddonRequests, Addons!NoRequest
  <2>3. serverRows' = [serverRows EXCEPT ![addonsRequest.p] = addonsRequest.rows]
          \/ serverRows' = serverRows
    BY <1>1, Zenon DEF Addons!PushReply
  <2>4. serverRows' \in [Profiles -> Seq(Addons!ServerRow)]
    BY <2>2, <2>3 DEF AddonsInv
  <2>5. /\ addonsRequest' = Addons!NoRequest
        /\ UNCHANGED <<signedIn, profile, installed, enabledStates, manifests, rows, fetching,
                       adding, addonsDebounce>>
    BY <1>1, Zenon DEF Addons!PushReply
  <2> QED
    BY <1>0, <2>4, <2>5 DEF AddonsInv, Addons!InstalledIsShown
<1>2. CASE Addons!PullFails
  BY <1>0, <1>2 DEF Addons!PullFails, AddonsInv, Addons!InstalledIsShown
<1>3. CASE Addons!PullReply
  <2> DEFINE got == serverRows[addonsRequest.p]
             urls == [i \in DOMAIN got |-> got[i].url]
             off == {got[i].url : i \in {j \in DOMAIN got : ~got[j].enabled}}
  <2>1. addonsRequest \in AddonRequests /\ addonsRequest.call = "pull"
    BY <1>3 DEF Addons!PullReply, AddonsInv
  <2>2. addonsRequest.p \in Profiles
    BY <2>1 DEF AddonRequests, Addons!NoRequest
  <2>3. got \in Seq(Addons!ServerRow)
    BY <2>2 DEF AddonsInv
  <2>4. /\ addonsRequest' = Addons!NoRequest
        /\ installed' = [installed EXCEPT ![profile] = urls]
        /\ enabledStates' = [enabledStates EXCEPT ![profile] = off]
        /\ rows' = Addons!RowsFor(urls, off)
        /\ fetching' = fetching \cup Addons!Uncached(urls)
        /\ addonsDebounce' = (addonsDebounce \/ signedIn)
        /\ UNCHANGED <<signedIn, profile, manifests, adding, serverRows>>
    BY <1>3 DEF Addons!PullReply
  <2> HIDE DEF got
  <2>5. Len(got) \in Nat /\ DOMAIN got = 1..Len(got) /\ \A i \in 1..Len(got) : got[i] \in Addons!ServerRow
    BY <2>3
  <2>6. \A i \in 1..Len(got) : got[i].url \in Urls
    BY <2>5 DEF Addons!ServerRow
  <2>7. urls = [i \in 1..Len(got) |-> got[i].url] /\ off \in SUBSET Urls
    BY <2>5, <2>6
  <2> HIDE DEF urls, off
  <2>8. urls \in Seq(Urls)
    BY <2>5, <2>6, <2>7
  <2>9. manifests \in [Urls -> {"none", "good", "bad"}]
    BY DEF AddonsInv
  <2>10. /\ Addons!RowsFor(urls, off) \in Seq(Addons!Row)
         /\ Shown(urls, Addons!RowsFor(urls, off))
         /\ Addons!Uncached(urls) \in SUBSET Urls
    BY <2>8, <2>9, RowsTyped
  <2>11. installed' \in [Profiles -> Seq(Urls)] /\ installed'[profile] = urls
    BY <2>4, <2>8 DEF AddonsInv
  <2>12. enabledStates' \in [Profiles -> SUBSET Urls]
    BY <2>4, <2>7 DEF AddonsInv
  <2>13. addonsDebounce' \in BOOLEAN
    BY <2>4 DEF AddonsInv
  <2>14. Addons!InstalledIsShown'
    BY <2>4, <2>10, <2>11 DEF Addons!InstalledIsShown, Shown
  <2> QED
    BY <1>0, <2>4, <2>10, <2>11, <2>12, <2>13, <2>14 DEF AddonsInv
<1> QED
  BY <1>1, <1>2, <1>3

\* Every step of the addons.
LEMMA AddonsStep == ASSUME AddonsInv, Addons!Next PROVE AddonsInv'
BY AddonsUsed, AddonsPush, AddonsAnswered, AddonFetched, AddonAdded
   DEF Addons!Next, Addons!Replies

\* AddonRegistry and AddonsSyncController start with nothing installed.
LEMMA AddonsStart == ASSUME Addons!Init PROVE AddonsInv
<1>1. /\ signedIn \in BOOLEAN /\ profile \in Profiles
      /\ installed = [p \in Profiles |-> <<>>] /\ enabledStates = [p \in Profiles |-> {}]
      /\ manifests = [u \in Urls |-> "none"]
      /\ rows = <<>> /\ fetching = {} /\ adding = <<>>
      /\ addonsRequest = (IF signedIn THEN Addons!Asked ELSE Addons!NoRequest)
      /\ addonsDebounce = FALSE
  BY DEF Addons!Init
<1>2. serverRows \in [Profiles -> Seq(Addons!ServerRow)]
  <2> DEFINE first == {<<>>} \cup {<<[url |-> u, enabled |-> e]>> : u \in Urls, e \in BOOLEAN}
  <2>1. serverRows \in [Profiles -> first]
    BY DEF Addons!Init
  <2>2. ASSUME NEW u \in Urls, NEW e \in BOOLEAN
        PROVE  <<[url |-> u, enabled |-> e]>> \in Seq(Addons!ServerRow)
    <3>1. [url |-> u, enabled |-> e] \in Addons!ServerRow
      BY DEF Addons!ServerRow
    <3> QED
      BY <3>1
  <2>3. <<>> \in Seq(Addons!ServerRow)
    OBVIOUS
  <2>4. ASSUME NEW t \in first PROVE t \in Seq(Addons!ServerRow)
    <3>1. t = <<>> \/ \E u \in Urls, e \in BOOLEAN : t = <<[url |-> u, enabled |-> e]>>
      BY <2>4
    <3> HIDE DEF first
    <3>2. CASE t = <<>>
      BY <2>3, <3>2
    <3>3. ASSUME NEW u \in Urls, NEW e \in BOOLEAN, t = <<[url |-> u, enabled |-> e]>>
          PROVE  t \in Seq(Addons!ServerRow)
      <4>1. <<[url |-> u, enabled |-> e]>> \in Seq(Addons!ServerRow)
        BY <2>2
      <4> QED
        BY <3>3, <4>1
    <3> QED
      BY <3>1, <3>2, <3>3
  <2> HIDE DEF first
  <2> QED
    BY <2>1, <2>4
<1>3. addonsRequest \in AddonRequests
  BY <1>1 DEF AddonRequests, Addons!Asked
<1>4. /\ installed \in [Profiles -> Seq(Urls)] /\ rows \in Seq(Addons!Row)
      /\ adding \in Seq(Urls) /\ installed[profile] = <<>>
  BY <1>1
<1>5. enabledStates \in [Profiles -> SUBSET Urls]
  BY <1>1
<1>6. manifests \in [Urls -> {"none", "good", "bad"}]
  BY <1>1
<1>7. fetching \in SUBSET Urls /\ addonsDebounce \in BOOLEAN
  BY <1>1
<1>8. Addons!InstalledIsShown
  BY <1>4 DEF Addons!InstalledIsShown
<1> QED
  BY <1>1, <1>2, <1>3, <1>4, <1>5, <1>6, <1>7, <1>8 DEF AddonsInv

\* The addons run.
LEMMA AddonsAreInvariant == Spec => [](which = "addons" => AddonsInv)
<1> DEFINE I == which = "addons" => AddonsInv
<1>1. Init => I
  BY AddonsStart DEF Init
<1>2. I /\ [Next]_vars => I'
  <2> SUFFICES ASSUME I, [Next]_vars, which' = "addons" PROVE AddonsInv'
    OBVIOUS
  <2>1. which = "addons" /\ AddonsInv
    BY DEF Next, vars
  <2>2. CASE Next
    <3>1. Addons!Next
      BY <2>1, <2>2 DEF Next
    <3> QED
      BY <2>1, <3>1, AddonsStep
  <2>3. CASE UNCHANGED vars
    BY <2>1, <2>3 DEF vars, addonsVars, AddonsInv, Addons!InstalledIsShown, Addons!UrlsOf
  <2> QED
    BY <2>2, <2>3
<1> QED
  BY <1>1, <1>2, PTL DEF Spec

\* AddonRegistry: what is installed for the active profile is in the list that
\* is shown and pushed, whatever switches, answers and pulls come between, for
\* any urls and profiles.
THEOREM EveryAddonIsListed == Spec => []InstalledIsShown
<1>1. (which = "addons" => AddonsInv) => InstalledIsShown
  BY DEF InstalledIsShown, AddonsInv
<1> QED
  BY <1>1, AddonsAreInvariant, PTL

-----------------------------------------------------------------------------
(* HomeShelves: the slots. *)

DataStates == {"none", "idle", "fetching", "done"}

\* The replies under way, one by one: the j-th of shelf k.
Replies(o) == {t \in Shelves \X (1..MaxOpen) : t[2] <= o[t[1]]}

\* What the queue and the slots are, of the data d and the definitions ds: a
\* shelf that waits is queued, one that is fetched has a reply, and the slots in
\* use are the replies.
Loads(ds, d, q, used, o) ==
    /\ d \in [Shelves -> DataStates] /\ q \in SUBSET Shelves /\ used \in Nat
    /\ o \in [Shelves -> 0..MaxOpen]
    /\ \A k \in Shelves : /\ d[k] = "idle" /\ k \in ds => k \in q
                          /\ d[k] = "fetching" => o[k] > 0
    /\ used = Cardinality(Replies(o))

\* And what waits finds no slot: they are all in use.
LoadInv ==
    /\ ShelfInv
    /\ defs \in SUBSET Shelves
    /\ shelfRows \in [Shelves -> HomePage!RowStates]
    /\ pending \in 0..kMaxInFlight
    /\ \A k \in Shelves : shelfRows[k] # "none" => k \in defs
    /\ Loads(defs, data, queue, pending, open)
    /\ queue # {} => pending = kMaxInFlight

\* The replies can be counted.
LEMMA RepliesFinite == ASSUME NEW o PROVE IsFiniteSet(Replies(o)) /\ Cardinality(Replies(o)) \in Nat
<1>0. 1 \in Int /\ MaxOpen \in Int
  BY ServicesAssumption
<1>1. IsFiniteSet(1..MaxOpen)
  BY <1>0, FS_Interval
<1>2. IsFiniteSet(Shelves \X (1..MaxOpen))
  BY <1>1, ServicesAssumption, FS_Product
<1>3. Replies(o) \in SUBSET (Shelves \X (1..MaxOpen))
  BY DEF Replies
<1>4. IsFiniteSet(Replies(o))
  BY <1>2, <1>3, FS_Subset
<1> QED
  BY <1>4, FS_CardinalityType

\* There is one unless no shelf has one.
LEMMA RepliesOpen ==
    ASSUME NEW o \in [Shelves -> 0..MaxOpen]
    PROVE  Cardinality(Replies(o)) > 0 <=> \E k \in Shelves : o[k] > 0
<1>1. MaxOpen \in Nat
  BY ServicesAssumption
<1>2. Replies(o) # {} <=> \E k \in Shelves : o[k] > 0
  <2>1. ASSUME NEW k \in Shelves, o[k] > 0 PROVE <<k, 1>> \in Replies(o)
    BY <1>1, <2>1 DEF Replies
  <2>2. ASSUME NEW t \in Replies(o) PROVE t[1] \in Shelves /\ o[t[1]] > 0
    BY <1>1, <2>2 DEF Replies
  <2> QED
    BY <2>1, <2>2
<1>3. Cardinality(Replies(o)) = 0 <=> Replies(o) = {}
  BY RepliesFinite, FS_EmptySet
<1>4. Cardinality(Replies(o)) \in Nat
  BY RepliesFinite
<1> QED
  BY <1>2, <1>3, <1>4

\* Cardinality, as the instance of HomeShelves names it.
LEMMA ShelvesCardinality == ASSUME NEW S PROVE HomePage!Cardinality(S) = Cardinality(S)
BY DEF Cardinality, HomePage!Cardinality

\* Each shelf that is fetched has one reply more.
LEMMA RepliesAdded ==
    ASSUME NEW o \in [Shelves -> 0..MaxOpen], NEW F \in SUBSET Shelves,
           \A k \in F : o[k] < MaxOpen
    PROVE  LET more == [k \in Shelves |-> o[k] + IF k \in F THEN 1 ELSE 0]
           IN  /\ more \in [Shelves -> 0..MaxOpen]
               /\ Cardinality(Replies(more)) = Cardinality(Replies(o)) + Cardinality(F)
               /\ Cardinality(F) \in Nat
<1> DEFINE more == [k \in Shelves |-> o[k] + IF k \in F THEN 1 ELSE 0]
           new == {<<k, o[k] + 1>> : k \in F}
           f == [k \in F |-> <<k, o[k] + 1>>]
<1>1. MaxOpen \in Nat
  BY ServicesAssumption
<1>2. more \in [Shelves -> 0..MaxOpen]
  BY <1>1
<1>3. IsFiniteSet(F) /\ Cardinality(F) \in Nat
  BY ServicesAssumption, FS_Subset, FS_CardinalityType
<1>4. f \in Bijection(F, new)
  BY DEF Bijection, Injection, Surjection, IsInjective
<1>5. IsFiniteSet(new) /\ Cardinality(new) = Cardinality(F)
  BY <1>3, <1>4, FS_Bijection DEF ExistsBijection
<1>6. Replies(more) = Replies(o) \cup new
  <2>1. ASSUME NEW t \in new PROVE t \in Replies(more)
    <3>1. PICK k \in F : t = <<k, o[k] + 1>>
      OBVIOUS
    <3>2. o[k] \in 0..MaxOpen /\ o[k] < MaxOpen /\ k \in Shelves
      OBVIOUS
    <3>3. more[k] = o[k] + 1 /\ o[k] + 1 \in 1..MaxOpen
      BY <1>1, <3>2
    <3> QED
      BY <3>1, <3>2, <3>3 DEF Replies
  <2>2. ASSUME NEW t \in Replies(o) PROVE t \in Replies(more)
    <3>1. t \in Shelves \X (1..MaxOpen) /\ t[2] <= o[t[1]]
      BY DEF Replies
    <3>2. t[1] \in Shelves /\ t[2] \in Nat /\ o[t[1]] \in Nat
      BY <1>1, <3>1
    <3>3. t[2] <= more[t[1]]
      BY <3>1, <3>2
    <3> QED
      BY <3>1, <3>3 DEF Replies
  <2>3. ASSUME NEW t \in Replies(more), t \notin Replies(o) PROVE t \in new
    <3>1. t \in Shelves \X (1..MaxOpen) /\ t[2] <= more[t[1]] /\ ~(t[2] <= o[t[1]])
      BY <2>3 DEF Replies
    <3>2. t[1] \in Shelves /\ t[2] \in Nat /\ o[t[1]] \in Nat /\ t = <<t[1], t[2]>>
      BY <1>1, <3>1
    <3>3. more[t[1]] = o[t[1]] + IF t[1] \in F THEN 1 ELSE 0
      BY <3>2
    <3>4. t[1] \in F /\ t[2] = o[t[1]] + 1
      BY <3>1, <3>2, <3>3
    <3> QED
      BY <3>2, <3>4
  <2> HIDE DEF new, more
  <2> QED
    BY <2>1, <2>2, <2>3
<1>7. Replies(o) \cap new = {}
  <2> SUFFICES ASSUME NEW k \in F, <<k, o[k] + 1>> \in Replies(o) PROVE FALSE
    OBVIOUS
  <2>1. o[k] \in Nat /\ o[k] + 1 <= o[k]
    BY <1>1 DEF Replies
  <2> QED
    BY <2>1
<1> HIDE DEF new, more
<1>8. Cardinality(Replies(o) \cup new) = Cardinality(Replies(o)) + Cardinality(new) - Cardinality(Replies(o) \cap new)
  BY <1>5, RepliesFinite, FS_Union
<1>9. Cardinality(Replies(o)) \in Nat /\ Cardinality({}) = 0
  BY RepliesFinite, FS_EmptySet
<1>10. Cardinality(Replies(more)) = Cardinality(Replies(o)) + Cardinality(F)
  <2>1. Cardinality(Replies(o) \cap new) = 0
    BY <1>7, <1>9
  <2>2. Cardinality(Replies(more)) = Cardinality(Replies(o) \cup new)
    BY <1>6
  <2> QED
    BY <1>3, <1>5, <1>8, <1>9, <2>1, <2>2
<1> QED
  BY <1>2, <1>3, <1>10 DEF more

\* The reply that ends is one of the open ones.
LEMMA ReplyEnded ==
    ASSUME NEW o \in [Shelves -> 0..MaxOpen], NEW k \in Shelves, o[k] > 0
    PROVE  LET less == [o EXCEPT ![k] = @ - 1]
           IN  /\ less \in [Shelves -> 0..MaxOpen]
               /\ Cardinality(Replies(less)) = Cardinality(Replies(o)) - 1
               /\ Cardinality(Replies(o)) - 1 \in Nat
<1> DEFINE less == [o EXCEPT ![k] = @ - 1]
<1>1. MaxOpen \in Nat /\ o[k] \in 1..MaxOpen
  BY ServicesAssumption
<1>2. less \in [Shelves -> 0..MaxOpen]
  BY <1>1
<1>3. <<k, o[k]>> \in Replies(o)
  BY <1>1 DEF Replies
<1>4. Replies(less) = Replies(o) \ {<<k, o[k]>>}
  <2>1. ASSUME NEW t \in Shelves \X (1..MaxOpen)
        PROVE  t[2] <= less[t[1]] <=> t[2] <= o[t[1]] /\ t # <<k, o[k]>>
    <3>1. t[1] \in Shelves /\ t[2] \in Nat /\ o[t[1]] \in Nat /\ t = <<t[1], t[2]>>
      BY <1>1
    <3>2. CASE t[1] = k
      <4>1. less[t[1]] = o[k] - 1
        BY <3>1, <3>2
      <4>2. t # <<k, o[k]>> <=> t[2] # o[k]
        BY <3>1, <3>2
      <4> QED
        BY <1>1, <3>1, <3>2, <4>1, <4>2
    <3>3. CASE t[1] # k
      BY <3>1, <3>3
    <3> QED
      BY <3>2, <3>3
  <2> HIDE DEF less
  <2> QED
    BY <2>1 DEF Replies
<1> HIDE DEF less
<1>5. Cardinality(Replies(less)) = Cardinality(Replies(o)) - 1
  <2>1. IsFiniteSet(Replies(o))
    BY RepliesFinite
  <2> QED
    BY <1>3, <1>4, <2>1, FS_RemoveElement
<1>6. Cardinality(Replies(less)) \in Nat
  BY RepliesFinite
<1> QED
  BY <1>2, <1>5, <1>6 DEF less

\* pumpQueue, over what a caller left: the slots are the replies again, and a
\* shelf waits only when they are full.
LEMMA PumpKeeps ==
    ASSUME NEW ds, NEW d, NEW q, NEW used, NEW o, Loads(ds, d, q, used, o),
           HomePage!Pump(ds, d, q, used, o)
    PROVE  /\ Loads(ds, data', queue', pending', open')
           /\ pending' \in 0..kMaxInFlight
           /\ queue' # {} => pending' = kMaxInFlight
<1>1. PICK taken \in SUBSET q :
        LET F == {k \in taken \cap ds : d[k] = "idle"}
        IN  /\ pending' = used + HomePage!Cardinality(F)
            /\ pending' <= kMaxInFlight
            /\ q # taken => pending' = kMaxInFlight
            /\ \A k \in F : o[k] < MaxOpen
            /\ data' = [k \in Shelves |-> IF k \in F THEN "fetching" ELSE d[k]]
            /\ queue' = q \ taken
            /\ open' = [k \in Shelves |-> o[k] + IF k \in F THEN 1 ELSE 0]
  BY DEF HomePage!Pump
<1> DEFINE F == {k \in taken \cap ds : d[k] = "idle"}
<1>2. /\ d \in [Shelves -> DataStates] /\ q \in SUBSET Shelves /\ used \in Nat
      /\ o \in [Shelves -> 0..MaxOpen] /\ used = Cardinality(Replies(o))
      /\ \A k \in Shelves : /\ d[k] = "idle" /\ k \in ds => k \in q
                            /\ d[k] = "fetching" => o[k] > 0
  BY DEF Loads
<1>3. F \in SUBSET Shelves /\ \A k \in F : k \in taken /\ k \in ds /\ d[k] = "idle"
  BY <1>2
<1>4. \A k \in Shelves : k \in taken /\ k \in ds /\ d[k] = "idle" => k \in F
  OBVIOUS
<1>5. /\ pending' = used + Cardinality(F) /\ pending' <= kMaxInFlight
      /\ q # taken => pending' = kMaxInFlight
      /\ \A k \in F : o[k] < MaxOpen
      /\ data' = [k \in Shelves |-> IF k \in F THEN "fetching" ELSE d[k]]
      /\ queue' = q \ taken
      /\ open' = [k \in Shelves |-> o[k] + IF k \in F THEN 1 ELSE 0]
  BY <1>1, ShelvesCardinality
<1> HIDE DEF F
<1>6. /\ open' \in [Shelves -> 0..MaxOpen]
      /\ Cardinality(Replies(open')) = Cardinality(Replies(o)) + Cardinality(F)
      /\ Cardinality(F) \in Nat
  BY <1>2, <1>3, <1>5, RepliesAdded
<1>7. pending' \in Nat /\ pending' = Cardinality(Replies(open'))
  BY <1>2, <1>5, <1>6
<1>8. pending' \in 0..kMaxInFlight /\ (queue' # {} => pending' = kMaxInFlight)
  BY <1>5, <1>7, ServicesAssumption
<1>9. data' \in [Shelves -> DataStates] /\ queue' \in SUBSET Shelves
  BY <1>2, <1>5 DEF DataStates
<1>10. ASSUME NEW k \in Shelves
       PROVE  /\ data'[k] = "idle" /\ k \in ds => k \in queue'
              /\ data'[k] = "fetching" => open'[k] > 0
  <2>1. o[k] \in Nat /\ open'[k] = o[k] + (IF k \in F THEN 1 ELSE 0)
    BY <1>2, <1>5, ServicesAssumption
  <2>2. CASE k \in F
    BY <1>5, <2>1, <2>2
  <2>3. CASE k \notin F
    BY <1>2, <1>4, <1>5, <2>1, <2>3
  <2> QED
    BY <2>2, <2>3
<1> QED
  BY <1>6, <1>7, <1>8, <1>9, <1>10 DEF Loads

\* reconcile gives no row a state it has not, and a row only to a shelf of the
\* definitions.
LEMMA RebuildShows ==
    ASSUME NEW p, NEW file \in [Shelves -> HomePage!RowStates], NEW ds,
           HomePage!Rebuild(p, file, ds)
    PROVE  /\ defs' = ds
           /\ shelfRows' \in [Shelves -> HomePage!RowStates]
           /\ \A k \in Shelves : shelfRows'[k] # "none" => k \in ds
<1>1. HomePage!Reconciled(file, ds) \in [Shelves -> HomePage!RowStates]
  BY DEF HomePage!Reconciled, HomePage!RowStates
<1>2. defs' = ds /\ shelfRows' = [k \in Shelves |-> IF k \in ds
                                        THEN HomePage!Reconciled(file, ds)[k] ELSE "none"]
  BY DEF HomePage!Rebuild
<1> QED
  BY <1>1, <1>2 DEF HomePage!RowStates

\* A change of addons or of the profile queues every shelf that has to load.
LEMMA RefreshLoads ==
    ASSUME LoadInv, NEW p, NEW file \in [Shelves -> HomePage!RowStates],
           NEW ds \in SUBSET Shelves, HomePage!Refresh(p, file, ds), ShelfInv'
    PROVE  LoadInv'
<1>1. /\ defs' = ds
      /\ shelfRows' \in [Shelves -> HomePage!RowStates]
      /\ \A k \in Shelves : shelfRows'[k] # "none" => k \in ds
  BY RebuildShows DEF HomePage!Refresh
<1>2. Loads(ds, data', queue', pending', open') /\ pending' \in 0..kMaxInFlight
      /\ (queue' # {} => pending' = kMaxInFlight)
  <2>1. CASE ds = {}
    <3>1. /\ data' = [k \in Shelves |-> "none"] /\ queue' = {}
          /\ pending' = pending /\ open' = open
      BY <2>1 DEF HomePage!Refresh
    <3>2. data' \in [Shelves -> DataStates] /\ \A k \in Shelves : data'[k] = "none"
      BY <3>1 DEF DataStates
    <3> QED
      BY <3>1, <3>2 DEF LoadInv, Loads
  <2>2. CASE ds # {}
    <3> DEFINE pruned == HomePage!Pruned(shelfRows')
               wanted == {k \in HomePage!Live(shelfRows') : pruned[k] \in {"none", "idle"}}
               d == [k \in Shelves |-> IF k \in wanted THEN "idle" ELSE pruned[k]]
    <3>1. HomePage!Pump(ds, d, queue \cup wanted, pending, open)
      BY <2>2 DEF HomePage!Refresh
    <3>2. pruned = [k \in Shelves |-> IF k \in HomePage!Live(shelfRows') THEN data[k] ELSE "none"]
      BY DEF HomePage!Pruned
    <3>3. data \in [Shelves -> DataStates] /\ queue \in SUBSET Shelves
          /\ \A k \in Shelves : data[k] = "fetching" => open[k] > 0
      BY DEF LoadInv, Loads
    <3>4. wanted \in SUBSET Shelves
      BY DEF HomePage!Live
    <3>5. d \in [Shelves -> DataStates]
      BY <3>2, <3>3 DEF DataStates
    <3>6. ASSUME NEW k \in Shelves
          PROVE  /\ d[k] = "idle" => k \in queue \cup wanted
                 /\ d[k] = "fetching" => open[k] > 0
      <4>1. CASE k \in HomePage!Live(shelfRows')
        BY <3>2, <3>3, <4>1
      <4>2. CASE k \notin HomePage!Live(shelfRows')
        BY <3>2, <4>2
      <4> QED
        BY <4>1, <4>2
    <3> HIDE DEF d, wanted, pruned
    <3>7. Loads(ds, d, queue \cup wanted, pending, open)
      BY <3>3, <3>4, <3>5, <3>6 DEF LoadInv, Loads
    <3> QED
      BY <3>1, <3>7, PumpKeeps
  <2> QED
    BY <2>1, <2>2
<1> QED
  BY <1>1, <1>2 DEF LoadInv

\* A move, or the server's settings, fetch nothing: what they turn on has no
\* data.
LEMMA RebuiltLoads ==
    ASSUME LoadInv, NEW file \in [Shelves -> HomePage!RowStates], HomePage!Rebuilt(file),
           ShelfInv'
    PROVE  LoadInv'
<1>1. HomePage!Rebuild(profile, file, defs)
  BY DEF HomePage!Rebuilt
<1>2. /\ defs' = defs
      /\ shelfRows' \in [Shelves -> HomePage!RowStates]
      /\ \A k \in Shelves : shelfRows'[k] # "none" => k \in defs
  BY <1>1, RebuildShows
<1>3. /\ data' = [k \in Shelves |-> IF k \in HomePage!Live(shelfRows') THEN data[k] ELSE "none"]
      /\ UNCHANGED <<queue, pending, open>>
  BY DEF HomePage!Rebuilt, HomePage!Pruned
<1>4. data' \in [Shelves -> DataStates]
      /\ \A k \in Shelves : data'[k] = data[k] \/ data'[k] = "none"
  BY <1>3 DEF LoadInv, Loads, DataStates
<1>5. Loads(defs', data', queue', pending', open')
  BY <1>2, <1>3, <1>4 DEF LoadInv, Loads
<1> QED
  BY <1>2, <1>3, <1>5 DEF LoadInv

\* What writes the file and queues nothing.
LEMMA FlagsLoad ==
    ASSUME LoadInv, ShelfInv',
           HomePage!SetPageFlag \/ (\E k \in Shelves : HomePage!TouchShelf(k))
    PROVE  LoadInv'
<1>1. UNCHANGED <<defs, shelfRows, data, queue, pending, open>>
  BY DEF HomePage!SetPageFlag, HomePage!TouchShelf
<1> QED
  BY <1>1 DEF LoadInv, Loads, Replies

\* setShelfEnabled queues a shelf that is turned on and has no data.
LEMMA EnabledLoads ==
    ASSUME LoadInv, NEW k \in Shelves, NEW on \in BOOLEAN, HomePage!SetShelfEnabled(k, on),
           ShelfInv'
    PROVE  LoadInv'
<1>1. defs' = defs /\ shelfRows' = [shelfRows EXCEPT ![k] = IF @ = "none" THEN @ ELSE
                                        IF on THEN "on" ELSE "off"]
  BY DEF HomePage!SetShelfEnabled
<1>2. /\ shelfRows' \in [Shelves -> HomePage!RowStates]
      /\ \A j \in Shelves : shelfRows'[j] # "none" => j \in defs
  BY <1>1 DEF LoadInv, HomePage!RowStates
<1>3. CASE on /\ data[k] = "none"
  <2> DEFINE d == [data EXCEPT ![k] = "idle"]
  <2>1. HomePage!Pump(defs, d, queue \cup {k}, pending, open)
    BY <1>3 DEF HomePage!SetShelfEnabled
  <2>2. d \in [Shelves -> DataStates] /\ d[k] = "idle" /\ \A j \in Shelves : j # k => d[j] = data[j]
    BY DEF LoadInv, Loads, DataStates
  <2> HIDE DEF d
  <2>3. Loads(defs, d, queue \cup {k}, pending, open)
    BY <2>2 DEF LoadInv, Loads
  <2>4. /\ Loads(defs, data', queue', pending', open')
        /\ pending' \in 0..kMaxInFlight
        /\ queue' # {} => pending' = kMaxInFlight
    BY <2>1, <2>3, PumpKeeps
  <2> QED
    BY <1>1, <1>2, <2>4 DEF LoadInv
<1>4. CASE ~(on /\ data[k] = "none")
  <2>1. UNCHANGED <<data, queue, pending, open>>
    BY <1>4 DEF HomePage!SetShelfEnabled
  <2> QED
    BY <1>1, <1>2, <2>1 DEF LoadInv, Loads, Replies
<1> QED
  BY <1>3, <1>4

\* A reply frees its slot and pumps the queue, wherever its shelf has gone.
LEMMA ReplyLoads ==
    ASSUME LoadInv, NEW k \in Shelves, HomePage!ShelfReply(k), ShelfInv'
    PROVE  LoadInv'
<1> DEFINE d == IF data[k] = "none" THEN data ELSE [data EXCEPT ![k] = "done"]
           less == [open EXCEPT ![k] = @ - 1]
<1>1. /\ open[k] > 0 /\ HomePage!Pump(defs, d, queue, pending - 1, less)
      /\ UNCHANGED <<defs, shelfRows>>
  BY DEF HomePage!ShelfReply
<1>2. open \in [Shelves -> 0..MaxOpen] /\ pending = Cardinality(Replies(open))
      /\ data \in [Shelves -> DataStates] /\ queue \in SUBSET Shelves
      /\ \A j \in Shelves : /\ data[j] = "idle" /\ j \in defs => j \in queue
                            /\ data[j] = "fetching" => open[j] > 0
  BY DEF LoadInv, Loads
<1>3. /\ less \in [Shelves -> 0..MaxOpen]
      /\ Cardinality(Replies(less)) = Cardinality(Replies(open)) - 1
      /\ Cardinality(Replies(open)) - 1 \in Nat
  BY <1>1, <1>2, ReplyEnded
<1>4. d \in [Shelves -> DataStates] /\ d[k] \in {"none", "done"}
      /\ \A j \in Shelves : j # k => d[j] = data[j] /\ less[j] = open[j]
  BY <1>2 DEF DataStates
<1> HIDE DEF d, less
<1>5. ASSUME NEW j \in Shelves
      PROVE  /\ d[j] = "idle" /\ j \in defs => j \in queue
             /\ d[j] = "fetching" => less[j] > 0
  <2>1. CASE j = k
    BY <1>4, <2>1
  <2>2. CASE j # k
    BY <1>2, <1>4, <2>2
  <2> QED
    BY <2>1, <2>2
<1>6. Loads(defs, d, queue, pending - 1, less)
  BY <1>2, <1>3, <1>4, <1>5 DEF Loads
<1>7. /\ Loads(defs, data', queue', pending', open')
      /\ pending' \in 0..kMaxInFlight
      /\ queue' # {} => pending' = kMaxInFlight
  BY <1>1, <1>6, PumpKeeps
<1> QED
  BY <1>1, <1>7 DEF LoadInv

\* Every step of HomeShelves.
LEMMA LoadStep == ASSUME LoadInv, HomePage!Next PROVE LoadInv'
<1>1. ShelfInv /\ ShelfInv'
  BY ShelfStep DEF LoadInv
<1>2. \A p \in Profiles : savedRows[p] \in [Shelves -> HomePage!RowStates]
  BY <1>1 DEF ShelfInv
<1>3. profile \in Profiles /\ defs \in SUBSET Shelves
  BY DEF LoadInv, ShelfInv
<1>4. ASSUME NEW ds \in SUBSET Shelves, HomePage!AddonsChange(ds) PROVE LoadInv'
  <2>1. HomePage!Refresh(profile, savedRows[profile], ds)
    BY <1>4 DEF HomePage!AddonsChange
  <2> QED
    BY <1>1, <1>2, <1>3, <2>1, RefreshLoads
<1>5. ASSUME NEW p \in Profiles, HomePage!SwitchShelves(p) PROVE LoadInv'
  <2>1. HomePage!Refresh(p, savedRows[p], defs)
    BY <1>5 DEF HomePage!SwitchShelves
  <2> QED
    BY <1>1, <1>2, <1>3, <2>1, RefreshLoads
<1>6. ASSUME NEW k \in Shelves, HomePage!MoveShelf(k) PROVE LoadInv'
  <2>1. HomePage!Rebuilt(savedRows[profile])
    BY <1>6 DEF HomePage!MoveShelf
  <2> QED
    BY <1>1, <1>2, <1>3, <2>1, RebuiltLoads
<1>7. ASSUME NEW remote \in [Shelves -> HomePage!RowStates], HomePage!ApplySynced(remote)
      PROVE  LoadInv'
  <2>1. PICK file \in [Shelves -> HomePage!RowStates] : HomePage!Rebuilt(file)
    BY <1>2, <1>3, <1>7 DEF HomePage!ApplySynced, HomePage!RowStates
  <2> QED
    BY <1>1, <2>1, RebuiltLoads
<1> QED
  BY <1>1, <1>4, <1>5, <1>6, <1>7, FlagsLoad, EnabledLoads, ReplyLoads
     DEF HomePage!Next, HomePage!User

\* HomeShelves starts with nothing queued and no reply open.
LEMMA LoadStarts == ASSUME HomePage!Init PROVE LoadInv
<1>1. /\ profile \in Profiles /\ defs = {}
      /\ savedRows = [p \in Profiles |-> [k \in Shelves |-> "none"]]
      /\ payload = [k \in Shelves |-> "none"] /\ shelfRows = payload
      /\ data = [k \in Shelves |-> "none"]
      /\ queue = {} /\ pending = 0 /\ open = [k \in Shelves |-> 0]
  BY DEF HomePage!Init
<1>2. ShelfInv /\ shelfRows \in [Shelves -> HomePage!RowStates]
  BY <1>1 DEF ShelfInv, HomePage!RowStates
<1>3. open \in [Shelves -> 0..MaxOpen] /\ \A k \in Shelves : open[k] = 0
  BY <1>1, ServicesAssumption
<1>4. Cardinality(Replies(open)) = 0
  <2>1. ~(Cardinality(Replies(open)) > 0)
    BY <1>3, RepliesOpen
  <2> QED
    BY <2>1, RepliesFinite
<1>5. data \in [Shelves -> DataStates] /\ \A k \in Shelves : data[k] = "none"
  BY <1>1 DEF DataStates
<1>6. Loads(defs, data, queue, pending, open)
  BY <1>1, <1>3, <1>4, <1>5 DEF Loads
<1>7. pending \in 0..kMaxInFlight
  BY <1>1, ServicesAssumption
<1> QED
  BY <1>1, <1>2, <1>6, <1>7 DEF LoadInv

\* The shelves run.
LEMMA LoadsAreInvariant == Spec => [](which = "shelves" => LoadInv)
<1> DEFINE I == which = "shelves" => LoadInv
<1>1. Init => I
  BY LoadStarts DEF Init
<1>2. I /\ [Next]_vars => I'
  <2> SUFFICES ASSUME I, [Next]_vars, which' = "shelves" PROVE LoadInv'
    OBVIOUS
  <2>1. which = "shelves" /\ LoadInv
    BY DEF Next, vars
  <2>2. CASE Next
    <3>1. HomePage!Next
      BY <2>1, <2>2 DEF Next
    <3> QED
      BY <2>1, <3>1, LoadStep
  <2>3. CASE UNCHANGED vars
    BY <2>1, <2>3 DEF vars, shelfVars, LoadInv, ShelfInv, Loads, Replies
  <2> QED
    BY <2>2, <2>3
<1> QED
  BY <1>1, <1>2, PTL DEF Spec

\* A key waits only while the slots are full, and the slots are the replies.
LEMMA LoadInvSays == ASSUME LoadInv PROVE HomePage!ShelvesKeepLoading
<1>1. pending > 0 <=> \E k \in Shelves : open[k] > 0
  BY RepliesOpen DEF LoadInv, Loads
<1>2. \A k \in HomePage!Live(shelfRows) : k \in Shelves /\ k \in defs
  BY DEF HomePage!Live, LoadInv
<1> QED
  BY <1>1, <1>2 DEF LoadInv, Loads, HomePage!ShelvesKeepLoading

-----------------------------------------------------------------------------
(* ReleaseNotificationManager. *)

\* The open requests of the refresh that runs.
CurrentOf(list) == {i \in DOMAIN list : list[i].current}

\* A refresh that is loading has the requests it counts.
AlertInv ==
    /\ Alerts!TypeOK
    /\ inflight >= Len(metaFetches) - MaxMeta /\ Len(metaFetches) <= MaxMeta
    /\ loading /\ ~miscounted => /\ inflight > 0
                                 /\ inflight = Cardinality(CurrentOf(metaFetches))

\* What the alerts need of the bounds.
LEMMA AlertBounds ==
    /\ MaxMeta \in Nat /\ kFetchConcurrency \in Nat /\ kFetchConcurrency > 0
    /\ kFetchConcurrency <= MaxMeta
BY ServicesAssumption

\* Cardinality, as the instance of ReleaseAlerts names it.
LEMMA AlertsCardinality == ASSUME NEW S PROVE Alerts!Cardinality(S) = Cardinality(S)
BY DEF Cardinality, Alerts!Cardinality

\* A library as a list: every show once.
LEMMA ShowsListed ==
    ASSUME NEW S \in SUBSET Shows
    PROVE  /\ Alerts!SetToSeq(S) \in Seq(Shows)
           /\ Len(Alerts!SetToSeq(S)) = Cardinality(S)
           /\ Cardinality(S) \in Nat /\ (S # {} => Cardinality(S) > 0)
<1>1. IsFiniteSet(S) /\ Cardinality(S) \in Nat
  BY ServicesAssumption, FS_Subset, FS_CardinalityType
<1>2. S # {} => Cardinality(S) > 0
  BY <1>1, FS_EmptySet
<1>3. \E f \in [1..Cardinality(S) -> S] : Alerts!IsInjective(f)
  <2>1. PICK f : f \in Bijection(1..Cardinality(S), S)
    BY <1>1, FS_CardinalityType DEF ExistsBijection
  <2> QED
    BY <2>1 DEF Bijection, Injection, IsInjective, Alerts!IsInjective
<1>4. Alerts!SetToSeq(S) \in [1..Cardinality(S) -> S]
  BY <1>3, AlertsCardinality DEF Alerts!SetToSeq
<1> DEFINE s == Alerts!SetToSeq(S)
<1> HIDE DEF s
<1>5. s \in [1..Cardinality(S) -> Shows]
  BY <1>4 DEF s
<1>6. s \in Seq(Shows)
  BY <1>1, <1>5
<1>7. Len(s) = Cardinality(S)
  BY <1>1, <1>5, <1>6
<1> QED
  BY <1>1, <1>2, <1>6, <1>7 DEF s

\* pumpQueue's requests are of the refresh that runs.
LEMMA FetchingTyped ==
    ASSUME NEW a \in Seq(Shows)
    PROVE  /\ Alerts!Fetching(a) \in Seq(Alerts!MetaFetch)
           /\ Len(Alerts!Fetching(a)) = Len(a)
           /\ \A i \in 1..Len(a) : Alerts!Fetching(a)[i].current
<1> DEFINE list == Alerts!Fetching(a)
<1>1. Len(a) \in Nat /\ DOMAIN a = 1..Len(a) /\ \A i \in 1..Len(a) : a[i] \in Shows
  OBVIOUS
<1>2. list = [i \in 1..Len(a) |-> [of |-> a[i], current |-> TRUE]]
  BY <1>1 DEF Alerts!Fetching
<1>3. \A i \in 1..Len(a) : [of |-> a[i], current |-> TRUE] \in Alerts!MetaFetch
  BY <1>1 DEF Alerts!MetaFetch
<1> HIDE DEF list
<1>4. list \in [1..Len(a) -> Alerts!MetaFetch] /\ \A i \in 1..Len(a) : list[i].current
  BY <1>2, <1>3
<1>5. list \in Seq(Alerts!MetaFetch)
  BY <1>1, <1>4
<1>6. Len(list) = Len(a)
  BY <1>1, <1>4, <1>5
<1> QED
  BY <1>4, <1>5, <1>6 DEF list

\* What is asked for at once, and what waits.
LEMMA ShowsSplit ==
    ASSUME NEW shows \in Seq(Shows), NEW now \in Nat, now <= Len(shows)
    PROVE  /\ Alerts!Fetching(SubSeq(shows, 1, now)) \in Seq(Alerts!MetaFetch)
           /\ Len(Alerts!Fetching(SubSeq(shows, 1, now))) = now
           /\ \A i \in 1..now : Alerts!Fetching(SubSeq(shows, 1, now))[i].current
           /\ SubSeq(shows, now + 1, Len(shows)) \in Seq(Shows)
<1> DEFINE a == SubSeq(shows, 1, now)
<1>1. a \in Seq(Shows) /\ Len(a) = now
  OBVIOUS
<1>2. SubSeq(shows, now + 1, Len(shows)) \in Seq(Shows)
  OBVIOUS
<1> HIDE DEF a
<1>3. /\ Alerts!Fetching(a) \in Seq(Alerts!MetaFetch) /\ Len(Alerts!Fetching(a)) = now
      /\ \A i \in 1..now : Alerts!Fetching(a)[i].current
  BY <1>1, FetchingTyped
<1> QED
  BY <1>2, <1>3 DEF a

\* ++m_refreshToken leaves no request current.
LEMMA SupersededTyped ==
    ASSUME metaFetches \in Seq(Alerts!MetaFetch)
    PROVE  /\ Alerts!Superseded \in Seq(Alerts!MetaFetch)
           /\ Len(Alerts!Superseded) = Len(metaFetches)
           /\ \A i \in DOMAIN metaFetches : ~Alerts!Superseded[i].current
<1> DEFINE list == Alerts!Superseded
<1>1. Len(metaFetches) \in Nat /\ DOMAIN metaFetches = 1..Len(metaFetches)
      /\ \A i \in DOMAIN metaFetches : metaFetches[i] \in Alerts!MetaFetch
  OBVIOUS
<1>2. list = [i \in 1..Len(metaFetches) |-> [metaFetches[i] EXCEPT !.current = FALSE]]
  BY <1>1 DEF Alerts!Superseded
<1>3. \A i \in 1..Len(metaFetches) : /\ [metaFetches[i] EXCEPT !.current = FALSE] \in Alerts!MetaFetch
                                     /\ ~[metaFetches[i] EXCEPT !.current = FALSE].current
  BY <1>1 DEF Alerts!MetaFetch
<1> HIDE DEF list
<1>4. list \in Seq(Alerts!MetaFetch)
  BY <1>1, <1>2, <1>3
<1>5. Len(list) = Len(metaFetches) /\ \A i \in 1..Len(metaFetches) : ~list[i].current
  <2>1. list \in [1..Len(metaFetches) -> Alerts!MetaFetch]
    BY <1>2, <1>3
  <2>3. Len(list) = Len(metaFetches)
    BY <1>1, <1>4, <2>1
  <2>4. \A i \in 1..Len(metaFetches) : list[i] = [metaFetches[i] EXCEPT !.current = FALSE]
    BY <1>2
  <2> QED
    BY <1>3, <2>3, <2>4
<1> QED
  BY <1>1, <1>4, <1>5 DEF list

\* Requests joined: as many are current as in the one and the other.
LEMMA CurrentJoined ==
    ASSUME NEW a \in Seq(Alerts!MetaFetch), NEW b \in Seq(Alerts!MetaFetch)
    PROVE  /\ a \o b \in Seq(Alerts!MetaFetch) /\ Len(a \o b) = Len(a) + Len(b)
           /\ Cardinality(CurrentOf(a \o b)) = Cardinality(CurrentOf(a)) + Cardinality(CurrentOf(b))
           /\ {Cardinality(CurrentOf(a)), Cardinality(CurrentOf(b))} \subseteq Nat
<1> DEFINE w == a \o b
           shifted == {i + Len(a) : i \in CurrentOf(b)}
           f == [i \in CurrentOf(b) |-> i + Len(a)]
<1>1. Len(a) \in Nat /\ DOMAIN a = 1..Len(a) /\ Len(b) \in Nat /\ DOMAIN b = 1..Len(b)
  OBVIOUS
<1>2. w \in Seq(Alerts!MetaFetch) /\ Len(w) = Len(a) + Len(b) /\ DOMAIN w = 1..Len(w)
  OBVIOUS
<1>3. \A i \in 1..(Len(a) + Len(b)) : w[i] = IF i <= Len(a) THEN a[i] ELSE b[i - Len(a)]
  OBVIOUS
<1> HIDE DEF w
<1>4. /\ IsFiniteSet(CurrentOf(a)) /\ IsFiniteSet(CurrentOf(b))
      /\ CurrentOf(a) \in SUBSET (1..Len(a)) /\ CurrentOf(b) \in SUBSET (1..Len(b))
  <2>1. CurrentOf(a) \in SUBSET (1..Len(a)) /\ CurrentOf(b) \in SUBSET (1..Len(b))
    BY <1>1 DEF CurrentOf
  <2>2. IsFiniteSet(1..Len(a)) /\ IsFiniteSet(1..Len(b))
    BY <1>1, FS_Interval
  <2> QED
    BY <2>1, <2>2, FS_Subset
<1>5. f \in Bijection(CurrentOf(b), shifted)
  <2>1. \A i \in CurrentOf(b) : i \in Nat
    BY <1>1, <1>4
  <2> QED
    BY <1>1, <2>1 DEF Bijection, Injection, Surjection, IsInjective
<1>6. IsFiniteSet(shifted) /\ Cardinality(shifted) = Cardinality(CurrentOf(b))
  BY <1>4, <1>5, FS_Bijection DEF ExistsBijection
<1>7. CurrentOf(w) = CurrentOf(a) \cup shifted
  <2>1. ASSUME NEW i \in CurrentOf(w) PROVE i \in CurrentOf(a) \cup shifted
    <3>1. i \in 1..(Len(a) + Len(b)) /\ w[i].current
      BY <1>2 DEF CurrentOf
    <3>2. CASE i <= Len(a)
      BY <1>1, <1>3, <3>1, <3>2 DEF CurrentOf
    <3>3. CASE ~(i <= Len(a))
      <4>1. i - Len(a) \in DOMAIN b /\ i = (i - Len(a)) + Len(a)
        BY <1>1, <3>1, <3>3
      <4>2. b[i - Len(a)].current
        BY <1>3, <3>1, <3>3
      <4> QED
        BY <4>1, <4>2 DEF CurrentOf
    <3> QED
      BY <3>2, <3>3
  <2>2. ASSUME NEW i \in CurrentOf(a) PROVE i \in CurrentOf(w)
    <3>1. i \in DOMAIN a /\ a[i].current
      BY DEF CurrentOf
    <3>2. i \in 1..(Len(a) + Len(b)) /\ i <= Len(a)
      BY <1>1, <3>1
    <3> QED
      BY <1>2, <1>3, <3>1, <3>2 DEF CurrentOf
  <2>3. ASSUME NEW j \in CurrentOf(b) PROVE j + Len(a) \in CurrentOf(w)
    <3>1. j \in DOMAIN b /\ b[j].current
      BY DEF CurrentOf
    <3>2. /\ j + Len(a) \in 1..(Len(a) + Len(b)) /\ ~(j + Len(a) <= Len(a))
          /\ (j + Len(a)) - Len(a) = j
      BY <1>1, <3>1
    <3> QED
      BY <1>2, <1>3, <3>1, <3>2 DEF CurrentOf
  <2> QED
    BY <2>1, <2>2, <2>3
<1>8. CurrentOf(a) \cap shifted = {}
  <2> SUFFICES ASSUME NEW j \in CurrentOf(b), j + Len(a) \in CurrentOf(a) PROVE FALSE
    OBVIOUS
  <2>1. j \in 1..Len(b) /\ j + Len(a) \in 1..Len(a)
    BY <1>4
  <2> QED
    BY <1>1, <2>1
<1> HIDE DEF shifted
<1>9. Cardinality(CurrentOf(a) \cup shifted)
        = Cardinality(CurrentOf(a)) + Cardinality(shifted) - Cardinality(CurrentOf(a) \cap shifted)
  BY <1>4, <1>6, FS_Union
<1>10. Cardinality(CurrentOf(a) \cap shifted) = 0
  BY <1>8, FS_EmptySet
<1>11. Cardinality(CurrentOf(a)) \in Nat /\ Cardinality(CurrentOf(b)) \in Nat
  BY <1>4, FS_CardinalityType
<1>12. Cardinality(CurrentOf(w)) = Cardinality(CurrentOf(a)) + Cardinality(CurrentOf(b))
  BY <1>6, <1>7, <1>9, <1>10, <1>11
<1> QED
  BY <1>2, <1>11, <1>12 DEF w

\* A request that ends: one current one fewer, if it was current.
LEMMA CurrentEnded ==
    ASSUME NEW s \in Seq(Alerts!MetaFetch), NEW i \in DOMAIN s
    PROVE  /\ Alerts!RemoveAt(s, i) \in Seq(Alerts!MetaFetch)
           /\ Len(Alerts!RemoveAt(s, i)) = Len(s) - 1
           /\ Cardinality(CurrentOf(Alerts!RemoveAt(s, i)))
                = Cardinality(CurrentOf(s)) - IF s[i].current THEN 1 ELSE 0
           /\ Cardinality(CurrentOf(s)) \in Nat
<1> DEFINE a == SubSeq(s, 1, i - 1)
           b == SubSeq(s, i + 1, Len(s))
           mid == <<s[i]>>
<1>1. Len(s) \in Nat /\ DOMAIN s = 1..Len(s) /\ i \in 1..Len(s) /\ s[i] \in Alerts!MetaFetch
  OBVIOUS
<1>2. a \in Seq(Alerts!MetaFetch) /\ b \in Seq(Alerts!MetaFetch) /\ mid \in Seq(Alerts!MetaFetch)
  BY <1>1
<1>3. Len(a) = i - 1 /\ Len(b) = Len(s) - i /\ Len(mid) = 1
  BY <1>1
<1>4. s = (a \o mid) \o b
  <2> DEFINE w == (a \o mid) \o b
  <2>1. a \o mid \in Seq(Alerts!MetaFetch) /\ Len(a \o mid) = i
    BY <1>1, <1>2, <1>3
  <2>2. w \in Seq(Alerts!MetaFetch) /\ Len(w) = Len(s)
    <3>1. w \in Seq(Alerts!MetaFetch) /\ Len(w) = Len(a \o mid) + Len(b)
      BY <1>2, <2>1
    <3> QED
      BY <1>1, <1>3, <2>1, <3>1, SMTT(30)
  <2>3. ASSUME NEW j \in 1..Len(s) PROVE w[j] = s[j]
    <3>1. CASE j < i
      <4>1. (a \o mid)[j] = a[j] /\ a[j] = s[j]
        BY <1>1, <1>2, <1>3, <3>1
      <4>2. w[j] = (a \o mid)[j]
        BY <1>1, <1>2, <2>1, <3>1
      <4> QED
        BY <4>1, <4>2
    <3>2. CASE j = i
      <4>1. (a \o mid)[i] = s[i]
        BY <1>1, <1>2, <1>3
      <4>2. w[j] = (a \o mid)[i]
        BY <1>1, <1>2, <2>1, <3>2
      <4> QED
        BY <3>2, <4>1, <4>2
    <3>3. CASE j > i
      <4>1. j - i \in 1..Len(b) /\ i + (j - i) = j
        BY <1>1, <1>3, <3>3
      <4>2. w[j] = b[j - i]
        <5> DEFINE c == a \o mid
        <5>1. c \in Seq(Alerts!MetaFetch) /\ Len(c) = i
          BY <2>1
        <5>2. w = c \o b
          OBVIOUS
        <5> HIDE DEF c, w, b
        <5>3. b \in Seq(Alerts!MetaFetch) /\ Len(b) \in Nat /\ i \in Nat /\ j \in Nat
          BY <1>1, <1>2
        <5>4. j \in (Len(c) + 1)..(Len(c) + Len(b))
          BY <3>3, <4>1, <5>1, <5>3
        <5>5. (c \o b)[j] = b[j - Len(c)]
          BY <5>1, <5>3, <5>4
        <5> QED
          BY <5>1, <5>2, <5>5
      <4>3. b[j - i] = s[j]
        BY <1>1, <3>3, <4>1
      <4> QED
        BY <4>2, <4>3
    <3> QED
      BY <1>1, <3>1, <3>2, <3>3
  <2> HIDE DEF w
  <2>4. w \in [1..Len(s) -> Alerts!MetaFetch]
    BY <1>1, <2>2
  <2>5. s \in [1..Len(s) -> Alerts!MetaFetch]
    OBVIOUS
  <2>6. w = s
    BY <2>3, <2>4, <2>5
  <2> QED
    BY <2>6 DEF w
<1>5. Alerts!RemoveAt(s, i) = a \o b
  BY DEF Alerts!RemoveAt
<1>6. Cardinality(CurrentOf(mid)) = IF s[i].current THEN 1 ELSE 0
  <2>1. CASE s[i].current
    <3>1. CurrentOf(mid) = {1}
      BY <2>1 DEF CurrentOf
    <3> QED
      BY <2>1, <3>1, FS_Singleton
  <2>2. CASE ~s[i].current
    <3>1. CurrentOf(mid) = {}
      BY <2>2 DEF CurrentOf
    <3> QED
      BY <2>2, <3>1, FS_EmptySet
  <2> QED
    BY <2>1, <2>2
<1> HIDE DEF a, b, mid
<1>7. /\ a \o mid \in Seq(Alerts!MetaFetch)
      /\ Cardinality(CurrentOf(a \o mid)) = Cardinality(CurrentOf(a)) + Cardinality(CurrentOf(mid))
      /\ {Cardinality(CurrentOf(a)), Cardinality(CurrentOf(mid))} \subseteq Nat
  BY <1>2, CurrentJoined
<1>8. /\ Cardinality(CurrentOf(s)) = Cardinality(CurrentOf(a \o mid)) + Cardinality(CurrentOf(b))
      /\ Cardinality(CurrentOf(b)) \in Nat
  <2>1. /\ Cardinality(CurrentOf((a \o mid) \o b))
             = Cardinality(CurrentOf(a \o mid)) + Cardinality(CurrentOf(b))
        /\ Cardinality(CurrentOf(b)) \in Nat
    BY <1>2, <1>7, CurrentJoined
  <2> QED
    BY <1>4, <2>1
<1>9. /\ a \o b \in Seq(Alerts!MetaFetch) /\ Len(a \o b) = Len(a) + Len(b)
      /\ Cardinality(CurrentOf(a \o b)) = Cardinality(CurrentOf(a)) + Cardinality(CurrentOf(b))
  BY <1>2, CurrentJoined
<1>10. Len(a \o b) = Len(s) - 1
  BY <1>1, <1>3, <1>9
<1>11. /\ Cardinality(CurrentOf(a \o b)) = Cardinality(CurrentOf(s)) - Cardinality(CurrentOf(mid))
       /\ Cardinality(CurrentOf(s)) \in Nat
  BY <1>7, <1>8, <1>9
<1> QED
  BY <1>5, <1>6, <1>9, <1>10, <1>11

\* A list whose requests are all current, or none.
LEMMA CurrentCounted ==
    ASSUME NEW s \in Seq(Alerts!MetaFetch)
    PROVE  /\ (\A i \in 1..Len(s) : s[i].current) => Cardinality(CurrentOf(s)) = Len(s)
           /\ (\A i \in 1..Len(s) : ~s[i].current) => Cardinality(CurrentOf(s)) = 0
<1>1. Len(s) \in Nat /\ DOMAIN s = 1..Len(s)
  OBVIOUS
<1>2. ASSUME \A i \in 1..Len(s) : s[i].current PROVE Cardinality(CurrentOf(s)) = Len(s)
  <2>1. CurrentOf(s) = 1..Len(s)
    BY <1>1, <1>2 DEF CurrentOf
  <2>2. Cardinality(1..Len(s)) = Len(s)
    BY <1>1, FS_Interval
  <2> QED
    BY <2>1, <2>2
<1>3. ASSUME \A i \in 1..Len(s) : ~s[i].current PROVE Cardinality(CurrentOf(s)) = 0
  <2>1. CurrentOf(s) = {}
    BY <1>1, <1>3 DEF CurrentOf
  <2> QED
    BY <2>1, FS_EmptySet
<1> QED
  BY <1>2, <1>3

\* What a refresh is that has just begun.
LEMMA RefreshBegins ==
    ASSUME AlertInv, NEW library \in SUBSET Shows, NEW running \in BOOLEAN, NEW available \in BOOLEAN,
           Alerts!RefreshAsync(library, running, available),
           alertsOn' \in [Profiles -> BOOLEAN], running = loading \/ running = FALSE,
           UNCHANGED <<bound, profile, told>>, series' \in [Profiles -> SUBSET Shows]
    PROVE  AlertInv'
<1>1. metaFetches \in Seq(Alerts!MetaFetch) /\ follows \in [Profiles -> SUBSET Shows]
  BY DEF AlertInv, Alerts!TypeOK
<1>2. CASE running
  BY <1>2 DEF Alerts!RefreshAsync, AlertInv, Alerts!TypeOK, CurrentOf
<1>3. CASE ~running
  <2>1. follows' \in [Profiles -> SUBSET Shows]
    BY <1>1, <1>3 DEF Alerts!RefreshAsync, Alerts!Reconciled
  <2>2. CASE ~(alertsOn'[bound] /\ available /\ library # {})
    <3>1. loading' = FALSE /\ UNCHANGED <<backlog, inflight, metaFetches, collecting, miscounted>>
      BY <1>3, <2>2 DEF Alerts!RefreshAsync
    <3> QED
      BY <2>1, <3>1 DEF AlertInv, Alerts!TypeOK
  <2>3. CASE alertsOn'[bound] /\ available /\ library # {}
    <3> DEFINE shows == Alerts!SetToSeq(library)
               now == IF Len(shows) < kFetchConcurrency THEN Len(shows) ELSE kFetchConcurrency
               old == Alerts!Superseded
               new == Alerts!Fetching(SubSeq(shows, 1, now))
    <3>1. Alerts!Pumped(shows) /\ loading' = TRUE /\ collecting' = {} /\ miscounted' = FALSE
      BY <1>3, <2>3 DEF Alerts!RefreshAsync
    <3>2. /\ metaFetches' = old \o new /\ Len(metaFetches') <= MaxMeta
          /\ backlog' = SubSeq(shows, now + 1, Len(shows)) /\ inflight' = now
      BY <3>1 DEF Alerts!Pumped
    <3>3. shows \in Seq(Shows) /\ Len(shows) \in Nat /\ Len(shows) > 0
      BY <2>3, ShowsListed
    <3>4. now \in Nat /\ now <= Len(shows) /\ now > 0 /\ now <= kFetchConcurrency
      BY <3>3, AlertBounds
    <3> HIDE DEF shows, now
    <3>5. /\ new \in Seq(Alerts!MetaFetch) /\ Len(new) = now
          /\ \A i \in 1..now : new[i].current
          /\ SubSeq(shows, now + 1, Len(shows)) \in Seq(Shows)
      BY <3>3, <3>4, ShowsSplit
    <3>6. /\ old \in Seq(Alerts!MetaFetch) /\ Len(old) = Len(metaFetches)
          /\ \A i \in 1..Len(old) : ~old[i].current
      BY <1>1, SupersededTyped
    <3> HIDE DEF old, new
    <3>7. /\ old \o new \in Seq(Alerts!MetaFetch)
          /\ Cardinality(CurrentOf(old \o new)) = Cardinality(CurrentOf(old)) + Cardinality(CurrentOf(new))
      BY <3>5, <3>6, CurrentJoined
    <3>8. Cardinality(CurrentOf(old)) = 0 /\ Cardinality(CurrentOf(new)) = now
      BY <3>5, <3>6, CurrentCounted
    <3>9. Cardinality(CurrentOf(metaFetches')) = inflight'
      BY <3>2, <3>4, <3>7, <3>8
    <3>10. inflight' \in -MaxMeta..kFetchConcurrency /\ inflight' > 0
           /\ inflight' >= Len(metaFetches') - MaxMeta
      <4>1. Len(metaFetches') \in Nat
        BY <3>2, <3>7
      <4> QED
        BY <3>2, <3>4, <4>1, AlertBounds
    <3> QED
      BY <2>1, <3>1, <3>2, <3>5, <3>7, <3>9, <3>10 DEF AlertInv, Alerts!TypeOK
  <2> QED
    BY <2>2, <2>3
<1> QED
  BY <1>2, <1>3

\* The toggle, the sync payload and the library, which may begin a refresh.
LEMMA AlertsUsed ==
    ASSUME AlertInv, NEW on \in BOOLEAN, NEW available \in BOOLEAN, NEW library \in SUBSET Shows,
           \/ Alerts!SetEnabled(on, available) \/ Alerts!ApplySyncPayload(on, available)
           \/ Alerts!LibraryChanges(library, available)
    PROVE  AlertInv'
<1>1. /\ series \in [Profiles -> SUBSET Shows] /\ alertsOn \in [Profiles -> BOOLEAN]
      /\ profile \in Profiles /\ series[profile] \in SUBSET Shows /\ loading \in BOOLEAN
      /\ follows \in [Profiles -> SUBSET Shows]
  BY DEF AlertInv, Alerts!TypeOK
<1>2. CASE Alerts!SetEnabled(on, available)
  <2>1. alertsOn' \in [Profiles -> BOOLEAN] /\ UNCHANGED <<profile, series, bound, told>>
    BY <1>1, <1>2 DEF Alerts!SetEnabled
  <2>2. CASE on /\ available
    <3>1. Alerts!RefreshAsync(series[profile], FALSE, TRUE)
      BY <1>2, <2>2 DEF Alerts!SetEnabled
    <3> QED
      BY <1>1, <2>1, <3>1, RefreshBegins
  <2>3. CASE ~(on /\ available)
    <3>1. UNCHANGED <<follows, loading, backlog, inflight, metaFetches, collecting, miscounted>>
      BY <1>2, <2>3 DEF Alerts!SetEnabled
    <3> QED
      BY <2>1, <3>1 DEF AlertInv, Alerts!TypeOK
  <2> QED
    BY <2>2, <2>3
<1>3. CASE Alerts!ApplySyncPayload(on, available)
  <2>1. /\ alertsOn' \in [Profiles -> BOOLEAN] /\ UNCHANGED <<profile, series, bound, told>>
        /\ Alerts!RefreshAsync(series[profile], FALSE, available)
    BY <1>1, <1>3 DEF Alerts!ApplySyncPayload
  <2> QED
    BY <1>1, <2>1, RefreshBegins
<1>4. CASE Alerts!LibraryChanges(library, available)
  <2>1. series' \in [Profiles -> SUBSET Shows] /\ UNCHANGED <<profile, bound, alertsOn, told>>
    BY <1>1, <1>4 DEF Alerts!LibraryChanges
  <2>2. CASE alertsOn[bound] /\ ~loading
    <3>1. Alerts!RefreshAsync(library, FALSE, available)
      BY <1>4, <2>2 DEF Alerts!LibraryChanges
    <3> QED
      BY <1>1, <2>1, <3>1, RefreshBegins
  <2>3. CASE ~(alertsOn[bound] /\ ~loading)
    <3>1. /\ follows' = Alerts!Reconciled(library)
          /\ UNCHANGED <<loading, backlog, inflight, metaFetches, collecting, miscounted>>
      BY <1>4, <2>3 DEF Alerts!LibraryChanges
    <3>2. follows' \in [Profiles -> SUBSET Shows]
      BY <1>1, <3>1 DEF Alerts!Reconciled
    <3> QED
      BY <2>1, <3>1, <3>2 DEF AlertInv, Alerts!TypeOK
  <2> QED
    BY <2>2, <2>3
<1> QED
  BY <1>2, <1>3, <1>4

\* A switch of profiles drops the refresh that it began itself.
LEMMA AlertsSwitch ==
    ASSUME AlertInv, NEW p \in Profiles, NEW available \in BOOLEAN,
           Alerts!SwitchProfile(p, available)
    PROVE  AlertInv'
<1> DEFINE fetch == alertsOn[bound] /\ ~loading /\ available /\ series[p] # {}
           shows == Alerts!SetToSeq(series[p])
           now == IF Len(shows) < kFetchConcurrency THEN Len(shows) ELSE kFetchConcurrency
           dropped == [i \in 1..now |-> [of |-> shows[i], current |-> FALSE]]
           old == Alerts!Superseded
           more == IF fetch THEN dropped ELSE <<>>
<1>1. /\ profile' = p /\ bound' = p
      /\ follows' = Alerts!Reconciled(series[p])
      /\ metaFetches' = old \o more
      /\ Len(metaFetches') <= MaxMeta
      /\ backlog' = IF fetch THEN SubSeq(shows, now + 1, Len(shows)) ELSE backlog
      /\ collecting' = IF fetch THEN {} ELSE collecting
      /\ loading' = FALSE /\ inflight' = 0 /\ miscounted' = FALSE
      /\ UNCHANGED <<series, alertsOn, told>>
  BY DEF Alerts!SwitchProfile
<1>2. /\ metaFetches \in Seq(Alerts!MetaFetch) /\ series[p] \in SUBSET Shows
      /\ follows \in [Profiles -> SUBSET Shows] /\ backlog \in Seq(Shows)
      /\ collecting \in SUBSET Shows
  BY DEF AlertInv, Alerts!TypeOK
<1>3. shows \in Seq(Shows) /\ Len(shows) \in Nat
  BY <1>2, ShowsListed
<1> HIDE DEF shows
<1>4. now \in Nat /\ now <= Len(shows)
  BY <1>3, AlertBounds
<1> HIDE DEF now
<1>5. dropped \in Seq(Alerts!MetaFetch)
  <2>1. \A i \in 1..now : [of |-> shows[i], current |-> FALSE] \in Alerts!MetaFetch
    BY <1>3, <1>4 DEF Alerts!MetaFetch
  <2> QED
    BY <1>4, <2>1
<1>6. backlog' \in Seq(Shows)
  BY <1>1, <1>2, <1>3, <1>4, ShowsSplit
<1> HIDE DEF dropped
<1>7. old \in Seq(Alerts!MetaFetch)
  BY <1>2, SupersededTyped
<1>8. more \in Seq(Alerts!MetaFetch)
  BY <1>5
<1> HIDE DEF old, more
<1>9. metaFetches' \in Seq(Alerts!MetaFetch) /\ Len(metaFetches') \in Nat
  BY <1>1, <1>7, <1>8
<1>10. follows' \in [Profiles -> SUBSET Shows] /\ collecting' \in SUBSET Shows
  BY <1>1, <1>2 DEF Alerts!Reconciled
<1>11. inflight' \in -MaxMeta..kFetchConcurrency /\ inflight' >= Len(metaFetches') - MaxMeta
  BY <1>1, <1>9, AlertBounds
<1> QED
  BY <1>1, <1>6, <1>9, <1>10, <1>11 DEF AlertInv, Alerts!TypeOK

\* main refreshes once: every request is of that refresh.
LEMMA AlertsRestart ==
    ASSUME AlertInv, NEW p \in Profiles, NEW available \in BOOLEAN,
           Alerts!Restart(p, available)
    PROVE  AlertInv'
<1> DEFINE shows == Alerts!SetToSeq(series[p])
           now == IF Len(shows) < kFetchConcurrency THEN Len(shows) ELSE kFetchConcurrency
           fetch == alertsOn[p] /\ available /\ shows # <<>>
           new == Alerts!Fetching(SubSeq(shows, 1, now))
<1>1. /\ profile' = p /\ bound' = p
      /\ follows' = [follows EXCEPT ![p] = series[p]]
      /\ loading' = fetch
      /\ metaFetches' = IF fetch THEN new ELSE <<>>
      /\ backlog' = IF fetch THEN SubSeq(shows, now + 1, Len(shows)) ELSE <<>>
      /\ inflight' = IF fetch THEN now ELSE 0
      /\ collecting' = {} /\ miscounted' = FALSE
      /\ UNCHANGED <<series, alertsOn, told>>
  BY DEF Alerts!Restart
<1>2. /\ series[p] \in SUBSET Shows
      /\ follows \in [Profiles -> SUBSET Shows] /\ alertsOn[p] \in BOOLEAN
  BY DEF AlertInv, Alerts!TypeOK
<1>3. shows \in Seq(Shows) /\ Len(shows) \in Nat
  BY <1>2, ShowsListed
<1> HIDE DEF shows
<1>4. now \in Nat /\ now <= Len(shows) /\ now <= kFetchConcurrency /\ (shows # <<>> => now > 0)
  BY <1>3, AlertBounds
<1> HIDE DEF now
<1>5. /\ new \in Seq(Alerts!MetaFetch) /\ Len(new) = now
      /\ \A i \in 1..now : new[i].current
      /\ SubSeq(shows, now + 1, Len(shows)) \in Seq(Shows)
  BY <1>3, <1>4, ShowsSplit
<1> HIDE DEF new
<1>6. Cardinality(CurrentOf(new)) = now
  BY <1>5, CurrentCounted
<1>7. follows' \in [Profiles -> SUBSET Shows] /\ loading' \in BOOLEAN
  BY <1>1, <1>2
<1>8. CASE fetch
  <2>0. /\ loading' = TRUE /\ inflight' = now /\ metaFetches' = new
        /\ shows # <<>>
    BY <1>1, <1>8
  <2>1. /\ now \in -MaxMeta..kFetchConcurrency /\ now <= MaxMeta
        /\ now >= now - MaxMeta /\ now > 0
    BY <1>4, <2>0, AlertBounds
  <2> QED
    BY <1>1, <1>5, <1>6, <1>7, <1>8, <2>0, <2>1 DEF AlertInv, Alerts!TypeOK
<1>9. CASE ~fetch
  <2>1. metaFetches' = <<>> /\ backlog' = <<>> /\ inflight' = 0 /\ loading' = FALSE
    BY <1>1, <1>9
  <2>2. /\ <<>> \in Seq(Alerts!MetaFetch) /\ <<>> \in Seq(Shows) /\ Len(<<>>) = 0
        /\ 0 \in -MaxMeta..kFetchConcurrency /\ 0 >= 0 - MaxMeta /\ 0 <= MaxMeta
    BY AlertBounds
  <2> QED
    BY <1>1, <1>7, <2>1, <2>2 DEF AlertInv, Alerts!TypeOK
<1> QED
  BY <1>8, <1>9

\* A reply: the next show is asked for in its place, or the count goes down, and
\* the last of the refresh ends it.
LEMMA AlertsAnswered ==
    ASSUME AlertInv, NEW i \in DOMAIN metaFetches, NEW due \in BOOLEAN, NEW sent \in BOOLEAN,
           Alerts!MetaReply(i, due, sent)
    PROVE  AlertInv'
<1> DEFINE r == metaFetches[i]
           left == Alerts!RemoveAt(metaFetches, i)
           n == Cardinality(CurrentOf(metaFetches))
<1>1. /\ metaFetches \in Seq(Alerts!MetaFetch) /\ Len(metaFetches) \in Nat
      /\ backlog \in Seq(Shows) /\ inflight \in Int /\ loading \in BOOLEAN
      /\ miscounted \in BOOLEAN /\ collecting \in SUBSET Shows
      /\ told \in [Profiles -> SUBSET Shows] /\ bound \in Profiles
      /\ inflight <= kFetchConcurrency
  BY AlertBounds DEF AlertInv, Alerts!TypeOK
<1>2. r \in Alerts!MetaFetch
  BY <1>1
<1>3. r.of \in Shows /\ r.current \in BOOLEAN
  BY <1>2 DEF Alerts!MetaFetch
<1>4. /\ left \in Seq(Alerts!MetaFetch) /\ Len(left) = Len(metaFetches) - 1
      /\ Cardinality(CurrentOf(left)) = n - IF r.current THEN 1 ELSE 0
      /\ n \in Nat
  BY <1>1, CurrentEnded
<1> HIDE DEF left
<1>5. /\ collecting' \in SUBSET Shows /\ miscounted' \in BOOLEAN
      /\ miscounted' = (miscounted \/ (loading /\ ~r.current))
      /\ UNCHANGED <<profile, series, bound, follows, alertsOn>>
  BY <1>1, <1>3 DEF Alerts!MetaReply
<1> HIDE DEF r, n
<1>6. CASE r.current /\ backlog # <<>>
  <2> DEFINE one == Alerts!Fetching(<<Head(backlog)>>)
  <2>1. /\ metaFetches' = left \o one /\ backlog' = Tail(backlog)
        /\ UNCHANGED <<inflight, loading, told>>
    BY <1>6 DEF Alerts!MetaReply, r, left
  <2>2. Head(backlog) \in Shows /\ Tail(backlog) \in Seq(Shows)
    BY <1>1, <1>6
  <2>3. <<Head(backlog)>> \in Seq(Shows) /\ Len(<<Head(backlog)>>) = 1
    BY <2>2
  <2>5. one \in Seq(Alerts!MetaFetch) /\ Len(one) = 1 /\ \A j \in 1..Len(one) : one[j].current
    BY <2>3, FetchingTyped
  <2> HIDE DEF one
  <2>6. /\ left \o one \in Seq(Alerts!MetaFetch) /\ Len(left \o one) = Len(left) + Len(one)
        /\ Cardinality(CurrentOf(left \o one)) = Cardinality(CurrentOf(left)) + Cardinality(CurrentOf(one))
    BY <1>4, <2>5, CurrentJoined
  <2>7. Cardinality(CurrentOf(one)) = 1
    BY <2>5, CurrentCounted
  <2>8. Len(metaFetches') = Len(metaFetches) /\ Cardinality(CurrentOf(metaFetches')) = n
    BY <1>1, <1>4, <1>6, <2>1, <2>5, <2>6, <2>7
  <2> QED
    BY <1>5, <1>6, <2>1, <2>2, <2>6, <2>8 DEF AlertInv, Alerts!TypeOK, n
<1>7. CASE r.current /\ backlog = <<>> /\ inflight = 1 /\ loading
  <2>1. metaFetches' = left /\ Alerts!FinishRefresh(collecting', sent) /\ UNCHANGED backlog
    BY <1>7 DEF Alerts!MetaReply, r, left
  <2>2. loading' = FALSE /\ inflight' = 0 /\ told' \in [Profiles -> SUBSET Shows]
    BY <1>1, <1>5, <2>1 DEF Alerts!FinishRefresh
  <2>3. /\ inflight' \in -MaxMeta..kFetchConcurrency
        /\ Len(metaFetches') <= MaxMeta /\ inflight' >= Len(metaFetches') - MaxMeta
    BY <1>1, <1>4, <2>1, <2>2, AlertBounds DEF AlertInv
  <2> QED
    BY <1>4, <1>5, <2>1, <2>2, <2>3 DEF AlertInv, Alerts!TypeOK
<1>8. CASE ~(r.current /\ backlog # <<>>) /\ ~(r.current /\ backlog = <<>> /\ inflight = 1 /\ loading)
  <2>1. metaFetches' = left /\ inflight' = inflight - 1 /\ UNCHANGED <<backlog, loading, told>>
    BY <1>8 DEF Alerts!MetaReply, r, left
  <2>0. /\ inflight - 1 >= Len(metaFetches) - 1 - MaxMeta /\ Len(metaFetches) <= MaxMeta
        /\ Len(left) \in Nat
    BY <1>1, <1>4, AlertBounds DEF AlertInv
  <2>2. /\ inflight' \in -MaxMeta..kFetchConcurrency
        /\ Len(metaFetches') <= MaxMeta /\ inflight' >= Len(metaFetches') - MaxMeta
    BY <1>1, <1>4, <2>0, <2>1, AlertBounds
  <2>3. ASSUME loading', ~miscounted'
        PROVE  inflight' > 0 /\ inflight' = Cardinality(CurrentOf(metaFetches'))
    <3>1. loading /\ ~miscounted /\ r.current
      BY <1>3, <1>5, <2>1, <2>3 DEF r
    <3>2. inflight > 0 /\ inflight = n /\ inflight # 1
      BY <1>8, <3>1 DEF AlertInv, n
    <3> QED
      BY <1>1, <1>4, <2>1, <3>1, <3>2
  <2> QED
    BY <1>4, <1>5, <2>1, <2>2, <2>3 DEF AlertInv, Alerts!TypeOK
<1> QED
  BY <1>6, <1>7, <1>8

\* Every step of the release alerts.
LEMMA AlertStep == ASSUME AlertInv, Alerts!Next PROVE AlertInv'
BY AlertsUsed, AlertsSwitch, AlertsRestart, AlertsAnswered DEF Alerts!Next

\* ReleaseNotificationManager starts with nothing asked for.
LEMMA AlertsStart == ASSUME Alerts!Init PROVE AlertInv
<1>1. /\ profile \in Profiles /\ bound = profile
      /\ series \in [Profiles -> SUBSET Shows] /\ follows = series
      /\ alertsOn = [p \in Profiles |-> FALSE]
      /\ told = [p \in Profiles |-> {}]
      /\ loading = FALSE /\ backlog = <<>> /\ inflight = 0
      /\ metaFetches = <<>> /\ collecting = {} /\ miscounted = FALSE
  BY DEF Alerts!Init
<1>2. /\ <<>> \in Seq(Alerts!MetaFetch) /\ <<>> \in Seq(Shows) /\ Len(<<>>) = 0
      /\ 0 \in -MaxMeta..kFetchConcurrency /\ 0 >= 0 - MaxMeta /\ 0 <= MaxMeta
  BY ServicesAssumption
<1>3. alertsOn \in [Profiles -> BOOLEAN]
  BY <1>1
<1>4. told \in [Profiles -> SUBSET Shows]
  BY <1>1
<1> QED
  BY <1>1, <1>2, <1>3, <1>4 DEF AlertInv, Alerts!TypeOK

\* The release alerts run.
LEMMA AlertsAreInvariant == Spec => [](which = "alerts" => AlertInv)
<1> DEFINE I == which = "alerts" => AlertInv
<1>1. Init => I
  BY AlertsStart DEF Init
<1>2. I /\ [Next]_vars => I'
  <2> SUFFICES ASSUME I, [Next]_vars, which' = "alerts" PROVE AlertInv'
    OBVIOUS
  <2>1. which = "alerts" /\ AlertInv
    BY DEF Next, vars
  <2>2. CASE Next
    <3>1. Alerts!Next
      BY <2>1, <2>2 DEF Next
    <3> QED
      BY <2>1, <3>1, AlertStep
  <2>3. CASE UNCHANGED vars
    BY <2>1, <2>3 DEF vars, alertVars, AlertInv, Alerts!TypeOK, CurrentOf
  <2> QED
    BY <2>2, <2>3
<1> QED
  BY <1>1, <1>2, PTL DEF Spec

\* HomeShelves and ReleaseNotificationManager: what waits, waits for a reply
\* that is under way, whatever changes of addons, switches, libraries and
\* settings come between, for any number of shelves, shows and slots.
THEOREM WhatWaitsHasAReply == Spec => []LoadingGoesOn
<1>1. ASSUME which = "shelves" => LoadInv, which = "alerts" => AlertInv PROVE LoadingGoesOn
  <2>1. which = "shelves" => HomePage!ShelvesKeepLoading
    BY <1>1, LoadInvSays
  <2>2. ASSUME which = "alerts" PROVE Alerts!RefreshEnds
    <3>1. Alerts!Cardinality({i \in DOMAIN metaFetches : metaFetches[i].current})
            = Cardinality(CurrentOf(metaFetches))
      BY AlertsCardinality DEF CurrentOf
    <3> QED
      BY <1>1, <2>2, <3>1 DEF AlertInv, Alerts!RefreshEnds
  <2> QED
    BY <2>1, <2>2 DEF LoadingGoesOn
<1> QED
  BY <1>1, LoadsAreInvariant, AlertsAreInvariant, PTL

-----------------------------------------------------------------------------
(* DomBridge. *)

\* The elements of the page, and those a list of them holds.
Nodes == 1..MaxElements

Held(s) == {s[i] : i \in DOMAIN s}

\* No handle twice.
Distinct(s) == \A i, j \in DOMAIN s : s[i] = s[j] => i = j

\* One element more.
LEMMA OneMore ==
    ASSUME NEW s \in Seq(Nodes), NEW n \in Nodes
    PROVE  /\ Append(s, n) \in Seq(Nodes) /\ Held(Append(s, n)) = Held(s) \cup {n}
           /\ Distinct(s) /\ n \notin Held(s) => Distinct(Append(s, n))
<1> DEFINE t == Append(s, n)
<1>1. /\ t \in Seq(Nodes) /\ Len(s) \in Nat /\ DOMAIN s = 1..Len(s)
      /\ DOMAIN t = 1..(Len(s) + 1) /\ t[Len(s) + 1] = n
      /\ \A i \in 1..Len(s) : t[i] = s[i]
  OBVIOUS
<1> HIDE DEF t
<1>2. \A i \in DOMAIN t : i \in DOMAIN s \/ i = Len(s) + 1
  BY <1>1
<1>3. Held(t) = Held(s) \cup {n}
  <2>1. Len(s) + 1 \in DOMAIN t /\ \A i \in DOMAIN s : i \in DOMAIN t
    BY <1>1
  <2>2. \A x \in Held(t) : x \in Held(s) \cup {n}
    BY <1>1, <1>2 DEF Held
  <2>3. \A x \in Held(s) : x \in Held(t)
    BY <1>1, <2>1 DEF Held
  <2>4. n \in Held(t)
    BY <1>1, <2>1 DEF Held
  <2> QED
    BY <2>2, <2>3, <2>4
<1>4. ASSUME Distinct(s), n \notin Held(s) PROVE Distinct(t)
  <2>1. \A i \in DOMAIN s : s[i] # n
    BY <1>4 DEF Held
  <2> SUFFICES ASSUME NEW i \in DOMAIN t, NEW j \in DOMAIN t, t[i] = t[j] PROVE i = j
    BY DEF Distinct
  <2>2. CASE i \in DOMAIN s /\ j \in DOMAIN s
    BY <1>1, <1>4, <2>2 DEF Distinct
  <2>3. CASE i = Len(s) + 1 /\ j = Len(s) + 1
    BY <2>3
  <2>4. CASE i \in DOMAIN s /\ j = Len(s) + 1
    BY <1>1, <2>1, <2>4
  <2>5. CASE i = Len(s) + 1 /\ j \in DOMAIN s
    BY <1>1, <2>1, <2>5
  <2> QED
    BY <1>2, <2>2, <2>3, <2>4, <2>5
<1> QED
  BY <1>1, <1>3, <1>4 DEF t

\* One element of the list, kept if it is in S.
Filtering(f, s, S) ==
    f = [i \in SUBSET (1..Len(s)) |->
            IF i = {} THEN <<>>
            ELSE IF s[Greatest(i)] \in S THEN Append(f[i \ {Greatest(i)}], s[Greatest(i)])
                 ELSE f[i \ {Greatest(i)}]]

\* What a filter leaves: what is in S, in the same multitude.
LEMMA Filters ==
    ASSUME NEW s \in Seq(Nodes), NEW S
    PROVE  /\ ScraperDom!Filtered(s, S) \in Seq(Nodes)
           /\ Held(ScraperDom!Filtered(s, S)) = Held(s) \cap S
           /\ Distinct(s) => Distinct(ScraperDom!Filtered(s, S))
<1> DEFINE n == Len(s)
           D == Seq(Nodes)
           H == [x \in D \X (1..n) |-> IF s[x[2]] \in S THEN Append(x[1], s[x[2]]) ELSE x[1]]
           t1 == ScraperDom!Filtered(s, S)
           g == CHOOSE f : Filtering(f, s, S)
           G == [k \in 0..n |-> {t \in D : /\ Held(t) = {s[j] : j \in 1..k} \cap S
                                           /\ Distinct(s) => Distinct(t)}]
<1>1. n \in Nat /\ DOMAIN s = 1..n /\ \A k \in 1..n : s[k] \in Nodes
  OBVIOUS
<1>2. t1 = g[1..n]
  BY <1>1 DEF ScraperDom!Filtered, ScraperDom!FoldLeft, ScraperDom!MapThenFoldSet,
              ScraperDom!Max, Filtering, Greatest
<1>3. <<>> \in D
  OBVIOUS
<1>4. ASSUME NEW d \in D, NEW k \in 1..n
      PROVE  (IF s[k] \in S THEN Append(d, s[k]) ELSE d) \in D
  BY <1>1
<1> HIDE DEF t1, n, D
<1>5. \A d \in D, k \in 1..n :
        /\ H[<<d, k>>] = IF s[k] \in S THEN Append(d, s[k]) ELSE d
        /\ H[<<d, k>>] \in D
  BY <1>4
<1> HIDE DEF H
<1>6. PICK f : FoldOver(f, n, <<>>, H)
  BY <1>1, FoldOverExists
<1>7. \A i \in SUBSET (1..n) : f[i] \in D
  BY <1>1, <1>3, <1>5, <1>6, FoldOverStays
<1>8. Filtering(f, s, S)
  <2>1. ASSUME NEW i \in SUBSET (1..n), i # {}
        PROVE  H[<<f[i \ {Greatest(i)}], Greatest(i)>>] =
                 IF s[Greatest(i)] \in S THEN Append(f[i \ {Greatest(i)}], s[Greatest(i)])
                 ELSE f[i \ {Greatest(i)}]
    BY <1>1, <1>5, <1>7, <2>1, GreatestOf
  <2> QED
    BY <1>6, <2>1 DEF Filtering, FoldOver, n
<1>9. Filtering(g, s, S)
  BY <1>8
<1> HIDE DEF g
<1>10. g[{}] = <<>>
  BY <1>9 DEF Filtering
<1>11. ASSUME NEW k \in 1..n, g[1..(k - 1)] \in G[k - 1] PROVE g[1..k] \in G[k]
  <2> DEFINE t == g[1..(k - 1)]
             u == g[1..k]
  <2>1. u = IF s[k] \in S THEN Append(t, s[k]) ELSE t
    <3> DEFINE i == 1..k
    <3>1. /\ i \in SUBSET (1..n) /\ i # {} /\ Greatest(i) = k
          /\ i \ {Greatest(i)} = 1..(k - 1)
      BY <1>1, Prefix
    <3> HIDE DEF i
    <3>2. g[i] = IF s[Greatest(i)] \in S THEN Append(g[i \ {Greatest(i)}], s[Greatest(i)])
                 ELSE g[i \ {Greatest(i)}]
      BY <1>9, <3>1 DEF Filtering, n
    <3> QED
      BY <3>1, <3>2 DEF i
  <2>2. k \in 0..n /\ k - 1 \in 0..n
    BY <1>1
  <2>3. t \in D /\ Held(t) = {s[j] : j \in 1..(k - 1)} \cap S /\ (Distinct(s) => Distinct(t))
    BY <1>11, <2>2
  <2>4. {s[j] : j \in 1..k} = {s[j] : j \in 1..(k - 1)} \cup {s[k]}
    <3>1. 1..k = 1..(k - 1) \cup {k}
      BY <1>1
    <3> QED
      BY <3>1
  <2> HIDE DEF t, u
  <2>5. Distinct(s) => s[k] \notin {s[j] : j \in 1..(k - 1)}
    BY <1>1 DEF Distinct
  <2>6. CASE s[k] \in S
    <3>1. u = Append(t, s[k])
      BY <2>1, <2>6
    <3>2. u \in D /\ Held(u) = Held(t) \cup {s[k]}
          /\ (Distinct(t) /\ s[k] \notin Held(t) => Distinct(u))
      BY <1>1, <2>3, <3>1, OneMore DEF D
    <3>3. Held(u) = {s[j] : j \in 1..k} \cap S
      BY <2>3, <2>4, <2>6, <3>2
    <3>4. Distinct(s) => Distinct(u)
      BY <2>3, <2>5, <3>2
    <3> QED
      BY <2>2, <3>2, <3>3, <3>4 DEF u
  <2>7. CASE s[k] \notin S
    <3>1. u = t
      BY <2>1, <2>7
    <3>2. Held(u) = {s[j] : j \in 1..k} \cap S
      BY <2>3, <2>4, <2>7, <3>1
    <3> QED
      BY <2>2, <2>3, <3>1, <3>2 DEF u
  <2> QED
    BY <2>6, <2>7
<1>12. g[{}] \in G[0]
  <2>1. Held(<<>>) = {} /\ Distinct(<<>>) /\ {s[j] : j \in 1..0} = {}
    BY DEF Held, Distinct
  <2>2. 0 \in 0..n
    BY <1>1
  <2> QED
    BY <1>3, <1>10, <2>1, <2>2
<1> HIDE DEF G
<1>13. t1 \in G[n]
  BY <1>1, <1>2, <1>11, <1>12, FoldReaches
<1> QED
  <2>1. n \in 0..n
    BY <1>1
  <2>2. {s[j] : j \in 1..n} = Held(s)
    BY <1>1 DEF Held
  <2> QED
    BY <1>13, <2>1, <2>2 DEF G, t1, D

\* One element of t, appended to what there is unless it is there.
Joining(f, s, t) ==
    f = [i \in SUBSET (1..Len(t)) |->
            IF i = {} THEN s
            ELSE IF ScraperDom!Contains(f[i \ {Greatest(i)}], t[Greatest(i)])
                 THEN f[i \ {Greatest(i)}]
                 ELSE Append(f[i \ {Greatest(i)}], t[Greatest(i)])]

\* Two answers joined: what is in either, once if s holds it once.
LEMMA Joins ==
    ASSUME NEW s \in Seq(Nodes), NEW t \in Seq(Nodes)
    PROVE  /\ ScraperDom!Joined(s, t) \in Seq(Nodes)
           /\ Held(ScraperDom!Joined(s, t)) = Held(s) \cup Held(t)
           /\ Distinct(s) => Distinct(ScraperDom!Joined(s, t))
<1> DEFINE n == Len(t)
           D == Seq(Nodes)
           H == [x \in D \X (1..n) |-> IF ScraperDom!Contains(x[1], t[x[2]]) THEN x[1]
                                       ELSE Append(x[1], t[x[2]])]
           t1 == ScraperDom!Joined(s, t)
           g == CHOOSE f : Joining(f, s, t)
           G == [k \in 0..n |-> {d \in D : /\ Held(d) = Held(s) \cup {t[j] : j \in 1..k}
                                           /\ Distinct(s) => Distinct(d)}]
<1>1. n \in Nat /\ DOMAIN t = 1..n /\ \A k \in 1..n : t[k] \in Nodes
  OBVIOUS
<1>2. t1 = g[1..n]
  BY <1>1 DEF ScraperDom!Joined, ScraperDom!FoldLeft, ScraperDom!MapThenFoldSet,
              ScraperDom!Max, Joining, Greatest
<1>3. s \in D
  OBVIOUS
<1>4. ASSUME NEW d \in D, NEW k \in 1..n
      PROVE  (IF ScraperDom!Contains(d, t[k]) THEN d ELSE Append(d, t[k])) \in D
  BY <1>1
<1> HIDE DEF t1, n, D
<1>5. \A d \in D, k \in 1..n :
        /\ H[<<d, k>>] = IF ScraperDom!Contains(d, t[k]) THEN d ELSE Append(d, t[k])
        /\ H[<<d, k>>] \in D
  BY <1>4
<1> HIDE DEF H
<1>6. PICK f : FoldOver(f, n, s, H)
  BY <1>1, FoldOverExists
<1>7. \A i \in SUBSET (1..n) : f[i] \in D
  BY <1>1, <1>3, <1>5, <1>6, FoldOverStays
<1>8. Joining(f, s, t)
  <2>1. ASSUME NEW i \in SUBSET (1..n), i # {}
        PROVE  H[<<f[i \ {Greatest(i)}], Greatest(i)>>] =
                 IF ScraperDom!Contains(f[i \ {Greatest(i)}], t[Greatest(i)])
                 THEN f[i \ {Greatest(i)}]
                 ELSE Append(f[i \ {Greatest(i)}], t[Greatest(i)])
    BY <1>1, <1>5, <1>7, <2>1, GreatestOf
  <2> QED
    BY <1>6, <2>1 DEF Joining, FoldOver, n
<1>9. Joining(g, s, t)
  BY <1>8
<1> HIDE DEF g
<1>10. g[{}] = s
  BY <1>9 DEF Joining
<1>11. ASSUME NEW k \in 1..n, g[1..(k - 1)] \in G[k - 1] PROVE g[1..k] \in G[k]
  <2> DEFINE d == g[1..(k - 1)]
             u == g[1..k]
  <2>1. u = IF ScraperDom!Contains(d, t[k]) THEN d ELSE Append(d, t[k])
    <3> DEFINE i == 1..k
    <3>1. /\ i \in SUBSET (1..n) /\ i # {} /\ Greatest(i) = k
          /\ i \ {Greatest(i)} = 1..(k - 1)
      BY <1>1, Prefix
    <3> HIDE DEF i
    <3>2. g[i] = IF ScraperDom!Contains(g[i \ {Greatest(i)}], t[Greatest(i)])
                 THEN g[i \ {Greatest(i)}]
                 ELSE Append(g[i \ {Greatest(i)}], t[Greatest(i)])
      BY <1>9, <3>1 DEF Joining, n
    <3> QED
      BY <3>1, <3>2 DEF i
  <2>2. k \in 0..n /\ k - 1 \in 0..n
    BY <1>1
  <2>3. d \in D /\ Held(d) = Held(s) \cup {t[j] : j \in 1..(k - 1)}
        /\ (Distinct(s) => Distinct(d))
    BY <1>11, <2>2
  <2>4. {t[j] : j \in 1..k} = {t[j] : j \in 1..(k - 1)} \cup {t[k]}
    <3>1. 1..k = 1..(k - 1) \cup {k}
      BY <1>1
    <3> QED
      BY <3>1
  <2> HIDE DEF d, u
  <2>5. ScraperDom!Contains(d, t[k]) <=> t[k] \in Held(d)
    <3>1. DOMAIN d = 1..Len(d)
      BY <2>3 DEF D
    <3> QED
      BY <3>1 DEF ScraperDom!Contains, Held
  <2>6. CASE t[k] \in Held(d)
    <3>1. u = d
      BY <2>1, <2>5, <2>6
    <3>2. Held(u) = Held(s) \cup {t[j] : j \in 1..k}
      BY <2>3, <2>4, <2>6, <3>1
    <3> QED
      BY <2>2, <2>3, <3>1, <3>2 DEF u
  <2>7. CASE t[k] \notin Held(d)
    <3>1. u = Append(d, t[k])
      BY <2>1, <2>5, <2>7
    <3>2. u \in D /\ Held(u) = Held(d) \cup {t[k]} /\ (Distinct(d) => Distinct(u))
      BY <1>1, <2>3, <2>7, <3>1, OneMore DEF D
    <3>3. Held(u) = Held(s) \cup {t[j] : j \in 1..k}
      BY <2>3, <2>4, <3>2
    <3> QED
      BY <2>2, <2>3, <3>2, <3>3 DEF u
  <2> QED
    BY <2>6, <2>7
<1>12. g[{}] \in G[0]
  <2>1. {t[j] : j \in 1..0} = {} /\ 0 \in 0..n
    BY <1>1
  <2> QED
    BY <1>3, <1>10, <2>1
<1> HIDE DEF G
<1>13. t1 \in G[n]
  BY <1>1, <1>2, <1>11, <1>12, FoldReaches
<1> QED
  <2>1. n \in 0..n
    BY <1>1
  <2>2. {t[j] : j \in 1..n} = Held(t)
    BY <1>1 DEF Held
  <2> QED
    BY <1>13, <2>1, <2>2 DEF G, t1, D

\* The children or the descendants of an element that a compound names.
Further(n, c) ==
    {d \in Nodes : /\ ScraperDom!Matches(d, c.of)
                   /\ IF c.after = ">" THEN parent[d] = n ELSE n \in ScraperDom!Above(d)}

\* The list of all elements.
LEMMA AllInOrder ==
    /\ ScraperDom!DocumentOrder \in Seq(Nodes)
    /\ Held(ScraperDom!DocumentOrder) = Nodes
    /\ Distinct(ScraperDom!DocumentOrder)
<1>1. MaxElements \in Nat
  BY ServicesAssumption
<1>2. ScraperDom!DocumentOrder = [n \in 1..MaxElements |-> n]
  BY DEF ScraperDom!DocumentOrder, ScraperDom!Elements
<1> DEFINE s == ScraperDom!DocumentOrder
<1> HIDE DEF s
<1>3. s = [n \in 1..MaxElements |-> n]
  BY <1>2 DEF s
<1>4. s \in [1..MaxElements -> Nodes]
  BY <1>3 DEF Nodes
<1>5. s \in Seq(Nodes)
  BY <1>1, <1>4
<1>6. Held(s) = Nodes /\ Distinct(s)
  BY <1>3 DEF Held, Distinct, Nodes
<1> QED
  BY <1>5, <1>6 DEF s

\* Children, descendants and those a compound names.
LEMMA GoesBeyond ==
    ASSUME NEW n, NEW c
    PROVE  /\ ScraperDom!Descendants(n) \in Seq(Nodes) /\ Distinct(ScraperDom!Descendants(n))
           /\ Held(ScraperDom!Descendants(n)) = {d \in Nodes : n \in ScraperDom!Above(d)}
           /\ ScraperDom!Beyond(n, c) \in Seq(Nodes) /\ Distinct(ScraperDom!Beyond(n, c))
           /\ Held(ScraperDom!Beyond(n, c)) = Further(n, c)
<1> DEFINE below == {d \in ScraperDom!Elements : n \in ScraperDom!Above(d)}
           kids == {d \in ScraperDom!Elements : parent[d] = n}
           named == {d \in ScraperDom!Elements : ScraperDom!Matches(d, c.of)}
           list == IF c.after = ">" THEN ScraperDom!Kids(n) ELSE ScraperDom!Descendants(n)
<1>1. ScraperDom!Elements = Nodes
  BY DEF ScraperDom!Elements, Nodes
<1>2. /\ ScraperDom!Descendants(n) = ScraperDom!Filtered(ScraperDom!DocumentOrder, below)
      /\ ScraperDom!Kids(n) = ScraperDom!Filtered(ScraperDom!DocumentOrder, kids)
      /\ ScraperDom!Beyond(n, c) = ScraperDom!Filtered(list, named)
  BY DEF ScraperDom!Descendants, ScraperDom!Kids, ScraperDom!Beyond, ScraperDom!Matching
<1>3. below \in SUBSET Nodes /\ kids \in SUBSET Nodes /\ named \in SUBSET Nodes
  BY <1>1
<1> HIDE DEF below, kids, named
<1>4. /\ ScraperDom!Descendants(n) \in Seq(Nodes) /\ Distinct(ScraperDom!Descendants(n))
      /\ Held(ScraperDom!Descendants(n)) = below
  <2> DEFINE o == ScraperDom!DocumentOrder
  <2>1. o \in Seq(Nodes) /\ Held(o) = Nodes /\ Distinct(o)
    BY AllInOrder
  <2> HIDE DEF o
  <2>2. /\ ScraperDom!Filtered(o, below) \in Seq(Nodes) /\ Distinct(ScraperDom!Filtered(o, below))
        /\ Held(ScraperDom!Filtered(o, below)) = Nodes \cap below
    BY <2>1, Filters
  <2>3. Nodes \cap below = below
    BY <1>3
  <2> QED
    BY <1>2, <2>2, <2>3 DEF o
<1>5. /\ ScraperDom!Kids(n) \in Seq(Nodes) /\ Distinct(ScraperDom!Kids(n))
      /\ Held(ScraperDom!Kids(n)) = kids
  <2> DEFINE o == ScraperDom!DocumentOrder
  <2>1. o \in Seq(Nodes) /\ Held(o) = Nodes /\ Distinct(o)
    BY AllInOrder
  <2> HIDE DEF o
  <2>2. /\ ScraperDom!Filtered(o, kids) \in Seq(Nodes) /\ Distinct(ScraperDom!Filtered(o, kids))
        /\ Held(ScraperDom!Filtered(o, kids)) = Nodes \cap kids
    BY <2>1, Filters
  <2>3. Nodes \cap kids = kids
    BY <1>3
  <2> QED
    BY <1>2, <2>2, <2>3 DEF o
<1>6. /\ list \in Seq(Nodes) /\ Distinct(list)
      /\ Held(list) = IF c.after = ">" THEN kids ELSE below
  BY <1>4, <1>5
<1> HIDE DEF list
<1>7. /\ ScraperDom!Beyond(n, c) \in Seq(Nodes) /\ Distinct(ScraperDom!Beyond(n, c))
      /\ Held(ScraperDom!Beyond(n, c)) = Held(list) \cap named
  BY <1>2, <1>6, Filters
<1>8. Held(list) \cap named = Further(n, c)
  BY <1>1, <1>6 DEF Further, kids, below, named
<1> QED
  BY <1>1, <1>4, <1>7, <1>8 DEF below

\* One element of those found so far, and what is one compound further on.
Going(f, s, c) ==
    f = [i \in SUBSET (1..Len(s)) |->
            IF i = {} THEN <<>>
            ELSE ScraperDom!Joined(f[i \ {Greatest(i)}],
                                   ScraperDom!Beyond(s[Greatest(i)], c))]

\* A step of matchSelector: all that is one compound further on, once.
LEMMA GoesOn ==
    ASSUME NEW s \in Seq(Nodes), NEW c
    PROVE  /\ ScraperDom!Onward(s, c) \in Seq(Nodes) /\ Distinct(ScraperDom!Onward(s, c))
           /\ Held(ScraperDom!Onward(s, c)) = UNION {Further(n, c) : n \in Held(s)}
<1> DEFINE n == Len(s)
           D == Seq(Nodes)
           H == [x \in D \X (1..n) |-> ScraperDom!Joined(x[1], ScraperDom!Beyond(s[x[2]], c))]
           t1 == ScraperDom!Onward(s, c)
           g == CHOOSE f : Going(f, s, c)
           G == [k \in 0..n |-> {d \in D : /\ Held(d) = UNION {Further(s[j], c) : j \in 1..k}
                                           /\ Distinct(d)}]
<1>1. n \in Nat /\ DOMAIN s = 1..n /\ \A k \in 1..n : s[k] \in Nodes
  OBVIOUS
<1>2. t1 = g[1..n]
  BY <1>1 DEF ScraperDom!Onward, ScraperDom!FoldLeft, ScraperDom!MapThenFoldSet,
              ScraperDom!Max, Going, Greatest
<1>3. <<>> \in D
  OBVIOUS
<1>4. ASSUME NEW d \in D, NEW k \in 1..n
      PROVE  /\ ScraperDom!Joined(d, ScraperDom!Beyond(s[k], c)) \in D
             /\ Held(ScraperDom!Joined(d, ScraperDom!Beyond(s[k], c)))
                  = Held(d) \cup Further(s[k], c)
             /\ Distinct(d) => Distinct(ScraperDom!Joined(d, ScraperDom!Beyond(s[k], c)))
  <2> DEFINE e == ScraperDom!Beyond(s[k], c)
  <2>1. e \in Seq(Nodes) /\ Held(e) = Further(s[k], c)
    BY GoesBeyond
  <2> HIDE DEF e
  <2>2. /\ ScraperDom!Joined(d, e) \in Seq(Nodes)
        /\ Held(ScraperDom!Joined(d, e)) = Held(d) \cup Held(e)
        /\ Distinct(d) => Distinct(ScraperDom!Joined(d, e))
    BY <2>1, Joins
  <2> QED
    BY <2>1, <2>2 DEF e
<1> HIDE DEF t1, n, D
<1>5. \A d \in D, k \in 1..n :
        /\ H[<<d, k>>] = ScraperDom!Joined(d, ScraperDom!Beyond(s[k], c))
        /\ H[<<d, k>>] \in D
  BY <1>4
<1> HIDE DEF H
<1>6. PICK f : FoldOver(f, n, <<>>, H)
  BY <1>1, FoldOverExists
<1>7. \A i \in SUBSET (1..n) : f[i] \in D
  BY <1>1, <1>3, <1>5, <1>6, FoldOverStays
<1>8. Going(f, s, c)
  <2>1. ASSUME NEW i \in SUBSET (1..n), i # {}
        PROVE  H[<<f[i \ {Greatest(i)}], Greatest(i)>>] =
                 ScraperDom!Joined(f[i \ {Greatest(i)}], ScraperDom!Beyond(s[Greatest(i)], c))
    BY <1>1, <1>5, <1>7, <2>1, GreatestOf
  <2> QED
    BY <1>6, <2>1 DEF Going, FoldOver, n
<1>9. Going(g, s, c)
  BY <1>8
<1> HIDE DEF g
<1>10. g[{}] = <<>>
  BY <1>9 DEF Going
<1>11. ASSUME NEW k \in 1..n, g[1..(k - 1)] \in G[k - 1] PROVE g[1..k] \in G[k]
  <2> DEFINE d == g[1..(k - 1)]
             u == g[1..k]
  <2>1. u = ScraperDom!Joined(d, ScraperDom!Beyond(s[k], c))
    <3> DEFINE i == 1..k
    <3>1. /\ i \in SUBSET (1..n) /\ i # {} /\ Greatest(i) = k
          /\ i \ {Greatest(i)} = 1..(k - 1)
      BY <1>1, Prefix
    <3> HIDE DEF i
    <3>2. g[i] = ScraperDom!Joined(g[i \ {Greatest(i)}], ScraperDom!Beyond(s[Greatest(i)], c))
      BY <1>9, <3>1 DEF Going, n
    <3> QED
      BY <3>1, <3>2 DEF i
  <2>2. k \in 0..n /\ k - 1 \in 0..n
    BY <1>1
  <2>3. d \in D /\ Held(d) = UNION {Further(s[j], c) : j \in 1..(k - 1)} /\ Distinct(d)
    BY <1>11, <2>2
  <2>4. UNION {Further(s[j], c) : j \in 1..k}
          = (UNION {Further(s[j], c) : j \in 1..(k - 1)}) \cup Further(s[k], c)
    <3>1. \A j : j \in 1..k <=> j \in 1..(k - 1) \/ j = k
      BY <1>1
    <3> QED
      BY <3>1
  <2> HIDE DEF d, u
  <2>5. u \in D /\ Held(u) = Held(d) \cup Further(s[k], c) /\ Distinct(u)
    BY <1>4, <2>1, <2>3
  <2>6. Held(u) = UNION {Further(s[j], c) : j \in 1..k}
    BY <2>3, <2>4, <2>5
  <2> QED
    BY <2>2, <2>5, <2>6 DEF u
<1>12. g[{}] \in G[0]
  <2>1. Held(<<>>) = {} /\ Distinct(<<>>) /\ UNION {Further(s[j], c) : j \in 1..0} = {}
    BY DEF Held, Distinct
  <2>2. 0 \in 0..n
    BY <1>1
  <2> QED
    BY <1>3, <1>10, <2>1, <2>2
<1> HIDE DEF G
<1>13. t1 \in G[n]
  BY <1>1, <1>2, <1>11, <1>12, FoldReaches
<1> QED
  <2>1. n \in 0..n
    BY <1>1
  <2>2. {Further(s[j], c) : j \in 1..n} = {Further(x, c) : x \in Held(s)}
    BY <1>1 DEF Held
  <2> QED
    BY <1>13, <2>1, <2>2 DEF G, t1, D

\* A compound of a group.
Parts == [of : ScraperDom!Compounds, after : {" ", ">"}]

\* What ends a chain of k elements under the root, as the first k compounds of a
\* group name them.
Chain(root, g, k, chain) ==
    /\ chain[1] = root \/ root \in ScraperDom!Above(chain[1])
    /\ \A i \in 1..k : ScraperDom!Matches(chain[i], g[i].of)
    /\ \A i \in 2..k : IF g[i].after = ">" THEN parent[chain[i]] = chain[i - 1]
                       ELSE chain[i - 1] \in ScraperDom!Above(chain[i])

Chained(root, g, k) ==
    {n \in Nodes : \E chain \in [1..k -> Nodes] : chain[k] = n /\ Chain(root, g, k, chain)}

\* A chain of k + 1 is one of k and an element one compound further on.
LEMMA ChainGrows ==
    ASSUME NEW root, NEW g, NEW k \in Nat \ {0}
    PROVE  Chained(root, g, k + 1) = UNION {Further(n, g[k + 1]) : n \in Chained(root, g, k)}
<1>1. ASSUME NEW x \in Chained(root, g, k + 1)
      PROVE  \E n \in Chained(root, g, k) : x \in Further(n, g[k + 1])
  <2>1. x \in Nodes
    BY <1>1 DEF Chained
  <2>2. PICK chain \in [1..(k + 1) -> Nodes] :
            chain[k + 1] = x /\ Chain(root, g, k + 1, chain)
    BY <1>1 DEF Chained
  <2> DEFINE c == [i \in 1..k |-> chain[i]]
  <2>3. k \in 1..(k + 1) /\ k \in 1..k /\ 1 \in 1..k /\ k + 1 \in 2..(k + 1)
        /\ k + 1 \in 1..(k + 1) /\ (k + 1) - 1 = k
    OBVIOUS
  <2>4. \A i \in 1..k : i \in 1..(k + 1)
    OBVIOUS
  <2>5. \A i \in 2..k : i \in 2..(k + 1) /\ i \in 1..k /\ i - 1 \in 1..k
    OBVIOUS
  <2>6. c \in [1..k -> Nodes] /\ \A i \in 1..k : c[i] = chain[i]
    BY <2>2, <2>4
  <2> HIDE DEF c
  <2>7. Chain(root, g, k, c)
    BY <2>2, <2>3, <2>4, <2>5, <2>6 DEF Chain
  <2>8. c[k] \in Nodes /\ c[k] = chain[k]
    BY <2>3, <2>6
  <2>9. c[k] \in Chained(root, g, k)
    BY <2>6, <2>7, <2>8 DEF Chained
  <2>10. x \in Further(c[k], g[k + 1])
    BY <2>1, <2>2, <2>3, <2>8 DEF Chain, Further
  <2> QED
    BY <2>9, <2>10
<1>2. ASSUME NEW n \in Chained(root, g, k), NEW x \in Further(n, g[k + 1])
      PROVE  x \in Chained(root, g, k + 1)
  <2>1. PICK chain \in [1..k -> Nodes] : chain[k] = n /\ Chain(root, g, k, chain)
    BY <1>2 DEF Chained
  <2> DEFINE c == [i \in 1..(k + 1) |-> IF i = k + 1 THEN x ELSE chain[i]]
  <2>2. x \in Nodes
    BY DEF Further
  <2>3. /\ \A i \in 1..(k + 1) : i = k + 1 \/ i \in 1..k
        /\ \A i \in 1..k : i \in 1..(k + 1) /\ i # k + 1
        /\ k + 1 \in 1..(k + 1) /\ k \in 1..k /\ 1 \in 1..k /\ (k + 1) - 1 = k
        /\ \A i \in 2..(k + 1) : i = k + 1 \/ i \in 2..k
        /\ \A i \in 2..k : i \in 1..k /\ i - 1 \in 1..k
    OBVIOUS
  <2>4. /\ c \in [1..(k + 1) -> Nodes] /\ c[k + 1] = x
        /\ \A i \in 1..k : c[i] = chain[i]
    BY <2>1, <2>2, <2>3
  <2> HIDE DEF c
  <2>5. ASSUME NEW i \in 1..(k + 1) PROVE ScraperDom!Matches(c[i], g[i].of)
    BY <2>1, <2>3, <2>4 DEF Chain, Further
  <2>6. ASSUME NEW i \in 2..(k + 1)
        PROVE  IF g[i].after = ">" THEN parent[c[i]] = c[i - 1]
               ELSE c[i - 1] \in ScraperDom!Above(c[i])
    <3>1. CASE i = k + 1
      <4>1. c[i] = x /\ c[i - 1] = n
        BY <2>1, <2>3, <2>4, <3>1
      <4> QED
        BY <3>1, <4>1 DEF Further
    <3>2. CASE i \in 2..k
      <4>1. c[i] = chain[i] /\ c[i - 1] = chain[i - 1]
        BY <2>3, <2>4, <3>2
      <4> QED
        BY <2>1, <3>2, <4>1 DEF Chain
    <3> QED
      BY <2>3, <3>1, <3>2
  <2>7. c[1] = root \/ root \in ScraperDom!Above(c[1])
    BY <2>1, <2>3, <2>4 DEF Chain
  <2>8. Chain(root, g, k + 1, c)
    BY <2>5, <2>6, <2>7 DEF Chain
  <2> QED
    BY <2>2, <2>4, <2>8 DEF Chained
<1> QED
  BY <1>1, <1>2

\* matchSelector's first list: the root and what is under it.
LEMMA ChainStarts ==
    ASSUME NEW root \in 0..MaxElements, NEW g
    PROVE  LET all == (IF root = 0 THEN <<>> ELSE <<root>>) \o ScraperDom!Descendants(root)
               first == ScraperDom!Matching(all, g[1].of)
           IN  first \in Seq(Nodes) /\ Held(first) = Chained(root, g, 1)
<1> DEFINE own == IF root = 0 THEN <<>> ELSE <<root>>
           below == ScraperDom!Descendants(root)
           all == own \o below
           first == ScraperDom!Matching(all, g[1].of)
           named == {n \in ScraperDom!Elements : ScraperDom!Matches(n, g[1].of)}
<1>1. below \in Seq(Nodes) /\ Held(below) = {d \in Nodes : root \in ScraperDom!Above(d)}
  BY GoesBeyond
<1>2. own \in Seq(Nodes) /\ Held(own) = {root} \cap Nodes
  <2>1. CASE root = 0
    <3>1. own = <<>> /\ <<>> \in Seq(Nodes) /\ Held(<<>>) = {}
      BY <2>1 DEF Held
    <3>2. root \notin Nodes
      BY <2>1 DEF Nodes
    <3> QED
      BY <3>1, <3>2
  <2>2. CASE root # 0
    <3>1. root \in Nodes
      BY <2>2, ServicesAssumption DEF Nodes
    <3>2. own = <<root>> /\ <<root>> \in Seq(Nodes) /\ Held(<<root>>) = {root}
      BY <2>2, <3>1 DEF Held
    <3> QED
      BY <3>1, <3>2
  <2> QED
    BY <2>1, <2>2
<1>3. first = ScraperDom!Filtered(all, named)
  BY DEF ScraperDom!Matching
<1> HIDE DEF own, below
<1>4. all \in Seq(Nodes) /\ Held(all) = Held(own) \cup Held(below)
  <2>1. /\ all \in Seq(Nodes) /\ DOMAIN all = 1..(Len(own) + Len(below))
        /\ Len(own) \in Nat /\ Len(below) \in Nat
        /\ DOMAIN own = 1..Len(own) /\ DOMAIN below = 1..Len(below)
    BY <1>1, <1>2
  <2>2. \A i \in 1..(Len(own) + Len(below)) :
            all[i] = IF i <= Len(own) THEN own[i] ELSE below[i - Len(own)]
    BY <1>1, <1>2
  <2> HIDE DEF all
  <2>3. ASSUME NEW x \in Held(all) PROVE x \in Held(own) \cup Held(below)
    <3>1. PICK i \in DOMAIN all : x = all[i]
      BY <2>3 DEF Held
    <3>2. CASE i <= Len(own)
      <4>1. i \in DOMAIN own /\ x = own[i]
        BY <2>1, <2>2, <3>1, <3>2
      <4> QED
        BY <4>1 DEF Held
    <3>3. CASE ~(i <= Len(own))
      <4>1. i - Len(own) \in DOMAIN below /\ x = below[i - Len(own)]
        BY <2>1, <2>2, <3>1, <3>3
      <4> QED
        BY <4>1 DEF Held
    <3> QED
      BY <3>2, <3>3
  <2>4. ASSUME NEW i \in DOMAIN own PROVE own[i] \in Held(all)
    <3>1. i \in DOMAIN all /\ all[i] = own[i]
      BY <2>1, <2>2
    <3> QED
      BY <3>1 DEF Held
  <2>5. ASSUME NEW i \in DOMAIN below PROVE below[i] \in Held(all)
    <3>1. /\ i + Len(own) \in 1..(Len(own) + Len(below)) /\ ~(i + Len(own) <= Len(own))
          /\ (i + Len(own)) - Len(own) = i
      BY <2>1
    <3>2. all[i + Len(own)] = below[i]
      BY <2>2, <3>1
    <3> QED
      BY <2>1, <3>1, <3>2 DEF Held
  <2> QED
    BY <2>1, <2>3, <2>4, <2>5 DEF Held
<1> HIDE DEF all, named
<1>5. first \in Seq(Nodes) /\ Held(first) = Held(all) \cap named
  BY <1>3, <1>4, Filters
<1>6. ASSUME NEW x
      PROVE  x \in Held(all) \cap named <=> x \in Chained(root, g, 1)
  <2>1. ASSUME x \in Held(all) \cap named PROVE x \in Chained(root, g, 1)
    <3>1. x \in Nodes /\ (x = root \/ root \in ScraperDom!Above(x))
          /\ ScraperDom!Matches(x, g[1].of)
      BY <1>1, <1>2, <1>4, <2>1 DEF named
    <3> DEFINE c == [i \in 1..1 |-> x]
    <3>2. c \in [1..1 -> Nodes] /\ c[1] = x
      BY <3>1
    <3> HIDE DEF c
    <3>3. (\A i \in 1..1 : i = 1) /\ 2..1 = {}
      OBVIOUS
    <3>4. Chain(root, g, 1, c)
      BY <3>1, <3>2, <3>3 DEF Chain
    <3> QED
      BY <3>1, <3>2, <3>4 DEF Chained
  <2>2. ASSUME x \in Chained(root, g, 1) PROVE x \in Held(all) \cap named
    <3>1. PICK c \in [1..1 -> Nodes] : c[1] = x /\ Chain(root, g, 1, c)
      BY <2>2 DEF Chained
    <3>2. x \in Nodes /\ (x = root \/ root \in ScraperDom!Above(x))
          /\ ScraperDom!Matches(x, g[1].of)
      BY <2>2, <3>1 DEF Chain, Chained
    <3> QED
      BY <1>1, <1>2, <1>4, <3>2 DEF named, Nodes, ScraperDom!Elements
  <2> QED
    BY <2>1, <2>2
<1> HIDE DEF first
<1>7. Held(first) = Chained(root, g, 1)
  BY <1>5, <1>6
<1> QED
  BY <1>5, <1>7 DEF first, all, own, below

\* One compound of a group, walked on from what the ones before it have found.
Walking(f, first, t) ==
    f = [i \in SUBSET (1..Len(t)) |->
            IF i = {} THEN first
            ELSE ScraperDom!Onward(f[i \ {Greatest(i)}], t[Greatest(i)])]

\* matchSelector finds what a group of compounds names.
LEMMA FindsTheNamed ==
    ASSUME NEW root \in 0..MaxElements, NEW p \in Seq(Parts), p # <<>>
    PROVE  /\ ScraperDom!MatchSelector(root, p) \in Seq(Nodes)
           /\ Held(ScraperDom!MatchSelector(root, p))
                = {n \in Nodes : ScraperDom!Names(root, p, n)}
<1> DEFINE t == Tail(p)
           n == Len(t)
           D == Seq(Nodes)
           all == (IF root = 0 THEN <<>> ELSE <<root>>) \o ScraperDom!Descendants(root)
           first == ScraperDom!Matching(all, p[1].of)
           H == [x \in D \X (1..n) |-> ScraperDom!Onward(x[1], t[x[2]])]
           t1 == ScraperDom!MatchSelector(root, p)
           g == CHOOSE f : Walking(f, first, t)
           G == [k \in 0..n |-> {d \in D : Held(d) = Chained(root, p, k + 1)}]
<1>0. Len(p) \in Nat /\ Len(p) >= 1 /\ DOMAIN p = 1..Len(p)
  OBVIOUS
<1>1. n \in Nat /\ n = Len(p) - 1 /\ DOMAIN t = 1..n /\ \A k \in 1..n : t[k] = p[k + 1]
  BY <1>0
<1>2. t1 = g[1..n]
  BY <1>1 DEF ScraperDom!MatchSelector, ScraperDom!FoldLeft, ScraperDom!MapThenFoldSet,
              ScraperDom!Max, Walking, Greatest
<1>3. first \in D /\ Held(first) = Chained(root, p, 1)
  BY ChainStarts
<1> HIDE DEF t1, n, first, t
<1>4. ASSUME NEW d \in D, NEW k \in 1..n
      PROVE  /\ ScraperDom!Onward(d, t[k]) \in D
             /\ Held(ScraperDom!Onward(d, t[k])) = UNION {Further(e, t[k]) : e \in Held(d)}
  BY GoesOn
<1> HIDE DEF D
<1>5. \A d \in D, k \in 1..n :
        /\ H[<<d, k>>] = ScraperDom!Onward(d, t[k])
        /\ H[<<d, k>>] \in D
  BY <1>4
<1> HIDE DEF H
<1>6. PICK f : FoldOver(f, n, first, H)
  BY <1>1, FoldOverExists
<1>7. \A i \in SUBSET (1..n) : f[i] \in D
  BY <1>1, <1>3, <1>5, <1>6, FoldOverStays
<1>8. Walking(f, first, t)
  <2>1. ASSUME NEW i \in SUBSET (1..n), i # {}
        PROVE  H[<<f[i \ {Greatest(i)}], Greatest(i)>>] =
                 ScraperDom!Onward(f[i \ {Greatest(i)}], t[Greatest(i)])
    BY <1>1, <1>5, <1>7, <2>1, GreatestOf
  <2> QED
    BY <1>6, <2>1 DEF Walking, FoldOver, n
<1>9. Walking(g, first, t)
  BY <1>8
<1> HIDE DEF g
<1>10. g[{}] = first
  BY <1>9 DEF Walking
<1>11. ASSUME NEW k \in 1..n, g[1..(k - 1)] \in G[k - 1] PROVE g[1..k] \in G[k]
  <2> DEFINE d == g[1..(k - 1)]
             u == g[1..k]
  <2>1. u = ScraperDom!Onward(d, t[k])
    <3> DEFINE i == 1..k
    <3>1. /\ i \in SUBSET (1..n) /\ i # {} /\ Greatest(i) = k
          /\ i \ {Greatest(i)} = 1..(k - 1)
      BY <1>1, Prefix
    <3> HIDE DEF i
    <3>2. g[i] = ScraperDom!Onward(g[i \ {Greatest(i)}], t[Greatest(i)])
      BY <1>9, <3>1 DEF Walking, n
    <3> QED
      BY <3>1, <3>2 DEF i
  <2>2. k \in 0..n /\ k - 1 \in 0..n /\ (k - 1) + 1 = k /\ k \in Nat \ {0}
    BY <1>1
  <2>3. d \in D /\ Held(d) = Chained(root, p, (k - 1) + 1)
    BY <1>11, <2>2
  <2> HIDE DEF d, u
  <2>4. u \in D /\ Held(u) = UNION {Further(e, t[k]) : e \in Held(d)}
    BY <1>4, <2>1, <2>3
  <2>5. Held(u) = UNION {Further(e, p[k + 1]) : e \in Chained(root, p, k)}
    BY <1>1, <2>2, <2>3, <2>4
  <2>6. Held(u) = Chained(root, p, k + 1)
    BY <2>2, <2>5, ChainGrows
  <2> QED
    BY <2>2, <2>4, <2>6 DEF u
<1>12. g[{}] \in G[0]
  <2>1. 0 \in 0..n /\ 0 + 1 = 1
    BY <1>1
  <2> QED
    BY <1>3, <1>10, <2>1
<1> HIDE DEF G
<1>13. t1 \in G[n]
  BY <1>1, <1>2, <1>11, <1>12, FoldReaches
<1>14. t1 \in D /\ Held(t1) = Chained(root, p, Len(p))
  <2>1. n \in 0..n /\ n + 1 = Len(p)
    BY <1>0, <1>1
  <2> QED
    BY <1>13, <2>1 DEF G
<1>15. Chained(root, p, Len(p)) = {x \in Nodes : ScraperDom!Names(root, p, x)}
  <2>1. ScraperDom!Elements = Nodes
    BY DEF ScraperDom!Elements, Nodes
  <2> QED
    BY <1>0, <2>1 DEF Chained, Chain, ScraperDom!Names
<1> QED
  BY <1>14, <1>15 DEF t1, D

\* What one of the first k groups names.
NamedBy(root, sel, k) == {n \in Nodes : \E i \in 1..k : ScraperDom!Names(root, sel[i], n)}

\* One group of a selector, joined to what the ones before it have found.
Choosing(f, root, sel) ==
    f = [i \in SUBSET (1..Len(sel)) |->
            IF i = {} THEN <<>>
            ELSE IF ScraperDom!Valid(sel[Greatest(i)])
                 THEN ScraperDom!Joined(f[i \ {Greatest(i)}],
                                        ScraperDom!MatchSelector(root, sel[Greatest(i)]))
                 ELSE f[i \ {Greatest(i)}]]

\* A group with an invalid compound names nothing.
LEMMA InvalidNamesNothing ==
    ASSUME NEW root, NEW p, ~ScraperDom!Valid(p), NEW n
    PROVE  ~ScraperDom!Names(root, p, n)
<1>1. PICK i \in DOMAIN p : p[i].of = "invalid"
  BY DEF ScraperDom!Valid
<1> QED
  BY <1>1 DEF ScraperDom!Names, ScraperDom!Matches

\* selectNodes answers what a group of the selector names, once.
LEMMA SelectsTheNamed ==
    ASSUME NEW root \in 0..MaxElements, NEW sel \in Seq(Seq(Parts)),
           \A i \in DOMAIN sel : sel[i] # <<>>
    PROVE  /\ ScraperDom!SelectNodes(root, sel) \in Seq(Nodes)
           /\ Distinct(ScraperDom!SelectNodes(root, sel))
           /\ Held(ScraperDom!SelectNodes(root, sel))
                = {n \in Nodes : \E i \in DOMAIN sel : ScraperDom!Names(root, sel[i], n)}
<1> DEFINE n == Len(sel)
           D == Seq(Nodes)
           Put(d, p) == IF ScraperDom!Valid(p)
                        THEN ScraperDom!Joined(d, ScraperDom!MatchSelector(root, p)) ELSE d
           H == [x \in D \X (1..n) |-> Put(x[1], sel[x[2]])]
           t1 == ScraperDom!SelectNodes(root, sel)
           g == CHOOSE f : Choosing(f, root, sel)
           G == [k \in 0..n |-> {d \in D : Held(d) = NamedBy(root, sel, k) /\ Distinct(d)}]
<1>1. n \in Nat /\ DOMAIN sel = 1..n /\ \A k \in 1..n : sel[k] \in Seq(Parts) /\ sel[k] # <<>>
  OBVIOUS
<1>2. t1 = g[1..n]
  BY <1>1 DEF ScraperDom!SelectNodes, ScraperDom!FoldLeft, ScraperDom!MapThenFoldSet,
              ScraperDom!Max, Choosing, Greatest
<1>3. <<>> \in D
  OBVIOUS
<1> HIDE DEF t1, n
<1>4. ASSUME NEW d \in D, NEW k \in 1..n
      PROVE  /\ Put(d, sel[k]) \in D
             /\ Distinct(d) => Distinct(Put(d, sel[k]))
             /\ Held(Put(d, sel[k]))
                  = Held(d) \cup {x \in Nodes : ScraperDom!Names(root, sel[k], x)}
  <2>1. CASE ScraperDom!Valid(sel[k])
    <3> DEFINE e == ScraperDom!MatchSelector(root, sel[k])
    <3>1. sel[k] \in Seq(Parts) /\ sel[k] # <<>>
      BY <1>1
    <3>2. e \in D /\ Held(e) = {x \in Nodes : ScraperDom!Names(root, sel[k], x)}
      BY <3>1, FindsTheNamed
    <3>3. Put(d, sel[k]) = ScraperDom!Joined(d, e)
      BY <2>1
    <3> HIDE DEF e, Put
    <3>4. /\ ScraperDom!Joined(d, e) \in D
          /\ Held(ScraperDom!Joined(d, e)) = Held(d) \cup Held(e)
          /\ Distinct(d) => Distinct(ScraperDom!Joined(d, e))
      BY <3>2, Joins
    <3> QED
      BY <3>2, <3>3, <3>4
  <2>2. CASE ~ScraperDom!Valid(sel[k])
    <3>1. Put(d, sel[k]) = d
      BY <2>2
    <3>2. {x \in Nodes : ScraperDom!Names(root, sel[k], x)} = {}
      BY <2>2, InvalidNamesNothing
    <3> HIDE DEF Put
    <3> QED
      BY <3>1, <3>2
  <2> QED
    BY <2>1, <2>2
<1> HIDE DEF D
<1>5. \A d \in D, k \in 1..n : H[<<d, k>>] = Put(d, sel[k]) /\ H[<<d, k>>] \in D
  BY <1>4
<1> HIDE DEF H
<1>6. PICK f : FoldOver(f, n, <<>>, H)
  BY <1>1, FoldOverExists
<1>7. \A i \in SUBSET (1..n) : f[i] \in D
  BY <1>1, <1>3, <1>5, <1>6, FoldOverStays
<1>8. Choosing(f, root, sel)
  <2>1. ASSUME NEW i \in SUBSET (1..n), i # {}
        PROVE  H[<<f[i \ {Greatest(i)}], Greatest(i)>>] =
                 Put(f[i \ {Greatest(i)}], sel[Greatest(i)])
    BY <1>1, <1>5, <1>7, <2>1, GreatestOf
  <2> QED
    BY <1>6, <2>1 DEF Choosing, FoldOver, n
<1>9. Choosing(g, root, sel)
  BY <1>8
<1> HIDE DEF g
<1>10. g[{}] = <<>>
  BY <1>9 DEF Choosing
<1>11. ASSUME NEW k \in 1..n, g[1..(k - 1)] \in G[k - 1] PROVE g[1..k] \in G[k]
  <2> DEFINE d == g[1..(k - 1)]
             u == g[1..k]
  <2>1. u = Put(d, sel[k])
    <3> DEFINE i == 1..k
    <3>1. /\ i \in SUBSET (1..n) /\ i # {} /\ Greatest(i) = k
          /\ i \ {Greatest(i)} = 1..(k - 1)
      BY <1>1, Prefix
    <3> HIDE DEF i
    <3>2. g[i] = Put(g[i \ {Greatest(i)}], sel[Greatest(i)])
      BY <1>9, <3>1 DEF Choosing, n
    <3> QED
      BY <3>1, <3>2 DEF i
  <2> HIDE DEF Put
  <2>2. k \in 0..n /\ k - 1 \in 0..n
    BY <1>1
  <2>3. d \in D /\ Held(d) = NamedBy(root, sel, k - 1) /\ Distinct(d)
    BY <1>11, <2>2
  <2>4. NamedBy(root, sel, k)
          = NamedBy(root, sel, k - 1) \cup {x \in Nodes : ScraperDom!Names(root, sel[k], x)}
    <3>1. \A j : j \in 1..k <=> j \in 1..(k - 1) \/ j = k
      BY <1>1
    <3> QED
      BY <3>1 DEF NamedBy
  <2> HIDE DEF d, u
  <2>5. u \in D /\ Distinct(u) /\ Held(u) = NamedBy(root, sel, k)
    BY <1>4, <2>1, <2>3, <2>4
  <2> QED
    BY <2>2, <2>5 DEF u
<1>12. g[{}] \in G[0]
  <2>1. Held(<<>>) = {} /\ Distinct(<<>>) /\ NamedBy(root, sel, 0) = {}
    BY DEF Held, Distinct, NamedBy
  <2>2. 0 \in 0..n
    BY <1>1
  <2> QED
    BY <1>3, <1>10, <2>1, <2>2
<1> HIDE DEF G
<1>13. t1 \in G[n]
  BY <1>1, <1>2, <1>11, <1>12, FoldReaches
<1>14. n \in 0..n
  BY <1>1
<1>15. t1 \in D /\ Held(t1) = NamedBy(root, sel, n) /\ Distinct(t1)
  BY <1>13, <1>14 DEF G
<1> QED
  BY <1>1, <1>15 DEF t1, D, NamedBy

\* A list that holds nothing twice is as long as what it holds.
LEMMA AsLongAsItsSet ==
    ASSUME NEW s \in Seq(Nodes), Distinct(s)
    PROVE  /\ ScraperDom!ToSet(s) = Held(s)
           /\ Len(s) = ScraperDom!Cardinality(ScraperDom!ToSet(s))
<1>1. Len(s) \in Nat /\ DOMAIN s = 1..Len(s)
  OBVIOUS
<1>2. ScraperDom!ToSet(s) = Held(s)
  BY DEF ScraperDom!ToSet, Held
<1>3. s \in Bijection(1..Len(s), Held(s))
  BY <1>1 DEF Held, Distinct, Bijection, Injection, Surjection, IsInjective
<1>4. ExistsBijection(1..Len(s), Held(s))
  BY <1>3 DEF ExistsBijection
<1>5. Cardinality(Held(s)) = Len(s)
  BY <1>1, <1>4, FS_CountingElements
<1>6. \A S : ScraperDom!Cardinality(S) = Cardinality(S)
  BY DEF Cardinality, ScraperDom!Cardinality
<1> QED
  BY <1>1, <1>2, <1>5, <1>6

\* A selector is a list of groups, none of them empty.
LEMMA SelectorsAreLists ==
    ASSUME NEW sel \in ScraperDom!Selectors
    PROVE  sel \in Seq(Seq(Parts)) /\ \A i \in DOMAIN sel : sel[i] # <<>>
<1>1. ASSUME NEW p \in ScraperDom!Groups PROVE p \in Seq(Parts) /\ p # <<>>
  <2>1. p # <<>> /\ p \in UNION {[1..k -> Parts] : k \in 0..MaxCompounds}
    BY DEF ScraperDom!Groups, ScraperDom!BoundedSeq, ScraperDom!SeqOf, Parts
  <2>2. PICK k \in 0..MaxCompounds : p \in [1..k -> Parts]
    BY <2>1
  <2>3. k \in Nat
    BY ServicesAssumption
  <2> QED
    BY <2>1, <2>2, <2>3
<1>2. CASE \E p \in ScraperDom!Groups : sel = <<p>>
  BY <1>1, <1>2
<1>3. CASE \E p \in ScraperDom!Groups, q \in ScraperDom!Groups : sel = <<p, q>>
  <2> DEFINE P == Seq(Parts)
  <2>1. PICK p \in P, q \in P : sel = <<p, q>> /\ p # <<>> /\ q # <<>>
    BY <1>1, <1>3
  <2> HIDE DEF P
  <2>2. <<p, q>> \in Seq(P) /\ DOMAIN <<p, q>> = 1..2 /\ <<p, q>>[1] = p /\ <<p, q>>[2] = q
    OBVIOUS
  <2>3. sel \in Seq(P) /\ DOMAIN sel = 1..2 /\ sel[1] # <<>> /\ sel[2] # <<>>
    BY <2>1, <2>2
  <2>4. \A i \in 1..2 : i = 1 \/ i = 2
    OBVIOUS
  <2>5. \A i \in DOMAIN sel : sel[i] # <<>>
    BY <2>3, <2>4
  <2> QED
    BY <2>3, <2>5 DEF P
<1>4. \/ \E p \in ScraperDom!Groups : sel = <<p>>
      \/ \E p \in ScraperDom!Groups, q \in ScraperDom!Groups : sel = <<p, q>>
  <2>1. \A q \in ScraperDom!SecondGroups : q \in ScraperDom!Groups
    BY DEF ScraperDom!SecondGroups
  <2> QED
    BY <2>1 DEF ScraperDom!Selectors
<1> QED
  BY <1>2, <1>3, <1>4

\* The page does not change: what a selector names does not either.
LEMMA PageStays ==
    ASSUME parent' = parent, tag' = tag, holder' = holder, NEW root, NEW p, NEW n
    PROVE  ScraperDom!Names(root, p, n)' <=> ScraperDom!Names(root, p, n)
<1>1. \A e : ScraperDom!Above(e)' = ScraperDom!Above(e)
  BY DEF ScraperDom!Above
<1>2. \A e : ScraperDom!SeesText(e)' = ScraperDom!SeesText(e)
  BY <1>1, Zenon DEF ScraperDom!SeesText
<1>3. \A e, c : ScraperDom!Matches(e, c)' = ScraperDom!Matches(e, c)
  BY <1>2, Zenon DEF ScraperDom!Matches
<1> QED
  BY <1>1, <1>3 DEF ScraperDom!Names

\* What a call looked for and what it found.
DomInv == ScraperDom!TypeOK /\ ScraperDom!SelectIsCss

\* The page as it is loaded.
LEMMA DomBegins == ASSUME ScraperDom!Init PROVE DomInv
BY ServicesAssumption DEF ScraperDom!Init, ScraperDom!TypeOK, ScraperDom!SelectIsCss, DomInv

\* A call of select or of find.
LEMMA DomAnswers ==
    ASSUME DomInv, ScraperDom!Next
    PROVE  DomInv'
<1>0. ScraperDom!Elements = Nodes /\ MaxElements \in Nat
  BY ServicesAssumption DEF ScraperDom!Elements, Nodes
<1>1. ASSUME NEW sel \in ScraperDom!Selectors, NEW s \in Seq(Nodes), Distinct(s),
             NEW n \in 0..MaxElements,
             Held(s) = {e \in Nodes \ {n} :
                          \E i \in DOMAIN sel : ScraperDom!Names(n, sel[i], e)},
             scope' = n, selector' = sel, found' = s,
             parent' = parent, tag' = tag, holder' = holder
      PROVE  DomInv'
  <2>1. ScraperDom!TypeOK'
    BY <1>0, <1>1 DEF DomInv, ScraperDom!TypeOK
  <2>2. /\ ScraperDom!ToSet(s) = Held(s)
        /\ Len(s) = ScraperDom!Cardinality(ScraperDom!ToSet(s))
    BY <1>1, AsLongAsItsSet
  <2>3. \A p, e : ScraperDom!Names(n, p, e)' <=> ScraperDom!Names(n, p, e)
    BY <1>1, PageStays
  <2>4. ScraperDom!SelectIsCss'
    BY <1>0, <1>1, <2>2, <2>3 DEF ScraperDom!SelectIsCss, ScraperDom!Plain
  <2> QED
    BY <2>1, <2>4 DEF DomInv
<1>2. PICK sel \in ScraperDom!Selectors :
          ScraperDom!Select(sel) \/ \E n \in ScraperDom!Elements : ScraperDom!Find(n, sel)
  BY DEF ScraperDom!Next
<1>3. sel \in Seq(Seq(Parts)) /\ \A i \in DOMAIN sel : sel[i] # <<>>
  BY SelectorsAreLists
<1>4. ASSUME NEW n \in 0..MaxElements
      PROVE  /\ ScraperDom!SelectNodes(n, sel) \in Seq(Nodes)
             /\ Distinct(ScraperDom!SelectNodes(n, sel))
             /\ Held(ScraperDom!SelectNodes(n, sel))
                  = {e \in Nodes : \E i \in DOMAIN sel : ScraperDom!Names(n, sel[i], e)}
  BY <1>3, SelectsTheNamed
<1>5. CASE ScraperDom!Select(sel)
  <2> DEFINE s == ScraperDom!SelectNodes(0, sel)
  <2>1. 0 \in 0..MaxElements /\ Nodes = Nodes \ {0}
    BY <1>0 DEF Nodes
  <2>2. /\ s \in Seq(Nodes) /\ Distinct(s)
        /\ Held(s) = {e \in Nodes : \E i \in DOMAIN sel : ScraperDom!Names(0, sel[i], e)}
    BY <1>4, <2>1
  <2>3. /\ scope' = 0 /\ selector' = sel /\ found' = s
        /\ parent' = parent /\ tag' = tag /\ holder' = holder
    BY <1>5 DEF ScraperDom!Select
  <2> HIDE DEF s
  <2> QED
    BY <1>1, <2>1, <2>2, <2>3
<1>6. CASE \E n \in ScraperDom!Elements : ScraperDom!Find(n, sel)
  <2>1. PICK n \in Nodes : ScraperDom!Find(n, sel)
    BY <1>0, <1>6
  <2> DEFINE all == ScraperDom!SelectNodes(n, sel)
             s == ScraperDom!Filtered(all, Nodes \ {n})
  <2>2. n \in 0..MaxElements
    BY <1>0 DEF Nodes
  <2>3. /\ all \in Seq(Nodes) /\ Distinct(all)
        /\ Held(all) = {e \in Nodes : \E i \in DOMAIN sel : ScraperDom!Names(n, sel[i], e)}
    BY <1>4, <2>2
  <2>4. /\ scope' = n /\ selector' = sel /\ found' = s
        /\ parent' = parent /\ tag' = tag /\ holder' = holder
    BY <1>0, <2>1 DEF ScraperDom!Find
  <2> HIDE DEF all
  <2>5. s \in Seq(Nodes) /\ Distinct(s) /\ Held(s) = Held(all) \cap (Nodes \ {n})
    BY <2>3, Filters
  <2> HIDE DEF s
  <2>6. Held(s) = {e \in Nodes \ {n} :
                     \E i \in DOMAIN sel : ScraperDom!Names(n, sel[i], e)}
    BY <2>3, <2>5
  <2> QED
    BY <1>1, <2>2, <2>4, <2>5, <2>6
<1> QED
  BY <1>2, <1>5, <1>6

\* A call of a page and its answer, always.
LEMMA DomIsInvariant == Spec => [](which = "dom" => DomInv)
<1> DEFINE I == which = "dom" => DomInv
<1>1. Init => I
  BY DomBegins DEF Init
<1>2. I /\ [Next]_vars => I'
  <2> SUFFICES ASSUME I, [Next]_vars, which' = "dom"
               PROVE  DomInv'
    OBVIOUS
  <2>1. CASE Next
    <3>1. which = "dom" /\ ScraperDom!Next
      BY <2>1 DEF Next
    <3> QED
      BY <3>1, DomAnswers
  <2>2. CASE UNCHANGED vars
    <3>1. DomInv /\ UNCHANGED domVars
      BY <2>2 DEF vars
    <3>2. /\ parent' = parent /\ tag' = tag /\ holder' = holder
          /\ scope' = scope /\ selector' = selector /\ found' = found
      BY <3>1 DEF domVars
    <3>3. \A root, p, e : ScraperDom!Names(root, p, e)' <=> ScraperDom!Names(root, p, e)
      BY <3>2, PageStays
    <3>4. ScraperDom!TypeOK'
      BY <3>1, <3>2 DEF DomInv, ScraperDom!TypeOK
    <3>5. ScraperDom!SelectIsCss'
      BY <3>1, <3>2, <3>3 DEF DomInv, ScraperDom!SelectIsCss, ScraperDom!Plain
    <3> QED
      BY <3>4, <3>5 DEF DomInv
  <2> QED
    BY <2>1, <2>2
<1> QED
  BY <1>1, <1>2, PTL DEF Spec

\* DomBridge: on every page, select and find answer no element twice, and for a
\* plain selector each element that one of its groups names and nothing else.
THEOREM SelectorsAreCss == Spec => []SelectIsCss
<1>1. (which = "dom" => DomInv) => SelectIsCss
  BY DEF DomInv, SelectIsCss
<1> QED
  BY <1>1, DomIsInvariant, PTL

-----------------------------------------------------------------------------
(* CollectionStore and CollectionSyncController. *)

\* Lists of collections where no id comes twice.
Lists == {l \in Seq(Collections!Collection) :
              \A i, j \in DOMAIN l : l[i].id = l[j].id => i = j}

\* The requests of the controller.
CollectionRequests ==
    {Collections!NoRequest} \cup [call : {"pull"}, p : Profiles]
      \cup [call : {"push"}, p : Profiles, list : Lists]

\* Every list, saved, shown, sent or on the server, names an id once.
CollectionsInv ==
    /\ signedIn \in BOOLEAN /\ profile \in Profiles
    /\ saved \in [Profiles -> Lists] /\ serverCollections \in [Profiles -> Lists]
    /\ collections \in Lists
    /\ folder \in Ids \cup {None} /\ folderToken \in 0..MaxLoads
    /\ folderItems \subseteq Collections!Item /\ folderReplies \subseteq Collections!Item
    /\ collRequest \in CollectionRequests /\ collDebounce \in BOOLEAN
    /\ edits \in 0..MaxEdits

\* SetToSeq, as the instance of CollectionSync names it, lists each id once.
LEMMA IdsListed ==
    /\ Collections!SetToSeq(Ids) \in Seq(Ids)
    /\ \A i, j \in DOMAIN Collections!SetToSeq(Ids) :
           Collections!SetToSeq(Ids)[i] = Collections!SetToSeq(Ids)[j] => i = j
<1> DEFINE size == Cardinality(Ids)
           all == {f \in [1..size -> Ids] : Collections!IsInjective(f)}
           s == Collections!SetToSeq(Ids)
<1>1. size \in Nat /\ ExistsBijection(1..size, Ids)
  BY ServicesAssumption, FS_CardinalityType
<1>2. PICK b : b \in Bijection(1..size, Ids)
  BY <1>1 DEF ExistsBijection
<1>3. b \in all
  BY <1>2, Zenon DEF Bijection, Injection, Surjection, IsInjective, Collections!IsInjective
<1>4. Collections!Cardinality(Ids) = size
  BY DEF Cardinality, Collections!Cardinality
<1>5. s = CHOOSE f \in [1..size -> Ids] : Collections!IsInjective(f)
  BY <1>4 DEF Collections!SetToSeq
<1>6. s \in [1..size -> Ids] /\ Collections!IsInjective(s)
  BY <1>3, <1>5, Zenon
<1> HIDE DEF s
<1>7. \A i, j \in DOMAIN s : s[i] = s[j] => i = j
  BY <1>6, Zenon DEF Collections!IsInjective
<1>8. s \in Seq(Ids)
  BY <1>1, <1>6
<1> QED
  BY <1>7, <1>8 DEF s

\* An id that the list has not may be added.
LEMMA ListWithNew ==
    ASSUME NEW l \in Lists, NEW c \in Collections!Collection,
           \A i \in DOMAIN l : l[i].id # c.id
    PROVE  Append(l, c) \in Lists
<1> DEFINE e == Append(l, c)
<1>1. l \in Seq(Collections!Collection) /\ \A i, j \in DOMAIN l : l[i].id = l[j].id => i = j
  BY DEF Lists
<1>2. /\ e \in Seq(Collections!Collection) /\ DOMAIN e = 1..(Len(l) + 1) /\ Len(l) \in Nat
      /\ DOMAIN l = 1..Len(l) /\ e[Len(l) + 1] = c /\ \A i \in 1..Len(l) : e[i] = l[i]
  BY <1>1
<1> HIDE DEF e
<1>3. ASSUME NEW i \in DOMAIN e, NEW j \in DOMAIN e, e[i].id = e[j].id PROVE i = j
  <2>1. ASSUME NEW k \in DOMAIN e PROVE k = Len(l) + 1 \/ (k \in DOMAIN l /\ e[k] = l[k])
    BY <1>2, <2>1
  <2>2. CASE i = Len(l) + 1
    BY <1>2, <1>3, <2>1, <2>2
  <2>3. CASE j = Len(l) + 1
    BY <1>2, <1>3, <2>1, <2>3
  <2>4. CASE i \in DOMAIN l /\ j \in DOMAIN l /\ e[i] = l[i] /\ e[j] = l[j]
    BY <1>1, <1>3, <2>4
  <2> QED
    BY <2>1, <2>2, <2>3, <2>4
<1> QED
  BY <1>2, <1>3 DEF e, Lists

\* A collection keeps its id when its sources change.
LEMMA ListEdited ==
    ASSUME NEW l \in Lists, NEW i \in DOMAIN l, NEW srcs \in SUBSET Sources
    PROVE  [l EXCEPT ![i].sources = srcs] \in Lists
<1> DEFINE c == [l[i] EXCEPT !.sources = srcs]
           e == [l EXCEPT ![i] = c]
<1>1. l \in Seq(Collections!Collection) /\ \A h, j \in DOMAIN l : l[h].id = l[j].id => h = j
  BY DEF Lists
<1>2. l[i] \in Collections!Collection
  BY <1>1
<1>3. c \in Collections!Collection /\ c.id = l[i].id
  BY <1>2 DEF Collections!Collection
<1>4. [l EXCEPT ![i].sources = srcs] = e
  OBVIOUS
<1> HIDE DEF c
<1>5. e \in Seq(Collections!Collection) /\ DOMAIN e = DOMAIN l
  BY <1>1, <1>3
<1>6. \A j \in DOMAIN l : e[j].id = l[j].id
  BY <1>1, <1>3
<1> HIDE DEF e
<1> QED
  BY <1>1, <1>4, <1>5, <1>6 DEF Lists

\* Two collections may change places.
LEMMA ListSwapped ==
    ASSUME NEW l \in Lists, NEW i \in DOMAIN l, NEW j \in DOMAIN l, i # j
    PROVE  [l EXCEPT ![i] = l[j], ![j] = l[i]] \in Lists
<1> DEFINE e == [l EXCEPT ![i] = l[j], ![j] = l[i]]
<1>1. l \in Seq(Collections!Collection) /\ \A h, k \in DOMAIN l : l[h].id = l[k].id => h = k
  BY DEF Lists
<1>2. e \in Seq(Collections!Collection) /\ DOMAIN e = DOMAIN l
  BY <1>1
<1>3. /\ e[i] = l[j] /\ e[j] = l[i]
      /\ \A k \in DOMAIN l : k # i /\ k # j => e[k] = l[k]
  BY <1>1
<1> HIDE DEF e
<1>4. ASSUME NEW h \in DOMAIN l, NEW k \in DOMAIN l, e[h].id = e[k].id PROVE h = k
  BY <1>1, <1>3, <1>4
<1> QED
  BY <1>2, <1>4 DEF e, Lists

\* One collection of the list, kept unless it has the id.
KeepingOthers(f, id) ==
    f = [is \in SUBSET (1..Len(collections)) |->
            IF is = {} THEN <<>>
            ELSE IF collections[Greatest(is)].id = id THEN f[is \ {Greatest(is)}]
                 ELSE Append(f[is \ {Greatest(is)}], collections[Greatest(is)])]

\* removeCollection leaves a list where no id comes twice: what is left so far
\* is of places passed by.
LEMMA OthersAreListed ==
    ASSUME collections \in Lists, NEW id
    PROVE  Collections!Without(id) \in Lists
<1> DEFINE n == Len(collections)
           E == Collections!Collection
           D == Seq(E)
           H == [x \in D \X (1..n) |-> IF collections[x[2]].id = id THEN x[1]
                                       ELSE Append(x[1], collections[x[2]])]
           t1 == Collections!Without(id)
           g == CHOOSE f : KeepingOthers(f, id)
           Passed(k) == {l \in Lists : \A i \in DOMAIN l :
                             \E j \in 1..k : l[i].id = collections[j].id}
           G == [k \in 0..n |-> Passed(k)]
<1>1. /\ n \in Nat /\ DOMAIN collections = 1..n /\ \A k \in 1..n : collections[k] \in E
      /\ \A i, j \in 1..n : collections[i].id = collections[j].id => i = j
  BY DEF Lists
<1>2. t1 = g[1..n]
  BY <1>1 DEF Collections!Without, Collections!FoldLeft, Collections!MapThenFoldSet,
              Collections!Max, KeepingOthers, Greatest
<1>3. <<>> \in D /\ <<>> \in Lists
  BY DEF Lists
<1>4. \A d \in D, k \in 1..n :
          (IF collections[k].id = id THEN d ELSE Append(d, collections[k])) \in D
  BY <1>1
<1> HIDE DEF t1, n, D, E
<1>5. \A d \in D, k \in 1..n :
        /\ H[<<d, k>>] = IF collections[k].id = id THEN d ELSE Append(d, collections[k])
        /\ H[<<d, k>>] \in D
  BY <1>4
<1> HIDE DEF H
<1>6. PICK f : FoldOver(f, n, <<>>, H)
  BY <1>1, FoldOverExists
<1>7. \A is \in SUBSET (1..n) : f[is] \in D
  BY <1>1, <1>3, <1>5, <1>6, FoldOverStays
<1>8. KeepingOthers(f, id)
  <2>1. ASSUME NEW is \in SUBSET (1..n), is # {}
        PROVE  H[<<f[is \ {Greatest(is)}], Greatest(is)>>] =
                 IF collections[Greatest(is)].id = id THEN f[is \ {Greatest(is)}]
                 ELSE Append(f[is \ {Greatest(is)}], collections[Greatest(is)])
    BY <1>1, <1>5, <1>7, <2>1, GreatestOf
  <2> QED
    BY <1>6, <2>1 DEF KeepingOthers, FoldOver, n
<1>9. KeepingOthers(g, id)
  BY <1>8
<1> HIDE DEF g
<1>10. g[{}] = <<>>
  BY <1>9 DEF KeepingOthers
<1>11. ASSUME NEW k \in 1..n, g[1..(k - 1)] \in G[k - 1] PROVE g[1..k] \in G[k]
  <2> DEFINE before == g[1..(k - 1)]
             c == collections[k]
  <2>1. g[1..k] = IF c.id = id THEN before ELSE Append(before, c)
    <3> DEFINE is == 1..k
    <3>1. /\ is \in SUBSET (1..n) /\ is # {} /\ Greatest(is) = k
          /\ is \ {Greatest(is)} = 1..(k - 1)
      BY <1>1, Prefix
    <3> HIDE DEF is
    <3>2. g[is] = IF collections[Greatest(is)].id = id THEN g[is \ {Greatest(is)}]
                  ELSE Append(g[is \ {Greatest(is)}], collections[Greatest(is)])
      BY <1>9, <3>1 DEF KeepingOthers, n
    <3> QED
      BY <3>1, <3>2 DEF is
  <2>2. /\ before \in Lists /\ c \in E /\ k \in 0..n
        /\ \A i \in DOMAIN before : \E j \in 1..(k - 1) : before[i].id = collections[j].id
    BY <1>1, <1>11
  <2> HIDE DEF before
  <2>3. \A i \in DOMAIN before : before[i].id # c.id
    BY <1>1, <2>2
  <2>4. Append(before, c) \in Lists
    BY <2>2, <2>3, ListWithNew DEF E
  <2>5. \A i \in DOMAIN before : \E j \in 1..k : before[i].id = collections[j].id
    BY <1>1, <2>2
  <2>6. ASSUME NEW i \in DOMAIN Append(before, c)
        PROVE  \E j \in 1..k : Append(before, c)[i].id = collections[j].id
    <3>1. before \in Seq(Collections!Collection)
      BY <2>2 DEF Lists
    <3>2. \/ i \in DOMAIN before /\ Append(before, c)[i] = before[i]
          \/ Append(before, c)[i] = c
      BY <2>6, <3>1
    <3> QED
      BY <1>1, <2>5, <3>2
  <2>7. before \in Passed(k) /\ Append(before, c) \in Passed(k)
    BY <2>2, <2>4, <2>5, <2>6
  <2> QED
    BY <2>1, <2>2, <2>7
<1>12. g[{}] \in G[0]
  BY <1>1, <1>3, <1>10
<1> HIDE DEF G
<1>13. g[1..n] \in G[n]
  BY <1>1, <1>11, <1>12, FoldReaches
<1> QED
  BY <1>1, <1>2, <1>13 DEF G, t1

\* persist and changed, with a new list (setCollections and the user's edits).
LEMMA PersistTyped ==
    ASSUME CollectionsInv, NEW new \in Lists, Collections!Persist(new),
           Collections!NoFolder, Collections!NoSync, UNCHANGED <<signedIn, profile>>
    PROVE  CollectionsInv'
<1>1. /\ collections' = new /\ saved' = [saved EXCEPT ![profile] = new]
      /\ edits' \in 0..MaxEdits /\ collDebounce' \in BOOLEAN
  BY ServicesAssumption DEF CollectionsInv, Collections!Persist
<1>2. saved' \in [Profiles -> Lists]
  BY <1>1 DEF CollectionsInv
<1> QED
  BY <1>1, <1>2 DEF CollectionsInv, Collections!NoFolder, Collections!NoSync

\* The user's edits.
LEMMA CollectionEdits ==
    ASSUME CollectionsInv, NEW id \in Ids,
           \/ Collections!CreateCollection(id)
           \/ Collections!RemoveCollection(id)
           \/ \E delta \in {-1, 1} : Collections!MoveCollection(id, delta)
           \/ \E srcs \in SUBSET Sources : Collections!EditCollection(id, srcs)
    PROVE  CollectionsInv'
<1>1. collections \in Lists /\ collections \in Seq(Collections!Collection)
  BY DEF CollectionsInv, Lists
<1>2. CASE Collections!CreateCollection(id)
  <2> DEFINE c == [id |-> id, sources |-> {}]
  <2>1. c \in Collections!Collection /\ c.id = id
    BY DEF Collections!Collection
  <2>2. /\ \A i \in DOMAIN collections : collections[i].id # id
        /\ Collections!Persist(Append(collections, c))
        /\ Collections!NoFolder /\ Collections!NoSync /\ UNCHANGED <<signedIn, profile>>
    BY <1>2 DEF Collections!CreateCollection
  <2> HIDE DEF c
  <2>3. Append(collections, c) \in Lists
    BY <1>1, <2>1, <2>2, ListWithNew
  <2> QED
    BY <2>2, <2>3, PersistTyped
<1>3. CASE Collections!RemoveCollection(id)
  <2>1. Collections!Without(id) \in Lists
    BY <1>1, OthersAreListed
  <2> QED
    BY <1>3, <2>1, PersistTyped DEF Collections!RemoveCollection
<1>4. ASSUME NEW delta \in {-1, 1}, Collections!MoveCollection(id, delta) PROVE CollectionsInv'
  <2>1. PICK i \in Collections!At(id) :
          /\ i + delta \in DOMAIN collections
          /\ Collections!Persist([collections EXCEPT ![i] = collections[i + delta],
                                                    ![i + delta] = collections[i]])
          /\ Collections!NoFolder /\ Collections!NoSync /\ UNCHANGED <<signedIn, profile>>
    BY <1>4 DEF Collections!MoveCollection
  <2> DEFINE j == i + delta
  <2>2. i \in DOMAIN collections /\ j \in DOMAIN collections /\ i # j
    BY <1>1, <2>1 DEF Collections!At
  <2> HIDE DEF j
  <2>3. [collections EXCEPT ![i] = collections[j], ![j] = collections[i]] \in Lists
    BY <1>1, <2>2, ListSwapped
  <2>4. Collections!Persist([collections EXCEPT ![i] = collections[j], ![j] = collections[i]])
    BY <2>1 DEF j
  <2> QED
    BY <2>1, <2>3, <2>4, PersistTyped
<1>5. ASSUME NEW srcs \in SUBSET Sources, Collections!EditCollection(id, srcs)
      PROVE  CollectionsInv'
  <2>1. PICK i \in Collections!At(id) :
          /\ Collections!Persist([collections EXCEPT ![i].sources = srcs])
          /\ Collections!NoFolder /\ Collections!NoSync /\ UNCHANGED <<signedIn, profile>>
    BY <1>5 DEF Collections!EditCollection
  <2>2. i \in DOMAIN collections
    BY DEF Collections!At
  <2>3. [collections EXCEPT ![i].sources = srcs] \in Lists
    BY <1>1, <2>2, ListEdited
  <2> QED
    BY <2>1, <2>3, PersistTyped
<1> QED
  BY <1>2, <1>3, <1>4, <1>5

\* The folder of a collection and its replies.
LEMMA FolderTyped ==
    ASSUME CollectionsInv,
           \/ \E id \in Ids : Collections!LoadFolder(id)
           \/ \E r \in folderReplies, ok \in BOOLEAN : Collections!FolderReply(r, ok)
    PROVE  CollectionsInv'
<1>1. ASSUME NEW id \in Ids, Collections!LoadFolder(id) PROVE CollectionsInv'
  <2>1. /\ folder' = id /\ folderToken' = folderToken + 1 /\ folderItems' = {}
        /\ Collections!NoSync
        /\ UNCHANGED <<signedIn, profile, saved, collections, collDebounce, edits>>
    BY <1>1 DEF Collections!LoadFolder
  <2>2. folderToken' \in 0..MaxLoads
    BY <1>1, <2>1, ServicesAssumption DEF Collections!LoadFolder, CollectionsInv
  <2>3. \A i \in Collections!At(id) : collections[i].sources \subseteq Sources
    <3>1. collections \in Seq(Collections!Collection)
      BY DEF CollectionsInv, Lists
    <3>2. \A i \in DOMAIN collections : collections[i] \in Collections!Collection
      BY <3>1
    <3>3. \A i \in Collections!At(id) : i \in DOMAIN collections
      BY DEF Collections!At
    <3>4. \A c \in Collections!Collection : c.sources \subseteq Sources
      BY DEF Collections!Collection
    <3> QED
      BY <3>2, <3>3, <3>4
  <2>4. \A s \in Sources : [token |-> folderToken', source |-> s] \in Collections!Item
    BY <2>2 DEF Collections!Item
  <2>5. \A s \in UNION {collections[i].sources : i \in Collections!At(id)} : s \in Sources
    BY <2>3
  <2>6. folderReplies' \subseteq Collections!Item
    BY <1>1, <2>4, <2>5 DEF Collections!LoadFolder, CollectionsInv
  <2> QED
    BY <2>1, <2>2, <2>6 DEF CollectionsInv, Collections!NoSync
<1>2. ASSUME NEW r \in folderReplies, NEW ok \in BOOLEAN, Collections!FolderReply(r, ok)
      PROVE  CollectionsInv'
  BY <1>2 DEF Collections!FolderReply, Collections!NoSync, CollectionsInv
<1> QED
  BY <1>1, <1>2

\* The controller's requests and their answers.
LEMMA CollectionRepliesTyped ==
    ASSUME CollectionsInv,
           \/ Collections!PushNow \/ Collections!PullFails \/ Collections!SignInOrOut
           \/ \E ok \in BOOLEAN : Collections!PushReply(ok) \/ Collections!PullReply(ok)
    PROVE  CollectionsInv'
<1>1. /\ Collections!NoRequest \in CollectionRequests
      /\ Collections!Asked \in CollectionRequests
      /\ [call |-> "push", p |-> profile, list |-> saved[profile]] \in CollectionRequests
  BY DEF CollectionRequests, Collections!Asked, CollectionsInv
<1>2. CASE Collections!PushNow
  BY <1>1, <1>2 DEF Collections!PushNow, Collections!NoFolder, CollectionsInv
<1>3. CASE Collections!PullFails
  BY <1>1, <1>3 DEF Collections!PullFails, Collections!NoFolder, CollectionsInv
<1>4. CASE Collections!SignInOrOut
  BY <1>1, <1>4 DEF Collections!SignInOrOut, Collections!NoFolder, CollectionsInv
<1>5. ASSUME NEW ok \in BOOLEAN, Collections!PushReply(ok) PROVE CollectionsInv'
  <2>1. collRequest.p \in Profiles /\ collRequest.list \in Lists
    BY <1>5 DEF Collections!PushReply, CollectionsInv, CollectionRequests,
                Collections!NoRequest
  <2>2. \/ serverCollections' = [serverCollections EXCEPT ![collRequest.p] = collRequest.list]
        \/ serverCollections' = serverCollections
    BY <1>5 DEF Collections!PushReply
  <2>3. serverCollections' \in [Profiles -> Lists]
    BY <2>1, <2>2 DEF CollectionsInv
  <2> QED
    BY <1>1, <1>5, <2>3 DEF Collections!PushReply, Collections!NoFolder, CollectionsInv
<1>6. ASSUME NEW ok \in BOOLEAN, Collections!PullReply(ok) PROVE CollectionsInv'
  <2>1. collRequest.p \in Profiles
    BY <1>6 DEF Collections!PullReply, CollectionsInv, CollectionRequests,
                Collections!NoRequest
  <2>2. <<>> \in Lists /\ serverCollections[collRequest.p] \in Lists
    BY <2>1 DEF Lists, CollectionsInv
  <2>3. saved' \in [Profiles -> Lists]
    BY <1>6, <2>2 DEF Collections!PullReply, CollectionsInv
  <2> QED
    BY <1>1, <1>6, <2>3 DEF Collections!PullReply, Collections!NoFolder, CollectionsInv
<1> QED
  BY <1>2, <1>3, <1>4, <1>5, <1>6

\* Every step keeps the lists well formed.
LEMMA CollectionsStep == ASSUME CollectionsInv, Collections!Next PROVE CollectionsInv'
<1>1. ASSUME NEW p \in Profiles, Collections!SwitchProfile(p) PROVE CollectionsInv'
  BY <1>1 DEF Collections!SwitchProfile, Collections!NoSync, CollectionsInv
<1> QED
  BY <1>1, CollectionEdits, FolderTyped, CollectionRepliesTyped
  DEF Collections!Next, Collections!User, Collections!Replies

\* The program starts with them.
LEMMA CollectionsBegin == ASSUME Collections!Init PROVE CollectionsInv
<1> DEFINE ids == Collections!SetToSeq(Ids)
           all == [i \in DOMAIN ids |-> [id |-> ids[i], sources |-> {}]]
<1>1. ids \in Seq(Ids) /\ \A i, j \in DOMAIN ids : ids[i] = ids[j] => i = j
  BY IdsListed
<1>2. serverCollections \in [Profiles -> {<<>>, all}]
  BY DEF Collections!Init
<1> HIDE DEF ids
<1>3. /\ DOMAIN all = DOMAIN ids /\ DOMAIN ids = 1..Len(ids) /\ Len(ids) \in Nat
      /\ \A i \in DOMAIN ids : all[i] = [id |-> ids[i], sources |-> {}] /\ ids[i] \in Ids
  BY <1>1
<1>4. all \in Seq(Collections!Collection)
  BY <1>3 DEF Collections!Collection
<1>5. \A i \in DOMAIN all : all[i].id = ids[i]
  BY <1>3
<1> HIDE DEF all
<1>6. all \in Lists /\ <<>> \in Lists
  BY <1>1, <1>3, <1>4, <1>5 DEF Lists
<1>7. serverCollections \in [Profiles -> Lists]
  BY <1>2, <1>6
<1>8. collRequest \in CollectionRequests
  BY DEF Collections!Init, CollectionRequests, Collections!Asked
<1>9. 0 \in 0..MaxLoads /\ 0 \in 0..MaxEdits
  BY ServicesAssumption
<1>10. saved \in [Profiles -> Lists] /\ collections \in Lists
  BY <1>6 DEF Collections!Init
<1> QED
  BY <1>7, <1>8, <1>9, <1>10 DEF Collections!Init, CollectionsInv

\* The invariant types the variables.
LEMMA CollectionsTyped == ASSUME CollectionsInv PROVE Collections!TypeOK
<1>1. \A l \in Lists : Collections!WellFormed(l)
  BY DEF Lists, Collections!WellFormed
<1>2. collRequest.call \in {"none", "pull", "push"}
  BY DEF CollectionsInv, CollectionRequests, Collections!NoRequest
<1> QED
  BY <1>1, <1>2 DEF CollectionsInv, Collections!TypeOK

\* CollectionStore and CollectionSyncController keep to them from the start.
LEMMA CollectionsAreInvariant == Spec => [](which = "collections" => CollectionsInv)
<1> DEFINE I == which = "collections" => CollectionsInv
<1>1. Init => I
  BY CollectionsBegin DEF Init
<1>2. I /\ [Next]_vars => I'
  <2> SUFFICES ASSUME I, [Next]_vars, which' = "collections" PROVE CollectionsInv'
    OBVIOUS
  <2>1. CASE Next
    BY <2>1, CollectionsStep DEF Next
  <2>2. CASE UNCHANGED vars
    <3>1. UNCHANGED <<which, signedIn, profile, collectionVars>>
      BY <2>2 DEF vars
    <3> QED
      BY <3>1 DEF CollectionsInv, collectionVars
  <2> QED
    BY <2>1, <2>2
<1> QED
  BY <1>1, <1>2, PTL DEF Spec

-----------------------------------------------------------------------------
(* The types of all the services. *)

\* The invariants of the services say that their variables keep to their types.
LEMMA InvariantsType ==
    /\ AddonsInv => Addons!TypeOK
    /\ LoadInv => HomePage!TypeOK
    /\ ManagerInv => Manager!TypeOK
    /\ WordInv => Tracking!TypeOK
    /\ DomInv => ScraperDom!TypeOK
    /\ AlertInv => Alerts!TypeOK
    /\ UpdaterInv => Updates!TypeOK
<1>1. AddonsInv => Addons!TypeOK
  <2>1. addonsRequest \in AddonRequests => addonsRequest.call \in {"none", "pull", "push"}
    BY DEF AddonRequests, Addons!NoRequest
  <2> QED
    BY <2>1 DEF AddonsInv, Addons!TypeOK
<1>2. LoadInv => HomePage!TypeOK
  BY DEF LoadInv, Loads, ShelfInv, DataStates, HomePage!TypeOK
<1>3. WordInv => Tracking!TypeOK
  BY DEF WordInv, Sent, Tracking!TypeOK
<1> QED
  BY <1>1, <1>2, <1>3 DEF ManagerInv, DomInv, AlertInv, UpdaterInv

\* A behaviour is one of one of the services.
LEMMA OneService == Spec => [](which \in All)
<1>1. Init => which \in All
  BY DEF Init
<1>2. which \in All /\ [Next]_vars => (which \in All)'
  BY DEF Next, vars
<1> QED
  BY <1>1, <1>2, PTL DEF Spec

\* Every variable of the sixteen services keeps to its type, for any profiles,
\* urls, ids, shelves, words, answers and bounds: what a reply carries, queued
\* calls, folds over lists and histories included.
THEOREM ServicesTypeCorrect == Spec => []TypeOK
<1> DEFINE A == /\ which \in All
                /\ which = "addons" => AddonsInv
                /\ which = "collections" => CollectionsInv
                /\ which = "catalog" => HomeCatalog!TypeOK
           B == /\ which = "creds" => Creds!TypeOK
                /\ which = "settings" => Settings!TypeOK
                /\ which = "shelves" => LoadInv
                /\ which = "profiles" => ManagerInv
           C == /\ which = "accounts" => Accounts!TypeOK
                /\ which = "debrid" => Debrid!TypeOK
                /\ which = "tracking" => WordInv
                /\ which = "torrents" => Torrents!TypeOK
           D == /\ which = "preferences" => Preferences!TypeOK
                /\ which = "plugins" => PluginRepos!TypeOK
                /\ which = "dom" => DomInv
                /\ which = "alerts" => AlertInv
                /\ which = "updates" => UpdaterInv
<1>1. A /\ B /\ C /\ D => TypeOK
  BY InvariantsType, CollectionsTyped DEF TypeOK
<1>2. Spec => []A
  BY OneService, AddonsAreInvariant, CollectionsAreInvariant, CatalogIsTyped, PTL
<1>3. Spec => []B
  BY CredsAreTyped, BlobIsTyped, LoadsAreInvariant, ManagerIsInvariant, PTL
<1>4. Spec => []C
  BY AuthIsTyped, LinkIsTyped, WordIsInvariant, StreamIsTyped, PTL
<1>5. Spec => []D
  BY PrefIsTyped, PluginIsTyped, DomIsInvariant, AlertsAreInvariant, UpdaterIsInvariant, PTL
<1> HIDE DEF A, B, C, D
<1> QED
  BY <1>1, <1>2, <1>3, <1>4, <1>5, PTL
=============================================================================
