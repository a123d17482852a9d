------------------------------ MODULE DomSelect ------------------------------
(***************************************************************************)
(* DomBridge: how a scraper selects elements of a page it has loaded.       *)
(*                                                                         *)
(* The elements are numbered in document order, 0 is the document.  Tags,   *)
(* ids, classes and attributes are tested alike, one word each: an element  *)
(* has the tag of a script, whose text nobody sees, or another; one element *)
(* holds the text that :contains looks for.                                *)
(***************************************************************************)
EXTENDS Integers, Sequences, FiniteSets, SequencesExt

CONSTANTS MaxElements, MaxCompounds, None

Elements == 1..MaxElements
TagNames == {"div", "script"}

VARIABLES
    parent, tag, holder,   \* the page; 0 holds no text
    scope,                 \* where the last call looked, None before
    selector,              \* what it looked for
    found                  \* its answer, a handle for each

domVars == <<parent, tag, holder, scope, selector, found>>

\* The ancestors of n, the document among them.
Above(n) ==
    LET above[e \in 0..MaxElements] ==
            IF e = 0 THEN {} ELSE {parent[e]} \cup above[parent[e]]
    IN  above[n]

\* What parseCompound makes of a part.  A selector is cut at every comma and a
\* group at every blank, also at those inside :contains() and the value of an
\* attribute.  "invalid" is a part with an opening and no end, what follows such
\* a cut, which is the name of no element, or a pseudo-class nobody knows.
Compounds == {"div", "script", "text", "invalid"}

\* The compounds of a group as parseSelectorGroup reads them, and what stands
\* before each.  It drops a ">" before the first of them or after the last: the
\* first says ">" here for either.
Groups == {g \in BoundedSeq([of : Compounds, after : {" ", ">"}], MaxCompounds) :
               g # <<>>}

\* The second group of a list has one compound here.
SecondGroups == {g \in Groups : Len(g) = 1 /\ g[1].after = " "}

Selectors == {<<g>> : g \in Groups} \cup {<<g, h>> : g \in Groups, h \in SecondGroups}

TypeOK ==
    /\ parent \in [Elements -> 0..MaxElements] /\ tag \in [Elements -> TagNames]
    /\ holder \in 0..MaxElements
    /\ scope \in 0..MaxElements \cup {None}
    /\ selector \in Selectors \cup {None}
    /\ found \in Seq(Elements)

-----------------------------------------------------------------------------
\* Those of s that are in S, in the order of s.
Filtered(s, S) ==
    FoldLeft(LAMBDA acc, n : IF n \in S THEN Append(acc, n) ELSE acc, <<>>, s)

DocumentOrder == [n \in Elements |-> n]

\* collectDescendants.
Descendants(n) == Filtered(DocumentOrder, {d \in Elements : n \in Above(d)})

Kids(n) == Filtered(DocumentOrder, {d \in Elements : parent[d] = n})

\* nodeText does not go into scripts, nor read one it is asked for.
SeesText(n) ==
    /\ holder # 0 /\ n \in Above(holder) \cup {holder}
    /\ \A e \in (Above(holder) \cup {holder}) \ Above(n) : tag[e] # "script"

\* matchCompound.
Matches(n, c) ==
    CASE c = "invalid" -> FALSE
      [] c = "text" -> SeesText(n)
      [] OTHER -> tag[n] = c

Matching(s, c) == Filtered(s, {n \in Elements : Matches(n, c)})

\* Appends those that are not there yet.
Joined(s, t) ==
    FoldLeft(LAMBDA acc, n : IF Contains(acc, n) THEN acc ELSE Append(acc, n), s, t)

\* Mutant of Beyond: a blank looks no further than a child.
BeyondByKids(n, c) == Matching(Kids(n), c.of)

\* The elements one compound further on.
Beyond(n, c) == Matching(IF c.after = ">" THEN Kids(n) ELSE Descendants(n), c.of)

\* From all that the compound before has found.
Onward(current, c) ==
    FoldLeft(LAMBDA acc, n : Joined(acc, Beyond(n, c)), <<>>, current)

\* matchSelector: the root is tried too.
MatchSelector(root, g) ==
    LET all == (IF root = 0 THEN <<>> ELSE <<root>>) \o Descendants(root)
    IN  FoldLeft(Onward, Matching(all, g[1].of), Tail(g))

Valid(g) == \A i \in DOMAIN g : g[i].of # "invalid"

\* selectNodes: a group with an invalid compound is passed over, the others are
\* not.
SelectNodes(root, sel) ==
    FoldLeft(LAMBDA acc, g : IF Valid(g) THEN Joined(acc, MatchSelector(root, g)) ELSE acc,
             <<>>, sel)

Init ==
    /\ parent \in {f \in [Elements -> 0..MaxElements] : \A n \in Elements : f[n] < n}
    /\ \A n \in Elements : parent[n] \in {n - 1} \cup Above(n - 1)
    /\ tag \in [Elements -> TagNames]
    /\ holder \in 0..MaxElements
    /\ scope = None /\ selector = None /\ found = <<>>

\* select looks in the document.
Select(sel) ==
    /\ scope' = 0 /\ selector' = sel
    /\ found' = SelectNodes(0, sel)
    /\ UNCHANGED <<parent, tag, holder>>

\* find looks under an element, which is not among its answers.
Find(n, sel) ==
    /\ scope' = n /\ selector' = sel
    /\ found' = Filtered(SelectNodes(n, sel), Elements \ {n})
    /\ UNCHANGED <<parent, tag, holder>>

\* The answers depend on no earlier call: one is enough.
Next ==
    /\ scope = None
    /\ \E sel \in Selectors : Select(sel) \/ \E n \in Elements : Find(n, sel)

Spec == Init /\ [][Next]_domVars

-----------------------------------------------------------------------------
(* Properties. *)

\* What a selector names: an element that ends a chain of elements under the
\* root, each matching its compound and a child, or a descendant, of the one
\* before.
Names(root, g, n) ==
    \E chain \in [DOMAIN g -> Elements] :
        /\ chain[Len(g)] = n
        /\ chain[1] = root \/ root \in Above(chain[1])
        /\ \A i \in DOMAIN g : Matches(chain[i], g[i].of)
        /\ \A i \in 2..Len(g) :
               IF g[i].after = ">" THEN parent[chain[i]] = chain[i - 1]
               ELSE chain[i - 1] \in Above(chain[i])

\* A selector that CSS reads as parseSelectorGroup does: no group begins or ends
\* with ">", no blank or comma stands inside a compound, and every pseudo-class
\* is known.
Plain(sel) ==
    \A i \in DOMAIN sel :
        /\ sel[i][1].after = " "
        /\ \A j \in DOMAIN sel[i] : sel[i][j].of \in TagNames \cup {"text"}

\* select and find walk the page level by level with lists they join by hand:
\* they answer no element twice and, for a plain selector, each element that one
\* of its groups names, and nothing else.
SelectIsCss ==
    scope # None =>
        /\ Len(found) = Cardinality(ToSet(found))
        /\ Plain(selector) =>
              ToSet(found) = {n \in Elements \ {scope} :
                                 \E i \in DOMAIN selector : Names(scope, selector[i], n)}
=============================================================================
