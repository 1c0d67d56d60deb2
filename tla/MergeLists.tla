----------------------------- MODULE MergeLists -----------------------------
(***************************************************************************)
(* The three-way merge of two lists (merge_lists and Conflict in           *)
(* storage/jsondiff.py).  Positions are compared; those that differ form   *)
(* runs, and a run is resolved with the help of difflib, as far as it can  *)
(* be.  Elements are strings that are not alike, or json objects (Object); *)
(* of two objects at one position, mine is taken.                          *)
(***************************************************************************)
EXTENDS Naturals, Sequences, SequencesExt

CONSTANT Object

From(s, i, j) == SubSeq(s, i, IF j < Len(s) THEN j ELSE Len(s))
After(s, n) == SubSeq(s, n + 1, Len(s))
Conflict(mine, other, base) == [mine |-> mine, other |-> other, base |-> base]

-----------------------------------------------------------------------------
(* difflib.Differ for lines that are equal or have nothing in common: a    *)
(* longest matching block, and the same before and after it.  Of a part    *)
(* that is replaced the shorter side comes first.                          *)

Matches(a, b) == {m \in (1..Len(a)) \X (1..Len(b)) \X (1..Len(a)) :
  /\ m[1] + m[3] - 1 <= Len(a) /\ m[2] + m[3] - 1 <= Len(b)
  /\ \A d \in 0..m[3] - 1 : a[m[1] + d] = b[m[2] + d]}

LongestMatch(a, b) == CHOOSE m \in Matches(a, b) : \A n \in Matches(a, b) :
  \/ n[3] < m[3]
  \/ n[3] = m[3] /\ (m[1] < n[1] \/ (m[1] = n[1] /\ m[2] <= n[2]))

Tagged(tag, s) == [i \in DOMAIN s |-> tag]

Replaced(a, b) == IF Len(b) < Len(a) THEN Tagged("+", b) \o Tagged("-", a)
                  ELSE Tagged("-", a) \o Tagged("+", b)

RECURSIVE Compare(_, _)
Compare(a, b) ==
  IF Matches(a, b) = {} THEN Replaced(a, b)
  ELSE LET m == LongestMatch(a, b) IN
       Compare(From(a, 1, m[1] - 1), From(b, 1, m[2] - 1))
         \o Tagged(" ", SubSeq(a, 1, m[3]))
         \o Compare(After(a, m[1] + m[3] - 1), After(b, m[2] + m[3] - 1))

-----------------------------------------------------------------------------
(* Conflict.resolve_conflict.  A list that is None there is empty here.    *)

\* The loop stops at a line whose tag does not go with those before it.
Stop(tags) ==
  LET seen(n, tag) == \E i \in 1..n - 1 : tags[i] = tag
      breaks(n) == \/ tags[n] = "+" /\ (seen(n, "-") \/ seen(n, " "))
                   \/ tags[n] = "-" /\ (seen(n, "+") \/ seen(n, " "))
                   \/ seen(n, " ") /\ (seen(n, "-") \/ seen(n, "+"))
  IN  CHOOSE n \in 1..Len(tags) + 1 : /\ n <= Len(tags) => breaks(n)
                                      /\ \A k \in 1..n - 1 : ~breaks(k)

\* The elements of one side whose lines came before line n with this tag.
Taken(side, own, tags, n, tag) ==
  LET lines == SelectSeq(SubSeq(tags, 1, n - 1), LAMBDA t : t \in {own, " "})
  IN  [i \in 1..Len(SelectSeq(lines, LAMBDA t : t = tag)) |->
         side[CHOOSE k \in DOMAIN lines :
                /\ lines[k] = tag
                /\ Len(SelectSeq(SubSeq(lines, 1, k), LAMBDA t : t = tag)) = i]]

\* Mutant: what both have in common is left out.
CommonDropped(mine, tags, n) == <<>>

Common(mine, tags, n) == Taken(mine, "+", tags, n, " ")

\* Mutant: only what is left of the base in mine counts.
ReplacementInMine(c) == c.base # <<>> /\ Range(c.base) \cap Range(c.mine) = {}

\* Nothing of what was there is left on either side.
Replacement(c) ==
  c.base # <<>> /\ Range(c.base) \cap (Range(c.mine) \cup Range(c.other)) = {}

RECURSIVE Resolve(_)
Resolve(c) ==
  IF c.mine = <<>> THEN c.other
  ELSE IF c.other = <<>> \/ c.other = c.mine THEN c.mine
  ELSE IF Replacement(c) THEN <<c>>
  ELSE
    LET tags == Compare(c.other, c.mine)
        n == Stop(tags)
        newMine == Taken(c.mine, "+", tags, n, "+")
        newOther == Taken(c.other, "-", tags, n, "-")
        same == Taken(c.mine, "+", tags, n, " ")
        rest == Conflict(After(c.mine, Len(newMine) + Len(same)),
                         After(c.other, Len(newOther) + Len(same)), <<>>)
    IN  IF n > Len(tags) THEN Common(c.mine, tags, n)
        ELSE (IF newMine \o newOther = <<>> THEN <<>>
              ELSE <<Conflict(newMine, newOther, <<>>)>>)
               \o Common(c.mine, tags, n) \o Resolve(rest)

-----------------------------------------------------------------------------
Agree(mine, other, i) ==
  /\ i <= Len(mine) /\ i <= Len(other)
  /\ mine[i] = other[i] \/ {mine[i], other[i]} \subseteq Object

\* A run is replaced, at its first position, by what it resolves to.
MergeRuns(base, mine, other) ==
  LET n == Len(base \o mine \o other)
      last(i) == CHOOSE j \in i..n : /\ \A k \in i..j : ~Agree(mine, other, k)
                                     /\ j = n \/ Agree(mine, other, j + 1)
      run(i) == Conflict(From(mine, i, last(i)), From(other, i, last(i)),
                         From(base, i, last(i)))
      merged(i) == IF Agree(mine, other, i) THEN <<mine[i]>>
                   ELSE IF i > 1 /\ ~Agree(mine, other, i - 1) THEN <<>>
                   ELSE Resolve(run(i))
  IN FlattenSeq([i \in 1..n |-> merged(i)])

Merge(base, mine, other) ==
  IF mine = other \/ other = base THEN mine
  ELSE IF mine = base THEN other
  ELSE MergeRuns(base, mine, other)
=============================================================================
