------------------------- MODULE SpiderFilesProofs -------------------------
(***************************************************************************)
(* The requests on spiders and samples write their files one call at a     *)
(* time (SpiderFiles), and are seen as the one step of Spiders, for any    *)
(* names, samples and contents.                                            *)
(***************************************************************************)
EXTENDS Storage, SequenceTheorems, FiniteSetTheorems, TLAPS

-----------------------------------------------------------------------------
(* Files and their paths.                                                  *)

Page == Files!Page

\* What is found of a spider: its file, those of its samples, their pages.
LEMMA Paths ==
  ASSUME NEW n, NEW m, NEW x, NEW y
  PROVE  /\ <<n>> = <<m>> <=> n = m
         /\ <<n, x>> = <<m, y>> <=> n = m /\ x = y
         /\ <<n, x, Page>> = <<m, y, Page>> <=> n = m /\ x = y
         /\ <<n>> # <<m, y>> /\ <<n>> # <<m, y, Page>> /\ <<n, x>> # <<m, y, Page>>
OBVIOUS

LEMMA Prefixes ==
  ASSUME NEW n, NEW m, NEW x, NEW y
  PROVE  /\ ~Files!IsStrictPrefix(<<n>>, <<m>>)
         /\ Files!IsStrictPrefix(<<n>>, <<m, y>>) <=> n = m
         /\ Files!IsStrictPrefix(<<n>>, <<m, y, Page>>) <=> n = m
         /\ ~Files!IsStrictPrefix(<<n, x>>, <<m>>)
         /\ ~Files!IsStrictPrefix(<<n, x>>, <<m, y>>)
         /\ Files!IsStrictPrefix(<<n, x>>, <<m, y, Page>>) <=> n = m /\ x = y
         /\ ~Files!IsStrictPrefix(<<n, x, Page>>, <<m>>)
         /\ ~Files!IsStrictPrefix(<<n, x, Page>>, <<m, y>>)
         /\ ~Files!IsStrictPrefix(<<n, x, Page>>, <<m, y, Page>>)
BY DEF Files!IsStrictPrefix, Files!IsPrefix

\* What is under the path of a sample is its own page.
LEMMA SamplePrefixes ==
  ASSUME NEW n, NEW m, NEW x, NEW y
  PROVE  /\ ~Files!IsStrictPrefix(<<n, x>>, <<m, y>>)
         /\ Files!IsStrictPrefix(<<n, x>>, <<m, y, Page>>) <=> n = m /\ x = y
BY Prefixes

\* A path starts with the name of its spider.
Path == {p \in Seq(Spider \cup SampleId \cup {Page}) : p # <<>>}

LEMMA PrefixHasName ==
  ASSUME NEW p \in Path, NEW q \in Path, Files!IsPrefix(p, q)
  PROVE  q[1] = p[1]
BY DEF Files!IsPrefix, Path

LEMMA NewPathIs ==
  ASSUME NEW p \in Path, NEW q \in Path, NEW t \in Path, Files!IsStrictPrefix(p, q)
  PROVE  Files!NewPath(p, t, q) \in Path /\ Files!NewPath(p, t, q)[1] = t[1]
<1> DEFINE E == Spider \cup SampleId \cup {Page}
           root == IF Files!Under(disk, t) = {} THEN t ELSE Append(t, Files!Last(p))
           rest == SubSeq(q, Len(p) + 1, Len(q))
<1>1. p \in Seq(E) /\ q \in Seq(E) /\ t \in Seq(E) /\ Len(p) >= 1 /\ Len(t) >= 1
  BY DEF Path
<1>2. Files!Last(p) \in E
  BY <1>1 DEF Files!Last
<1>3. root \in Seq(E) /\ Len(root) >= 1 /\ root[1] = t[1]
  BY <1>1, <1>2
<1>4. Len(p) <= Len(q)
  BY DEF Files!IsStrictPrefix, Files!IsPrefix
<1>5. rest \in Seq(E)
  BY <1>1, <1>4, SubSeqProperties
<1> HIDE DEF root, rest, E
<1>6. root \o rest \in Seq(E) /\ (root \o rest)[1] = root[1] /\ Len(root \o rest) >= 1
  BY <1>3, <1>5
<1>7. root \o rest # <<>>
  BY <1>6
<1>8. Files!NewPath(p, t, q) = root \o rest
  BY DEF Files!NewPath, root, rest
<1>9. QED
  BY <1>6, <1>7, <1>8, <1>3 DEF E, Path

-----------------------------------------------------------------------------
(* Whatever fails, a call harms the spiders it is about, no others.        *)

CallOf(c) == /\ c.do \in {"save", "delete", "move", "load"}
             /\ c.at \in Path
             /\ c.do = "move" => c.to \in Path

Function(d) == d = [p \in DOMAIN d |-> d[p]]

PathsInv == /\ Function(disk) /\ DOMAIN disk \subseteq Path
            /\ \E S : fileTodo \in Seq(S)
            /\ \A i \in 1..Len(fileTodo) : CallOf(fileTodo[i])

\* The two disks have the same file there, or none.
Agree(d, e, p) == /\ p \in DOMAIN d <=> p \in DOMAIN e
                  /\ p \in DOMAIN d => d[p] = e[p]

Concerns(c) == {c.at[1]} \cup (IF c.do = "move" THEN {c.to[1]} ELSE {})

KeepsOthers(e, c) == /\ Function(e) /\ DOMAIN e \subseteq Path
                     /\ \A p \in Path : p[1] \notin Concerns(c) => Agree(disk, e, p)

LEMMA UnderHasName ==
  ASSUME DOMAIN disk \subseteq Path, NEW p \in Path, NEW q \in Files!Under(disk, p)
  PROVE  q \in Path /\ q[1] = p[1]
BY PrefixHasName DEF Files!Under, Files!IsStrictPrefix

LEMMA SaveKeepsOthers ==
  ASSUME PathsInv, NEW c, CallOf(c), NEW v
  PROVE  KeepsOthers(Files!Saved(c.at, v), c)
BY DEF PathsInv, CallOf, KeepsOthers, Files!Saved, Agree, Concerns, Function

LEMMA DeleteKeepsOthers ==
  ASSUME PathsInv, NEW c, CallOf(c)
  PROVE  KeepsOthers(Files!Deleted(c.at), c) /\ KeepsOthers(Files!DeletedFile(c.at), c)
<1>1. \A q \in Files!Under(disk, c.at) : q \in Path /\ q[1] = c.at[1]
  BY UnderHasName DEF PathsInv, CallOf
<1>2. KeepsOthers(Files!Deleted(c.at), c)
  BY <1>1 DEF PathsInv, CallOf, KeepsOthers, Files!Deleted, Agree, Concerns, Function
<1>3. KeepsOthers(Files!DeletedFile(c.at), c)
  BY DEF PathsInv, CallOf, KeepsOthers, Files!DeletedFile, Agree, Concerns, Function
<1>4. QED
  BY <1>2, <1>3

LEMMA MoveKeepsOthers ==
  ASSUME PathsInv, NEW c, CallOf(c), c.do = "move"
  PROVE  KeepsOthers(Files!Moved(c.at, c.to), c) /\ KeepsOthers(Files!Copied(c.at, c.to), c)
<1> DEFINE old == Files!Under(disk, c.at)
           new == {Files!NewPath(c.at, c.to, q) : q \in old}
<1>1. \A q \in old : q \in Path /\ q[1] = c.at[1] /\ Files!IsStrictPrefix(c.at, q)
  BY UnderHasName DEF PathsInv, CallOf, Files!Under
<1>2. \A q \in new : q \in Path /\ q[1] = c.to[1]
  BY <1>1, NewPathIs DEF CallOf
<1>3. Concerns(c) = {c.at[1], c.to[1]}
  BY DEF Concerns
<1>4. /\ DOMAIN Files!Copied(c.at, c.to) = DOMAIN disk \cup new
      /\ Function(Files!Copied(c.at, c.to))
      /\ \A q \in DOMAIN disk \ new : Files!Copied(c.at, c.to)[q] = disk[q]
  BY DEF Files!Copied, Function
<1>5. /\ DOMAIN Files!Moved(c.at, c.to) = (DOMAIN disk \ old) \cup new
      /\ Function(Files!Moved(c.at, c.to))
      /\ \A q \in DOMAIN Files!Moved(c.at, c.to) :
           Files!Moved(c.at, c.to)[q] = Files!Copied(c.at, c.to)[q]
  BY DEF Files!Moved, Function
<1> HIDE DEF old, new
<1>6. KeepsOthers(Files!Copied(c.at, c.to), c)
  BY <1>2, <1>3, <1>4 DEF KeepsOthers, Agree, PathsInv
<1>7. KeepsOthers(Files!Moved(c.at, c.to), c)
  BY <1>1, <1>2, <1>3, <1>4, <1>5 DEF KeepsOthers, Agree, PathsInv
<1>8. QED
  BY <1>6, <1>7

-----------------------------------------------------------------------------
(* The calls of the requests.                                              *)

IsCalls(s) == /\ \E S : s \in Seq(S)
              /\ \A i \in 1..Len(s) : CallOf(s[i])

LEMMA CallsOf ==
  ASSUME NEW n \in Spider, NEW x \in SampleId, NEW c
  PROVE  /\ <<n>> \in Path /\ <<n, x>> \in Path /\ <<n, x, Page>> \in Path
         /\ CallOf(Files!Save(<<n>>, c)) /\ CallOf(Files!Save(<<n, x>>, c))
         /\ CallOf(Files!Save(<<n, x, Page>>, c))
         /\ CallOf(Files!Delete(<<n>>)) /\ CallOf(Files!Delete(<<n, x>>))
         /\ CallOf(Files!Delete(<<n, x, Page>>)) /\ CallOf(Files!Load(<<n, x>>))
         /\ \A m \in Spider : CallOf(Files!Move(<<n, x>>, <<m, x>>))
<1>1. /\ <<n>> \in Path /\ <<n, x>> \in Path /\ <<n, x, Page>> \in Path
      /\ \A m \in Spider : <<m, x>> \in Path
  BY DEF Path
<1>2. QED
  BY <1>1 DEF CallOf, Files!Save, Files!Delete, Files!Load, Files!Move

LEMMA JoinedCalls ==
  ASSUME NEW s, NEW t, IsCalls(s), IsCalls(t)
  PROVE  IsCalls(s \o t)
<1>1. PICK S, T : s \in Seq(S) /\ t \in Seq(T)
  BY DEF IsCalls
<1>2. s \in Seq(S \cup T) /\ t \in Seq(S \cup T)
  BY <1>1, SeqMonotonic
<1>3. s \o t \in Seq(S \cup T)
  BY <1>2
<1>4. ASSUME NEW i \in 1..Len(s \o t) PROVE CallOf((s \o t)[i])
  <2>1. CASE i <= Len(s)
    BY <1>2, <2>1 DEF IsCalls
  <2>2. CASE ~(i <= Len(s))
    <3>1. (s \o t)[i] = t[i - Len(s)] /\ i - Len(s) \in 1..Len(t)
      BY <1>2, <2>2
    <3>2. QED
      BY <3>1 DEF IsCalls
  <2>3. QED
    BY <2>1, <2>2
<1>5. QED
  BY <1>3, <1>4 DEF IsCalls

\* The samples in some order, each of them once.
LEMMA OrderOf ==
  ASSUME NEW X \in SUBSET SampleId, NEW xs \in Files!SetToSeqs(X)
  PROVE  /\ xs \in Seq(X) /\ Len(xs) \in Nat
         /\ \A i, j \in 1..Len(xs) : xs[i] = xs[j] => i = j
         /\ \A x \in X : \E i \in 1..Len(xs) : xs[i] = x
<1> DEFINE k == Cardinality(X)
<1>1. IsFiniteSet(X) /\ k \in Nat
  BY SampleIdAssumption, FS_Subset, FS_CardinalityType
<1>2. xs \in [1..k -> X] /\ \A i, j \in 1..k : i # j => xs[i] # xs[j]
  <2>1. Files!Cardinality(X) = Cardinality(X)
    BY DEF Files!Cardinality, Cardinality
  <2>2. QED
    BY <2>1 DEF Files!SetToSeqs
<1>3. xs \in Seq(X) /\ Len(xs) = k
  BY <1>1, <1>2
<1>4. \A x \in X : \E i \in 1..k : xs[i] = x
  <2> SUFFICES ASSUME NEW x \in X, \A i \in 1..k : xs[i] # x PROVE FALSE
    OBVIOUS
  <2>1. IsFiniteSet(X \ {x}) /\ Cardinality(X \ {x}) = k - 1
    BY <1>1, FS_RemoveElement
  <2>2. xs \in [1..k -> X \ {x}]
    BY <1>2
  <2>3. IsFiniteSet(1..k) /\ Cardinality(1..k) = k
    BY <1>1, FS_Interval
  <2>4. \E i, j \in 1..k : i # j /\ xs[i] = xs[j]
    <3> DEFINE D == 1..k
               R == X \ {x}
    <3>1. IsFiniteSet(D) /\ IsFiniteSet(R) /\ Cardinality(R) < Cardinality(D)
      BY <1>1, <2>1, <2>3
    <3>2. xs \in [D -> R]
      BY <2>2
    <3> HIDE DEF D, R
    <3>3. \E i, j \in D : i # j /\ xs[i] = xs[j]
      BY <3>1, <3>2, FS_PigeonHole
    <3>4. QED
      BY <3>3 DEF D
  <2>5. QED
    BY <1>2, <2>4
<1>5. QED
  BY <1>1, <1>2, <1>3, <1>4

Moves(n, m, xs) ==
  [i \in 1..2 * Len(xs) |-> IF i % 2 = 1 THEN Files!Load(<<n, xs[(i + 1) \div 2]>>)
                            ELSE Files!Move(<<n, xs[i \div 2]>>, <<m, xs[i \div 2]>>)]

Rewrites(d, n, m, xs) ==
  [i \in 1..2 * Len(xs) |->
     IF i % 2 = 1 THEN Files!Save(<<m, xs[(i + 1) \div 2]>>, d[<<n, xs[(i + 1) \div 2]>>])
     ELSE Files!Delete(<<n, xs[i \div 2]>>)]

Renames(d, n, m, xs) ==
  Moves(n, m, xs) \o <<Files!Save(<<m>>, d[<<n>>]), Files!Delete(<<n>>)>>
    \o Rewrites(d, n, m, xs)

LEMMA RenameCallsAre ==
  ASSUME NEW n, NEW m, NEW xs
  PROVE  Files!RenameCalls(n, m, xs) = Renames(disk, n, m, xs)
BY DEF Files!RenameCalls, Files!Each, Renames, Moves, Rewrites

LEMMA Halves ==
  ASSUME NEW k \in Nat, NEW i \in 1..2 * k
  PROVE  /\ i % 2 = 1 => (i + 1) \div 2 \in 1..k /\ i = 2 * ((i + 1) \div 2) - 1
         /\ i % 2 # 1 => i \div 2 \in 1..k /\ i = 2 * (i \div 2)
OBVIOUS

LEMMA FunctionIsSeq ==
  ASSUME NEW k \in Nat, NEW f, f = [i \in 1..k |-> f[i]]
  PROVE  f \in Seq({f[i] : i \in 1..k}) /\ Len(f) = k
<1>1. f \in [1..k -> {f[i] : i \in 1..k}]
  OBVIOUS
<1>2. QED
  BY <1>1

LEMMA AreCalls ==
  ASSUME NEW S, NEW s \in Seq(S), \A i \in 1..Len(s) : CallOf(s[i])
  PROVE  IsCalls(s)
<1>1. \E T : s \in Seq(T)
  OBVIOUS
<1>2. QED
  BY <1>1 DEF IsCalls

LEMMA FewCalls ==
  ASSUME NEW a, CallOf(a)
  PROVE  /\ IsCalls(<<>>) /\ IsCalls(<<a>>)
         /\ \A b : CallOf(b) => IsCalls(<<a, b>>)
         /\ \A b, c : CallOf(b) /\ CallOf(c) => IsCalls(<<a, b, c>>)
<1>1. IsCalls(<<>>)
  BY DEF IsCalls
<1>2. IsCalls(<<a>>)
  <2>1. <<a>> \in Seq({a}) /\ \A i \in 1..Len(<<a>>) : CallOf(<<a>>[i])
    OBVIOUS
  <2>2. QED
    BY <2>1, AreCalls
<1>3. ASSUME NEW b, CallOf(b) PROVE IsCalls(<<a, b>>)
  <2>1. <<a, b>> \in Seq({a, b}) /\ \A i \in 1..Len(<<a, b>>) : CallOf(<<a, b>>[i])
    BY <1>3
  <2>2. QED
    BY <2>1, AreCalls
<1>4. ASSUME NEW b, NEW c, CallOf(b), CallOf(c) PROVE IsCalls(<<a, b, c>>)
  <2>1. <<a, b, c>> \in Seq({a, b, c}) /\ \A i \in 1..Len(<<a, b, c>>) : CallOf(<<a, b, c>>[i])
    BY <1>4
  <2>2. QED
    BY <2>1, AreCalls
<1>5. QED
  BY <1>1, <1>2, <1>3, <1>4

LEMMA DeletionsAreCalls ==
  ASSUME NEW n \in Spider, NEW xs \in Seq(SampleId)
  PROVE  IsCalls(<<Files!Delete(<<n>>)>> \o [i \in DOMAIN xs |-> Files!Delete(<<n, xs[i]>>)])
<1> DEFINE s == [i \in DOMAIN xs |-> Files!Delete(<<n, xs[i]>>)]
           S == {Files!Delete(<<n, x>>) : x \in SampleId}
<1>1. DOMAIN xs = 1..Len(xs) /\ Len(xs) \in Nat /\ \A i \in DOMAIN xs : xs[i] \in SampleId
  OBVIOUS
<1>2. s \in Seq(S) /\ Len(s) = Len(xs)
  BY <1>1
<1>3. \A i \in 1..Len(s) : CallOf(s[i])
  BY <1>1, <1>2, CallsOf
<1>4. IsCalls(s)
  BY <1>2, <1>3 DEF IsCalls
<1>5. CallOf(Files!Delete(<<n>>))
  <2>1. <<n>> \in Path
    BY DEF Path
  <2>2. QED
    BY <2>1 DEF CallOf, Files!Delete
<1>6. QED
  BY <1>4, <1>5, FewCalls, JoinedCalls

LEMMA RenamesAreCalls ==
  ASSUME NEW n \in Spider, NEW m \in Spider, NEW xs \in Seq(SampleId), NEW d
  PROVE  /\ IsCalls(Renames(d, n, m, xs))
         /\ \E S : Moves(n, m, xs) \in Seq(S)
         /\ \E S : Rewrites(d, n, m, xs) \in Seq(S)
<1> DEFINE k == Len(xs)
<1>1. k \in Nat /\ \A i \in 1..k : xs[i] \in SampleId
  OBVIOUS
<1> HIDE DEF k
<1>2. \A i \in 1..2 * k : CallOf(Moves(n, m, xs)[i])
  <2>1. TAKE i \in 1..2 * k
  <2>2. CASE i % 2 = 1
    <3>1. xs[(i + 1) \div 2] \in SampleId
      BY <1>1, <2>2, Halves
    <3>2. Moves(n, m, xs)[i] = Files!Load(<<n, xs[(i + 1) \div 2]>>)
      BY <2>2 DEF Moves, k
    <3>3. QED
      BY <3>1, <3>2, CallsOf
  <2>3. CASE i % 2 # 1
    <3>1. xs[i \div 2] \in SampleId
      BY <1>1, <2>3, Halves
    <3>2. Moves(n, m, xs)[i] = Files!Move(<<n, xs[i \div 2]>>, <<m, xs[i \div 2]>>)
      BY <2>3 DEF Moves, k
    <3>3. QED
      BY <3>1, <3>2, CallsOf
  <2>4. QED
    BY <2>2, <2>3
<1>3. \A i \in 1..2 * k : CallOf(Rewrites(d, n, m, xs)[i])
  <2>1. TAKE i \in 1..2 * k
  <2>2. CASE i % 2 = 1
    <3>1. xs[(i + 1) \div 2] \in SampleId
      BY <1>1, <2>2, Halves
    <3>2. \E c : Rewrites(d, n, m, xs)[i] = Files!Save(<<m, xs[(i + 1) \div 2]>>, c)
      BY <2>2 DEF Rewrites, k
    <3>3. QED
      BY <3>1, <3>2, CallsOf
  <2>3. CASE i % 2 # 1
    <3>1. xs[i \div 2] \in SampleId
      BY <1>1, <2>3, Halves
    <3>2. Rewrites(d, n, m, xs)[i] = Files!Delete(<<n, xs[i \div 2]>>)
      BY <2>3 DEF Rewrites, k
    <3>3. QED
      BY <3>1, <3>2, CallsOf
  <2>4. QED
    BY <2>2, <2>3
<1> DEFINE M == Moves(n, m, xs)
           R == Rewrites(d, n, m, xs)
<1>4. /\ M \in Seq({M[i] : i \in 1..2 * k}) /\ Len(M) = 2 * k
      /\ R \in Seq({R[i] : i \in 1..2 * k}) /\ Len(R) = 2 * k
  <2>1. 2 * k \in Nat
    BY <1>1
  <2>2. M = [i \in 1..2 * k |-> M[i]] /\ R = [i \in 1..2 * k |-> R[i]]
    BY DEF Moves, Rewrites, k
  <2> HIDE DEF M, R
  <2>3. QED
    BY <2>1, <2>2, FunctionIsSeq
<1>5. IsCalls(M) /\ IsCalls(R)
  BY <1>2, <1>3, <1>4 DEF IsCalls
<1>6. IsCalls(<<Files!Save(<<m>>, d[<<n>>]), Files!Delete(<<n>>)>>)
  <2>1. <<n>> \in Path /\ <<m>> \in Path
    BY DEF Path
  <2>2. CallOf(Files!Save(<<m>>, d[<<n>>])) /\ CallOf(Files!Delete(<<n>>))
    BY <2>1 DEF CallOf, Files!Delete, Files!Save
  <2>3. QED
    BY <2>2, FewCalls
<1>7. IsCalls(Renames(d, n, m, xs))
  BY <1>5, <1>6, JoinedCalls DEF Renames
<1>8. QED
  BY <1>4, <1>7

LEMMA StepIsOfACall ==
  ASSUME PathsInv, Files!Step \/ Files!Crash
  PROVE  /\ fileTodo # <<>> /\ CallOf(fileTodo[1]) /\ 1 \in 1..Len(fileTodo)
         /\ KeepsOthers(disk', fileTodo[1])
         /\ IsCalls(fileTodo')
<1> DEFINE c == Head(fileTodo)
<1>1. PICK S : fileTodo \in Seq(S)
  BY DEF PathsInv
<1>2. fileTodo # <<>>
  BY DEF Files!Step, Files!Crash
<1>3. 1 \in 1..Len(fileTodo) /\ c = fileTodo[1] /\ CallOf(c)
  BY <1>1, <1>2 DEF PathsInv
<1>4. KeepsOthers(disk, c)
  BY DEF KeepsOthers, PathsInv, Agree
<1> HIDE DEF c
<1>5. KeepsOthers(disk', c)
  <2>1. CASE Files!Step
    <3>1. \/ disk' = disk
          \/ disk' = Files!Saved(c.at, c.with)
          \/ disk' = Files!Deleted(c.at)
          \/ c.do = "move" /\ disk' = Files!Moved(c.at, c.to)
      <4>1. disk' = CASE Files!Raises(c)        -> disk
                      [] c.do = "save"   -> Files!Saved(c.at, c.with)
                      [] c.do = "delete" -> Files!Deleted(c.at)
                      [] c.do = "move" /\ ~Files!Raises(c) -> Files!Moved(c.at, c.to)
                      [] OTHER           -> disk
        BY <2>1 DEF Files!Step, c
      <4>2. QED
        BY <4>1
    <3>2. QED
      BY <1>3, <1>4, <3>1, SaveKeepsOthers, DeleteKeepsOthers, MoveKeepsOthers
  <2>2. CASE Files!Crash
    <3>1. \/ disk' = disk
          \/ disk' = Files!Saved(c.at, Cut)
          \/ disk' = Files!DeletedFile(c.at)
          \/ c.do = "move" /\ disk' = Files!Copied(c.at, c.to)
      <4>1. disk' = CASE c.do = "save"   -> Files!Saved(c.at, Cut)
                      [] c.do = "delete" -> Files!DeletedFile(c.at)
                      [] c.do = "move"   -> IF Files!Raises(c) THEN disk
                                            ELSE Files!Copied(c.at, c.to)
                      [] OTHER           -> disk
        BY <2>2 DEF Files!Crash, c
      <4>2. QED
        BY <4>1
    <3>2. QED
      BY <1>3, <1>4, <3>1, SaveKeepsOthers, DeleteKeepsOthers, MoveKeepsOthers
  <2>3. QED
    BY <2>1, <2>2
<1>6. IsCalls(fileTodo')
  <2>1. fileTodo' = <<>> \/ fileTodo' = Tail(fileTodo)
    BY DEF Files!Step, Files!Crash, Files!End
  <2>2. IsCalls(<<>>)
    BY DEF IsCalls
  <2>3. IsCalls(Tail(fileTodo))
    <3>1. Tail(fileTodo) \in Seq(S) /\ Len(Tail(fileTodo)) = Len(fileTodo) - 1
      BY <1>1, <1>2
    <3>2. \A i \in 1..Len(Tail(fileTodo)) : Tail(fileTodo)[i] = fileTodo[i + 1]
                                           /\ i + 1 \in 1..Len(fileTodo)
      BY <1>1, <1>2, <3>1
    <3>3. QED
      BY <3>1, <3>2, AreCalls DEF PathsInv
  <2>4. QED
    BY <2>1, <2>2, <2>3
<1>7. QED
  BY <1>2, <1>3, <1>5, <1>6

\* A request starts with a list of calls and has not touched the disk.
Starts == \E what, calls : IsCalls(calls) /\ Files!Start(what, calls)

LEMMA RequestsAreCalls ==
  ASSUME Files!Next
  PROVE  Files!Step \/ Files!Crash \/ Starts
<1> SUFFICES ASSUME ~Files!Step, ~Files!Crash PROVE Starts
  OBVIOUS
<1>1. ASSUME NEW n \in Spider, NEW c \in FileData, Files!Create(n, c) \/ Files!Edit(n, c)
      PROVE  Starts
  <2>1. IsCalls(<<Files!Save(<<n>>, c)>>)
    <3>1. <<n>> \in Path
      BY DEF Path
    <3>2. QED
      BY <3>1, FewCalls DEF CallOf, Files!Save
  <2>2. QED
    BY <1>1, <2>1 DEF Files!Create, Files!Edit, Starts
<1>2. ASSUME NEW n \in Spider, NEW x \in SampleId, NEW c \in FileData,
             \/ Files!AddSample(n, x, c) \/ Files!EditSample(n, x, c)
             \/ Files!StorePage(n, x, c)
      PROVE  Starts
  <2>1. /\ IsCalls(<<Files!Save(<<n, x>>, c), Files!Save(<<n>>, disk[<<n>>]),
                      Files!Save(<<n, x>>, c)>>)
        /\ IsCalls(<<Files!Save(<<n, x>>, c)>>)
        /\ IsCalls(<<Files!Save(<<n, x, Page>>, c)>>)
    BY CallsOf, FewCalls
  <2>2. QED
    BY <1>2, <2>1 DEF Files!AddSample, Files!EditSample, Files!StorePage, Starts, Page
<1>3. ASSUME NEW n \in Spider, NEW x \in SampleId, Files!RemoveSample(n, x)
      PROVE  Starts
  <2>1. IsCalls(<<Files!Delete(<<n, x>>), Files!Delete(<<n, x, Page>>),
                  Files!Save(<<n>>, disk[<<n>>])>>)
    BY CallsOf, FewCalls
  <2>2. QED
    BY <1>3, <2>1 DEF Files!RemoveSample, Starts, Page
<1>4. ASSUME NEW n \in Spider, Files!RemoveSpider(n)
      PROVE  Starts
  <2>1. PICK xs \in Files!SetToSeqs(Files!SamplesIn(disk, n)) :
          Files!Start("remove", <<Files!Delete(<<n>>)>>
                        \o [i \in DOMAIN xs |-> Files!Delete(<<n, xs[i]>>)])
    BY <1>4 DEF Files!RemoveSpider
  <2>2. Files!SamplesIn(disk, n) \in SUBSET SampleId
    BY DEF Files!SamplesIn
  <2>3. xs \in Seq(SampleId)
    BY <2>2, OrderOf, SeqMonotonic
  <2>4. QED
    BY <2>1, <2>3, DeletionsAreCalls DEF Starts
<1>5. ASSUME NEW n \in Spider, NEW m \in Spider, Files!Rename(n, m)
      PROVE  Starts
  <2>1. PICK xs \in Files!SetToSeqs(Files!SamplesIn(disk, n)) :
          Files!Start("rename", Renames(disk, n, m, xs))
    BY <1>5, RenameCallsAre DEF Files!Rename
  <2>2. Files!SamplesIn(disk, n) \in SUBSET SampleId
    BY DEF Files!SamplesIn
  <2>3. xs \in Seq(SampleId)
    BY <2>2, OrderOf, SeqMonotonic
  <2>4. QED
    BY <2>1, <2>3, RenamesAreCalls DEF Starts
<1>6. QED
  BY <1>1, <1>2, <1>3, <1>4, <1>5 DEF Files!Next

LEMMA PathsStay == PathsInv /\ [Files!Next]_filesVars => PathsInv'
<1> SUFFICES ASSUME PathsInv, [Files!Next]_filesVars PROVE PathsInv'
  OBVIOUS
<1>1. CASE Files!Step \/ Files!Crash
  BY <1>1, StepIsOfACall DEF PathsInv, IsCalls, KeepsOthers
<1>2. CASE Starts
  BY <1>2 DEF Starts, Files!Start, IsCalls, PathsInv
<1>3. CASE UNCHANGED filesVars
  BY <1>3 DEF filesVars, PathsInv, CallOf
<1>4. QED
  BY <1>1, <1>2, <1>3, RequestsAreCalls

LEMMA PathsAtStart == Files!Init => PathsInv
<1> SUFFICES ASSUME Files!Init PROVE PathsInv
  OBVIOUS
<1>1. disk = <<>> /\ fileTodo = <<>>
  BY DEF Files!Init
<1>2. DOMAIN <<>> = {} /\ Function(<<>>) /\ \E S : <<>> \in Seq(S)
  BY DEF Function
<1>3. QED
  BY <1>1, <1>2 DEF PathsInv

-----------------------------------------------------------------------------
(* What a user sees of a spider comes from its own files.                  *)

\* Two disks have the same file, or none, at two paths.
Alike(d, p, e, q) == /\ p \in DOMAIN d <=> q \in DOMAIN e
                     /\ p \in DOMAIN d => d[p] = e[q]

SameFiles(d, n, e, m) == /\ Alike(d, <<n>>, e, <<m>>)
                         /\ \A x \in SampleId : /\ Alike(d, <<n, x>>, e, <<m, x>>)
                                                 /\ Alike(d, <<n, x, Page>>, e, <<m, x, Page>>)

SamplesShown(d, n) ==
  [x \in Files!SamplesIn(d, n) |->
     [data |-> d[<<n, x>>],
      page |-> IF <<n, x, Page>> \in DOMAIN d THEN d[<<n, x, Page>>] ELSE "none"]]

LEMMA ShownIs ==
  ASSUME NEW d
  PROVE  Files!Shown(d) = [n \in Files!SpidersOn(d) |->
                             [settings |-> d[<<n>>], samples |-> SamplesShown(d, n)]]
BY DEF Files!Shown, SamplesShown, Page

LEMMA SameSpider ==
  ASSUME NEW d, NEW e, NEW n \in Spider, NEW m \in Spider, SameFiles(d, n, e, m)
  PROVE  /\ n \in Files!SpidersOn(d) <=> m \in Files!SpidersOn(e)
         /\ n \in Files!SpidersOn(d) => Files!Shown(e)[m] = Files!Shown(d)[n]
<1>1. n \in Files!SpidersOn(d) <=> m \in Files!SpidersOn(e)
  BY DEF Files!SpidersOn, SameFiles, Alike
<1> SUFFICES ASSUME n \in Files!SpidersOn(d) PROVE Files!Shown(e)[m] = Files!Shown(d)[n]
  BY <1>1
<1>2. /\ Files!Shown(d)[n] = [settings |-> d[<<n>>], samples |-> SamplesShown(d, n)]
      /\ Files!Shown(e)[m] = [settings |-> e[<<m>>], samples |-> SamplesShown(e, m)]
  BY <1>1, ShownIs
<1>3. d[<<n>>] = e[<<m>>]
  BY DEF SameFiles, Alike, Files!SpidersOn
<1>4. Files!SamplesIn(d, n) = Files!SamplesIn(e, m)
  BY DEF SameFiles, Alike, Files!SamplesIn
<1>5. SamplesShown(d, n) = SamplesShown(e, m)
  BY <1>4 DEF SameFiles, Alike, Files!SamplesIn, SamplesShown
<1>6. QED
  BY <1>2, <1>3, <1>5

LEMMA OthersStay ==
  ASSUME PathsInv, [Files!Next]_filesVars
  PROVE  LET about == {p[1] : p \in {fileTodo[i].at : i \in DOMAIN fileTodo}}
                        \cup {fileTodo[i].to[1] : i \in {j \in DOMAIN fileTodo :
                                                       fileTodo[j].do = "move"}}
         IN  \A n \in Spider \ about :
               /\ n \in Files!SpidersOn(disk) <=> n \in Files!SpidersOn(disk')
               /\ n \in Files!SpidersOn(disk) =>
                    Files!Shown(disk')[n] = Files!Shown(disk)[n]
<1> DEFINE about == {p[1] : p \in {fileTodo[i].at : i \in DOMAIN fileTodo}}
                      \cup {fileTodo[i].to[1] : i \in {j \in DOMAIN fileTodo :
                                                     fileTodo[j].do = "move"}}
<1> SUFFICES ASSUME NEW n \in Spider \ about
             PROVE  /\ n \in Files!SpidersOn(disk) <=> n \in Files!SpidersOn(disk')
                    /\ n \in Files!SpidersOn(disk) =>
                         Files!Shown(disk')[n] = Files!Shown(disk)[n]
  OBVIOUS
<1>1. CASE disk' = disk
  BY <1>1
<1>2. CASE Files!Step \/ Files!Crash
  <2>1. 1 \in DOMAIN fileTodo /\ KeepsOthers(disk', fileTodo[1])
    BY <1>2, StepIsOfACall DEF PathsInv
  <2>2. n \notin Concerns(fileTodo[1])
    BY <2>1 DEF Concerns
  <2>3. <<n>> \in Path /\ \A x \in SampleId : <<n, x>> \in Path /\ <<n, x, Page>> \in Path
    BY DEF Path
  <2>4. SameFiles(disk, n, disk', n)
    BY <2>1, <2>2, <2>3 DEF KeepsOthers, SameFiles, Agree, Alike
  <2>5. QED
    BY <2>4, SameSpider
<1>3. QED
  BY <1>1, <1>2, RequestsAreCalls DEF Starts, Files!Start, filesVars
-----------------------------------------------------------------------------
(* The disks between the calls of a request.                               *)

\* Where the files of spiders are: a disk has a file there, or none.
Places == {<<n>> : n \in Spider} \cup {<<n, x>> : n \in Spider, x \in SampleId}
            \cup {<<n, x, Page>> : n \in Spider, x \in SampleId}

At(d, p) == IF p \in DOMAIN d THEN <<d[p]>> ELSE <<>>

IsDisk(d) == Function(d) /\ DOMAIN d \subseteq Places

Tidy(d) == /\ IsDisk(d)
           /\ \A n \in Spider, x \in SampleId :
                /\ At(d, <<n, x>>) # <<>> => At(d, <<n>>) # <<>>
                /\ At(d, <<n, x, Page>>) # <<>> => At(d, <<n, x>>) # <<>>

Put(d, e, p, c) == /\ IsDisk(e)
                   /\ \A q \in Places : At(e, q) = IF q = p THEN <<c>> ELSE At(d, q)

Gone(d, e, p) ==
  /\ IsDisk(e)
  /\ \A q \in Places :
       At(e, q) = IF q = p \/ Files!IsStrictPrefix(p, q) THEN <<>> ELSE At(d, q)

LEMMA AtIs ==
  ASSUME NEW d, NEW p
  PROVE  /\ p \in DOMAIN d <=> At(d, p) # <<>>
         /\ p \in DOMAIN d => At(d, p) = <<d[p]>>
         /\ \A e, q : At(d, p) = At(e, q) => Alike(d, p, e, q)
BY DEF At, Alike

LEMMA PlacesAre ==
  ASSUME NEW n \in Spider, NEW x \in SampleId
  PROVE  <<n>> \in Places /\ <<n, x>> \in Places /\ <<n, x, Page>> \in Places
BY DEF Places

LEMMA PlaceIs ==
  ASSUME NEW p \in Places
  PROVE  \/ \E n \in Spider : p = <<n>>
         \/ \E n \in Spider, x \in SampleId : p = <<n, x>> \/ p = <<n, x, Page>>
BY DEF Places

LEMMA SaveAt ==
  ASSUME IsDisk(disk), NEW p \in Places, NEW c
  PROVE  Put(disk, Files!Saved(p, c), p, c)
<1>1. /\ DOMAIN Files!Saved(p, c) = DOMAIN disk \cup {p}
      /\ Function(Files!Saved(p, c))
      /\ \A q \in DOMAIN disk \cup {p} :
           Files!Saved(p, c)[q] = IF q = p THEN c ELSE disk[q]
  BY DEF Files!Saved, Function
<1>2. QED
  BY <1>1 DEF Put, IsDisk, At

LEMMA DeleteAt ==
  ASSUME IsDisk(disk), NEW p \in Places
  PROVE  Gone(disk, Files!Deleted(p), p)
<1>1. /\ DOMAIN Files!Deleted(p) = DOMAIN disk \ ({p} \cup Files!Under(disk, p))
      /\ Function(Files!Deleted(p))
      /\ \A q \in DOMAIN Files!Deleted(p) : Files!Deleted(p)[q] = disk[q]
  BY DEF Files!Deleted, Function
<1>2. QED
  BY <1>1 DEF Gone, IsDisk, At, Files!Under

\* The page of a sample is all that is under it.
LEMMA UnderSample ==
  ASSUME NEW d, IsDisk(d), NEW n \in Spider, NEW x \in SampleId
  PROVE  Files!Under(d, <<n, x>>) = IF At(d, <<n, x, Page>>) = <<>> THEN {}
                                    ELSE {<<n, x, Page>>}
<1>1. \A q \in Places : Files!IsStrictPrefix(<<n, x>>, q) <=> q = <<n, x, Page>>
  <2>1. TAKE q \in Places
  <2>2. CASE \E m \in Spider : q = <<m>>
    <3>1. PICK m \in Spider : q = <<m>>
      BY <2>2
    <3>2. ~Files!IsStrictPrefix(<<n, x>>, <<m>>) /\ <<m>> # <<n, x, Page>>
      BY Prefixes, Paths
    <3>3. QED
      BY <3>1, <3>2
  <2>3. CASE \E m \in Spider, y \in SampleId : q = <<m, y>> \/ q = <<m, y, Page>>
    <3>1. PICK m \in Spider, y \in SampleId : q = <<m, y>> \/ q = <<m, y, Page>>
      BY <2>3
    <3>2. ~Files!IsStrictPrefix(<<n, x>>, <<m, y>>) /\ <<m, y>> # <<n, x, Page>>
      BY Prefixes, Paths
    <3>3. /\ Files!IsStrictPrefix(<<n, x>>, <<m, y, Page>>) <=> n = m /\ x = y
          /\ <<m, y, Page>> = <<n, x, Page>> <=> m = n /\ y = x
      <4>1. Files!IsStrictPrefix(<<n, x>>, <<m, y, Page>>) <=> n = m /\ x = y
        BY Prefixes, Zenon
      <4>2. <<m, y, Page>> = <<n, x, Page>> <=> m = n /\ y = x
        BY Paths, Zenon
      <4>3. QED
        BY <4>1, <4>2
    <3>4. QED
      BY <3>1, <3>2, <3>3
  <2>4. QED
    BY <2>2, <2>3, PlaceIs
<1>2. QED
  BY <1>1, AtIs DEF Files!Under, IsDisk

LEMMA PathOfThree ==
  ASSUME NEW S, NEW s \in Seq(S), Len(s) = 2, NEW t \in Seq(S), Len(t) = 1,
         NEW u \in Seq(S), Len(u) = 3, u[1] = s[1], u[2] = s[2], u[3] = t[1]
  PROVE  s \o t = u
<1>1. s \o t \in Seq(S) /\ Len(s \o t) = Len(s) + Len(t)
  BY ConcatProperties
<1>2. ASSUME NEW i \in 1..Len(s) + Len(t) PROVE (s \o t)[i] = u[i]
  <2>1. (s \o t)[i] = IF i <= Len(s) THEN s[i] ELSE t[i - Len(s)]
    BY ConcatProperties
  <2>2. CASE i <= Len(s)
    <3>1. i = 1 \/ i = 2
      BY <2>2
    <3>2. (s \o t)[i] = s[i]
      BY <2>1, <2>2
    <3>3. QED
      BY <3>1, <3>2
  <2>3. CASE ~(i <= Len(s))
    <3>1. i = 3 /\ i - Len(s) = 1
      BY <2>3
    <3>2. (s \o t)[i] = t[i - Len(s)]
      BY <2>1, <2>3
    <3>3. QED
      BY <3>1, <3>2
  <2>4. QED
    BY <2>2, <2>3
<1>3. QED
  BY <1>1, <1>2, SeqEqual

LEMMA MoveAt ==
  ASSUME IsDisk(disk), NEW n \in Spider, NEW m \in Spider, n # m, NEW x \in SampleId,
         At(disk, <<m, x, Page>>) = <<>>, At(disk, <<n, x, Page>>) # <<>>
  PROVE  LET e == Files!Moved(<<n, x>>, <<m, x>>)
         IN  /\ IsDisk(e)
             /\ \A q \in Places :
                  At(e, q) = IF q = <<m, x, Page>> THEN At(disk, <<n, x, Page>>)
                             ELSE IF q = <<n, x, Page>> THEN <<>> ELSE At(disk, q)
<1> DEFINE e == Files!Moved(<<n, x>>, <<m, x>>)
           old == <<n, x, Page>>
           new == <<m, x, Page>>
<1>1. Files!Under(disk, <<n, x>>) = {old} /\ Files!Under(disk, <<m, x>>) = {}
  BY UnderSample
<1>2. Files!NewPath(<<n, x>>, <<m, x>>, old) = new
  <2> DEFINE E == Spider \cup SampleId \cup {Page}
             rest == SubSeq(old, Len(<<n, x>>) + 1, Len(old))
  <2>1. /\ old \in Seq(E) /\ <<m, x>> \in Seq(E) /\ new \in Seq(E)
        /\ Len(<<n, x>>) = 2 /\ Len(<<m, x>>) = 2 /\ Len(old) = 3 /\ Len(new) = 3
        /\ <<m, x>>[1] = m /\ <<m, x>>[2] = x
        /\ new[1] = m /\ new[2] = x /\ new[3] = Page /\ old[3] = Page
    OBVIOUS
  <2>2. rest = SubSeq(old, 3, 3)
    BY <2>1
  <2>3. rest \in Seq(E) /\ Len(rest) = 1 /\ rest[1] = Page
    <3> HIDE DEF old, E, rest
    <3>1. SubSeq(old, 3, 3) \in Seq(E) /\ Len(SubSeq(old, 3, 3)) = 1
      BY <2>1, SubSeqProperties
    <3>2. SubSeq(old, 3, 3)[1] = old[3]
      BY <2>1
    <3>3. QED
      BY <2>1, <2>2, <3>1, <3>2
  <2>4. <<m, x>> \o rest = new
    <3> DEFINE a == <<m, x>>
    <3>1. /\ a \in Seq(E) /\ Len(a) = 2 /\ a[1] = m /\ a[2] = x
          /\ new \in Seq(E) /\ Len(new) = 3 /\ new[1] = m /\ new[2] = x /\ new[3] = Page
      BY <2>1
    <3> HIDE DEF a, rest, new, E
    <3>2. new[1] = a[1] /\ new[2] = a[2] /\ new[3] = rest[1]
      BY <3>1, <2>3
    <3>3. a \o rest = new
      BY <3>1, <3>2, <2>3, PathOfThree
    <3>4. QED
      BY <3>3 DEF a
  <2>5. QED
    BY <1>1, <2>4 DEF Files!NewPath
<1>3. {Files!NewPath(<<n, x>>, <<m, x>>, q) : q \in Files!Under(disk, <<n, x>>)} = {new}
  BY <1>1, <1>2
<1>4. /\ DOMAIN e = (DOMAIN disk \ {old}) \cup {new}
      /\ Function(e)
      /\ \A q \in DOMAIN e : e[q] = IF q = new THEN disk[old] ELSE disk[q]
  <2>1. \A q \in DOMAIN disk \cup {new} :
          Files!Copied(<<n, x>>, <<m, x>>)[q] = IF q = new THEN disk[old] ELSE disk[q]
    <3>1. (CHOOSE r \in {old} : Files!NewPath(<<n, x>>, <<m, x>>, r) = new) = old
      BY <1>2
    <3>2. QED
      BY <1>1, <1>3, <3>1 DEF Files!Copied
  <2>2. QED
    BY <1>1, <1>3, <2>1 DEF Files!Moved, Function
<1>5. old # new /\ old \in DOMAIN disk /\ new \in Places
  BY AtIs, Paths, PlacesAre
<1> HIDE DEF e, old, new
<1>6. IsDisk(e)
  BY <1>4, <1>5 DEF IsDisk
<1>7. \A q \in Places :
        At(e, q) = IF q = new THEN At(disk, old) ELSE IF q = old THEN <<>> ELSE At(disk, q)
  BY <1>4, <1>5 DEF At
<1>8. QED
  BY <1>6, <1>7 DEF e, old, new

-----------------------------------------------------------------------------
(* A file written or deleted, as the user sees it.                         *)

LEMMA ShownHas ==
  ASSUME NEW d, NEW n \in Spider
  PROVE  /\ n \in Files!SpidersOn(d) <=> At(d, <<n>>) # <<>>
         /\ n \in Files!SpidersOn(d) => At(d, <<n>>) = <<d[<<n>>]>>
         /\ \A x \in SampleId : x \in Files!SamplesIn(d, n) <=> At(d, <<n, x>>) # <<>>
         /\ Files!SamplesIn(d, n) \subseteq SampleId
         /\ DOMAIN Files!Shown(d) = Files!SpidersOn(d)
         /\ Files!SpidersOn(d) \subseteq Spider
         /\ Files!Shown(d) = [o \in Files!SpidersOn(d) |-> Files!Shown(d)[o]]
         /\ n \in Files!SpidersOn(d) =>
              Files!Shown(d)[n] = [settings |-> d[<<n>>], samples |-> SamplesShown(d, n)]
         /\ DOMAIN SamplesShown(d, n) = Files!SamplesIn(d, n)
BY ShownIs DEF At, Files!SpidersOn, Files!SamplesIn, SamplesShown

LEMMA AtFiles ==
  ASSUME NEW d, NEW e, NEW n \in Spider, NEW m \in Spider,
         At(d, <<n>>) = At(e, <<m>>),
         \A x \in SampleId : /\ At(d, <<n, x>>) = At(e, <<m, x>>)
                             /\ At(d, <<n, x, Page>>) = At(e, <<m, x, Page>>)
  PROVE  SameFiles(d, n, e, m)
<1>1. \A p, q : At(d, p) = At(e, q) => Alike(d, p, e, q)
  BY AtIs
<1>2. QED
  BY <1>1 DEF SameFiles

\* The files of a spider and its samples: a place of another is not among them.
Of(p, n) == p = <<n>> \/ \E x \in SampleId : p = <<n, x>> \/ p = <<n, x, Page>>

LEMMA OtherPlaces ==
  ASSUME NEW n \in Spider, NEW p \in Places, Of(p, n), NEW o \in Spider, o # n
  PROVE  /\ <<o>> # p /\ ~Files!IsStrictPrefix(p, <<o>>)
         /\ \A x \in SampleId :
              /\ <<o, x>> # p /\ ~Files!IsStrictPrefix(p, <<o, x>>)
              /\ <<o, x, Page>> # p /\ ~Files!IsStrictPrefix(p, <<o, x, Page>>)
<1>1. CASE p = <<n>>
  <2>1. \A x \in SampleId : /\ ~Files!IsStrictPrefix(<<n>>, <<o>>)
                            /\ ~Files!IsStrictPrefix(<<n>>, <<o, x>>)
                            /\ ~Files!IsStrictPrefix(<<n>>, <<o, x, Page>>)
                            /\ <<o>> # <<n>> /\ <<o, x>> # <<n>> /\ <<o, x, Page>> # <<n>>
    BY Prefixes, Paths
  <2>2. ~Files!IsStrictPrefix(<<n>>, <<o>>) /\ <<o>> # <<n>>
    BY Prefixes, Paths
  <2>3. QED
    BY <1>1, <2>1, <2>2
<1>2. ASSUME NEW y \in SampleId, p = <<n, y>>
      PROVE  /\ <<o>> # p /\ ~Files!IsStrictPrefix(p, <<o>>)
             /\ \A x \in SampleId :
                  /\ <<o, x>> # p /\ ~Files!IsStrictPrefix(p, <<o, x>>)
                  /\ <<o, x, Page>> # p /\ ~Files!IsStrictPrefix(p, <<o, x, Page>>)
  <2>1. \A x \in SampleId : /\ ~Files!IsStrictPrefix(<<n, y>>, <<o>>)
                            /\ ~Files!IsStrictPrefix(<<n, y>>, <<o, x>>)
                            /\ ~Files!IsStrictPrefix(<<n, y>>, <<o, x, Page>>)
                            /\ <<o>> # <<n, y>> /\ <<o, x>> # <<n, y>>
                            /\ <<o, x, Page>> # <<n, y>>
    BY Prefixes, Paths
  <2>2. ~Files!IsStrictPrefix(<<n, y>>, <<o>>) /\ <<o>> # <<n, y>>
    BY <2>1
  <2>3. QED
    BY <1>2, <2>1, <2>2
<1>3. ASSUME NEW y \in SampleId, p = <<n, y, Page>>
      PROVE  /\ <<o>> # p /\ ~Files!IsStrictPrefix(p, <<o>>)
             /\ \A x \in SampleId :
                  /\ <<o, x>> # p /\ ~Files!IsStrictPrefix(p, <<o, x>>)
                  /\ <<o, x, Page>> # p /\ ~Files!IsStrictPrefix(p, <<o, x, Page>>)
  <2>1. \A x \in SampleId : /\ ~Files!IsStrictPrefix(<<n, y, Page>>, <<o>>)
                            /\ ~Files!IsStrictPrefix(<<n, y, Page>>, <<o, x>>)
                            /\ ~Files!IsStrictPrefix(<<n, y, Page>>, <<o, x, Page>>)
                            /\ <<o>> # <<n, y, Page>> /\ <<o, x>> # <<n, y, Page>>
                            /\ <<o, x, Page>> # <<n, y, Page>>
    BY Prefixes, Paths
  <2>2. ~Files!IsStrictPrefix(<<n, y, Page>>, <<o>>) /\ <<o>> # <<n, y, Page>>
    BY <2>1
  <2>3. QED
    BY <1>3, <2>1, <2>2
<1>4. QED
  BY <1>1, <1>2, <1>3 DEF Of

\* What is shown of the other spiders is the same.
OthersSame(d, e, n) ==
  \A o \in Spider \ {n} :
    /\ o \in Files!SpidersOn(d) <=> o \in Files!SpidersOn(e)
    /\ o \in Files!SpidersOn(d) => Files!Shown(e)[o] = Files!Shown(d)[o]

LEMMA OthersShown ==
  ASSUME NEW d, NEW e, NEW p \in Places, NEW n \in Spider, Of(p, n),
         (\E c : Put(d, e, p, c)) \/ Gone(d, e, p)
  PROVE  OthersSame(d, e, n)
<1> SUFFICES ASSUME NEW o \in Spider \ {n}
             PROVE  /\ o \in Files!SpidersOn(d) <=> o \in Files!SpidersOn(e)
                    /\ o \in Files!SpidersOn(d) => Files!Shown(e)[o] = Files!Shown(d)[o]
  BY DEF OthersSame
<1>1. <<o>> \in Places /\ \A x \in SampleId : <<o, x>> \in Places /\ <<o, x, Page>> \in Places
  BY DEF Places
<1>2. /\ At(d, <<o>>) = At(e, <<o>>)
      /\ \A x \in SampleId : /\ At(d, <<o, x>>) = At(e, <<o, x>>)
                             /\ At(d, <<o, x, Page>>) = At(e, <<o, x, Page>>)
  <2>1. CASE \E c : Put(d, e, p, c)
    BY <1>1, <2>1, OtherPlaces DEF Put
  <2>2. CASE Gone(d, e, p)
    BY <1>1, <2>2, OtherPlaces DEF Gone
  <2>3. QED
    BY <2>1, <2>2
<1>3. QED
  BY <1>2, AtFiles, SameSpider

\* What Spiders does to a function.
With(f, x, y) == [z \in DOMAIN f \cup {x} |-> IF z = x THEN y ELSE f[z]]
Without(f, x) == [z \in DOMAIN f \ {x} |-> f[z]]
WithSamples(f, n, s) == [f EXCEPT ![n].samples = s]
WithData(f, x, c) == [f EXCEPT ![x].data = c]
WithPage(f, x, c) == [f EXCEPT ![x].page = c]

\* What is shown of one spider changes.
LEMMA OneChanges ==
  ASSUME NEW d, NEW e, NEW n \in Spider, OthersSame(d, e, n)
  PROVE  /\ n \in Files!SpidersOn(d) /\ n \in Files!SpidersOn(e) =>
              Files!Shown(e) = [Files!Shown(d) EXCEPT ![n] = Files!Shown(e)[n]]
         /\ n \notin Files!SpidersOn(d) /\ n \in Files!SpidersOn(e) =>
              Files!Shown(e) = With(Files!Shown(d), n, Files!Shown(e)[n])
         /\ n \in Files!SpidersOn(d) /\ n \notin Files!SpidersOn(e) =>
              Files!Shown(e) = Without(Files!Shown(d), n)
<1> DEFINE D == Files!SpidersOn(d)
           E == Files!SpidersOn(e)
           f == Files!Shown(d)
           g == Files!Shown(e)
<1>1. /\ DOMAIN f = D /\ DOMAIN g = E /\ D \subseteq Spider /\ E \subseteq Spider
      /\ f = [o \in D |-> f[o]] /\ g = [o \in E |-> g[o]]
  BY ShownHas
<1>2. \A o \in Spider \ {n} : (o \in D <=> o \in E) /\ (o \in D => g[o] = f[o])
  BY DEF OthersSame
<1> HIDE DEF D, E, f, g
<1>3. n \in D /\ n \in E => g = [f EXCEPT ![n] = g[n]]
  BY <1>1, <1>2
<1>4. n \notin D /\ n \in E => g = With(f, n, g[n])
  BY <1>1, <1>2 DEF With
<1>5. n \in D /\ n \notin E => g = Without(f, n)
  BY <1>1, <1>2 DEF Without
<1>6. QED
  BY <1>3, <1>4, <1>5 DEF D, E, f, g

\* The samples of one spider, one of them changed.
LEMMA SampleChanges ==
  ASSUME NEW d, NEW e, NEW n \in Spider, NEW x \in SampleId,
         \A y \in SampleId \ {x} : /\ At(e, <<n, y>>) = At(d, <<n, y>>)
                                   /\ At(e, <<n, y, Page>>) = At(d, <<n, y, Page>>)
  PROVE  LET f == SamplesShown(d, n)
             g == SamplesShown(e, n)
         IN  /\ x \in DOMAIN f /\ x \in DOMAIN g => g = [f EXCEPT ![x] = g[x]]
             /\ x \notin DOMAIN f /\ x \in DOMAIN g => g = With(f, x, g[x])
             /\ x \in DOMAIN f /\ x \notin DOMAIN g => g = Without(f, x)
<1> DEFINE f == SamplesShown(d, n)
           g == SamplesShown(e, n)
<1>1. \A y \in SampleId \ {x} : (y \in DOMAIN f <=> y \in DOMAIN g)
  <2>1. /\ DOMAIN f = Files!SamplesIn(d, n) /\ DOMAIN g = Files!SamplesIn(e, n)
        /\ \A y \in SampleId : y \in Files!SamplesIn(d, n) <=> At(d, <<n, y>>) # <<>>
        /\ \A y \in SampleId : y \in Files!SamplesIn(e, n) <=> At(e, <<n, y>>) # <<>>
    BY ShownHas
  <2>2. QED
    BY <2>1
<1>2. \A y \in SampleId \ {x} : y \in DOMAIN f => g[y] = f[y]
  <2>1. \A y \in SampleId \ {x} : /\ Alike(e, <<n, y>>, d, <<n, y>>)
                                  /\ Alike(e, <<n, y, Page>>, d, <<n, y, Page>>)
    BY AtIs
  <2>2. \A y \in SampleId \ {x} : y \in Files!SamplesIn(d, n) => y \in Files!SamplesIn(e, n)
    BY <1>1, ShownHas
  <2>3. QED
    BY <2>1, <2>2 DEF Alike, SamplesShown, Files!SamplesIn
<1>3. /\ DOMAIN f \subseteq SampleId /\ DOMAIN g \subseteq SampleId
      /\ f = [y \in DOMAIN f |-> f[y]] /\ g = [y \in DOMAIN g |-> g[y]]
  BY ShownHas DEF SamplesShown
<1> HIDE DEF f, g
<1>4. x \in DOMAIN f /\ x \in DOMAIN g => g = [f EXCEPT ![x] = g[x]]
  BY <1>1, <1>2, <1>3
<1>5. x \notin DOMAIN f /\ x \in DOMAIN g => g = With(f, x, g[x])
  BY <1>1, <1>2, <1>3 DEF With
<1>6. x \in DOMAIN f /\ x \notin DOMAIN g => g = Without(f, x)
  BY <1>1, <1>2, <1>3 DEF Without
<1>7. QED
  BY <1>4, <1>5, <1>6 DEF f, g

\* What Spiders calls the settings and the samples.
LEMMA ShownParts ==
  ASSUME NEW d, NEW n \in Spider, At(d, <<n>>) # <<>>
  PROVE  /\ n \in DOMAIN Files!Shown(d)
         /\ Files!Shown(d)[n].samples = SamplesShown(d, n)
         /\ Files!Shown(d)[n] = [settings |-> d[<<n>>], samples |-> SamplesShown(d, n)]
         /\ \A s : [Files!Shown(d) EXCEPT ![n].samples = s] =
                     [Files!Shown(d) EXCEPT ![n] = [settings |-> d[<<n>>], samples |-> s]]
         /\ \A c : [Files!Shown(d) EXCEPT ![n].settings = c] =
                     [Files!Shown(d) EXCEPT ![n] = [settings |-> c,
                                                    samples |-> SamplesShown(d, n)]]
<1>1. /\ n \in DOMAIN Files!Shown(d)
      /\ Files!Shown(d)[n] = [settings |-> d[<<n>>], samples |-> SamplesShown(d, n)]
  BY ShownHas
<1>2. QED
  BY <1>1

LEMMA CreateOrEdit ==
  ASSUME NEW d, Tidy(d), NEW e, NEW n \in Spider, NEW c, Put(d, e, <<n>>, c)
  PROVE  IF n \in Files!SpidersOn(d)
         THEN Files!Shown(e) = [Files!Shown(d) EXCEPT ![n].settings = c]
         ELSE Files!Shown(e) = With(Files!Shown(d), n, [settings |-> c, samples |-> <<>>])
<1>1. <<n>> \in Places /\ Of(<<n>>, n)
  BY PlacesAre DEF Of, Places
<1>2. At(e, <<n>>) = <<c>> /\ <<c>> # <<>>
  BY <1>1 DEF Put
<1>3. e[<<n>>] = c /\ n \in Files!SpidersOn(e)
  <2>1. n \in Files!SpidersOn(e) /\ At(e, <<n>>) = <<e[<<n>>]>>
    BY <1>2, ShownHas
  <2>2. <<e[<<n>>]>> = <<c>>
    BY <2>1, <1>2
  <2>3. QED
    BY <2>1, <2>2
<1>4. \A x \in SampleId : /\ At(e, <<n, x>>) = At(d, <<n, x>>)
                          /\ At(e, <<n, x, Page>>) = At(d, <<n, x, Page>>)
  BY PlacesAre, Paths DEF Put
<1>5. SamplesShown(e, n) = SamplesShown(d, n)
  <2>1. \A x \in SampleId : /\ Alike(d, <<n, x>>, e, <<n, x>>)
                            /\ Alike(d, <<n, x, Page>>, e, <<n, x, Page>>)
    BY <1>4, AtIs
  <2>2. Files!SamplesIn(d, n) = Files!SamplesIn(e, n)
    BY <2>1 DEF Alike, Files!SamplesIn
  <2>3. QED
    BY <2>1, <2>2 DEF Alike, SamplesShown, Files!SamplesIn
<1>6. Files!Shown(e)[n] = [settings |-> c, samples |-> SamplesShown(d, n)]
  BY <1>3, <1>5, ShownHas
<1>7. OthersSame(d, e, n)
  BY <1>1, OthersShown
<1>8. CASE n \in Files!SpidersOn(d)
  <2>1. Files!Shown(e) =
          [Files!Shown(d) EXCEPT ![n] = [settings |-> c, samples |-> SamplesShown(d, n)]]
    <3>1. n \in Files!SpidersOn(d) /\ n \in Files!SpidersOn(e) =>
            Files!Shown(e) = [Files!Shown(d) EXCEPT ![n] = Files!Shown(e)[n]]
      BY <1>7, OneChanges
    <3>2. QED
      BY <1>3, <1>6, <1>8, <3>1
  <2>2. At(d, <<n>>) # <<>>
    BY <1>8, ShownHas
  <2>3. Files!Shown(e) = [Files!Shown(d) EXCEPT ![n].settings = c]
    BY <2>1, <2>2, ShownParts
  <2>4. QED
    BY <1>8, <2>3
<1>9. CASE n \notin Files!SpidersOn(d)
  <2>1. SamplesShown(d, n) = <<>>
    <3>1. \A x \in SampleId : At(d, <<n, x>>) = <<>>
      BY <1>9, ShownHas DEF Tidy
    <3>2. Files!SamplesIn(d, n) = {}
      BY <3>1, ShownHas
    <3>3. QED
      BY <3>2 DEF SamplesShown
  <2>2. Files!Shown(e) = With(Files!Shown(d), n, [settings |-> c, samples |-> <<>>])
    <3>1. n \notin Files!SpidersOn(d) /\ n \in Files!SpidersOn(e) =>
            Files!Shown(e) = With(Files!Shown(d), n, Files!Shown(e)[n])
      BY <1>7, OneChanges
    <3>2. QED
      BY <1>3, <1>6, <1>9, <2>1, <3>1
  <2>3. QED
    BY <1>9, <2>2
<1>10. QED
  BY <1>8, <1>9

LEMMA SampleShown ==
  ASSUME NEW d, NEW n \in Spider, NEW x \in SampleId, At(d, <<n, x>>) # <<>>
  PROVE  /\ x \in DOMAIN SamplesShown(d, n)
         /\ SamplesShown(d, n)[x] =
              [data |-> d[<<n, x>>],
               page |-> IF At(d, <<n, x, Page>>) # <<>> THEN d[<<n, x, Page>>] ELSE "none"]
         /\ At(d, <<n, x>>) = <<d[<<n, x>>]>>
         /\ At(d, <<n, x, Page>>) # <<>> => At(d, <<n, x, Page>>) = <<d[<<n, x, Page>>]>>
<1>1. x \in Files!SamplesIn(d, n)
  BY ShownHas
<1>2. QED
  BY <1>1 DEF SamplesShown, At

\* A file of a sample is written or deleted: its spider's settings stay.
LEMMA SamplesChange ==
  ASSUME NEW d, NEW e, NEW n \in Spider, OthersSame(d, e, n),
         At(d, <<n>>) # <<>>, At(e, <<n>>) = At(d, <<n>>)
  PROVE  /\ n \in DOMAIN Files!Shown(d)
         /\ Files!Shown(d)[n].samples = SamplesShown(d, n)
         /\ Files!Shown(e) = WithSamples(Files!Shown(d), n, SamplesShown(e, n))
<1>1. n \in Files!SpidersOn(d) /\ n \in Files!SpidersOn(e)
  BY ShownHas
<1>2. n \in Files!SpidersOn(d) /\ n \in Files!SpidersOn(e) =>
        Files!Shown(e) = [Files!Shown(d) EXCEPT ![n] = Files!Shown(e)[n]]
  BY OneChanges
<1>3. d[<<n>>] = e[<<n>>]
  <2>1. Alike(d, <<n>>, e, <<n>>)
    BY AtIs
  <2>2. QED
    BY <1>1, <2>1 DEF Alike, Files!SpidersOn
<1>4. Files!Shown(e)[n] = [settings |-> e[<<n>>], samples |-> SamplesShown(e, n)]
  BY <1>1, ShownHas
<1>5. [Files!Shown(d) EXCEPT ![n].samples = SamplesShown(e, n)] =
        [Files!Shown(d) EXCEPT ![n] = [settings |-> d[<<n>>], samples |-> SamplesShown(e, n)]]
  <2> DEFINE f == Files!Shown(d)
  <2>1. f[n] = [settings |-> d[<<n>>], samples |-> SamplesShown(d, n)]
    BY ShownParts
  <2>2. n \in DOMAIN f
    BY ShownParts
  <2> HIDE DEF f
  <2>3. [f EXCEPT ![n].samples = SamplesShown(e, n)] =
          [f EXCEPT ![n] = [settings |-> d[<<n>>], samples |-> SamplesShown(e, n)]]
    <3>1. [f[n] EXCEPT !.samples = SamplesShown(e, n)] =
            [settings |-> d[<<n>>], samples |-> SamplesShown(e, n)]
      BY <2>1
    <3>2. QED
      BY <2>2, <3>1
  <2>4. QED
    BY <2>3 DEF f
<1>6. QED
  BY <1>1, <1>2, <1>3, <1>4, <1>5, ShownParts DEF WithSamples

\* The other samples are untouched by a file of one of them.
LEMMA OtherSamples ==
  ASSUME NEW d, NEW e, NEW n \in Spider, NEW x \in SampleId,
         NEW p, p = <<n, x>> \/ p = <<n, x, Page>>,
         (\E c : Put(d, e, p, c)) \/ Gone(d, e, p)
  PROVE  /\ p \in Places /\ Of(p, n)
         /\ At(e, <<n>>) = At(d, <<n>>)
         /\ \A y \in SampleId \ {x} : /\ At(e, <<n, y>>) = At(d, <<n, y>>)
                                      /\ At(e, <<n, y, Page>>) = At(d, <<n, y, Page>>)
<1>1. p \in Places /\ Of(p, n)
  BY PlacesAre DEF Of
<1>2. <<n>> \in Places /\ \A y \in SampleId : <<n, y>> \in Places /\ <<n, y, Page>> \in Places
  BY DEF Places
<1>3. /\ <<n>> # p /\ ~Files!IsStrictPrefix(p, <<n>>)
      /\ \A y \in SampleId \ {x} :
           /\ <<n, y>> # p /\ ~Files!IsStrictPrefix(p, <<n, y>>)
           /\ <<n, y, Page>> # p /\ ~Files!IsStrictPrefix(p, <<n, y, Page>>)
  <2>1. /\ <<n>> # <<n, x>> /\ ~Files!IsStrictPrefix(<<n, x>>, <<n>>)
        /\ <<n>> # <<n, x, Page>> /\ ~Files!IsStrictPrefix(<<n, x, Page>>, <<n>>)
    BY Prefixes, Paths
  <2>2. \A y \in SampleId \ {x} :
           /\ <<n, y>> # <<n, x>> /\ <<n, y, Page>> # <<n, x>>
           /\ <<n, y>> # <<n, x, Page>> /\ <<n, y, Page>> # <<n, x, Page>>
    BY Paths
  <2>3. \A y \in SampleId \ {x} : /\ ~Files!IsStrictPrefix(<<n, x>>, <<n, y>>)
                                  /\ ~Files!IsStrictPrefix(<<n, x>>, <<n, y, Page>>)
    <3>1. TAKE y \in SampleId \ {x}
    <3>2. \A m : Files!IsStrictPrefix(<<n, x>>, <<m, y, Page>>) <=> n = m /\ x = y
      BY Prefixes
    <3>3. ~Files!IsStrictPrefix(<<n, x>>, <<n, y>>)
      BY Prefixes
    <3>4. QED
      BY <3>2, <3>3
  <2>4. \A y \in SampleId \ {x} : /\ ~Files!IsStrictPrefix(<<n, x, Page>>, <<n, y>>)
                                  /\ ~Files!IsStrictPrefix(<<n, x, Page>>, <<n, y, Page>>)
    BY Prefixes
  <2>5. QED
    BY <2>1, <2>2, <2>3, <2>4
<1>4. CASE \E c : Put(d, e, p, c)
  BY <1>1, <1>2, <1>3, <1>4 DEF Put
<1>5. CASE Gone(d, e, p)
  BY <1>1, <1>2, <1>3, <1>5 DEF Gone
<1>6. QED
  BY <1>1, <1>4, <1>5

LEMMA AddOrEditSample ==
  ASSUME NEW d, Tidy(d), NEW e, NEW n \in Spider, NEW x \in SampleId, NEW c,
         Put(d, e, <<n, x>>, c), At(d, <<n>>) # <<>>
  PROVE  /\ n \in DOMAIN Files!Shown(d)
         /\ x \in DOMAIN Files!Shown(d)[n].samples =>
              Files!Shown(e) = WithSamples(Files!Shown(d), n,
                                           WithData(Files!Shown(d)[n].samples, x, c))
         /\ x \notin DOMAIN Files!Shown(d)[n].samples =>
              Files!Shown(e) = WithSamples(Files!Shown(d), n,
                                           With(Files!Shown(d)[n].samples, x,
                                                [data |-> c, page |-> "none"]))
<1> DEFINE f == SamplesShown(d, n)
           g == SamplesShown(e, n)
<1>1. /\ <<n, x>> \in Places /\ Of(<<n, x>>, n) /\ At(e, <<n>>) = At(d, <<n>>)
      /\ \A y \in SampleId \ {x} : /\ At(e, <<n, y>>) = At(d, <<n, y>>)
                                   /\ At(e, <<n, y, Page>>) = At(d, <<n, y, Page>>)
  BY OtherSamples
<1>2. OthersSame(d, e, n)
  BY <1>1, OthersShown
<1>3. /\ n \in DOMAIN Files!Shown(d)
      /\ Files!Shown(d)[n].samples = f
      /\ Files!Shown(e) = WithSamples(Files!Shown(d), n, g)
  BY <1>1, <1>2, SamplesChange
<1>4. At(e, <<n, x>>) = <<c>> /\ At(e, <<n, x, Page>>) = At(d, <<n, x, Page>>)
  BY PlacesAre, Paths DEF Put
<1>5. /\ x \in DOMAIN g
      /\ g[x] = [data |-> e[<<n, x>>],
                 page |-> IF At(e, <<n, x, Page>>) # <<>> THEN e[<<n, x, Page>>] ELSE "none"]
      /\ <<e[<<n, x>>]>> = <<c>>
      /\ At(e, <<n, x, Page>>) # <<>> => At(e, <<n, x, Page>>) = <<e[<<n, x, Page>>]>>
  <2>1. At(e, <<n, x>>) # <<>>
    BY <1>4
  <2>2. QED
    BY <1>4, <2>1, SampleShown, Zenon
<1>6. /\ x \in DOMAIN f /\ x \in DOMAIN g => g = [f EXCEPT ![x] = g[x]]
      /\ x \notin DOMAIN f /\ x \in DOMAIN g => g = With(f, x, g[x])
  BY <1>1, SampleChanges
<1>7. CASE x \in DOMAIN f
  <2>1. At(d, <<n, x>>) # <<>>
    BY <1>7, ShownHas
  <2>2. f[x] = [data |-> d[<<n, x>>],
                page |-> IF At(d, <<n, x, Page>>) # <<>> THEN d[<<n, x, Page>>] ELSE "none"]
    BY <2>1, SampleShown
  <2>3. At(d, <<n, x, Page>>) # <<>> => d[<<n, x, Page>>] = e[<<n, x, Page>>]
    BY <1>4, <1>5, AtIs DEF Alike
  <2>4. g[x] = [f[x] EXCEPT !.data = c]
    BY <1>4, <1>5, <2>2, <2>3
  <2> HIDE DEF f, g
  <2>5. g = WithData(f, x, c)
    BY <1>5, <1>6, <1>7, <2>4 DEF WithData
  <2>6. QED
    BY <1>3, <1>7, <2>5
<1>8. CASE x \notin DOMAIN f
  <2>1. At(d, <<n, x>>) = <<>>
    BY <1>8, ShownHas
  <2>2. At(d, <<n, x, Page>>) = <<>>
    BY <2>1 DEF Tidy
  <2>3. g[x] = [data |-> c, page |-> "none"]
    BY <1>4, <1>5, <2>2
  <2>4. QED
    BY <1>3, <1>5, <1>6, <1>8, <2>3
<1>9. QED
  BY <1>7, <1>8

LEMMA PageStored ==
  ASSUME NEW d, NEW e, NEW n \in Spider, NEW x \in SampleId, NEW c,
         Put(d, e, <<n, x, Page>>, c), At(d, <<n>>) # <<>>, At(d, <<n, x>>) # <<>>
  PROVE  /\ n \in DOMAIN Files!Shown(d)
         /\ x \in DOMAIN Files!Shown(d)[n].samples
         /\ Files!Shown(e) = WithSamples(Files!Shown(d), n,
                                         WithPage(Files!Shown(d)[n].samples, x, c))
<1> DEFINE f == SamplesShown(d, n)
           g == SamplesShown(e, n)
<1>1. /\ <<n, x, Page>> \in Places /\ Of(<<n, x, Page>>, n) /\ At(e, <<n>>) = At(d, <<n>>)
      /\ \A y \in SampleId \ {x} : /\ At(e, <<n, y>>) = At(d, <<n, y>>)
                                   /\ At(e, <<n, y, Page>>) = At(d, <<n, y, Page>>)
  BY OtherSamples
<1>2. OthersSame(d, e, n)
  BY <1>1, OthersShown
<1>3. /\ n \in DOMAIN Files!Shown(d)
      /\ Files!Shown(d)[n].samples = f
      /\ Files!Shown(e) = WithSamples(Files!Shown(d), n, g)
  BY <1>1, <1>2, SamplesChange
<1>4. At(e, <<n, x, Page>>) = <<c>> /\ At(e, <<n, x>>) = At(d, <<n, x>>)
  BY PlacesAre, Paths DEF Put
<1>5. /\ x \in DOMAIN g
      /\ g[x] = [data |-> e[<<n, x>>],
                 page |-> IF At(e, <<n, x, Page>>) # <<>> THEN e[<<n, x, Page>>] ELSE "none"]
      /\ <<e[<<n, x, Page>>]>> = <<c>>
  BY <1>4, SampleShown
<1>6. x \in DOMAIN f /\ x \in DOMAIN g => g = [f EXCEPT ![x] = g[x]]
  BY <1>1, SampleChanges
<1>7. /\ x \in DOMAIN f
      /\ f[x] = [data |-> d[<<n, x>>],
                 page |-> IF At(d, <<n, x, Page>>) # <<>> THEN d[<<n, x, Page>>] ELSE "none"]
      /\ At(d, <<n, x>>) = <<d[<<n, x>>]>>
  BY SampleShown
<1>8. d[<<n, x>>] = e[<<n, x>>]
  <2>1. At(e, <<n, x>>) = <<e[<<n, x>>]>>
    BY <1>4, SampleShown
  <2>2. <<e[<<n, x>>]>> = <<d[<<n, x>>]>>
    BY <1>4, <1>7, <2>1
  <2>3. QED
    BY <2>2
<1>9. g[x] = [f[x] EXCEPT !.page = c]
  BY <1>4, <1>5, <1>7, <1>8
<1> HIDE DEF f, g
<1>10. g = WithPage(f, x, c)
  BY <1>5, <1>6, <1>7, <1>9 DEF WithPage
<1>11. QED
  BY <1>3, <1>7, <1>10

LEMMA SampleRemoved ==
  ASSUME NEW d, NEW e, NEW n \in Spider, NEW x \in SampleId,
         Gone(d, e, <<n, x>>), At(d, <<n>>) # <<>>, At(d, <<n, x>>) # <<>>
  PROVE  /\ n \in DOMAIN Files!Shown(d)
         /\ x \in DOMAIN Files!Shown(d)[n].samples
         /\ Files!Shown(e) = WithSamples(Files!Shown(d), n,
                                         Without(Files!Shown(d)[n].samples, x))
<1> DEFINE f == SamplesShown(d, n)
           g == SamplesShown(e, n)
<1>1. /\ <<n, x>> \in Places /\ Of(<<n, x>>, n) /\ At(e, <<n>>) = At(d, <<n>>)
      /\ \A y \in SampleId \ {x} : /\ At(e, <<n, y>>) = At(d, <<n, y>>)
                                   /\ At(e, <<n, y, Page>>) = At(d, <<n, y, Page>>)
  BY OtherSamples
<1>2. OthersSame(d, e, n)
  BY <1>1, OthersShown
<1>3. /\ n \in DOMAIN Files!Shown(d)
      /\ Files!Shown(d)[n].samples = f
      /\ Files!Shown(e) = WithSamples(Files!Shown(d), n, g)
  BY <1>1, <1>2, SamplesChange
<1>4. At(e, <<n, x>>) = <<>>
  BY <1>1 DEF Gone
<1>5. x \in DOMAIN f /\ x \notin DOMAIN g
  <2>1. x \in DOMAIN f
    BY SampleShown
  <2>2. DOMAIN g = Files!SamplesIn(e, n) /\ (x \in Files!SamplesIn(e, n) <=> At(e, <<n, x>>) # <<>>)
    BY ShownHas
  <2>3. QED
    BY <1>4, <2>1, <2>2
<1>6. x \in DOMAIN f /\ x \notin DOMAIN g => g = Without(f, x)
  BY <1>1, SampleChanges
<1>7. QED
  BY <1>3, <1>5, <1>6

LEMMA SpiderRemoved ==
  ASSUME NEW d, NEW e, NEW n \in Spider, Gone(d, e, <<n>>), At(d, <<n>>) # <<>>
  PROVE  /\ n \in DOMAIN Files!Shown(d)
         /\ Files!Shown(e) = Without(Files!Shown(d), n)
<1>1. <<n>> \in Places /\ Of(<<n>>, n)
  BY DEF Places, Of
<1>2. OthersSame(d, e, n)
  BY <1>1, OthersShown
<1>3. At(e, <<n>>) = <<>>
  BY <1>1 DEF Gone
<1>4. n \in Files!SpidersOn(d) /\ n \notin Files!SpidersOn(e)
  BY <1>3, ShownHas
<1>5. n \in Files!SpidersOn(d) /\ n \notin Files!SpidersOn(e) =>
        Files!Shown(e) = Without(Files!Shown(d), n)
  BY <1>2, OneChanges
<1>6. QED
  BY <1>4, <1>5, ShownHas

\* A file is written only where the one it belongs to is: that of its sample, or
\* its spider.
Placed(d, p) ==
  \/ \E n \in Spider : p = <<n>>
  \/ \E n \in Spider, x \in SampleId : p = <<n, x>> /\ At(d, <<n>>) # <<>>
  \/ \E n \in Spider, x \in SampleId :
       p = <<n, x, Page>> /\ At(d, <<n>>) # <<>> /\ At(d, <<n, x>>) # <<>>

LEMMA PutIsTidy ==
  ASSUME NEW d, Tidy(d), NEW e, NEW p \in Places, Placed(d, p), NEW c, Put(d, e, p, c)
  PROVE  Tidy(e)
<1> SUFFICES ASSUME NEW n \in Spider, NEW x \in SampleId
             PROVE  /\ At(e, <<n, x>>) # <<>> => At(e, <<n>>) # <<>>
                    /\ At(e, <<n, x, Page>>) # <<>> => At(e, <<n, x>>) # <<>>
  BY DEF Tidy, Put
<1>1. /\ At(e, <<n>>) = IF <<n>> = p THEN <<c>> ELSE At(d, <<n>>)
      /\ At(e, <<n, x>>) = IF <<n, x>> = p THEN <<c>> ELSE At(d, <<n, x>>)
      /\ At(e, <<n, x, Page>>) = IF <<n, x, Page>> = p THEN <<c>> ELSE At(d, <<n, x, Page>>)
  BY PlacesAre DEF Put
<1>2. <<c>> # <<>>
  OBVIOUS
<1>3. /\ At(d, <<n, x>>) # <<>> => At(d, <<n>>) # <<>>
      /\ At(d, <<n, x, Page>>) # <<>> => At(d, <<n, x>>) # <<>>
  BY DEF Tidy
<1>4. /\ <<n, x>> = p => At(d, <<n>>) # <<>>
      /\ <<n, x, Page>> = p => At(d, <<n, x>>) # <<>>
  <2>1. CASE \E m \in Spider : p = <<m>>
    BY <2>1, Paths
  <2>2. ASSUME NEW m \in Spider, NEW y \in SampleId, p = <<m, y>>, At(d, <<m>>) # <<>>
        PROVE  <1>4!:
    BY <2>2, Paths
  <2>3. ASSUME NEW m \in Spider, NEW y \in SampleId, p = <<m, y, Page>>,
               At(d, <<m, y>>) # <<>>
        PROVE  <1>4!:
    BY <2>3, Paths
  <2>4. QED
    BY <2>1, <2>2, <2>3 DEF Placed
<1>5. QED
  BY <1>1, <1>2, <1>3, <1>4

LEMMA GoneIsTidy ==
  ASSUME NEW d, Tidy(d), NEW e, NEW p \in Places, Gone(d, e, p),
         \A n \in Spider, x \in SampleId : p # <<n, x, Page>>
  PROVE  Tidy(e)
<1> SUFFICES ASSUME NEW n \in Spider, NEW x \in SampleId
             PROVE  /\ At(e, <<n, x>>) # <<>> => At(e, <<n>>) # <<>>
                    /\ At(e, <<n, x, Page>>) # <<>> => At(e, <<n, x>>) # <<>>
  BY DEF Tidy, Gone
<1> DEFINE Lost(q) == q = p \/ Files!IsStrictPrefix(p, q)
<1>1. /\ At(e, <<n>>) = IF Lost(<<n>>) THEN <<>> ELSE At(d, <<n>>)
      /\ At(e, <<n, x>>) = IF Lost(<<n, x>>) THEN <<>> ELSE At(d, <<n, x>>)
      /\ At(e, <<n, x, Page>>) = IF Lost(<<n, x, Page>>) THEN <<>> ELSE At(d, <<n, x, Page>>)
  BY PlacesAre DEF Gone
<1>2. /\ At(d, <<n, x>>) # <<>> => At(d, <<n>>) # <<>>
      /\ At(d, <<n, x, Page>>) # <<>> => At(d, <<n, x>>) # <<>>
  BY DEF Tidy
<1>3. /\ Lost(<<n>>) => Lost(<<n, x>>)
      /\ Lost(<<n, x>>) => Lost(<<n, x, Page>>)
  <2>1. ASSUME NEW m \in Spider, p = <<m>> PROVE <1>3!:
    BY <2>1, Prefixes, Paths
  <2>2. ASSUME NEW m \in Spider, NEW y \in SampleId, p = <<m, y>> PROVE <1>3!:
    BY <2>2, Prefixes, Paths
  <2>3. QED
    BY <2>1, <2>2, PlaceIs
<1> HIDE DEF Lost
<1>4. QED
  BY <1>1, <1>2, <1>3

LEMMA PutIsARequest ==
  ASSUME Tidy(before), NEW p \in Places, Placed(before, p), NEW c \in FileData,
         Put(before, before', p, c)
  PROVE  Tidy(before') /\ Files!Promised!Request
<1>1. Tidy(before')
  BY PutIsTidy
<1>2. ASSUME NEW n \in Spider, p = <<n>> PROVE Files!Promised!Request
  <2>1. Put(before, before', <<n>>, c)
    BY <1>2
  <2>2. CASE n \in Files!SpidersOn(before)
    <3>1. Files!Shown(before') = [Files!Shown(before) EXCEPT ![n].settings = c]
      BY <2>1, <2>2, CreateOrEdit
    <3>2. n \in DOMAIN Files!Shown(before)
      BY <2>2, ShownHas
    <3>3. Files!Promised!Edit(n, c)
      BY <3>1 DEF Files!Promised!Edit
    <3>4. QED
      BY <3>2, <3>3 DEF Files!Promised!Request
  <2>3. CASE n \notin Files!SpidersOn(before)
    <3>1. Files!Shown(before') = With(Files!Shown(before), n, [settings |-> c, samples |-> <<>>])
      BY <2>1, <2>3, CreateOrEdit
    <3>2. n \notin DOMAIN Files!Shown(before)
      BY <2>3, ShownHas
    <3>3. Files!Promised!Create(n, c)
      BY <3>1, <3>2 DEF Files!Promised!Create, Files!Promised!With, With
    <3>4. QED
      BY <3>3 DEF Files!Promised!Request
  <2>4. QED
    BY <2>2, <2>3
<1>3. ASSUME NEW n \in Spider, NEW x \in SampleId, p = <<n, x>>, At(before, <<n>>) # <<>>
      PROVE  Files!Promised!Request
  <2> DEFINE f == Files!Shown(before)[n].samples
  <2>1. Put(before, before', <<n, x>>, c)
    BY <1>3
  <2>2. /\ n \in DOMAIN Files!Shown(before)
        /\ x \in DOMAIN f =>
             Files!Shown(before') = WithSamples(Files!Shown(before), n, WithData(f, x, c))
        /\ x \notin DOMAIN f =>
             Files!Shown(before') =
               WithSamples(Files!Shown(before), n, With(f, x, [data |-> c, page |-> "none"]))
    BY <1>3, <2>1, AddOrEditSample
  <2>3. CASE x \in DOMAIN f
    <3>1. Files!Promised!EditSample(n, x, c)
      BY <2>2, <2>3 DEF Files!Promised!EditSample, Files!Promised!WithSamples,
                        Files!Promised!SamplesOf, WithSamples, WithData
    <3>2. QED
      BY <2>2, <2>3, <3>1 DEF Files!Promised!Request, Files!Promised!SamplesOf
  <2>4. CASE x \notin DOMAIN f
    <3>1. Files!Promised!AddSample(n, x, [data |-> c, page |-> "none"])
      BY <2>2, <2>4 DEF Files!Promised!AddSample, Files!Promised!WithSamples,
                        Files!Promised!SamplesOf, Files!Promised!With, With, WithSamples
    <3>2. QED
      BY <2>2, <3>1 DEF Files!Promised!Request
  <2>5. QED
    BY <2>3, <2>4
<1>4. ASSUME NEW n \in Spider, NEW x \in SampleId, p = <<n, x, Page>>,
             At(before, <<n>>) # <<>>, At(before, <<n, x>>) # <<>>
      PROVE  Files!Promised!Request
  <2> DEFINE f == Files!Shown(before)[n].samples
  <2>1. Put(before, before', <<n, x, Page>>, c)
    BY <1>4
  <2>2. /\ n \in DOMAIN Files!Shown(before) /\ x \in DOMAIN f
        /\ Files!Shown(before') = WithSamples(Files!Shown(before), n, WithPage(f, x, c))
    BY <1>4, <2>1, PageStored
  <2>3. Files!Promised!StorePage(n, x, c)
    BY <2>2 DEF Files!Promised!StorePage, Files!Promised!WithSamples, Files!Promised!SamplesOf,
                WithSamples, WithPage
  <2>4. QED
    BY <2>2, <2>3 DEF Files!Promised!Request, Files!Promised!SamplesOf
<1>5. QED
  BY <1>1, <1>2, <1>3, <1>4 DEF Placed

LEMMA GoneIsARequest ==
  ASSUME Tidy(before), NEW n \in Spider, At(before, <<n>>) # <<>>, NEW p,
         \/ p = <<n>>
         \/ \E x \in SampleId : p = <<n, x>> /\ At(before, <<n, x>>) # <<>>,
         Gone(before, before', p)
  PROVE  Tidy(before') /\ Files!Promised!Request
<1>1. CASE p = <<n>>
  <2>1. Gone(before, before', <<n>>) /\ <<n>> \in Places
    BY <1>1 DEF Places
  <2>2. \A m \in Spider, x \in SampleId : <<n>> # <<m, x, Page>>
    BY Paths
  <2>3. Tidy(before')
    BY <2>1, <2>2, GoneIsTidy
  <2>4. n \in DOMAIN Files!Shown(before) /\ Files!Shown(before') = Without(Files!Shown(before), n)
    BY <2>1, SpiderRemoved
  <2>5. Files!Promised!Remove(n)
    BY <2>4 DEF Files!Promised!Remove, Files!Promised!Without, Files!Promised!Restrict, Without
  <2>6. QED
    BY <2>3, <2>4, <2>5 DEF Files!Promised!Request
<1>2. ASSUME NEW x \in SampleId, p = <<n, x>>, At(before, <<n, x>>) # <<>>
      PROVE  Tidy(before') /\ Files!Promised!Request
  <2> DEFINE f == Files!Shown(before)[n].samples
  <2>1. Gone(before, before', <<n, x>>) /\ <<n, x>> \in Places
    BY <1>2 DEF Places
  <2>2. \A m \in Spider, y \in SampleId : <<n, x>> # <<m, y, Page>>
    BY Paths
  <2>3. Tidy(before')
    BY <2>1, <2>2, GoneIsTidy
  <2>4. /\ n \in DOMAIN Files!Shown(before) /\ x \in DOMAIN f
        /\ Files!Shown(before') = WithSamples(Files!Shown(before), n, Without(f, x))
    BY <1>2, <2>1, SampleRemoved
  <2>5. Files!Promised!RemoveSample(n, x)
    BY <2>4 DEF Files!Promised!RemoveSample, Files!Promised!WithSamples,
                Files!Promised!SamplesOf, Files!Promised!Without, Files!Promised!Restrict,
                Without, WithSamples
  <2>6. QED
    BY <2>3, <2>4, <2>5 DEF Files!Promised!Request, Files!Promised!SamplesOf
<1>3. QED
  BY <1>1, <1>2

(* The disks of a renaming: from d, n is renamed to m; the pages of X are  *)
(* moved, the spider is saved under its new name (b), the old files are    *)
(* gone (g), and the samples Y are saved again.                            *)

Between(d, e, n, m, X, b, g, Y) ==
  /\ IsDisk(e)
  /\ \A o \in Spider :
       At(e, <<o>>) = IF o = m THEN IF b THEN At(d, <<n>>) ELSE <<>>
                      ELSE IF o = n /\ g THEN <<>> ELSE At(d, <<o>>)
  /\ \A o \in Spider, y \in SampleId :
       At(e, <<o, y>>) = IF o = m THEN IF y \in Y THEN At(d, <<n, y>>) ELSE <<>>
                         ELSE IF o = n /\ g THEN <<>> ELSE At(d, <<o, y>>)
  /\ \A o \in Spider, y \in SampleId :
       At(e, <<o, y, Page>>) =
         IF o = m THEN IF y \in X THEN At(d, <<n, y, Page>>) ELSE <<>>
         ELSE IF o = n /\ (g \/ y \in X) THEN <<>> ELSE At(d, <<o, y, Page>>)

LEMMA BetweenAtFirst ==
  ASSUME NEW d, Tidy(d), NEW n \in Spider, NEW m \in Spider, At(d, <<m>>) = <<>>
  PROVE  Between(d, d, n, m, {}, FALSE, FALSE, {})
<1>1. \A y \in SampleId : At(d, <<m, y>>) = <<>> /\ At(d, <<m, y, Page>>) = <<>>
  BY DEF Tidy
<1>2. QED
  BY <1>1 DEF Between, Tidy

LEMMA RenameIsARequest ==
  ASSUME Tidy(before), NEW n \in Spider, NEW m \in Spider,
         At(before, <<n>>) # <<>>, At(before, <<m>>) = <<>>,
         Between(before, before', n, m, Files!SamplesIn(before, n), TRUE, TRUE,
                 Files!SamplesIn(before, n))
  PROVE  Tidy(before') /\ Files!Promised!Request
<1>1. PICK e : e = before'
  OBVIOUS
<1>2. Between(before, e, n, m, Files!SamplesIn(before, n), TRUE, TRUE,
              Files!SamplesIn(before, n))
  BY <1>1
<1> DEFINE X == Files!SamplesIn(before, n)
<1>3. n # m
  OBVIOUS
<1>4. \A y \in SampleId : y \notin X => At(before, <<n, y>>) = <<>> /\ At(before, <<n, y, Page>>) = <<>>
  <2>1. \A y \in SampleId : y \in X <=> At(before, <<n, y>>) # <<>>
    BY ShownHas
  <2>2. QED
    BY <2>1 DEF Tidy
<1> HIDE DEF X
<1>5. /\ At(e, <<m>>) = At(before, <<n>>)
      /\ \A y \in SampleId : /\ At(e, <<m, y>>) = At(before, <<n, y>>)
                             /\ At(e, <<m, y, Page>>) = At(before, <<n, y, Page>>)
  BY <1>2, <1>4 DEF Between, X
<1>6. /\ At(e, <<n>>) = <<>>
      /\ \A y \in SampleId : At(e, <<n, y>>) = <<>> /\ At(e, <<n, y, Page>>) = <<>>
  BY <1>2, <1>3 DEF Between
<1>7. \A o \in Spider \ {n, m} :
        /\ At(e, <<o>>) = At(before, <<o>>)
        /\ \A y \in SampleId : /\ At(e, <<o, y>>) = At(before, <<o, y>>)
                               /\ At(e, <<o, y, Page>>) = At(before, <<o, y, Page>>)
  BY <1>2 DEF Between
<1>8. Tidy(e)
  <2>1. IsDisk(e)
    BY <1>2 DEF Between
  <2>2. ASSUME NEW o \in Spider, NEW y \in SampleId
        PROVE  /\ At(e, <<o, y>>) # <<>> => At(e, <<o>>) # <<>>
               /\ At(e, <<o, y, Page>>) # <<>> => At(e, <<o, y>>) # <<>>
    <3>1. CASE o = m
      BY <1>5, <3>1 DEF Tidy
    <3>2. CASE o = n
      BY <1>6, <3>2
    <3>3. CASE o \notin {n, m}
      BY <1>7, <3>3 DEF Tidy
    <3>4. QED
      BY <3>1, <3>2, <3>3
  <2>3. QED
    BY <2>1, <2>2 DEF Tidy
<1> DEFINE f == Files!Shown(before)
           h == Files!Shown(e)
<1>9. /\ m \in DOMAIN h /\ n \in DOMAIN f /\ m \notin DOMAIN f /\ n \notin DOMAIN h
      /\ h[m] = f[n]
  <2>1. SameFiles(before, n, e, m)
    BY <1>5, AtFiles
  <2>2. n \in Files!SpidersOn(before) /\ m \notin Files!SpidersOn(before)
    BY ShownHas
  <2>3. m \in Files!SpidersOn(e) /\ h[m] = f[n]
    BY <2>1, <2>2, SameSpider
  <2>4. n \notin Files!SpidersOn(e)
    BY <1>6, ShownHas
  <2>5. DOMAIN f = Files!SpidersOn(before) /\ DOMAIN h = Files!SpidersOn(e)
    BY ShownHas
  <2>6. QED
    BY <2>2, <2>3, <2>4, <2>5
<1>10. \A o \in Spider \ {n, m} : (o \in DOMAIN f <=> o \in DOMAIN h) /\ (o \in DOMAIN f => h[o] = f[o])
  <2>1. TAKE o \in Spider \ {n, m}
  <2>2. SameFiles(before, o, e, o)
    BY <1>7, AtFiles
  <2>3. DOMAIN f = Files!SpidersOn(before) /\ DOMAIN h = Files!SpidersOn(e)
    BY ShownHas
  <2>4. QED
    BY <2>2, <2>3, SameSpider
<1>11. /\ DOMAIN f \subseteq Spider /\ DOMAIN h \subseteq Spider
       /\ h = [o \in DOMAIN h |-> h[o]]
  BY ShownHas
<1> HIDE DEF f, h
<1>12. h = With(Without(f, n), m, f[n])
  <2>1. DOMAIN h = (DOMAIN f \ {n}) \cup {m}
    BY <1>3, <1>9, <1>10, <1>11
  <2>2. \A o \in DOMAIN h : h[o] = IF o = m THEN f[n] ELSE Without(f, n)[o]
    BY <1>9, <1>10, <2>1, <1>11 DEF Without
  <2>3. DOMAIN Without(f, n) = DOMAIN f \ {n}
    BY DEF Without
  <2>4. QED
    BY <1>11, <2>1, <2>2, <2>3 DEF With
<1>13. Files!Shown(before') = With(Without(Files!Shown(before), n), m, Files!Shown(before)[n])
  BY <1>1, <1>12 DEF f, h
<1>14. Files!Promised!Rename(n, m)
  BY <1>9, <1>13 DEF Files!Promised!Rename, Files!Promised!With, Files!Promised!Without,
                     Files!Promised!Restrict, With, Without, f
<1>15. QED
  BY <1>1, <1>8, <1>9, <1>14 DEF Files!Promised!Request, f

LEMMA BetweenMove ==
  ASSUME NEW d, NEW n \in Spider, NEW m \in Spider, n # m, NEW x \in SampleId,
         NEW X, x \notin X, NEW b, NEW Y, Between(d, disk, n, m, X, b, FALSE, Y),
         At(disk, <<n, x, Page>>) # <<>>
  PROVE  Between(d, Files!Moved(<<n, x>>, <<m, x>>), n, m, X \cup {x}, b, FALSE, Y)
<1>1. PICK e : e = Files!Moved(<<n, x>>, <<m, x>>)
  OBVIOUS
<1>2. /\ At(disk, <<m, x, Page>>) = <<>> /\ IsDisk(disk)
      /\ At(disk, <<n, x, Page>>) = At(d, <<n, x, Page>>)
  BY DEF Between
<1>3. /\ IsDisk(e)
      /\ \A q \in Places :
           At(e, q) = IF q = <<m, x, Page>> THEN At(disk, <<n, x, Page>>)
                      ELSE IF q = <<n, x, Page>> THEN <<>> ELSE At(disk, q)
  BY <1>1, <1>2, MoveAt
<1>4. \A o \in Spider : At(e, <<o>>) = At(disk, <<o>>)
  <2>1. \A o \in Spider : <<o>> \in Places /\ <<o>> # <<m, x, Page>> /\ <<o>> # <<n, x, Page>>
    BY Paths DEF Places
  <2>2. QED
    BY <1>3, <2>1
<1>5. \A o \in Spider, y \in SampleId : At(e, <<o, y>>) = At(disk, <<o, y>>)
  <2>1. \A o \in Spider, y \in SampleId :
          <<o, y>> \in Places /\ <<o, y>> # <<m, x, Page>> /\ <<o, y>> # <<n, x, Page>>
    BY Paths, PlacesAre
  <2>2. QED
    BY <1>3, <2>1
<1>6. \A o \in Spider, y \in SampleId :
        At(e, <<o, y, Page>>) = IF o = m /\ y = x THEN At(d, <<n, x, Page>>)
                                ELSE IF o = n /\ y = x THEN <<>> ELSE At(disk, <<o, y, Page>>)
  <2>1. \A o \in Spider, y \in SampleId :
          /\ <<o, y, Page>> \in Places
          /\ <<o, y, Page>> = <<m, x, Page>> <=> o = m /\ y = x
          /\ <<o, y, Page>> = <<n, x, Page>> <=> o = n /\ y = x
    BY Paths, PlacesAre
  <2>2. QED
    BY <1>2, <1>3, <2>1
<1>7. Between(d, e, n, m, X \cup {x}, b, FALSE, Y)
  BY <1>3, <1>4, <1>5, <1>6 DEF Between
<1>8. QED
  BY <1>1, <1>7

LEMMA BetweenSave ==
  ASSUME NEW d, NEW n \in Spider, NEW m \in Spider, At(d, <<n>>) # <<>>,
         NEW X, NEW b, NEW g, NEW Y, Between(d, disk, n, m, X, b, g, Y)
  PROVE  Between(d, Files!Saved(<<m>>, d[<<n>>]), n, m, X, TRUE, g, Y)
<1>1. PICK e : e = Files!Saved(<<m>>, d[<<n>>])
  OBVIOUS
<1>2. <<m>> \in Places /\ IsDisk(disk)
  BY DEF Between, Places
<1>3. Put(disk, e, <<m>>, d[<<n>>])
  BY <1>1, <1>2, SaveAt
<1>4. At(d, <<n>>) = <<d[<<n>>]>>
  BY AtIs
<1>5. \A o \in Spider : At(e, <<o>>) = IF o = m THEN At(d, <<n>>) ELSE At(disk, <<o>>)
  <2>1. \A o \in Spider : <<o>> \in Places /\ (<<o>> = <<m>> <=> o = m)
    BY DEF Places
  <2>2. QED
    BY <1>3, <1>4, <2>1 DEF Put
<1>6. \A o \in Spider, y \in SampleId : /\ At(e, <<o, y>>) = At(disk, <<o, y>>)
                                       /\ At(e, <<o, y, Page>>) = At(disk, <<o, y, Page>>)
  <2>1. \A o \in Spider, y \in SampleId : /\ <<o, y>> \in Places /\ <<o, y>> # <<m>>
                                         /\ <<o, y, Page>> \in Places /\ <<o, y, Page>> # <<m>>
    BY Paths, PlacesAre
  <2>2. QED
    BY <1>3, <2>1 DEF Put
<1>7. Between(d, e, n, m, X, TRUE, g, Y)
  BY <1>3, <1>5, <1>6 DEF Between, Put
<1>8. QED
  BY <1>1, <1>7

LEMMA BetweenDelete ==
  ASSUME NEW d, NEW n \in Spider, NEW m \in Spider, n # m,
         NEW X, NEW b, NEW g, NEW Y, Between(d, disk, n, m, X, b, g, Y)
  PROVE  Between(d, Files!Deleted(<<n>>), n, m, X, b, TRUE, Y)
<1>1. PICK e : e = Files!Deleted(<<n>>)
  OBVIOUS
<1>2. <<n>> \in Places /\ IsDisk(disk)
  BY DEF Between, Places
<1>3. Gone(disk, e, <<n>>)
  BY <1>1, <1>2, DeleteAt
<1>4. \A o \in Spider : At(e, <<o>>) = IF o = n THEN <<>> ELSE At(disk, <<o>>)
  <2>1. \A o \in Spider : /\ <<o>> \in Places /\ (<<o>> = <<n>> <=> o = n)
                          /\ ~Files!IsStrictPrefix(<<n>>, <<o>>)
    <3>1. TAKE o \in Spider
    <3>2. <<o>> \in Places /\ (<<o>> = <<n>> <=> o = n)
      BY DEF Places
    <3>3. ~Files!IsStrictPrefix(<<n>>, <<o>>)
      BY Prefixes
    <3>4. QED
      BY <3>2, <3>3
  <2>2. QED
    BY <1>3, <2>1 DEF Gone
<1>5. \A o \in Spider, y \in SampleId :
        /\ At(e, <<o, y>>) = IF o = n THEN <<>> ELSE At(disk, <<o, y>>)
        /\ At(e, <<o, y, Page>>) = IF o = n THEN <<>> ELSE At(disk, <<o, y, Page>>)
  <2>1. \A o \in Spider, y \in SampleId :
          /\ <<o, y>> \in Places /\ <<o, y>> # <<n>>
          /\ <<o, y, Page>> \in Places /\ <<o, y, Page>> # <<n>>
    BY Paths, PlacesAre
  <2>2. \A o \in Spider, y \in SampleId :
          /\ Files!IsStrictPrefix(<<n>>, <<o, y>>) <=> n = o
          /\ Files!IsStrictPrefix(<<n>>, <<o, y, Page>>) <=> n = o
    BY Prefixes
  <2>3. QED
    BY <1>3, <2>1, <2>2 DEF Gone
<1>6. Between(d, e, n, m, X, b, TRUE, Y)
  BY <1>3, <1>4, <1>5 DEF Between, Gone
<1>7. QED
  BY <1>1, <1>6

LEMMA BetweenSaveSample ==
  ASSUME NEW d, NEW n \in Spider, NEW m \in Spider, NEW x \in SampleId,
         At(d, <<n, x>>) # <<>>,
         NEW X, NEW b, NEW g, NEW Y, Between(d, disk, n, m, X, b, g, Y)
  PROVE  Between(d, Files!Saved(<<m, x>>, d[<<n, x>>]), n, m, X, b, g, Y \cup {x})
<1>1. PICK e : e = Files!Saved(<<m, x>>, d[<<n, x>>])
  OBVIOUS
<1>2. <<m, x>> \in Places /\ IsDisk(disk)
  BY DEF Between, Places
<1>3. Put(disk, e, <<m, x>>, d[<<n, x>>])
  BY <1>1, <1>2, SaveAt
<1>4. At(d, <<n, x>>) = <<d[<<n, x>>]>>
  BY AtIs
<1>5. \A o \in Spider : At(e, <<o>>) = At(disk, <<o>>)
  <2>1. \A o \in Spider : <<o>> \in Places /\ <<o>> # <<m, x>>
    BY Paths DEF Places
  <2>2. QED
    BY <1>3, <2>1 DEF Put
<1>6. \A o \in Spider, y \in SampleId :
        /\ At(e, <<o, y>>) = IF o = m /\ y = x THEN At(d, <<n, x>>) ELSE At(disk, <<o, y>>)
        /\ At(e, <<o, y, Page>>) = At(disk, <<o, y, Page>>)
  <2>1. \A o \in Spider, y \in SampleId :
          /\ <<o, y>> \in Places /\ (<<o, y>> = <<m, x>> <=> o = m /\ y = x)
          /\ <<o, y, Page>> \in Places /\ <<o, y, Page>> # <<m, x>>
    BY Paths, PlacesAre
  <2>2. QED
    BY <1>3, <1>4, <2>1 DEF Put
<1>7. Between(d, e, n, m, X, b, g, Y \cup {x})
  <2>1. IsDisk(e)
    BY <1>3 DEF Put
  <2>2. \A o \in Spider :
          At(e, <<o>>) = IF o = m THEN IF b THEN At(d, <<n>>) ELSE <<>>
                         ELSE IF o = n /\ g THEN <<>> ELSE At(d, <<o>>)
    BY <1>5 DEF Between
  <2>3. \A o \in Spider, y \in SampleId :
          At(e, <<o, y>>) =
            IF o = m THEN IF y \in Y \cup {x} THEN At(d, <<n, y>>) ELSE <<>>
            ELSE IF o = n /\ g THEN <<>> ELSE At(d, <<o, y>>)
    <3>1. TAKE o \in Spider, y \in SampleId
    <3>2. At(e, <<o, y>>) = IF o = m /\ y = x THEN At(d, <<n, x>>) ELSE At(disk, <<o, y>>)
      BY <1>6, Zenon
    <3>3. At(disk, <<o, y>>) =
            IF o = m THEN IF y \in Y THEN At(d, <<n, y>>) ELSE <<>>
            ELSE IF o = n /\ g THEN <<>> ELSE At(d, <<o, y>>)
      BY Zenon DEF Between
    <3>4. QED
      BY <3>2, <3>3
  <2>4. \A o \in Spider, y \in SampleId :
          At(e, <<o, y, Page>>) =
            IF o = m THEN IF y \in X THEN At(d, <<n, y, Page>>) ELSE <<>>
            ELSE IF o = n /\ (g \/ y \in X) THEN <<>> ELSE At(d, <<o, y, Page>>)
    <3>1. TAKE o \in Spider, y \in SampleId
    <3>2. At(e, <<o, y, Page>>) = At(disk, <<o, y, Page>>)
      BY <1>6, Zenon
    <3>3. QED
      BY <3>2, Zenon DEF Between
  <2>5. QED
    BY <2>1, <2>2, <2>3, <2>4, Zenon DEF Between
<1>8. QED
  BY <1>1, <1>7

\* Nothing is left where the old sample was.
LEMMA BetweenDeleteSample ==
  ASSUME NEW d, NEW n \in Spider, NEW m \in Spider, n # m, NEW x \in SampleId,
         NEW X, NEW b, NEW Y, Between(d, disk, n, m, X, b, TRUE, Y)
  PROVE  Between(d, Files!Deleted(<<n, x>>), n, m, X, b, TRUE, Y)
<1>1. PICK e : e = Files!Deleted(<<n, x>>)
  OBVIOUS
<1>2. <<n, x>> \in Places /\ IsDisk(disk)
  BY DEF Between, Places
<1>3. Gone(disk, e, <<n, x>>)
  BY <1>1, <1>2, DeleteAt
<1>4. At(disk, <<n, x>>) = <<>> /\ At(disk, <<n, x, Page>>) = <<>>
  BY DEF Between
<1>5. \A o \in Spider : At(e, <<o>>) = At(disk, <<o>>)
  <2>1. \A o \in Spider : <<o>> \in Places /\ <<o>> # <<n, x>>
    BY Paths DEF Places
  <2>2. \A o \in Spider : ~Files!IsStrictPrefix(<<n, x>>, <<o>>)
    BY Prefixes
  <2>3. QED
    BY <1>3, <2>1, <2>2 DEF Gone
<1>6. \A o \in Spider, y \in SampleId :
        /\ At(e, <<o, y>>) = At(disk, <<o, y>>)
        /\ At(e, <<o, y, Page>>) = At(disk, <<o, y, Page>>)
  <2>1. \A o \in Spider, y \in SampleId :
          /\ <<o, y>> \in Places /\ (<<o, y>> = <<n, x>> <=> o = n /\ y = x)
          /\ <<o, y, Page>> \in Places /\ <<o, y, Page>> # <<n, x>>
    BY Paths, PlacesAre
  <2>2. \A o \in Spider, y \in SampleId :
          /\ ~Files!IsStrictPrefix(<<n, x>>, <<o, y>>)
          /\ Files!IsStrictPrefix(<<n, x>>, <<o, y, Page>>) <=> n = o /\ x = y
    BY SamplePrefixes
  <2>3. QED
    BY <1>3, <1>4, <2>1, <2>2 DEF Gone
<1>7. Between(d, e, n, m, X, b, TRUE, Y)
  <2>1. IsDisk(e)
    BY <1>3 DEF Gone
  <2>2. \A o \in Spider :
          At(e, <<o>>) = IF o = m THEN IF b THEN At(d, <<n>>) ELSE <<>>
                         ELSE IF o = n /\ TRUE THEN <<>> ELSE At(d, <<o>>)
    BY <1>5 DEF Between
  <2>3. \A o \in Spider, y \in SampleId :
          At(e, <<o, y>>) =
            IF o = m THEN IF y \in Y THEN At(d, <<n, y>>) ELSE <<>>
            ELSE IF o = n /\ TRUE THEN <<>> ELSE At(d, <<o, y>>)
    <3>1. TAKE o \in Spider, y \in SampleId
    <3>2. At(e, <<o, y>>) = At(disk, <<o, y>>)
      BY <1>6, Zenon
    <3>3. At(disk, <<o, y>>) =
            IF o = m THEN IF y \in Y THEN At(d, <<n, y>>) ELSE <<>>
            ELSE IF o = n /\ TRUE THEN <<>> ELSE At(d, <<o, y>>)
      BY Zenon DEF Between
    <3>4. QED
      BY <3>2, <3>3
  <2>4. \A o \in Spider, y \in SampleId :
          At(e, <<o, y, Page>>) =
            IF o = m THEN IF y \in X THEN At(d, <<n, y, Page>>) ELSE <<>>
            ELSE IF o = n /\ (TRUE \/ y \in X) THEN <<>> ELSE At(d, <<o, y, Page>>)
    <3>1. TAKE o \in Spider, y \in SampleId
    <3>2. At(e, <<o, y, Page>>) = At(disk, <<o, y, Page>>)
      BY <1>6, Zenon
    <3>3. QED
      BY <3>2, Zenon DEF Between
  <2>5. QED
    BY <2>1, <2>2, <2>3, <2>4, Zenon DEF Between
<1>8. QED
  BY <1>1, <1>7

(* The calls of a renaming, one by one.                                    *)

CallsAre(r, d, n, m, xs) ==
  LET k == Len(xs)
  IN  /\ r[2 * k + 1] = Files!Save(<<m>>, d[<<n>>])
      /\ r[2 * k + 2] = Files!Delete(<<n>>)
      /\ \A i \in 1..k :
           /\ r[2 * i - 1] = Files!Load(<<n, xs[i]>>)
           /\ r[2 * i] = Files!Move(<<n, xs[i]>>, <<m, xs[i]>>)
           /\ r[2 * k + 2 * i + 1] = Files!Save(<<m, xs[i]>>, d[<<n, xs[i]>>])
           /\ r[2 * k + 2 * i + 2] = Files!Delete(<<n, xs[i]>>)

LEMMA RenamesAt ==
  ASSUME NEW d, NEW n \in Spider, NEW m \in Spider, NEW xs \in Seq(SampleId)
  PROVE  /\ \E S : Renames(d, n, m, xs) \in Seq(S)
         /\ Len(Renames(d, n, m, xs)) = 4 * Len(xs) + 2
         /\ CallsAre(Renames(d, n, m, xs), d, n, m, xs)
<1> DEFINE k == Len(xs)
           M == Moves(n, m, xs)
           T == <<Files!Save(<<m>>, d[<<n>>]), Files!Delete(<<n>>)>>
           W == Rewrites(d, n, m, xs)
           r == Renames(d, n, m, xs)
<1>1. k \in Nat
  OBVIOUS
<1>2. PICK S1 : M \in Seq(S1)
  BY RenamesAreCalls
<1>3. PICK S2 : W \in Seq(S2)
  BY RenamesAreCalls
<1>4. PICK S : M \in Seq(S) /\ T \in Seq(S) /\ W \in Seq(S)
  <2> DEFINE S3 == {Files!Save(<<m>>, d[<<n>>]), Files!Delete(<<n>>)}
             SS == S1 \cup S2 \cup S3
  <2>1. T \in Seq(S3)
    OBVIOUS
  <2>2. S1 \subseteq SS /\ S2 \subseteq SS /\ S3 \subseteq SS
    OBVIOUS
  <2> HIDE DEF SS, S3
  <2>3. M \in Seq(SS) /\ T \in Seq(SS) /\ W \in Seq(SS)
    BY <1>2, <1>3, <2>1, <2>2, SeqMonotonic
  <2>4. QED
    BY <2>3
<1>5. Len(T) = 2 /\ T[1] = Files!Save(<<m>>, d[<<n>>]) /\ T[2] = Files!Delete(<<n>>)
  OBVIOUS
<1>6. Len(M) = 2 * k /\ Len(W) = 2 * k
  <2>1. DOMAIN M = 1..2 * k /\ DOMAIN W = 1..2 * k /\ 2 * k \in Nat
    BY <1>1 DEF Moves, Rewrites
  <2>2. QED
    BY <1>4, <2>1
<1>7. \A i \in 1..k : /\ 2 * i - 1 \in 1..2 * k /\ 2 * i \in 1..2 * k
                      /\ (2 * i - 1) % 2 = 1 /\ (2 * i) % 2 # 1
                      /\ (2 * i - 1 + 1) \div 2 = i /\ (2 * i) \div 2 = i
  BY <1>1
<1>8. \A i \in 1..k : /\ M[2 * i - 1] = Files!Load(<<n, xs[i]>>)
                      /\ M[2 * i] = Files!Move(<<n, xs[i]>>, <<m, xs[i]>>)
                      /\ W[2 * i - 1] = Files!Save(<<m, xs[i]>>, d[<<n, xs[i]>>])
                      /\ W[2 * i] = Files!Delete(<<n, xs[i]>>)
  BY <1>7 DEF Moves, Rewrites
<1> HIDE DEF M, T, W
<1>9. /\ M \o T \in Seq(S) /\ Len(M \o T) = 2 * k + 2
      /\ \A i \in 1..2 * k + 2 : (M \o T)[i] = IF i <= 2 * k THEN M[i] ELSE T[i - 2 * k]
  <2>1. /\ M \o T \in Seq(S) /\ Len(M \o T) = Len(M) + Len(T)
        /\ \A i \in 1..Len(M) + Len(T) :
             (M \o T)[i] = IF i <= Len(M) THEN M[i] ELSE T[i - Len(M)]
    BY <1>4, ConcatProperties
  <2>2. QED
    BY <1>1, <1>5, <1>6, <2>1
<1>10. r = (M \o T) \o W
  BY DEF Renames, M, T, W
<1>11. /\ r \in Seq(S) /\ Len(r) = 4 * k + 2
       /\ \A i \in 1..4 * k + 2 : r[i] = IF i <= 2 * k + 2 THEN (M \o T)[i] ELSE W[i - (2 * k + 2)]
  <2>1. /\ (M \o T) \o W \in Seq(S) /\ Len((M \o T) \o W) = Len(M \o T) + Len(W)
        /\ \A i \in 1..Len(M \o T) + Len(W) :
             ((M \o T) \o W)[i] = IF i <= Len(M \o T) THEN (M \o T)[i] ELSE W[i - Len(M \o T)]
    <3>1. \A s, t \in Seq(S) :
             /\ s \o t \in Seq(S) /\ Len(s \o t) = Len(s) + Len(t)
             /\ \A i \in 1..Len(s) + Len(t) : (s \o t)[i] = IF i <= Len(s) THEN s[i] ELSE t[i - Len(s)]
      BY ConcatProperties, Zenon
    <3>2. M \o T \in Seq(S) /\ W \in Seq(S)
      BY <1>4, <1>9
    <3>3. QED
      BY <3>1, <3>2, Zenon
  <2>2. Len(M \o T) + Len(W) = 4 * k + 2
    BY <1>1, <1>6, <1>9
  <2>3. QED
    BY <1>9, <1>10, <2>1, <2>2
<1> HIDE DEF r
<1>12. r[2 * k + 1] = T[1] /\ r[2 * k + 2] = T[2]
  <2>1. /\ 2 * k + 1 \in 1..4 * k + 2 /\ 2 * k + 2 \in 1..4 * k + 2
        /\ 2 * k + 1 \in 1..2 * k + 2 /\ 2 * k + 2 \in 1..2 * k + 2
        /\ ~(2 * k + 1 <= 2 * k) /\ ~(2 * k + 2 <= 2 * k)
        /\ (2 * k + 1) - 2 * k = 1 /\ (2 * k + 2) - 2 * k = 2
    BY <1>1
  <2>2. r[2 * k + 1] = (M \o T)[2 * k + 1] /\ r[2 * k + 2] = (M \o T)[2 * k + 2]
    <3>1. 2 * k + 1 <= 2 * k + 2 /\ 2 * k + 2 <= 2 * k + 2
      BY <1>1
    <3>2. QED
      BY <1>11, <2>1, <3>1
  <2>3. (M \o T)[2 * k + 1] = T[(2 * k + 1) - 2 * k] /\ (M \o T)[2 * k + 2] = T[(2 * k + 2) - 2 * k]
    BY <1>9, <2>1
  <2>4. QED
    BY <2>1, <2>2, <2>3
<1>13. ASSUME NEW i \in 1..k
       PROVE  /\ r[2 * i - 1] = M[2 * i - 1] /\ r[2 * i] = M[2 * i]
              /\ r[2 * k + 2 * i + 1] = W[2 * i - 1] /\ r[2 * k + 2 * i + 2] = W[2 * i]
  <2>1. /\ 2 * i - 1 \in 1..2 * k + 2 /\ 2 * i \in 1..2 * k + 2
        /\ 2 * i - 1 <= 2 * k /\ 2 * i <= 2 * k
        /\ 2 * i - 1 \in 1..4 * k + 2 /\ 2 * i \in 1..4 * k + 2
        /\ 2 * k + 2 * i + 1 \in 1..4 * k + 2 /\ 2 * k + 2 * i + 2 \in 1..4 * k + 2
        /\ ~(2 * k + 2 * i + 1 <= 2 * k + 2) /\ ~(2 * k + 2 * i + 2 <= 2 * k + 2)
        /\ (2 * k + 2 * i + 1) - (2 * k + 2) = 2 * i - 1
        /\ (2 * k + 2 * i + 2) - (2 * k + 2) = 2 * i
    BY <1>1
  <2>2. r[2 * i - 1] = (M \o T)[2 * i - 1] /\ r[2 * i] = (M \o T)[2 * i]
    <3>1. 2 * i - 1 <= 2 * k + 2 /\ 2 * i <= 2 * k + 2
      BY <1>1
    <3>2. QED
      BY <1>11, <2>1, <3>1
  <2>3. (M \o T)[2 * i - 1] = M[2 * i - 1] /\ (M \o T)[2 * i] = M[2 * i]
    BY <1>9, <2>1
  <2>4. /\ r[2 * k + 2 * i + 1] = W[(2 * k + 2 * i + 1) - (2 * k + 2)]
        /\ r[2 * k + 2 * i + 2] = W[(2 * k + 2 * i + 2) - (2 * k + 2)]
    BY <1>11, <2>1
  <2>5. QED
    BY <2>1, <2>2, <2>3, <2>4
<1>14. CallsAre(r, d, n, m, xs)
  BY <1>5, <1>8, <1>12, <1>13 DEF CallsAre
<1>15. QED
  BY <1>11, <1>14 DEF r

LEMMA CallNumbers ==
  ASSUME NEW k \in Nat, NEW j \in 1..4 * k + 2
  PROVE  \/ j = 2 * k + 1 \/ j = 2 * k + 2
         \/ \E i \in 1..k : j = 2 * i - 1 \/ j = 2 * i
         \/ \E i \in 1..k : j = 2 * k + 2 * i + 1 \/ j = 2 * k + 2 * i + 2
<1>1. CASE j <= 2 * k
  <2>1. j % 2 = 1 => (j + 1) \div 2 \in 1..k /\ j = 2 * ((j + 1) \div 2) - 1
    BY <1>1, Halves
  <2>2. j % 2 # 1 => j \div 2 \in 1..k /\ j = 2 * (j \div 2)
    BY <1>1, Halves
  <2>3. QED
    BY <2>1, <2>2
<1>2. CASE j > 2 * k + 2
  <2> DEFINE l == j - (2 * k + 2)
  <2>1. l \in 1..2 * k /\ j = 2 * k + 2 + l
    BY <1>2
  <2> HIDE DEF l
  <2>2. l % 2 = 1 => (l + 1) \div 2 \in 1..k /\ l = 2 * ((l + 1) \div 2) - 1
    BY <2>1, Halves
  <2>3. l % 2 # 1 => l \div 2 \in 1..k /\ l = 2 * (l \div 2)
    BY <2>1, Halves
  <2>4. QED
    BY <2>1, <2>2, <2>3
<1>3. QED
  BY <1>1, <1>2

\* What is done before call j of a renaming, and what comes of a call.
PagesMoved(xs, j) == {xs[i] : i \in {h \in 1..Len(xs) : 2 * h < j}}
SavedAgain(xs, j) == {xs[i] : i \in {h \in 1..Len(xs) : 2 * Len(xs) + 2 * h + 1 < j}}

RenamingAt(d, e, n, m, xs, j) ==
  Between(d, e, n, m, PagesMoved(xs, j), j > 2 * Len(xs) + 1, j > 2 * Len(xs) + 2,
          SavedAgain(xs, j))

Effect(c, e) == /\ c.do = "load" => e = disk
                /\ c.do = "save" => e = Files!Saved(c.at, c.with)
                /\ c.do = "delete" => e = Files!Deleted(c.at)
                /\ c.do = "move" => e = Files!Moved(c.at, c.to)

LEMMA DoneBefore ==
  ASSUME NEW xs \in Seq(SampleId), NEW j \in 1..4 * Len(xs) + 2
  PROVE  LET k == Len(xs)
             X == PagesMoved(xs, j)
             Y == SavedAgain(xs, j)
             X1 == PagesMoved(xs, j + 1)
             Y1 == SavedAgain(xs, j + 1)
         IN  /\ \A i \in 1..k : j = 2 * i - 1 => X1 = X /\ Y1 = Y
             /\ \A i \in 1..k : j = 2 * i => X1 = X \cup {xs[i]} /\ Y1 = Y
             /\ j = 2 * k + 1 \/ j = 2 * k + 2 => X1 = X /\ Y1 = Y
             /\ \A i \in 1..k : j = 2 * k + 2 * i + 1 => X1 = X /\ Y1 = Y \cup {xs[i]}
             /\ \A i \in 1..k : j = 2 * k + 2 * i + 2 => X1 = X /\ Y1 = Y
<1> DEFINE k == Len(xs)
           P(l) == {h \in 1..k : 2 * h < l}
           Q(l) == {h \in 1..k : 2 * k + 2 * h + 1 < l}
<1>1. k \in Nat /\ j \in Nat
  OBVIOUS
<1>2. \A i \in 1..k : j = 2 * i - 1 => P(j + 1) = P(j) /\ Q(j + 1) = Q(j)
  BY <1>1
<1>3. \A i \in 1..k : j = 2 * i => P(j + 1) = P(j) \cup {i} /\ Q(j + 1) = Q(j)
  BY <1>1
<1>4. j = 2 * k + 1 \/ j = 2 * k + 2 => P(j + 1) = P(j) /\ Q(j + 1) = Q(j)
  BY <1>1
<1>5. \A i \in 1..k : j = 2 * k + 2 * i + 1 => P(j + 1) = P(j) /\ Q(j + 1) = Q(j) \cup {i}
  BY <1>1
<1>6. \A i \in 1..k : j = 2 * k + 2 * i + 2 => P(j + 1) = P(j) /\ Q(j + 1) = Q(j)
  BY <1>1
<1>7. /\ PagesMoved(xs, j) = {xs[i] : i \in P(j)} /\ PagesMoved(xs, j + 1) = {xs[i] : i \in P(j + 1)}
      /\ SavedAgain(xs, j) = {xs[i] : i \in Q(j)} /\ SavedAgain(xs, j + 1) = {xs[i] : i \in Q(j + 1)}
  BY DEF PagesMoved, SavedAgain
<1> HIDE DEF P, Q
<1>8. QED
  BY <1>2, <1>3, <1>4, <1>5, <1>6, <1>7

LEMMA RenamingStep ==
  ASSUME NEW d, NEW n \in Spider, NEW m \in Spider, n # m, At(d, <<n>>) # <<>>,
         NEW xs \in Seq(SampleId), NEW j \in 1..4 * Len(xs) + 2,
         \A i \in 1..Len(xs) : At(d, <<n, xs[i]>>) # <<>>,
         \A i, l \in 1..Len(xs) : xs[i] = xs[l] => i = l,
         RenamingAt(d, disk, n, m, xs, j),
         NEW c, c = Renames(d, n, m, xs)[j], ~Files!Raises(c),
         NEW e, Effect(c, e)
  PROVE  RenamingAt(d, e, n, m, xs, j + 1)
<1> DEFINE k == Len(xs)
           X == PagesMoved(xs, j)
           Y == SavedAgain(xs, j)
           X1 == PagesMoved(xs, j + 1)
           Y1 == SavedAgain(xs, j + 1)
           Done == Between(d, e, n, m, X1, j + 1 > 2 * k + 1, j + 1 > 2 * k + 2, Y1)
<1>1. k \in Nat /\ j \in Nat /\ \A i \in 1..k : xs[i] \in SampleId
  OBVIOUS
<1> DEFINE r == Renames(d, n, m, xs)
<1>2. /\ r[2 * k + 1] = Files!Save(<<m>>, d[<<n>>])
      /\ r[2 * k + 2] = Files!Delete(<<n>>)
      /\ \A i \in 1..k :
           /\ r[2 * i - 1] = Files!Load(<<n, xs[i]>>)
           /\ r[2 * i] = Files!Move(<<n, xs[i]>>, <<m, xs[i]>>)
           /\ r[2 * k + 2 * i + 1] = Files!Save(<<m, xs[i]>>, d[<<n, xs[i]>>])
           /\ r[2 * k + 2 * i + 2] = Files!Delete(<<n, xs[i]>>)
  <2>1. CallsAre(r, d, n, m, xs)
    BY RenamesAt
  <2>2. QED
    BY <2>1 DEF CallsAre
<1>3. c = r[j]
  OBVIOUS
<1>4. /\ \A i \in 1..k : j = 2 * i - 1 => X1 = X /\ Y1 = Y
      /\ \A i \in 1..k : j = 2 * i => X1 = X \cup {xs[i]} /\ Y1 = Y
      /\ j = 2 * k + 1 \/ j = 2 * k + 2 => X1 = X /\ Y1 = Y
      /\ \A i \in 1..k : j = 2 * k + 2 * i + 1 => X1 = X /\ Y1 = Y \cup {xs[i]}
      /\ \A i \in 1..k : j = 2 * k + 2 * i + 2 => X1 = X /\ Y1 = Y
  BY DoneBefore
<1> HIDE DEF r, X1, Y1
<1>5. Between(d, disk, n, m, X, j > 2 * k + 1, j > 2 * k + 2, Y)
  BY DEF RenamingAt
<1>6. SUFFICES Done
  BY DEF RenamingAt, X1, Y1
<1>7. ASSUME NEW i \in 1..k, j = 2 * i - 1
      PROVE  Done
  <2>1. c = Files!Load(<<n, xs[i]>>)
    BY <1>7, <1>2, <1>3
  <2>2. e = disk
    BY <2>1 DEF Effect, Files!Load
  <2>3. X1 = X /\ Y1 = Y
    BY <1>7, <1>4
  <2>4. /\ (j > 2 * k + 1) = FALSE /\ (j > 2 * k + 2) = FALSE
        /\ (j + 1 > 2 * k + 1) = FALSE /\ (j + 1 > 2 * k + 2) = FALSE
    BY <1>1, <1>7
  <2> HIDE DEF k, X, Y, X1, Y1
  <2>5. Between(d, disk, n, m, X, FALSE, FALSE, Y)
    BY <1>5, <2>4, Zenon
  <2>6. QED
    BY <2>2, <2>3, <2>4, <2>5, Zenon
<1>8. ASSUME NEW i \in 1..k, j = 2 * i
      PROVE  Done
  <2> DEFINE x == xs[i]
  <2>1. c = Files!Move(<<n, x>>, <<m, x>>) /\ x \in SampleId
    BY <1>1, <1>8, <1>2, <1>3
  <2>2. e = Files!Moved(<<n, x>>, <<m, x>>)
    BY <2>1 DEF Effect, Files!Move
  <2>3. X1 = X \cup {x} /\ Y1 = Y
    BY <1>8, <1>4
  <2>4. /\ (j > 2 * k + 1) = FALSE /\ (j > 2 * k + 2) = FALSE
        /\ (j + 1 > 2 * k + 1) = FALSE /\ (j + 1 > 2 * k + 2) = FALSE
    BY <1>1, <1>8
  <2>5. x \notin X
    BY <1>1, <1>8 DEF PagesMoved
  <2>6. At(disk, <<n, x, Page>>) # <<>>
    <3>1. Files!Under(disk, <<n, x>>) # {}
      BY <2>1 DEF Files!Raises, Files!Move
    <3>2. IsDisk(disk)
      BY <1>5 DEF Between
    <3>3. QED
      BY <2>1, <3>1, <3>2, UnderSample
  <2> HIDE DEF k, X, Y, X1, Y1, x
  <2>7. Between(d, disk, n, m, X, FALSE, FALSE, Y)
    BY <1>5, <2>4, Zenon
  <2>8. Between(d, e, n, m, X \cup {x}, FALSE, FALSE, Y)
    BY <2>1, <2>2, <2>5, <2>6, <2>7, BetweenMove
  <2>9. QED
    BY <2>3, <2>4, <2>8, Zenon
<1>9. CASE j = 2 * k + 1
  <2>1. c = Files!Save(<<m>>, d[<<n>>])
    BY <1>9, <1>2, <1>3
  <2>2. e = Files!Saved(<<m>>, d[<<n>>])
    BY <2>1 DEF Effect, Files!Save
  <2>3. X1 = X /\ Y1 = Y
    BY <1>9, <1>4
  <2>4. /\ (j > 2 * k + 1) = FALSE /\ (j > 2 * k + 2) = FALSE
        /\ (j + 1 > 2 * k + 1) = TRUE /\ (j + 1 > 2 * k + 2) = FALSE
    BY <1>1, <1>9
  <2> HIDE DEF k, X, Y, X1, Y1
  <2>5. Between(d, disk, n, m, X, FALSE, FALSE, Y)
    BY <1>5, <2>4, Zenon
  <2>6. Between(d, e, n, m, X, TRUE, FALSE, Y)
    BY <2>2, <2>5, BetweenSave
  <2>7. QED
    BY <2>3, <2>4, <2>6, Zenon
<1>10. CASE j = 2 * k + 2
  <2>1. c = Files!Delete(<<n>>)
    BY <1>10, <1>2, <1>3
  <2>2. e = Files!Deleted(<<n>>)
    BY <2>1 DEF Effect, Files!Delete
  <2>3. X1 = X /\ Y1 = Y
    BY <1>10, <1>4
  <2>4. /\ (j > 2 * k + 1) = TRUE /\ (j > 2 * k + 2) = FALSE
        /\ (j + 1 > 2 * k + 1) = TRUE /\ (j + 1 > 2 * k + 2) = TRUE
    BY <1>1, <1>10
  <2> HIDE DEF k, X, Y, X1, Y1
  <2>5. Between(d, disk, n, m, X, TRUE, FALSE, Y)
    BY <1>5, <2>4, Zenon
  <2>6. Between(d, e, n, m, X, TRUE, TRUE, Y)
    BY <2>2, <2>5, BetweenDelete
  <2>7. QED
    BY <2>3, <2>4, <2>6, Zenon
<1>11. ASSUME NEW i \in 1..k, j = 2 * k + 2 * i + 1
      PROVE  Done
  <2> DEFINE x == xs[i]
  <2>1. c = Files!Save(<<m, x>>, d[<<n, x>>]) /\ x \in SampleId /\ At(d, <<n, x>>) # <<>>
    BY <1>1, <1>11, <1>2, <1>3
  <2>2. e = Files!Saved(<<m, x>>, d[<<n, x>>])
    BY <2>1 DEF Effect, Files!Save
  <2>3. X1 = X /\ Y1 = Y \cup {x}
    BY <1>11, <1>4
  <2>4. /\ (j > 2 * k + 1) = TRUE /\ (j > 2 * k + 2) = TRUE
        /\ (j + 1 > 2 * k + 1) = TRUE /\ (j + 1 > 2 * k + 2) = TRUE
    BY <1>1, <1>11
  <2> HIDE DEF k, X, Y, X1, Y1, x
  <2>5. Between(d, disk, n, m, X, TRUE, TRUE, Y)
    BY <1>5, <2>4, Zenon
  <2>6. Between(d, e, n, m, X, TRUE, TRUE, Y \cup {x})
    BY <2>1, <2>2, <2>5, BetweenSaveSample
  <2>7. QED
    BY <2>3, <2>4, <2>6, Zenon
<1>12. ASSUME NEW i \in 1..k, j = 2 * k + 2 * i + 2
      PROVE  Done
  <2> DEFINE x == xs[i]
  <2>1. c = Files!Delete(<<n, x>>) /\ x \in SampleId
    BY <1>1, <1>12, <1>2, <1>3
  <2>2. e = Files!Deleted(<<n, x>>)
    BY <2>1 DEF Effect, Files!Delete
  <2>3. X1 = X /\ Y1 = Y
    BY <1>12, <1>4
  <2>4. /\ (j > 2 * k + 1) = TRUE /\ (j > 2 * k + 2) = TRUE
        /\ (j + 1 > 2 * k + 1) = TRUE /\ (j + 1 > 2 * k + 2) = TRUE
    BY <1>1, <1>12
  <2> HIDE DEF k, X, Y, X1, Y1, x
  <2>5. Between(d, disk, n, m, X, TRUE, TRUE, Y)
    BY <1>5, <2>4, Zenon
  <2>6. Between(d, e, n, m, X, TRUE, TRUE, Y)
    BY <2>1, <2>2, <2>5, BetweenDeleteSample
  <2>7. QED
    BY <2>3, <2>4, <2>6, Zenon
<1>13. QED
  BY <1>1, <1>7, <1>8, <1>9, <1>10, <1>11, <1>12, CallNumbers

(* While a request that has not failed is under way, the calls it has left *)
(* and the disk are what is left of it and what was done of it.            *)

Editing ==
  \E p \in Places, c \in FileData :
    Placed(before, p) /\ fileTodo = <<Files!Save(p, c)>> /\ disk = before

Adding ==
  \E n \in Spider, x \in SampleId, c \in FileData :
    LET sample == Files!Save(<<n, x>>, c)
        spider == Files!Save(<<n>>, before[<<n>>])
    IN  /\ At(before, <<n>>) # <<>>
        /\ \/ fileTodo = <<sample, spider, sample>> /\ disk = before
           \/ /\ fileTodo = <<spider, sample>> \/ fileTodo = <<sample>>
              /\ Put(before, disk, <<n, x>>, c)

RemovingSample ==
  \E n \in Spider, x \in SampleId :
    LET sample == Files!Delete(<<n, x>>)
        page == Files!Delete(<<n, x, Page>>)
        spider == Files!Save(<<n>>, before[<<n>>])
    IN  /\ At(before, <<n>>) # <<>> /\ At(before, <<n, x>>) # <<>>
        /\ \/ fileTodo = <<sample, page, spider>> /\ disk = before
           \/ /\ fileTodo = <<page, spider>> \/ fileTodo = <<spider>>
              /\ Gone(before, disk, <<n, x>>)

Deletions(s, n) ==
  /\ \E S : s \in Seq(S)
  /\ \A i \in 1..Len(s) : \E x \in SampleId : s[i] = Files!Delete(<<n, x>>)

RemovingSpider ==
  \E n \in Spider :
    /\ At(before, <<n>>) # <<>> /\ fileTodo # <<>>
    /\ \/ /\ disk = before /\ fileTodo[1] = Files!Delete(<<n>>)
          /\ \E S : fileTodo \in Seq(S)
          /\ Deletions(Tail(fileTodo), n)
       \/ Gone(before, disk, <<n>>) /\ Deletions(fileTodo, n)

Renaming ==
  \E n, m \in Spider, xs \in Seq(SampleId) :
    /\ At(before, <<n>>) # <<>> /\ At(before, <<m>>) = <<>>
    /\ {xs[i] : i \in 1..Len(xs)} = Files!SamplesIn(before, n)
    /\ \A i, l \in 1..Len(xs) : xs[i] = xs[l] => i = l
    /\ \E j \in 1..4 * Len(xs) + 2 :
         /\ fileTodo = SubSeq(Renames(before, n, m, xs), j, 4 * Len(xs) + 2)
         /\ RenamingAt(before, disk, n, m, xs, j)

Progress == IF fileTodo = <<>> THEN disk = before
            ELSE Editing \/ Adding \/ RemovingSample \/ RemovingSpider \/ Renaming

OnceInv == ~fileFailed => Tidy(before) /\ Progress

Finish == /\ fileTodo' = <<>> /\ disk' = before'
          /\ Tidy(before') /\ Files!Promised!Request

LEMMA StepIs ==
  ASSUME NEW S, fileTodo \in Seq(S), Files!Step, ~fileFailed'
  PROVE  /\ fileTodo # <<>> /\ ~fileFailed
         /\ ~Files!Raises(fileTodo[1]) /\ Effect(fileTodo[1], disk')
         /\ Len(fileTodo) = 1 => fileTodo' = <<>> /\ before' = disk'
         /\ Len(fileTodo) # 1 => fileTodo' = Tail(fileTodo) /\ before' = before
<1> DEFINE c == Head(fileTodo)
<1>1. fileTodo # <<>> /\ c = fileTodo[1]
  BY DEF Files!Step
<1>2. /\ disk' = CASE Files!Raises(c)   -> disk
                   [] c.do = "save"   -> Files!Saved(c.at, c.with)
                   [] c.do = "delete" -> Files!Deleted(c.at)
                   [] c.do = "move" /\ ~Files!Raises(c) -> Files!Moved(c.at, c.to)
                   [] OTHER           -> disk
      /\ IF Files!Raises(c) \/ Len(fileTodo) = 1
         THEN Files!End(Files!Raises(c))
         ELSE fileTodo' = Tail(fileTodo) /\ UNCHANGED <<before, request, fileFailed>>
  BY DEF Files!Step, c
<1> HIDE DEF c
<1>3. ~Files!Raises(c) /\ ~fileFailed
  BY <1>2 DEF Files!End
<1>4. Effect(c, disk')
  <2>1. c.do = "load" => disk' = disk
    BY <1>2, <1>3
  <2>2. c.do = "save" => disk' = Files!Saved(c.at, c.with)
    BY <1>2, <1>3
  <2>3. c.do = "delete" => disk' = Files!Deleted(c.at)
    BY <1>2, <1>3
  <2>4. c.do = "move" => disk' = Files!Moved(c.at, c.to)
    BY <1>2, <1>3
  <2>5. QED
    BY <2>1, <2>2, <2>3, <2>4 DEF Effect
<1>5. QED
  BY <1>1, <1>2, <1>3, <1>4 DEF Files!End

LEMMA EffectOfSave ==
  ASSUME NEW p \in Places, NEW v, IsDisk(disk), NEW e, Effect(Files!Save(p, v), e)
  PROVE  Put(disk, e, p, v)
<1>1. e = Files!Saved(p, v)
  BY DEF Effect, Files!Save
<1>2. QED
  BY <1>1, SaveAt

LEMMA EffectOfDelete ==
  ASSUME NEW p \in Places, IsDisk(disk), NEW e, Effect(Files!Delete(p), e)
  PROVE  Gone(disk, e, p)
<1>1. e = Files!Deleted(p)
  BY DEF Effect, Files!Delete
<1>2. QED
  BY <1>1, DeleteAt

LEMMA EditingStep ==
  ASSUME Tidy(before), Editing, Files!Step, ~fileFailed'
  PROVE  Finish
<1>1. PICK p \in Places, c \in FileData :
        Placed(before, p) /\ fileTodo = <<Files!Save(p, c)>> /\ disk = before
  BY DEF Editing
<1>2. fileTodo \in Seq({Files!Save(p, c)}) /\ Len(fileTodo) = 1 /\ fileTodo[1] = Files!Save(p, c)
  BY <1>1
<1>3. Effect(Files!Save(p, c), disk') /\ fileTodo' = <<>> /\ before' = disk'
  BY <1>2, StepIs
<1>4. Put(disk, disk', p, c)
  BY <1>1, <1>3, EffectOfSave DEF Tidy
<1>5. Put(before, before', p, c)
  BY <1>1, <1>3, <1>4
<1>6. QED
  BY <1>1, <1>3, <1>5, PutIsARequest DEF Finish

\* Writing what is there already changes nothing.
LEMMA PutAgain ==
  ASSUME NEW d, NEW e, NEW f, NEW p, NEW c, NEW q, NEW v,
         Put(d, e, p, c), Put(e, f, q, v),
         (q = p /\ v = c) \/ (q # p /\ At(d, q) = <<v>>)
  PROVE  Put(d, f, p, c)
BY DEF Put

LEMMA AddingStep ==
  ASSUME Tidy(before), Adding, Files!Step, ~fileFailed'
  PROVE  Finish \/ (before' = before /\ fileTodo' # <<>> /\ Adding')
<1> DEFINE sample(n, x, c) == Files!Save(<<n, x>>, c)
           spider(n) == Files!Save(<<n>>, before[<<n>>])
<1>1. PICK n \in Spider, x \in SampleId, c \in FileData :
        /\ At(before, <<n>>) # <<>>
        /\ \/ fileTodo = <<sample(n, x, c), spider(n), sample(n, x, c)>> /\ disk = before
           \/ /\ fileTodo = <<spider(n), sample(n, x, c)>> \/ fileTodo = <<sample(n, x, c)>>
              /\ Put(before, disk, <<n, x>>, c)
  BY DEF Adding
<1>2. <<n, x>> \in Places /\ <<n>> \in Places /\ <<n>> # <<n, x>> /\ Placed(before, <<n, x>>)
  BY <1>1, PlacesAre, Paths DEF Placed
<1>3. At(before, <<n>>) = <<before[<<n>>]>>
  BY <1>1, AtIs
<1> DEFINE a == sample(n, x, c)
           b == spider(n)
<1>4. CASE fileTodo = <<a, b, a>> /\ disk = before
  <2>1. /\ fileTodo \in Seq({a, b}) /\ Len(fileTodo) # 1 /\ fileTodo[1] = a
        /\ Tail(fileTodo) = <<b, a>>
    BY <1>4
  <2>2. Effect(a, disk') /\ fileTodo' = <<b, a>> /\ before' = before
    BY <2>1, StepIs
  <2>3. Put(disk, disk', <<n, x>>, c)
    BY <1>2, <1>4, <2>2, EffectOfSave DEF Tidy
  <2>4. Put(before, disk', <<n, x>>, c)
    BY <1>4, <2>3
  <2>5. Adding'
    BY <1>1, <2>2, <2>4 DEF Adding
  <2>6. QED
    BY <2>2, <2>5
<1>5. CASE fileTodo = <<b, a>> /\ Put(before, disk, <<n, x>>, c)
  <2>1. /\ fileTodo \in Seq({a, b}) /\ Len(fileTodo) # 1 /\ fileTodo[1] = b
        /\ Tail(fileTodo) = <<a>>
    BY <1>5
  <2>2. Effect(b, disk') /\ fileTodo' = <<a>> /\ before' = before
    BY <2>1, StepIs
  <2>3. Put(disk, disk', <<n>>, before[<<n>>])
    BY <1>2, <1>5, <2>2, EffectOfSave DEF Put
  <2>4. Put(before, disk', <<n, x>>, c)
    BY <1>2, <1>3, <1>5, <2>3, PutAgain
  <2>5. Adding'
    BY <1>1, <2>2, <2>4 DEF Adding
  <2>6. QED
    BY <2>2, <2>5
<1>6. CASE fileTodo = <<a>> /\ Put(before, disk, <<n, x>>, c)
  <2>1. fileTodo \in Seq({a}) /\ Len(fileTodo) = 1 /\ fileTodo[1] = a
    BY <1>6
  <2>2. Effect(a, disk') /\ fileTodo' = <<>> /\ before' = disk'
    BY <2>1, StepIs
  <2>3. Put(disk, disk', <<n, x>>, c)
    BY <1>2, <1>6, <2>2, EffectOfSave DEF Put
  <2>4. Put(before, disk', <<n, x>>, c)
    BY <1>6, <2>3 DEF Put
  <2>5. Put(before, before', <<n, x>>, c)
    BY <2>2, <2>4
  <2>6. QED
    BY <1>2, <2>2, <2>5, PutIsARequest DEF Finish
<1>7. QED
  BY <1>1, <1>4, <1>5, <1>6

LEMMA RemovingSampleStep ==
  ASSUME Tidy(before), RemovingSample, Files!Step, ~fileFailed'
  PROVE  Finish \/ (before' = before /\ fileTodo' # <<>> /\ RemovingSample')
<1> DEFINE sample(n, x) == Files!Delete(<<n, x>>)
           page(n, x) == Files!Delete(<<n, x, Page>>)
           spider(n) == Files!Save(<<n>>, before[<<n>>])
<1>1. PICK n \in Spider, x \in SampleId :
        /\ At(before, <<n>>) # <<>> /\ At(before, <<n, x>>) # <<>>
        /\ \/ fileTodo = <<sample(n, x), page(n, x), spider(n)>> /\ disk = before
           \/ /\ fileTodo = <<page(n, x), spider(n)>> \/ fileTodo = <<spider(n)>>
              /\ Gone(before, disk, <<n, x>>)
  BY DEF RemovingSample
<1>2. /\ <<n, x>> \in Places /\ <<n>> \in Places /\ <<n, x, Page>> \in Places
      /\ <<n>> # <<n, x>> /\ ~Files!IsStrictPrefix(<<n, x>>, <<n>>)
  BY PlacesAre, Paths, Prefixes
<1>3. At(before, <<n>>) = <<before[<<n>>]>>
  BY <1>1, AtIs
<1> DEFINE a == sample(n, x)
           b == page(n, x)
           c == spider(n)
<1>4. CASE fileTodo = <<a, b, c>> /\ disk = before
  <2>1. /\ fileTodo \in Seq({a, b, c}) /\ Len(fileTodo) # 1 /\ fileTodo[1] = a
        /\ Tail(fileTodo) = <<b, c>>
    BY <1>4
  <2>2. Effect(a, disk') /\ fileTodo' = <<b, c>> /\ before' = before
    BY <2>1, StepIs
  <2>3. Gone(disk, disk', <<n, x>>)
    BY <1>2, <1>4, <2>2, EffectOfDelete DEF Tidy
  <2>4. Gone(before, disk', <<n, x>>)
    BY <1>4, <2>3
  <2>5. RemovingSample'
    BY <1>1, <2>2, <2>4 DEF RemovingSample
  <2>6. QED
    BY <2>2, <2>5
<1>5. CASE fileTodo = <<b, c>> /\ Gone(before, disk, <<n, x>>)
  <2>1. /\ fileTodo \in Seq({b, c}) /\ Len(fileTodo) # 1 /\ fileTodo[1] = b
        /\ Tail(fileTodo) = <<c>>
    BY <1>5
  <2>2. Effect(b, disk') /\ fileTodo' = <<c>> /\ before' = before
    BY <2>1, StepIs
  <2>3. Gone(disk, disk', <<n, x, Page>>)
    BY <1>2, <1>5, <2>2, EffectOfDelete DEF Gone
  <2>4. \A q \in Places : q = <<n, x, Page>> \/ Files!IsStrictPrefix(<<n, x, Page>>, q) =>
                            Files!IsStrictPrefix(<<n, x>>, q)
    <3>1. Files!IsStrictPrefix(<<n, x>>, <<n, x, Page>>)
      BY Prefixes
    <3>2. \A q \in Places : ~Files!IsStrictPrefix(<<n, x, Page>>, q)
      <4>1. \A o \in Spider : ~Files!IsStrictPrefix(<<n, x, Page>>, <<o>>)
        BY Prefixes
      <4>2. \A o \in Spider, y \in SampleId :
              /\ ~Files!IsStrictPrefix(<<n, x, Page>>, <<o, y>>)
              /\ ~Files!IsStrictPrefix(<<n, x, Page>>, <<o, y, Page>>)
        BY Prefixes
      <4>3. QED
        BY <4>1, <4>2, PlaceIs
    <3>3. QED
      BY <3>1, <3>2
  <2>5. Gone(before, disk', <<n, x>>)
    BY <1>5, <2>3, <2>4 DEF Gone
  <2>6. RemovingSample'
    BY <1>1, <2>2, <2>5 DEF RemovingSample
  <2>7. QED
    BY <2>2, <2>6
<1>6. CASE fileTodo = <<c>> /\ Gone(before, disk, <<n, x>>)
  <2>1. fileTodo \in Seq({c}) /\ Len(fileTodo) = 1 /\ fileTodo[1] = c
    BY <1>6
  <2>2. Effect(c, disk') /\ fileTodo' = <<>> /\ before' = disk'
    BY <2>1, StepIs
  <2>3. Put(disk, disk', <<n>>, before[<<n>>])
    BY <1>2, <1>6, <2>2, EffectOfSave DEF Gone
  <2>4. Gone(before, disk', <<n, x>>)
    BY <1>2, <1>3, <1>6, <2>3 DEF Gone, Put
  <2>5. Gone(before, before', <<n, x>>)
    BY <2>2, <2>4
  <2>6. QED
    BY <1>1, <2>2, <2>5, GoneIsARequest DEF Finish
<1>7. QED
  BY <1>1, <1>4, <1>5, <1>6

LEMMA RemovingSpiderStep ==
  ASSUME Tidy(before), RemovingSpider, Files!Step, ~fileFailed'
  PROVE  Finish \/ (before' = before /\ fileTodo' # <<>> /\ RemovingSpider')
<1>1. PICK n \in Spider :
        /\ At(before, <<n>>) # <<>> /\ fileTodo # <<>>
        /\ \/ /\ disk = before /\ fileTodo[1] = Files!Delete(<<n>>)
              /\ \E S : fileTodo \in Seq(S)
              /\ Deletions(Tail(fileTodo), n)
           \/ Gone(before, disk, <<n>>) /\ Deletions(fileTodo, n)
  BY DEF RemovingSpider
<1>2. PICK S : fileTodo \in Seq(S)
  BY <1>1 DEF Deletions
<1>3. Len(fileTodo) \in Nat /\ Len(fileTodo) >= 1 /\ 1 \in 1..Len(fileTodo)
  BY <1>1, <1>2
<1>4. Deletions(Tail(fileTodo), n)
  <2>1. CASE Deletions(fileTodo, n)
    <3>1. Tail(fileTodo) \in Seq(S) /\ Len(Tail(fileTodo)) = Len(fileTodo) - 1
      BY <1>1, <1>2
    <3>2. \A i \in 1..Len(Tail(fileTodo)) : Tail(fileTodo)[i] = fileTodo[i + 1]
                                           /\ i + 1 \in 1..Len(fileTodo)
      BY <1>1, <1>2, <3>1
    <3>3. QED
      BY <2>1, <3>1, <3>2 DEF Deletions
  <2>2. QED
    BY <1>1, <2>1
<1>5. <<n>> \in Places /\ \A x \in SampleId : <<n, x>> \in Places
  BY DEF Places
<1>6. Gone(before, disk', <<n>>)
  <2>1. Effect(fileTodo[1], disk')
    BY <1>2, StepIs
  <2>2. CASE disk = before /\ fileTodo[1] = Files!Delete(<<n>>)
    <3>1. Gone(disk, disk', <<n>>)
      BY <1>5, <2>1, <2>2, EffectOfDelete DEF Tidy
    <3>2. QED
      BY <2>2, <3>1
  <2>3. CASE Gone(before, disk, <<n>>) /\ Deletions(fileTodo, n)
    <3>1. PICK x \in SampleId : fileTodo[1] = Files!Delete(<<n, x>>)
      BY <1>3, <2>3 DEF Deletions
    <3>2. Gone(disk, disk', <<n, x>>)
      BY <1>5, <2>1, <2>3, <3>1, EffectOfDelete DEF Gone
    <3>3. \A q \in Places : q = <<n, x>> \/ Files!IsStrictPrefix(<<n, x>>, q) =>
                              Files!IsStrictPrefix(<<n>>, q)
      <4>1. Files!IsStrictPrefix(<<n>>, <<n, x>>) /\ Files!IsStrictPrefix(<<n>>, <<n, x, Page>>)
        BY Prefixes
      <4>2. \A o \in Spider : ~Files!IsStrictPrefix(<<n, x>>, <<o>>)
        BY Prefixes
      <4>3. \A o \in Spider, y \in SampleId :
              /\ ~Files!IsStrictPrefix(<<n, x>>, <<o, y>>)
              /\ Files!IsStrictPrefix(<<n, x>>, <<o, y, Page>>) <=> n = o /\ x = y
        BY Prefixes
      <4>4. TAKE q \in Places
      <4>5. CASE \E o \in Spider : q = <<o>>
        BY <4>2, <4>5, Paths
      <4>6. ASSUME NEW o \in Spider, NEW y \in SampleId, q = <<o, y>> \/ q = <<o, y, Page>>,
                   q = <<n, x>> \/ Files!IsStrictPrefix(<<n, x>>, q)
            PROVE  q = <<n, x>> \/ q = <<n, x, Page>>
        BY <4>3, <4>6
      <4>7. QED
        BY <4>1, <4>5, <4>6, PlaceIs
    <3>4. QED
      BY <2>3, <3>2, <3>3 DEF Gone
  <2>4. QED
    BY <1>1, <2>2, <2>3
<1>7. CASE Len(fileTodo) = 1
  <2>1. fileTodo' = <<>> /\ before' = disk'
    BY <1>2, <1>7, StepIs
  <2>2. Gone(before, before', <<n>>)
    BY <1>6, <2>1
  <2>3. QED
    BY <1>1, <2>1, <2>2, GoneIsARequest DEF Finish
<1>8. CASE Len(fileTodo) # 1
  <2>1. fileTodo' = Tail(fileTodo) /\ before' = before
    BY <1>2, <1>8, StepIs
  <2>2. Tail(fileTodo) # <<>>
    <3>1. Len(Tail(fileTodo)) = Len(fileTodo) - 1
      BY <1>1, <1>2
    <3>2. Len(Tail(fileTodo)) # 0
      BY <1>3, <1>8, <3>1
    <3>3. Len(<<>>) = 0
      OBVIOUS
    <3>4. QED
      BY <3>2, <3>3, Zenon
  <2>3. RemovingSpider'
    BY <1>1, <1>4, <1>6, <2>1, <2>2 DEF RemovingSpider
  <2>4. QED
    BY <2>1, <2>2, <2>3
<1>9. QED
  BY <1>7, <1>8

LEMMA RenamingProceeds ==
  ASSUME Tidy(before), Renaming, Files!Step, ~fileFailed'
  PROVE  Finish \/ (before' = before /\ fileTodo' # <<>> /\ Renaming')
<1>a. PICK n \in Spider, m \in Spider, xs \in Seq(SampleId) :
        /\ At(before, <<n>>) # <<>> /\ At(before, <<m>>) = <<>>
        /\ {xs[i] : i \in 1..Len(xs)} = Files!SamplesIn(before, n)
        /\ \A i, l \in 1..Len(xs) : xs[i] = xs[l] => i = l
        /\ \E j \in 1..4 * Len(xs) + 2 :
             /\ fileTodo = SubSeq(Renames(before, n, m, xs), j, 4 * Len(xs) + 2)
             /\ RenamingAt(before, disk, n, m, xs, j)
  BY DEF Renaming
<1>1. PICK j \in 1..4 * Len(xs) + 2 :
        /\ At(before, <<n>>) # <<>> /\ At(before, <<m>>) = <<>>
        /\ {xs[i] : i \in 1..Len(xs)} = Files!SamplesIn(before, n)
        /\ \A i, l \in 1..Len(xs) : xs[i] = xs[l] => i = l
        /\ fileTodo = SubSeq(Renames(before, n, m, xs), j, 4 * Len(xs) + 2)
        /\ RenamingAt(before, disk, n, m, xs, j)
  BY <1>a
<1> DEFINE k == Len(xs)
           r == Renames(before, n, m, xs)
<1>2. PICK S : r \in Seq(S)
  BY RenamesAt
<1>3. Len(r) = 4 * k + 2 /\ k \in Nat /\ j \in Nat /\ j <= 4 * k + 2 /\ j >= 1
  BY RenamesAt
<1>4. n # m
  BY <1>1
<1>5. \A i \in 1..k : At(before, <<n, xs[i]>>) # <<>>
  <2>1. TAKE i \in 1..k
  <2>2. xs[i] \in SampleId /\ xs[i] \in Files!SamplesIn(before, n)
    BY <1>1
  <2>3. QED
    BY <2>2, ShownHas
<1> HIDE DEF r
<1>6. /\ fileTodo = SubSeq(r, j, Len(r)) /\ fileTodo \in Seq(S)
      /\ Len(fileTodo) = 4 * k + 2 - j + 1
      /\ fileTodo[1] = r[j]
  <2>1. fileTodo = SubSeq(r, j, Len(r))
    BY <1>1, <1>3 DEF r
  <2>2. \A i \in j..Len(r) : r[i] \in S
    BY <1>2, <1>3
  <2>3. /\ SubSeq(r, j, Len(r)) \in Seq(S)
        /\ Len(SubSeq(r, j, Len(r))) = Len(r) - j + 1
        /\ \A i \in 1..Len(r) - j + 1 : SubSeq(r, j, Len(r))[i] = r[j + i - 1]
    BY <1>3, <2>2, SubSeqProperties
  <2>4. 1 \in 1..Len(r) - j + 1 /\ j + 1 - 1 = j
    BY <1>3
  <2>5. SubSeq(r, j, Len(r))[1] = r[j]
    BY <2>3, <2>4
  <2>6. QED
    BY <1>3, <2>1, <2>3, <2>5
<1>7. ~Files!Raises(r[j]) /\ Effect(r[j], disk')
  BY <1>6, StepIs
<1>8. RenamingAt(before, disk', n, m, xs, j + 1)
  BY <1>1, <1>4, <1>5, <1>7, RenamingStep DEF r
<1>9. CASE j = 4 * k + 2
  <2>1. fileTodo' = <<>> /\ before' = disk'
    <3>1. Len(fileTodo) = 1
      BY <1>3, <1>6, <1>9
    <3>2. QED
      BY <1>6, <3>1, StepIs
  <2>2. /\ PagesMoved(xs, j + 1) = {xs[i] : i \in 1..k}
        /\ SavedAgain(xs, j + 1) = {xs[i] : i \in 1..k}
    <3>1. /\ {h \in 1..k : 2 * h < j + 1} = 1..k
          /\ {h \in 1..k : 2 * k + 2 * h + 1 < j + 1} = 1..k
      BY <1>3, <1>9
    <3>2. QED
      BY <3>1 DEF PagesMoved, SavedAgain
  <2>3. (j + 1 > 2 * k + 1) = TRUE /\ (j + 1 > 2 * k + 2) = TRUE
    BY <1>3, <1>9
  <2> DEFINE X == Files!SamplesIn(before, n)
             X1 == PagesMoved(xs, j + 1)
             Y1 == SavedAgain(xs, j + 1)
  <2>4. X1 = X /\ Y1 = X
    BY <1>1, <2>2
  <2>5. Between(before, disk', n, m, X1, j + 1 > 2 * k + 1, j + 1 > 2 * k + 2, Y1)
    BY <1>8 DEF RenamingAt
  <2> HIDE DEF X, X1, Y1, k
  <2>6. Between(before, disk', n, m, X, TRUE, TRUE, X)
    BY <2>3, <2>4, <2>5, Zenon
  <2>7. Between(before, before', n, m, X, TRUE, TRUE, X)
    BY <2>1, <2>6
  <2>8. QED
    BY <1>1, <2>1, <2>7, RenameIsARequest DEF Finish, X
<1>10. CASE j # 4 * k + 2
  <2>1. Len(fileTodo) # 1 /\ j + 1 \in 1..4 * k + 2
    BY <1>3, <1>6, <1>10
  <2>2. fileTodo' = Tail(fileTodo) /\ before' = before
    BY <1>6, <2>1, StepIs
  <2>3. Tail(fileTodo) = SubSeq(r, j + 1, 4 * k + 2)
    <3>1. j \in 1..Len(r) /\ Len(r) \in j..Len(r)
      BY <1>3
    <3>2. QED
      BY <1>2, <1>3, <1>6, <3>1, HeadTailOfSubSeq
  <2>4. Tail(fileTodo) # <<>>
    <3>1. fileTodo # <<>>
      BY <1>6, StepIs
    <3>2. Len(Tail(fileTodo)) = Len(fileTodo) - 1
      BY <1>6, <3>1
    <3>3. Len(Tail(fileTodo)) # 0
      BY <1>3, <1>6, <2>1, <3>2
    <3>4. Len(<<>>) = 0
      OBVIOUS
    <3>5. QED
      BY <3>3, <3>4, Zenon
  <2>5. RenamingAt(before', disk', n, m, xs, j + 1)
    BY <1>8, <2>2
  <2>6. fileTodo' = SubSeq(Renames(before', n, m, xs), j + 1, 4 * Len(xs) + 2)
    BY <2>2, <2>3 DEF r
  <2>7. Renaming'
    BY <1>1, <2>1, <2>2, <2>5, <2>6 DEF Renaming
  <2>8. QED
    BY <2>2, <2>4, <2>7
<1>11. QED
  BY <1>9, <1>10

-----------------------------------------------------------------------------
(* How requests start.                                                     *)

LEMMA Loadable ==
  ASSUME NEW n \in Spider
  PROVE  /\ Files!CanLoad(n) => At(disk, <<n>>) # <<>>
         /\ \A x \in SampleId : Files!CanLoadSample(n, x) =>
              At(disk, <<n>>) # <<>> /\ At(disk, <<n, x>>) # <<>>
<1>1. \A p : p \in DOMAIN disk <=> At(disk, p) # <<>>
  BY AtIs
<1>2. QED
  BY <1>1 DEF Files!CanLoad, Files!CanLoadSample

LEMMA StartsTidy ==
  ASSUME Tidy(before), disk = before, ~fileFailed, Files!Next, ~Files!Step, ~Files!Crash
  PROVE  /\ before' = before /\ disk' = disk /\ fileTodo' # <<>>
         /\ (Editing \/ Adding \/ RemovingSample \/ RemovingSpider \/ Renaming)'
<1> DEFINE Goal == /\ before' = before /\ disk' = disk /\ fileTodo' # <<>>
                   /\ (Editing \/ Adding \/ RemovingSample \/ RemovingSpider \/ Renaming)'
<1>0. SUFFICES Goal
  OBVIOUS
<1>1. ASSUME NEW n \in Spider, NEW c \in FileData, Files!Create(n, c) \/ Files!Edit(n, c)
      PROVE  Goal
  <2>1. fileTodo' = <<Files!Save(<<n>>, c)>> /\ before' = before /\ disk' = before
    BY <1>1 DEF Files!Create, Files!Edit, Files!Start
  <2>2. <<n>> \in Places /\ Placed(before', <<n>>)
    BY DEF Placed, Places
  <2>3. Editing'
    BY <2>1, <2>2 DEF Editing
  <2>4. QED
    BY <2>1, <2>3
<1>2. ASSUME NEW n \in Spider, NEW x \in SampleId, NEW c \in FileData, Files!AddSample(n, x, c)
      PROVE  Goal
  <2>1. /\ fileTodo' = <<Files!Save(<<n, x>>, c), Files!Save(<<n>>, before[<<n>>]),
                         Files!Save(<<n, x>>, c)>>
        /\ before' = before /\ disk' = before
    BY <1>2 DEF Files!AddSample, Files!Start
  <2>2. At(before, <<n>>) # <<>>
    BY <1>2, Loadable DEF Files!AddSample
  <2>3. Adding'
    BY <2>1, <2>2 DEF Adding
  <2>4. QED
    BY <2>1, <2>3
<1>3. ASSUME NEW n \in Spider, NEW x \in SampleId, NEW c \in FileData,
             Files!EditSample(n, x, c) \/ Files!StorePage(n, x, c)
      PROVE  Goal
  <2>1. /\ \/ fileTodo' = <<Files!Save(<<n, x>>, c)>>
           \/ fileTodo' = <<Files!Save(<<n, x, Page>>, c)>>
        /\ before' = before /\ disk' = before
    BY <1>3 DEF Files!EditSample, Files!StorePage, Files!Start, Page
  <2>2. At(before, <<n>>) # <<>> /\ At(before, <<n, x>>) # <<>>
    BY <1>3, Loadable DEF Files!EditSample, Files!StorePage
  <2>3. /\ <<n, x>> \in Places /\ Placed(before, <<n, x>>)
        /\ <<n, x, Page>> \in Places /\ Placed(before, <<n, x, Page>>)
    BY <2>2, PlacesAre DEF Placed
  <2>4. Editing'
    BY <2>1, <2>3 DEF Editing
  <2>5. QED
    BY <2>1, <2>4
<1>4. ASSUME NEW n \in Spider, NEW x \in SampleId, Files!RemoveSample(n, x)
      PROVE  Goal
  <2>1. /\ fileTodo' = <<Files!Delete(<<n, x>>), Files!Delete(<<n, x, Page>>),
                         Files!Save(<<n>>, before[<<n>>])>>
        /\ before' = before /\ disk' = before
    BY <1>4 DEF Files!RemoveSample, Files!Start, Page
  <2>2. At(before, <<n>>) # <<>> /\ At(before, <<n, x>>) # <<>>
    BY <1>4, Loadable DEF Files!RemoveSample
  <2>3. RemovingSample'
    BY <2>1, <2>2 DEF RemovingSample
  <2>4. QED
    BY <2>1, <2>3
<1>5. ASSUME NEW n \in Spider, Files!RemoveSpider(n)
      PROVE  Goal
  <2>1. PICK xs \in Files!SetToSeqs(Files!SamplesIn(disk, n)) :
          Files!Start("remove", <<Files!Delete(<<n>>)>>
                        \o [i \in DOMAIN xs |-> Files!Delete(<<n, xs[i]>>)])
    BY <1>5 DEF Files!RemoveSpider
  <2>2. xs \in Seq(SampleId) /\ Len(xs) \in Nat
    <3>1. Files!SamplesIn(disk, n) \in SUBSET SampleId
      BY DEF Files!SamplesIn
    <3>2. QED
      BY <3>1, OrderOf, SeqMonotonic
  <2> DEFINE s == [i \in DOMAIN xs |-> Files!Delete(<<n, xs[i]>>)]
             a == Files!Delete(<<n>>)
             U == {Files!Delete(<<n, x>>) : x \in SampleId} \cup {a}
             c == <<a>> \o s
  <2>3. /\ s \in Seq(U) /\ Len(s) = Len(xs)
        /\ \A i \in 1..Len(s) : \E x \in SampleId : s[i] = Files!Delete(<<n, x>>)
    BY <2>2
  <2>4. <<a>> \in Seq(U) /\ Len(<<a>>) = 1 /\ <<a>>[1] = a
    OBVIOUS
  <2>5. /\ fileTodo' = c /\ before' = before /\ disk' = before
        /\ At(before, <<n>>) # <<>>
    BY <1>5, <2>1, Loadable DEF Files!Start, Files!RemoveSpider
  <2> HIDE DEF s, U
  <2>6. /\ c \in Seq(U) /\ Len(c) = 1 + Len(s)
        /\ \A i \in 1..1 + Len(s) : c[i] = IF i <= 1 THEN a ELSE s[i - 1]
    <3> DEFINE b == <<a>>
    <3>1. b \in Seq(U) /\ Len(b) = 1 /\ b[1] = a
      BY <2>4
    <3> HIDE DEF b, a
    <3>2. /\ b \o s \in Seq(U) /\ Len(b \o s) = Len(b) + Len(s)
          /\ \A i \in 1..Len(b) + Len(s) : (b \o s)[i] = IF i <= Len(b) THEN b[i] ELSE s[i - Len(b)]
      BY <2>3, <3>1, ConcatProperties
    <3>3. \A i \in 1..1 + Len(s) : (b \o s)[i] = IF i <= 1 THEN a ELSE s[i - 1]
      <4>1. TAKE i \in 1..1 + Len(s)
      <4>2. (b \o s)[i] = IF i <= Len(b) THEN b[i] ELSE s[i - Len(b)]
        BY <2>3, <3>1, <3>2
      <4>3. i <= 1 => i = 1
        OBVIOUS
      <4>4. QED
        BY <3>1, <4>2, <4>3
    <3>4. QED
      BY <2>3, <3>1, <3>2, <3>3 DEF b
  <2> HIDE DEF c
  <2>7. c # <<>> /\ c[1] = a
    BY <2>2, <2>3, <2>6
  <2>8. Deletions(Tail(c), n)
    <3>1. /\ Tail(c) \in Seq(U) /\ Len(Tail(c)) = Len(s)
          /\ \A i \in 1..Len(Tail(c)) : Tail(c)[i] = c[i + 1]
      BY <2>2, <2>3, <2>6, <2>7, HeadTailProperties
    <3>2. ASSUME NEW i \in 1..Len(Tail(c)) PROVE Tail(c)[i] = s[i] /\ i \in 1..Len(s)
      <4>1. /\ i + 1 \in 1..1 + Len(s) /\ ~(i + 1 <= 1) /\ i + 1 - 1 = i
            /\ i \in 1..Len(s)
        BY <2>2, <2>3, <3>1
      <4>2. c[i + 1] = s[i]
        BY <2>6, <4>1
      <4>3. QED
        BY <3>1, <4>1, <4>2
    <3>3. QED
      BY <2>3, <3>1, <3>2 DEF Deletions
  <2>9. RemovingSpider'
    <3>1. Deletions(Tail(fileTodo)', n)
      BY <2>5, <2>8
    <3>2. QED
      BY <2>5, <2>6, <2>7, <3>1 DEF RemovingSpider
  <2>10. QED
    BY <2>5, <2>7, <2>9
<1>6. ASSUME NEW n \in Spider, NEW m \in Spider, Files!Rename(n, m)
      PROVE  Goal
  <2>1. PICK xs \in Files!SetToSeqs(Files!SamplesIn(disk, n)) :
          Files!Start("rename", Renames(disk, n, m, xs))
    BY <1>6, RenameCallsAre DEF Files!Rename
  <2>2. Files!SamplesIn(disk, n) \in SUBSET SampleId
    BY DEF Files!SamplesIn
  <2>3. /\ xs \in Seq(SampleId) /\ Len(xs) \in Nat
        /\ {xs[i] : i \in 1..Len(xs)} = Files!SamplesIn(before, n)
        /\ \A i, l \in 1..Len(xs) : xs[i] = xs[l] => i = l
    <3>1. xs \in Seq(Files!SamplesIn(disk, n))
      BY <2>2, OrderOf
    <3>2. xs \in Seq(SampleId)
      BY <2>2, <3>1, SeqMonotonic
    <3>3. /\ \A i, l \in 1..Len(xs) : xs[i] = xs[l] => i = l
          /\ \A x \in Files!SamplesIn(disk, n) : \E i \in 1..Len(xs) : xs[i] = x
      BY <2>2, OrderOf
    <3>4. QED
      BY <3>1, <3>2, <3>3
  <2>4. At(before, <<n>>) # <<>> /\ At(before, <<m>>) = <<>>
    <3>1. At(before, <<n>>) # <<>>
      BY <1>6, Loadable DEF Files!Rename
    <3>2. At(before, <<m>>) = <<>>
      BY <1>6, ShownHas DEF Files!Rename
    <3>3. QED
      BY <3>1, <3>2
  <2> DEFINE r == Renames(before, n, m, xs)
             k == Len(xs)
  <2>5. fileTodo' = r /\ before' = before /\ disk' = before
    BY <2>1 DEF Files!Start
  <2>6. PICK S : r \in Seq(S)
    BY <2>3, RenamesAt
  <2>7. Len(r) = 4 * k + 2
    BY <2>3, RenamesAt
  <2> HIDE DEF r
  <2>8. r = SubSeq(r, 1, 4 * k + 2) /\ r # <<>>
    BY <2>3, <2>6, <2>7, SubSeqFull
  <2>9. RenamingAt(before, before, n, m, xs, 1)
    <3>1. PagesMoved(xs, 1) = {} /\ SavedAgain(xs, 1) = {}
      BY <2>3 DEF PagesMoved, SavedAgain
    <3>2. (1 > 2 * k + 1) = FALSE /\ (1 > 2 * k + 2) = FALSE
      BY <2>3
    <3>3. Between(before, before, n, m, {}, FALSE, FALSE, {})
      BY <2>4, BetweenAtFirst
    <3> HIDE DEF k
    <3>4. Between(before, before, n, m, PagesMoved(xs, 1), 1 > 2 * k + 1, 1 > 2 * k + 2,
                  SavedAgain(xs, 1))
      BY <3>1, <3>2, <3>3, Zenon
    <3>5. QED
      BY <3>4 DEF RenamingAt, k
  <2>10. 1 \in 1..4 * Len(xs) + 2
    BY <2>3
  <2>11. RenamingAt(before', disk', n, m, xs, 1)
    BY <2>5, <2>9
  <2>12. fileTodo' = SubSeq(Renames(before', n, m, xs), 1, 4 * Len(xs) + 2)
    BY <2>5, <2>8 DEF r
  <2>13. Renaming'
    BY <2>3, <2>4, <2>5, <2>10, <2>11, <2>12 DEF Renaming
  <2>14. QED
    BY <2>5, <2>8, <2>13
<1>7. QED
  BY <1>1, <1>2, <1>3, <1>4, <1>5, <1>6 DEF Files!Next

(* The theorems.                                                           *)

FilesInv == PathsInv /\ OnceInv

LEMMA FilesStart == Files!Init => FilesInv /\ Files!Promised!Init
<1> SUFFICES ASSUME Files!Init PROVE FilesInv /\ Files!Promised!Init
  OBVIOUS
<1>1. disk = <<>> /\ fileTodo = <<>> /\ before = <<>> /\ fileFailed = FALSE
  BY DEF Files!Init
<1>2. DOMAIN <<>> = {} /\ Function(<<>>)
  BY DEF Function
<1>3. Tidy(before)
  BY <1>1, <1>2 DEF Tidy, IsDisk, At
<1>4. Files!Shown(before) = <<>>
  <2>1. Files!SpidersOn(before) = {}
    BY <1>1, <1>2 DEF Files!SpidersOn
  <2>2. QED
    BY <2>1 DEF Files!Shown
<1>5. PathsInv
  BY PathsAtStart
<1>6. QED
  BY <1>1, <1>3, <1>4, <1>5 DEF FilesInv, OnceInv, Progress, Files!Promised!Init

LEMMA FilesStepKeeps ==
  ASSUME FilesInv, [Files!Next]_filesVars
  PROVE  /\ FilesInv'
         /\ [Files!Promised!Next]_<<Files!Shown(before), ~fileFailed>>
<1>1. PathsInv'
  BY PathsStay DEF FilesInv
<1>2. CASE fileFailed'
  <2>1. (~fileFailed)' = FALSE
    BY <1>2
  <2>2. Files!Promised!Fail
    BY <2>1 DEF Files!Promised!Fail
  <2>3. QED
    BY <1>1, <1>2, <2>2 DEF FilesInv, OnceInv, Files!Promised!Next
<1>3. CASE ~fileFailed' /\ UNCHANGED filesVars
  <2>1. /\ disk' = disk /\ fileTodo' = fileTodo /\ before' = before /\ fileFailed' = fileFailed
    BY <1>3 DEF filesVars
  <2>2. OnceInv'
    BY <2>1 DEF FilesInv, OnceInv, Progress, Editing, Adding, RemovingSample, RemovingSpider,
                Renaming, Placed
  <2>3. QED
    BY <1>1, <2>1, <2>2 DEF FilesInv
<1>4. CASE ~fileFailed' /\ Files!Step
  <2>1. PICK S : fileTodo \in Seq(S)
    BY DEF FilesInv, PathsInv
  <2>2. fileTodo # <<>> /\ ~fileFailed
    BY <1>4, <2>1, StepIs
  <2>3. Tidy(before) /\ (Editing \/ Adding \/ RemovingSample \/ RemovingSpider \/ Renaming)
    BY <2>2 DEF FilesInv, OnceInv, Progress
  <2>4. \/ Finish
        \/ /\ before' = before /\ fileTodo' # <<>>
           /\ (Editing \/ Adding \/ RemovingSample \/ RemovingSpider \/ Renaming)'
    BY <1>4, <2>3, EditingStep, AddingStep, RemovingSampleStep, RemovingSpiderStep,
       RenamingProceeds
  <2>5. CASE Finish
    <3>1. OnceInv'
      BY <2>5 DEF Finish, OnceInv, Progress
    <3>2. (~fileFailed)' = TRUE
      BY <1>4
    <3>3. Files!Promised!Next
      BY <2>5, <3>2 DEF Finish, Files!Promised!Next
    <3>4. QED
      BY <1>1, <3>1, <3>3 DEF FilesInv
  <2>6. CASE /\ before' = before /\ fileTodo' # <<>>
             /\ (Editing \/ Adding \/ RemovingSample \/ RemovingSpider \/ Renaming)'
    <3>1. Tidy(before')
      BY <2>3, <2>6
    <3>2. OnceInv'
      BY <2>6, <3>1 DEF OnceInv, Progress
    <3>3. Files!Shown(before') = Files!Shown(before)
      BY <2>6
    <3>4. (~fileFailed') = (~fileFailed)
      BY <1>4, <2>2
    <3>5. QED
      BY <1>1, <3>2, <3>3, <3>4 DEF FilesInv
  <2>7. QED
    BY <2>4, <2>5, <2>6
<1>5. CASE ~fileFailed' /\ Files!Crash
  <2>1. fileFailed'
    BY <1>5 DEF Files!Crash, Files!End
  <2>2. QED
    BY <1>5, <2>1
<1>6. CASE ~fileFailed' /\ Files!Next /\ ~Files!Step /\ ~Files!Crash
  <2>1. fileTodo = <<>> /\ fileFailed' = fileFailed
    BY <1>6, RequestsAreCalls DEF Starts, Files!Start
  <2>2. Tidy(before) /\ disk = before /\ ~fileFailed
    BY <1>6, <2>1 DEF FilesInv, OnceInv, Progress
  <2>3. /\ before' = before /\ disk' = disk /\ fileTodo' # <<>>
        /\ (Editing \/ Adding \/ RemovingSample \/ RemovingSpider \/ Renaming)'
    BY <1>6, <2>2, StartsTidy
  <2>4. Tidy(before') /\ OnceInv'
    BY <2>2, <2>3 DEF OnceInv, Progress
  <2>5. Files!Shown(before') = Files!Shown(before) /\ (~fileFailed') = (~fileFailed)
    BY <1>6, <2>2, <2>3
  <2>6. QED
    BY <1>1, <2>4, <2>5 DEF FilesInv
<1>7. QED
  BY <1>2, <1>3, <1>4, <1>5, <1>6

LEMMA StorageKeepsFiles ==
  ASSUME [Next]_vars
  PROVE  [Files!Next]_filesVars
BY DEF Next, vars, filesVars

LEMMA FilesAreSound == Spec => []FilesInv
<1>1. Init => FilesInv
  BY FilesStart DEF Init
<1>2. FilesInv /\ [Next]_vars => FilesInv'
  BY FilesStepKeeps, StorageKeepsFiles
<1>3. QED
  BY <1>1, <1>2, PTL DEF Spec

\* The requests on spiders and samples take effect as a whole when their last
\* file is written, until one fails half-way; and whatever fails or crashes, the
\* files of other spiders stay: FsStorage's save, delete and move under the
\* routes of spiders and samples, for any names, samples and contents.
THEOREM RequestsAreWhole == Spec => RequestsActAtOnce
<1>1. Init => Files!Promised!Init
  BY FilesStart DEF Init
<1>2. FilesInv /\ [Next]_vars =>
        [Files!Promised!Next]_<<Files!Shown(before), ~fileFailed>>
  BY FilesStepKeeps, StorageKeepsFiles
<1>3. Spec => Files!ActsAtOnce
  BY <1>1, <1>2, FilesAreSound, PTL DEF Spec, Files!ActsAtOnce, Files!Promised!Spec
<1>4. FilesInv /\ [Next]_vars =>
        [LET about == {p[1] : p \in {fileTodo[i].at : i \in DOMAIN fileTodo}}
                        \cup {fileTodo[i].to[1] : i \in {j \in DOMAIN fileTodo :
                                                       fileTodo[j].do = "move"}}
         IN  \A n \in Spider \ about :
               /\ n \in Files!SpidersOn(disk) <=> n \in Files!SpidersOn(disk')
               /\ n \in Files!SpidersOn(disk) =>
                    Files!Shown(disk')[n] = Files!Shown(disk)[n]]_Files!vars
  BY OthersStay, StorageKeepsFiles DEF FilesInv
<1>5. Spec => Files!OthersUntouched
  BY <1>4, FilesAreSound, PTL DEF Spec, Files!OthersUntouched
<1>6. QED
  BY <1>3, <1>5 DEF RequestsActAtOnce
=============================================================================
