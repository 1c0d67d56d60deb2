--------------------------- MODULE StorageProofs ---------------------------
(***************************************************************************)
(* What is kept by the copier of models (Copier), the collections          *)
(* of related models (Collection) and the loading of old spiders           *)
(* (LegacySpider), for any models and any bounds.                          *)
(***************************************************************************)
EXTENDS Storage, SequenceTheorems, FiniteSetTheorems, WellFoundedInduction, TLAPS

-----------------------------------------------------------------------------
(* Copying between projects.                                               *)

SourceSchema(x) == from[x.of[1]][x.of[2]].schema

\* Each schema has one copy, each copy one schema, and the copied samples have
\* the copies of the schemas of their originals.
CopiesInv ==
  /\ made \in Nat
  /\ copied \in [DOMAIN copied -> 1..made]
  /\ \A s, t \in DOMAIN copied : copied[s] = copied[t] => s = t
  /\ \A i \in DOMAIN to : \A x \in to[i].samples :
       SourceSchema(x) \in DOMAIN copied /\ x.schema = copied[SourceSchema(x)]
  /\ to = [i \in DOMAIN to |-> [settings |-> to[i].settings, samples |-> to[i].samples]]

Source == Copies!Id \cap DOMAIN from

\* The copier works on spiders that it has made.
CopierInv ==
  /\ DOMAIN to \subseteq Base \X Nat
  /\ ids \subseteq DOMAIN to
  /\ into \notin ids
  /\ \E S : copyTodo \in Seq(S)
  /\ \A i \in 1..Len(copyTodo) : copyTodo[i].do = "spider" => copyTodo[i].of \in Source
  /\ asked = <<>> => into = <<>> /\ copyTodo = <<>>
  /\ \A i \in DOMAIN from : \E n \in Nat : DOMAIN from[i] = 1..n

LEMMA CopiesStart ==
  ASSUME Init
  PROVE  CopiesInv /\ CopierInv
<1>1. /\ copied = <<>> /\ made = 0 /\ copyTodo = <<>> /\ ids = {} /\ into = <<>>
      /\ \E I : to = [i \in I |-> [settings |-> <<>>, samples |-> {}]] /\ I \subseteq Copies!Id
      /\ \A i \in DOMAIN from : \E n \in Nat : DOMAIN from[i] = 1..n
  <2>1. CASE part = "copies"
    <3>1. Copies!Init
      BY <2>1 DEF Init
    <3>2. PICK I \in SUBSET Copies!Id :
            from \in [I -> {s \in Copies!SeqOf(Copies!Samples, 1) : s # <<>>}]
      BY <3>1 DEF Copies!Init
    <3>3. ASSUME NEW i \in I PROVE \E n \in Nat : DOMAIN from[i] = 1..n
      <4>1. from[i] \in Copies!SeqOf(Copies!Samples, 1)
        BY <3>2
      <4>2. PICK n \in 0..1 : from[i] \in [1..n -> Copies!Samples]
        BY <4>1 DEF Copies!SeqOf
      <4>3. QED
        BY <4>2
    <3>4. QED
      BY <3>1, <3>2, <3>3 DEF Copies!Init, Copies!Own
  <2>2. CASE part # "copies"
    <3>1. <<>> = [i \in {} |-> [settings |-> <<>>, samples |-> {}]]
      OBVIOUS
    <3>2. QED
      BY <2>2, <3>1 DEF Init
  <2>3. QED
    BY <2>1, <2>2
<1>2. PICK I : to = [i \in I |-> [settings |-> <<>>, samples |-> {}]] /\ I \subseteq Copies!Id
  BY <1>1
<1>3. DOMAIN to \subseteq Base \X Nat
  BY <1>2, NumberAssumption DEF Copies!Id
<1>4. DOMAIN <<>> = {} /\ <<>> \in Seq({}) /\ Len(<<>>) = 0
  OBVIOUS
<1>5. CopiesInv
  BY <1>1, <1>2, <1>4 DEF CopiesInv
<1>6. CopierInv
  BY <1>1, <1>3, <1>4 DEF CopierInv
<1>7. QED
  BY <1>5, <1>6

LEMMA LeastNumber ==
  ASSUME NEW S \in SUBSET Nat, S # {}
  PROVE  \E n \in S : \A k \in S : n <= k
<1> DEFINE R == {ss \in Nat \X Nat : ss[1] < ss[2]}
<1>1. IsWellFoundedOn(R, Nat)
  BY NatLessThanWellFounded DEF OpToRel
<1>2. PICK n \in S : \A k \in S : ~(<<k, n>> \in R)
  BY <1>1, WFMin
<1>3. \A k \in S : ~(k < n)
  BY <1>2
<1>4. QED
  BY <1>3

\* A number that is not taken, and is not before the one to start with.
LEMMA UniqueIdIsNew ==
  ASSUME NEW id \in Copies!Id,
         \E n \in id[2]..MaxNumber : <<id[1], n>> \notin ids
  PROVE  Copies!UniqueId(id) \in Base \X Nat /\ Copies!UniqueId(id) \notin ids
<1> DEFINE free == {n \in id[2]..MaxNumber : <<id[1], n>> \notin ids}
<1>1. id[1] \in Base /\ id[2] \in Nat /\ MaxNumber \in Nat
  BY NumberAssumption DEF Copies!Id
<1>2. free \in SUBSET Nat /\ free # {}
  BY <1>1
<1>3. PICK n \in free : \A k \in free : n <= k
  BY <1>2, LeastNumber
<1>4. /\ <<id[1], n>> \in {id[1]} \X (id[2]..MaxNumber + 1)
      /\ <<id[1], n>> \notin ids
      /\ \A k \in id[2]..n - 1 : <<id[1], k>> \in ids
  <2>1. n \in id[2]..MaxNumber /\ n \in Nat /\ <<id[1], n>> \notin ids
    BY <1>2, <1>3
  <2>2. ASSUME NEW k \in id[2]..n - 1 PROVE <<id[1], k>> \in ids
    <3>1. k \in id[2]..MaxNumber /\ ~(n <= k)
      BY <1>1, <2>1
    <3>2. k \notin free
      BY <1>3, <3>1
    <3>3. QED
      BY <3>1, <3>2
  <2>3. n \in id[2]..MaxNumber + 1
    BY <1>1, <2>1
  <2>4. QED
    BY <2>1, <2>2, <2>3
<1>5. \E new \in {id[1]} \X (id[2]..MaxNumber + 1) :
        /\ new \notin ids
        /\ \A k \in id[2]..new[2] - 1 : <<id[1], k>> \in ids
  <2> DEFINE pair == <<id[1], n>>
  <2>1. pair[2] = n
    OBVIOUS
  <2>2. pair \in {id[1]} \X (id[2]..MaxNumber + 1) /\ pair \notin ids
        /\ \A k \in id[2]..pair[2] - 1 : <<id[1], k>> \in ids
    BY <1>4, <2>1
  <2> HIDE DEF pair
  <2>3. QED
    BY <2>2
<1>6. /\ Copies!UniqueId(id) \in {id[1]} \X (id[2]..MaxNumber + 1)
      /\ Copies!UniqueId(id) \notin ids
  BY <1>5 DEF Copies!UniqueId
<1>7. {id[1]} \X (id[2]..MaxNumber + 1) \subseteq Base \X Nat
  BY <1>1
<1>8. QED
  BY <1>6, <1>7

\* What a schema is copied to, if it was not copied before.
LEMMA CopyOfSound ==
  ASSUME CopiesInv, NEW s
  PROVE  LET after == Copies!CopyOf(s) IN
         /\ after \in [DOMAIN copied \cup {s} -> 1..made + 1]
         /\ DOMAIN after = DOMAIN copied \cup {s}
         /\ \A t \in DOMAIN copied : after[t] = copied[t]
         /\ \A t, u \in DOMAIN after : after[t] = after[u] => t = u
<1> DEFINE after == Copies!CopyOf(s)
<1>1. after = [t \in DOMAIN copied \cup {s} |->
                 IF t \in DOMAIN copied THEN copied[t] ELSE made + 1]
  BY DEF Copies!CopyOf
<1>2. /\ made \in Nat /\ \A t \in DOMAIN copied : copied[t] \in 1..made
      /\ \A t, u \in DOMAIN copied : copied[t] = copied[u] => t = u
  BY DEF CopiesInv
<1> HIDE DEF after
<1>3. \A t \in DOMAIN copied \cup {s} : after[t] \in 1..made + 1
  BY <1>1, <1>2
<1>4. \A t, u \in DOMAIN copied \cup {s} : after[t] = after[u] => t = u
  BY <1>1, <1>2
<1>5. QED
  BY <1>1, <1>3, <1>4 DEF after

LEMMA CopyKeeps ==
  ASSUME CopiesInv, CopierInv,
         NEW spiders \in Copies!SeqOf(Copies!Id, 2), NEW schemas \in Copies!SeqOf(Schema, 1),
         Copies!Copy(spiders, schemas)
  PROVE  CopiesInv' /\ CopierInv' /\ \A id \in ids : to'[id] = to[id]
<1> DEFINE A == [i \in DOMAIN spiders |-> [do |-> "spider", of |-> spiders[i]]]
           B == [i \in DOMAIN schemas |-> [do |-> "schema", of |-> schemas[i]]]
           S == {A[i] : i \in DOMAIN spiders} \cup {B[i] : i \in DOMAIN schemas}
<1>1. /\ asked = <<>> /\ asked' = spiders \o schemas /\ spiders \o schemas # <<>>
      /\ copyTodo' = A \o B /\ ids' = DOMAIN to
      /\ UNCHANGED <<from, to, into, copied, made>>
  BY DEF Copies!Copy, Copies!Group
<1>2. PICK m \in 0..2 : spiders \in [1..m -> Copies!Id]
  BY DEF Copies!SeqOf
<1>3. PICK k \in 0..1 : schemas \in [1..k -> Schema]
  BY DEF Copies!SeqOf
<1>4. /\ A \in [1..m -> S] /\ \A i \in 1..m : A[i].of \in Source
      /\ B \in [1..k -> S] /\ \A i \in 1..k : B[i].do # "spider"
  <2>1. Copies!Range(spiders) \subseteq DOMAIN from
    BY DEF Copies!Copy
  <2>2. \A i \in 1..m : spiders[i] \in Source
    BY <1>2, <2>1 DEF Copies!Range, Source
  <2>3. QED
    BY <1>2, <1>3, <2>2
<1> HIDE DEF A, B, S
<1>5. A \in Seq(S) /\ Len(A) = m /\ B \in Seq(S) /\ Len(B) = k
  BY <1>4
<1>6. /\ A \o B \in Seq(S) /\ Len(A \o B) = m + k
      /\ \A i \in 1..m + k : (A \o B)[i] = IF i <= m THEN A[i] ELSE B[i - m]
  BY <1>5, ConcatProperties
<1>7. ASSUME NEW i \in 1..m + k, (A \o B)[i].do = "spider"
      PROVE  (A \o B)[i].of \in Source
  <2>1. CASE i <= m
    BY <1>4, <1>6, <2>1
  <2>2. CASE ~(i <= m)
    <3>1. i - m \in 1..k
      BY <2>2
    <3>2. QED
      BY <1>4, <1>6, <1>7, <2>2, <3>1
  <2>3. QED
    BY <2>1, <2>2
<1>8. into \notin DOMAIN to
  <2>1. into = <<>> /\ DOMAIN to \subseteq Base \X Nat
    BY <1>1 DEF CopierInv
  <2>2. <<>> \notin Base \X Nat
    OBVIOUS
  <2>3. QED
    BY <2>1, <2>2
<1>9. asked' # <<>>
  BY <1>1
<1>10. CopierInv'
  BY <1>1, <1>6, <1>7, <1>8, <1>9 DEF CopierInv, Source
<1>11. CopiesInv'
  BY <1>1 DEF CopiesInv, SourceSchema
<1>12. QED
  BY <1>1, <1>10, <1>11

\* The rest of a list, and what is put before it.
LEMMA RestOfTodo ==
  ASSUME CopierInv, copyTodo # <<>>
  PROVE  /\ \E S : Tail(copyTodo) \in Seq(S)
         /\ \A i \in 1..Len(Tail(copyTodo)) : Tail(copyTodo)[i].do = "spider" =>
                                                Tail(copyTodo)[i].of \in Source
         /\ Head(copyTodo).do = "spider" => Head(copyTodo).of \in Source
<1>1. PICK S : copyTodo \in Seq(S)
  BY DEF CopierInv
<1>2. /\ Tail(copyTodo) \in Seq(S) /\ Len(Tail(copyTodo)) = Len(copyTodo) - 1
      /\ \A i \in 1..Len(Tail(copyTodo)) : Tail(copyTodo)[i] = copyTodo[i + 1]
  BY <1>1, HeadTailProperties
<1>3. Len(copyTodo) \in Nat /\ 1 \in 1..Len(copyTodo) /\ Head(copyTodo) = copyTodo[1]
  BY <1>1, EmptySeq, LenProperties
<1>4. \A i \in 1..Len(Tail(copyTodo)) : i + 1 \in 1..Len(copyTodo)
  BY <1>2, <1>3
<1>5. QED
  BY <1>2, <1>3, <1>4 DEF CopierInv

LEMMA CopySpiderKeeps ==
  ASSUME CopiesInv, CopierInv, Copies!CopySpider
  PROVE  CopiesInv' /\ CopierInv' /\ \A id \in ids : to'[id] = to[id]
<1> DEFINE id == Head(copyTodo).of
           new == Copies!UniqueId(id)
           rest == Tail(copyTodo)
           here == Copies!SamplesOf(id)
           spider == [settings |-> id,
                      samples |-> IF new \in DOMAIN to THEN to[new].samples ELSE {}]
<1>1. /\ copyTodo # <<>> /\ Head(copyTodo).do = "spider"
      /\ \E n \in id[2]..MaxNumber : <<id[1], n>> \notin ids
      /\ to' = [i \in DOMAIN to \cup {new} |-> IF i # new THEN to[i] ELSE spider]
      /\ into' = new /\ copyTodo' = here \o rest
      /\ UNCHANGED <<from, asked, ids, copied, made>>
  BY DEF Copies!CopySpider, Copies!Doing
<1>2. id \in Copies!Id /\ id \in DOMAIN from
  BY <1>1, RestOfTodo DEF Source
<1>3. new \in Base \X Nat /\ new \notin ids
  BY <1>1, <1>2, UniqueIdIsNew
<1>4. /\ \E S : copyTodo' \in Seq(S)
      /\ \A i \in 1..Len(copyTodo') : copyTodo'[i].do = "spider" =>
                                        copyTodo'[i].of \in Source'
  <2>1. PICK T : rest \in Seq(T)
    BY <1>1, RestOfTodo
  <2>2. PICK n \in Nat : DOMAIN from[id] = 1..n
    BY <1>2 DEF CopierInv
  <2>3. here = [j \in 1..n |-> [do |-> "sample", of |-> <<id, j>>]]
    BY <2>2 DEF Copies!SamplesOf
  <2> DEFINE S == {here[j] : j \in 1..n} \cup T
  <2>4. here \in [1..n -> S] /\ \A j \in 1..n : here[j].do # "spider"
    BY <2>3
  <2> HIDE DEF here, S
  <2>5. here \in Seq(S) /\ Len(here) = n
    BY <2>4
  <2>6. rest \in Seq(S) /\ Len(rest) \in Nat
    BY <2>1, SeqMonotonic, LenProperties DEF S
  <2>7. /\ here \o rest \in Seq(S) /\ Len(here \o rest) = n + Len(rest)
        /\ \A i \in 1..n + Len(rest) :
             (here \o rest)[i] = IF i <= n THEN here[i] ELSE rest[i - n]
    BY <2>5, <2>6, ConcatProperties
  <2>8. ASSUME NEW i \in 1..n + Len(rest), (here \o rest)[i].do = "spider"
        PROVE  (here \o rest)[i].of \in Source
    <3>1. CASE i <= n
      BY <2>4, <2>7, <2>8, <3>1
    <3>2. CASE ~(i <= n)
      <4>1. i - n \in 1..Len(rest) /\ (here \o rest)[i] = rest[i - n]
        BY <2>6, <2>7, <3>2
      <4>2. QED
        BY <1>1, <2>8, <4>1, RestOfTodo
    <3>3. QED
      BY <3>1, <3>2
  <2>9. Source' = Source
    BY <1>1 DEF Source
  <2>10. QED
    BY <1>1, <2>7, <2>8, <2>9
<1>5. asked' # <<>>
  BY <1>1 DEF CopierInv
<1> HIDE DEF new, id
<1>6. spider.settings = id
      /\ spider.samples = IF new \in DOMAIN to THEN to[new].samples ELSE {}
  OBVIOUS
<1>7. spider = [settings |-> spider.settings, samples |-> spider.samples]
  OBVIOUS
<1> HIDE DEF spider
<1>8. CopiesInv'
  <2>1. /\ DOMAIN to' = DOMAIN to \cup {new} /\ to'[new] = spider
        /\ \A i \in DOMAIN to : i # new => to'[i] = to[i]
    BY <1>1
  <2>2. \A x : SourceSchema(x)' = SourceSchema(x)
    BY <1>1 DEF SourceSchema
  <2>3. ASSUME NEW i \in DOMAIN to', NEW x \in to'[i].samples
        PROVE  i \in DOMAIN to /\ x \in to[i].samples
    BY <1>6, <2>1, <2>3
  <2>4. \A i \in DOMAIN to' :
          to'[i] = [settings |-> to'[i].settings, samples |-> to'[i].samples]
    BY <1>7, <2>1 DEF CopiesInv
  <2>5. to' = [i \in DOMAIN to' |->
                 [settings |-> to'[i].settings, samples |-> to'[i].samples]]
    BY <1>1, <2>4
  <2>6. QED
    BY <1>1, <2>2, <2>3, <2>5 DEF CopiesInv
<1>9. CopierInv'
  <2>1. DOMAIN to' \subseteq Base \X Nat /\ ids' \subseteq DOMAIN to'
    BY <1>1, <1>3 DEF CopierInv
  <2>2. QED
    BY <1>1, <1>3, <1>4, <1>5, <2>1 DEF CopierInv
<1>10. QED
  BY <1>1, <1>3, <1>8, <1>9 DEF CopierInv

\* The copies that are made next change no copy of a schema.
LEMMA SamplesKeepTheirSchemas ==
  ASSUME CopiesInv, NEW s, UNCHANGED from, copied' = Copies!CopyOf(s), made' = made + 1
  PROVE  /\ made' \in Nat /\ copied' \in [DOMAIN copied' -> 1..made']
         /\ \A t, u \in DOMAIN copied' : copied'[t] = copied'[u] => t = u
         /\ s \in DOMAIN copied'
         /\ \A i \in DOMAIN to : \A x \in to[i].samples :
              /\ SourceSchema(x)' = SourceSchema(x)
              /\ SourceSchema(x) \in DOMAIN copied'
              /\ x.schema = copied'[SourceSchema(x)]
<1>1. /\ copied' \in [DOMAIN copied \cup {s} -> 1..made + 1]
      /\ DOMAIN copied' = DOMAIN copied \cup {s}
      /\ \A t \in DOMAIN copied : copied'[t] = copied[t]
      /\ \A t, u \in DOMAIN copied' : copied'[t] = copied'[u] => t = u
  BY CopyOfSound
<1>2. \A x : SourceSchema(x)' = SourceSchema(x)
  BY DEF SourceSchema
<1>3. QED
  BY <1>1, <1>2 DEF CopiesInv

LEMMA CopySchemaKeeps ==
  ASSUME CopiesInv, CopierInv, Copies!CopySchema
  PROVE  CopiesInv' /\ CopierInv' /\ \A id \in ids : to'[id] = to[id]
<1>1. /\ copyTodo # <<>> /\ copied' = Copies!CopyOf(Head(copyTodo).of) /\ made' = made + 1
      /\ copyTodo' = Tail(copyTodo) /\ UNCHANGED <<from, asked, to, into, ids>>
  BY DEF Copies!CopySchema, Copies!Doing
<1>2. CopiesInv'
  BY <1>1, SamplesKeepTheirSchemas DEF CopiesInv
<1>3. CopierInv'
  BY <1>1, RestOfTodo DEF CopierInv, Source
<1>4. QED
  BY <1>1, <1>2, <1>3

LEMMA CopySampleKeeps ==
  ASSUME CopiesInv, CopierInv, Copies!CopySample
  PROVE  CopiesInv' /\ CopierInv' /\ \A id \in ids : to'[id] = to[id]
<1> DEFINE of == Head(copyTodo).of
           sample == from[of[1]][of[2]]
           new == [of |-> of, schema |-> Copies!CopyOf(sample.schema)[sample.schema]]
<1>1. copyTodo # <<>> /\ UNCHANGED <<from, asked, into, ids>>
  BY DEF Copies!CopySample, Copies!Doing
<1>2. CASE ~sample.page
  <2>1. copyTodo' = <<>> /\ UNCHANGED <<to, copied, made>>
    BY <1>2 DEF Copies!CopySample
  <2>2. CopiesInv'
    BY <1>1, <2>1 DEF CopiesInv, SourceSchema
  <2>3. <<>> \in Seq({}) /\ Len(<<>>) = 0
    OBVIOUS
  <2>4. CopierInv'
    BY <1>1, <2>1, <2>3 DEF CopierInv, Source
  <2>5. QED
    BY <2>1, <2>2, <2>4
<1>3. CASE sample.page
  <2>1. /\ copied' = Copies!CopyOf(sample.schema) /\ made' = made + 1
        /\ to' = [to EXCEPT ![into].samples = @ \cup {new}]
        /\ copyTodo' = Tail(copyTodo)
    BY <1>3 DEF Copies!CopySample
  <2>2. new.of = of /\ new.schema = copied'[sample.schema]
    BY <2>1
  <2>3. SourceSchema(new) = sample.schema
    BY <2>2 DEF SourceSchema
  <2> HIDE DEF new, sample, of
  <2>4. /\ made' \in Nat /\ copied' \in [DOMAIN copied' -> 1..made']
        /\ \A t, u \in DOMAIN copied' : copied'[t] = copied'[u] => t = u
        /\ sample.schema \in DOMAIN copied'
        /\ \A i \in DOMAIN to : \A x \in to[i].samples :
             /\ SourceSchema(x)' = SourceSchema(x)
             /\ SourceSchema(x) \in DOMAIN copied'
             /\ x.schema = copied'[SourceSchema(x)]
    BY <1>1, <2>1, SamplesKeepTheirSchemas
  <2>5. \A i \in DOMAIN to :
          to[i] = [settings |-> to[i].settings, samples |-> to[i].samples]
    BY DEF CopiesInv
  <2>6. DOMAIN to' = DOMAIN to /\ \A i \in DOMAIN to : i # into => to'[i] = to[i]
    BY <2>1
  <2>7. ASSUME into \in DOMAIN to
        PROVE  to'[into] = [settings |-> to[into].settings,
                            samples |-> to[into].samples \cup {new}]
    <3>1. to'[into] = [to[into] EXCEPT !.samples = to[into].samples \cup {new}]
      BY <2>1, <2>7
    <3>2. to[into] = [settings |-> to[into].settings, samples |-> to[into].samples]
      BY <2>5, <2>7
    <3>3. \A a, b, c : [[settings |-> a, samples |-> b] EXCEPT !.samples = c]
                         = [settings |-> a, samples |-> c]
      OBVIOUS
    <3>4. QED
      BY <3>1, <3>2, <3>3
  <2>8. ASSUME NEW i \in DOMAIN to', NEW x \in to'[i].samples
        PROVE  SourceSchema(x)' \in DOMAIN copied' /\ x.schema = copied'[SourceSchema(x)']
    <3>1. x \in to[i].samples \/ x = new
      BY <2>6, <2>7, <2>8
    <3>2. SourceSchema(x)' = SourceSchema(x)
      BY <1>1 DEF SourceSchema
    <3>3. CASE x = new
      BY <2>2, <2>3, <2>4, <3>2, <3>3
    <3>4. CASE x \in to[i].samples
      BY <2>4, <2>6, <3>4
    <3>5. QED
      BY <3>1, <3>3, <3>4
  <2>9. \A i \in DOMAIN to' :
          to'[i] = [settings |-> to'[i].settings, samples |-> to'[i].samples]
    BY <2>5, <2>6, <2>7
  <2>10. to' = [i \in DOMAIN to' |->
                  [settings |-> to'[i].settings, samples |-> to'[i].samples]]
    BY <2>1, <2>9
  <2>11. CopiesInv'
    BY <2>4, <2>8, <2>10 DEF CopiesInv
  <2>12. CopierInv'
    BY <1>1, <2>1, <2>6, RestOfTodo DEF CopierInv, Source
  <2>13. QED
    BY <2>6, <2>11, <2>12 DEF CopierInv
<1>4. QED
  BY <1>2, <1>3

LEMMA CopiesStepKeeps ==
  ASSUME CopiesInv, CopierInv, [Next]_vars
  PROVE  CopiesInv' /\ CopierInv' /\ (Copies!Next \/ UNCHANGED copiesVars)
         /\ (Copies!Next => \A id \in ids : to'[id] = to[id])
<1>1. CASE Copies!Next
  <2>1. CASE \E spiders \in Copies!SeqOf(Copies!Id, 2), schemas \in Copies!SeqOf(Schema, 1) :
               Copies!Copy(spiders, schemas)
    BY <1>1, <2>1, CopyKeeps
  <2>2. CASE Copies!CopySpider
    BY <1>1, <2>2, CopySpiderKeeps
  <2>3. CASE Copies!CopySample
    BY <1>1, <2>3, CopySampleKeeps
  <2>4. CASE Copies!CopySchema
    BY <1>1, <2>4, CopySchemaKeeps
  <2>5. QED
    BY <1>1, <2>1, <2>2, <2>3, <2>4 DEF Copies!Next
<1>2. CASE UNCHANGED copiesVars
  BY <1>2 DEF copiesVars, CopiesInv, CopierInv, SourceSchema, Source
<1>3. QED
  BY <1>1, <1>2 DEF Next, vars

LEMMA CopiesAreSound == Spec => [](CopiesInv /\ CopierInv)
<1>1. Init => CopiesInv /\ CopierInv
  BY CopiesStart
<1>2. CopiesInv /\ CopierInv /\ [Next]_vars => CopiesInv' /\ CopierInv'
  BY CopiesStepKeeps
<1>3. QED
  BY <1>1, <1>2, PTL DEF Spec

\* Samples that shared a schema share its copy in the project they are copied to,
\* and others do not: the dictionaries of ModelCopier, for any spiders, schemas
\* and names, and wherever it stops.
THEOREM SharedSchemasStayShared == Spec => []CopiesShareSchemas
<1>1. CopiesInv => CopiesShareSchemas
  BY DEF CopiesInv, CopiesShareSchemas, Copies!CopiesShareSchemas, SourceSchema
<1>2. QED
  BY <1>1, CopiesAreSound, PTL

\* A spider that the project had when the copier started stays as it is, whatever
\* names are taken: _unique_id with the ids of the start.
THEOREM OwnSpidersAreSafe == Spec => OwnSpidersKept
<1>1. CopiesInv /\ CopierInv /\ [Next]_vars =>
        [\A id \in ids : to'[id] = to[id]]_(Copies!vars)
  <2>1. copiesVars' = copiesVars => Copies!vars' = Copies!vars
    BY DEF copiesVars, Copies!vars
  <2>2. QED
    BY <2>1, CopiesStepKeeps
<1>2. QED
  BY <1>1, CopiesAreSound, PTL DEF Spec, OwnSpidersKept, Copies!OwnSpidersKept

-----------------------------------------------------------------------------
(* Spiders of older versions.                                              *)

\* What is read or stored of a sample that was in the old spider: it has its
\* annotations, and a schema of the project once it was brought to the new
\* layout; its page is not in it any more when it is new.
SoundFor(s, x) ==
  /\ Legacy!HasAnnotations(given[s]) => Legacy!HasAnnotations(x)
  /\ given[s].version = "old" /\ items # {} =>
       x.schema \in items \/ (x.version = "old" /\ x.notes # "items")
  /\ x.page => x.version # "new"

LegacyTypes ==
  /\ given \in [DOMAIN given -> Legacy!Samples] /\ DOMAIN given \subseteq OldSample
  /\ items \subseteq OldSchema \cup {"default"}
  /\ file \in [OldSample -> Legacy!Samples \cup {None}]
  /\ read \in [OldSample -> Legacy!Samples \cup {None}]
  /\ opened \in BOOLEAN /\ saved \in BOOLEAN
  /\ \E S : writes \in Seq(S)

\* The templates have been dumped.
Dumped == \A s \in DOMAIN given : file[s] # None

FilesSound ==
  \A s \in DOMAIN given :
    /\ SoundFor(s, given[s]) /\ given[s].page
    /\ file[s] # None => SoundFor(s, file[s]) /\ (s \in pages \/ file[s].page)

\* The page of a sample is written before the sample is written without it.
ReadSound ==
  \A s \in OldSample : read[s] # None =>
    /\ file[s] # None => read[s].edits >= file[s].edits
    /\ s \in DOMAIN given =>
         /\ SoundFor(s, read[s])
         /\ given[s].version = "old" /\ items # {} => read[s].schema \in items
         /\ s \in pages \/ (writes # <<>> /\ writes[1] = Legacy!WritePage(s))

\* A request writes the templates of the spider, or the samples it has read, or
\* the spider without templates.
Dumping ==
  /\ opened /\ ~saved /\ templates = given /\ read = [s \in OldSample |-> None]
  /\ \A i \in 1..Len(writes) :
       \/ \E s \in DOMAIN given : writes[i] = Legacy!WriteSample(s, given[s])
       \/ writes[i] = Legacy!WriteSpider(given, FALSE)
  /\ \A s \in DOMAIN given : file[s] # None \/
       \E i \in 1..Len(writes) : writes[i] = Legacy!WriteSample(s, given[s])

Working ==
  /\ opened /\ Dumped
  /\ \A i \in 1..Len(writes) :
       \E s \in OldSample : \/ writes[i] = Legacy!WritePage(s)
                            \/ /\ read[s] # None
                               /\ writes[i] = Legacy!WriteSample(s, read[s])

Saving == opened /\ Dumped /\ writes = <<Legacy!WriteSpider(<<>>, TRUE)>>

LegacyInv ==
  /\ LegacyTypes /\ FilesSound /\ ReadSound
  /\ templates = given \/ (templates = <<>> /\ Dumped)
  /\ saved => templates = <<>>
  /\ ~opened => writes = <<>> /\ read = [s \in OldSample |-> None]
  /\ opened => Dumping \/ Working \/ Saving

LEMMA LegacyIsKept ==
  ASSUME LegacyInv
  PROVE  OldSpidersAreKept
<1>1. ASSUME NEW s \in DOMAIN given
      PROVE  \E x \in Legacy!Kept(s) : /\ SoundFor(s, x)
                                       /\ s \in pages \/ x.page
  <2>1. CASE templates = given
    BY <2>1 DEF LegacyInv, FilesSound, Legacy!Kept
  <2>2. CASE Dumped
    BY <2>2 DEF LegacyInv, FilesSound, Legacy!Kept, Dumped
  <2>3. QED
    BY <2>1, <2>2 DEF LegacyInv
<1>2. Legacy!AnnotationsAreKept /\ Legacy!PagesAreKept
  BY <1>1 DEF Legacy!AnnotationsAreKept, Legacy!PagesAreKept, SoundFor
<1>3. Legacy!MigratedSamplesHaveASchema
  BY DEF LegacyInv, FilesSound, SoundFor, Legacy!MigratedSamplesHaveASchema
<1>4. QED
  BY <1>2, <1>3 DEF OldSpidersAreKept

LEMMA LegacyStarts ==
  ASSUME Init
  PROVE  LegacyInv
<1>1. CASE part = "legacy"
  <2>1. Legacy!Init
    BY <1>1 DEF Init
  <2>2. PICK some \in SUBSET OldSample :
          given \in [some -> {Legacy!Old(n, s) : n \in {"body", "none"}, s \in OldSchema}
                               \cup {Legacy!Beta}]
    BY <2>1 DEF Legacy!Init
  <2>3. /\ items \subseteq OldSchema \cup {"default"} /\ templates = given
        /\ file = [s \in OldSample |-> None] /\ read = file
        /\ opened = FALSE /\ writes = <<>> /\ saved = FALSE
    BY <2>1 DEF Legacy!Init
  <2>4. ASSUME NEW s \in some
        PROVE  given[s] \in Legacy!Samples /\ SoundFor(s, given[s]) /\ given[s].page
    <3>1. CASE given[s] = Legacy!Beta
      BY <3>1 DEF Legacy!Beta, Legacy!SampleOf, Legacy!Samples, SoundFor, Legacy!HasAnnotations
    <3>2. CASE given[s] # Legacy!Beta
      <4>1. PICK n \in {"body", "none"}, t \in OldSchema : given[s] = Legacy!Old(n, t)
        BY <2>2, <3>2
      <4>2. QED
        BY <4>1 DEF Legacy!Old, Legacy!SampleOf, Legacy!Samples, SoundFor
    <3>3. QED
      BY <3>1, <3>2
  <2>5. DOMAIN given = some /\ given \in [some -> Legacy!Samples]
    BY <2>2, <2>4
  <2>6. <<>> \in Seq({})
    OBVIOUS
  <2>7. LegacyTypes
    BY <2>3, <2>5, <2>6 DEF LegacyTypes
  <2>8. QED
    BY <2>3, <2>4, <2>5, <2>7 DEF LegacyInv, FilesSound, ReadSound
<1>2. CASE part # "legacy"
  <2>1. /\ templates = <<>> /\ file = [s \in OldSample |-> None] /\ pages = {}
        /\ items = {} /\ opened = FALSE /\ read = file /\ writes = <<>>
        /\ given = <<>> /\ saved = FALSE
    BY <1>2 DEF Init
  <2>2. DOMAIN <<>> = {} /\ <<>> \in Seq({}) /\ <<>> \in [{} -> Legacy!Samples]
    OBVIOUS
  <2>3. QED
    BY <2>1, <2>2 DEF LegacyInv, LegacyTypes, FilesSound, ReadSound
<1>3. QED
  BY <1>1, <1>2

LEMMA RestOfWrites ==
  ASSUME LegacyInv, writes # <<>>
  PROVE  /\ \E S : Tail(writes) \in Seq(S)
         /\ Len(writes) \in Nat \ {0} /\ Head(writes) = writes[1]
         /\ Len(Tail(writes)) = Len(writes) - 1
         /\ \A i \in 1..Len(Tail(writes)) : /\ i + 1 \in 1..Len(writes)
                                            /\ Tail(writes)[i] = writes[i + 1]
<1>1. PICK S : writes \in Seq(S)
  BY DEF LegacyInv, LegacyTypes
<1>2. /\ Tail(writes) \in Seq(S) /\ Len(Tail(writes)) = Len(writes) - 1
      /\ \A i \in 1..Len(Tail(writes)) : Tail(writes)[i] = writes[i + 1]
  BY <1>1, HeadTailProperties
<1>3. Len(writes) \in Nat \ {0} /\ Head(writes) = writes[1]
  BY <1>1, EmptySeq, LenProperties
<1>4. \A i \in 1..Len(Tail(writes)) : i + 1 \in 1..Len(writes)
  BY <1>2, <1>3
<1>5. QED
  BY <1>1, <1>2, <1>3, <1>4

\* When a request that read the spider has nothing to write.
LEMMA NothingToWrite ==
  ASSUME LegacyInv, opened, writes = <<>>
  PROVE  /\ Dumped
         /\ \A s \in DOMAIN given : read[s] # None => s \in pages
<1>1. Len(<<>>) = 0 /\ <<Legacy!WriteSpider(<<>>, TRUE)>> # <<>>
  OBVIOUS
<1>2. Dumped
  BY <1>1 DEF LegacyInv, Dumping, Working, Saving, Dumped
<1>3. QED
  BY <1>2 DEF LegacyInv, ReadSound, LegacyTypes

LEMMA DumpsAll ==
  ASSUME LegacyInv, NEW names \in Legacy!SetToSeqs(DOMAIN given)
  PROVE  LET dump == IF names = <<>> THEN <<>>
                     ELSE [i \in DOMAIN names |-> Legacy!WriteSample(names[i], given[names[i]])]
                            \o <<Legacy!WriteSpider(given, FALSE)>>
         IN  /\ \E S : dump \in Seq(S)
             /\ \A i \in 1..Len(dump) :
                  \/ \E s \in DOMAIN given : dump[i] = Legacy!WriteSample(s, given[s])
                  \/ dump[i] = Legacy!WriteSpider(given, FALSE)
             /\ \A s \in DOMAIN given : \E i \in 1..Len(dump) :
                  dump[i] = Legacy!WriteSample(s, given[s])
<1> DEFINE D == DOMAIN given
           n == Cardinality(D)
<1>1. IsFiniteSet(D)
  BY SampleAssumption, FS_Subset DEF LegacyInv, LegacyTypes
<1>2. n \in Nat /\ IsFiniteSet(1..n) /\ Cardinality(1..n) = n
  BY <1>1, FS_CardinalityType, FS_Interval
<1>3. names \in [1..n -> D] /\ \A i, j \in 1..n : i # j => names[i] # names[j]
  BY DEF Legacy!SetToSeqs, Legacy!Cardinality, Cardinality
<1>4. names \in Injection(1..n, D)
  BY <1>3 DEF Injection, IsInjective
<1>5. names \in Surjection(1..n, D)
  BY <1>1, <1>2, <1>4, FS_Injection
<1>6. \A s \in D : \E i \in 1..n : names[i] = s
  BY <1>5 DEF Surjection
<1> HIDE DEF n
<1>7. CASE names = <<>>
  <2>1. DOMAIN names = 1..n /\ DOMAIN names = {}
    BY <1>3, <1>7
  <2>2. D = {}
    BY <1>6, <2>1
  <2>3. <<>> \in Seq({}) /\ Len(<<>>) = 0
    OBVIOUS
  <2>4. QED
    BY <1>7, <2>2, <2>3
<1>8. CASE names # <<>>
  <2> DEFINE files == [i \in 1..n |-> Legacy!WriteSample(names[i], given[names[i]])]
             last == Legacy!WriteSpider(given, FALSE)
             S == {files[i] : i \in 1..n} \cup {last}
  <2>1. files \in [1..n -> S] /\ last \in S
        /\ \A i \in 1..n : files[i] = Legacy!WriteSample(names[i], given[names[i]])
    OBVIOUS
  <2>2. DOMAIN names = 1..n
    BY <1>3
  <2> HIDE DEF files, last, S
  <2>3. files \in Seq(S) /\ Len(files) = n /\ <<last>> \in Seq(S) /\ Len(<<last>>) = 1
        /\ <<last>>[1] = last
    BY <1>2, <2>1
  <2>4. /\ files \o <<last>> \in Seq(S) /\ Len(files \o <<last>>) = n + 1
        /\ \A i \in 1..n : (files \o <<last>>)[i] = files[i]
        /\ (files \o <<last>>)[n + 1] = last
    BY <1>2, <2>3, ConcatProperties
  <2>5. ASSUME NEW i \in 1..n + 1
        PROVE  \/ \E s \in D : (files \o <<last>>)[i] = Legacy!WriteSample(s, given[s])
               \/ (files \o <<last>>)[i] = last
    <3>1. i \in 1..n \/ i = n + 1
      BY <1>2
    <3>2. CASE i \in 1..n
      BY <1>3, <2>1, <2>4, <3>2
    <3>3. QED
      BY <2>4, <3>1, <3>2
  <2>6. ASSUME NEW s \in D
        PROVE  \E i \in 1..n + 1 : (files \o <<last>>)[i] = Legacy!WriteSample(s, given[s])
    <3>1. PICK i \in 1..n : names[i] = s
      BY <1>6
    <3>2. i \in 1..n + 1 /\ (files \o <<last>>)[i] = Legacy!WriteSample(s, given[s])
      BY <1>2, <2>1, <2>4, <3>1
    <3>3. QED
      BY <3>2
  <2>7. QED
    BY <1>8, <2>2, <2>4, <2>5, <2>6 DEF files, last
<1>9. QED
  BY <1>7, <1>8

LEMMA OpenSpiderKeeps ==
  ASSUME LegacyInv, Legacy!OpenSpider
  PROVE  LegacyInv'
<1>1. PICK names \in Legacy!SetToSeqs(DOMAIN templates) :
        writes' = Legacy!DumpTemplates(names)
  BY DEF Legacy!OpenSpider
<1>2. /\ ~opened /\ opened' = TRUE
      /\ UNCHANGED <<templates, file, pages, items, read, given, saved>>
  BY DEF Legacy!OpenSpider
<1>3. writes = <<>> /\ read = [s \in OldSample |-> None]
  BY <1>2 DEF LegacyInv
<1>4. CASE templates = <<>>
  <2>1. Dumped
    BY <1>4 DEF LegacyInv, Dumped
  <2>2. names = <<>>
    <3>1. names \in [1..Cardinality(DOMAIN templates) -> DOMAIN templates]
      BY DEF Legacy!SetToSeqs, Legacy!Cardinality, Cardinality
    <3>2. DOMAIN templates = {}
      BY <1>4
    <3>3. Cardinality(DOMAIN templates) = 0
      BY <3>2, FS_EmptySet
    <3>4. QED
      BY <3>1, <3>2, <3>3
  <2>3. writes' = <<>> /\ <<>> \in Seq({}) /\ Len(<<>>) = 0
    BY <1>1, <2>2 DEF Legacy!DumpTemplates
  <2>4. LegacyTypes' /\ FilesSound' /\ ReadSound'
    BY <1>2, <1>3, <2>3 DEF LegacyInv, LegacyTypes, FilesSound, ReadSound, SoundFor
  <2>5. Dumped' /\ Working'
    BY <1>2, <2>1, <2>3 DEF Dumped, Working
  <2>6. QED
    BY <1>2, <1>4, <2>4, <2>5 DEF LegacyInv
<1>5. CASE templates # <<>>
  <2>1. templates = given /\ ~saved
    BY <1>5 DEF LegacyInv
  <2>2. /\ \E S : writes' \in Seq(S)
        /\ \A i \in 1..Len(writes') :
             \/ \E s \in DOMAIN given : writes'[i] = Legacy!WriteSample(s, given[s])
             \/ writes'[i] = Legacy!WriteSpider(given, FALSE)
        /\ \A s \in DOMAIN given : \E i \in 1..Len(writes') :
             writes'[i] = Legacy!WriteSample(s, given[s])
    <3>1. names \in Legacy!SetToSeqs(DOMAIN given)
      BY <2>1
    <3>2. writes' = IF names = <<>> THEN <<>>
                    ELSE [i \in DOMAIN names |-> Legacy!WriteSample(names[i], given[names[i]])]
                           \o <<Legacy!WriteSpider(given, FALSE)>>
      BY <1>1, <2>1 DEF Legacy!DumpTemplates
    <3>3. QED
      BY <3>1, <3>2, DumpsAll
  <2>3. LegacyTypes' /\ FilesSound' /\ ReadSound'
    BY <1>2, <1>3, <2>2 DEF LegacyInv, LegacyTypes, FilesSound, ReadSound, SoundFor
  <2>4. Dumping'
    BY <1>2, <1>3, <2>1, <2>2 DEF Dumping, Legacy!WriteSample, Legacy!WriteSpider
  <2>5. QED
    BY <1>2, <2>1, <2>3, <2>4 DEF LegacyInv
<1>6. QED
  BY <1>4, <1>5

LEMMA EndOfLegacyKeeps ==
  ASSUME LegacyInv, Legacy!End
  PROVE  LegacyInv'
<1>1. /\ opened' = FALSE /\ writes' = <<>> /\ read' = [s \in OldSample |-> None]
      /\ UNCHANGED <<templates, file, pages, items, given, saved>>
  BY DEF Legacy!End
<1>2. <<>> \in Seq({})
  OBVIOUS
<1>3. LegacyTypes' /\ FilesSound' /\ ReadSound'
  BY <1>1, <1>2 DEF LegacyInv, LegacyTypes, FilesSound, ReadSound, SoundFor
<1>4. QED
  BY <1>1, <1>3 DEF LegacyInv, Dumped

LEMMA SaveSpiderKeeps ==
  ASSUME LegacyInv, Legacy!SaveSpider
  PROVE  LegacyInv'
<1>1. /\ opened /\ writes = <<>> /\ writes' = <<Legacy!WriteSpider(<<>>, TRUE)>>
      /\ UNCHANGED <<templates, file, pages, items, opened, read, given, saved>>
  BY DEF Legacy!SaveSpider, Legacy!FieldsOfSpider
<1>2. Dumped /\ \A s \in DOMAIN given : read[s] # None => s \in pages
  BY <1>1, NothingToWrite
<1>3. <<Legacy!WriteSpider(<<>>, TRUE)>> \in Seq({Legacy!WriteSpider(<<>>, TRUE)})
  OBVIOUS
<1>4. LegacyTypes' /\ FilesSound'
  BY <1>1, <1>3 DEF LegacyInv, LegacyTypes, FilesSound, SoundFor
<1>5. ReadSound'
  BY <1>1, <1>2 DEF LegacyInv, ReadSound, SoundFor
<1>6. Dumped' /\ Saving'
  BY <1>1, <1>2 DEF Dumped, Saving, Legacy!WriteSpider
<1>7. QED
  BY <1>1, <1>2, <1>4, <1>5, <1>6 DEF LegacyInv

\* What is read of a sample.
LEMMA ReadIsSound ==
  ASSUME LegacyInv, NEW s \in OldSample, file[s] # None,
         NEW schema \in Legacy!GuessSchema(file[s])
  PROVE  LET sample == Legacy!ReadAs(file[s], schema) IN
         /\ sample \in Legacy!Samples /\ sample # None
         /\ sample.edits = file[s].edits
         /\ s \in DOMAIN given =>
              /\ SoundFor(s, sample)
              /\ given[s].version = "old" /\ items # {} => sample.schema \in items
<1> DEFINE x == file[s]
           sample == Legacy!ReadAs(x, schema)
<1>1. x \in Legacy!Samples
  BY DEF LegacyInv, LegacyTypes
<1>2. schema \in OldSchema \cup {"default"} /\ (items # {} => schema \in items)
  BY DEF Legacy!GuessSchema, LegacyInv, LegacyTypes
<1>3. s \in DOMAIN given => SoundFor(s, x)
  BY DEF LegacyInv, FilesSound
<1> HIDE DEF x
<1>4. CASE x.version # "old"
  <2>1. sample = x
    BY <1>4 DEF Legacy!ReadAs
  <2>2. QED
    BY <1>1, <1>3, <1>4, <2>1, SampleAssumption DEF SoundFor, x
<1>5. CASE x.version = "old" /\ x.notes = "items"
  <2>1. sample = [x EXCEPT !.notes = "none"]
    BY <1>5 DEF Legacy!ReadAs
  <2>2. sample \in Legacy!Samples
    BY <1>1, <2>1 DEF Legacy!Samples
  <2>3. /\ sample.version = "old" /\ sample.notes = "none" /\ sample.page = x.page
        /\ sample.schema = x.schema /\ sample.edits = x.edits
    BY <1>1, <1>5, <2>1 DEF Legacy!Samples
  <2> HIDE DEF sample
  <2>4. s \in DOMAIN given =>
          /\ SoundFor(s, sample)
          /\ given[s].version = "old" /\ items # {} => sample.schema \in items
    BY <1>3, <1>5, <2>3 DEF SoundFor, Legacy!HasAnnotations
  <2>5. QED
    BY <2>2, <2>3, <2>4, SampleAssumption DEF sample, x
<1>6. CASE x.version = "old" /\ x.notes # "items"
  <2>1. sample = Legacy!SampleOf(IF x.notes = "body" THEN "new" ELSE x.version, "items",
                                 FALSE, schema, x.edits)
    BY <1>6 DEF Legacy!ReadAs, Legacy!PortSample
  <2>2. sample \in Legacy!Samples
    BY <1>1, <1>2, <2>1 DEF Legacy!Samples, Legacy!SampleOf
  <2>3. /\ sample.version = (IF x.notes = "body" THEN "new" ELSE x.version)
        /\ sample.notes = "items" /\ sample.page = FALSE
        /\ sample.schema = schema /\ sample.edits = x.edits
    BY <2>1 DEF Legacy!SampleOf
  <2> HIDE DEF sample
  <2>4. s \in DOMAIN given =>
          /\ SoundFor(s, sample)
          /\ given[s].version = "old" /\ items # {} => sample.schema \in items
    BY <1>2, <1>3, <1>6, <2>3 DEF SoundFor, Legacy!HasAnnotations
  <2>5. QED
    BY <2>2, <2>3, <2>4, SampleAssumption DEF sample, x
<1>7. QED
  BY <1>4, <1>5, <1>6

LEMMA OpenSampleKeeps ==
  ASSUME LegacyInv, NEW s \in OldSample, Legacy!OpenSample(s)
  PROVE  LegacyInv'
<1>1. PICK schema \in Legacy!GuessSchema(file[s]) :
        /\ read' = [read EXCEPT ![s] = Legacy!ReadAs(file[s], schema)]
        /\ writes' = Legacy!MigrateSample(s, Legacy!ReadAs(file[s], schema))
  BY DEF Legacy!OpenSample
<1> DEFINE sample == Legacy!ReadAs(file[s], schema)
           page == Legacy!WritePage(s)
           write == Legacy!WriteSample(s, sample)
<1>2. /\ opened /\ read[s] = None /\ writes = <<>> /\ file[s] # None
      /\ UNCHANGED <<templates, file, pages, items, opened, given, saved>>
  BY DEF Legacy!OpenSample
<1>3. /\ sample \in Legacy!Samples /\ sample # None
      /\ sample.edits = file[s].edits
      /\ s \in DOMAIN given =>
           /\ SoundFor(s, sample)
           /\ given[s].version = "old" /\ items # {} => sample.schema \in items
  BY <1>2, ReadIsSound
<1>4. Dumped /\ \A t \in DOMAIN given : read[t] # None => t \in pages
  BY <1>2, NothingToWrite
<1>5. ASSUME s \in DOMAIN given, s \notin pages
      PROVE  Legacy!HasPageInside(file[s]) /\ file[s].page
  BY <1>2, <1>5 DEF LegacyInv, FilesSound, SoundFor, Legacy!HasPageInside
<1> HIDE DEF sample, page, write
<1>6. /\ writes' \in Seq({page, write})
      /\ \A i \in 1..Len(writes') : writes'[i] = page \/ writes'[i] = write
      /\ s \in DOMAIN given /\ s \notin pages => writes' # <<>> /\ writes'[1] = page
  <2>1. \E P \in {<<>>, <<page>>}, W \in {<<>>, <<write>>} :
          /\ writes' = P \o W
          /\ s \in DOMAIN given /\ s \notin pages => P = <<page>>
    BY <1>1, <1>5 DEF Legacy!MigrateSample, sample, page, write
  <2>2. \/ writes' = <<>> /\ (s \in DOMAIN given => s \in pages)
        \/ writes' = <<write>> /\ (s \in DOMAIN given => s \in pages)
        \/ writes' = <<page>> \/ writes' = <<page, write>>
    <3>1. /\ <<>> \o <<>> = <<>> /\ <<>> \o <<write>> = <<write>>
          /\ <<page>> \o <<>> = <<page>> /\ <<page>> \o <<write>> = <<page, write>>
          /\ <<page>> # <<>>
      <4>1. <<>> \in Seq({page, write}) /\ <<page>> \in Seq({page, write})
            /\ <<write>> \in Seq({page, write})
        OBVIOUS
      <4>2. Append(<<page>>, write) = <<page, write>>
        <5>1. /\ <<page, write>> \in Seq({page, write}) /\ Len(<<page, write>>) = 2
              /\ <<page, write>>[1] = page /\ <<page, write>>[2] = write
              /\ Len(<<page>>) = 1 /\ <<page>>[1] = page
          OBVIOUS
        <5>2. /\ Append(<<page>>, write) \in Seq({page, write})
              /\ Len(Append(<<page>>, write)) = 2
              /\ Append(<<page>>, write)[1] = page /\ Append(<<page>>, write)[2] = write
          BY <4>1, <5>1, AppendProperties
        <5> DEFINE one == Append(<<page>>, write)
                   other == <<page, write>>
        <5>3. /\ one \in Seq({page, write}) /\ other \in Seq({page, write})
              /\ Len(one) = 2 /\ Len(other) = 2
              /\ one[1] = other[1] /\ one[2] = other[2]
          BY <5>1, <5>2
        <5> HIDE DEF one, other
        <5>4. \A i \in 1..Len(one) : one[i] = other[i]
          BY <5>3
        <5>5. one = other
          BY <5>3, <5>4, SeqEqual
        <5>6. QED
          BY <5>5 DEF one, other
      <4>4. <<page>> # <<>>
        <5>1. Len(<<page>>) = 1 /\ Len(<<>>) = 0
          OBVIOUS
        <5>2. QED
          BY <5>1
      <4>3. Append(<<page>>, write) = <<page>> \o <<write>>
        BY <4>1, AppendIsConcat
      <4>5. QED
        BY <4>1, <4>2, <4>3, <4>4, ConcatEmptySeq
    <3>2. QED
      BY <2>1, <3>1
  <2>3. CASE writes' = <<>> /\ (s \in DOMAIN given => s \in pages)
    BY <2>3
  <2>4. CASE writes' = <<write>> /\ (s \in DOMAIN given => s \in pages)
    BY <2>4
  <2>5. CASE writes' = <<page>>
    BY <2>5
  <2>6. CASE writes' = <<page, write>>
    BY <2>6
  <2>7. QED
    BY <2>2, <2>3, <2>4, <2>5, <2>6
<1>7. read' \in [OldSample -> Legacy!Samples \cup {None}] /\ read'[s] = sample
      /\ \A t \in OldSample \ {s} : read'[t] = read[t]
  BY <1>1, <1>3 DEF LegacyInv, LegacyTypes, sample
<1>8. LegacyTypes' /\ FilesSound'
  BY <1>2, <1>6, <1>7 DEF LegacyInv, LegacyTypes, FilesSound, SoundFor
<1>9. ReadSound'
  <2>1. ASSUME NEW t \in OldSample \ {s}, read[t] # None
        PROVE  /\ file[t] # None => read[t].edits >= file[t].edits
               /\ t \in DOMAIN given =>
                    /\ SoundFor(t, read[t])
                    /\ given[t].version = "old" /\ items # {} => read[t].schema \in items
                    /\ t \in pages
    BY <1>4, <2>1 DEF LegacyInv, ReadSound
  <2>2. sample.edits >= file[s].edits
    <3>1. file[s].edits \in Nat
      BY <1>2 DEF LegacyInv, LegacyTypes, Legacy!Samples
    <3>2. QED
      BY <1>3, <3>1
  <2>3. \A t, x : SoundFor(t, x)' <=> SoundFor(t, x)
    BY <1>2 DEF SoundFor
  <2>4. QED
    BY <1>2, <1>3, <1>6, <1>7, <2>1, <2>2, <2>3 DEF ReadSound, page
<1>10. Dumped' /\ Working'
  BY <1>2, <1>3, <1>4, <1>6, <1>7 DEF Dumped, Working, page, write
<1>11. QED
  BY <1>2, <1>8, <1>9, <1>10 DEF LegacyInv

LEMMA EditSampleKeeps ==
  ASSUME LegacyInv, NEW s \in OldSample, Legacy!EditSample(s)
  PROVE  LegacyInv'
<1> DEFINE x == read[s]
           sample == Legacy!Edited(x)
           write == Legacy!WriteSample(s, sample)
<1>1. /\ x # None /\ writes = <<>> /\ read' = [read EXCEPT ![s] = sample]
      /\ UNCHANGED <<templates, file, pages, items, opened, given, saved>>
  BY DEF Legacy!EditSample
<1>2. x \in Legacy!Samples
  BY <1>1 DEF LegacyInv, LegacyTypes
<1>3. opened
  BY <1>1 DEF LegacyInv
<1>4. Dumped /\ \A t \in DOMAIN given : read[t] # None => t \in pages
  BY <1>1, <1>3, NothingToWrite
<1>5. /\ sample \in Legacy!Samples /\ sample.version = "new" /\ sample.page = FALSE
      /\ sample.notes = x.notes /\ sample.schema = x.schema
      /\ sample.edits = x.edits + 1
  BY <1>2 DEF Legacy!Edited, Legacy!SampleOf, Legacy!Samples
<1>6. /\ file[s] # None => x.edits >= file[s].edits
      /\ s \in DOMAIN given =>
           /\ SoundFor(s, x)
           /\ given[s].version = "old" /\ items # {} => x.schema \in items
  BY <1>1 DEF LegacyInv, ReadSound
<1> HIDE DEF x, sample
<1>7. /\ sample # None
      /\ file[s] # None => sample.edits >= file[s].edits
      /\ s \in DOMAIN given =>
           /\ SoundFor(s, sample)
           /\ given[s].version = "old" /\ items # {} => sample.schema \in items
  <2>1. sample # None
    BY <1>5, SampleAssumption
  <2>2. ASSUME file[s] # None PROVE sample.edits >= file[s].edits
    <3>1. file[s].edits \in Nat /\ x.edits \in Nat
      BY <1>2, <2>2 DEF LegacyInv, LegacyTypes, Legacy!Samples
    <3>2. QED
      BY <1>5, <1>6, <2>2, <3>1
  <2>3. Legacy!HasAnnotations(x) => Legacy!HasAnnotations(sample)
    BY <1>5 DEF Legacy!HasAnnotations
  <2>4. QED
    BY <1>5, <1>6, <2>1, <2>2, <2>3 DEF SoundFor
<1>8. /\ read' \in [OldSample -> Legacy!Samples \cup {None}] /\ read'[s] = sample
      /\ \A t \in OldSample \ {s} : read'[t] = read[t]
  BY <1>1, <1>5 DEF LegacyInv, LegacyTypes
<1>9. writes' = <<write>>
  BY <1>8 DEF Legacy!EditSample, write
<1> HIDE DEF write
<1>10. /\ writes' \in Seq({write}) /\ writes' # <<>>
       /\ \A i \in 1..Len(writes') : writes'[i] = write
  BY <1>9
<1>11. LegacyTypes' /\ FilesSound'
  BY <1>1, <1>8, <1>10 DEF LegacyInv, LegacyTypes, FilesSound, SoundFor
<1>12. ReadSound'
  <2>1. ASSUME NEW t \in OldSample \ {s}, read[t] # None
        PROVE  /\ file[t] # None => read[t].edits >= file[t].edits
               /\ t \in DOMAIN given =>
                    /\ SoundFor(t, read[t])
                    /\ given[t].version = "old" /\ items # {} => read[t].schema \in items
                    /\ t \in pages
    BY <1>4, <2>1 DEF LegacyInv, ReadSound
  <2>2. s \in DOMAIN given => s \in pages
    BY <1>1, <1>4 DEF x
  <2>3. \A t, y : SoundFor(t, y)' <=> SoundFor(t, y)
    BY <1>1 DEF SoundFor
  <2>4. QED
    BY <1>1, <1>7, <1>8, <2>1, <2>2, <2>3 DEF ReadSound
<1>13. Dumped' /\ Working'
  BY <1>1, <1>3, <1>4, <1>7, <1>8, <1>10 DEF Dumped, Working, write
<1>14. QED
  BY <1>1, <1>3, <1>4, <1>11, <1>12, <1>13 DEF LegacyInv

LEMMA AddSampleKeeps ==
  ASSUME LegacyInv, NEW s \in OldSample, Legacy!AddSample(s)
  PROVE  LegacyInv'
<1> DEFINE write == Legacy!WriteSample(s, Legacy!Sample0)
           page == Legacy!WritePage(s)
<1>1. /\ opened /\ writes = <<>> /\ file[s] = None
      /\ read' = [read EXCEPT ![s] = Legacy!Sample0] /\ writes' = <<write, page>>
      /\ UNCHANGED <<templates, file, pages, items, opened, given, saved>>
  BY DEF Legacy!AddSample
<1>2. Dumped /\ \A t \in DOMAIN given : read[t] # None => t \in pages
  BY <1>1, NothingToWrite
<1>3. s \notin DOMAIN given
  BY <1>1, <1>2 DEF Dumped
<1>4. Legacy!Sample0 \in Legacy!Samples
  BY DEF Legacy!Sample0, Legacy!SampleOf, Legacy!Samples
<1>5. /\ read' \in [OldSample -> Legacy!Samples \cup {None}]
      /\ read'[s] = Legacy!Sample0 /\ Legacy!Sample0 # None
      /\ \A t \in OldSample \ {s} : read'[t] = read[t]
  BY <1>1, <1>4, SampleAssumption DEF LegacyInv, LegacyTypes
<1> HIDE DEF write, page
<1>6. /\ writes' \in Seq({write, page})
      /\ \A i \in 1..Len(writes') : writes'[i] = write \/ writes'[i] = page
  BY <1>1
<1>7. LegacyTypes' /\ FilesSound'
  BY <1>1, <1>5, <1>6 DEF LegacyInv, LegacyTypes, FilesSound, SoundFor
<1>8. ReadSound'
  <2>1. ASSUME NEW t \in OldSample \ {s}, read[t] # None
        PROVE  /\ file[t] # None => read[t].edits >= file[t].edits
               /\ t \in DOMAIN given =>
                    /\ SoundFor(t, read[t])
                    /\ given[t].version = "old" /\ items # {} => read[t].schema \in items
                    /\ t \in pages
    BY <1>2, <2>1 DEF LegacyInv, ReadSound
  <2>2. \A t, y : SoundFor(t, y)' <=> SoundFor(t, y)
    BY <1>1 DEF SoundFor
  <2>3. QED
    BY <1>1, <1>3, <1>5, <2>1, <2>2 DEF ReadSound
<1>9. Dumped' /\ Working'
  BY <1>1, <1>2, <1>5, <1>6 DEF Dumped, Working, page, write
<1>10. QED
  BY <1>1, <1>2, <1>7, <1>8, <1>9 DEF LegacyInv

EditsKept ==
  saved => \A s \in OldSample : file[s] # None => file'[s].edits >= file[s].edits

LEMMA HeadIsWritten ==
  ASSUME LegacyInv, Legacy!Write
  PROVE  LET w == writes[1] IN
         /\ w.what = "spider" => templates' = w.to /\ UNCHANGED <<file, pages>>
         /\ w.what = "sample" => /\ file' = [file EXCEPT ![w.of] = w.to]
                                /\ UNCHANGED <<templates, pages, saved>>
         /\ w.what = "page" => /\ pages' = pages \cup {w.of}
                              /\ UNCHANGED <<templates, file, saved>>
         /\ w.what = "spider" /\ w.of = FALSE => UNCHANGED saved
         /\ w.what = "spider" /\ w.of = TRUE => saved' = TRUE
<1> DEFINE w == writes[1]
<1>1. /\ templates' = (IF w.what = "spider" THEN w.to ELSE templates)
      /\ saved' = (saved \/ (w.what = "spider" /\ w.of))
      /\ file' = (IF w.what = "sample" THEN [file EXCEPT ![w.of] = w.to] ELSE file)
      /\ pages' = (IF w.what = "page" THEN pages \cup {w.of} ELSE pages)
  BY RestOfWrites DEF Legacy!Write
<1>2. saved \in BOOLEAN
  BY DEF LegacyInv, LegacyTypes
<1> HIDE DEF w
<1>3. /\ w.what = "spider" => templates' = w.to /\ UNCHANGED <<file, pages>>
      /\ w.what = "sample" => /\ file' = [file EXCEPT ![w.of] = w.to]
                             /\ UNCHANGED <<templates, pages>>
      /\ w.what = "page" => /\ pages' = pages \cup {w.of}
                           /\ UNCHANGED <<templates, file>>
  BY <1>1
<1>4. w.what # "spider" => UNCHANGED saved
  BY <1>1, <1>2, Zenon
<1>5. w.what = "spider" /\ w.of = FALSE => UNCHANGED saved
  BY <1>1, <1>2, Zenon
<1>6. w.what = "spider" /\ w.of = TRUE => saved' = TRUE
  BY <1>1, <1>2, Zenon
<1>7. QED
  BY <1>3, <1>4, <1>5, <1>6 DEF w

\* A write of the dump: the sample as the spider has it, or the spider.
LEMMA DumpWriteKeeps ==
  ASSUME LegacyInv, Legacy!Write, Dumping
  PROVE  LegacyInv' /\ EditsKept
<1> DEFINE w == writes[1]
<1>1. /\ writes # <<>> /\ writes' = Tail(writes) /\ opened /\ ~saved
      /\ UNCHANGED <<items, opened, read, given>>
  BY RestOfWrites DEF Legacy!Write, Dumping
<1>2. /\ \E S : writes' \in Seq(S)
      /\ Len(writes) \in Nat \ {0} /\ Len(writes') = Len(writes) - 1
      /\ \A i \in 1..Len(writes') : i + 1 \in 1..Len(writes) /\ writes'[i] = writes[i + 1]
  BY <1>1, RestOfWrites
<1>3. \A t, x : SoundFor(t, x)' <=> SoundFor(t, x)
  BY <1>1 DEF SoundFor
<1>4. \/ \E s \in DOMAIN given : w = Legacy!WriteSample(s, given[s])
      \/ w = Legacy!WriteSpider(given, FALSE)
  <2>1. 1 \in 1..Len(writes)
    BY <1>2
  <2>2. QED
    BY <2>1 DEF Dumping
<1>5. \A i \in 1..Len(writes') :
        \/ \E s \in DOMAIN given : writes'[i] = Legacy!WriteSample(s, given[s])
        \/ writes'[i] = Legacy!WriteSpider(given, FALSE)
  BY <1>2 DEF Dumping
<1>6. ASSUME NEW s \in DOMAIN given, file'[s] = None,
             w # Legacy!WriteSample(s, given[s]), file'[s] = file[s]
      PROVE  \E i \in 1..Len(writes') : writes'[i] = Legacy!WriteSample(s, given[s])
  <2>1. PICK i \in 1..Len(writes) : writes[i] = Legacy!WriteSample(s, given[s])
    BY <1>6 DEF Dumping
  <2>2. i # 1
    BY <1>6, <2>1
  <2>3. i - 1 \in 1..Len(writes') /\ (i - 1) + 1 = i
    BY <1>2, <2>2
  <2>4. writes'[i - 1] = Legacy!WriteSample(s, given[s])
    BY <1>2, <2>1, <2>3
  <2>5. QED
    BY <2>3, <2>4
<1>7. read' = [s \in OldSample |-> None] /\ templates = given
  BY <1>1 DEF Dumping
<1> HIDE DEF w
<1>8. ReadSound'
  BY <1>7 DEF ReadSound
<1>9. CASE w = Legacy!WriteSpider(given, FALSE)
  <2>1. w.what = "spider" /\ w.to = given /\ w.of = FALSE
    BY <1>9 DEF Legacy!WriteSpider
  <2>2. UNCHANGED <<file, pages, saved>> /\ templates' = given
    BY <2>1, HeadIsWritten DEF w
  <2>3. LegacyTypes' /\ FilesSound'
    BY <1>1, <1>2, <1>3, <2>2 DEF LegacyInv, LegacyTypes, FilesSound
  <2>4. \A s \in DOMAIN given : w # Legacy!WriteSample(s, given[s])
    BY <2>1 DEF Legacy!WriteSample
  <2>5. Dumping'
    BY <1>1, <1>5, <1>6, <1>7, <2>2, <2>4
       DEF Dumping, Legacy!WriteSample, Legacy!WriteSpider
  <2>6. QED
    BY <1>1, <1>8, <2>2, <2>3, <2>5 DEF LegacyInv, EditsKept
<1>10. CASE \E s \in DOMAIN given : w = Legacy!WriteSample(s, given[s])
  <2>1. PICK s \in DOMAIN given : w = Legacy!WriteSample(s, given[s])
    BY <1>10
  <2>2. w.what = "sample" /\ w.to = given[s] /\ w.of = s
    BY <2>1 DEF Legacy!WriteSample
  <2>3. /\ UNCHANGED <<templates, pages, saved>>
        /\ file' = [file EXCEPT ![s] = given[s]]
    BY <2>2, HeadIsWritten DEF w
  <2>4. s \in OldSample /\ given[s] \in Legacy!Samples /\ given[s] # None
    BY SampleAssumption DEF LegacyInv, LegacyTypes
  <2>5. /\ file' \in [OldSample -> Legacy!Samples \cup {None}] /\ file'[s] = given[s]
        /\ \A t \in OldSample \ {s} : file'[t] = file[t]
    BY <2>3, <2>4 DEF LegacyInv, LegacyTypes
  <2>6. LegacyTypes'
    BY <1>1, <1>2, <2>3, <2>5 DEF LegacyInv, LegacyTypes
  <2>7. FilesSound'
    <3>1. DOMAIN given \subseteq OldSample
      BY DEF LegacyInv, LegacyTypes
    <3>2. SoundFor(s, given[s]) /\ given[s].page
      BY DEF LegacyInv, FilesSound
    <3>3. QED
      BY <1>1, <1>3, <2>3, <2>5, <3>1, <3>2 DEF LegacyInv, FilesSound
  <2>8. \A t \in DOMAIN given : t # s => w # Legacy!WriteSample(t, given[t])
    BY <2>2 DEF Legacy!WriteSample
  <2>9. ASSUME NEW t \in DOMAIN given
        PROVE  file'[t] # None \/
               \E i \in 1..Len(writes') : writes'[i] = Legacy!WriteSample(t, given[t])
    <3>1. t \in OldSample
      BY DEF LegacyInv, LegacyTypes
    <3>2. QED
      BY <1>6, <2>4, <2>5, <2>8, <3>1
  <2>10. Dumping'
    BY <1>1, <1>5, <1>7, <2>3, <2>9 DEF Dumping, Legacy!WriteSample, Legacy!WriteSpider
  <2>11. QED
    BY <1>1, <1>7, <1>8, <2>3, <2>6, <2>7, <2>10 DEF LegacyInv, EditsKept
<1>11. QED
  BY <1>4, <1>9, <1>10

\* A write of a sample as the request has it, or of its page.
LEMMA SampleWriteKeeps ==
  ASSUME LegacyInv, Legacy!Write, Working
  PROVE  LegacyInv' /\ EditsKept
<1> DEFINE w == writes[1]
<1>1. /\ writes # <<>> /\ writes' = Tail(writes) /\ opened /\ Dumped
      /\ UNCHANGED <<items, opened, read, given>>
  BY RestOfWrites DEF Legacy!Write, Working
<1>2. /\ \E S : writes' \in Seq(S)
      /\ Len(writes) \in Nat \ {0} /\ Len(writes') = Len(writes) - 1
      /\ \A i \in 1..Len(writes') : i + 1 \in 1..Len(writes) /\ writes'[i] = writes[i + 1]
  BY <1>1, RestOfWrites
<1>3. \A t, x : SoundFor(t, x)' <=> SoundFor(t, x)
  BY <1>1 DEF SoundFor
<1>4. PICK s \in OldSample : \/ w = Legacy!WritePage(s)
                             \/ read[s] # None /\ w = Legacy!WriteSample(s, read[s])
  <2>1. 1 \in 1..Len(writes)
    BY <1>2
  <2>2. QED
    BY <2>1 DEF Working
<1>5. \A i \in 1..Len(writes') :
        \E t \in OldSample : \/ writes'[i] = Legacy!WritePage(t)
                             \/ /\ read[t] # None
                                /\ writes'[i] = Legacy!WriteSample(t, read[t])
  BY <1>2 DEF Working
<1>6. ASSUME NEW t \in OldSample, read[t] # None
      PROVE  /\ file[t] # None => read[t].edits >= file[t].edits
             /\ t \in DOMAIN given =>
                  /\ SoundFor(t, read[t])
                  /\ given[t].version = "old" /\ items # {} => read[t].schema \in items
                  /\ t \in pages \/ w = Legacy!WritePage(t)
  BY <1>6 DEF LegacyInv, ReadSound
<1>7. DOMAIN given \subseteq OldSample
  BY DEF LegacyInv, LegacyTypes
<1>8. \A t \in OldSample : file[t] # None => file[t].edits >= file[t].edits
  <2>1. \A t \in OldSample : file[t] # None => file[t].edits \in Nat
    BY DEF LegacyInv, LegacyTypes, Legacy!Samples
  <2>2. QED
    BY <2>1
<1> HIDE DEF w
<1>9. CASE w = Legacy!WritePage(s)
  <2>1. w.what = "page" /\ w.of = s
    BY <1>9 DEF Legacy!WritePage
  <2>2. UNCHANGED <<file, templates, saved>> /\ pages' = pages \cup {s}
    BY <2>1, HeadIsWritten DEF w
  <2>3. LegacyTypes' /\ FilesSound'
    BY <1>1, <1>2, <1>3, <2>2 DEF LegacyInv, LegacyTypes, FilesSound
  <2>4. ReadSound'
    <3>1. \A t : w = Legacy!WritePage(t) => t = s
      BY <2>1 DEF Legacy!WritePage
    <3>2. QED
      BY <1>1, <1>3, <1>6, <2>2, <3>1 DEF ReadSound
  <2>5. Dumped' /\ Working'
    BY <1>1, <1>5, <2>2 DEF Dumped, Working, Legacy!WritePage, Legacy!WriteSample
  <2>6. QED
    BY <1>1, <1>8, <2>2, <2>3, <2>4, <2>5 DEF LegacyInv, EditsKept
<1>10. CASE read[s] # None /\ w = Legacy!WriteSample(s, read[s])
  <2>1. w.what = "sample" /\ w.of = s /\ w.to = read[s]
    BY <1>10 DEF Legacy!WriteSample
  <2>2. UNCHANGED <<pages, templates, saved>> /\ file' = [file EXCEPT ![s] = read[s]]
    BY <2>1, HeadIsWritten DEF w
  <2>3. /\ file' \in [OldSample -> Legacy!Samples \cup {None}] /\ file'[s] = read[s]
        /\ \A t \in OldSample \ {s} : file'[t] = file[t]
    BY <2>2 DEF LegacyInv, LegacyTypes
  <2>4. \A t : w # Legacy!WritePage(t)
    BY <2>1 DEF Legacy!WritePage
  <2>5. LegacyTypes'
    BY <1>1, <1>2, <2>2, <2>3 DEF LegacyInv, LegacyTypes
  <2>6. FilesSound'
    <3>1. s \in DOMAIN given => SoundFor(s, read[s]) /\ s \in pages
      BY <1>6, <1>10, <2>4
    <3>2. \A t \in DOMAIN given : t = s \/ t \in OldSample \ {s}
      BY <1>7
    <3>3. QED
      BY <1>1, <1>3, <2>2, <2>3, <3>1, <3>2 DEF LegacyInv, FilesSound
  <2>7. ReadSound'
    <3>1. read[s].edits >= read[s].edits
      <4>1. read[s].edits \in Nat
        BY <1>10 DEF LegacyInv, LegacyTypes, Legacy!Samples
      <4>2. QED
        BY <4>1
    <3>2. QED
      BY <1>1, <1>3, <1>6, <2>2, <2>3, <2>4, <3>1 DEF ReadSound
  <2>8. Dumped'
    BY <1>1, <1>7, <1>10, <2>3 DEF Dumped
  <2>9. Working'
    BY <1>1, <1>5, <2>8 DEF Working, Legacy!WritePage, Legacy!WriteSample
  <2>10. EditsKept
    BY <1>6, <1>8, <1>10, <2>3 DEF EditsKept
  <2>11. QED
    BY <1>1, <2>2, <2>5, <2>6, <2>7, <2>8, <2>9, <2>10 DEF LegacyInv
<1>11. QED
  BY <1>4, <1>9, <1>10
\* The write of the spider: its templates are dropped.
LEMMA SavingWriteKeeps ==
  ASSUME LegacyInv, Legacy!Write, Saving
  PROVE  LegacyInv' /\ EditsKept
<1> DEFINE w == writes[1]
<1>1. /\ writes' = Tail(writes) /\ opened /\ Dumped /\ writes = <<Legacy!WriteSpider(<<>>, TRUE)>>
      /\ UNCHANGED <<items, opened, read, given>>
  BY DEF Legacy!Write, Saving
<1>2. Tail(<<Legacy!WriteSpider(<<>>, TRUE)>>) = <<>>
      /\ <<Legacy!WriteSpider(<<>>, TRUE)>>[1] = Legacy!WriteSpider(<<>>, TRUE)
  OBVIOUS
<1>3. writes' = <<>> /\ <<>> \in Seq({}) /\ Len(<<>>) = 0
  BY <1>1, <1>2
<1>4. w = Legacy!WriteSpider(<<>>, TRUE)
  BY <1>1, <1>2
<1>5. w.what = "spider" /\ w.to = <<>> /\ w.of = TRUE
  BY <1>4 DEF Legacy!WriteSpider
<1>6. /\ UNCHANGED <<file, pages>> /\ templates' = <<>> /\ saved' = TRUE
  BY <1>5, HeadIsWritten DEF w
<1>7. \A t, x : SoundFor(t, x)' <=> SoundFor(t, x)
  BY <1>1 DEF SoundFor
<1>8. \A t : Legacy!WriteSpider(<<>>, TRUE) # Legacy!WritePage(t)
  BY <1>2 DEF Legacy!WriteSpider, Legacy!WritePage
<1>9. \A t \in DOMAIN given : read[t] # None => t \in pages
  <2>1. DOMAIN given \subseteq OldSample
    BY DEF LegacyInv, LegacyTypes
  <2>2. QED
    BY <1>1, <1>2, <1>8, <2>1 DEF LegacyInv, ReadSound
<1>10. LegacyTypes' /\ FilesSound'
  BY <1>1, <1>3, <1>6, <1>7 DEF LegacyInv, LegacyTypes, FilesSound
<1>11. ReadSound'
  BY <1>1, <1>6, <1>7, <1>9 DEF LegacyInv, ReadSound
<1>12. Dumped' /\ Working'
  BY <1>1, <1>3, <1>6 DEF Dumped, Working
<1>13. EditsKept
  <2>1. \A t \in OldSample : file[t] # None => file[t].edits \in Nat
    BY DEF LegacyInv, LegacyTypes, Legacy!Samples
  <2>2. QED
    BY <1>6, <2>1 DEF EditsKept
<1>14. QED
  BY <1>1, <1>6, <1>10, <1>11, <1>12, <1>13 DEF LegacyInv

LEMMA LegacyStepKeeps ==
  ASSUME LegacyInv, [Next]_vars
  PROVE  LegacyInv' /\ (UNCHANGED Legacy!vars \/ EditsKept)
<1>1. CASE part = "legacy" /\ Legacy!Next
  <2>1. ASSUME UNCHANGED file
        PROVE  EditsKept
    <3>1. \A t \in OldSample : file[t] # None => file[t].edits \in Nat
      BY DEF LegacyInv, LegacyTypes, Legacy!Samples
    <3>2. QED
      BY <2>1, <3>1 DEF EditsKept
  <2>2. CASE Legacy!OpenSpider
    BY <2>1, <2>2, OpenSpiderKeeps DEF Legacy!OpenSpider
  <2>3. CASE Legacy!SaveSpider
    BY <2>1, <2>3, SaveSpiderKeeps DEF Legacy!SaveSpider
  <2>4. CASE Legacy!Write
    <3>1. opened
      BY <2>4 DEF LegacyInv, Legacy!Write
    <3>2. Dumping \/ Working \/ Saving
      BY <3>1 DEF LegacyInv
    <3>3. QED
      BY <2>4, <3>2, DumpWriteKeeps, SampleWriteKeeps, SavingWriteKeeps
  <2>5. CASE Legacy!End
    BY <2>1, <2>5, EndOfLegacyKeeps DEF Legacy!End
  <2>6. ASSUME NEW s \in OldSample, Legacy!OpenSample(s)
        PROVE  LegacyInv' /\ EditsKept
    BY <2>1, <2>6, OpenSampleKeeps DEF Legacy!OpenSample
  <2>7. ASSUME NEW s \in OldSample, Legacy!EditSample(s)
        PROVE  LegacyInv' /\ EditsKept
    BY <2>1, <2>7, EditSampleKeeps DEF Legacy!EditSample
  <2>8. ASSUME NEW s \in OldSample, Legacy!AddSample(s)
        PROVE  LegacyInv' /\ EditsKept
    BY <2>1, <2>8, AddSampleKeeps DEF Legacy!AddSample
  <2>9. QED
    BY <1>1, <2>2, <2>3, <2>4, <2>5, <2>6, <2>7, <2>8 DEF Legacy!Next
<1>2. CASE UNCHANGED legacyVars
  <2>1. UNCHANGED Legacy!vars
    BY <1>2 DEF legacyVars, Legacy!vars
  <2>2. \A t, x : SoundFor(t, x)' <=> SoundFor(t, x)
    BY <1>2 DEF legacyVars, SoundFor
  <2>3. LegacyTypes' /\ FilesSound' /\ ReadSound'
    BY <1>2, <2>2 DEF legacyVars, LegacyInv, LegacyTypes, FilesSound, ReadSound
  <2>4. /\ Dumped' <=> Dumped
        /\ Dumping' <=> Dumping
        /\ Working' <=> Working
        /\ Saving' <=> Saving
    BY <1>2 DEF legacyVars, Dumped, Dumping, Working, Saving
  <2>5. QED
    BY <1>2, <2>1, <2>3, <2>4 DEF legacyVars, LegacyInv
<1>3. QED
  BY <1>1, <1>2 DEF Next, vars

LEMMA LegacyIsSound == Spec => []LegacyInv
<1>1. Init => LegacyInv
  BY LegacyStarts
<1>2. LegacyInv /\ [Next]_vars => LegacyInv'
  BY LegacyStepKeeps
<1>3. QED
  BY <1>1, <1>2, PTL DEF Spec

\* Whenever the server stops, the annotations and the page of each old sample
\* are in the files of its spider, and what was brought to the new layout has a
\* schema of the project: dump_templates and chain_load of portia_orm/models.py
\* write to each place before they leave the other.
THEOREM OldSpidersStay == Spec => []OldSpidersAreKept
<1>1. LegacyInv => OldSpidersAreKept
  BY LegacyIsKept
<1>2. QED
  BY <1>1, LegacyIsSound, PTL

\* A spider that was saved has no templates, so that opening it again puts
\* nothing over what users changed in its samples (Spider.dump_templates).
THEOREM SavedEditsSurvive == Spec => EditsSurvive
<1>1. LegacyInv /\ [Next]_vars =>
        [saved => \A s \in OldSample : file[s] # None => file'[s].edits >= file[s].edits]_Legacy!vars
  BY LegacyStepKeeps DEF EditsKept
<1>2. QED
  BY <1>1, LegacyIsSound, PTL DEF Spec, EditsSurvive, Legacy!EditsSurvive

-----------------------------------------------------------------------------
(* Collections.                                                            *)

\* The dictionary has the index of each model of the list, in some order.
Full(l, c) ==
  /\ c \in Seq([key : Member, index : Nat]) /\ Len(c) = Len(l)
  /\ \A j \in 1..Len(c) : c[j].index \in 1..Len(l) /\ c[j].key = l[c[j].index]
  /\ \A i \in 1..Len(l) : \E j \in 1..Len(c) : c[j].index = i
  /\ \A j, k \in 1..Len(c) : c[j].index = c[k].index => j = k

\* A list without duplicates.
Different(l) ==
  /\ l \in Seq(Member)
  /\ \A i, j \in 1..Len(l) : l[i] = l[j] => i = j

\* The dictionary is complete when it is not empty: a list that was cut loses
\* it as a whole, for only all of a list is deleted at once.
ModelsInv == Different(list) /\ (cache = <<>> \/ Full(list, cache))

\* Where the element j of a list without its element k was.
Behind(j, k) == IF j < k THEN j ELSE j + 1

LEMMA BehindIs ==
  ASSUME NEW n \in Nat, NEW k \in 1..n
  PROVE  /\ \A j \in 1..n - 1 : Behind(j, k) \in 1..n /\ Behind(j, k) # k
         /\ \A j, h \in 1..n - 1 : Behind(j, k) = Behind(h, k) => j = h
         /\ \A j \in 1..n : j < k => j \in 1..n - 1 /\ Behind(j, k) = j
         /\ \A j \in 1..n : j > k => j - 1 \in 1..n - 1 /\ Behind(j - 1, k) = j
         /\ \A j \in 1..n : j # k => \E h \in 1..n - 1 : Behind(h, k) = j
<1>1. \A j \in 1..n : j < k => j \in 1..n - 1 /\ Behind(j, k) = j
  BY DEF Behind
<1>2. \A j \in 1..n : j > k => j - 1 \in 1..n - 1 /\ Behind(j - 1, k) = j
  BY DEF Behind
<1>3. \A j \in 1..n - 1 : Behind(j, k) \in 1..n /\ Behind(j, k) # k
  BY DEF Behind
<1>4. \A j, h \in 1..n - 1 : Behind(j, k) = Behind(h, k) => j = h
  BY DEF Behind
<1>5. ASSUME NEW j \in 1..n, j # k
      PROVE  \E h \in 1..n - 1 : Behind(h, k) = j
  <2>1. j < k \/ j > k
    BY <1>5
  <2>2. QED
    BY <1>1, <1>2, <2>1
<1>6. QED
  BY <1>1, <1>2, <1>3, <1>4, <1>5

LEMMA RemoveAtIs ==
  ASSUME NEW S, NEW s \in Seq(S), NEW i \in 1..Len(s)
  PROVE  LET t == Models!RemoveAt(s, i) IN
         /\ t \in Seq(S) /\ Len(t) = Len(s) - 1
         /\ \A j \in 1..Len(s) - 1 : t[j] = s[Behind(j, i)]
<1> DEFINE n == Len(s)
           left == SubSeq(s, 1, i - 1)
           right == SubSeq(s, i + 1, n)
<1>1. n \in Nat /\ i \in 1..n /\ \A j \in 1..n : s[j] \in S
  BY LenProperties, ElementOfSeq
<1>2. /\ left \in Seq(S) /\ Len(left) = i - 1
      /\ \A j \in 1..i - 1 : left[j] = s[j]
  <2>1. \A j \in 1..i - 1 : s[j] \in S
    BY <1>1
  <2>2. /\ left \in Seq(S) /\ Len(left) = IF 1 <= i - 1 THEN i - 1 - 1 + 1 ELSE 0
        /\ \A j \in 1..i - 1 - 1 + 1 : left[j] = s[1 + j - 1]
    BY <1>1, <2>1, SubSeqProperties
  <2> HIDE DEF left, n
  <2>3. QED
    BY <1>1, <2>2
<1>3. /\ right \in Seq(S) /\ Len(right) = n - i
      /\ \A j \in 1..n - i : right[j] = s[i + j]
  <2>1. \A j \in i + 1..n : s[j] \in S
    BY <1>1
  <2>2. /\ right \in Seq(S) /\ Len(right) = IF i + 1 <= n THEN n - (i + 1) + 1 ELSE 0
        /\ \A j \in 1..n - (i + 1) + 1 : right[j] = s[i + 1 + j - 1]
    BY <1>1, <2>1, SubSeqProperties
  <2> HIDE DEF right, n
  <2>3. QED
    BY <1>1, <2>2
<1>4. Models!RemoveAt(s, i) = left \o right
  BY DEF Models!RemoveAt
<1> HIDE DEF left, right
<1>5. /\ left \o right \in Seq(S) /\ Len(left \o right) = Len(left) + Len(right)
      /\ \A j \in 1..Len(left) + Len(right) : (left \o right)[j] =
           IF j <= Len(left) THEN left[j] ELSE right[j - Len(left)]
  BY <1>2, <1>3, ConcatProperties
<1> HIDE DEF n
<1>6. Len(left \o right) = n - 1
  BY <1>1, <1>2, <1>3, <1>5
<1>7. ASSUME NEW j \in 1..n - 1
      PROVE  (left \o right)[j] = s[Behind(j, i)]
  <2>1. j \in 1..Len(left) + Len(right)
    BY <1>1, <1>2, <1>3
  <2>2. CASE j < i
    <3>1. j <= Len(left) /\ j \in 1..i - 1
      BY <1>1, <1>2, <2>2
    <3>2. QED
      BY <1>2, <1>5, <2>1, <2>2, <3>1 DEF Behind
  <2>3. CASE ~(j < i)
    <3>1. ~(j <= Len(left)) /\ j - Len(left) \in 1..n - i /\ i + (j - Len(left)) = j + 1
      BY <1>1, <1>2, <2>3
    <3>2. right[j - Len(left)] = s[j + 1]
      BY <1>3, <3>1
    <3>3. QED
      BY <1>5, <2>1, <2>3, <3>1, <3>2 DEF Behind
  <2>4. QED
    BY <2>2, <2>3
<1>8. QED
  BY <1>4, <1>5, <1>6, <1>7 DEF n

LEMMA InsertAtIs ==
  ASSUME NEW S, NEW s \in Seq(S), NEW i \in 1..Len(s) + 1, NEW e \in S
  PROVE  LET t == Models!InsertAt(s, i, e) IN
         /\ t \in Seq(S) /\ Len(t) = Len(s) + 1
         /\ t[i] = e
         /\ \A j \in 1..Len(s) : t[Behind(j, i)] = s[j]
<1> DEFINE n == Len(s)
           left == SubSeq(s, 1, i - 1)
           right == SubSeq(s, i, n)
           one == <<e>>
<1>1. n \in Nat /\ i \in 1..n + 1 /\ \A j \in 1..n : s[j] \in S
  BY LenProperties, ElementOfSeq
<1>2. /\ left \in Seq(S) /\ Len(left) = i - 1
      /\ \A j \in 1..i - 1 : left[j] = s[j]
  <2>1. \A j \in 1..i - 1 : s[j] \in S
    BY <1>1
  <2>2. /\ left \in Seq(S) /\ Len(left) = IF 1 <= i - 1 THEN i - 1 - 1 + 1 ELSE 0
        /\ \A j \in 1..i - 1 - 1 + 1 : left[j] = s[1 + j - 1]
    BY <1>1, <2>1, SubSeqProperties
  <2> HIDE DEF left, n
  <2>3. QED
    BY <1>1, <2>2
<1>3. /\ right \in Seq(S) /\ Len(right) = n + 1 - i
      /\ \A j \in 1..n + 1 - i : right[j] = s[i + j - 1]
  <2>1. \A j \in i..n : s[j] \in S
    BY <1>1
  <2>2. /\ right \in Seq(S) /\ Len(right) = IF i <= n THEN n - i + 1 ELSE 0
        /\ \A j \in 1..n - i + 1 : right[j] = s[i + j - 1]
    BY <1>1, <2>1, SubSeqProperties
  <2> HIDE DEF right, n
  <2>3. n + 1 - i = n - i + 1 /\ (~(i <= n) => n + 1 - i = 0)
    BY <1>1
  <2>4. QED
    BY <2>2, <2>3
<1>4. one \in Seq(S) /\ Len(one) = 1 /\ one[1] = e
  OBVIOUS
<1>5. Models!InsertAt(s, i, e) = (left \o one) \o right
  BY DEF Models!InsertAt
<1> HIDE DEF left, right, one, n
<1> DEFINE begin == left \o one
<1>6. /\ begin \in Seq(S) /\ Len(begin) = i
      /\ \A j \in 1..i - 1 : begin[j] = s[j]
      /\ begin[i] = e
  <2>1. /\ begin \in Seq(S) /\ Len(begin) = Len(left) + Len(one)
        /\ \A j \in 1..Len(left) + Len(one) :
             begin[j] = IF j <= Len(left) THEN left[j] ELSE one[j - Len(left)]
    BY <1>2, <1>4, ConcatProperties
  <2> HIDE DEF begin
  <2>2. Len(begin) = i /\ i \in 1..Len(left) + Len(one) /\ i - Len(left) = 1 /\ ~(i <= Len(left))
    BY <1>1, <1>2, <1>4, <2>1
  <2>3. begin[i] = e
    BY <1>4, <2>1, <2>2
  <2>4. ASSUME NEW j \in 1..i - 1
        PROVE  begin[j] = s[j]
    <3>1. j \in 1..Len(left) + Len(one) /\ j <= Len(left)
      BY <1>1, <1>2, <1>4
    <3>2. QED
      BY <1>2, <2>1, <3>1
  <2>5. QED
    BY <2>1, <2>2, <2>3, <2>4
<1> HIDE DEF begin
<1>7. /\ begin \o right \in Seq(S) /\ Len(begin \o right) = Len(begin) + Len(right)
      /\ \A j \in 1..Len(begin) + Len(right) : (begin \o right)[j] =
           IF j <= Len(begin) THEN begin[j] ELSE right[j - Len(begin)]
  BY <1>3, <1>6, ConcatProperties
<1>8. Len(begin \o right) = n + 1 /\ Len(begin) + Len(right) = n + 1
  BY <1>1, <1>3, <1>6, <1>7
<1>9. ASSUME NEW j \in 1..n, j < i
      PROVE  (begin \o right)[j] = s[j]
  <2>1. j \in 1..i - 1 /\ j \in 1..Len(begin) + Len(right) /\ j <= Len(begin)
    BY <1>1, <1>6, <1>8, <1>9
  <2>2. QED
    BY <1>6, <1>7, <2>1
<1>10. (begin \o right)[i] = e
  <2>1. i \in 1..Len(begin) + Len(right) /\ i <= Len(begin)
    BY <1>1, <1>6, <1>8
  <2>2. QED
    BY <1>6, <1>7, <2>1
<1>11. ASSUME NEW j \in 1..n, j >= i
       PROVE  (begin \o right)[j + 1] = s[j]
  <2>1. /\ j + 1 \in 1..Len(begin) + Len(right) /\ ~(j + 1 <= Len(begin))
        /\ j + 1 - Len(begin) \in 1..n + 1 - i /\ i + (j + 1 - Len(begin)) - 1 = j
    BY <1>1, <1>6, <1>8, <1>11
  <2>2. right[j + 1 - Len(begin)] = s[j]
    BY <1>3, <2>1
  <2>3. QED
    BY <1>7, <2>1, <2>2
<1>12. ASSUME NEW j \in 1..n
       PROVE  (begin \o right)[Behind(j, i)] = s[j]
  <2>1. CASE j < i
    BY <1>9, <2>1 DEF Behind
  <2>2. CASE ~(j < i)
    <3>1. j >= i
      BY <1>1, <2>2
    <3>2. QED
      BY <1>11, <2>2, <3>1 DEF Behind
  <2>3. QED
    BY <2>1, <2>2
<1>13. QED
  BY <1>5, <1>7, <1>8, <1>10, <1>12 DEF begin, n
-----------------------------------------------------------------------------
LEMMA DifferentKeys ==
  ASSUME NEW l, NEW c, Different(l), Full(l, c)
  PROVE  /\ Models!Keys(c) = Models!Range(l)
         /\ \A i \in 1..Len(l) : Models!IndexIn(c, l[i]) = i
<1>1. /\ Len(l) \in Nat /\ Len(c) = Len(l)
      /\ DOMAIN l = 1..Len(l) /\ DOMAIN c = 1..Len(c)
  BY LenProperties DEF Different, Full
<1>2. Models!Keys(c) = {c[j].key : j \in 1..Len(c)}
  BY <1>1 DEF Models!Keys, Models!Range
<1>3. Models!Range(l) = {l[i] : i \in 1..Len(l)}
  BY <1>1 DEF Models!Range
<1>4. ASSUME NEW i \in 1..Len(l)
      PROVE  \E j \in 1..Len(c) : c[j].key = l[i]
  <2>1. PICK j \in 1..Len(c) : c[j].index = i
    BY DEF Full
  <2>2. c[j].key = l[i]
    BY <2>1 DEF Full
  <2>3. QED
    BY <2>2
<1>5. Models!Keys(c) = Models!Range(l)
  <2>1. ASSUME NEW j \in 1..Len(c)
        PROVE  \E i \in 1..Len(l) : l[i] = c[j].key
    BY DEF Full
  <2>2. \A k : k \in Models!Keys(c) => k \in Models!Range(l)
    BY <1>2, <1>3, <2>1
  <2>3. \A k : k \in Models!Range(l) => k \in Models!Keys(c)
    BY <1>2, <1>3, <1>4
  <2>4. QED
    BY <2>2, <2>3
<1>6. ASSUME NEW i \in 1..Len(l)
      PROVE  Models!IndexIn(c, l[i]) = i
  <2>1. \E e \in Models!Range(c) : e.key = l[i]
    BY <1>1, <1>4, <1>6 DEF Models!Range
  <2>2. ASSUME NEW e \in Models!Range(c), e.key = l[i]
        PROVE  e.index = i
    <3>1. PICK j \in 1..Len(c) : c[j] = e
      BY <1>1 DEF Models!Range
    <3>2. e.index \in 1..Len(l) /\ l[e.index] = l[i]
      BY <2>2, <3>1 DEF Full
    <3>3. QED
      BY <3>2 DEF Different
  <2>3. QED
    BY <2>1, <2>2 DEF Models!IndexIn
<1>7. QED
  BY <1>5, <1>6

LEMMA PopulatedIsFull ==
  ASSUME NEW l, Different(l)
  PROVE  Full(l, Models!Populated(l))
<1>1. Len(l) \in Nat /\ DOMAIN l = 1..Len(l) /\ \A i \in 1..Len(l) : l[i] \in Member
  BY LenProperties, ElementOfSeq DEF Different
<1> DEFINE n == Len(l)
           c == [i \in 1..n |-> Models!Entry(l[i], i)]
<1>2. Models!Populated(l) = c
  BY <1>1 DEF Models!Populated
<1>3. \A i \in 1..n : /\ Models!Entry(l[i], i) \in [key : Member, index : Nat]
                      /\ Models!Entry(l[i], i).index = i
                      /\ Models!Entry(l[i], i).key = l[i]
  BY <1>1 DEF Models!Entry
<1>4. c \in [1..n -> [key : Member, index : Nat]]
  BY <1>3
<1>5. \A i \in 1..n : c[i].index = i /\ c[i].key = l[i]
  BY <1>3
<1> HIDE DEF c, n
<1>6. c \in Seq([key : Member, index : Nat]) /\ Len(c) = n
  <2> DEFINE T == [key : Member, index : Nat]
  <2>1. n \in Nat /\ c \in [1..n -> T]
    BY <1>1, <1>4 DEF n
  <2> HIDE DEF T
  <2>2. c \in Seq(T) /\ Len(c) = n
    BY <2>1
  <2>3. QED
    BY <2>2 DEF T
<1>7. QED
  BY <1>2, <1>5, <1>6 DEF Full, n

LEMMA ReadyIsFull ==
  ASSUME ModelsInv
  PROVE  Full(list, Models!Ready)
<1>1. CASE cache = <<>> /\ Len(list) # 0
  <2>1. Len(<<>>) = 0
    OBVIOUS
  <2>2. Models!Ready = Models!Populated(list)
    BY <1>1, <2>1 DEF Models!Ready
  <2>3. QED
    BY <2>2, PopulatedIsFull DEF ModelsInv
<1>2. CASE cache = <<>> /\ Len(list) = 0
  <2>1. Len(<<>>) = 0 /\ <<>> \in Seq([key : Member, index : Nat])
    OBVIOUS
  <2>2. Models!Ready = <<>>
    BY <1>2, <2>1 DEF Models!Ready
  <2>3. QED
    BY <1>2, <2>1, <2>2 DEF Full
<1>3. CASE Full(list, cache)
  BY <1>3 DEF Full, Models!Ready
<1>4. QED
  BY <1>1, <1>2, <1>3 DEF ModelsInv

\* What is found before the dictionary is filled is found after it is.
LEMMA AfterIsFull ==
  ASSUME ModelsInv, NEW m \in Member
  PROVE  Full(list, Models!After(m))
<1>1. CASE cache = <<>>
  <2>1. Models!Keys(<<>>) = {}
    BY DEF Models!Keys, Models!Range
  <2>2. Models!After(m) = Models!Ready
    BY <1>1, <2>1 DEF Models!After
  <2>3. QED
    BY <2>2, ReadyIsFull
<1>2. CASE Full(list, cache)
  BY <1>2, ReadyIsFull DEF Models!After
<1>3. QED
  BY <1>1, <1>2 DEF ModelsInv

LEMMA ModelsAreFound ==
  ASSUME ModelsInv
  PROVE  IndexedByKey
<1>1. Len(list) \in Nat /\ DOMAIN list = 1..Len(list) /\ Different(list)
  BY LenProperties DEF ModelsInv, Different
<1>2. ASSUME NEW m \in Member
      PROVE  /\ Models!Has(m) <=> m \in Models!Range(list)
             /\ Models!IndicesOf(m) = {i \in DOMAIN list : list[i] = m}
  <2>1. /\ Models!Keys(Models!After(m)) = Models!Range(list)
        /\ \A i \in 1..Len(list) : Models!IndexIn(Models!After(m), list[i]) = i
    BY <1>1, AfterIsFull, DifferentKeys
  <2>2. CASE m \in Models!Range(list)
    <3>1. PICK i \in 1..Len(list) : list[i] = m
      BY <1>1, <2>2 DEF Models!Range
    <3>2. Models!IndicesOf(m) = {i}
      BY <2>1, <2>2, <3>1 DEF Models!IndicesOf
    <3>3. {k \in DOMAIN list : list[k] = m} = {i}
      BY <1>1, <3>1 DEF Different
    <3>4. QED
      BY <2>1, <3>2, <3>3 DEF Models!Has
  <2>3. CASE m \notin Models!Range(list)
    BY <2>1, <2>3 DEF Models!Has, Models!IndicesOf
  <2>4. QED
    BY <2>2, <2>3
<1>3. QED
  BY <1>2 DEF IndexedByKey, Models!IndexedByKey

-----------------------------------------------------------------------------
LEMMA FunctionIsSeq ==
  ASSUME NEW T, NEW n \in Nat, NEW d \in [1..n -> T]
  PROVE  d \in Seq(T) /\ Len(d) = n /\ DOMAIN d = 1..n
OBVIOUS

Entries == [key : Member, index : Nat]

LEMMA FullHas ==
  ASSUME NEW l, NEW c, Different(l), Full(l, c)
  PROVE  /\ Len(l) \in Nat /\ Len(c) = Len(l) /\ c \in Seq(Entries) /\ l \in Seq(Member)
         /\ DOMAIN l = 1..Len(l) /\ DOMAIN c = 1..Len(l)
         /\ \A i \in 1..Len(l) : l[i] \in Member
         /\ \A j \in 1..Len(l) : /\ c[j] \in Entries
                                 /\ c[j].index \in 1..Len(l) /\ c[j].key = l[c[j].index]
         /\ \A i \in 1..Len(l) : \E j \in 1..Len(l) : c[j].index = i
         /\ \A j, k \in 1..Len(l) : c[j].index = c[k].index => j = k
         /\ \A i, j \in 1..Len(l) : c[j].key = l[i] => c[j].index = i
<1>1. /\ Len(l) \in Nat /\ Len(c) = Len(l) /\ c \in Seq(Entries) /\ l \in Seq(Member)
  BY LenProperties DEF Different, Full, Entries
<1>2. /\ DOMAIN l = 1..Len(l) /\ DOMAIN c = 1..Len(l)
      /\ \A i \in 1..Len(l) : l[i] \in Member
      /\ \A j \in 1..Len(l) : c[j] \in Entries
  BY <1>1, LenProperties, ElementOfSeq
<1>3. /\ \A j \in 1..Len(l) : c[j].index \in 1..Len(l) /\ c[j].key = l[c[j].index]
      /\ \A i \in 1..Len(l) : \E j \in 1..Len(l) : c[j].index = i
      /\ \A j, k \in 1..Len(l) : c[j].index = c[k].index => j = k
  BY <1>1 DEF Full
<1>4. ASSUME NEW i \in 1..Len(l), NEW j \in 1..Len(l), c[j].key = l[i]
      PROVE  c[j].index = i
  BY <1>3, <1>4 DEF Different
<1>5. QED
  BY <1>1, <1>2, <1>3, <1>4

LEMMA EntryHas ==
  ASSUME NEW m \in Member, NEW i \in Nat
  PROVE  /\ Models!Entry(m, i) \in Entries
         /\ Models!Entry(m, i).key = m /\ Models!Entry(m, i).index = i
BY DEF Models!Entry, Entries

\* OwnedList.append.
LEMMA AppendKeepsFull ==
  ASSUME NEW l, NEW c, Different(l), Full(l, c),
         NEW m \in Member, m \notin Models!Range(l)
  PROVE  Different(Append(l, m)) /\ Full(Append(l, m), Models!SetItem(c, m))
<1> DEFINE n == Len(l)
           e == Models!Entry(m, n + 1)
           l2 == Append(l, m)
           c2 == Append(c, e)
<1>1. /\ n \in Nat /\ Len(c) = n /\ c \in Seq(Entries) /\ l \in Seq(Member)
      /\ DOMAIN l = 1..n
      /\ \A j \in 1..n : c[j].index \in 1..n /\ c[j].key = l[c[j].index]
      /\ \A i \in 1..n : \E j \in 1..n : c[j].index = i
      /\ \A j, k \in 1..n : c[j].index = c[k].index => j = k
  BY FullHas
<1>2. Models!SetItem(c, m) = c2
  BY <1>1 DEF Models!SetItem
<1>3. e \in Entries /\ e.key = m /\ e.index = n + 1
  BY <1>1, EntryHas
<1>4. /\ l2 \in Seq(Member) /\ Len(l2) = n + 1
      /\ \A i \in 1..n : l2[i] = l[i]
      /\ l2[n + 1] = m
  BY <1>1, AppendProperties
<1>5. /\ c2 \in Seq(Entries) /\ Len(c2) = n + 1
      /\ \A i \in 1..n : c2[i] = c[i]
      /\ c2[n + 1] = e
  <2> HIDE DEF e
  <2>1. QED
    BY <1>1, <1>3, AppendProperties
<1>6. \A i \in 1..n : l[i] # m
  BY <1>1 DEF Models!Range
<1>7. \A i, j \in 1..n : l[i] = l[j] => i = j
  BY DEF Different
<1> HIDE DEF n, e, l2, c2
<1>8. \A j \in 1..n + 1 : j \in 1..n \/ j = n + 1
  BY <1>1
<1>9. Different(l2)
  <2>1. \A i, j \in 1..n + 1 : l2[i] = l2[j] => i = j
    BY <1>4, <1>6, <1>7, <1>8
  <2>2. QED
    BY <1>4, <2>1 DEF Different
<1>10. ASSUME NEW j \in 1..n + 1
       PROVE  c2[j].index \in 1..n + 1 /\ c2[j].key = l2[c2[j].index]
  <2>1. CASE j \in 1..n
    <3>1. c2[j] = c[j] /\ c[j].index \in 1..n /\ c[j].key = l[c[j].index]
      BY <1>1, <1>5, <2>1
    <3>2. \A k \in 1..n : k \in 1..n + 1 /\ l2[k] = l[k]
      BY <1>1, <1>4
    <3>3. QED
      BY <3>1, <3>2
  <2>2. CASE j = n + 1
    BY <1>1, <1>3, <1>4, <1>5, <2>2
  <2>3. QED
    BY <1>8, <2>1, <2>2
<1>11. ASSUME NEW i \in 1..n + 1
       PROVE  \E j \in 1..n + 1 : c2[j].index = i
  <2>1. CASE i = n + 1
    BY <1>1, <1>3, <1>5, <2>1
  <2>2. CASE i \in 1..n
    <3>1. PICK j \in 1..n : c[j].index = i
      BY <1>1, <2>2
    <3>2. j \in 1..n + 1 /\ c2[j].index = i
      BY <1>1, <1>5, <3>1
    <3>3. QED
      BY <3>2
  <2>3. QED
    BY <1>8, <2>1, <2>2
<1>12. ASSUME NEW j \in 1..n + 1, NEW k \in 1..n + 1, c2[j].index = c2[k].index
       PROVE  j = k
  <2>1. \A i \in 1..n : c2[i].index \in 1..n /\ c2[i].index = c[i].index
    BY <1>1, <1>5
  <2>2. n + 1 \notin 1..n /\ c2[n + 1].index = n + 1
    BY <1>1, <1>3, <1>5
  <2>3. CASE j = n + 1 /\ k = n + 1
    BY <2>3
  <2>4. CASE j \in 1..n /\ k \in 1..n
    BY <1>1, <1>12, <2>1, <2>4
  <2>5. QED
    BY <1>8, <1>12, <2>1, <2>2, <2>3, <2>4
<1>13. Full(l2, c2)
  BY <1>4, <1>5, <1>10, <1>11, <1>12 DEF Full, Entries
<1>14. QED
  BY <1>2, <1>9, <1>13 DEF l2

\* OrderedIndexedTransformDict.replace: collection[i] = m.
LEMMA ReplaceKeepsFull ==
  ASSUME NEW l, NEW c, Different(l), Full(l, c), NEW i \in 1..Len(l),
         NEW m \in Member, m = l[i] \/ m \notin Models!Range(l)
  PROVE  /\ Different(Models!ReplaceAt(l, i, m))
         /\ Full(Models!ReplaceAt(l, i, m), Models!ReplaceKey(c, l[i], m))
<1> DEFINE n == Len(l)
           l2 == [l EXCEPT ![i] = m]
           c2 == [j \in 1..n |-> IF c[j].key = l[i] THEN Models!Entry(m, c[j].index) ELSE c[j]]
<1>1. /\ n \in Nat /\ Len(c) = n /\ c \in Seq(Entries) /\ l \in Seq(Member)
      /\ DOMAIN l = 1..n /\ DOMAIN c = 1..n
      /\ \A j \in 1..n : /\ c[j] \in Entries
                         /\ c[j].index \in 1..n /\ c[j].key = l[c[j].index]
      /\ \A k \in 1..n : \E j \in 1..n : c[j].index = k
      /\ \A j, k \in 1..n : c[j].index = c[k].index => j = k
      /\ \A k, j \in 1..n : c[j].key = l[k] => c[j].index = k
  BY FullHas
<1>2. Models!ReplaceAt(l, i, m) = l2 /\ Models!ReplaceKey(c, l[i], m) = c2
  BY <1>1 DEF Models!ReplaceAt, Models!ReplaceKey
<1>3. /\ l2 \in Seq(Member) /\ Len(l2) = n /\ l2[i] = m
      /\ \A k \in 1..n : k # i => l2[k] = l[k]
  <2>1. l2 \in [1..n -> Member]
    BY <1>1, FullHas
  <2>2. l2[i] = m /\ \A k \in 1..n : k # i => l2[k] = l[k]
    BY <1>1
  <2> HIDE DEF l2, n
  <2>3. QED
    BY <1>1, <2>1, <2>2, FunctionIsSeq
<1>4. \A j, k \in 1..n : l[j] = l[k] => j = k
  BY DEF Different
<1>5. \A k \in 1..n : k # i => l[k] # m
  <2>1. CASE m = l[i]
    BY <1>4, <2>1
  <2>2. CASE m \notin Models!Range(l)
    BY <1>1, <2>2 DEF Models!Range
  <2>3. QED
    BY <2>1, <2>2
<1>6. ASSUME NEW j \in 1..n
      PROVE  /\ Models!Entry(m, c[j].index) \in Entries
             /\ Models!Entry(m, c[j].index).key = m
             /\ Models!Entry(m, c[j].index).index = c[j].index
  <2>1. \A k \in 1..n : k \in Nat
    BY <1>1
  <2>2. c[j].index \in Nat
    BY <1>1, <2>1
  <2>3. QED
    BY <2>2, EntryHas
<1>7. \A j \in 1..n : /\ c2[j] \in Entries /\ c2[j].index = c[j].index
                      /\ c2[j].key = l2[c2[j].index]
  <2>1. SUFFICES ASSUME NEW j \in 1..n
                 PROVE  /\ c2[j] \in Entries /\ c2[j].index = c[j].index
                        /\ c2[j].key = l2[c2[j].index]
    OBVIOUS
  <2>2. CASE c[j].key = l[i]
    <3>1. c2[j] = Models!Entry(m, c[j].index) /\ c[j].index = i
      BY <1>1, <2>2
    <3>2. QED
      BY <1>3, <1>6, <3>1
  <2>3. CASE c[j].key # l[i]
    <3>1. c2[j] = c[j] /\ c[j].index # i
      BY <1>1, <2>3
    <3>2. l2[c[j].index] = l[c[j].index]
      BY <1>1, <1>3, <3>1
    <3>3. QED
      BY <1>1, <3>1, <3>2
  <2>4. QED
    BY <2>2, <2>3
<1>8. c2 \in [1..n -> Entries]
  BY <1>7
<1> HIDE DEF l2, c2, n
<1>9. c2 \in Seq(Entries) /\ Len(c2) = n
  BY <1>1, <1>8, FunctionIsSeq
<1>10. Different(l2)
  <2>1. \A j, k \in 1..n : l2[j] = l2[k] => j = k
    BY <1>3, <1>4, <1>5
  <2>2. QED
    BY <1>3, <2>1 DEF Different
<1>11. Full(l2, c2)
  <2>1. \A j \in 1..n : c2[j].index \in 1..n /\ c2[j].key = l2[c2[j].index]
    BY <1>1, <1>7
  <2>2. ASSUME NEW k \in 1..n
        PROVE  \E j \in 1..n : c2[j].index = k
    <3>1. PICK j \in 1..n : c[j].index = k
      BY <1>1
    <3>2. c2[j].index = k
      BY <1>7, <3>1
    <3>3. QED
      BY <3>2
  <2>3. \A j, k \in 1..n : c2[j].index = c2[k].index => j = k
    BY <1>1, <1>7
  <2>4. QED
    BY <1>3, <1>9, <2>1, <2>2, <2>3 DEF Full, Entries
<1>12. QED
  BY <1>2, <1>10, <1>11

\* OrderedIndexedTransformDict.pop: the models behind the one that is removed
\* move up.
LEMMA PopKeepsFull ==
  ASSUME NEW l, NEW c, Different(l), Full(l, c), NEW i \in 1..Len(l)
  PROVE  /\ Different(Models!RemoveAt(l, i))
         /\ Full(Models!RemoveAt(l, i), Models!Pop(c, l[i]))
<1> DEFINE n == Len(l)
           l2 == Models!RemoveAt(l, i)
           at == CHOOSE j \in DOMAIN c : c[j].key = l[i]
           rest == Models!RemoveAt(c, at)
           shift(e) == IF e.index > c[at].index THEN Models!Entry(e.key, e.index - 1) ELSE e
           c2 == [j \in DOMAIN rest |-> shift(rest[j])]
<1>1. /\ n \in Nat /\ Len(c) = n /\ c \in Seq(Entries) /\ l \in Seq(Member)
      /\ DOMAIN l = 1..n /\ DOMAIN c = 1..n
      /\ \A k \in 1..n : l[k] \in Member
      /\ \A j \in 1..n : /\ c[j] \in Entries
                         /\ c[j].index \in 1..n /\ c[j].key = l[c[j].index]
      /\ \A k \in 1..n : \E j \in 1..n : c[j].index = k
      /\ \A j, k \in 1..n : c[j].index = c[k].index => j = k
      /\ \A k, j \in 1..n : c[j].key = l[k] => c[j].index = k
  BY FullHas
<1>2. i \in 1..n /\ n - 1 \in Nat
  BY <1>1
<1>3. \E j \in 1..n : c[j].key = l[i]
  <2>1. PICK j \in 1..n : c[j].index = i
    BY <1>1, <1>2
  <2>2. c[j].key = l[i]
    BY <1>1, <2>1
  <2>3. QED
    BY <2>2
<1>4. at \in 1..n /\ c[at].key = l[i]
  BY <1>1, <1>3
<1>5. c[at].index = i
  <2> HIDE DEF at, n
  <2>1. QED
    BY <1>1, <1>2, <1>4
<1>6. Models!Pop(c, l[i]) = c2
  <2>1. l[i] \in Models!Keys(c)
    BY <1>1, <1>4 DEF Models!Keys, Models!Range
  <2>2. QED
    BY <2>1 DEF Models!Pop
<1> HIDE DEF at
<1>7. /\ rest \in Seq(Entries) /\ Len(rest) = n - 1
      /\ \A j \in 1..n - 1 : rest[j] = c[Behind(j, at)]
  <2>1. c \in Seq(Entries) /\ at \in 1..Len(c) /\ Len(c) = n
    BY <1>1, <1>4
  <2>2. /\ rest \in Seq(Entries) /\ Len(rest) = Len(c) - 1
        /\ \A j \in 1..Len(c) - 1 : rest[j] = c[Behind(j, at)]
    BY <2>1, RemoveAtIs
  <2> HIDE DEF rest, n
  <2>3. QED
    BY <2>1, <2>2
<1>8. /\ l2 \in Seq(Member) /\ Len(l2) = n - 1
      /\ \A j \in 1..n - 1 : l2[j] = l[Behind(j, i)]
  <2>1. l \in Seq(Member)
    BY <1>1
  <2>2. QED
    BY <2>1, RemoveAtIs
<1>9. DOMAIN rest = 1..n - 1
  BY <1>7, LenProperties
<1> HIDE DEF rest, l2, n
<1>10. /\ \A j \in 1..n - 1 : Behind(j, at) \in 1..n /\ Behind(j, at) # at
       /\ \A j, h \in 1..n - 1 : Behind(j, at) = Behind(h, at) => j = h
       /\ \A j \in 1..n : j # at => \E h \in 1..n - 1 : Behind(h, at) = j
  <2>1. n \in Nat
    BY <1>1
  <2>2. QED
    BY <1>4, <2>1, BehindIs
<1>11. /\ \A j \in 1..n - 1 : Behind(j, i) \in 1..n /\ Behind(j, i) # i
       /\ \A j, h \in 1..n - 1 : Behind(j, i) = Behind(h, i) => j = h
       /\ \A j \in 1..n : j < i => j \in 1..n - 1 /\ Behind(j, i) = j
       /\ \A j \in 1..n : j > i => j - 1 \in 1..n - 1 /\ Behind(j - 1, i) = j
  <2>1. n \in Nat
    BY <1>1
  <2>2. i \in 1..n
    BY <1>2
  <2>3. \A j \in 1..n - 1 : Behind(j, i) \in 1..n /\ Behind(j, i) # i
    BY <2>1, <2>2, BehindIs
  <2>4. \A j, h \in 1..n - 1 : Behind(j, i) = Behind(h, i) => j = h
    BY <2>1, <2>2, BehindIs
  <2>5. \A j \in 1..n : j < i => j \in 1..n - 1 /\ Behind(j, i) = j
    BY <2>1, <2>2, BehindIs
  <2>6. \A j \in 1..n : j > i => j - 1 \in 1..n - 1 /\ Behind(j - 1, i) = j
    BY <2>1, <2>2, BehindIs
  <2>7. QED
    BY <2>3, <2>4, <2>5, <2>6
\* What was in entry Behind(j, at) is in entry j.
<1>13. ASSUME NEW j \in 1..n - 1
       PROVE  /\ c2[j] \in Entries /\ c2[j].index \in 1..n - 1
              /\ Behind(c2[j].index, i) = c[Behind(j, at)].index
              /\ c2[j].key = l2[c2[j].index]
  <2> DEFINE old == c[Behind(j, at)]
             x == old.index
  <2>1. Behind(j, at) \in 1..n /\ Behind(j, at) # at
    BY <1>4, <1>10
  <2>2. /\ old \in Entries /\ x \in 1..n /\ old.key = l[x] /\ x # i
    BY <1>1, <1>4, <1>5, <2>1
  <2>3. c2[j] = IF x > i THEN Models!Entry(old.key, x - 1) ELSE old
    BY <1>5, <1>7, <1>9
  <2>4. old.key \in Member
    BY <1>1, <2>2
  <2> HIDE DEF x
  <2>5. /\ \A y \in 1..n - 1 : y \in Nat
        /\ x < i \/ x > i
        /\ ~(x < i /\ x > i)
    <3>1. n \in Nat
      BY <1>1
    <3>2. QED
      BY <1>2, <2>2, <3>1
  <2>6. CASE x > i
    <3>1. x - 1 \in 1..n - 1 /\ Behind(x - 1, i) = x
      BY <1>11, <2>2, <2>6
    <3>2. x - 1 \in Nat
      BY <2>5, <3>1
    <3> HIDE DEF old, c2
    <3>3. /\ c2[j] \in Entries /\ c2[j].index = x - 1 /\ c2[j].key = old.key
      BY <2>3, <2>4, <2>6, <3>2, EntryHas
    <3>4. l2[x - 1] = l[x]
      BY <1>8, <3>1
    <3>5. QED
      BY <2>2, <3>1, <3>3, <3>4 DEF old, x
  <2>7. CASE x < i
    <3>1. x \in 1..n - 1 /\ Behind(x, i) = x
      BY <1>11, <2>2, <2>7
    <3>2. c2[j] = old
      BY <2>3, <2>5, <2>7
    <3>3. l2[x] = l[x]
      BY <1>8, <3>1
    <3> HIDE DEF c2
    <3>4. QED
      BY <2>2, <3>1, <3>2, <3>3 DEF old, x
  <2>8. QED
    BY <2>5, <2>6, <2>7
<1>14. DOMAIN c2 = 1..n - 1 /\ c2 \in [1..n - 1 -> Entries]
  BY <1>9, <1>13
<1> HIDE DEF c2
<1>15. c2 \in Seq(Entries) /\ Len(c2) = n - 1
  BY <1>2, <1>14, FunctionIsSeq
<1>16. ASSUME NEW k \in 1..n - 1
       PROVE  \E j \in 1..n - 1 : c2[j].index = k
  <2>1. Behind(k, i) \in 1..n /\ Behind(k, i) # i
    BY <1>11
  <2>2. PICK j \in 1..n : c[j].index = Behind(k, i)
    BY <1>1, <2>1
  <2>3. PICK h \in 1..n - 1 : Behind(h, at) = j
    BY <1>4, <1>5, <1>10, <2>1, <2>2
  <2>4. c2[h].index = k
    BY <1>11, <1>13, <2>2, <2>3
  <2>5. QED
    BY <2>4
<1>17. ASSUME NEW j \in 1..n - 1, NEW k \in 1..n - 1, c2[j].index = c2[k].index
       PROVE  j = k
  <2>1. Behind(j, at) \in 1..n /\ Behind(k, at) \in 1..n
    BY <1>4, <1>10
  <2>2. c[Behind(j, at)].index = c[Behind(k, at)].index
    BY <1>13, <1>17
  <2>3. Behind(j, at) = Behind(k, at)
    BY <1>1, <2>1, <2>2
  <2>4. QED
    BY <1>10, <2>3
<1>18. Full(l2, c2)
  BY <1>8, <1>13, <1>15, <1>16, <1>17 DEF Full, Entries
<1>19. Different(l2)
  <2>1. \A j, k \in 1..n : l[j] = l[k] => j = k
    BY DEF Different, n
  <2>2. ASSUME NEW j \in 1..n - 1, NEW k \in 1..n - 1, l2[j] = l2[k]
        PROVE  j = k
    <3>1. Behind(j, i) \in 1..n /\ Behind(k, i) \in 1..n
      BY <1>11
    <3>2. QED
      <4>1. l[Behind(j, i)] = l[Behind(k, i)]
        BY <1>8, <2>2
      <4>2. Behind(j, i) = Behind(k, i)
        BY <2>1, <3>1, <4>1
      <4>3. QED
        BY <1>11, <4>2
  <2>3. QED
    BY <1>8, <2>2 DEF Different
<1>20. QED
  BY <1>6, <1>18, <1>19 DEF l2

\* OrderedIndexedTransformDict.insert: the models behind it move down.
LEMMA InsertKeepsFull ==
  ASSUME NEW l, NEW c, Different(l), Full(l, c), NEW i \in 1..Len(l) + 1,
         NEW m \in Member, m \notin Models!Range(l)
  PROVE  /\ Different(Models!InsertAt(l, i, m))
         /\ Full(Models!InsertAt(l, i, m), Models!InsertKey(c, i, m))
<1> DEFINE n == Len(l)
           l2 == Models!InsertAt(l, i, m)
           shift(e) == IF e.index >= i THEN Models!Entry(e.key, e.index + 1) ELSE e
           shifted == [j \in DOMAIN c |-> shift(c[j])]
           e == Models!Entry(m, i)
           c2 == Append(shifted, e)
<1>1. /\ n \in Nat /\ Len(c) = n /\ c \in Seq(Entries) /\ l \in Seq(Member)
      /\ DOMAIN l = 1..n /\ DOMAIN c = 1..n
      /\ \A k \in 1..n : l[k] \in Member
      /\ \A j \in 1..n : /\ c[j] \in Entries
                         /\ c[j].index \in 1..n /\ c[j].key = l[c[j].index]
      /\ \A k \in 1..n : \E j \in 1..n : c[j].index = k
      /\ \A j, k \in 1..n : c[j].index = c[k].index => j = k
  BY FullHas
<1>2. i \in 1..n + 1 /\ i \in Nat
  BY <1>1
<1>3. Models!InsertKey(c, i, m) = c2
  BY DEF Models!InsertKey
<1>4. /\ l2 \in Seq(Member) /\ Len(l2) = n + 1 /\ l2[i] = m
      /\ \A k \in 1..n : l2[Behind(k, i)] = l[k]
  BY <1>1, <1>2, InsertAtIs
<1> HIDE DEF n, l2
<1>5. n + 1 \in Nat /\ n + 1 - 1 = n
  BY <1>1
<1>6. /\ \A k \in 1..n : Behind(k, i) \in 1..n + 1 /\ Behind(k, i) # i
      /\ \A j, k \in 1..n : Behind(j, i) = Behind(k, i) => j = k
      /\ \A k \in 1..n + 1 : k # i => \E h \in 1..n : Behind(h, i) = k
  <2> DEFINE more == n + 1
  <2>1. more \in Nat /\ i \in 1..more
    BY <1>2, <1>5
  <2>2. more - 1 = n
    <3>1. n \in Nat
      BY <1>1
    <3>2. QED
      BY <3>1
  <2> HIDE DEF more
  <2>3. /\ \A k \in 1..more - 1 : Behind(k, i) \in 1..more /\ Behind(k, i) # i
        /\ \A j, k \in 1..more - 1 : Behind(j, i) = Behind(k, i) => j = k
        /\ \A k \in 1..more : k # i => \E h \in 1..more - 1 : Behind(h, i) = k
    BY <2>1, BehindIs
  <2>4. QED
    BY <2>2, <2>3 DEF more
<1>7. \A k \in 1..n + 1 : k # i => \E h \in 1..n : Behind(h, i) = k
  BY <1>6
<1>8. ASSUME NEW j \in 1..n
      PROVE  /\ shifted[j] \in Entries
             /\ shifted[j].index = Behind(c[j].index, i) /\ shifted[j].key = c[j].key
  <2>1. shifted[j] = IF c[j].index >= i THEN Models!Entry(c[j].key, c[j].index + 1) ELSE c[j]
    BY <1>1
  <2> HIDE DEF shifted
  <2> DEFINE x == c[j].index
  <2>2. c[j] \in Entries /\ x \in 1..n /\ c[j].key = l[x]
    BY <1>1
  <2>3. c[j].key \in Member
    BY <1>1, <2>2
  <2> HIDE DEF x
  <2>4. x + 1 \in Nat /\ Behind(x, i) = IF x >= i THEN x + 1 ELSE x
    BY <1>1, <1>2, <2>2 DEF Behind
  <2>5. CASE x >= i
    BY <2>1, <2>3, <2>4, <2>5, EntryHas DEF x
  <2>6. CASE ~(x >= i)
    BY <2>1, <2>2, <2>4, <2>6 DEF x
  <2>7. QED
    BY <2>5, <2>6
<1>9. shifted \in [1..n -> Entries]
  BY <1>1, <1>8
<1>10. e \in Entries /\ e.key = m /\ e.index = i
  BY <1>2, EntryHas
<1> HIDE DEF shifted, e
<1>11. shifted \in Seq(Entries) /\ Len(shifted) = n
  BY <1>1, <1>9, FunctionIsSeq
<1>12. /\ c2 \in Seq(Entries) /\ Len(c2) = n + 1
       /\ \A j \in 1..n : c2[j] = shifted[j]
       /\ c2[n + 1] = e
  BY <1>10, <1>11, AppendProperties
<1> HIDE DEF c2
<1>13. \A j \in 1..n + 1 : j \in 1..n \/ j = n + 1
  BY <1>1
<1>14. \A j \in 1..n : j \in 1..n + 1
  BY <1>1
<1>15. ASSUME NEW j \in 1..n
       PROVE  /\ c2[j].index = Behind(c[j].index, i) /\ c[j].index \in 1..n
              /\ c2[j].index \in 1..n + 1 /\ c2[j].index # i
              /\ c2[j].key = l2[c2[j].index]
  <2>1. c2[j] = shifted[j]
    BY <1>12
  <2>2. c[j].index \in 1..n /\ c[j].key = l[c[j].index]
    BY <1>1
  <2>3. /\ Behind(c[j].index, i) \in 1..n + 1 /\ Behind(c[j].index, i) # i
        /\ l2[Behind(c[j].index, i)] = l[c[j].index]
    BY <1>4, <1>6, <2>2
  <2>4. QED
    BY <1>8, <2>1, <2>2, <2>3
<1>16. c2[n + 1].index = i /\ c2[n + 1].key = m /\ n + 1 \in 1..n + 1
  BY <1>1, <1>10, <1>12
<1>17. ASSUME NEW j \in 1..n + 1
       PROVE  c2[j].index \in 1..n + 1 /\ c2[j].key = l2[c2[j].index]
  BY <1>2, <1>4, <1>13, <1>15, <1>16
<1>18. ASSUME NEW k \in 1..n + 1
       PROVE  \E j \in 1..n + 1 : c2[j].index = k
  <2>1. CASE k = i
    BY <1>16, <2>1
  <2>2. CASE k # i
    <3>1. PICK h \in 1..n : Behind(h, i) = k
      BY <1>7, <2>2
    <3>2. PICK j \in 1..n : c[j].index = h
      BY <1>1
    <3>3. c2[j].index = k /\ j \in 1..n + 1
      BY <1>14, <1>15, <3>1, <3>2
    <3>4. QED
      BY <3>3
  <2>3. QED
    BY <2>1, <2>2
<1>19. ASSUME NEW j \in 1..n + 1, NEW k \in 1..n + 1, c2[j].index = c2[k].index
       PROVE  j = k
  <2>1. CASE j \in 1..n /\ k \in 1..n
    <3>1. c[j].index = c[k].index
      BY <1>6, <1>15, <1>19, <2>1
    <3>2. QED
      BY <1>1, <2>1, <3>1
  <2>2. CASE j = n + 1 /\ k = n + 1
    BY <2>2
  <2>3. QED
    BY <1>13, <1>15, <1>16, <1>19, <2>1, <2>2
<1>20. Full(l2, c2)
  BY <1>4, <1>12, <1>17, <1>18, <1>19 DEF Full, Entries
<1>21. Different(l2)
  <2>1. \A j, k \in 1..n : l[j] = l[k] => j = k
    BY DEF Different, n
  <2>2. \A k \in 1..n : l[k] # m
    BY <1>1 DEF Models!Range
  <2>3. ASSUME NEW j \in 1..n + 1, NEW k \in 1..n + 1, l2[j] = l2[k]
        PROVE  j = k
    <3>1. CASE j = i \/ k = i
      BY <1>4, <1>7, <2>2, <2>3, <3>1
    <3>2. CASE j # i /\ k # i
      <4>1. PICK h \in 1..n : Behind(h, i) = j
        BY <1>7, <3>2
      <4>2. PICK g \in 1..n : Behind(g, i) = k
        BY <1>7, <3>2
      <4>3. l[h] = l[g]
        BY <1>4, <2>3, <4>1, <4>2
      <4>4. QED
        BY <2>1, <4>1, <4>2, <4>3
    <3>3. QED
      BY <3>1, <3>2
  <2>4. QED
    BY <1>4, <2>3 DEF Different
<1>22. QED
  BY <1>3, <1>20, <1>21 DEF l2

-----------------------------------------------------------------------------
LEMMA NoModels == Different(<<>>) /\ Full(<<>>, <<>>)
<1>1. /\ <<>> \in Seq(Member) /\ <<>> \in Seq([key : Member, index : Nat]) /\ Len(<<>>) = 0
  OBVIOUS
<1>2. QED
  BY <1>1 DEF Different, Full

\* The first of equal models in the list is the only one.
LEMMA RemoveFirstIs ==
  ASSUME NEW l, Different(l), NEW i \in 1..Len(l)
  PROVE  Models!RemoveFirst(l, l[i]) = Models!RemoveAt(l, i)
<1>1. Len(l) \in Nat
  BY LenProperties DEF Different
<1>2. {j \in 1..Len(l) : l[j] = l[i]} = {i}
  BY DEF Different
<1>3. Models!Min({i}) = i
  <2>1. i <= i
    BY <1>1
  <2>2. QED
    BY <2>1 DEF Models!Min
<1>4. Models!SelectInSeq(l, LAMBDA v : v = l[i]) = i
  BY <1>2, <1>3 DEF Models!SelectInSeq
<1>5. QED
  BY <1>4 DEF Models!RemoveFirst

LEMMA ModelsStepKeeps ==
  ASSUME Slices = FALSE, ModelsInv, Models!Next
  PROVE  ModelsInv'
<1>1. /\ Different(list) /\ Full(list, Models!Ready)
      /\ Len(list) \in Nat /\ DOMAIN list = 1..Len(list)
  BY ReadyIsFull, LenProperties DEF ModelsInv, Different
<1>2. ASSUME Different(list'), cache' = <<>> \/ Full(list', cache')
      PROVE  ModelsInv'
  BY <1>2 DEF ModelsInv, Different, Full
<1>3. \A m \in Member : Models!Has(m) <=> m \in Models!Range(list)
  BY ModelsAreFound DEF IndexedByKey, Models!IndexedByKey
<1>4. ASSUME NEW m \in Member, Models!LookUp(m)
      PROVE  ModelsInv'
  BY <1>1, <1>2, <1>4, AfterIsFull DEF Models!LookUp
<1>5. ASSUME NEW m \in Member, Models!AppendModel(m)
      PROVE  ModelsInv'
  BY <1>1, <1>2, <1>3, <1>5, AppendKeepsFull DEF Models!AppendModel
<1>6. ASSUME NEW m \in Member, Models!RemoveModel(m)
      PROVE  ModelsInv'
  <2>1. PICK i \in 1..Len(list) : list[i] = m
    BY <1>1, <1>6 DEF Models!RemoveModel, Models!Range
  <2>2. list' = Models!RemoveAt(list, i) /\ cache' = Models!Pop(cache, list[i])
    BY <1>1, <1>6, <2>1, RemoveFirstIs DEF Models!RemoveModel
  <2>3. CASE cache = <<>>
    <3>1. Models!Keys(<<>>) = {}
      BY DEF Models!Keys, Models!Range
    <3>2. cache' = <<>>
      BY <2>2, <2>3, <3>1 DEF Models!Pop
    <3>3. Different(list')
      BY <1>1, <2>2, PopKeepsFull
    <3>4. QED
      BY <1>2, <3>2, <3>3
  <2>4. CASE Full(list, cache)
    BY <1>1, <1>2, <2>2, <2>4, PopKeepsFull
  <2>5. QED
    BY <2>3, <2>4 DEF ModelsInv
<1>7. ASSUME NEW i \in 1..Len(list) + 1, NEW m \in Member, Models!InsertModel(i, m)
      PROVE  ModelsInv'
  BY <1>1, <1>2, <1>3, <1>7, InsertKeepsFull DEF Models!InsertModel
<1>8. ASSUME NEW i \in 1..Len(list), Models!PopIndex(i)
      PROVE  ModelsInv'
  BY <1>1, <1>2, <1>8, PopKeepsFull DEF Models!PopIndex
<1>9. ASSUME NEW i \in 1..Len(list), NEW m \in Member, Models!SetIndex(i, m)
      PROVE  ModelsInv'
  <2>1. m = list[i] \/ m \notin Models!Range(list)
    BY <1>9 DEF Models!SetIndex
  <2>2. QED
    BY <1>1, <1>2, <1>9, <2>1, ReplaceKeepsFull DEF Models!SetIndex
<1>10. ASSUME Models!DeleteSlice(1, Len(list))
       PROVE  ModelsInv'
  <2> DEFINE n == Len(list)
  <2>1. list' = <<>>
    <3>1. /\ SubSeq(list, 1, 1 - 1) \in Seq(Member) /\ Len(SubSeq(list, 1, 1 - 1)) = 0
          /\ SubSeq(list, n + 1, n) \in Seq(Member) /\ Len(SubSeq(list, n + 1, n)) = 0
      <4>1. /\ \A i \in 1..1 - 1 : list[i] \in Member
            /\ \A i \in n + 1..n : list[i] \in Member
        BY <1>1
      <4>2. /\ SubSeq(list, 1, 1 - 1) \in Seq(Member)
            /\ Len(SubSeq(list, 1, 1 - 1)) = IF 1 <= 1 - 1 THEN 1 - 1 - 1 + 1 ELSE 0
        BY <4>1, SubSeqProperties
      <4>3. /\ SubSeq(list, n + 1, n) \in Seq(Member)
            /\ Len(SubSeq(list, n + 1, n)) = IF n + 1 <= n THEN n - (n + 1) + 1 ELSE 0
        BY <1>1, <4>1, SubSeqProperties
      <4> HIDE DEF n
      <4>4. ~(n + 1 <= n)
        BY <1>1 DEF n
      <4>5. QED
        BY <4>2, <4>3, <4>4
    <3>2. SubSeq(list, 1, 1 - 1) = <<>> /\ SubSeq(list, n + 1, n) = <<>>
      BY <3>1, EmptySeq
    <3>3. list' = SubSeq(list, 1, 1 - 1) \o SubSeq(list, n + 1, n)
      BY <1>10 DEF Models!DeleteSlice, Models!Without
    <3>4. <<>> \o <<>> = <<>>
      BY <3>1, <3>2, ConcatEmptySeq
    <3>5. QED
      BY <3>2, <3>3, <3>4
  <2>2. Len(cache) <= n - 1 + 1
    <3>1. Len(cache) = 0 \/ Len(cache) = n
      BY <1>1, EmptySeq DEF ModelsInv, Full
    <3>2. QED
      BY <1>1, <3>1
  <2>3. cache' = <<>>
    BY <1>10, <2>2 DEF Models!DeleteSlice, Models!DelSlice
  <2>4. QED
    BY <1>2, <2>1, <2>3, NoModels
<1>11. ASSUME NEW models \in {s \in Models!SeqOf(Member, 2) : Models!IsInjective(s)},
              Models!Assign(models)
       PROVE  ModelsInv'
  <2>1. PICK k \in 0..2 : models \in [1..k -> Member]
    BY DEF Models!SeqOf
  <2>2. models \in Seq(Member) /\ Len(models) = k /\ DOMAIN models = 1..k
    BY <2>1, FunctionIsSeq
  <2>3. Different(models)
    BY <2>2 DEF Models!IsInjective, Different
  <2>4. QED
    BY <1>2, <1>11, <2>3, PopulatedIsFull DEF Models!Assign
<1>12. ASSUME Models!Clear
       PROVE  ModelsInv'
  BY <1>2, <1>12, NoModels DEF Models!Clear
<1>13. ASSUME Models!WithSnapshots
       PROVE  ModelsInv'
  BY <1>1, <1>2, <1>13 DEF Models!WithSnapshots
<1>14. QED
  BY <1>4, <1>5, <1>6, <1>7, <1>8, <1>9, <1>10, <1>11, <1>12, <1>13 DEF Models!Next

\* Whatever was done to a collection, every model is found under its key where
\* it is in the list, and no other is (ModelCollection of
\* portia_orm/collection.py), as long as no part of it is deleted by a slice.
THEOREM ModelsAreIndexed ==
  ASSUME Slices = FALSE
  PROVE  Spec => []IndexedByKey
<1>1. Init => ModelsInv
  BY NoModels DEF Init, Models!Init, ModelsInv
<1>2. ModelsInv /\ [Next]_vars => ModelsInv'
  <2>1. ASSUME ModelsInv, UNCHANGED <<list, cache>>
        PROVE  ModelsInv'
    BY <2>1 DEF ModelsInv, Different, Full
  <2>2. QED
    BY <2>1, ModelsStepKeeps DEF Next, vars, modelsVars
<1>3. ModelsInv => IndexedByKey
  BY ModelsAreFound
<1>4. QED
  BY <1>1, <1>2, <1>3, PTL DEF Spec

============================================================================
