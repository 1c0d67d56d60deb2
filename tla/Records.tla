------------------------------ MODULE Records ------------------------------
(***************************************************************************)
(* Finding the records of a list (RepeatedContainerExtractor,              *)
(* slybot/plugins/scrapely_annotations/extraction/container_extractors.py).*)
(* A user annotates one record of a list.  From the tags around and inside *)
(* it the extractor derives a prefix, a suffix and a shortest length; on a *)
(* page it scans for the prefix, looks ahead for the suffix or for the     *)
(* next prefix, extracts what is between, and goes on from there.          *)
(*                                                                         *)
(* A page is a sequence of tokens <<kind, tag>>.  Positions are those of   *)
(* the code: the first token is at 0 and a slice excludes its end.  What a *)
(* record contains matters only for whether a required field is missing in *)
(* it, which is chosen with the page.                                      *)
(***************************************************************************)
EXTENDS Integers, SequencesExt

CONSTANTS Shape,      \* the records a list may hold: one element or several siblings,
                      \* each a sequence of tokens
          MaxRecords, \* bounds the records of a page
          MaxRegions  \* bounds the regions extracted from a page

VARIABLES annotated,  \* the shape of the record the user annotated
          bounds,     \* prefix, suffix, offset and shortest length from it
          records,    \* the shapes of the records of the page at hand
          noise,      \* the tokens around the list on that page
          incomplete, \* the positions of records that lack a required field
          index,      \* where the scan is
          regions     \* the regions extracted, in order

vars == <<annotated, bounds, records, noise, incomplete, index, regions>>
Given == <<annotated, bounds, records, noise, incomplete>>

open_tags == {"open", "unpaired"}
all_tags == {"open", "unpaired", "close"}

Slice(s, from, to) == SubSeq(s, from + 1, IF to < Len(s) THEN to ELSE Len(s))

Page(list, around) ==
  <<<<"open", "html">>, <<"open", "ul">>>> \o around \o FlattenSeq(FlattenSeq(list))
    \o around \o <<<<"close", "ul">>, <<"close", "html">>>>

\* The list element is at 1; it ends two tokens before the end of the page.
ListStart == 1
ListEnd(p) == Len(p) - 2
StartOf(list, around, k) ==
  2 + Len(around) + Len(FlattenSeq(FlattenSeq(SubSeq(list, 1, k - 1))))

-----------------------------------------------------------------------------
(* What the annotation determines                                          *)

\* Reading tokens backwards: those of the given kinds up to the first other
\* one.  Of more than three the one furthest away is left out.
FindTokens(tokens, kinds, upto) ==
  LET back == Reverse(tokens)
      stops == {i \in DOMAIN back : back[i][1] \notin kinds \/ back[i] = upto}
      run == IF stops = {} THEN back ELSE SubSeq(back, 1, Min(stops) - 1)
  IN  IF Len(run) > 3 THEN Front(run) ELSE run

\* Mutant: all tokens in front of the record stay, those around the list too.
TrimPrefixKept(tokens, least, fromEnd) == tokens

\* The code looks ahead for sibling regions before it trims; it compares with
\* start - end, which is never positive, so it always trims to the minimum.
TrimPrefix(tokens, least, fromEnd) ==
  IF Len(tokens) <= least THEN tokens
  ELSE IF fromEnd THEN SubSeq(tokens, 1, least)
  ELSE SubSeq(tokens, Len(tokens) - least + 1, Len(tokens))

None == <<"none", "none">>
SevenTenths(n) == (7 * n) \div 10

\* The last token of the annotated record.  Of a record with siblings it is the
\* one after them, and none of them count where the list ends there.
RecordEnd(p, start, shape) ==
  LET after == start + Len(FlattenSeq(shape))
  IN  IF Len(shape) > 1 /\ after < ListEnd(p) THEN after ELSE start + Len(Head(shape)) - 1

FindPrefixSuffix(p, parent, start, end) ==
  LET inner == Slice(p, start + 1, end)
      before == Reverse(FindTokens(Slice(p, parent, start + 1), open_tags, None))
      prefix == TrimPrefix(TrimPrefix(before, 1, FALSE)
                             \o FindTokens(Reverse(inner), open_tags, None), 3, TRUE)
      last == TrimPrefix(Reverse(FindTokens(Slice(p, start + 1, end + 1), all_tags, None)), 3, FALSE)
      after == FindTokens(Reverse(Slice(p, end + 1, end + SevenTenths(Len(inner)))),
                          open_tags, Head(prefix))
      suffix == TrimPrefix(last \o after, 3, TRUE)
  IN  [prefix |-> prefix, suffix |-> suffix, offset |-> IF after = <<>> THEN 1 ELSE 0,
       jump |-> SevenTenths(end - start - Len(suffix))]

-----------------------------------------------------------------------------
(* The scan                                                                *)

page == Page(records, noise)
prefixlen == Len(bounds.prefix)
suffixlen == Len(bounds.suffix)
MaxIndex == Min({Len(page) - suffixlen, ListEnd(page) + suffixlen})

Matches(at, tokens) == Slice(page, at, at + Len(tokens)) = tokens

Stops(peek) ==
  \/ Matches(peek, bounds.suffix)
  \/ Matches(peek, bounds.prefix)
  \/ peek + suffixlen >= MaxIndex

\* Mutant: the look-ahead starts where the region does.
PeeksFromStart == {peek \in index..MaxIndex : Stops(peek)}

Peeks == {peek \in (index + prefixlen + bounds.jump)..MaxIndex : Stops(peek)}

\* Where the region that starts at index ends: at the suffix, or the length of
\* the suffix before the next record.
RegionEnd ==
  LET peek == Min(Peeks)
  IN  IF Matches(peek, bounds.prefix) THEN peek - (suffixlen + 1) ELSE peek


Scanning == index <= MaxIndex - prefixlen /\ Len(regions) < MaxRegions
Found == Matches(index, bounds.prefix) /\ Peeks # {}

\* The scan resumes one before the end of the region, and moves on by one.
Resume == IF RegionEnd > index THEN RegionEnd ELSE index

Init ==
  /\ annotated \in Shape
  /\ noise \in {<<>>, <<<<"open", "p">>, <<"close", "p">>>>}
  /\ \E n \in 1..MaxRecords, around \in {<<>>, <<<<"open", "p">>, <<"close", "p">>>>} :
       LET list == [i \in 1..n |-> annotated]
           p == Page(list, around)
           start == StartOf(list, around, 1)
       IN  bounds = FindPrefixSuffix(p, ListStart, start, RecordEnd(p, start, annotated))
  /\ records \in UNION {[1..n -> Shape] : n \in 0..MaxRecords}
  /\ incomplete \in {{}} \cup {{StartOf(records, noise, k)} : k \in DOMAIN records}
  /\ index = IF ListStart > Len(bounds.prefix) THEN ListStart - Len(bounds.prefix) ELSE 0
  /\ regions = <<>>

Skip ==
  /\ Scanning /\ ~Found
  /\ index' = index + 1
  /\ UNCHANGED <<regions, Given>>

Extract ==
  /\ Scanning /\ Found /\ index \notin incomplete
  /\ regions' = Append(regions, [start |-> index, end |-> RegionEnd + bounds.offset])
  /\ index' = Resume
  /\ UNCHANGED Given

\* MissingRequiredError: the first extractor raises it before the scan has been
\* moved to the end of the region, a later one after.
MissingRequired ==
  /\ Scanning /\ Found /\ index \in incomplete
  /\ index' \in {index + 1, Resume}
  /\ UNCHANGED <<regions, Given>>

Next == Skip \/ Extract \/ MissingRequired
Spec == Init /\ [][Next]_vars

-----------------------------------------------------------------------------
Roomy == \A k \in DOMAIN records : Len(FlattenSeq(records[k])) > 4
Finished == index > MaxIndex - prefixlen

\* No record is extracted twice and none before one that precedes it: the
\* region that ends in front of the next record must still end behind its own
\* start, or the scan finds the same record again.
RegionsInOrder ==
  \A i, j \in DOMAIN regions : i < j => regions[i].start < regions[j].start

\* For lists of records long enough for the prefix and the suffix not to
\* overlap, the same.
RoomyRegionsInOrder == Roomy => RegionsInOrder

\* A list of records like the annotated one is read completely: every record
\* that has its required fields gives one region, wherever the list is on the
\* page and however many records it has, and nothing else does.
EachRecordIsFound ==
  (Roomy /\ Finished /\ \A k \in DOMAIN records : records[k] = annotated)
    => [i \in DOMAIN regions |-> regions[i].start]
         = SelectSeq([k \in DOMAIN records |-> StartOf(records, noise, k)],
                     LAMBDA start : start \notin incomplete)
=============================================================================
