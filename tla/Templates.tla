----------------------------- MODULE Templates -----------------------------
(***************************************************************************)
(* The samples of a spider at work: they are annotated on the body the     *)
(* crawler will see and grouped by version, the first group that finds     *)
(* items on a page decides (Annotations, scrapely_annotations/             *)
(* annotations.py); the user is shown what they find on the page in the    *)
(* browser and is warned where javascript makes a difference (ItemChecker, *)
(* slyd/splash/commands.py).                                               *)
(*                                                                         *)
(* A template is [new, type, scrapes, body, built, gives]: whether its     *)
(* version is 0.13.0 or later, its page type, the schema it scrapes, the   *)
(* body that is to be used and the one it was annotated on, and what it    *)
(* finds on each page: [items, links], links being the regions to look for *)
(* links in.  Items are functions from fields to values.                   *)
(***************************************************************************)
EXTENDS Integers, SequencesExt

CONSTANT Unset     \* of a template that names no body, or was never annotated

\* Mutant: what is annotated stays as it is.
BuiltOnce(template, body) ==
  IF template.built = Unset THEN body ELSE template.built

\* Annotated again when another body is to be used.
Built(template, body) ==
  IF template.body # body \/ template.built = Unset THEN body ELSE template.built

\* _get_annotated_template
Annotated(template, using_js) ==
  LET body == IF ~template.new THEN template.body
              ELSE IF using_js THEN "rendered" ELSE "original"
      used == IF body = Unset THEN "original" ELSE body
  IN  [template EXCEPT !.body = body,
                       !.built = IF template.new THEN Built(template, body)
                                 ELSE IF @ = Unset THEN used ELSE @]

\* setup_bot: by schema, then by version; the old ones first.
Groups(templates) ==
  LET items == SelectSeq(templates, LAMBDA t : t.type = "item")
      sorted == FlattenSeq([s \in 1..2 |-> SelectSeq(items, LAMBDA t : t.scrapes = s)])
  IN  SelectSeq(<<SelectSeq(sorted, LAMBDA t : ~t.new), SelectSeq(sorted, LAMBDA t : t.new)>>,
                LAMBDA group : group # <<>>)

Nothing == [items |-> <<>>, links |-> <<>>]

\* _do_extract_items_from: the first template of a group that finds an item; the
\* last one's regions if none does.
Group(group, page) ==
  LET finding == {i \in DOMAIN group : group[i].gives[page].items # <<>>}
  IN  IF finding = {} THEN Nothing
      ELSE group[CHOOSE i \in finding : \A j \in finding : i <= j].gives[page]

\* Mutant: the first group decides.
OfFirstGroup(templates, page) ==
  IF Groups(templates) = <<>> THEN Nothing ELSE Group(Head(Groups(templates)), page)

\* extract_items
ExtractItems(templates, page) ==
  LET results == [i \in DOMAIN Groups(templates) |-> Group(Groups(templates)[i], page)]
      found == SelectSeq(results, LAMBDA r : r.items # <<>>)
  IN  IF found = <<>> THEN Nothing ELSE Head(found)

\* _process_link_regions: regions restrict where links are looked for; an
\* address is followed once for each region it is in.
LinksToFollow(links, everywhere) ==
  IF links = <<>> THEN everywhere ELSE FlattenSeq(links)

-----------------------------------------------------------------------------
(* ItemChecker                                                             *)

\* Mutant: only items both pages have are compared.
MoreNowhere(a, b) == FALSE

MoreIn(a, b) == Len(b) > Len(a)

\* _compare_items: that a has more items than b is not said.
CompareItems(a, b) ==
  LET both == 1..(IF Len(a) < Len(b) THEN Len(a) ELSE Len(b))
  IN  [changes |->
         (IF MoreIn(a, b) THEN {"missing_items"} ELSE {})
           \cup (IF \E i \in both : DOMAIN a[i] # DOMAIN b[i] THEN {"missing_fields"} ELSE {}),
       differ |-> {i \in both : a[i] # b[i]}]

\* _load_items: what the browser shows and what the server sent.  The body it
\* asks for is read by nobody: setup_bot chooses it.
LoadItems(templates) == [live |-> ExtractItems(templates, "live").items,
                         raw  |-> ExtractItems(templates, "raw").items]

\* _check_items, the samples being annotated on either body in turn
CheckItems(templates, using_js) ==
  LET js == LoadItems(templates)
      plain == LoadItems(templates)
      shown == IF using_js THEN CompareItems(js.live, plain.raw)
               ELSE CompareItems(plain.raw, js.raw)
      more == IF using_js
              THEN IF js.live # <<>> /\ plain.raw = <<>> THEN {"no_items"} ELSE {}
              ELSE CompareItems(plain.live, js.live).changes
  IN  [items |-> IF using_js THEN js.live
                 ELSE IF plain.raw # <<>> THEN plain.raw ELSE plain.live,
       changes |-> shown.changes \cup more,
       differ |-> shown.differ]

\* Mutant: the items inside an item are not looked at.
MissingOutside(item) == item.required \ item.annotated

\* _check_item: the fields reported as missing, those of an item inside first.
RECURSIVE MissingFields(_)
MissingFields(item) ==
  LET inside == SelectSeq([i \in DOMAIN item.nested |-> MissingFields(item.nested[i])],
                          LAMBDA missing : missing # {})
  IN  IF inside # <<>> THEN Head(inside) ELSE item.required \ item.annotated

\* extract, of a sample that is being edited
CheckSample(sample, templates, using_js) ==
  IF MissingFields(sample) # {}
  THEN [items |-> <<>>, changes |-> {"missing_required_field"}, differ |-> {}]
  ELSE CheckItems(templates, using_js)
=============================================================================
