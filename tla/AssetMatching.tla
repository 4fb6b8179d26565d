---------------------------- MODULE AssetMatching ----------------------------
(***************************************************************************)
(* The tool nodes of the asset catalog workflow that decide which assets   *)
(* of a script are new: two lookups in the library, the matches of a       *)
(* language model, the merge of the three (tool.enrich_characters), and,   *)
(* after the user's review, the filter before generation.  A lookup        *)
(* searches, and then reads the tags of each asset it found; the library   *)
(* may change between the two.  A name is the sequence of the parts it is  *)
(* written with (role_name_variant); tags are whole and in lower case.     *)
(* What a node puts out is kept as the set of the places of assets in the  *)
(* library, or of items in the script; the order of a list is that of the  *)
(* places.                                                                 *)
(***************************************************************************)
EXTENDS Integers, FiniteSets, Sequences, FiniteSetsExt, Functions

CONSTANTS TypeTags,   \* [type -> the tag that stands for it]
          Scripts,    \* the items extracted from a script
          Libraries,  \* the libraries to begin with: sequences of assets, oldest first
          Default,    \* the tag of assets that fit every item of their name
          Within,     \* pairs of tags, the first a part of the text of the second
          Limit,      \* the limit of a search
          Absent      \* no type, no asset

\* Scripts and libraries are lists, and Absent is no place in one.
ASSUME MatchingAssumption ==
  Limit \in Nat /\ Absent \notin Nat /\ \A s \in Scripts \cup Libraries : s \in Seq(Range(s))

VARIABLES items,    \* the script's items: [type, name, tags]
          library,  \* [name and tags of the metadata, name parts, library tags, live]
          step,     \* which node runs, or has failed
          found,    \* [lookup -> the assets it has found]
          todo,     \* those whose tags it has yet to read
          records,  \* [lookup -> the assets of its output]
          semantic, \* [item -> the asset the model says it is, or Absent]
          merged,   \* the output of the merge: [item -> its asset, or Absent]
          approved, \* the items the user has left in the list
          kept      \* the items the filter puts out
matchingVars == <<items, library, step, found, todo, records, semantic, merged, approved, kept>>

Lookups == {"existing", "by_name"}
Ids == DOMAIN library
ItemIds == DOMAIN items
TypeOfTag(t) == CHOOSE k \in DOMAIN TypeTags : TypeTags[k] = t
\* `a or b'.
Else(a, b) == IF a # Absent THEN a ELSE b

-----------------------------------------------------------------------------
(* normalize_asset_record: the type, the name and the tags of a record.    *)

IsTypeTag(p) == p \in Range(TypeTags)
Composite(v) == Len(v.label) >= 2 /\ IsTypeTag(v.label[1])
TypeOfFirst(s) == IF s # <<>> /\ IsTypeTag(s[1]) THEN TypeOfTag(s[1]) ELSE Absent
TypeFrom(v, default) ==
  Else(v.type, Else(default, Else(TypeOfFirst(v.tags), TypeOfFirst(v.label))))
NameFrom(v) ==
  CASE v.name # <<>> -> v.name
    [] v.name = <<>> /\ Composite(v) -> <<v.label[2]>>
    [] v.name = <<>> /\ ~Composite(v) /\ v.label # <<>> -> v.label
    [] OTHER -> IF Len(v.tags) >= 2 /\ IsTypeTag(v.tags[1]) THEN <<v.tags[2]>> ELSE <<>>
TagsFrom(v, type, name) ==
  LET given == IF v.itags # {} THEN v.itags
               ELSE IF Composite(v) THEN Range(SubSeq(v.label, 3, Len(v.label)))
               ELSE Range(v.tags)
  IN  {t \in given : <<t>> # name /\ (type # Absent => t # TypeTags[type])}
Identity(v, default) ==
  LET type == TypeFrom(v, default)
      name == NameFrom(v)
  IN  [type |-> type, name |-> name, tags |-> TagsFrom(v, type, name)]
Record(a, name, itags) ==
  [type |-> Absent, name |-> name, itags |-> itags,
   label |-> library[a].label, tags |-> library[a].tags]
\* A lookup asks who an asset is with the name and the tags of its metadata; the
\* merge asks of the record the lookup has put out, where these are not at hand.
LookedUp(a) ==
  LET id == Identity(Record(a, library[a].name, library[a].itags), Absent)
      typeTags == SelectSeq(library[a].tags, IsTypeTag) IN
  [id EXCEPT !.tags = IF typeTags = <<>> THEN @ ELSE @ \ {typeTags[1]}]
Who(a) == Identity(Record(a, <<>>, {}), Absent)

-----------------------------------------------------------------------------
(* tool.asset_lookup                                                       *)

\* search_assets with the tag of the type, oldest first, up to the limit.
Tagged(tag) == {a \in Ids : library[a].live /\ tag \in Range(library[a].tags)}
\* Mutant: without the limit.
SearchedAll(tag) == Tagged(tag)
Searched(tag) == {a \in Tagged(tag) : Cardinality({b \in Tagged(tag) : b < a}) < Limit}
\* _matches_any_identity
Matches(who, filter) ==
  /\ who.type # Absent /\ who.name # <<>>
  /\ who.type = filter.type /\ who.name = filter.name
  /\ \/ filter.tags = {} \/ who.tags = {}
     \/ Default \in who.tags
     \/ \E t \in who.tags, u \in filter.tags : t = u \/ <<t, u>> \in Within \/ <<u, t>> \in Within
Filters == {items[i] : i \in {j \in ItemIds : items[j].type # Absent}}

After(k) == IF k = "existing" THEN "by_name" ELSE "semantic"
Search(k) ==
  /\ step = k /\ found[k] = {}
  /\ found' = [found EXCEPT ![k] = Searched(TypeTags["character"])]
  /\ todo' = Searched(TypeTags["character"])
  /\ step' = IF todo' = {} THEN After(k) ELSE k
  /\ UNCHANGED <<items, library, records, semantic, merged, approved, kept>>
\* list_asset_tags reads the asset again; one deleted meanwhile fails the node.
\* Without filters to go by, a lookup puts out whatever it has found.
ReadTags(k) ==
  /\ step = k /\ todo # {}
  /\ LET a == Min(todo)
         fits == k = "existing" \/ Filters = {} \/ \E f \in Filters : Matches(LookedUp(a), f) IN
     /\ \/ ~library[a].live /\ step' = "failed" /\ UNCHANGED records
        \/ /\ library[a].live
           /\ records' = [records EXCEPT ![k] = IF fits THEN @ \cup {a} ELSE @]
           /\ step' = IF todo = {a} THEN After(k) ELSE k
     /\ todo' = todo \ {a}
  /\ UNCHANGED <<items, library, found, semantic, merged, approved, kept>>

\* The language model names an asset it was shown, or none, for each name.
SemanticMatch ==
  /\ step = "semantic"
  /\ \E m \in [{items[i].name : i \in ItemIds} -> records["existing"] \cup {Absent}] :
       semantic' = [i \in ItemIds |-> m[items[i].name]]
  /\ step' = "enrich"
  /\ UNCHANGED <<items, library, found, todo, records, merged, approved, kept>>

-----------------------------------------------------------------------------
(* tool.enrich_characters                                                  *)

KnownAssets == records["by_name"] \cup records["existing"]
\* Of some known assets, the first: those found by name come before the others.
First(S) ==
  CASE S \cap records["by_name"] # {} -> Min(S \cap records["by_name"])
    [] S # {} /\ S \cap records["by_name"] = {} -> Min(S)
    [] OTHER -> Absent
\* The type of the first asset that has one.
InferType ==
  LET typed == {a \in KnownAssets : Who(a).type # Absent} IN
  IF typed = {} THEN "character" ELSE Who(First(typed)).type
OfTypedName(item) == {a \in KnownAssets : Who(a).type = item.type /\ Who(a).name = item.name}
\* _find_asset_by_tags, and the first of the name for an item without tags.
\* Mutant: the first of the name is taken whatever its tags.
FindFirst(item) == First(OfTypedName(item))
FindByTags(item) == First({a \in OfTypedName(item) : item.tags \subseteq Who(a).tags})
\* The plain name: that of the library, of the last asset that has it, before
\* the main name of the first.
FindByName(item) ==
  LET written == {a \in records["by_name"] : library[a].label = item.name}
      meant == {a \in records["by_name"] : Who(a).name = item.name}
  IN  IF written # {} THEN Max(written) ELSE First(meant)
ItemOf(i) ==
  Identity([type |-> items[i].type, name |-> items[i].name, itags |-> items[i].tags,
            label |-> <<>>, tags |-> <<>>], InferType)
AssetOf(i) == Else(FindByTags(ItemOf(i)), Else(FindByName(ItemOf(i)), semantic[i]))
Enrich ==
  /\ step = "enrich"
  /\ merged' = [i \in ItemIds |-> AssetOf(i)]
  /\ step' = "review"
  /\ UNCHANGED <<items, library, found, todo, records, semantic, approved, kept>>

-----------------------------------------------------------------------------
(* The user's review, which may take items off the list, and               *)
(* tool.filter_assets_for_generation.                                      *)

Review ==
  /\ step = "review"
  /\ approved' \in SUBSET ItemIds
  /\ step' = "filter"
  /\ UNCHANGED <<items, library, found, todo, records, semantic, merged, kept>>

IsExisting(i) == merged[i] # Absent
Filter ==
  /\ step = "filter"
  /\ kept' = {i \in approved : ~IsExisting(i)}
  /\ step' = "done"
  /\ UNCHANGED <<items, library, found, todo, records, semantic, merged, approved>>

-----------------------------------------------------------------------------
(* Someone deletes an asset meanwhile.                                     *)

DeleteAsset(a) ==
  /\ step \in Lookups
  /\ library[a].live
  /\ library' = [library EXCEPT ![a].live = FALSE]
  /\ UNCHANGED <<items, step, found, todo, records, semantic, merged, approved, kept>>

NothingYet ==
  /\ step = "existing" /\ found = [k \in Lookups |-> {}] /\ todo = {}
  /\ records = [k \in Lookups |-> {}]
  /\ semantic = [i \in ItemIds |-> Absent] /\ merged = <<>> /\ approved = {} /\ kept = {}
MatchingInit == items \in Scripts /\ library \in Libraries /\ NothingYet
MatchingNext ==
  \/ \E k \in Lookups : Search(k) \/ ReadTags(k)
  \/ SemanticMatch \/ Enrich \/ Review \/ Filter
  \/ \E a \in Ids : DeleteAsset(a)
MatchingSpec == MatchingInit /\ [][MatchingNext]_matchingVars

-----------------------------------------------------------------------------
(* Properties                                                              *)

\* The nodes run in the workflow's order, and a lookup puts out at most as many
\* assets as its limit, each of them found in the library.
MatchingTypeOK ==
  /\ step \in Lookups \cup {"semantic", "enrich", "review", "filter", "done", "failed"}
  /\ \A k \in Lookups : /\ found[k] \subseteq Ids /\ Cardinality(found[k]) <= Limit
                         /\ records[k] \subseteq found[k]
  /\ approved \subseteq ItemIds /\ kept \subseteq ItemIds

\* The assets of an item's type and name, as the merge sees them, that have all
\* its tags: among all that the first search has found and those put out by name.
Fitting(i) ==
  {a \in found["existing"] \cup records["by_name"] :
     /\ Who(a).type = ItemOf(i).type /\ Who(a).name = ItemOf(i).name
     /\ ItemOf(i).tags \subseteq Who(a).tags}
\* Those put out by name that have its name, whatever their tags.
Named(i) ==
  {a \in records["by_name"] : ItemOf(i).name \in {Who(a).name, library[a].label}}

\* An item is matched to an asset that lacks one of its tags only when no asset
\* of its type and name that was found has them all, to one of another name
\* only when the language model says so and none was put out under its name, and
\* it is kept for generation only when there is nothing of the kind (asset_lookup,
\* enrich_characters, filter_assets_for_generation).
BestMatch ==
  step \in {"review", "filter", "done"} => \A i \in ItemIds :
    /\ Fitting(i) # {} => merged[i] \in Fitting(i)
    /\ merged[i] \notin Fitting(i) \cup Named(i) => Named(i) = {} /\ merged[i] = semantic[i]
    /\ i \in kept => Fitting(i) \cup Named(i) = {} /\ semantic[i] = Absent
=============================================================================
