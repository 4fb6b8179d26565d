---------------------------- MODULE AssetLibrary ----------------------------
(***************************************************************************)
(* SqliteAssetService: the rows of assets, asset_tags, asset_collections   *)
(* and asset_index_entries, and the requests that change them.  A request  *)
(* is split at every database call.  What a connection does from its first *)
(* write to its commit is one step (SQLite has one writer); the reads      *)
(* before it are steps of their own.  Foreign keys are on, so a write that *)
(* would leave a reference behind fails and the connection is rolled back. *)
(* Ids are fresh (new_id); the pools of ids bound the model.               *)
(***************************************************************************)
EXTENDS Integers, FiniteSets, AssetRoutes

CONSTANTS Projects, AssetNames, EpisodeTag, TagIds, CollIds, Calls, StartLibrary,
          MaxIds   \* a bound on the list of tags of a search

ASSUME LibraryAssumption == MaxIds \in Nat

VARIABLES assets,   \* [id -> project, name, text, episode, live]
          tags,     \* [id -> project, name, there]
          colls,    \* [id -> project, parent, title, there]
          entries,  \* pairs of an asset and a tag or a collection
          libreq       \* [Requests -> what the handler remembers]

library == <<assets, tags, colls, entries>>
libraryVars == <<library, libreq>>

\* A table with one more row.
WithRow(table, id, row) == [x \in DOMAIN table \cup {id} |-> IF x = id THEN row ELSE table[x]]

TagRows == {t \in DOMAIN tags : tags[t].there}
CollRows == {c \in DOMAIN colls : colls[c].there}
Live == {a \in DOMAIN assets : assets[a].live}
NameTaken(p, n, except) ==
  \E a \in Live \ except : assets[a].project = p /\ assets[a].name = n
TagsNamed(p, n) == {t \in TagRows : tags[t].project = p /\ tags[t].name = n}
TagsOf(a) == {t \in TagRows : <<a, t>> \in entries}
TagNamesOf(a) == {tags[t].name : t \in TagsOf(a)}
\* Mutant: the project of the tag is not compared.
InScopeAny(t, a) == t \in TagRows
InScope(t, a) == t \in TagRows /\ tags[t].project = assets[a].project
Children(S) == {c \in CollRows : colls[c].parent \in S}
\* What a recursive query (WITH RECURSIVE ... UNION) that begins with S and goes
\* on to children among W returns: the least set that has both.
Grown(S, W) ==
  {c \in CollIds : \A T \in SUBSET CollIds : S \subseteq T /\ Children(T) \cap W \subseteq T => c \in T}
\* The collections at or below those of S.
Tree(S) == Grown(S, CollRows)

-----------------------------------------------------------------------------
(* What a request remembers is in AssetRoutes: Blank.                      *)

Idle(r) == libreq[r].pc \in {"idle", "done"}
At(r, pc) == libreq[r].pc = pc
\* A handler that returns, or raises, remembers nothing; what it committed
\* stays.  A transfer goes on with its next asset.
Returned == [Blank EXCEPT !.pc = "done"]
GoOn(q) ==
  IF q.rest = <<>> THEN Returned
  ELSE Transfer(q.op, q.project, q.rest, [Blank EXCEPT !.alone = q.alone, !.tags = q.tags])
Set(r, q) == libreq' = [libreq EXCEPT ![r] = IF q.pc = "done" THEN GoOn(libreq[r]) ELSE q]
\* An exception the loop of a transfer does not catch.
Abort(r) == libreq' = [libreq EXCEPT ![r] = Returned]
Goto(r, pc) == Set(r, [libreq[r] EXCEPT !.pc = pc])
Return(r) == Goto(r, "done")

\* One call per request; `alone' remembers whether anything overlapped it.
Call(r) ==
  /\ At(r, "idle")
  /\ \E q \in Calls :
       libreq' = [s \in Requests |->
                 IF s = r THEN [q EXCEPT !.alone = \A o \in Requests \ {r} : Idle(o)]
                 ELSE [libreq[s] EXCEPT !.alone = @ /\ Idle(s)]]
  /\ UNCHANGED library

-----------------------------------------------------------------------------
(* Writes                                                                  *)

NewTag(t, p, n) ==
  tags' = WithRow(tags, t, [project |-> p, name |-> n, there |-> TRUE])

\* _ensure_episode_metadata_tag_entry: find or create the tag, add the entry.
EpisodeEntry(a, p, episode, more) ==
  \/ /\ ~episode
     /\ entries' = entries \cup more
     /\ UNCHANGED tags
  \/ /\ episode
     /\ \E t \in TagsNamed(p, EpisodeTag) :
          entries' = entries \cup more \cup {<<a, t>>}
     /\ UNCHANGED tags
  \/ /\ episode
     /\ TagsNamed(p, EpisodeTag) = {}
     /\ \E t \in TagIds \ DOMAIN tags :
          /\ NewTag(t, p, EpisodeTag)
          /\ entries' = entries \cup more \cup {<<a, t>>}

CheckName(r, next) ==
  /\ IF NameTaken(libreq[r].project, libreq[r].name, {}) THEN Return(r) ELSE Goto(r, next)
  /\ UNCHANGED library

\* The insert of an asset row with its entries: the unique index on live
\* names and the foreign keys of the entries decide once more.
InsertAsset(r, next) ==
  LET q == libreq[r]
      targets == {q.tag, q.coll} \ {None}
      fails == \/ NameTaken(q.project, q.name, {})
               \/ ~ targets \subseteq TagRows \cup CollRows
  IN \/ /\ fails
        /\ Return(r)
        /\ UNCHANGED library
     \/ /\ ~fails
        /\ \E a \in AssetIds \ DOMAIN assets :
             /\ assets' = WithRow(assets, a, [project |-> q.project, name |-> q.name, text |-> q.text,
                                              episode |-> q.episode, live |-> TRUE])
             /\ EpisodeEntry(a, q.project, q.text /\ q.episode, {<<a, x>> : x \in targets})
             /\ Set(r, [q EXCEPT !.pc = next, !.target = a])
        /\ UNCHANGED colls

\* create_text_asset
CreateText(r) == At(r, "create_text_asset") /\ CheckName(r, "insertText")
InsertText(r) == At(r, "insertText") /\ InsertAsset(r, "done")

\* import_file_asset: the name and the index targets in one connection.
ImportFile(r) == At(r, "import_file_asset") /\ CheckName(r, "indexTargets")
IndexTargets(r) ==
  LET q == libreq[r] IN
  /\ At(r, "indexTargets")
  /\ IF /\ q.coll # None => q.coll \in CollRows /\ colls[q.coll].project = q.project
        /\ q.tag # None => q.tag \in TagRows /\ tags[q.tag].project = q.project
     THEN Goto(r, "insertFile") ELSE Return(r)
  /\ UNCHANGED library
InsertFile(r) == At(r, "insertFile") /\ InsertAsset(r, libreq[r].back)

\* update_asset_metadata, update_asset and update_text_asset: read the row, see
\* that the name is free, change the row by its id.
GetForUpdate(r, textOnly, next) ==
  LET q == libreq[r] IN
  /\ IF q.target \in Live /\ (textOnly => assets[q.target].text)
     THEN Set(r, [q EXCEPT !.pc = next, !.project = assets[q.target].project])
     ELSE Return(r)
  /\ UNCHANGED library
UpdateMetadata(r) ==
  At(r, "update_asset_metadata") /\ GetForUpdate(r, FALSE, "writeMetadata")
UpdateAsset(r) == At(r, "update_asset") /\ GetForUpdate(r, FALSE, "freeName")
UpdateText(r) == At(r, "update_text_asset") /\ GetForUpdate(r, TRUE, "freeTextName")
FreeName(r) ==
  /\ libreq[r].pc \in {"freeName", "freeTextName"}
  /\ IF NameTaken(libreq[r].project, libreq[r].name, {libreq[r].target}) THEN Return(r)
     ELSE Goto(r, IF At(r, "freeName") THEN "writeAsset" ELSE "writeText")
  /\ UNCHANGED library
\* The unique index decides once more; a row deleted meanwhile is not found
\* again, but its entry of the episode tag has been written.
UpdateRow(r, row) ==
  LET q == libreq[r] IN
  \/ row.live /\ NameTaken(q.project, row.name, {q.target}) /\ Return(r) /\ UNCHANGED library
  \/ /\ row.live => ~NameTaken(q.project, row.name, {q.target})
     /\ assets' = [assets EXCEPT ![q.target] = row]
     /\ EpisodeEntry(q.target, q.project, q.episode, {})
     /\ IF row.live THEN Goto(r, q.back) ELSE Return(r)
     /\ UNCHANGED colls
WriteMetadata(r) ==
  /\ At(r, "writeMetadata")
  /\ UpdateRow(r, [assets[libreq[r].target] EXCEPT !.episode = libreq[r].episode])
WriteAsset(r) ==
  /\ At(r, "writeAsset")
  /\ UpdateRow(r, [assets[libreq[r].target] EXCEPT !.name = libreq[r].name, !.episode = libreq[r].episode])
\* A text that was deleted meanwhile keeps its old name and metadata.
WriteText(r) ==
  LET row == assets[libreq[r].target] IN
  /\ At(r, "writeText")
  /\ UpdateRow(r, IF ~row.live THEN row
                  ELSE [row EXCEPT !.name = libreq[r].name, !.episode = libreq[r].episode])

GetForDelete(r) ==
  /\ At(r, "delete_asset")
  /\ IF libreq[r].asset \in Live THEN Goto(r, "markDeleted") ELSE Return(r)
  /\ UNCHANGED library
MarkDeleted(r) ==
  /\ At(r, "markDeleted")
  /\ assets' = [assets EXCEPT ![libreq[r].asset].live = FALSE]
  /\ Return(r)
  /\ UNCHANGED <<tags, colls, entries>>

-----------------------------------------------------------------------------
(* Tags                                                                    *)

CreateTag(r) ==
  /\ At(r, "create_tag")
  /\ IF TagsNamed(libreq[r].project, libreq[r].name) # {} THEN Return(r) ELSE Goto(r, "insertTag")
  /\ UNCHANGED library
\* Mutant: no unique index on the names of tags.
InsertTagBlind(r) ==
  LET q == libreq[r] IN
  /\ At(r, "insertTag")
  /\ \E t \in TagIds \ DOMAIN tags :
       /\ NewTag(t, q.project, q.name)
       /\ Set(r, [q EXCEPT !.pc = q.back, !.tag = t, !.found[q.name] = t])
  /\ UNCHANGED <<assets, colls, entries>>
InsertTag(r) ==
  LET q == libreq[r] IN
  /\ At(r, "insertTag")
  /\ \/ /\ TagsNamed(q.project, q.name) # {}
        /\ Return(r)
        /\ UNCHANGED library
     \/ /\ TagsNamed(q.project, q.name) = {}
        /\ \E t \in TagIds \ DOMAIN tags :
             /\ NewTag(t, q.project, q.name)
             /\ Set(r, [q EXCEPT !.pc = q.back, !.tag = t, !.found[q.name] = t,
                                 !.back = IF q.op = "upload" THEN "done" ELSE @])
        /\ UNCHANGED <<assets, colls, entries>>

\* update_tag: read, check the name, update by id.
UpdateTag(r) ==
  /\ At(r, "update_tag")
  /\ IF libreq[r].tag \in TagRows THEN Goto(r, "freeTagName") ELSE Return(r)
  /\ UNCHANGED library
FreeTagName(r) ==
  LET q == libreq[r] IN
  /\ At(r, "freeTagName")
  /\ IF TagsNamed(tags[q.tag].project, q.name) \ {q.tag} # {} THEN Return(r) ELSE Goto(r, "renameTag")
  /\ UNCHANGED library
RenameTag(r) ==
  LET q == libreq[r] IN
  /\ At(r, "renameTag")
  /\ IF q.tag \in TagRows /\ TagsNamed(tags[q.tag].project, q.name) \ {q.tag} = {}
     THEN tags' = [tags EXCEPT ![q.tag].name = q.name]
     ELSE UNCHANGED tags
  /\ Return(r)
  /\ UNCHANGED <<assets, colls, entries>>

\* delete_tag: refused while an entry names it, by the count or the key.
DeleteTag(r) ==
  /\ At(r, "delete_tag")
  /\ IF libreq[r].tag \in TagRows THEN Goto(r, "countUses") ELSE Return(r)
  /\ UNCHANGED library
UsesOf(x) == {a \in DOMAIN assets : <<a, x>> \in entries}
CountUses(r) ==
  /\ At(r, "countUses")
  /\ IF UsesOf(libreq[r].tag) # {} THEN Return(r) ELSE Goto(r, "removeTag")
  /\ UNCHANGED library
RemoveTag(r) ==
  LET t == libreq[r].tag IN
  /\ At(r, "removeTag")
  /\ tags' = IF UsesOf(t) = {} THEN [tags EXCEPT ![t].there = FALSE] ELSE tags
  /\ Return(r)
  /\ UNCHANGED <<assets, colls, entries>>

\* attach_asset_tag and detach_asset_tag.
GetForTag(r) ==
  /\ At(r, "attach_asset_tag")
  /\ IF libreq[r].target \in Live THEN Goto(r, "tagScope") ELSE Return(r)
  /\ UNCHANGED library
TagScope(r) ==
  LET q == libreq[r] IN
  /\ At(r, "tagScope")
  /\ IF InScope(q.tag, q.target)
     THEN Goto(r, IF q.op = "detach" THEN "removeEntry" ELSE "seeEntry") ELSE Return(r)
  /\ UNCHANGED library
SeeEntry(r) ==
  LET q == libreq[r] IN
  /\ At(r, "seeEntry")
  /\ Goto(r, IF <<q.target, q.tag>> \in entries THEN q.back ELSE "addEntry")
  /\ UNCHANGED library
AddEntry(r) ==
  LET q == libreq[r] IN
  /\ At(r, "addEntry")
  /\ IF q.tag \in TagRows
     THEN entries' = entries \cup {<<q.target, q.tag>>} /\ Goto(r, q.back)
     ELSE UNCHANGED entries /\ Abort(r)
  /\ UNCHANGED <<assets, tags, colls>>
RemoveEntry(r) ==
  /\ At(r, "removeEntry")
  /\ entries' = entries \ {<<libreq[r].target, libreq[r].tag>>}
  /\ Return(r)
  /\ UNCHANGED <<assets, tags, colls>>

-----------------------------------------------------------------------------
(* Collections                                                             *)

CreateCollection(r) ==
  LET q == libreq[r] IN
  /\ At(r, "create_collection_node")
  /\ IF q.coll # None => q.coll \in CollRows /\ colls[q.coll].project = q.project
     THEN Goto(r, "insertCollection") ELSE Return(r)
  /\ UNCHANGED library
InsertCollection(r) ==
  LET q == libreq[r] IN
  /\ At(r, "insertCollection")
  /\ \/ q.coll \notin CollRows \cup {None} /\ UNCHANGED colls
     \/ /\ q.coll \in CollRows \cup {None}
        /\ \E c \in CollIds \ DOMAIN colls :
             colls' = WithRow(colls, c, [project |-> q.project, parent |-> q.coll,
                                         title |-> "first", there |-> TRUE])
  /\ Return(r)
  /\ UNCHANGED <<assets, tags, entries>>

\* update_collection_node gives a new title and description, nothing else.
UpdateCollection(r) ==
  /\ At(r, "update_collection_node")
  /\ IF libreq[r].coll \in CollRows THEN Goto(r, "renameCollection") ELSE Return(r)
  /\ UNCHANGED library
RenameCollection(r) ==
  /\ At(r, "renameCollection")
  /\ colls' = IF libreq[r].coll \in CollRows THEN [colls EXCEPT ![libreq[r].coll].title = "second"] ELSE colls
  /\ Return(r)
  /\ UNCHANGED <<assets, tags, entries>>

DeleteCollection(r) ==
  /\ At(r, "delete_collection_node")
  /\ IF libreq[r].coll \in CollRows THEN Goto(r, "readTree") ELSE Return(r)
  /\ UNCHANGED library
ReadTree(r) ==
  LET q == libreq[r]
      tree == IF q.coll \in CollRows THEN Tree({q.coll}) ELSE {} IN
  /\ At(r, "readTree")
  /\ IF tree = {} THEN Return(r) ELSE Set(r, [q EXCEPT !.pc = "removeTree", !.tree = tree])
  /\ UNCHANGED library
\* Entries first, then the collections, deepest first: a child that came
\* after the read refers to its parent and undoes the whole deletion.
RemoveTree(r) ==
  LET tree == libreq[r].tree IN
  /\ At(r, "removeTree")
  /\ IF Children(tree) \subseteq tree
     THEN /\ entries' = {e \in entries : e[2] \notin tree}
          /\ colls' = [c \in DOMAIN colls |->
                         IF c \in tree THEN [colls[c] EXCEPT !.there = FALSE] ELSE colls[c]]
     ELSE UNCHANGED <<entries, colls>>
  /\ Return(r)
  /\ UNCHANGED <<assets, tags>>

-----------------------------------------------------------------------------
(* copy_asset and move_asset: read the source twice, create the copy, take *)
(* its tags over by name, and, for a move, delete the source.              *)

MoveAsset(r) ==
  /\ At(r, "move_asset")
  /\ IF libreq[r].asset \in Live THEN Goto(r, "copy_asset") ELSE Return(r)
  /\ UNCHANGED library
GetSource(r) ==
  LET q == libreq[r] IN
  /\ At(r, "copy_asset")
  /\ IF q.asset \in Live
     THEN Set(r, [q EXCEPT !.pc = "readContent", !.name = assets[q.asset].name,
                           !.text = assets[q.asset].text, !.episode = assets[q.asset].episode])
     ELSE Return(r)
  /\ UNCHANGED library
ReadContent(r) ==
  /\ At(r, "readContent")
  /\ IF libreq[r].asset \in Live THEN Goto(r, "copyName") ELSE Return(r)
  /\ UNCHANGED library
CopyName(r) == At(r, "copyName") /\ CheckName(r, "insertCopy")
InsertCopy(r) ==
  /\ At(r, "insertCopy")
  /\ InsertAsset(r, IF libreq[r].tags THEN "list_asset_tags" ELSE "copied")
ListTags(r) ==
  /\ At(r, "list_asset_tags")
  /\ IF libreq[r].asset \in Live THEN Goto(r, "sourceTags") ELSE Return(r)
  /\ UNCHANGED library
SourceTags(r) ==
  LET q == libreq[r] IN
  /\ At(r, "sourceTags")
  /\ Set(r, [q EXCEPT !.pc = IF TagsOf(q.asset) = {} THEN "copied" ELSE "targetTags",
                      !.todo = TagNamesOf(q.asset)])
  /\ UNCHANGED library
TargetTags(r) ==
  LET q == libreq[r] IN
  /\ At(r, "targetTags")
  /\ Set(r, [q EXCEPT !.pc = "eachTag", !.back = "eachTag",
                      !.found = [n \in TagNames |->
                                   IF TagsNamed(q.project, n) = {} THEN None
                                   ELSE CHOOSE t \in TagsNamed(q.project, n) : TRUE]])
  /\ UNCHANGED library
\* Mutant: a tag that had to be created is taken for attached.
EachTagOnce(r) ==
  LET q == libreq[r] IN
  /\ At(r, "eachTag")
  /\ \/ q.todo = {} /\ Goto(r, "copied")
     \/ \E n \in q.todo :
          Set(r, [q EXCEPT !.todo = @ \ {n}, !.name = n, !.tag = q.found[n],
                           !.pc = IF q.found[n] = None THEN "create_tag" ELSE "attach_asset_tag"])
  /\ UNCHANGED library
EachTag(r) ==
  LET q == libreq[r] IN
  /\ At(r, "eachTag")
  /\ \/ q.todo = {} /\ Goto(r, "copied")
     \/ \E n \in q.todo :
          Set(r, IF q.found[n] = None
                 THEN [q EXCEPT !.pc = "create_tag", !.name = n]
                 ELSE [q EXCEPT !.pc = "attach_asset_tag", !.tag = q.found[n], !.todo = @ \ {n}])
  /\ UNCHANGED library
Copied(r) ==
  /\ At(r, "copied")
  /\ IF libreq[r].op = "move" THEN Goto(r, "delete_asset") ELSE Return(r)
  /\ UNCHANGED library

\* The route /files/intelligent: import, ask the model for metadata, update
\* the asset, find or create the tag of its type and attach it.
CompleteMetadata(r) ==
  /\ At(r, "complete_upload_metadata")
  /\ \/ Return(r)
     \/ Set(r, [libreq[r] EXCEPT !.pc = "update_asset", !.back = "typeTag"])
  /\ UNCHANGED library
TypeTag(r) ==
  LET q == libreq[r] IN
  /\ At(r, "typeTag")
  /\ \E n \in TagNames :
       IF TagsNamed(q.project, n) = {}
       THEN Set(r, [q EXCEPT !.pc = "create_tag", !.name = n, !.back = "attach_asset_tag"])
       ELSE \E t \in TagsNamed(q.project, n) :
              Set(r, [q EXCEPT !.pc = "attach_asset_tag", !.tag = t, !.back = "done"])
  /\ UNCHANGED library

-----------------------------------------------------------------------------
LibraryInit ==
  /\ assets = StartLibrary.assets
  /\ tags = StartLibrary.tags
  /\ colls = StartLibrary.colls
  /\ entries = StartLibrary.entries
  /\ libreq = [r \in Requests |-> Blank]

Step(r) ==
  \/ CreateText(r) \/ InsertText(r) \/ ImportFile(r) \/ IndexTargets(r) \/ InsertFile(r)
  \/ UpdateMetadata(r) \/ UpdateAsset(r) \/ UpdateText(r) \/ FreeName(r)
  \/ WriteMetadata(r) \/ WriteAsset(r) \/ WriteText(r) \/ GetForDelete(r) \/ MarkDeleted(r)
  \/ CreateTag(r) \/ InsertTag(r) \/ UpdateTag(r) \/ FreeTagName(r) \/ RenameTag(r)
  \/ DeleteTag(r) \/ CountUses(r) \/ RemoveTag(r)
  \/ GetForTag(r) \/ TagScope(r) \/ SeeEntry(r) \/ AddEntry(r) \/ RemoveEntry(r)
  \/ CreateCollection(r) \/ InsertCollection(r) \/ UpdateCollection(r) \/ RenameCollection(r)
  \/ DeleteCollection(r) \/ ReadTree(r) \/ RemoveTree(r)
  \/ MoveAsset(r) \/ GetSource(r) \/ ReadContent(r) \/ CopyName(r) \/ InsertCopy(r)
  \/ ListTags(r) \/ SourceTags(r) \/ TargetTags(r) \/ EachTag(r) \/ Copied(r)
  \/ CompleteMetadata(r) \/ TypeTag(r)

LibraryNext == \E r \in Requests : Call(r) \/ Step(r)
LibrarySpec == LibraryInit /\ [][LibraryNext]_libraryVars

-----------------------------------------------------------------------------
(* Search                                                                  *)

Scopes == {{p} : p \in Projects} \cup {{GlobalProject, p} : p \in Projects}
\* _search_filter: live assets of the scope, that have all the tags, below
\* the collection; entries, tags and collections are asked for their scope.
TreeWithin(S, c) ==
  LET within == {k \in CollRows : colls[k].project \in S} IN Grown({c} \cap within, within)
HasCollection(S, c, a) == c # None => \E k \in TreeWithin(S, c) : <<a, k>> \in entries
\* Mutant: one of the tags is enough.
HasAnyTag(S, ids, a) == ids # <<>> => Range(ids) \cap TagsOf(a) # {}
\* The ids come as the client lists them: a repeated one is counted twice, but
\* found once.  Repeated names are counted once.
HasTags(S, ids, a) ==
  ids # <<>> => Cardinality({t \in Range(ids) \cap TagsOf(a) : tags[t].project \in S}) = Len(ids)
HasTagNames(S, N, a) ==
  N # {} => Cardinality({tags[t].name : t \in {u \in TagsOf(a) : tags[u].project \in S}} \cap N)
              = Cardinality(N)
Search(S, ids, N, c) ==
  {a \in Live : /\ assets[a].project \in S
                /\ HasTags(S, ids, a) /\ HasTagNames(S, N, a) /\ HasCollection(S, c, a)}

-----------------------------------------------------------------------------
(* Properties                                                              *)

\* The rows and the handlers' memory are well formed.
LibraryTypeOK ==
  /\ DOMAIN assets \subseteq AssetIds
  /\ \A a \in DOMAIN assets :
       assets[a] \in [project : Projects, name : AssetNames, text : BOOLEAN,
                     episode : BOOLEAN, live : BOOLEAN]
  /\ DOMAIN tags \subseteq TagIds
  /\ \A t \in DOMAIN tags : tags[t] \in [project : Projects, name : TagNames, there : BOOLEAN]
  /\ DOMAIN colls \subseteq CollIds
  /\ \A c \in DOMAIN colls :
       colls[c] \in [project : Projects, parent : CollIds \cup {None},
                    title : {"first", "second"}, there : BOOLEAN]
  /\ entries \subseteq (AssetIds \X (TagIds \cup CollIds))
  /\ DOMAIN libreq = Requests

\* Two live assets, or two tags, of one project never have the same name,
\* however the checks of names and the writes of several requests interleave.
NamesApart ==
  /\ \A a, b \in Live :
       assets[a].project = assets[b].project /\ assets[a].name = assets[b].name => a = b
  /\ \A t, u \in TagRows :
       tags[t].project = tags[u].project /\ tags[t].name = tags[u].name => t = u

\* That, and library rows are well formed.
NamesUnique == LibraryTypeOK /\ NamesApart

\* What an index entry or a collection refers to exists and belongs to the
\* same project: a tag or collection deleted, or an asset copied to another
\* project, meanwhile, leaves no entry that points out of its project.
ReferencesInScope ==
  /\ \A e \in entries :
       /\ e[1] \in DOMAIN assets
       /\ \/ e[2] \in TagRows /\ tags[e[2]].project = assets[e[1]].project
          \/ e[2] \in CollRows /\ colls[e[2]].project = assets[e[1]].project
  /\ \A c \in CollRows :
       \/ colls[c].parent = None
       \/ colls[c].parent \in CollRows /\ colls[colls[c].parent].project = colls[c].project

\* A search by tags, by names of tags or by a collection finds exactly the live
\* assets of the scope that have every tag, a tag of every name, or an entry at
\* or below the collection: the conditions on the scopes of entries, tags and
\* collections hide nothing.  Except that a list that repeats a tag finds nothing.
Above(c, k) == k \in Tree({c})
SearchFindsAll ==
  \A S \in Scopes :
    LET Here == {a \in Live : assets[a].project \in S} IN
    /\ \A ids \in SeqOf({t \in TagRows : tags[t].project \in S}, MaxIds) :
         Search(S, ids, {}, None) = {a \in Here : IsInjective(ids) /\ Range(ids) \subseteq TagsOf(a)}
    /\ \A c \in {k \in CollRows : colls[k].project \in S} :
         Search(S, <<>>, {}, c) = {a \in Here : \E k \in CollRows : Above(c, k) /\ <<a, k>> \in entries}
    /\ \A N \in SUBSET TagNames :
         Search(S, <<>>, N, None) = {a \in Here : N \subseteq TagNamesOf(a)}

\* A move that nothing overlapped leaves, when it deletes the source, a live
\* copy of its name in the target project that has a tag for each of its tags,
\* unless the client asked for none.
TagsMove ==
  \A r \in Requests :
    LET q == libreq[r] IN
    q.op = "move" /\ q.alone /\ q.tags /\ q.pc = "markDeleted" /\ libreq'[r] # q =>
      /\ q.target \in Live /\ q.target # q.asset
      /\ assets[q.target].project = q.project
      /\ assets[q.target].name = assets[q.asset].name
      /\ TagNamesOf(q.asset) \subseteq TagNamesOf(q.target)
=============================================================================
