---------------------------- MODULE LibraryProofs ----------------------------
(* Names stay unique, references in their project and searches complete, and a  *)
(* move that is alone takes every tag along, whatever the requests and however  *)
(* they interleave: for any library, routes and number of requests.             *)
EXTENDS AssetLibrary, TLAPS, FiniteSetTheorems

----------------------------------------------------------------------------
(* What a request remembers.                                                   *)

Fields == DOMAIN Blank
Backs == {"done", "complete_upload_metadata", "typeTag", "attach_asset_tag", "eachTag"}

\* Where no project is needed: the row a request names has one.
NoProject ==
  {"idle", "done", "update_asset_metadata", "update_asset", "update_text_asset", "delete_asset",
   "markDeleted", "update_tag", "freeTagName", "renameTag", "delete_tag", "countUses", "removeTag",
   "attach_asset_tag", "tagScope", "seeEntry", "addEntry", "removeEntry", "update_collection_node",
   "renameCollection", "delete_collection_node", "readTree", "removeTree"}
\* Where the name is one for an asset, and where for a tag.
NamesAsset ==
  {"create_text_asset", "insertText", "import_file_asset", "indexTargets", "insertFile",
   "complete_upload_metadata", "update_asset", "update_text_asset", "freeName", "freeTextName",
   "writeAsset", "writeText", "readContent", "copyName", "insertCopy"}
NamesTag == {"create_tag", "insertTag", "update_tag", "freeTagName", "renameTag"}
\* Where no tag and no collection is named, and where those named have been seen.
Bare == {"create_text_asset", "move_asset", "copy_asset", "readContent", "copyName"}
Seen == {"insertText", "insertFile", "insertCopy"}
Updating == {"freeName", "freeTextName", "writeMetadata", "writeAsset", "writeText"}

\* Rows of tags or of collections that have been seen are of the project.
Within(x, R, p) == x # None => x \in DOMAIN R /\ R[x].project = p

\* What a request that is at pc remembers fits the rows of assets A, tags T and
\* collections C.
Suits(q, pc, A, T, C) ==
  /\ q.project \in Projects \/ (q.rest = <<>> /\ q.back = "done" /\ pc \in NoProject)
  /\ pc \in NamesAsset => q.name \in AssetNames
  /\ pc \in NamesTag => q.name \in TagNames
  /\ pc \in Bare => q.tag = None /\ q.coll = None
  /\ pc \in Seen => Within(q.tag, T, q.project) /\ Within(q.coll, C, q.project)
  /\ pc = "insertCollection" => Within(q.coll, C, q.project)
  /\ pc = "eachTag" => q.back # "complete_upload_metadata"
  /\ pc \in Updating => q.target \in DOMAIN A /\ A[q.target].project = q.project
  /\ pc \in {"tagScope", "seeEntry", "addEntry"} => q.target \in DOMAIN A
  /\ pc \in {"seeEntry", "addEntry"} =>
       q.tag \in DOMAIN T /\ T[q.tag].project = A[q.target].project

\* It is of the right shape, and fit to go back where the route goes on.
Shaped(q) ==
  /\ DOMAIN q = Fields
  /\ q.text \in BOOLEAN /\ q.episode \in BOOLEAN /\ q.todo \subseteq TagNames
  /\ q.back \in Backs
  /\ q.back = "complete_upload_metadata" => q.name \in AssetNames
Recalls(q, A, T, C) == Shaped(q) /\ Suits(q, q.pc, A, T, C)

\* Requests come as the routes make them, which check no row.
CallsAssumption ==
  \A q \in Calls : Recalls(q, <<>>, <<>>, <<>>)

\* Ids are told apart.
IdsAssumption ==
  /\ EpisodeTag \in TagNames
  /\ TagIds \cap CollIds = {} /\ None \notin TagIds \cup CollIds

Stored ==
  /\ LibraryTypeOK /\ NamesApart /\ ReferencesInScope
  /\ \A r \in Requests : Recalls(libreq[r], assets, tags, colls)

----------------------------------------------------------------------------
(* What a request remembers stays fit.                                         *)

\* Rows are added, never taken away, and keep their projects.
RowsStay ==
  /\ DOMAIN assets \subseteq DOMAIN assets'
  /\ \A a \in DOMAIN assets : assets'[a].project = assets[a].project
  /\ DOMAIN tags \subseteq DOMAIN tags'
  /\ \A t \in DOMAIN tags : tags'[t].project = tags[t].project
  /\ DOMAIN colls \subseteq DOMAIN colls'
  /\ \A c \in DOMAIN colls : colls'[c].project = colls[c].project

LEMMA SuitsStays ==
  ASSUME RowsStay, NEW q, NEW pc, Suits(q, pc, assets, tags, colls)
  PROVE  Suits(q, pc, assets', tags', colls')
BY DEF RowsStay, Suits, Within

LEMMA RecallsStays ==
  ASSUME RowsStay, NEW q, Recalls(q, assets, tags, colls)
  PROVE  Recalls(q, assets', tags', colls')
BY SuitsStays DEF Recalls

LEMMA BlankShaped ==
  /\ Fields = {"pc", "op", "back", "alone", "rest", "tags", "asset", "target", "project", "name",
               "tag", "coll", "episode", "text", "todo", "found", "tree"}
  /\ Shaped(Blank)
BY DEF Fields, Blank, Shaped, Backs

\* Only the place decides what has to suit.
LEMMA PlaceOnly ==
  ASSUME NEW q, NEW A, NEW T, NEW C, NEW pc, Shaped(q), Suits(q, pc, A, T, C)
  PROVE  Recalls([q EXCEPT !.pc = pc], A, T, C)
<1> DEFINE z == [q EXCEPT !.pc = pc]
<1>1. /\ DOMAIN z = DOMAIN q /\ z.pc = pc
      /\ \A f \in DOMAIN q \ {"pc"} : z[f] = q[f]
  BY BlankShaped DEF Shaped
<1>2. /\ z.project = q.project /\ z.rest = q.rest /\ z.back = q.back /\ z.name = q.name
      /\ z.tag = q.tag /\ z.coll = q.coll /\ z.target = q.target
      /\ z.text = q.text /\ z.episode = q.episode /\ z.todo = q.todo
  BY <1>1, BlankShaped DEF Shaped
<1> HIDE DEF z
<1>3. Shaped(z)
  BY <1>1, <1>2 DEF Shaped
<1>4. Suits(z, pc, A, T, C)
  BY <1>2 DEF Suits
<1> QED BY <1>1, <1>3, <1>4 DEF Recalls, z

\* A request that is done, or goes on with the next asset of its transfer.
LEMMA ReturnedRecalls ==
  ASSUME NEW A, NEW T, NEW C
  PROVE  Recalls(Returned, A, T, C)
<1>1. Suits(Blank, "done", A, T, C)
  BY DEF Suits, Blank, NoProject, NamesAsset, NamesTag, Bare, Seen, Updating
<1> QED BY <1>1, BlankShaped, PlaceOnly DEF Returned

LEMMA GoOnRecalls ==
  ASSUME NEW q, NEW A, NEW T, NEW C, Recalls(q, A, T, C)
  PROVE  Recalls(GoOn(q), A, T, C)
<1>1. CASE q.rest = <<>>
  BY <1>1, ReturnedRecalls DEF GoOn
<1>2. CASE q.rest # <<>>
  <2> DEFINE z == GoOn(q)
             b == [Blank EXCEPT !.alone = q.alone, !.tags = q.tags]
  <2>1. q.project \in Projects
    BY <1>2 DEF Recalls, Suits
  <2>2. z = [b EXCEPT !.op = q.op, !.project = q.project, !.asset = Head(q.rest), !.rest = Tail(q.rest),
                      !.pc = IF q.op = "move" THEN "move_asset" ELSE "copy_asset"]
    BY <1>2 DEF GoOn, Transfer
  <2>3. /\ DOMAIN b = Fields /\ b.text = TRUE /\ b.episode = FALSE /\ b.todo = {} /\ b.back = "done"
        /\ b.tag = None /\ b.coll = None
    BY DEF Fields, Blank
  <2> HIDE DEF b
  <2>4. /\ DOMAIN z = Fields /\ z.text = TRUE /\ z.episode = FALSE /\ z.todo = {} /\ z.back = "done"
        /\ z.tag = None /\ z.coll = None /\ z.project = q.project
        /\ z.pc \in {"move_asset", "copy_asset"}
    BY <2>2, <2>3, BlankShaped
  <2> HIDE DEF z
  <2>5. Shaped(z)
    BY <2>4 DEF Shaped, Backs
  <2>6. Suits(z, z.pc, A, T, C)
    BY <2>1, <2>4 DEF Suits, NamesAsset, NamesTag, Seen, Updating
  <2> QED BY <2>5, <2>6 DEF Recalls, z
<1> QED BY <1>1, <1>2

----------------------------------------------------------------------------
(* One request goes on.                                                        *)

\* What a request is given to remember, or that it returns.
Takes(r, q) == Set(r, q) \/ (q.pc = "done" /\ Abort(r))

LEMMA StillRequests ==
  ASSUME Stored, NEW r \in Requests, NEW q, Takes(r, q)
  PROVE  DOMAIN libreq' = Requests /\ \A o \in Requests \ {r} : libreq'[o] = libreq[o]
BY DEF Takes, Set, Abort, Stored, LibraryTypeOK

LEMMA TakesRecalls ==
  ASSUME Stored, NEW r \in Requests, NEW q, Takes(r, q), RowsStay,
         q.pc = "done" \/ Recalls(q, assets', tags', colls')
  PROVE  \A o \in Requests : Recalls(libreq'[o], assets', tags', colls')
<1> TAKE o \in Requests
<1>1. Recalls(libreq[o], assets', tags', colls') /\ Recalls(libreq[r], assets', tags', colls')
  BY RecallsStays DEF Stored
<1>2. CASE o # r
  BY <1>1, <1>2, StillRequests
<1>3. CASE o = r
  <2>1. r \in DOMAIN libreq
    BY DEF Stored, LibraryTypeOK
  <2>2. libreq'[r] = GoOn(libreq[r]) \/ libreq'[r] = Returned \/ (libreq'[r] = q /\ q.pc # "done")
    BY <2>1 DEF Takes, Set, Abort
  <2>3. Recalls(GoOn(libreq[r]), assets', tags', colls') /\ Recalls(Returned, assets', tags', colls')
    BY <1>1, GoOnRecalls, ReturnedRecalls
  <2> QED BY <1>3, <2>2, <2>3
<1> QED BY <1>2, <1>3

LEMMA Stores ==
  ASSUME Stored, NEW r \in Requests, NEW q, Takes(r, q), RowsStay,
         q.pc = "done" \/ Recalls(q, assets', tags', colls'),
         LibraryTypeOK', NamesApart', ReferencesInScope'
  PROVE  Stored'
BY TakesRecalls DEF Stored

\* A step that only reads.
LEMMA Reads ==
  ASSUME Stored, NEW r \in Requests, NEW q, Takes(r, q), UNCHANGED library,
         q.pc = "done" \/ Recalls(q, assets, tags, colls)
  PROVE  Stored'
<1>1. UNCHANGED <<assets, tags, colls, entries>>
  BY DEF library
<1>2. RowsStay
  BY <1>1 DEF RowsStay
<1>3. q.pc = "done" \/ Recalls(q, assets', tags', colls')
  BY <1>1
<1>4. LibraryTypeOK'
  BY <1>1, StillRequests DEF Stored, LibraryTypeOK
<1>5. NamesApart' /\ ReferencesInScope'
  BY <1>1 DEF Stored, NamesApart, ReferencesInScope, Live, TagRows, CollRows
<1> QED BY <1>2, <1>3, <1>4, <1>5, Stores

LEMMA Known ==
  ASSUME Stored, NEW r \in Requests
  PROVE  Shaped(libreq[r]) /\ Suits(libreq[r], libreq[r].pc, assets, tags, colls)
BY DEF Stored, Recalls

\* Going to another place, with the rest as it is.
LEMMA Goes ==
  ASSUME Stored, NEW r \in Requests, NEW pc, Goto(r, pc), UNCHANGED library,
         Suits(libreq[r], pc, assets, tags, colls)
  PROVE  Stored'
<1>1. Recalls([libreq[r] EXCEPT !.pc = pc], assets, tags, colls)
  BY Known, PlaceOnly
<1> QED BY <1>1, Reads DEF Goto, Takes

LEMMA Returns ==
  ASSUME Stored, NEW r \in Requests, Return(r), UNCHANGED library
  PROVE  Stored'
<1>1. [libreq[r] EXCEPT !.pc = "done"].pc = "done"
  BY Known, BlankShaped DEF Shaped
<1> QED BY <1>1, Reads DEF Return, Goto, Takes

\* A step that returns, or goes where what it remembers suits.
LEMMA GoesOrReturns ==
  ASSUME Stored, NEW r \in Requests, NEW pc, NEW seen \in BOOLEAN, UNCHANGED library,
         IF seen THEN Goto(r, pc) ELSE Return(r),
         seen => Suits(libreq[r], pc, assets, tags, colls)
  PROVE  Stored'
BY Goes, Returns

LEMMA CallKeeps == ASSUME Stored, CallsAssumption, NEW r \in Requests, Call(r) PROVE Stored'
<1>1. UNCHANGED <<assets, tags, colls, entries>>
  BY DEF Call, library
<1>2. PICK q \in Calls :
        libreq' = [s \in Requests |->
                  IF s = r THEN [q EXCEPT !.alone = \A o \in Requests \ {r} : Idle(o)]
                  ELSE [libreq[s] EXCEPT !.alone = @ /\ Idle(s)]]
  BY DEF Call
<1>3. ASSUME NEW z, NEW A, NEW T, NEW C, NEW b, Recalls(z, A, T, C)
      PROVE  Recalls([z EXCEPT !.alone = b], A, T, C)
  <2> DEFINE y == [z EXCEPT !.alone = b]
  <2>1. DOMAIN y = Fields /\ \A f \in Fields \ {"alone"} : y[f] = z[f]
    BY <1>3, BlankShaped DEF Recalls, Shaped
  <2> HIDE DEF y
  <2>2. /\ y.project = z.project /\ y.rest = z.rest /\ y.back = z.back /\ y.name = z.name
        /\ y.tag = z.tag /\ y.coll = z.coll /\ y.target = z.target /\ y.pc = z.pc
        /\ y.text = z.text /\ y.episode = z.episode /\ y.todo = z.todo
    BY <2>1, BlankShaped
  <2>3. Shaped(y)
    BY <1>3, <2>1, <2>2 DEF Recalls, Shaped
  <2>4. Suits(y, y.pc, A, T, C)
    BY <1>3, <2>2 DEF Recalls, Suits
  <2> QED BY <2>3, <2>4 DEF Recalls, y
<1>4. Recalls(q, assets, tags, colls)
  <2>1. Recalls(q, <<>>, <<>>, <<>>)
    BY DEF CallsAssumption
  <2>2. Suits(q, q.pc, assets, tags, colls)
    <3>1. ~ (q.pc \in Updating \cup {"tagScope", "seeEntry", "addEntry"})
      BY <2>1 DEF Recalls, Suits
    <3>2. \A x, p : Within(x, <<>>, p) => \A R : Within(x, R, p)
      BY DEF Within
    <3> QED BY <2>1, <3>1, <3>2 DEF Recalls, Suits
  <2> QED BY <2>1, <2>2 DEF Recalls
<1>5. \A o \in Requests : Recalls(libreq'[o], assets', tags', colls')
  <2> TAKE o \in Requests
  <2>1. CASE o = r
    BY <1>1, <1>2, <1>3, <1>4, <2>1
  <2>2. CASE o # r
    BY <1>1, <1>2, <1>3, <2>2 DEF Stored
  <2> QED BY <2>1, <2>2
<1>6. LibraryTypeOK'
  BY <1>1, <1>2 DEF Stored, LibraryTypeOK
<1>7. NamesApart' /\ ReferencesInScope'
  BY <1>1 DEF Stored, NamesApart, ReferencesInScope, Live, TagRows, CollRows
<1> QED BY <1>5, <1>6, <1>7 DEF Stored

----------------------------------------------------------------------------
(* Steps that only read.                                                       *)

\* From one place to another that asks for nothing new.
Ways ==
  {<<"create_text_asset", "insertText">>, <<"import_file_asset", "indexTargets">>,
   <<"freeName", "writeAsset">>, <<"freeTextName", "writeText">>, <<"delete_asset", "markDeleted">>,
   <<"create_tag", "insertTag">>, <<"update_tag", "freeTagName">>, <<"freeTagName", "renameTag">>,
   <<"delete_tag", "countUses">>, <<"countUses", "removeTag">>, <<"tagScope", "removeEntry">>,
   <<"update_collection_node", "renameCollection">>, <<"delete_collection_node", "readTree">>,
   <<"move_asset", "copy_asset">>, <<"readContent", "copyName">>, <<"copyName", "insertCopy">>,
   <<"list_asset_tags", "sourceTags">>, <<"eachTag", "copied">>, <<"copied", "delete_asset">>}

LEMMA Onward ==
  ASSUME NEW q, NEW A, NEW T, NEW C, NEW w \in Ways, Suits(q, w[1], A, T, C)
  PROVE  Suits(q, w[2], A, T, C)
<1> DEFINE Same(a, b) ==
      /\ a \in NoProject => b \in NoProject
      /\ b \in NamesAsset => a \in NamesAsset
      /\ b \in NamesTag => a \in NamesTag
      /\ b \in Seen => a \in Bare
      /\ b \in Bare => a \in Bare
      /\ b \in Updating => a \in Updating
      /\ b \notin {"insertCollection", "eachTag", "tagScope", "seeEntry", "addEntry"}
<1>1. \A v \in Ways : Same(v[1], v[2])
  BY DEF Ways, NoProject, NamesAsset, NamesTag, Bare, Seen, Updating
<1>2. Same(w[1], w[2])
  BY <1>1
<1> QED BY <1>2 DEF Suits, Within

LEMMA GoesOnward ==
  ASSUME Stored, NEW r \in Requests, NEW pc, NEW seen \in BOOLEAN, UNCHANGED library,
         IF seen THEN Goto(r, pc) ELSE Return(r), <<libreq[r].pc, pc>> \in Ways
  PROVE  Stored'
<1> DEFINE w == <<libreq[r].pc, pc>>
<1>1. w \in Ways /\ w[1] = libreq[r].pc /\ w[2] = pc
  OBVIOUS
<1> HIDE DEF w
<1>2. Suits(libreq[r], pc, assets, tags, colls)
  BY <1>1, Known, Onward
<1> QED BY <1>2, GoesOrReturns

LEMMA NamesChecked ==
  ASSUME Stored, NEW r \in Requests, CreateText(r) \/ ImportFile(r) \/ CopyName(r)
  PROVE  Stored'
<1>1. CASE CreateText(r)
  BY <1>1, GoesOnward DEF CreateText, CheckName, At, Ways
<1>2. CASE ImportFile(r)
  BY <1>2, GoesOnward DEF ImportFile, CheckName, At, Ways
<1>3. CASE CopyName(r)
  BY <1>3, GoesOnward DEF CopyName, CheckName, At, Ways
<1> QED BY <1>1, <1>2, <1>3

LEMMA SimpleReads ==
  ASSUME Stored, NEW r \in Requests,
         \/ GetForDelete(r) \/ CreateTag(r) \/ UpdateTag(r) \/ FreeTagName(r) \/ DeleteTag(r)
         \/ CountUses(r) \/ UpdateCollection(r) \/ DeleteCollection(r) \/ MoveAsset(r)
         \/ ReadContent(r) \/ ListTags(r) \/ Copied(r)
  PROVE  Stored'
<1>1. CASE GetForDelete(r)
  BY <1>1, GoesOnward DEF GetForDelete, At, Ways
<1>2. CASE CreateTag(r)
  <2>1. IF TagsNamed(libreq[r].project, libreq[r].name) = {} THEN Goto(r, "insertTag") ELSE Return(r)
    BY <1>2 DEF CreateTag
  <2> QED BY <1>2, <2>1, GoesOnward DEF CreateTag, At, Ways
<1>3. CASE UpdateTag(r)
  BY <1>3, GoesOnward DEF UpdateTag, At, Ways
<1>4. CASE FreeTagName(r)
  <2>1. IF TagsNamed(tags[libreq[r].tag].project, libreq[r].name) \ {libreq[r].tag} = {}
        THEN Goto(r, "renameTag") ELSE Return(r)
    BY <1>4 DEF FreeTagName
  <2> QED BY <1>4, <2>1, GoesOnward DEF FreeTagName, At, Ways
<1>5. CASE DeleteTag(r)
  BY <1>5, GoesOnward DEF DeleteTag, At, Ways
<1>6. CASE CountUses(r)
  <2>1. IF UsesOf(libreq[r].tag) = {} THEN Goto(r, "removeTag") ELSE Return(r)
    BY <1>6 DEF CountUses
  <2> QED BY <1>6, <2>1, GoesOnward DEF CountUses, At, Ways
<1>7. CASE UpdateCollection(r)
  BY <1>7, GoesOnward DEF UpdateCollection, At, Ways
<1>8. CASE DeleteCollection(r)
  BY <1>8, GoesOnward DEF DeleteCollection, At, Ways
<1>9. CASE MoveAsset(r)
  BY <1>9, GoesOnward DEF MoveAsset, At, Ways
<1>10. CASE ReadContent(r)
  BY <1>10, GoesOnward DEF ReadContent, At, Ways
<1>11. CASE ListTags(r)
  BY <1>11, GoesOnward DEF ListTags, At, Ways
<1>12. CASE Copied(r)
  BY <1>12, GoesOnward DEF Copied, At, Ways
<1> QED BY <1>1, <1>2, <1>3, <1>4, <1>5, <1>6, <1>7, <1>8, <1>9, <1>10, <1>11, <1>12

LEMMA IndexTargetsKeeps == ASSUME Stored, NEW r \in Requests, IndexTargets(r) PROVE Stored'
<1> DEFINE q == libreq[r]
           seen == /\ q.coll # None => q.coll \in CollRows /\ colls[q.coll].project = q.project
                   /\ q.tag # None => q.tag \in TagRows /\ tags[q.tag].project = q.project
<1>1. /\ q.pc = "indexTargets" /\ UNCHANGED library
      /\ IF seen THEN Goto(r, "insertFile") ELSE Return(r)
      /\ Suits(q, "indexTargets", assets, tags, colls)
  BY Known DEF IndexTargets, At
<1>2. seen => Within(q.tag, tags, q.project) /\ Within(q.coll, colls, q.project)
  BY DEF Within, TagRows, CollRows
<1>3. seen => Suits(q, "insertFile", assets, tags, colls)
  <2> HIDE DEF seen
  <2> QED BY <1>1, <1>2 DEF Suits, NoProject, NamesAsset, NamesTag, Bare, Updating
<1>4. seen \in BOOLEAN
  OBVIOUS
<1> HIDE DEF seen
<1> QED BY <1>1, <1>3, <1>4, GoesOrReturns

LEMMA CreateCollectionKeeps == ASSUME Stored, NEW r \in Requests, CreateCollection(r) PROVE Stored'
<1> DEFINE q == libreq[r]
           seen == q.coll # None => q.coll \in CollRows /\ colls[q.coll].project = q.project
<1>1. /\ UNCHANGED library
      /\ IF seen THEN Goto(r, "insertCollection") ELSE Return(r)
      /\ Suits(q, "create_collection_node", assets, tags, colls)
  BY Known DEF CreateCollection, At
<1>2. seen => Within(q.coll, colls, q.project)
  BY DEF Within, CollRows
<1>3. seen => Suits(q, "insertCollection", assets, tags, colls)
  <2> HIDE DEF seen
  <2> QED BY <1>1, <1>2 DEF Suits, NoProject, NamesAsset, NamesTag, Bare, Seen, Updating
<1>4. seen \in BOOLEAN
  OBVIOUS
<1> HIDE DEF seen
<1> QED BY <1>1, <1>3, <1>4, GoesOrReturns

\* A request that will update a row knows its project.
LEMMA GetForUpdateKeeps ==
  ASSUME Stored, NEW r \in Requests, NEW b \in BOOLEAN,
         NEW pc \in {"writeMetadata", "freeName", "freeTextName"}, GetForUpdate(r, b, pc),
         libreq[r].pc \in {"update_asset_metadata", "update_asset", "update_text_asset"},
         pc # "writeMetadata" => libreq[r].pc # "update_asset_metadata"
  PROVE  Stored'
<1> DEFINE q == libreq[r]
           z == [q EXCEPT !.pc = pc, !.project = assets[q.target].project]
<1>1. Shaped(q) /\ Suits(q, q.pc, assets, tags, colls) /\ UNCHANGED library
  BY Known DEF GetForUpdate
<1>2. CASE q.target \in Live /\ Set(r, z)
  <2>1. /\ DOMAIN z = Fields /\ z.pc = pc /\ z.project = assets[q.target].project
        /\ z.name = q.name /\ z.target = q.target /\ z.text = q.text /\ z.episode = q.episode
        /\ z.todo = q.todo /\ z.back = q.back /\ z.tag = q.tag /\ z.coll = q.coll /\ z.rest = q.rest
    BY <1>1, BlankShaped DEF Shaped
  <2> HIDE DEF z
  <2>2. q.target \in DOMAIN assets /\ assets[q.target].project \in Projects
    BY <1>2 DEF Live, Stored, LibraryTypeOK
  <2>3. Shaped(z)
    BY <1>1, <2>1 DEF Shaped
  <2>4. Suits(z, pc, assets, tags, colls)
    BY <1>1, <2>1, <2>2 DEF Suits, NoProject, NamesAsset, NamesTag, Bare, Seen
  <2> QED BY <1>1, <1>2, <2>1, <2>3, <2>4, Reads DEF Recalls, Takes
<1>3. CASE Return(r)
  BY <1>1, <1>3, Returns
<1> QED BY <1>2, <1>3 DEF GetForUpdate

LEMMA UpdatesKeep ==
  ASSUME Stored, NEW r \in Requests, UpdateMetadata(r) \/ UpdateAsset(r) \/ UpdateText(r)
  PROVE  Stored'
<1>1. CASE UpdateMetadata(r)
  BY <1>1, GetForUpdateKeeps DEF UpdateMetadata, At
<1>2. CASE UpdateAsset(r)
  BY <1>2, GetForUpdateKeeps DEF UpdateAsset, At
<1>3. CASE UpdateText(r)
  BY <1>3, GetForUpdateKeeps DEF UpdateText, At
<1> QED BY <1>1, <1>2, <1>3

LEMMA FreeNameKeeps == ASSUME Stored, NEW r \in Requests, FreeName(r) PROVE Stored'
<1> DEFINE pc == IF At(r, "freeName") THEN "writeAsset" ELSE "writeText"
           free == ~NameTaken(libreq[r].project, libreq[r].name, {libreq[r].target})
<1>1. UNCHANGED library /\ IF free THEN Goto(r, pc) ELSE Return(r)
  BY DEF FreeName
<1>2. <<libreq[r].pc, pc>> \in Ways
  BY DEF FreeName, At, Ways
<1>3. free \in BOOLEAN
  OBVIOUS
<1> HIDE DEF free, pc
<1> QED BY <1>1, <1>2, <1>3, GoesOnward

LEMMA GetForTagKeeps == ASSUME Stored, NEW r \in Requests, GetForTag(r) PROVE Stored'
<1> DEFINE q == libreq[r]
<1>1. /\ UNCHANGED library /\ Suits(q, "attach_asset_tag", assets, tags, colls)
      /\ IF q.target \in Live THEN Goto(r, "tagScope") ELSE Return(r)
  BY Known DEF GetForTag, At
<1>2. q.target \in Live => q.target \in DOMAIN assets
  BY DEF Live
<1>3. q.target \in Live => Suits(q, "tagScope", assets, tags, colls)
  BY <1>1, <1>2 DEF Suits, NoProject, NamesAsset, NamesTag, Bare, Seen, Updating
<1> QED BY <1>1, <1>3, GoesOrReturns

LEMMA TagScopeKeeps == ASSUME Stored, NEW r \in Requests, TagScope(r) PROVE Stored'
<1> DEFINE q == libreq[r]
<1>1. /\ UNCHANGED library /\ Suits(q, "tagScope", assets, tags, colls) /\ q.pc = "tagScope"
      /\ IF InScope(q.tag, q.target)
         THEN Goto(r, IF q.op = "detach" THEN "removeEntry" ELSE "seeEntry") ELSE Return(r)
  BY Known DEF TagScope, At
<1>2. InScope(q.tag, q.target) => q.tag \in DOMAIN tags /\ tags[q.tag].project = assets[q.target].project
  BY DEF InScope, TagRows
<1>3. InScope(q.tag, q.target) => Suits(q, "seeEntry", assets, tags, colls)
  BY <1>1, <1>2 DEF Suits, NoProject, NamesAsset, NamesTag, Bare, Seen, Updating
<1>4. Suits(q, "removeEntry", assets, tags, colls)
  BY <1>1 DEF Suits, NoProject, NamesAsset, NamesTag, Bare, Seen, Updating
<1>5. CASE InScope(q.tag, q.target)
  BY <1>1, <1>3, <1>4, <1>5, Goes
<1>6. CASE ~InScope(q.tag, q.target)
  BY <1>1, <1>6, Returns
<1> QED BY <1>5, <1>6

\* The place a route goes back to asks for no more than `back' has promised.
LEMMA BackSuits ==
  ASSUME NEW q, NEW pc, NEW A, NEW T, NEW C, Shaped(q), Suits(q, pc, A, T, C)
  PROVE  Suits(q, q.back, A, T, C)
BY DEF Shaped, Backs, Suits, NoProject, NamesAsset, NamesTag, Bare, Seen, Updating

LEMMA SeeEntryKeeps == ASSUME Stored, NEW r \in Requests, SeeEntry(r) PROVE Stored'
<1> DEFINE q == libreq[r]
<1>1. /\ UNCHANGED library /\ Shaped(q) /\ Suits(q, "seeEntry", assets, tags, colls)
      /\ Goto(r, IF <<q.target, q.tag>> \in entries THEN q.back ELSE "addEntry")
  BY Known DEF SeeEntry, At
<1>2. Suits(q, q.back, assets, tags, colls)
  BY <1>1, BackSuits
<1>3. Suits(q, "addEntry", assets, tags, colls)
  BY <1>1 DEF Suits, NoProject, NamesAsset, NamesTag, Bare, Seen, Updating
<1> QED BY <1>1, <1>2, <1>3, Goes

LEMMA ReadTreeKeeps == ASSUME Stored, NEW r \in Requests, ReadTree(r) PROVE Stored'
<1>1. PICK tree :
        /\ UNCHANGED library /\ At(r, "readTree")
        /\ IF tree = {} THEN Return(r) ELSE Set(r, [libreq[r] EXCEPT !.pc = "removeTree", !.tree = tree])
  BY DEF ReadTree
<1> DEFINE q == libreq[r]
           z == [q EXCEPT !.pc = "removeTree", !.tree = tree]
<1>2. Shaped(q) /\ Suits(q, "readTree", assets, tags, colls)
  BY <1>1, Known DEF At
<1>3. CASE Set(r, z)
  <2>1. /\ DOMAIN z = Fields /\ z.pc = "removeTree" /\ z.project = q.project
        /\ z.name = q.name /\ z.target = q.target /\ z.text = q.text /\ z.episode = q.episode
        /\ z.todo = q.todo /\ z.back = q.back /\ z.tag = q.tag /\ z.coll = q.coll /\ z.rest = q.rest
    BY <1>2, BlankShaped DEF Shaped
  <2> HIDE DEF z
  <2>2. Shaped(z)
    BY <1>2, <2>1 DEF Shaped
  <2>3. Suits(z, "removeTree", assets, tags, colls)
    BY <1>2, <2>1 DEF Suits, NoProject, NamesAsset, NamesTag, Bare, Seen, Updating
  <2> QED BY <1>1, <1>3, <2>1, <2>2, <2>3, Reads DEF Recalls, Takes
<1>4. CASE Return(r)
  BY <1>1, <1>4, Returns
<1> QED BY <1>1, <1>3, <1>4

LEMMA GetSourceKeeps == ASSUME Stored, NEW r \in Requests, GetSource(r) PROVE Stored'
<1> DEFINE q == libreq[r]
           a == assets[q.asset]
           z == [q EXCEPT !.pc = "readContent", !.name = a.name, !.text = a.text, !.episode = a.episode]
<1>1. /\ UNCHANGED library /\ Shaped(q) /\ Suits(q, "copy_asset", assets, tags, colls)
      /\ IF q.asset \in Live THEN Set(r, z) ELSE Return(r)
  BY Known DEF GetSource, At
<1>2. CASE q.asset \in Live
  <2>1. a.name \in AssetNames /\ a.text \in BOOLEAN /\ a.episode \in BOOLEAN
    BY <1>2 DEF Live, Stored, LibraryTypeOK
  <2>2. /\ DOMAIN z = Fields /\ z.pc = "readContent" /\ z.project = q.project
        /\ z.name = a.name /\ z.target = q.target /\ z.text = a.text /\ z.episode = a.episode
        /\ z.todo = q.todo /\ z.back = q.back /\ z.tag = q.tag /\ z.coll = q.coll /\ z.rest = q.rest
    BY <1>1, BlankShaped DEF Shaped
  <2>3. Set(r, z)
    BY <1>1, <1>2
  <2> HIDE DEF z, a
  <2>4. Shaped(z)
    BY <1>1, <2>1, <2>2 DEF Shaped
  <2>5. Suits(z, "readContent", assets, tags, colls)
    BY <1>1, <2>1, <2>2 DEF Suits, NoProject, NamesAsset, NamesTag, Bare, Seen, Updating
  <2> QED BY <1>1, <2>2, <2>3, <2>4, <2>5, Reads DEF Recalls, Takes
<1>3. CASE q.asset \notin Live
  BY <1>1, <1>3, Returns
<1> QED BY <1>2, <1>3

LEMMA SourceTagsKeeps == ASSUME Stored, NEW r \in Requests, SourceTags(r) PROVE Stored'
<1> DEFINE q == libreq[r]
           pc == IF TagsOf(q.asset) = {} THEN "copied" ELSE "targetTags"
           z == [q EXCEPT !.pc = pc, !.todo = TagNamesOf(q.asset)]
<1>1. /\ UNCHANGED library /\ Shaped(q) /\ Suits(q, "sourceTags", assets, tags, colls) /\ Set(r, z)
  BY Known DEF SourceTags, At
<1>2. TagNamesOf(q.asset) \subseteq TagNames
  BY DEF TagNamesOf, TagsOf, TagRows, Stored, LibraryTypeOK
<1>3. pc \in {"copied", "targetTags"}
  OBVIOUS
<1>4. /\ DOMAIN z = Fields /\ z.pc = pc /\ z.project = q.project /\ z.todo = TagNamesOf(q.asset)
      /\ z.name = q.name /\ z.target = q.target /\ z.text = q.text /\ z.episode = q.episode
      /\ z.back = q.back /\ z.tag = q.tag /\ z.coll = q.coll /\ z.rest = q.rest
  BY <1>1, BlankShaped DEF Shaped
<1> HIDE DEF z, pc
<1>5. Shaped(z)
  BY <1>1, <1>2, <1>4 DEF Shaped
<1>6. Suits(z, pc, assets, tags, colls)
  BY <1>1, <1>3, <1>4 DEF Suits, NoProject, NamesAsset, NamesTag, Bare, Seen, Updating
<1> QED BY <1>1, <1>4, <1>5, <1>6, Reads DEF Recalls, Takes

LEMMA TargetTagsKeeps == ASSUME Stored, NEW r \in Requests, TargetTags(r) PROVE Stored'
<1>1. PICK f : UNCHANGED library /\ At(r, "targetTags")
               /\ Set(r, [libreq[r] EXCEPT !.pc = "eachTag", !.back = "eachTag", !.found = f])
  BY DEF TargetTags
<1> DEFINE q == libreq[r]
           z == [q EXCEPT !.pc = "eachTag", !.back = "eachTag", !.found = f]
<1>2. Shaped(q) /\ Suits(q, "targetTags", assets, tags, colls) /\ Set(r, z)
  BY <1>1, Known DEF At
<1>3. /\ DOMAIN z = Fields /\ z.pc = "eachTag" /\ z.project = q.project /\ z.todo = q.todo
      /\ z.name = q.name /\ z.target = q.target /\ z.text = q.text /\ z.episode = q.episode
      /\ z.back = "eachTag" /\ z.tag = q.tag /\ z.coll = q.coll /\ z.rest = q.rest
  BY <1>2, BlankShaped DEF Shaped
<1> HIDE DEF z
<1>4. Shaped(z)
  BY <1>2, <1>3 DEF Shaped, Backs
<1>5. Suits(z, "eachTag", assets, tags, colls)
  BY <1>2, <1>3 DEF Suits, NoProject, NamesAsset, NamesTag, Bare, Seen, Updating
<1> QED BY <1>1, <1>2, <1>3, <1>4, <1>5, Reads DEF Recalls, Takes

LEMMA EachTagKeeps == ASSUME Stored, NEW r \in Requests, EachTag(r) PROVE Stored'
<1> DEFINE q == libreq[r]
<1>1. /\ UNCHANGED library /\ Shaped(q) /\ Suits(q, "eachTag", assets, tags, colls)
      /\ q.pc = "eachTag" /\ q.back # "complete_upload_metadata" /\ q.project \in Projects
  BY Known DEF EachTag, At, Suits, NoProject
<1>2. CASE Goto(r, "copied")
  <2>1. Suits(q, "copied", assets, tags, colls)
    BY <1>1 DEF Suits, NoProject, NamesAsset, NamesTag, Bare, Seen, Updating
  <2> QED BY <1>1, <1>2, <2>1, Goes
<1>3. ASSUME NEW n \in q.todo, Set(r, [q EXCEPT !.pc = "create_tag", !.name = n]) PROVE Stored'
  <2> DEFINE z == [q EXCEPT !.pc = "create_tag", !.name = n]
  <2>1. /\ DOMAIN z = Fields /\ z.pc = "create_tag" /\ z.project = q.project /\ z.todo = q.todo
        /\ z.name = n /\ z.target = q.target /\ z.text = q.text /\ z.episode = q.episode
        /\ z.back = q.back /\ z.tag = q.tag /\ z.coll = q.coll /\ z.rest = q.rest
    BY <1>1, BlankShaped DEF Shaped
  <2>2. Set(r, z) /\ n \in TagNames
    BY <1>1, <1>3 DEF Shaped
  <2> HIDE DEF z
  <2>3. Shaped(z)
    BY <1>1, <2>1 DEF Shaped
  <2>4. Suits(z, "create_tag", assets, tags, colls)
    BY <1>1, <2>1, <2>2 DEF Suits, NoProject, NamesAsset, NamesTag, Bare, Seen, Updating
  <2> QED BY <1>1, <2>1, <2>2, <2>3, <2>4, Reads DEF Recalls, Takes
<1>4. ASSUME NEW n \in q.todo, NEW t, NEW s \in SUBSET q.todo,
             Set(r, [q EXCEPT !.pc = "attach_asset_tag", !.tag = t, !.todo = s])
      PROVE  Stored'
  <2> DEFINE z == [q EXCEPT !.pc = "attach_asset_tag", !.tag = t, !.todo = s]
  <2>1. /\ DOMAIN z = Fields /\ z.pc = "attach_asset_tag" /\ z.project = q.project /\ z.todo = s
        /\ z.name = q.name /\ z.target = q.target /\ z.text = q.text /\ z.episode = q.episode
        /\ z.back = q.back /\ z.tag = t /\ z.coll = q.coll /\ z.rest = q.rest
    BY <1>1, BlankShaped DEF Shaped
  <2>2. Set(r, z)
    BY <1>4
  <2> HIDE DEF z
  <2>3. Shaped(z)
    BY <1>1, <2>1 DEF Shaped
  <2>4. Suits(z, "attach_asset_tag", assets, tags, colls)
    BY <1>1, <2>1 DEF Suits, NoProject, NamesAsset, NamesTag, Bare, Seen, Updating
  <2> QED BY <1>1, <2>1, <2>2, <2>3, <2>4, Reads DEF Recalls, Takes
<1>5. CASE \E n \in q.todo :
        Set(r, IF q.found[n] = None
               THEN [q EXCEPT !.pc = "create_tag", !.name = n]
               ELSE [q EXCEPT !.pc = "attach_asset_tag", !.tag = q.found[n], !.todo = @ \ {n}])
  <2>1. PICK n \in q.todo :
        Set(r, IF q.found[n] = None
               THEN [q EXCEPT !.pc = "create_tag", !.name = n]
               ELSE [q EXCEPT !.pc = "attach_asset_tag", !.tag = q.found[n], !.todo = q.todo \ {n}])
    BY <1>5
  <2>2. q.todo \ {n} \in SUBSET q.todo
    OBVIOUS
  <2> QED BY <1>3, <1>4, <2>1, <2>2
<1> QED BY <1>2, <1>5 DEF EachTag

LEMMA CompleteMetadataKeeps ==
  ASSUME Stored, NEW r \in Requests, CompleteMetadata(r) PROVE Stored'
<1> DEFINE q == libreq[r]
           z == [q EXCEPT !.pc = "update_asset", !.back = "typeTag"]
<1>1. /\ UNCHANGED library /\ Shaped(q) /\ Suits(q, "complete_upload_metadata", assets, tags, colls)
      /\ Return(r) \/ Set(r, z)
  BY Known DEF CompleteMetadata, At
<1>2. /\ DOMAIN z = Fields /\ z.pc = "update_asset" /\ z.project = q.project /\ z.todo = q.todo
      /\ z.name = q.name /\ z.target = q.target /\ z.text = q.text /\ z.episode = q.episode
      /\ z.back = "typeTag" /\ z.tag = q.tag /\ z.coll = q.coll /\ z.rest = q.rest
  BY <1>1, BlankShaped DEF Shaped
<1> HIDE DEF z
<1>3. Shaped(z)
  BY <1>1, <1>2 DEF Shaped, Backs
<1>4. Suits(z, "update_asset", assets, tags, colls)
  BY <1>1, <1>2 DEF Suits, NoProject, NamesAsset, NamesTag, Bare, Seen, Updating
<1> QED BY <1>1, <1>2, <1>3, <1>4, Reads, Returns DEF Recalls, Takes

LEMMA TypeTagKeeps == ASSUME Stored, NEW r \in Requests, TypeTag(r) PROVE Stored'
<1> DEFINE q == libreq[r]
<1>1. /\ UNCHANGED library /\ Shaped(q) /\ Suits(q, "typeTag", assets, tags, colls)
      /\ q.project \in Projects
  BY Known DEF TypeTag, At, Suits, NoProject
<1>2. ASSUME NEW n \in TagNames,
             Set(r, [q EXCEPT !.pc = "create_tag", !.name = n, !.back = "attach_asset_tag"])
      PROVE  Stored'
  <2> DEFINE z == [q EXCEPT !.pc = "create_tag", !.name = n, !.back = "attach_asset_tag"]
  <2>1. /\ DOMAIN z = Fields /\ z.pc = "create_tag" /\ z.project = q.project /\ z.todo = q.todo
        /\ z.name = n /\ z.target = q.target /\ z.text = q.text /\ z.episode = q.episode
        /\ z.back = "attach_asset_tag" /\ z.tag = q.tag /\ z.coll = q.coll /\ z.rest = q.rest
    BY <1>1, BlankShaped DEF Shaped
  <2>2. Set(r, z)
    BY <1>2
  <2> HIDE DEF z
  <2>3. Shaped(z)
    BY <1>1, <2>1 DEF Shaped, Backs
  <2>4. Suits(z, "create_tag", assets, tags, colls)
    BY <1>1, <2>1 DEF Suits, NoProject, NamesAsset, NamesTag, Bare, Seen, Updating
  <2> QED BY <1>1, <2>1, <2>2, <2>3, <2>4, Reads DEF Recalls, Takes
<1>3. ASSUME NEW t, Set(r, [q EXCEPT !.pc = "attach_asset_tag", !.tag = t, !.back = "done"])
      PROVE  Stored'
  <2> DEFINE z == [q EXCEPT !.pc = "attach_asset_tag", !.tag = t, !.back = "done"]
  <2>1. /\ DOMAIN z = Fields /\ z.pc = "attach_asset_tag" /\ z.project = q.project /\ z.todo = q.todo
        /\ z.name = q.name /\ z.target = q.target /\ z.text = q.text /\ z.episode = q.episode
        /\ z.back = "done" /\ z.tag = t /\ z.coll = q.coll /\ z.rest = q.rest
    BY <1>1, BlankShaped DEF Shaped
  <2>2. Set(r, z)
    BY <1>3
  <2> HIDE DEF z
  <2>3. Shaped(z)
    BY <1>1, <2>1 DEF Shaped, Backs
  <2>4. Suits(z, "attach_asset_tag", assets, tags, colls)
    BY <1>1, <2>1 DEF Suits, NoProject, NamesAsset, NamesTag, Bare, Seen, Updating
  <2> QED BY <1>1, <2>1, <2>2, <2>3, <2>4, Reads DEF Recalls, Takes
<1> QED BY <1>2, <1>3 DEF TypeTag

----------------------------------------------------------------------------
(* What is right of the rows, table by table.                                  *)

AssetsGood ==
  /\ DOMAIN assets \subseteq AssetIds
  /\ \A a \in DOMAIN assets :
       assets[a] \in [project : Projects, name : AssetNames, text : BOOLEAN,
                      episode : BOOLEAN, live : BOOLEAN]
  /\ \A a, b \in Live :
       assets[a].project = assets[b].project /\ assets[a].name = assets[b].name => a = b
TagsGood ==
  /\ DOMAIN tags \subseteq TagIds
  /\ \A t \in DOMAIN tags : tags[t] \in [project : Projects, name : TagNames, there : BOOLEAN]
  /\ \A t, u \in TagRows :
       tags[t].project = tags[u].project /\ tags[t].name = tags[u].name => t = u
CollsGood ==
  /\ DOMAIN colls \subseteq CollIds
  /\ \A c \in DOMAIN colls :
       colls[c] \in [project : Projects, parent : CollIds \cup {None},
                     title : {"first", "second"}, there : BOOLEAN]
  /\ \A c \in CollRows :
       \/ colls[c].parent = None
       \/ colls[c].parent \in CollRows /\ colls[colls[c].parent].project = colls[c].project
Refers(e) ==
  /\ e \in AssetIds \X (TagIds \cup CollIds)
  /\ e[1] \in DOMAIN assets
  /\ \/ e[2] \in TagRows /\ tags[e[2]].project = assets[e[1]].project
     \/ e[2] \in CollRows /\ colls[e[2]].project = assets[e[1]].project
EntriesGood == \A e \in entries : Refers(e)

LEMMA Tables ==
  ASSUME LibraryTypeOK, NamesApart, ReferencesInScope
  PROVE  AssetsGood /\ TagsGood /\ CollsGood /\ EntriesGood
<1>1. AssetsGood /\ TagsGood
  BY DEF LibraryTypeOK, NamesApart, AssetsGood, TagsGood
<1>2. CollsGood
  BY DEF LibraryTypeOK, ReferencesInScope, CollsGood
<1>3. EntriesGood
  BY DEF LibraryTypeOK, ReferencesInScope, EntriesGood, Refers
<1> QED BY <1>1, <1>2, <1>3

LEMMA StoredTables == Stored => AssetsGood /\ TagsGood /\ CollsGood /\ EntriesGood
BY Tables DEF Stored

LEMMA TablesKept ==
  ASSUME AssetsGood', TagsGood', CollsGood', EntriesGood', DOMAIN libreq' = Requests
  PROVE  LibraryTypeOK' /\ NamesApart' /\ ReferencesInScope'
<1>1. LibraryTypeOK'
  <2>1. entries' \subseteq AssetIds \X (TagIds \cup CollIds)
    BY DEF EntriesGood, Refers
  <2> QED BY <2>1 DEF LibraryTypeOK, AssetsGood, TagsGood, CollsGood
<1>2. NamesApart'
  BY DEF NamesApart, AssetsGood, TagsGood
<1>3. ReferencesInScope'
  BY DEF ReferencesInScope, EntriesGood, Refers, CollsGood
<1> QED BY <1>1, <1>2, <1>3

\* A step that writes is right if each table is.
LEMMA Writes ==
  ASSUME Stored, NEW r \in Requests, NEW q, Takes(r, q), RowsStay,
         q.pc = "done" \/ Recalls(q, assets', tags', colls'),
         AssetsGood', TagsGood', CollsGood', EntriesGood'
  PROVE  Stored'
<1>1. LibraryTypeOK' /\ NamesApart' /\ ReferencesInScope'
  BY TablesKept, StillRequests
<1> QED BY <1>1, Stores

LEMMA AssetsRest == ASSUME AssetsGood, UNCHANGED assets PROVE AssetsGood'
BY DEF AssetsGood, Live
LEMMA TagsRest == ASSUME TagsGood, UNCHANGED tags PROVE TagsGood'
BY DEF TagsGood, TagRows
LEMMA CollsRest == ASSUME CollsGood, UNCHANGED colls PROVE CollsGood'
BY DEF CollsGood, CollRows

\* Tags and collections that are there stay there.
RowsThere == RowsStay /\ TagRows \subseteq TagRows' /\ CollRows \subseteq CollRows'

LEMMA RefersStays == ASSUME RowsThere, NEW e, Refers(e) PROVE Refers(e)'
<1>1. TagRows \subseteq DOMAIN tags /\ CollRows \subseteq DOMAIN colls
  BY DEF TagRows, CollRows
<1> QED BY <1>1 DEF RowsThere, RowsStay, Refers

LEMMA EntriesStay ==
  ASSUME Stored, RowsThere, \A e \in entries' \ entries : Refers(e)'
  PROVE  EntriesGood'
BY RefersStays, StoredTables DEF EntriesGood

\* A new tag, of a name that no tag of its project has.
LEMMA NewTagGood ==
  ASSUME Stored, NEW t \in TagIds \ DOMAIN tags, NEW p \in Projects, NEW n \in TagNames,
         NewTag(t, p, n), TagsNamed(p, n) = {}
  PROVE  /\ TagsGood' /\ TagRows \subseteq TagRows' /\ t \in TagRows' /\ tags'[t].project = p
         /\ DOMAIN tags \subseteq DOMAIN tags' /\ \A u \in DOMAIN tags : tags'[u] = tags[u]
<1> DEFINE v == [project |-> p, name |-> n, there |-> TRUE]
<1>1. v \in [project : Projects, name : TagNames, there : BOOLEAN]
      /\ v.project = p /\ v.name = n /\ v.there = TRUE
  OBVIOUS
<1>2. tags' = WithRow(tags, t, v)
  BY DEF NewTag
<1> HIDE DEF v
<1>3. DOMAIN tags' = DOMAIN tags \cup {t} /\ tags'[t] = v /\ \A u \in DOMAIN tags : tags'[u] = tags[u]
  BY <1>2 DEF WithRow
<1>4. TagRows' = TagRows \cup {t}
  BY <1>1, <1>3 DEF TagRows
<1>5. TagsGood
  BY StoredTables
<1>6. ASSUME NEW u \in TagRows PROVE ~(tags[u].project = p /\ tags[u].name = n)
  BY DEF TagsNamed
<1>7. TagsGood'
  <2>1. DOMAIN tags' \subseteq TagIds
    BY <1>3, <1>5 DEF TagsGood
  <2>2. \A u \in DOMAIN tags' : tags'[u] \in [project : Projects, name : TagNames, there : BOOLEAN]
    BY <1>1, <1>3, <1>5 DEF TagsGood
  <2>3. ASSUME NEW x \in TagRows', NEW y \in TagRows',
               tags'[x].project = tags'[y].project, tags'[x].name = tags'[y].name
        PROVE  x = y
    <3>1. TagRows \subseteq DOMAIN tags
      BY DEF TagRows
    <3> QED BY <1>1, <1>3, <1>4, <1>5, <1>6, <2>3, <3>1 DEF TagsGood
  <2> QED BY <2>1, <2>2, <2>3 DEF TagsGood
<1> QED BY <1>1, <1>3, <1>4, <1>7

----------------------------------------------------------------------------
(* The steps that write assets.                                                *)

\* Assets are written so that their projects stay.
AssetsStay ==
  DOMAIN assets \subseteq DOMAIN assets' /\ \A x \in DOMAIN assets : assets'[x].project = assets[x].project

LEMMA EpisodeEntryGood ==
  ASSUME Stored, IdsAssumption, AssetsStay, UNCHANGED colls, AssetsGood',
         NEW a \in DOMAIN assets', NEW p \in Projects, assets'[a].project = p,
         NEW more, NEW e \in BOOLEAN, EpisodeEntry(a, p, e, more),
         \A x \in more : /\ x \in {a} \X (TagIds \cup CollIds)
                         /\ \/ x[2] \in TagRows /\ tags[x[2]].project = p
                            \/ x[2] \in CollRows /\ colls[x[2]].project = p
  PROVE  RowsThere /\ TagsGood' /\ CollsGood' /\ EntriesGood'
<1>1. CollsGood' /\ CollRows' = CollRows
  BY CollsRest, StoredTables DEF CollRows
<1>2. a \in AssetIds
  BY DEF AssetsGood
<1>3. TagsGood' /\ TagRows \subseteq TagRows' /\ DOMAIN tags \subseteq DOMAIN tags'
      /\ \A u \in DOMAIN tags : tags'[u] = tags[u]
  <2>1. CASE UNCHANGED tags
    BY <2>1, TagsRest, StoredTables DEF TagRows
  <2>2. CASE e /\ TagsNamed(p, EpisodeTag) = {}
             /\ \E t \in TagIds \ DOMAIN tags : NewTag(t, p, EpisodeTag)
    BY <2>2, NewTagGood DEF IdsAssumption
  <2> QED BY <2>1, <2>2 DEF EpisodeEntry
<1>4. RowsThere
  BY <1>1, <1>3 DEF RowsThere, RowsStay, AssetsStay
<1>5. ASSUME NEW x \in more PROVE Refers(x)'
  <2>1. x \in AssetIds \X (TagIds \cup CollIds) /\ x[1] = a /\ x[2] \in TagIds \cup CollIds
    BY <1>2
  <2>2. x[2] \in TagRows => x[2] \in TagRows' /\ tags'[x[2]] = tags[x[2]]
    BY <1>3 DEF TagRows
  <2>3. x[2] \in CollRows => x[2] \in CollRows' /\ colls'[x[2]] = colls[x[2]]
    BY <1>1
  <2> QED BY <2>1, <2>2, <2>3 DEF Refers
<1>6. ASSUME NEW t \in TagRows', tags'[t].project = p PROVE Refers(<<a, t>>)'
  <2>1. t \in TagIds
    BY <1>3 DEF TagsGood, TagRows
  <2> QED BY <1>2, <1>6, <2>1 DEF Refers
<1>7. \A x \in entries' \ entries : Refers(x)'
  <2>1. CASE entries' = entries \cup more
    BY <1>5, <2>1
  <2>2. CASE \E t \in TagsNamed(p, EpisodeTag) : entries' = entries \cup more \cup {<<a, t>>} /\ UNCHANGED tags
    <3>1. PICK t \in TagsNamed(p, EpisodeTag) : entries' = entries \cup more \cup {<<a, t>>} /\ UNCHANGED tags
      BY <2>2
    <3>2. t \in TagRows' /\ tags'[t].project = p
      BY <3>1 DEF TagsNamed, TagRows
    <3> QED BY <1>5, <1>6, <3>1, <3>2
  <2>3. CASE TagsNamed(p, EpisodeTag) = {}
             /\ \E t \in TagIds \ DOMAIN tags :
                  NewTag(t, p, EpisodeTag) /\ entries' = entries \cup more \cup {<<a, t>>}
    <3>1. PICK t \in TagIds \ DOMAIN tags :
            NewTag(t, p, EpisodeTag) /\ entries' = entries \cup more \cup {<<a, t>>}
      BY <2>3
    <3>2. t \in TagRows' /\ tags'[t].project = p
      BY <2>3, <3>1, NewTagGood DEF IdsAssumption
    <3> QED BY <1>5, <1>6, <3>1, <3>2
  <2> QED BY <2>1, <2>2, <2>3 DEF EpisodeEntry
<1>8. EntriesGood'
  BY <1>4, <1>7, EntriesStay
<1> QED BY <1>1, <1>3, <1>4, <1>8

\* A row written under an id, of a name no other live asset of its project has.
LEMMA AssetWritten ==
  ASSUME Stored, NEW a \in AssetIds,
         NEW row \in [project : Projects, name : AssetNames, text : BOOLEAN,
                      episode : BOOLEAN, live : BOOLEAN],
         DOMAIN assets' = DOMAIN assets \cup {a}, assets'[a] = row,
         \A x \in DOMAIN assets \ {a} : assets'[x] = assets[x],
         a \in DOMAIN assets => assets[a].project = row.project,
         row.live => ~NameTaken(row.project, row.name, {a})
  PROVE  AssetsStay /\ AssetsGood'
<1>1. AssetsGood
  BY StoredTables
<1>2. AssetsStay
  BY DEF AssetsStay
<1>3. Live' \ {a} = Live \ {a} /\ (a \in Live' => row.live)
  BY DEF Live
<1>4. \A x \in Live \ {a} : row.live => ~(assets[x].project = row.project /\ assets[x].name = row.name)
  BY DEF NameTaken
<1>5. ASSUME NEW x \in Live', NEW y \in Live',
             assets'[x].project = assets'[y].project, assets'[x].name = assets'[y].name
      PROVE  x = y
  <2>1. CASE x = a \/ y = a
    BY <1>3, <1>4, <1>5, <2>1 DEF Live
  <2>2. CASE x # a /\ y # a
    BY <1>1, <1>3, <1>5, <2>2 DEF AssetsGood, Live
  <2> QED BY <2>1, <2>2
<1>6. DOMAIN assets' \subseteq AssetIds
  BY <1>1 DEF AssetsGood
<1>7. \A x \in DOMAIN assets' :
        assets'[x] \in [project : Projects, name : AssetNames, text : BOOLEAN,
                        episode : BOOLEAN, live : BOOLEAN]
  BY <1>1 DEF AssetsGood
<1> QED BY <1>2, <1>5, <1>6, <1>7 DEF AssetsGood

LEMMA InsertAssetKeeps ==
  ASSUME Stored, IdsAssumption, NEW r \in Requests, libreq[r].pc \in Seen,
         NEW next \in {"done", "list_asset_tags", "copied", libreq[r].back}, InsertAsset(r, next)
  PROVE  Stored'
<1> DEFINE q == libreq[r]
           targets == {q.tag, q.coll} \ {None}
           more(a) == {<<a, x>> : x \in targets}
<1>1. /\ Shaped(q) /\ Suits(q, q.pc, assets, tags, colls)
      /\ q.project \in Projects /\ q.name \in AssetNames
      /\ Within(q.tag, tags, q.project) /\ Within(q.coll, colls, q.project)
  BY Known DEF Suits, NoProject, NamesAsset, Seen
<1>2. CASE Return(r) /\ UNCHANGED library
  BY <1>2, Returns
<1>3. ASSUME NEW a \in AssetIds \ DOMAIN assets,
             ~NameTaken(q.project, q.name, {}), targets \subseteq TagRows \cup CollRows,
             assets' = WithRow(assets, a, [project |-> q.project, name |-> q.name, text |-> q.text,
                                           episode |-> q.episode, live |-> TRUE]),
             EpisodeEntry(a, q.project, q.text /\ q.episode, more(a)),
             Set(r, [q EXCEPT !.pc = next, !.target = a]), UNCHANGED colls
      PROVE  Stored'
  <2> DEFINE row == [project |-> q.project, name |-> q.name, text |-> q.text,
                     episode |-> q.episode, live |-> TRUE]
             z == [q EXCEPT !.pc = next, !.target = a]
  <2>1. /\ row \in [project : Projects, name : AssetNames, text : BOOLEAN,
                    episode : BOOLEAN, live : BOOLEAN]
        /\ row.project = q.project /\ row.name = q.name
    BY <1>1 DEF Shaped
  <2>2. /\ DOMAIN z = Fields /\ z.pc = next /\ z.project = q.project /\ z.todo = q.todo
        /\ z.name = q.name /\ z.text = q.text /\ z.episode = q.episode
        /\ z.back = q.back /\ z.tag = q.tag /\ z.coll = q.coll /\ z.rest = q.rest
    BY <1>1, BlankShaped DEF Shaped
  <2>3. Set(r, z) /\ assets' = WithRow(assets, a, row)
    BY <1>3
  <2> HIDE DEF row, z
  <2>4. /\ DOMAIN assets' = DOMAIN assets \cup {a} /\ assets'[a] = row
        /\ \A x \in DOMAIN assets \ {a} : assets'[x] = assets[x]
    BY <1>3, <2>3 DEF WithRow
  <2>5. ~NameTaken(row.project, row.name, {a})
    BY <1>3, <2>1 DEF NameTaken, Live
  <2>6. AssetsStay /\ AssetsGood'
    BY <2>1, <2>4, <2>5, AssetWritten
  <2>7. \A x \in more(a) : /\ x \in {a} \X (TagIds \cup CollIds)
                           /\ \/ x[2] \in TagRows /\ tags[x[2]].project = q.project
                              \/ x[2] \in CollRows /\ colls[x[2]].project = q.project
    <3> SUFFICES ASSUME NEW y \in targets
                 PROVE  /\ y \in TagIds \cup CollIds
                        /\ \/ y \in TagRows /\ tags[y].project = q.project
                           \/ y \in CollRows /\ colls[y].project = q.project
      OBVIOUS
    <3>1. DOMAIN tags \subseteq TagIds /\ DOMAIN colls \subseteq CollIds
      BY StoredTables DEF TagsGood, CollsGood
    <3>2. y \in TagRows \/ y \in CollRows
      BY <1>3
    <3>3. CASE y = q.tag
      BY <1>1, <3>1, <3>2, <3>3 DEF Within, IdsAssumption, TagRows, CollRows
    <3>4. CASE y = q.coll
      BY <1>1, <3>1, <3>2, <3>4 DEF Within, IdsAssumption, TagRows, CollRows
    <3> QED BY <3>3, <3>4
  <2>8. RowsThere /\ TagsGood' /\ CollsGood' /\ EntriesGood'
    <3> DEFINE p == q.project
               e == q.text /\ q.episode
               m == more(a)
    <3>1. a \in DOMAIN assets' /\ assets'[a].project = p /\ p \in Projects /\ e \in BOOLEAN
      BY <1>1, <2>1, <2>4
    <3>2. EpisodeEntry(a, p, e, m) /\ UNCHANGED colls
      BY <1>3
    <3>3. \A x \in m : /\ x \in {a} \X (TagIds \cup CollIds)
                       /\ \/ x[2] \in TagRows /\ tags[x[2]].project = p
                          \/ x[2] \in CollRows /\ colls[x[2]].project = p
      BY <2>7
    <3> HIDE DEF p, e, m
    <3> QED BY <2>6, <3>1, <3>2, <3>3, EpisodeEntryGood
  <2>9. next = "done" \/ Recalls(z, assets', tags', colls')
    <3>1. Shaped(z)
      BY <1>1, <2>2 DEF Shaped
    <3>2. ASSUME next # "done" PROVE Suits(z, next, assets', tags', colls')
      <4>1. next = "complete_upload_metadata" => z.name \in AssetNames
        BY <1>1, <2>2 DEF Shaped
      <4>2. next = "eachTag" => z.back = "eachTag"
        BY <2>2
      <4>3. next \in {"list_asset_tags", "copied"} \cup Backs
        BY <1>1, <3>2 DEF Shaped
      <4>4. z.project \in Projects
        BY <1>1, <2>2
      <4> QED BY <3>2, <4>1, <4>2, <4>3, <4>4 DEF Suits, Backs, NamesAsset, NamesTag, Bare, Seen, Updating
    <3> QED BY <2>2, <3>1, <3>2 DEF Recalls
  <2> QED BY <2>2, <2>3, <2>6, <2>8, <2>9, Writes DEF RowsThere, Takes
<1> QED BY <1>2, <1>3 DEF InsertAsset

LEMMA InsertsKeep ==
  ASSUME Stored, IdsAssumption, NEW r \in Requests, InsertText(r) \/ InsertFile(r) \/ InsertCopy(r)
  PROVE  Stored'
<1>1. CASE InsertText(r)
  BY <1>1, InsertAssetKeeps DEF InsertText, At, Seen
<1>2. CASE InsertFile(r)
  BY <1>2, InsertAssetKeeps DEF InsertFile, At, Seen
<1>3. CASE InsertCopy(r)
  BY <1>3, InsertAssetKeeps DEF InsertCopy, At, Seen
<1> QED BY <1>1, <1>2, <1>3

LEMMA UpdateRowKeeps ==
  ASSUME Stored, IdsAssumption, NEW r \in Requests, libreq[r].pc \in Updating,
         NEW row \in [project : Projects, name : AssetNames, text : BOOLEAN,
                      episode : BOOLEAN, live : BOOLEAN],
         row.project = assets[libreq[r].target].project, UpdateRow(r, row)
  PROVE  Stored'
<1> DEFINE q == libreq[r]
           a == q.target
           p == q.project
           e == q.episode
           z == [q EXCEPT !.pc = IF row.live THEN q.back ELSE "done"]
<1>1. /\ Shaped(q) /\ Suits(q, q.pc, assets, tags, colls)
      /\ a \in DOMAIN assets /\ row.project = p /\ assets[a].project = p /\ p \in Projects /\ e \in BOOLEAN
  BY Known DEF Suits, Shaped
<1>2. CASE Return(r) /\ UNCHANGED library
  BY <1>2, Returns
<1>3. CASE /\ row.live => ~NameTaken(p, row.name, {a})
           /\ assets' = [assets EXCEPT ![a] = row]
           /\ EpisodeEntry(a, p, e, {})
           /\ IF row.live THEN Goto(r, q.back) ELSE Return(r)
           /\ UNCHANGED colls
  <2>1. Set(r, z) /\ z.pc = (IF row.live THEN q.back ELSE "done")
    BY <1>1, <1>3, BlankShaped DEF Goto, Return, Shaped
  <2>2. AssetsStay /\ AssetsGood' /\ a \in DOMAIN assets' /\ assets'[a].project = p
    <3>1. a \in AssetIds
      BY <1>1, StoredTables DEF AssetsGood
    <3>2. /\ DOMAIN assets' = DOMAIN assets \cup {a} /\ assets'[a] = row
          /\ \A x \in DOMAIN assets \ {a} : assets'[x] = assets[x]
      BY <1>1, <1>3
    <3>3. /\ a \in DOMAIN assets => assets[a].project = row.project
          /\ row.live => ~NameTaken(row.project, row.name, {a})
      BY <1>1, <1>3
    <3> HIDE DEF a, p
    <3>4. AssetsStay /\ AssetsGood'
      BY <3>1, <3>2, <3>3, AssetWritten
    <3> QED BY <1>1, <3>2, <3>4
  <2>3. RowsThere /\ TagsGood' /\ CollsGood' /\ EntriesGood'
    <3> DEFINE m == {}
    <3>1. EpisodeEntry(a, p, e, m) /\ UNCHANGED colls
      BY <1>3
    <3>2. \A x \in m : /\ x \in {a} \X (TagIds \cup CollIds)
                       /\ \/ x[2] \in TagRows /\ tags[x[2]].project = p
                          \/ x[2] \in CollRows /\ colls[x[2]].project = p
      OBVIOUS
    <3> HIDE DEF a, p, e, m
    <3> QED BY <1>1, <2>2, <3>1, <3>2, EpisodeEntryGood
  <2>4. Suits(q, q.back, assets', tags', colls')
    BY <1>1, <2>3, BackSuits, SuitsStays DEF RowsThere
  <2>5. z.pc = "done" \/ Recalls(z, assets', tags', colls')
    BY <1>1, <2>1, <2>4, PlaceOnly
  <2> HIDE DEF z
  <2> QED BY <2>1, <2>2, <2>3, <2>5, Writes DEF RowsThere, Takes
<1> QED BY <1>2, <1>3 DEF UpdateRow

LEMMA UpdateWritesKeep ==
  ASSUME Stored, IdsAssumption, NEW r \in Requests,
         WriteMetadata(r) \/ WriteAsset(r) \/ WriteText(r)
  PROVE  Stored'
<1> DEFINE q == libreq[r]
           old == assets[q.target]
           Rows == [project : Projects, name : AssetNames, text : BOOLEAN,
                    episode : BOOLEAN, live : BOOLEAN]
<1>1. /\ q.pc \in Updating /\ Shaped(q) /\ Suits(q, q.pc, assets, tags, colls)
      /\ old \in Rows /\ q.episode \in BOOLEAN
  BY Known, StoredTables
     DEF WriteMetadata, WriteAsset, WriteText, At, Updating, Suits, Shaped, AssetsGood
<1>2. CASE WriteMetadata(r)
  <2> DEFINE row == [old EXCEPT !.episode = q.episode]
  <2>1. row \in Rows /\ row.project = old.project /\ UpdateRow(r, row)
    BY <1>1, <1>2 DEF WriteMetadata
  <2> HIDE DEF row
  <2> QED BY <1>1, <2>1, UpdateRowKeeps
<1>3. CASE WriteAsset(r)
  <2> DEFINE row == [old EXCEPT !.name = q.name, !.episode = q.episode]
  <2>1. q.name \in AssetNames
    BY <1>1, <1>3 DEF Suits, WriteAsset, At, NamesAsset
  <2>2. row \in Rows /\ row.project = old.project /\ UpdateRow(r, row)
    BY <1>1, <1>3, <2>1 DEF WriteAsset
  <2> HIDE DEF row
  <2> QED BY <1>1, <2>2, UpdateRowKeeps
<1>4. CASE WriteText(r)
  <2> DEFINE row == IF ~old.live THEN old ELSE [old EXCEPT !.name = q.name, !.episode = q.episode]
  <2>1. q.name \in AssetNames
    BY <1>1, <1>4 DEF Suits, WriteText, At, NamesAsset
  <2>2. row \in Rows /\ row.project = old.project /\ UpdateRow(r, row)
    BY <1>1, <1>4, <2>1 DEF WriteText
  <2> HIDE DEF row
  <2> QED BY <1>1, <2>2, UpdateRowKeeps
<1> QED BY <1>2, <1>3, <1>4

LEMMA MarkDeletedKeeps == ASSUME Stored, NEW r \in Requests, MarkDeleted(r) PROVE Stored'
<1> DEFINE q == libreq[r]
           z == [q EXCEPT !.pc = "done"]
<1>1. /\ assets' = [assets EXCEPT ![q.asset].live = FALSE] /\ Set(r, z) /\ z.pc = "done"
      /\ UNCHANGED tags /\ UNCHANGED colls /\ UNCHANGED entries
  BY Known, BlankShaped DEF MarkDeleted, Return, Goto, Shaped
<1>2. AssetsGood /\ TagsGood /\ CollsGood /\ EntriesGood
  BY StoredTables
<1>3. /\ DOMAIN assets' = DOMAIN assets /\ Live' \subseteq Live
      /\ \A x \in DOMAIN assets : /\ assets'[x].project = assets[x].project
                                  /\ assets'[x].name = assets[x].name
                                  /\ assets'[x] \in [project : Projects, name : AssetNames, text : BOOLEAN,
                                                     episode : BOOLEAN, live : BOOLEAN]
  BY <1>1, <1>2 DEF AssetsGood, Live
<1>4. AssetsGood'
  BY <1>2, <1>3 DEF AssetsGood, Live
<1>5. RowsThere
  BY <1>1, <1>3 DEF RowsThere, RowsStay, TagRows, CollRows
<1>6. TagsGood' /\ CollsGood' /\ EntriesGood'
  BY <1>1, <1>2, <1>5, TagsRest, CollsRest, EntriesStay
<1> HIDE DEF z
<1> QED BY <1>1, <1>4, <1>5, <1>6, Writes DEF RowsThere, Takes

----------------------------------------------------------------------------
(* The steps that write tags and entries.                                      *)

LEMMA InsertTagKeeps == ASSUME Stored, NEW r \in Requests, InsertTag(r) PROVE Stored'
<1> DEFINE q == libreq[r]
<1>1. /\ Shaped(q) /\ Suits(q, "insertTag", assets, tags, colls)
      /\ q.project \in Projects /\ q.name \in TagNames
  BY Known DEF InsertTag, At, Suits, NoProject, NamesTag
<1>2. CASE Return(r) /\ UNCHANGED library
  BY <1>2, Returns
<1>3. ASSUME TagsNamed(q.project, q.name) = {}, NEW t \in TagIds \ DOMAIN tags,
             NewTag(t, q.project, q.name),
             Set(r, [q EXCEPT !.pc = q.back, !.tag = t, !.found[q.name] = t,
                              !.back = IF q.op = "upload" THEN "done" ELSE @]),
             UNCHANGED <<assets, colls, entries>>
      PROVE  Stored'
  <2> DEFINE z == [q EXCEPT !.pc = q.back, !.tag = t, !.found[q.name] = t,
                            !.back = IF q.op = "upload" THEN "done" ELSE @]
  <2>1. /\ DOMAIN z = Fields /\ z.pc = q.back /\ z.project = q.project /\ z.todo = q.todo
        /\ z.name = q.name /\ z.target = q.target /\ z.text = q.text /\ z.episode = q.episode
        /\ z.back \in {"done", q.back} /\ z.rest = q.rest
    BY <1>1, BlankShaped DEF Shaped
  <2>2. Set(r, z)
    BY <1>3
  <2> HIDE DEF z
  <2>3. Shaped(z)
    BY <1>1, <2>1 DEF Shaped, Backs
  <2>4. Suits(z, q.back, assets', tags', colls')
    <3>1. /\ z.project \in Projects /\ q.back \in Backs
          /\ q.back = "eachTag" => z.back # "complete_upload_metadata"
          /\ q.back = "complete_upload_metadata" => z.name \in AssetNames
      BY <1>1, <2>1 DEF Shaped
    <3> QED BY <3>1 DEF Suits, Backs, NamesAsset, NamesTag, Bare, Seen, Updating
  <2>5. /\ TagsGood' /\ TagRows \subseteq TagRows'
        /\ DOMAIN tags \subseteq DOMAIN tags' /\ \A u \in DOMAIN tags : tags'[u] = tags[u]
    BY <1>1, <1>3, NewTagGood
  <2>6. RowsThere
    BY <1>3, <2>5 DEF RowsThere, RowsStay, CollRows
  <2>7. AssetsGood' /\ CollsGood' /\ EntriesGood'
    BY <1>3, <2>6, StoredTables, AssetsRest, CollsRest, EntriesStay
  <2> QED BY <2>1, <2>2, <2>3, <2>4, <2>5, <2>6, <2>7, Writes DEF Recalls, Takes, RowsThere
<1> QED BY <1>2, <1>3 DEF InsertTag

\* A step that returns, having written.
LEMMA ReturnsWith ==
  ASSUME Stored, NEW r \in Requests, Return(r), RowsStay, AssetsGood', TagsGood', CollsGood', EntriesGood'
  PROVE  Stored'
<1> DEFINE z == [libreq[r] EXCEPT !.pc = "done"]
<1>1. Set(r, z) /\ z.pc = "done"
  BY Known, BlankShaped DEF Return, Goto, Shaped
<1> HIDE DEF z
<1> QED BY <1>1, Writes DEF Takes

LEMMA RenameTagKeeps == ASSUME Stored, NEW r \in Requests, RenameTag(r) PROVE Stored'
<1> DEFINE q == libreq[r]
           t == q.tag
           n == q.name
           Rows == [project : Projects, name : TagNames, there : BOOLEAN]
<1>1. /\ Suits(q, "renameTag", assets, tags, colls) /\ n \in TagNames
      /\ Return(r) /\ UNCHANGED assets /\ UNCHANGED colls /\ UNCHANGED entries
  BY Known DEF RenameTag, At, Suits, NamesTag
<1>2. AssetsGood /\ TagsGood /\ CollsGood /\ EntriesGood
  BY StoredTables
<1>3. CASE UNCHANGED tags
  BY <1>1, <1>3, Returns DEF library
<1>4. CASE /\ t \in TagRows /\ TagsNamed(tags[t].project, n) \ {t} = {}
           /\ tags' = [tags EXCEPT ![t].name = n]
  <2> HIDE DEF t, n
  <2>1. t \in DOMAIN tags /\ tags[t] \in Rows /\ TagRows \subseteq DOMAIN tags
    BY <1>2, <1>4 DEF TagsGood, TagRows
  <2>2. /\ DOMAIN tags' = DOMAIN tags /\ tags'[t] = [tags[t] EXCEPT !.name = n]
        /\ \A u \in DOMAIN tags \ {t} : tags'[u] = tags[u]
    BY <1>4, <2>1
  <2>3. tags'[t] \in Rows /\ tags'[t].name = n /\ tags'[t].project = tags[t].project
        /\ tags'[t].there = tags[t].there
    BY <1>1, <2>1, <2>2
  <2>4. TagRows' = TagRows /\ \A u \in TagRows : tags'[u].project = tags[u].project
    BY <2>1, <2>2, <2>3 DEF TagRows
  <2>5. \A u \in TagRows \ {t} : ~(tags[u].project = tags[t].project /\ tags[u].name = n)
    BY <1>4 DEF TagsNamed
  <2>6. ASSUME NEW x \in TagRows', NEW y \in TagRows',
               tags'[x].project = tags'[y].project, tags'[x].name = tags'[y].name
        PROVE  x = y
    <3>1. CASE x # t /\ y # t
      BY <1>2, <2>1, <2>2, <2>4, <2>6, <3>1 DEF TagsGood
    <3>2. CASE x = t \/ y = t
      BY <2>1, <2>2, <2>3, <2>4, <2>5, <2>6, <3>2
    <3> QED BY <3>1, <3>2
  <2>7. TagsGood'
    BY <1>2, <2>2, <2>3, <2>6 DEF TagsGood
  <2>8. RowsThere
    BY <1>1, <2>2, <2>3, <2>4 DEF RowsThere, RowsStay, CollRows
  <2>9. AssetsGood' /\ CollsGood' /\ EntriesGood'
    BY <1>1, <1>2, <2>8, AssetsRest, CollsRest, EntriesStay
  <2> QED BY <1>1, <2>7, <2>8, <2>9, ReturnsWith DEF RowsThere
<1> QED BY <1>3, <1>4 DEF RenameTag

\* A tag is taken away only when no entry names it.
LEMMA RemoveTagKeeps == ASSUME Stored, NEW r \in Requests, RemoveTag(r) PROVE Stored'
<1> DEFINE t == libreq[r].tag
           Rows == [project : Projects, name : TagNames, there : BOOLEAN]
<1>1. /\ Return(r) /\ UNCHANGED assets /\ UNCHANGED colls /\ UNCHANGED entries
      /\ tags' = IF UsesOf(t) = {} THEN [tags EXCEPT ![t].there = FALSE] ELSE tags
  BY DEF RemoveTag
<1> HIDE DEF t
<1>2. AssetsGood /\ TagsGood /\ CollsGood /\ EntriesGood
  BY StoredTables
<1>3. CASE tags' = tags
  BY <1>1, <1>3, Returns DEF library
<1>4. CASE UsesOf(t) = {} /\ tags' = [tags EXCEPT ![t].there = FALSE]
  <2>1. /\ DOMAIN tags' = DOMAIN tags /\ TagRows' = TagRows \ {t}
        /\ \A u \in DOMAIN tags : /\ tags'[u] \in Rows
                                  /\ tags'[u].project = tags[u].project /\ tags'[u].name = tags[u].name
    BY <1>2, <1>4 DEF TagsGood, TagRows
  <2>2. TagRows \subseteq DOMAIN tags
    BY DEF TagRows
  <2>3. TagsGood'
    BY <1>2, <2>1, <2>2 DEF TagsGood
  <2>4. RowsStay
    BY <1>1, <2>1 DEF RowsStay
  <2>5. ASSUME NEW e \in entries PROVE Refers(e)'
    <3>1. Refers(e) /\ e = <<e[1], e[2]>>
      BY <1>2 DEF EntriesGood, Refers
    <3>2. e[2] # t
      BY <1>4, <3>1 DEF UsesOf, Refers
    <3> QED BY <1>1, <2>1, <2>2, <3>1, <3>2 DEF Refers, CollRows
  <2>6. AssetsGood' /\ CollsGood' /\ EntriesGood'
    BY <1>1, <1>2, <2>5, AssetsRest, CollsRest DEF EntriesGood
  <2> QED BY <1>1, <2>3, <2>4, <2>6, ReturnsWith
<1> QED BY <1>1, <1>3, <1>4

LEMMA AddEntryKeeps == ASSUME Stored, NEW r \in Requests, AddEntry(r) PROVE Stored'
<1> DEFINE q == libreq[r]
           z == [q EXCEPT !.pc = q.back]
           y == [q EXCEPT !.pc = "done"]
<1>1. /\ Shaped(q) /\ Suits(q, "addEntry", assets, tags, colls)
      /\ UNCHANGED assets /\ UNCHANGED tags /\ UNCHANGED colls
  BY Known DEF AddEntry, At
<1>2. /\ q.target \in DOMAIN assets
      /\ q.tag \in TagRows => tags[q.tag].project = assets[q.target].project
  BY <1>1 DEF Suits, TagRows
<1>3. RowsThere
  BY <1>1 DEF RowsThere, RowsStay, TagRows, CollRows
<1>4. AssetsGood' /\ TagsGood' /\ CollsGood' /\ TagRows' = TagRows /\ TagRows \subseteq TagIds
      /\ DOMAIN assets \subseteq AssetIds
  BY <1>1, StoredTables, AssetsRest, TagsRest, CollsRest DEF TagRows, TagsGood, AssetsGood
<1>5. CASE q.tag \in TagRows /\ entries' = entries \cup {<<q.target, q.tag>>} /\ Goto(r, q.back)
  <2>1. ASSUME NEW e, e = <<q.target, q.tag>> PROVE Refers(e)'
    BY <1>1, <1>2, <1>4, <1>5, <2>1 DEF Refers
  <2>2. EntriesGood'
    BY <1>3, <1>5, <2>1, EntriesStay
  <2>3. Recalls(z, assets', tags', colls')
    BY <1>1, BackSuits, PlaceOnly
  <2>4. Set(r, z)
    BY <1>5 DEF Goto
  <2> HIDE DEF z
  <2> QED BY <1>3, <1>4, <2>2, <2>3, <2>4, Writes DEF Takes, RowsThere
<1>6. CASE UNCHANGED entries /\ Abort(r)
  <2>1. y.pc = "done" /\ UNCHANGED library
    BY <1>1, <1>6, BlankShaped DEF Shaped, library
  <2> HIDE DEF y
  <2> QED BY <1>6, <2>1, Reads DEF Takes
<1> QED BY <1>5, <1>6 DEF AddEntry

LEMMA RemoveEntryKeeps == ASSUME Stored, NEW r \in Requests, RemoveEntry(r) PROVE Stored'
<1>1. /\ Return(r) /\ entries' \subseteq entries
      /\ UNCHANGED assets /\ UNCHANGED tags /\ UNCHANGED colls
  BY DEF RemoveEntry
<1>2. RowsThere
  BY <1>1 DEF RowsThere, RowsStay, TagRows, CollRows
<1>3. AssetsGood' /\ TagsGood' /\ CollsGood' /\ EntriesGood'
  BY <1>1, <1>2, StoredTables, AssetsRest, TagsRest, CollsRest, EntriesStay
<1> QED BY <1>1, <1>2, <1>3, ReturnsWith DEF RowsThere

----------------------------------------------------------------------------
(* The steps that write collections.                                           *)

LEMMA InsertCollectionKeeps == ASSUME Stored, NEW r \in Requests, InsertCollection(r) PROVE Stored'
<1> DEFINE q == libreq[r]
           p == q.project
           up == q.coll
<1>1. /\ Suits(q, "insertCollection", assets, tags, colls) /\ Return(r)
      /\ UNCHANGED assets /\ UNCHANGED tags /\ UNCHANGED entries
  BY Known DEF InsertCollection, At
<1>2. p \in Projects /\ Within(up, colls, p)
  BY <1>1 DEF Suits, NoProject
<1>3. AssetsGood /\ TagsGood /\ CollsGood /\ EntriesGood
  BY StoredTables
<1>4. CASE UNCHANGED colls
  BY <1>1, <1>4, Returns DEF library
<1>5. ASSUME up \in CollRows \cup {None}, NEW c \in CollIds \ DOMAIN colls,
             colls' = WithRow(colls, c, [project |-> p, parent |-> up, title |-> "first", there |-> TRUE])
      PROVE  Stored'
  <2> DEFINE row == [project |-> p, parent |-> up, title |-> "first", there |-> TRUE]
             Rows == [project : Projects, parent : CollIds \cup {None},
                      title : {"first", "second"}, there : BOOLEAN]
  <2> HIDE DEF p, up
  <2>1. CollRows \subseteq DOMAIN colls /\ DOMAIN colls \subseteq CollIds
    BY <1>3 DEF CollsGood, CollRows
  <2>2. row \in Rows /\ row.project = p /\ row.parent = up /\ row.there = TRUE
    BY <1>2, <1>5, <2>1
  <2>3. colls' = WithRow(colls, c, row)
    BY <1>5
  <2> HIDE DEF row
  <2>4. DOMAIN colls' = DOMAIN colls \cup {c} /\ colls'[c] = row
        /\ \A k \in DOMAIN colls : colls'[k] = colls[k]
    BY <1>5, <2>3 DEF WithRow
  <2>5. CollRows' = CollRows \cup {c}
    BY <2>2, <2>4 DEF CollRows
  <2>6. ASSUME NEW k \in CollRows'
        PROVE  \/ colls'[k].parent = None
               \/ colls'[k].parent \in CollRows' /\ colls'[colls'[k].parent].project = colls'[k].project
    <3>1. CASE k = c
      BY <1>2, <1>5, <2>1, <2>2, <2>4, <2>5, <3>1 DEF Within
    <3>2. CASE k \in CollRows
      BY <1>3, <2>1, <2>4, <2>5, <3>2 DEF CollsGood
    <3> QED BY <2>5, <3>1, <3>2
  <2>7. CollsGood'
    <3>1. DOMAIN colls' \subseteq CollIds
      BY <2>1, <2>4
    <3>2. \A k \in DOMAIN colls : colls[k] \in Rows
      BY <1>3 DEF CollsGood
    <3>3. \A k \in DOMAIN colls' : colls'[k] \in Rows
      BY <2>2, <2>4, <3>2
    <3> QED BY <2>6, <3>1, <3>3 DEF CollsGood
  <2>8. RowsThere
    BY <1>1, <2>4, <2>5 DEF RowsThere, RowsStay, TagRows
  <2>9. AssetsGood' /\ TagsGood' /\ EntriesGood'
    BY <1>1, <1>3, <2>8, AssetsRest, TagsRest, EntriesStay
  <2> QED BY <1>1, <2>7, <2>8, <2>9, ReturnsWith DEF RowsThere
<1> QED BY <1>4, <1>5 DEF InsertCollection

LEMMA RenameCollectionKeeps == ASSUME Stored, NEW r \in Requests, RenameCollection(r) PROVE Stored'
<1> DEFINE c == libreq[r].coll
           Rows == [project : Projects, parent : CollIds \cup {None},
                    title : {"first", "second"}, there : BOOLEAN]
<1>1. /\ Return(r) /\ UNCHANGED assets /\ UNCHANGED tags /\ UNCHANGED entries
      /\ colls' = IF c \in CollRows THEN [colls EXCEPT ![c].title = "second"] ELSE colls
  BY DEF RenameCollection
<1> HIDE DEF c
<1>2. AssetsGood /\ TagsGood /\ CollsGood /\ EntriesGood
  BY StoredTables
<1>3. /\ DOMAIN colls' = DOMAIN colls /\ CollRows' = CollRows /\ CollRows \subseteq DOMAIN colls
      /\ \A k \in DOMAIN colls : /\ colls'[k] \in Rows
                                 /\ colls'[k].project = colls[k].project
                                 /\ colls'[k].parent = colls[k].parent
  <2>1. CASE c \in CollRows
    <3>1. colls' = [colls EXCEPT ![c].title = "second"] /\ c \in DOMAIN colls
      BY <1>1, <2>1 DEF CollRows
    <3> QED BY <1>2, <3>1 DEF CollsGood, CollRows
  <2>2. CASE c \notin CollRows
    BY <1>1, <1>2, <2>2 DEF CollsGood, CollRows
  <2> QED BY <2>1, <2>2
<1>4. CollsGood'
  BY <1>2, <1>3 DEF CollsGood
<1>5. RowsThere
  BY <1>1, <1>3 DEF RowsThere, RowsStay, TagRows
<1>6. AssetsGood' /\ TagsGood' /\ EntriesGood'
  BY <1>1, <1>2, <1>5, AssetsRest, TagsRest, EntriesStay
<1> QED BY <1>1, <1>4, <1>5, <1>6, ReturnsWith DEF RowsThere

\* A tree is taken away whole, with its entries, or not at all.
LEMMA RemoveTreeKeeps == ASSUME Stored, NEW r \in Requests, RemoveTree(r) PROVE Stored'
<1> DEFINE tree == libreq[r].tree
           Rows == [project : Projects, parent : CollIds \cup {None},
                    title : {"first", "second"}, there : BOOLEAN]
<1>1. /\ Return(r) /\ UNCHANGED assets /\ UNCHANGED tags
      /\ IF Children(tree) \subseteq tree
         THEN /\ entries' = {e \in entries : e[2] \notin tree}
              /\ colls' = [c \in DOMAIN colls |->
                             IF c \in tree THEN [colls[c] EXCEPT !.there = FALSE] ELSE colls[c]]
         ELSE UNCHANGED <<entries, colls>>
  BY DEF RemoveTree
<1> HIDE DEF tree
<1>2. AssetsGood /\ TagsGood /\ CollsGood /\ EntriesGood
  BY StoredTables
<1>3. CASE UNCHANGED <<entries, colls>>
  BY <1>1, <1>3, Returns DEF library
<1>4. CASE /\ Children(tree) \subseteq tree
           /\ entries' = {e \in entries : e[2] \notin tree}
           /\ colls' = [c \in DOMAIN colls |->
                          IF c \in tree THEN [colls[c] EXCEPT !.there = FALSE] ELSE colls[c]]
  <2>1. ASSUME NEW k \in DOMAIN colls
        PROVE  /\ colls'[k] \in Rows /\ colls'[k].project = colls[k].project
               /\ colls'[k].parent = colls[k].parent
               /\ k \in CollRows' <=> (k \in CollRows /\ k \notin tree)
    <3>1. CASE k \in tree
      BY <1>2, <1>4, <3>1 DEF CollsGood, CollRows
    <3>2. CASE k \notin tree
      BY <1>2, <1>4, <3>2 DEF CollsGood, CollRows
    <3> QED BY <3>1, <3>2
  <2>2. DOMAIN colls' = DOMAIN colls /\ CollRows \subseteq DOMAIN colls /\ CollRows' \subseteq DOMAIN colls
    BY <1>4 DEF CollRows
  <2>3. CollsGood'
    <3>1. ASSUME NEW k \in CollRows', colls[k].parent # None
          PROVE  colls[k].parent \in CollRows' /\ colls[colls[k].parent].project = colls[k].project
      <4>1. k \in CollRows /\ k \notin tree
        BY <2>1, <2>2
      <4>2. colls[k].parent \in CollRows /\ colls[colls[k].parent].project = colls[k].project
        BY <1>2, <3>1, <4>1 DEF CollsGood
      <4>3. colls[k].parent \notin tree
        BY <1>4, <4>1 DEF Children
      <4> QED BY <2>1, <2>2, <4>2, <4>3
    <3>2. DOMAIN colls' \subseteq CollIds
      BY <1>2, <2>2 DEF CollsGood
    <3> QED BY <2>1, <2>2, <3>1, <3>2 DEF CollsGood
  <2>4. EntriesGood'
    <3>1. ASSUME NEW e \in entries, e[2] \notin tree PROVE Refers(e)'
      <4>1. Refers(e)
        BY <1>2 DEF EntriesGood
      <4> QED BY <1>1, <2>1, <2>2, <3>1, <4>1 DEF Refers, TagRows
    <3> QED BY <1>4, <3>1 DEF EntriesGood
  <2>5. RowsStay
    BY <1>1, <2>1, <2>2 DEF RowsStay
  <2>6. AssetsGood' /\ TagsGood'
    BY <1>1, <1>2, AssetsRest, TagsRest
  <2> QED BY <1>1, <2>3, <2>4, <2>5, <2>6, ReturnsWith
<1> QED BY <1>1, <1>3, <1>4

----------------------------------------------------------------------------
(* All of it.                                                                  *)

LEMMA StepKeeps == ASSUME Stored, IdsAssumption, NEW r \in Requests, Step(r) PROVE Stored'
<1>1. CASE CreateText(r) \/ ImportFile(r) \/ CopyName(r)
  BY <1>1, NamesChecked
<1>2. CASE InsertText(r) \/ InsertFile(r) \/ InsertCopy(r)
  BY <1>2, InsertsKeep
<1>3. CASE UpdateMetadata(r) \/ UpdateAsset(r) \/ UpdateText(r)
  BY <1>3, UpdatesKeep
<1>4. CASE WriteMetadata(r) \/ WriteAsset(r) \/ WriteText(r)
  BY <1>4, UpdateWritesKeep
<1>5. CASE \/ GetForDelete(r) \/ CreateTag(r) \/ UpdateTag(r) \/ FreeTagName(r) \/ DeleteTag(r)
           \/ CountUses(r) \/ UpdateCollection(r) \/ DeleteCollection(r) \/ MoveAsset(r)
           \/ ReadContent(r) \/ ListTags(r) \/ Copied(r)
  BY <1>5, SimpleReads
<1>6. CASE \/ IndexTargets(r) \/ FreeName(r) \/ MarkDeleted(r) \/ InsertTag(r) \/ RenameTag(r)
           \/ RemoveTag(r) \/ GetForTag(r) \/ TagScope(r) \/ SeeEntry(r) \/ AddEntry(r)
           \/ RemoveEntry(r)
  BY <1>6, IndexTargetsKeeps, FreeNameKeeps, MarkDeletedKeeps, InsertTagKeeps, RenameTagKeeps,
     RemoveTagKeeps, GetForTagKeeps, TagScopeKeeps, SeeEntryKeeps, AddEntryKeeps, RemoveEntryKeeps
<1>7. CASE \/ CreateCollection(r) \/ InsertCollection(r) \/ RenameCollection(r) \/ ReadTree(r)
           \/ RemoveTree(r) \/ GetSource(r) \/ SourceTags(r) \/ TargetTags(r) \/ EachTag(r)
           \/ CompleteMetadata(r) \/ TypeTag(r)
  BY <1>7, CreateCollectionKeeps, InsertCollectionKeeps, RenameCollectionKeeps, ReadTreeKeeps,
     RemoveTreeKeeps, GetSourceKeeps, SourceTagsKeeps, TargetTagsKeeps, EachTagKeeps,
     CompleteMetadataKeeps, TypeTagKeeps
<1> QED BY <1>1, <1>2, <1>3, <1>4, <1>5, <1>6, <1>7 DEF Step

LEMMA StoredNext ==
  ASSUME Stored, CallsAssumption, IdsAssumption, [LibraryNext]_libraryVars PROVE Stored'
<1>1. CASE UNCHANGED libraryVars
  <2>1. UNCHANGED <<assets, tags, colls, entries, libreq>>
    BY <1>1 DEF libraryVars, library
  <2> QED BY <2>1
       DEF Stored, LibraryTypeOK, NamesApart, ReferencesInScope, Live, TagRows, CollRows
<1>2. CASE LibraryNext
  BY <1>2, CallKeeps, StepKeeps DEF LibraryNext
<1> QED BY <1>1, <1>2

\* A library that begins in order.
StartInOrder == NamesUnique /\ ReferencesInScope

LEMMA StoredInit == ASSUME LibraryInit, StartInOrder PROVE Stored
<1>1. Recalls(Blank, assets, tags, colls)
  BY BlankShaped
     DEF Recalls, Suits, Blank, NoProject, NamesAsset, NamesTag, Bare, Seen, Updating
<1> QED BY <1>1 DEF LibraryInit, StartInOrder, NamesUnique, Stored

LEMMA StoredAlways ==
  ASSUME CallsAssumption, IdsAssumption
  PROVE  StartInOrder /\ LibrarySpec => []Stored
<1>1. LibraryInit /\ StartInOrder => Stored
  BY StoredInit
<1>2. Stored /\ [LibraryNext]_libraryVars => Stored'
  BY StoredNext
<1> QED BY <1>1, <1>2, PTL DEF LibrarySpec

\* In a library that begins in order two live assets, or two tags, of one project
\* never come to have the same name: the checks of names before the writes are
\* many steps away from them, the unique indexes decide.
THEOREM NamesAlwaysUnique ==
  ASSUME CallsAssumption, IdsAssumption
  PROVE  StartInOrder /\ LibrarySpec => []NamesUnique
<1>1. Stored => NamesUnique
  BY DEF Stored, NamesUnique
<1> QED BY <1>1, StoredAlways, PTL

\* What an entry or a collection refers to stays there and in its project,
\* whatever is deleted, copied or moved while the request that wrote it ran.
THEOREM ReferencesAlwaysInScope ==
  ASSUME CallsAssumption, IdsAssumption
  PROVE  StartInOrder /\ LibrarySpec => []ReferencesInScope
<1>1. Stored => ReferencesInScope
  BY DEF Stored
<1> QED BY <1>1, StoredAlways, PTL

----------------------------------------------------------------------------
(* What a search finds.                                                        *)

\* Tags and their names are told apart by finitely many ids and names.
PoolsAssumption == IsFiniteSet(TagIds) /\ IsFiniteSet(TagNames)

\* Some of the members of a finite set are all of them when they are as many.
LEMMA AllOfThem ==
  ASSUME NEW S, IsFiniteSet(S), NEW T, T \subseteq S
  PROVE  Cardinality(T) = Cardinality(S) <=> S \subseteq T
BY FS_Subset, FS_EmptySet

\* The tags of an asset are of its project.
LEMMA OwnTags ==
  ASSUME Stored, IdsAssumption, NEW a \in Live, NEW t \in TagsOf(a)
  PROVE  t \in TagRows /\ t \in TagIds /\ tags[t].project = assets[a].project /\ tags[t].name \in TagNames
<1>1. t \in TagRows /\ <<a, t>> \in entries
  BY DEF TagsOf
<1>2. t \in TagIds /\ tags[t].name \in TagNames
  BY <1>1 DEF Stored, LibraryTypeOK, TagRows
<1>3. t \notin CollRows
  BY <1>2 DEF Stored, LibraryTypeOK, CollRows, IdsAssumption
<1>4. tags[t].project = assets[a].project
  BY <1>1, <1>3 DEF Stored, ReferencesInScope
<1> QED BY <1>1, <1>2, <1>4

\* A list has as many members as places when it repeats none, and fewer otherwise.
LEMMA ListSize ==
  ASSUME NEW T, NEW n \in Nat, NEW ids \in [1..n -> T]
  PROVE  /\ Len(ids) = n /\ IsFiniteSet(Range(ids)) /\ Cardinality(Range(ids)) <= n
         /\ Cardinality(Range(ids)) = n <=> IsInjective(ids)
<1>1. IsFiniteSet(1..n) /\ Cardinality(1..n) = n
  BY FS_Interval
<1>2. ids \in Surjection(1..n, Range(ids))
  BY DEF Surjection, Range
<1>3. ids \in Injection(1..n, Range(ids)) <=> IsInjective(ids)
  BY <1>2 DEF Injection, Surjection, IsInjective, Range
<1>4. Len(ids) = n
  OBVIOUS
<1> QED BY <1>1, <1>2, <1>3, <1>4, FS_Surjection

LEMMA TagsFound ==
  ASSUME NEW S, NEW a \in Live, NEW n \in Nat, NEW ids \in [1..n -> {t \in TagRows : tags[t].project \in S}]
  PROVE  HasTags(S, ids, a) <=> IsInjective(ids) /\ Range(ids) \subseteq TagsOf(a)
<1> DEFINE T == Range(ids)
<1>1. T \subseteq {t \in TagRows : tags[t].project \in S}
  BY DEF Range
<1>2. {t \in T \cap TagsOf(a) : tags[t].project \in S} = T \cap TagsOf(a)
  BY <1>1
<1>3. Len(ids) = n /\ IsFiniteSet(T) /\ Cardinality(T) <= n /\ (Cardinality(T) = n <=> IsInjective(ids))
  BY ListSize
<1> HIDE DEF T
<1>4. Cardinality(T \cap TagsOf(a)) = Cardinality(T) <=> T \subseteq T \cap TagsOf(a)
  BY <1>3, AllOfThem
<1>5. Cardinality(T \cap TagsOf(a)) <= Cardinality(T) /\ Cardinality(T) \in Nat /\ Cardinality(T \cap TagsOf(a)) \in Nat
  BY <1>3, FS_Subset, FS_CardinalityType
<1>6. HasTags(S, ids, a) <=> (ids # <<>> => Cardinality(T \cap TagsOf(a)) = n)
  BY <1>2, <1>3 DEF HasTags, T
<1>7. CASE n = 0
  BY <1>7 DEF T, Range, HasTags, IsInjective
<1>8. CASE n # 0
  <2>1. ids # <<>>
    BY <1>3, <1>8
  <2>2. Cardinality(T \cap TagsOf(a)) = n
          <=> Cardinality(T \cap TagsOf(a)) = Cardinality(T) /\ Cardinality(T) = n
    <3>1. \A x, y \in Nat : x <= y /\ y <= n => (x = n <=> x = y /\ y = n)
      OBVIOUS
    <3> QED BY <1>3, <1>5, <3>1
  <2>3. T \subseteq T \cap TagsOf(a) <=> T \subseteq TagsOf(a)
    OBVIOUS
  <2>4. HasTags(S, ids, a) <=> IsInjective(ids) /\ T \subseteq TagsOf(a)
    <3>1. HasTags(S, ids, a) <=> Cardinality(T \cap TagsOf(a)) = n
      BY <1>6, <2>1
    <3>2. Cardinality(T \cap TagsOf(a)) = Cardinality(T) <=> T \subseteq TagsOf(a)
      BY <1>4, <2>3
    <3>3. Cardinality(T) = n <=> IsInjective(ids)
      BY <1>3
    <3> QED BY <2>2, <3>1, <3>2, <3>3
  <2> QED BY <2>4 DEF T
<1> QED BY <1>7, <1>8

LEMMA NamesFound ==
  ASSUME Stored, IdsAssumption, PoolsAssumption, NEW S, NEW a \in Live, assets[a].project \in S,
         NEW N, N \subseteq TagNames
  PROVE  HasTagNames(S, N, a) <=> N \subseteq TagNamesOf(a)
<1>1. {u \in TagsOf(a) : tags[u].project \in S} = TagsOf(a)
  BY OwnTags
<1>2. {tags[t].name : t \in {u \in TagsOf(a) : tags[u].project \in S}} = TagNamesOf(a)
  BY <1>1 DEF TagNamesOf
<1>3. IsFiniteSet(N)
  BY FS_Subset DEF PoolsAssumption
<1>4. Cardinality(TagNamesOf(a) \cap N) = Cardinality(N) <=> N \subseteq TagNamesOf(a) \cap N
  BY <1>3, AllOfThem
<1> QED BY <1>2, <1>4 DEF HasTagNames

\* A tree of collections lies in one project, so the search finds all of it.
LEMMA TreesFound ==
  ASSUME Stored, IdsAssumption, NEW S, NEW c \in CollRows, colls[c].project \in S
  PROVE  TreeWithin(S, c) = Tree({c}) /\ Tree({c}) \subseteq CollRows
<1> DEFINE within == {k \in CollRows : colls[k].project \in S}
<1>1. {c} \cap within = {c} /\ c \in CollIds /\ CollRows \subseteq CollIds
  BY DEF Stored, LibraryTypeOK, CollRows
<1>2. ASSUME NEW T \in SUBSET CollIds, {c} \subseteq T, Children(T) \cap within \subseteq T
      PROVE  Children(T \cap within) \cap CollRows \subseteq T \cap within
  <2> SUFFICES ASSUME NEW k \in CollRows, colls[k].parent \in T \cap within
               PROVE  k \in T \cap within
    BY DEF Children
  <2>1. colls[k].parent # None
    BY DEF IdsAssumption
  <2>2. colls[colls[k].parent].project = colls[k].project
    BY <2>1 DEF Stored, ReferencesInScope
  <2>3. k \in within /\ k \in Children(T)
    BY <2>2 DEF Children
  <2> QED BY <1>2, <2>3
<1>3. Tree({c}) \subseteq Grown({c}, within)
  <2> SUFFICES ASSUME NEW k \in Tree({c}), NEW T \in SUBSET CollIds,
                      {c} \subseteq T, Children(T) \cap within \subseteq T
               PROVE  k \in T
    BY DEF Grown, Tree
  <2>1. {c} \subseteq T \cap within /\ T \cap within \in SUBSET CollIds
    BY <1>1
  <2>2. Children(T \cap within) \cap CollRows \subseteq T \cap within
    BY <1>2
  <2> HIDE DEF within
  <2>3. k \in T \cap within
    BY <2>1, <2>2 DEF Grown, Tree
  <2> QED BY <2>3
<1>4. Grown({c}, within) \subseteq Tree({c})
  BY DEF Grown, Tree
<1>5. Tree({c}) \subseteq CollRows
  <2>1. {c} \subseteq CollRows /\ Children(CollRows) \cap CollRows \subseteq CollRows
    OBVIOUS
  <2> QED BY <1>1, <2>1 DEF Grown, Tree
<1> QED BY <1>1, <1>3, <1>4, <1>5 DEF TreeWithin

LEMMA StoredFinds ==
  ASSUME Stored, IdsAssumption, PoolsAssumption
  PROVE  SearchFindsAll
<1> SUFFICES ASSUME NEW S \in Scopes
             PROVE  LET Here == {a \in Live : assets[a].project \in S} IN
                    /\ \A ids \in SeqOf({t \in TagRows : tags[t].project \in S}, MaxIds) :
                         Search(S, ids, {}, None)
                           = {a \in Here : IsInjective(ids) /\ Range(ids) \subseteq TagsOf(a)}
                    /\ \A c \in {k \in CollRows : colls[k].project \in S} :
                         Search(S, <<>>, {}, c)
                           = {a \in Here : \E k \in CollRows : Above(c, k) /\ <<a, k>> \in entries}
                    /\ \A N \in SUBSET TagNames :
                         Search(S, <<>>, N, None) = {a \in Here : N \subseteq TagNamesOf(a)}
  BY DEF SearchFindsAll
<1> DEFINE Here == {a \in Live : assets[a].project \in S}
<1>1. ASSUME NEW ids \in SeqOf({t \in TagRows : tags[t].project \in S}, MaxIds)
      PROVE  Search(S, ids, {}, None) = {a \in Here : IsInjective(ids) /\ Range(ids) \subseteq TagsOf(a)}
  <2>1. \A a \in Live : HasTagNames(S, {}, a) /\ HasCollection(S, None, a)
    BY DEF HasTagNames, HasCollection
  <2>2. \A a \in Live : HasTags(S, ids, a) <=> IsInjective(ids) /\ Range(ids) \subseteq TagsOf(a)
    <3>1. PICK n \in Nat : ids \in [1..n -> {t \in TagRows : tags[t].project \in S}]
      BY LibraryAssumption DEF SeqOf
    <3> QED BY <3>1, TagsFound
  <2> QED BY <2>1, <2>2 DEF Search
<1>2. ASSUME NEW c \in {k \in CollRows : colls[k].project \in S}
      PROVE  Search(S, <<>>, {}, c) = {a \in Here : \E k \in CollRows : Above(c, k) /\ <<a, k>> \in entries}
  <2>1. \A a \in Live : HasTagNames(S, {}, a) /\ HasTags(S, <<>>, a)
    BY DEF HasTagNames, HasTags
  <2>2. c # None
    BY DEF IdsAssumption, Stored, LibraryTypeOK, CollRows
  <2>3. \A a \in Live :
          HasCollection(S, c, a) <=> \E k \in CollRows : Above(c, k) /\ <<a, k>> \in entries
    BY <2>2, TreesFound DEF HasCollection, Above
  <2> QED BY <2>1, <2>3 DEF Search
<1>3. ASSUME NEW N \in SUBSET TagNames
      PROVE  Search(S, <<>>, N, None) = {a \in Here : N \subseteq TagNamesOf(a)}
  <2>1. \A a \in Live : HasTags(S, <<>>, a) /\ HasCollection(S, None, a)
    BY DEF HasTags, HasCollection
  <2>2. \A a \in Here : HasTagNames(S, N, a) <=> N \subseteq TagNamesOf(a)
    BY NamesFound
  <2> QED BY <2>1, <2>2 DEF Search
<1> QED BY <1>1, <1>2, <1>3

\* A search by tags, by names of tags or by a collection finds what it should: the
\* conditions on the scopes of entries, tags and collections hide nothing.  Only a
\* list of tags that repeats one finds nothing (_search_filter counts the list).
THEOREM SearchAlwaysFindsAll ==
  ASSUME CallsAssumption, IdsAssumption, PoolsAssumption
  PROVE  StartInOrder /\ LibrarySpec => []SearchFindsAll
<1>1. Stored => SearchFindsAll
  BY StoredFinds
<1> QED BY <1>1, StoredAlways, PTL

----------------------------------------------------------------------------
(* What a move that nothing overlaps leaves.                                   *)

Reading == {"readContent", "copyName", "insertCopy"}
Listing == {"list_asset_tags", "sourceTags", "targetTags"}
Tagging == {"eachTag", "create_tag", "insertTag"}
Attaching == {"attach_asset_tag", "tagScope", "seeEntry", "addEntry"}
Ending == {"copied", "delete_asset", "markDeleted"}
MovePlaces == {"move_asset", "copy_asset"} \cup Reading \cup Listing \cup Tagging \cup Attaching \cup Ending

\* Requests to move come as the route makes them.
MovesAssumption ==
  \A q \in Calls : q.op = "move" => q.pc = "move_asset"


\* Of the tables of assets A, tags T and entries E: the live assets, the tags that
\* are there and the names of the tags of an asset.
LiveIn(A) == {x \in DOMAIN A : A[x].live}
There(T) == {t \in DOMAIN T : T[t].there}
NamesIn(x, T, E) == {T[t].name : t \in {u \in There(T) : <<x, u>> \in E}}

\* The target is a live copy, and the tags found in its project have their names.
Copies(q, A) ==
  /\ q.asset \in LiveIn(A) /\ q.target \in LiveIn(A) /\ q.target # q.asset
  /\ A[q.target].project = q.project /\ A[q.target].name = A[q.asset].name
Found(q, T) ==
  /\ DOMAIN q.found = TagNames
  /\ \A n \in TagNames : q.found[n] # None => q.found[n] \in There(T) /\ T[q.found[n]].name = n

\* What a move that is alone has brought about when it is at pc: what it has yet to
\* do and what the copy has are together the tags of the source.
Carries(q, pc, A, T, E) ==
  /\ pc \in Reading => q.asset \in LiveIn(A) /\ q.name = A[q.asset].name
  /\ pc \in Listing \cup Tagging \cup Attaching \cup Ending => Copies(q, A)
  /\ pc = "targetTags" => NamesIn(q.asset, T, E) \subseteq q.todo
  /\ pc \in Tagging \cup Attaching => Found(q, T)
  /\ pc \in Tagging => NamesIn(q.asset, T, E) \subseteq q.todo \cup NamesIn(q.target, T, E)
  /\ pc \in Attaching =>
       /\ q.tag \in There(T)
       /\ NamesIn(q.asset, T, E) \subseteq q.todo \cup {T[q.tag].name} \cup NamesIn(q.target, T, E)
  /\ pc \in Ending => NamesIn(q.asset, T, E) \subseteq NamesIn(q.target, T, E)
\* Where a move with its tags is.
OnWay(q, pc) == pc \in MovePlaces /\ (pc \in Tagging \cup Attaching => q.back = "eachTag")
Resting == {"idle", "done"}
Moves(q) == q.op = "move" /\ q.tags /\ q.pc \notin Resting
Travels(q, A, T, E) == Moves(q) => OnWay(q, q.pc) /\ (q.alone => Carries(q, q.pc, A, T, E))

\* Beside a request that is alone no other is on its way.
ByThemselves ==
  \A r, o \in Requests : libreq[r].alone /\ ~Idle(r) /\ o # r => Idle(o)
Underway ==
  /\ Stored /\ ByThemselves
  /\ \A r \in Requests : Travels(libreq[r], assets, tags, entries)

LEMMA InTables ==
  /\ Live = LiveIn(assets) /\ TagRows = There(tags)
  /\ \A x : TagNamesOf(x) = NamesIn(x, tags, entries)
BY DEF Live, LiveIn, TagRows, There, TagNamesOf, TagsOf, NamesIn

\* What a request remembers of its call, and what of the assets and their tags.
SameCall(q, z) == z.op = q.op /\ z.tags = q.tags /\ z.alone = q.alone
SameGoods(q, z) ==
  /\ z.asset = q.asset /\ z.target = q.target /\ z.project = q.project /\ z.name = q.name
  /\ z.tag = q.tag /\ z.todo = q.todo /\ z.found = q.found

\* A step of r takes it on, as the same call, or ends it.
Retains(r) ==
  /\ \A o \in Requests \ {r} : libreq'[o] = libreq[o]
  /\ libreq'[r].pc = "done" \/ SameCall(libreq[r], libreq'[r])
\* A move that takes a step is still on its way, with all it carries.
Arrives(r) ==
  LET q == libreq[r]
      z == libreq'[r] IN
  \/ z.pc = "done"
  \/ /\ OnWay(z, z.pc)
     /\ Carries(q, q.pc, assets, tags, entries) => Carries(z, z.pc, assets', tags', entries')

LEMMA GoOnPlace ==
  ASSUME NEW q
  PROVE  \/ GoOn(q).pc = "done"
         \/ /\ GoOn(q).op = q.op /\ GoOn(q).tags = q.tags /\ GoOn(q).alone = q.alone
            /\ GoOn(q).pc = IF q.op = "move" THEN "move_asset" ELSE "copy_asset"
<1>1. CASE q.rest = <<>>
  BY <1>1 DEF GoOn, Returned, Blank
<1>2. CASE q.rest # <<>>
  BY <1>2 DEF GoOn, Transfer, Blank
<1> QED BY <1>1, <1>2

LEMMA TakesRetains ==
  ASSUME Stored, NEW r \in Requests, NEW z, Takes(r, z), z.pc = "done" \/ SameCall(libreq[r], z)
  PROVE  Retains(r)
<1>1. /\ \A o \in Requests \ {r} : libreq'[o] = libreq[o]
      /\ libreq'[r] = GoOn(libreq[r]) \/ libreq'[r] = Returned \/ (libreq'[r] = z /\ z.pc # "done")
  BY StillRequests DEF Takes, Set, Abort, Stored, LibraryTypeOK
<1>2. Returned.pc = "done"
  BY DEF Returned, Blank
<1> QED BY <1>1, <1>2, GoOnPlace DEF Retains, SameCall

\* Going on to the next asset of the transfer, or ending, leaves nothing to carry.
LEMMA TakesArrives ==
  ASSUME Stored, NEW r \in Requests, NEW z, Moves(libreq[r]), Takes(r, z),
         z.pc # "done" =>
           /\ OnWay(z, z.pc)
           /\ Carries(libreq[r], libreq[r].pc, assets, tags, entries)
                => Carries(z, z.pc, assets', tags', entries')
  PROVE  Arrives(r)
<1>1. libreq'[r] = GoOn(libreq[r]) \/ libreq'[r] = Returned \/ (libreq'[r] = z /\ z.pc # "done")
  BY DEF Takes, Set, Abort, Stored, LibraryTypeOK
<1>2. Returned.pc = "done"
  BY DEF Returned, Blank
<1>3. CASE libreq'[r] = GoOn(libreq[r]) /\ libreq'[r].pc # "done"
  <2>1. libreq'[r].pc = "move_asset"
    BY <1>3, GoOnPlace DEF Moves
  <2>2. \A q, A, T, E : OnWay(q, "move_asset") /\ Carries(q, "move_asset", A, T, E)
    BY DEF OnWay, Carries, MovePlaces, Reading, Listing, Tagging, Attaching, Ending
  <2> QED BY <2>1, <2>2 DEF Arrives
<1> QED BY <1>1, <1>2, <1>3 DEF Arrives

\* Going elsewhere, with the rest as it is.
LEMMA PlaceSame ==
  ASSUME NEW q, NEW pc, Shaped(q)
  PROVE  LET z == [q EXCEPT !.pc = pc] IN
         z.pc = pc /\ z.back = q.back /\ SameCall(q, z) /\ SameGoods(q, z)
BY BlankShaped DEF Shaped, SameCall, SameGoods

LEMMA GotoRetains ==
  ASSUME Stored, NEW r \in Requests, NEW pc, Goto(r, pc)
  PROVE  Retains(r)
<1> DEFINE z == [libreq[r] EXCEPT !.pc = pc]
<1>1. Takes(r, z) /\ SameCall(libreq[r], z)
  BY Known, PlaceSame DEF Goto, Takes
<1> HIDE DEF z
<1> QED BY <1>1, TakesRetains

LEMMA ReturnRetains ==
  ASSUME Stored, NEW r \in Requests, Return(r)
  PROVE  Retains(r)
BY GotoRetains DEF Return

LEMMA AbortRetains ==
  ASSUME Stored, NEW r \in Requests, Abort(r)
  PROVE  Retains(r)
<1>1. Takes(r, Returned) /\ Returned.pc = "done"
  BY DEF Takes, Returned, Blank
<1> QED BY <1>1, TakesRetains

\* Setting other fields than those of the call.
LEMMA SetRetains ==
  ASSUME Stored, NEW r \in Requests, NEW z, Set(r, z),
         \A f \in {"op", "tags", "alone"} : z[f] = libreq[r][f]
  PROVE  Retains(r)
<1>1. SameCall(libreq[r], z) /\ Takes(r, z)
  BY DEF SameCall, Takes
<1> QED BY <1>1, TakesRetains

LEMMA InsertAssetRetains ==
  ASSUME Stored, NEW r \in Requests, NEW next, InsertAsset(r, next)
  PROVE  Retains(r)
<1> DEFINE z(a) == [libreq[r] EXCEPT !.pc = next, !.target = a]
<1>1. CASE Return(r)
  BY <1>1, ReturnRetains
<1>2. ASSUME NEW a, Set(r, z(a))
      PROVE  Retains(r)
  <2>1. \A f \in {"op", "tags", "alone"} : z(a)[f] = libreq[r][f]
    BY Known, BlankShaped DEF Shaped
  <2> HIDE DEF z
  <2> QED BY <1>2, <2>1, SetRetains
<1> QED BY <1>1, <1>2 DEF InsertAsset

LEMMA InsertTagRetains ==
  ASSUME Stored, NEW r \in Requests, InsertTag(r)
  PROVE  Retains(r)
<1> DEFINE q == libreq[r]
           z(t) == [q EXCEPT !.pc = q.back, !.tag = t, !.found[q.name] = t,
                             !.back = IF q.op = "upload" THEN "done" ELSE @]
<1>1. CASE Return(r)
  BY <1>1, ReturnRetains
<1>2. ASSUME NEW t, Set(r, z(t))
      PROVE  Retains(r)
  <2>1. \A f \in {"op", "tags", "alone"} : z(t)[f] = libreq[r][f]
    BY Known, BlankShaped DEF Shaped
  <2> HIDE DEF z
  <2> QED BY <1>2, <2>1, SetRetains
<1> QED BY <1>1, <1>2 DEF InsertTag

LEMMA EachTagRetains ==
  ASSUME Stored, NEW r \in Requests, EachTag(r)
  PROVE  Retains(r)
<1> DEFINE q == libreq[r]
           z(n) == IF q.found[n] = None
                   THEN [q EXCEPT !.pc = "create_tag", !.name = n]
                   ELSE [q EXCEPT !.pc = "attach_asset_tag", !.tag = q.found[n], !.todo = @ \ {n}]
<1>1. CASE Goto(r, "copied")
  BY <1>1, GotoRetains
<1>2. ASSUME NEW n, Set(r, z(n))
      PROVE  Retains(r)
  <2>1. \A f \in {"op", "tags", "alone"} : z(n)[f] = libreq[r][f]
    BY Known, BlankShaped DEF Shaped
  <2> HIDE DEF z
  <2> QED BY <1>2, <2>1, SetRetains
<1> QED BY <1>1, <1>2 DEF EachTag

LEMMA TypeTagRetains ==
  ASSUME Stored, NEW r \in Requests, TypeTag(r)
  PROVE  Retains(r)
<1> DEFINE q == libreq[r]
           y(n) == [q EXCEPT !.pc = "create_tag", !.name = n, !.back = "attach_asset_tag"]
           z(t) == [q EXCEPT !.pc = "attach_asset_tag", !.tag = t, !.back = "done"]
<1>1. PICK n \in TagNames : Set(r, y(n)) \/ \E t \in TagsNamed(q.project, n) : Set(r, z(t))
  BY DEF TypeTag
<1>2. \A f \in {"op", "tags", "alone"} : y(n)[f] = libreq[r][f]
  BY Known, BlankShaped DEF Shaped
<1>3. ASSUME NEW t PROVE \A f \in {"op", "tags", "alone"} : z(t)[f] = libreq[r][f]
  BY Known, BlankShaped DEF Shaped
<1> HIDE DEF y, z
<1>4. CASE Set(r, y(n))
  BY <1>2, <1>4, SetRetains
<1>5. ASSUME NEW t, Set(r, z(t)) PROVE Retains(r)
  BY <1>3, <1>5, SetRetains
<1> QED BY <1>1, <1>4, <1>5

\* The other steps that set more than the place.
LEMMA SetsRetain ==
  ASSUME Stored, NEW r \in Requests,
         \/ \E textOnly, next : GetForUpdate(r, textOnly, next)
         \/ ReadTree(r) \/ GetSource(r) \/ SourceTags(r) \/ TargetTags(r) \/ CompleteMetadata(r)
  PROVE  Retains(r)
<1> DEFINE q == libreq[r]
<1>1. ASSUME NEW z, Set(r, z), \A f \in Fields \ {"pc", "project", "tree", "name", "text", "episode", "todo",
                                                  "back", "found"} : z[f] = q[f]
      PROVE  Retains(r)
  BY <1>1, SetRetains, BlankShaped
<1>2. ASSUME NEW textOnly, NEW next, GetForUpdate(r, textOnly, next) PROVE Retains(r)
  <2> DEFINE z == [q EXCEPT !.pc = next, !.project = assets[q.target].project]
  <2>1. \A f \in Fields \ {"pc", "project"} : z[f] = q[f]
    BY Known, BlankShaped DEF Shaped
  <2>2. Set(r, z) \/ Return(r)
    BY <1>2 DEF GetForUpdate
  <2> HIDE DEF z
  <2> QED BY <1>1, <2>1, <2>2, ReturnRetains
<1>3. CASE ReadTree(r)
  <2> DEFINE tree == IF q.coll \in CollRows THEN Tree({q.coll}) ELSE {}
             z == [q EXCEPT !.pc = "removeTree", !.tree = tree]
  <2>1. \A f \in Fields \ {"pc", "tree"} : z[f] = q[f]
    BY Known, BlankShaped DEF Shaped
  <2>2. Set(r, z) \/ Return(r)
    BY <1>3 DEF ReadTree
  <2> HIDE DEF z
  <2> QED BY <1>1, <2>1, <2>2, ReturnRetains
<1>4. CASE GetSource(r)
  <2> DEFINE a == assets[q.asset]
             z == [q EXCEPT !.pc = "readContent", !.name = a.name, !.text = a.text, !.episode = a.episode]
  <2>1. \A f \in Fields \ {"pc", "name", "text", "episode"} : z[f] = q[f]
    BY Known, BlankShaped DEF Shaped
  <2>2. Set(r, z) \/ Return(r)
    BY <1>4 DEF GetSource
  <2> HIDE DEF z
  <2> QED BY <1>1, <2>1, <2>2, ReturnRetains
<1>5. CASE SourceTags(r)
  <2> DEFINE pc == IF TagsOf(q.asset) = {} THEN "copied" ELSE "targetTags"
             z == [q EXCEPT !.pc = pc, !.todo = TagNamesOf(q.asset)]
  <2>1. \A f \in Fields \ {"pc", "todo"} : z[f] = q[f]
    BY Known, BlankShaped DEF Shaped
  <2>2. Set(r, z)
    BY <1>5 DEF SourceTags
  <2> HIDE DEF z
  <2> QED BY <1>1, <2>1, <2>2
<1>6. CASE TargetTags(r)
  <2> DEFINE found == [n \in TagNames |->
                         IF TagsNamed(q.project, n) = {} THEN None
                         ELSE CHOOSE t \in TagsNamed(q.project, n) : TRUE]
             z == [q EXCEPT !.pc = "eachTag", !.back = "eachTag", !.found = found]
  <2>1. Set(r, z)
    BY <1>6 DEF TargetTags
  <2> HIDE DEF found
  <2>2. \A f \in Fields \ {"pc", "back", "found"} : z[f] = q[f]
    BY Known, BlankShaped DEF Shaped
  <2> HIDE DEF z
  <2> QED BY <1>1, <2>1, <2>2
<1>7. CASE CompleteMetadata(r)
  <2> DEFINE z == [q EXCEPT !.pc = "update_asset", !.back = "typeTag"]
  <2>1. \A f \in Fields \ {"pc", "back"} : z[f] = q[f]
    BY Known, BlankShaped DEF Shaped
  <2>2. Set(r, z) \/ Return(r)
    BY <1>7 DEF CompleteMetadata
  <2> HIDE DEF z
  <2> QED BY <1>1, <2>1, <2>2, ReturnRetains
<1> QED BY <1>2, <1>3, <1>4, <1>5, <1>6, <1>7

LEMMA StepRetains ==
  ASSUME Stored, NEW r \in Requests, Step(r)
  PROVE  ~Idle(r) /\ Retains(r)
<1>1. ~Idle(r)
  BY DEF Step, Idle, At, CreateText, InsertText, ImportFile, IndexTargets, InsertFile,
         UpdateMetadata, UpdateAsset, UpdateText, FreeName, WriteMetadata, WriteAsset, WriteText,
         GetForDelete, MarkDeleted, CreateTag, InsertTag, UpdateTag, FreeTagName, RenameTag,
         DeleteTag, CountUses, RemoveTag, GetForTag, TagScope, SeeEntry, AddEntry, RemoveEntry,
         CreateCollection, InsertCollection, UpdateCollection, RenameCollection,
         DeleteCollection, ReadTree, RemoveTree, MoveAsset, GetSource, ReadContent, CopyName,
         InsertCopy, ListTags, SourceTags, TargetTags, EachTag, Copied, CompleteMetadata, TypeTag
<1> SUFFICES Retains(r)
  BY <1>1
<1>2. CASE \/ InsertText(r) \/ InsertFile(r) \/ InsertCopy(r)
           \/ InsertTag(r) \/ EachTag(r) \/ TypeTag(r)
  BY <1>2, InsertAssetRetains, InsertTagRetains, EachTagRetains, TypeTagRetains
     DEF InsertText, InsertFile, InsertCopy
<1>3. CASE \/ UpdateMetadata(r) \/ UpdateAsset(r) \/ UpdateText(r)
           \/ ReadTree(r) \/ GetSource(r) \/ SourceTags(r) \/ TargetTags(r) \/ CompleteMetadata(r)
  BY <1>3, SetsRetain DEF UpdateMetadata, UpdateAsset, UpdateText
<1>4. CASE AddEntry(r)
  BY <1>4, AbortRetains, GotoRetains DEF AddEntry
<1>5. CASE FreeName(r)
  BY <1>5, ReturnRetains, GotoRetains DEF FreeName
<1>6. CASE WriteMetadata(r) \/ WriteAsset(r) \/ WriteText(r)
  <2>1. ASSUME NEW row, UpdateRow(r, row) PROVE Return(r) \/ Goto(r, libreq[r].back)
    BY <2>1 DEF UpdateRow
  <2> QED BY <1>6, <2>1, ReturnRetains, GotoRetains DEF WriteMetadata, WriteAsset, WriteText
<1>7. CASE \/ CreateText(r) \/ ImportFile(r) \/ CopyName(r)
  BY <1>7, ReturnRetains, GotoRetains DEF CreateText, ImportFile, CopyName, CheckName
<1>8. CASE \/ IndexTargets(r) \/ GetForDelete(r) \/ MarkDeleted(r) \/ CreateTag(r) \/ UpdateTag(r)
           \/ FreeTagName(r) \/ RenameTag(r) \/ DeleteTag(r) \/ CountUses(r) \/ RemoveTag(r)
           \/ GetForTag(r) \/ TagScope(r) \/ SeeEntry(r) \/ RemoveEntry(r)
  BY <1>8, ReturnRetains, GotoRetains
     DEF IndexTargets, GetForDelete, MarkDeleted, CreateTag, UpdateTag, FreeTagName, RenameTag,
         DeleteTag, CountUses, RemoveTag, GetForTag, TagScope, SeeEntry, RemoveEntry
<1>9. CASE \/ CreateCollection(r) \/ InsertCollection(r) \/ UpdateCollection(r) \/ RenameCollection(r)
           \/ DeleteCollection(r) \/ RemoveTree(r) \/ MoveAsset(r) \/ ReadContent(r) \/ ListTags(r)
           \/ Copied(r)
  BY <1>9, ReturnRetains, GotoRetains
     DEF CreateCollection, InsertCollection, UpdateCollection, RenameCollection,
         DeleteCollection, RemoveTree, MoveAsset, ReadContent, ListTags, Copied
<1> QED BY <1>1, <1>2, <1>3, <1>4, <1>5, <1>6, <1>7, <1>8, <1>9 DEF Step

\* The places of a move, told apart.
LEMMA AtPlace ==
  ASSUME NEW q, NEW A, NEW T, NEW E
  PROVE  /\ Carries(q, "move_asset", A, T, E) /\ Carries(q, "copy_asset", A, T, E)
         /\ \A pc \in Reading :
              Carries(q, pc, A, T, E) <=> q.asset \in LiveIn(A) /\ q.name = A[q.asset].name
         /\ \A pc \in {"list_asset_tags", "sourceTags"} : Carries(q, pc, A, T, E) <=> Copies(q, A)
         /\ Carries(q, "targetTags", A, T, E) <=> Copies(q, A) /\ NamesIn(q.asset, T, E) \subseteq q.todo
         /\ \A pc \in Tagging : Carries(q, pc, A, T, E) <=>
              /\ Copies(q, A) /\ Found(q, T)
              /\ NamesIn(q.asset, T, E) \subseteq q.todo \cup NamesIn(q.target, T, E)
         /\ \A pc \in Attaching : Carries(q, pc, A, T, E) <=>
              /\ Copies(q, A) /\ Found(q, T) /\ q.tag \in There(T)
              /\ NamesIn(q.asset, T, E) \subseteq q.todo \cup {T[q.tag].name} \cup NamesIn(q.target, T, E)
         /\ \A pc \in Ending : Carries(q, pc, A, T, E) <=>
              Copies(q, A) /\ NamesIn(q.asset, T, E) \subseteq NamesIn(q.target, T, E)
BY DEF Carries, Reading, Listing, Tagging, Attaching, Ending

LEMMA CarriesSame ==
  ASSUME NEW q, NEW z, NEW pc, NEW A, NEW T, NEW E, SameGoods(q, z), Carries(q, pc, A, T, E)
  PROVE  Carries(z, pc, A, T, E)
BY DEF SameGoods, Carries, Copies, Found

LEMMA GotoArrives ==
  ASSUME Stored, NEW r \in Requests, NEW pc, Moves(libreq[r]), Goto(r, pc), UNCHANGED library,
         OnWay(libreq[r], pc),
         Carries(libreq[r], libreq[r].pc, assets, tags, entries) => Carries(libreq[r], pc, assets, tags, entries)
  PROVE  Arrives(r)
<1> DEFINE q == libreq[r]
           z == [q EXCEPT !.pc = pc]
<1>1. z.pc = pc /\ z.back = q.back /\ SameGoods(q, z) /\ Takes(r, z)
  BY Known, PlaceSame DEF Goto, Takes
<1> HIDE DEF z
<1>2. OnWay(z, pc)
  BY <1>1 DEF OnWay
<1>3. Carries(q, pc, assets, tags, entries) => Carries(z, pc, assets, tags, entries)
  BY <1>1, CarriesSame
<1>4. UNCHANGED <<assets, tags, entries>>
  BY DEF library
<1> QED BY <1>1, <1>2, <1>3, <1>4, TakesArrives

LEMMA EndArrives ==
  ASSUME Stored, NEW r \in Requests, Moves(libreq[r]), Return(r) \/ Abort(r)
  PROVE  Arrives(r)
<1>1. CASE Return(r)
  <2> DEFINE z == [libreq[r] EXCEPT !.pc = "done"]
  <2>1. Takes(r, z) /\ z.pc = "done"
    BY <1>1, Known, PlaceSame DEF Return, Goto, Takes
  <2> HIDE DEF z
  <2> QED BY <2>1, TakesArrives
<1>2. CASE Abort(r)
  <2>1. Takes(r, Returned) /\ Returned.pc = "done"
    BY <1>2 DEF Takes, Returned, Blank
  <2> QED BY <2>1, TakesArrives
<1> QED BY <1>1, <1>2

\* Steps of a move that only see something, and go on or return.
Onwards ==
  {<<"move_asset", "copy_asset">>, <<"readContent", "copyName">>, <<"copyName", "insertCopy">>,
   <<"list_asset_tags", "sourceTags">>, <<"create_tag", "insertTag">>, <<"attach_asset_tag", "tagScope">>,
   <<"tagScope", "seeEntry">>, <<"seeEntry", "addEntry">>, <<"copied", "delete_asset">>,
   <<"delete_asset", "markDeleted">>}
LEMMA OnwardsArrive ==
  ASSUME Stored, NEW r \in Requests, NEW pc, Moves(libreq[r]), OnWay(libreq[r], libreq[r].pc),
         UNCHANGED library, <<libreq[r].pc, pc>> \in Onwards, Goto(r, pc) \/ Return(r)
  PROVE  Arrives(r)
<1> DEFINE q == libreq[r]
<1>1. OnWay(q, pc)
  BY DEF OnWay, Onwards, MovePlaces, Reading, Listing, Tagging, Attaching, Ending
<1>2. Carries(q, q.pc, assets, tags, entries) => Carries(q, pc, assets, tags, entries)
  BY DEF Onwards, Carries, Reading, Listing, Tagging, Attaching, Ending
<1> QED BY <1>1, <1>2, GotoArrives, EndArrives

LEMMA SeesArrive ==
  ASSUME Stored, NEW r \in Requests, Moves(libreq[r]), OnWay(libreq[r], libreq[r].pc),
         \/ MoveAsset(r) \/ ReadContent(r) \/ CopyName(r) \/ ListTags(r) \/ CreateTag(r)
         \/ GetForTag(r) \/ TagScope(r) \/ Copied(r) \/ GetForDelete(r)
  PROVE  Arrives(r)
<1>1. /\ UNCHANGED library
      /\ \E pc : <<libreq[r].pc, pc>> \in Onwards /\ (Goto(r, pc) \/ Return(r))
  <2>1. CASE MoveAsset(r) \/ ReadContent(r) \/ CopyName(r)
    BY <2>1 DEF MoveAsset, ReadContent, CopyName, CheckName, At, Onwards
  <2>2. CASE ListTags(r) \/ CreateTag(r) \/ GetForTag(r)
    BY <2>2 DEF ListTags, CreateTag, GetForTag, At, Onwards
  <2>3. CASE TagScope(r) \/ Copied(r) \/ GetForDelete(r)
    BY <2>3 DEF TagScope, Copied, GetForDelete, At, Onwards, Moves
  <2> QED BY <2>1, <2>2, <2>3
<1> QED BY <1>1, OnwardsArrive

LEMMA GetSourceArrives ==
  ASSUME Stored, NEW r \in Requests, Moves(libreq[r]), GetSource(r)
  PROVE  Arrives(r)
<1> DEFINE q == libreq[r]
           a == assets[q.asset]
           z == [q EXCEPT !.pc = "readContent", !.name = a.name, !.text = a.text, !.episode = a.episode]
<1>1. UNCHANGED <<assets, tags, entries>> /\ IF q.asset \in Live THEN Set(r, z) ELSE Return(r)
  BY DEF GetSource, library
<1>2. z.pc = "readContent" /\ z.asset = q.asset /\ z.name = a.name
  BY Known, BlankShaped DEF Shaped
<1> HIDE DEF z
<1>3. CASE q.asset \in Live /\ Set(r, z)
  <2>1. OnWay(z, z.pc) /\ z.pc \in Reading
    BY <1>2 DEF OnWay, MovePlaces, Reading, Tagging, Attaching
  <2>2. Carries(z, z.pc, assets', tags', entries')
    BY <1>1, <1>2, <1>3, <2>1, InTables, AtPlace
  <2> QED BY <1>3, <2>1, <2>2, TakesArrives DEF Takes
<1> QED BY <1>1, <1>3, EndArrives

LEMMA InsertCopyArrives ==
  ASSUME Stored, NEW r \in Requests, Moves(libreq[r]), InsertCopy(r)
  PROVE  Arrives(r)
<1> DEFINE q == libreq[r]
           row == [project |-> q.project, name |-> q.name, text |-> q.text,
                   episode |-> q.episode, live |-> TRUE]
           z(a) == [q EXCEPT !.pc = "list_asset_tags", !.target = a]
<1>1. q.pc = "insertCopy" /\ InsertAsset(r, "list_asset_tags")
  BY DEF InsertCopy, At, Moves
<1>2. \/ Return(r)
      \/ \E a \in AssetIds \ DOMAIN assets : assets' = WithRow(assets, a, row) /\ Set(r, z(a))
  BY <1>1 DEF InsertAsset
<1>3. ASSUME NEW a \in AssetIds \ DOMAIN assets, assets' = WithRow(assets, a, row), Set(r, z(a))
      PROVE  Arrives(r)
  <2>1. /\ z(a).pc = "list_asset_tags" /\ z(a).asset = q.asset /\ z(a).target = a
        /\ z(a).project = q.project
    BY Known, BlankShaped DEF Shaped
  <2>2. row.project = q.project /\ row.name = q.name /\ row.live
    OBVIOUS
  <2> HIDE DEF z, row
  <2>3. /\ DOMAIN assets' = DOMAIN assets \cup {a} /\ assets'[a] = row
        /\ \A x \in DOMAIN assets : assets'[x] = assets[x]
    BY <1>3 DEF WithRow
  <2>4. OnWay(z(a), z(a).pc)
    BY <2>1 DEF OnWay, MovePlaces, Listing, Tagging, Attaching
  <2>5. ASSUME Carries(q, q.pc, assets, tags, entries)
        PROVE  Carries(z(a), z(a).pc, assets', tags', entries')
    <3>1. q.asset \in LiveIn(assets) /\ q.name = assets[q.asset].name
      BY <1>1, <2>5, AtPlace DEF Reading
    <3>2. Copies(z(a), assets')
      BY <2>1, <2>2, <2>3, <3>1 DEF Copies, LiveIn
    <3> QED BY <2>1, <3>2, AtPlace
  <2> QED BY <1>3, <2>4, <2>5, TakesArrives DEF Takes
<1> QED BY <1>2, <1>3, EndArrives

LEMMA SourceTagsArrives ==
  ASSUME Stored, NEW r \in Requests, Moves(libreq[r]), SourceTags(r)
  PROVE  Arrives(r)
<1> DEFINE q == libreq[r]
           pc == IF TagsOf(q.asset) = {} THEN "copied" ELSE "targetTags"
           names == TagNamesOf(q.asset)
           z == [q EXCEPT !.pc = pc, !.todo = names]
<1>1. UNCHANGED <<assets, tags, entries>> /\ Set(r, z) /\ q.pc = "sourceTags"
  BY DEF SourceTags, library, At
<1>2. names = NamesIn(q.asset, tags, entries) /\ (pc = "copied" => names = {})
  BY InTables DEF TagNamesOf
<1>3. pc \in {"copied", "targetTags"}
  OBVIOUS
<1> HIDE DEF pc, names
<1>4. z.pc = pc /\ z.todo = names /\ z.asset = q.asset /\ z.target = q.target /\ z.project = q.project
  BY Known, BlankShaped DEF Shaped
<1> HIDE DEF z
<1>5. OnWay(z, z.pc)
  BY <1>3, <1>4 DEF OnWay, MovePlaces, Listing, Tagging, Attaching, Ending
<1>6. ASSUME Carries(q, q.pc, assets, tags, entries)
      PROVE  Carries(z, z.pc, assets', tags', entries')
  <2>1. Copies(q, assets)
    BY <1>1, <1>6, AtPlace
  <2>2. Copies(z, assets')
    BY <1>1, <1>4, <2>1 DEF Copies
  <2>3. "copied" \in Ending
    BY DEF Ending
  <2>4. z.asset = q.asset /\ UNCHANGED <<tags, entries>>
    BY <1>1, <1>4
  <2>5. CASE pc = "copied"
    <3>1. NamesIn(z.asset, tags', entries') = {}
      BY <1>2, <2>4, <2>5
    <3>2. NamesIn(z.asset, tags', entries') \subseteq NamesIn(z.target, tags', entries')
      BY <3>1
    <3>3. Carries(z, "copied", assets', tags', entries')
      BY <2>2, <2>3, <3>2, AtPlace
    <3> QED BY <1>4, <2>5, <3>3
  <2>6. CASE pc = "targetTags"
    <3>1. NamesIn(z.asset, tags', entries') = z.todo
      BY <1>2, <1>4, <2>4
    <3> QED BY <1>4, <2>2, <2>6, <3>1, AtPlace
  <2> QED BY <1>3, <2>5, <2>6
<1> QED BY <1>1, <1>5, <1>6, TakesArrives DEF Takes

LEMMA TargetTagsArrives ==
  ASSUME Stored, NEW r \in Requests, Moves(libreq[r]), TargetTags(r)
  PROVE  Arrives(r)
<1> DEFINE q == libreq[r]
           found == [n \in TagNames |->
                       IF TagsNamed(q.project, n) = {} THEN None
                       ELSE CHOOSE t \in TagsNamed(q.project, n) : TRUE]
           z == [q EXCEPT !.pc = "eachTag", !.back = "eachTag", !.found = found]
<1>1. UNCHANGED <<assets, tags, entries>> /\ Set(r, z) /\ q.pc = "targetTags"
  BY DEF TargetTags, library, At
<1>2. /\ DOMAIN found = TagNames
      /\ \A n \in TagNames : found[n] # None => found[n] \in There(tags) /\ tags[found[n]].name = n
  <2>1. DOMAIN found = TagNames
    OBVIOUS
  <2>2. ASSUME NEW n \in TagNames, TagsNamed(q.project, n) # {}
        PROVE  found[n] \in TagsNamed(q.project, n)
    BY <2>2
  <2>3. \A n \in TagNames : TagsNamed(q.project, n) = {} => found[n] = None
    OBVIOUS
  <2> HIDE DEF found
  <2>4. \A n : \A t \in TagsNamed(q.project, n) : t \in There(tags) /\ tags[t].name = n
    BY InTables DEF TagsNamed
  <2> QED BY <2>1, <2>2, <2>3, <2>4
<1> HIDE DEF found
<1>3. /\ z.pc = "eachTag" /\ z.back = "eachTag" /\ z.found = found /\ z.asset = q.asset
      /\ z.target = q.target /\ z.project = q.project /\ z.todo = q.todo
  BY Known, BlankShaped DEF Shaped
<1> HIDE DEF z
<1>4. OnWay(z, z.pc) /\ z.pc \in Tagging
  BY <1>3 DEF OnWay, MovePlaces, Tagging
<1>5. ASSUME Carries(q, q.pc, assets, tags, entries)
      PROVE  Carries(z, z.pc, assets', tags', entries')
  <2>1. Copies(q, assets) /\ NamesIn(q.asset, tags, entries) \subseteq q.todo
    BY <1>1, <1>5, AtPlace
  <2>2. Copies(z, assets') /\ Found(z, tags')
    BY <1>1, <1>2, <1>3, <2>1 DEF Copies, Found
  <2>3. NamesIn(z.asset, tags', entries') \subseteq z.todo
    BY <1>1, <1>3, <2>1
  <2> QED BY <1>4, <2>2, <2>3, AtPlace
<1> QED BY <1>1, <1>4, <1>5, TakesArrives DEF Takes

LEMMA EachTagArrives ==
  ASSUME Stored, NEW r \in Requests, Moves(libreq[r]), OnWay(libreq[r], libreq[r].pc), EachTag(r)
  PROVE  Arrives(r)
<1> DEFINE q == libreq[r]
           x(n) == [q EXCEPT !.pc = "create_tag", !.name = n]
           y(n) == [q EXCEPT !.pc = "attach_asset_tag", !.tag = q.found[n], !.todo = @ \ {n}]
<1>1. UNCHANGED library /\ UNCHANGED <<assets, tags, entries>> /\ q.pc = "eachTag"
  BY DEF EachTag, library, At
<1>2. q.pc \in Tagging /\ q.back = "eachTag"
  BY <1>1 DEF OnWay, Tagging
<1>3. CASE q.todo = {} /\ Goto(r, "copied")
  <2>1. OnWay(q, "copied") /\ "copied" \in Ending
    BY DEF OnWay, MovePlaces, Tagging, Attaching, Ending
  <2>2. Carries(q, q.pc, assets, tags, entries) => Carries(q, "copied", assets, tags, entries)
    <3> SUFFICES ASSUME Carries(q, q.pc, assets, tags, entries)
                 PROVE  Carries(q, "copied", assets, tags, entries)
      OBVIOUS
    <3>1. Copies(q, assets) /\ NamesIn(q.asset, tags, entries) \subseteq q.todo \cup NamesIn(q.target, tags, entries)
      BY <1>2, AtPlace
    <3> QED BY <1>3, <2>1, <3>1, AtPlace
  <2> QED BY <1>1, <1>3, <2>1, <2>2, GotoArrives
<1>4. ASSUME NEW n \in q.todo, Set(r, x(n))
      PROVE  Arrives(r)
  <2>1. /\ x(n).pc = "create_tag" /\ x(n).back = q.back /\ x(n).asset = q.asset /\ x(n).target = q.target
        /\ x(n).project = q.project /\ x(n).todo = q.todo /\ x(n).found = q.found
    BY Known, BlankShaped DEF Shaped
  <2> HIDE DEF x
  <2>2. OnWay(x(n), x(n).pc) /\ x(n).pc \in Tagging
    BY <1>2, <2>1 DEF OnWay, MovePlaces, Tagging
  <2>3. ASSUME Carries(q, q.pc, assets, tags, entries)
        PROVE  Carries(x(n), x(n).pc, assets', tags', entries')
    <3>1. Copies(q, assets) /\ Found(q, tags)
          /\ NamesIn(q.asset, tags, entries) \subseteq q.todo \cup NamesIn(q.target, tags, entries)
      BY <1>2, <2>3, AtPlace
    <3>2. Copies(x(n), assets') /\ Found(x(n), tags')
          /\ NamesIn(x(n).asset, tags', entries') \subseteq x(n).todo \cup NamesIn(x(n).target, tags', entries')
      BY <1>1, <2>1, <3>1 DEF Copies, Found
    <3> QED BY <2>2, <3>2, AtPlace
  <2> QED BY <1>4, <2>2, <2>3, TakesArrives DEF Takes
<1>5. ASSUME NEW n \in q.todo, q.found[n] # None, Set(r, y(n))
      PROVE  Arrives(r)
  <2>1. /\ y(n).pc = "attach_asset_tag" /\ y(n).back = q.back /\ y(n).asset = q.asset
        /\ y(n).target = q.target /\ y(n).project = q.project /\ y(n).todo = q.todo \ {n}
        /\ y(n).found = q.found /\ y(n).tag = q.found[n]
    BY Known, BlankShaped DEF Shaped
  <2> HIDE DEF y
  <2>2. OnWay(y(n), y(n).pc) /\ y(n).pc \in Attaching
    BY <1>2, <2>1 DEF OnWay, MovePlaces, Attaching
  <2>3. ASSUME Carries(q, q.pc, assets, tags, entries)
        PROVE  Carries(y(n), y(n).pc, assets', tags', entries')
    <3>1. Copies(q, assets) /\ Found(q, tags)
          /\ NamesIn(q.asset, tags, entries) \subseteq q.todo \cup NamesIn(q.target, tags, entries)
      BY <1>2, <2>3, AtPlace
    <3>2. n \in TagNames
      BY Known DEF Shaped
    <3>3. q.found[n] \in There(tags) /\ tags[q.found[n]].name = n
      BY <1>5, <3>1, <3>2 DEF Found
    <3>4. Copies(y(n), assets') /\ Found(y(n), tags') /\ y(n).tag \in There(tags')
      BY <1>1, <2>1, <3>1, <3>3 DEF Copies, Found
    <3>5. NamesIn(y(n).asset, tags', entries')
            \subseteq y(n).todo \cup {tags'[y(n).tag].name} \cup NamesIn(y(n).target, tags', entries')
      BY <1>1, <2>1, <3>1, <3>3
    <3> QED BY <2>2, <3>4, <3>5, AtPlace
  <2> QED BY <1>5, <2>2, <2>3, TakesArrives DEF Takes
<1> QED BY <1>3, <1>4, <1>5 DEF EachTag

LEMMA InsertTagArrives ==
  ASSUME Stored, IdsAssumption, NEW r \in Requests, Moves(libreq[r]), OnWay(libreq[r], libreq[r].pc),
         InsertTag(r)
  PROVE  Arrives(r)
<1> DEFINE q == libreq[r]
           row == [project |-> q.project, name |-> q.name, there |-> TRUE]
           z(t) == [q EXCEPT !.pc = q.back, !.tag = t, !.found[q.name] = t,
                             !.back = IF q.op = "upload" THEN "done" ELSE @]
<1>1. q.pc = "insertTag" /\ q.pc \in Tagging /\ q.back = "eachTag" /\ q.op = "move"
  BY DEF InsertTag, At, OnWay, Tagging, Moves
<1>2. \/ Return(r)
      \/ \E t \in TagIds \ DOMAIN tags :
           tags' = WithRow(tags, t, row) /\ Set(r, z(t)) /\ UNCHANGED <<assets, entries>>
  BY DEF InsertTag, NewTag
<1>3. ASSUME NEW t \in TagIds \ DOMAIN tags, tags' = WithRow(tags, t, row), Set(r, z(t)),
             UNCHANGED <<assets, entries>>
      PROVE  Arrives(r)
  <2>1. /\ z(t).pc = "eachTag" /\ z(t).back = "eachTag" /\ z(t).asset = q.asset
        /\ z(t).target = q.target /\ z(t).project = q.project /\ z(t).todo = q.todo
        /\ z(t).found = [q.found EXCEPT ![q.name] = t]
    BY <1>1, Known, BlankShaped DEF Shaped
  <2>2. row.name = q.name /\ row.there = TRUE
    OBVIOUS
  <2> HIDE DEF z, row
  <2>3. /\ DOMAIN tags' = DOMAIN tags \cup {t} /\ tags'[t] = row
        /\ \A u \in DOMAIN tags : tags'[u] = tags[u]
    BY <1>3 DEF WithRow
  <2>4. There(tags') = There(tags) \cup {t}
    BY <2>2, <2>3 DEF There
  <2>5. \A x : <<x, t>> \notin entries
    BY <1>3, Tables, StoredTables DEF EntriesGood, Refers, TagRows, CollRows, IdsAssumption, CollsGood
  <2>6. \A x : NamesIn(x, tags', entries') = NamesIn(x, tags, entries)
    <3> TAKE x
    <3>1. {u \in There(tags') : <<x, u>> \in entries'} = {u \in There(tags) : <<x, u>> \in entries}
      BY <1>3, <2>4, <2>5
    <3>2. \A u \in There(tags) : tags'[u].name = tags[u].name
      BY <2>3 DEF There
    <3> QED BY <3>1, <3>2 DEF NamesIn
  <2>7. OnWay(z(t), z(t).pc) /\ z(t).pc \in Tagging
    BY <2>1 DEF OnWay, MovePlaces, Tagging
  <2>8. ASSUME Carries(q, q.pc, assets, tags, entries)
        PROVE  Carries(z(t), z(t).pc, assets', tags', entries')
    <3>1. Copies(q, assets) /\ Found(q, tags)
          /\ NamesIn(q.asset, tags, entries) \subseteq q.todo \cup NamesIn(q.target, tags, entries)
      BY <1>1, <2>8, AtPlace
    <3>2. Copies(z(t), assets')
      BY <1>3, <2>1, <3>1 DEF Copies
    <3>3. Found(z(t), tags')
      BY <2>1, <2>2, <2>3, <2>4, <3>1 DEF Found, There
    <3>4. NamesIn(z(t).asset, tags', entries') \subseteq z(t).todo \cup NamesIn(z(t).target, tags', entries')
      BY <2>1, <2>6, <3>1
    <3> QED BY <2>7, <3>2, <3>3, <3>4, AtPlace
  <2> QED BY <1>3, <2>7, <2>8, TakesArrives DEF Takes
<1> QED BY <1>2, <1>3, EndArrives

LEMMA SeeEntryArrives ==
  ASSUME Stored, NEW r \in Requests, Moves(libreq[r]), OnWay(libreq[r], libreq[r].pc), SeeEntry(r)
  PROVE  Arrives(r)
<1> DEFINE q == libreq[r]
<1>1. UNCHANGED library /\ q.pc = "seeEntry" /\ q.back = "eachTag"
  BY DEF SeeEntry, At, OnWay, Attaching
<1>2. CASE <<q.target, q.tag>> \notin entries
  BY <1>1, <1>2, OnwardsArrive DEF SeeEntry, Onwards
<1>3. CASE <<q.target, q.tag>> \in entries
  <2>1. Goto(r, "eachTag") /\ OnWay(q, "eachTag")
    BY <1>1, <1>3 DEF SeeEntry, OnWay, MovePlaces, Tagging
  <2>2. ASSUME Carries(q, q.pc, assets, tags, entries)
        PROVE  Carries(q, "eachTag", assets, tags, entries)
    <3>1. /\ Copies(q, assets) /\ Found(q, tags) /\ q.tag \in There(tags)
          /\ NamesIn(q.asset, tags, entries)
               \subseteq q.todo \cup {tags[q.tag].name} \cup NamesIn(q.target, tags, entries)
      BY <1>1, <2>2, AtPlace DEF Attaching
    <3>2. tags[q.tag].name \in NamesIn(q.target, tags, entries)
      BY <1>3, <3>1 DEF NamesIn
    <3> QED BY <3>1, <3>2, AtPlace DEF Tagging
  <2> QED BY <1>1, <2>1, <2>2, GotoArrives
<1> QED BY <1>2, <1>3

LEMMA AddEntryArrives ==
  ASSUME Stored, NEW r \in Requests, Moves(libreq[r]), OnWay(libreq[r], libreq[r].pc), AddEntry(r)
  PROVE  Arrives(r)
<1> DEFINE q == libreq[r]
           z == [q EXCEPT !.pc = "eachTag"]
<1>1. UNCHANGED <<assets, tags>> /\ q.pc = "addEntry" /\ q.back = "eachTag"
  BY DEF AddEntry, At, OnWay, Attaching
<1>2. CASE q.tag \notin TagRows
  BY <1>2, EndArrives DEF AddEntry
<1>3. CASE entries' = entries \cup {<<q.target, q.tag>>} /\ Set(r, z)
  <2>1. z.pc = "eachTag" /\ z.back = q.back /\ SameGoods(q, z)
    BY Known, PlaceSame
  <2> HIDE DEF z
  <2>2. OnWay(z, z.pc) /\ z.pc \in Tagging
    BY <1>1, <2>1 DEF OnWay, MovePlaces, Tagging
  <2>3. ASSUME Carries(q, q.pc, assets, tags, entries)
        PROVE  Carries(z, z.pc, assets', tags', entries')
    <3>1. /\ Copies(q, assets) /\ Found(q, tags) /\ q.tag \in There(tags)
          /\ NamesIn(q.asset, tags, entries)
               \subseteq q.todo \cup {tags[q.tag].name} \cup NamesIn(q.target, tags, entries)
      BY <1>1, <2>3, AtPlace DEF Attaching
    <3>2. q.target # q.asset
      BY <3>1 DEF Copies
    <3>3. /\ NamesIn(q.asset, tags, entries') = NamesIn(q.asset, tags, entries)
          /\ NamesIn(q.target, tags, entries) \subseteq NamesIn(q.target, tags, entries')
      BY <1>3, <3>2 DEF NamesIn
    <3>4. tags[q.tag].name \in NamesIn(q.target, tags, entries')
      BY <1>3, <3>1 DEF NamesIn
    <3>5. Copies(z, assets') /\ Found(z, tags')
      BY <1>1, <2>1, <3>1 DEF Copies, Found, SameGoods
    <3>6. NamesIn(z.asset, tags', entries') \subseteq z.todo \cup NamesIn(z.target, tags', entries')
      BY <1>1, <2>1, <3>1, <3>3, <3>4 DEF SameGoods
    <3> QED BY <2>2, <3>5, <3>6, AtPlace
  <2> QED BY <1>3, <2>2, <2>3, TakesArrives DEF Takes
<1> QED BY <1>1, <1>2, <1>3 DEF AddEntry, Goto

\* A move with its tags is always at one of its places, and takes its steps.
LEMMA MoveArrives ==
  ASSUME Stored, IdsAssumption, NEW r \in Requests, Moves(libreq[r]), OnWay(libreq[r], libreq[r].pc),
         Step(r)
  PROVE  Arrives(r)
<1>1. CASE \/ MoveAsset(r) \/ ReadContent(r) \/ CopyName(r) \/ ListTags(r) \/ CreateTag(r)
           \/ GetForTag(r) \/ TagScope(r) \/ Copied(r) \/ GetForDelete(r)
  BY <1>1, SeesArrive
<1>2. CASE MarkDeleted(r)
  BY <1>2, EndArrives DEF MarkDeleted
<1>3. CASE \/ GetSource(r) \/ InsertCopy(r) \/ SourceTags(r) \/ TargetTags(r) \/ EachTag(r)
           \/ InsertTag(r) \/ SeeEntry(r) \/ AddEntry(r)
  BY <1>3, GetSourceArrives, InsertCopyArrives, SourceTagsArrives, TargetTagsArrives, EachTagArrives,
     InsertTagArrives, SeeEntryArrives, AddEntryArrives
<1>4. libreq[r].pc \in MovePlaces
  BY DEF OnWay
<1>5. \/ MoveAsset(r) \/ ReadContent(r) \/ CopyName(r) \/ ListTags(r) \/ CreateTag(r)
      \/ GetForTag(r) \/ TagScope(r) \/ Copied(r) \/ GetForDelete(r) \/ MarkDeleted(r)
      \/ GetSource(r) \/ InsertCopy(r) \/ SourceTags(r) \/ TargetTags(r) \/ EachTag(r)
      \/ InsertTag(r) \/ SeeEntry(r) \/ AddEntry(r)
  <2>1. ~ (\/ CreateText(r) \/ InsertText(r) \/ ImportFile(r) \/ IndexTargets(r) \/ InsertFile(r)
           \/ UpdateMetadata(r) \/ UpdateAsset(r) \/ UpdateText(r) \/ FreeName(r)
           \/ WriteMetadata(r) \/ WriteAsset(r) \/ WriteText(r))
    BY <1>4 DEF MovePlaces, Reading, Listing, Tagging, Attaching, Ending, At, CreateText, InsertText,
         ImportFile, IndexTargets, InsertFile, UpdateMetadata, UpdateAsset, UpdateText, FreeName,
         WriteMetadata, WriteAsset, WriteText
  <2>2. ~ (\/ UpdateTag(r) \/ FreeTagName(r) \/ RenameTag(r) \/ DeleteTag(r) \/ CountUses(r)
           \/ RemoveTag(r) \/ RemoveEntry(r) \/ CompleteMetadata(r) \/ TypeTag(r))
    BY <1>4 DEF MovePlaces, Reading, Listing, Tagging, Attaching, Ending, At, UpdateTag, FreeTagName,
         RenameTag, DeleteTag, CountUses, RemoveTag, RemoveEntry, CompleteMetadata, TypeTag
  <2>3. ~ (\/ CreateCollection(r) \/ InsertCollection(r) \/ UpdateCollection(r) \/ RenameCollection(r)
           \/ DeleteCollection(r) \/ ReadTree(r) \/ RemoveTree(r))
    BY <1>4 DEF MovePlaces, Reading, Listing, Tagging, Attaching, Ending, At, CreateCollection,
         InsertCollection, UpdateCollection, RenameCollection, DeleteCollection, ReadTree, RemoveTree
  <2> QED BY <2>1, <2>2, <2>3 DEF Step
<1> QED BY <1>1, <1>2, <1>3, <1>5

LEMMA UnderwayStep ==
  ASSUME Underway, IdsAssumption, NEW r \in Requests, Step(r)
  PROVE  Underway'
<1>1. Stored /\ Stored' /\ ~Idle(r) /\ Retains(r)
  BY StepKeeps, StepRetains DEF Underway
<1>2. \A o \in Requests : Idle(o) <=> libreq[o].pc \in Resting
  BY DEF Idle, Resting
<1>3. \A o \in Requests : Idle(o)' <=> libreq'[o].pc \in Resting
  BY DEF Idle, Resting
<1>4. \A o \in Requests \ {r} : libreq'[o] = libreq[o]
  BY <1>1 DEF Retains
<1>5. libreq'[r].pc \in Resting \/ SameCall(libreq[r], libreq'[r])
  BY <1>1 DEF Retains, Resting
<1>6. ByThemselves'
  <2> SUFFICES ASSUME NEW s \in Requests, NEW o \in Requests, libreq'[s].alone, ~Idle(s)', o # s
               PROVE  Idle(o)'
    BY DEF ByThemselves
  <2>1. libreq[s].alone /\ ~Idle(s)
    BY <1>1, <1>2, <1>3, <1>4, <1>5 DEF SameCall
  <2>2. Idle(o)
    BY <2>1 DEF Underway, ByThemselves
  <2> QED BY <1>1, <1>2, <1>3, <1>4, <2>2
<1>7. ASSUME NEW o \in Requests
      PROVE  Travels(libreq'[o], assets', tags', entries')
  <2>1. CASE o # r
    <3>1. libreq'[o] = libreq[o] /\ Travels(libreq[o], assets, tags, entries)
      BY <1>4, <2>1 DEF Underway
    <3>2. Moves(libreq[o]) => ~libreq[o].alone
      BY <1>1, <1>2, <2>1 DEF Underway, ByThemselves, Moves
    <3> QED BY <3>1, <3>2 DEF Travels
  <2>2. CASE o = r /\ Moves(libreq'[r])
    <3>1. SameCall(libreq[r], libreq'[r]) /\ Moves(libreq[r])
      BY <1>1, <1>2, <1>5, <2>2 DEF SameCall, Moves
    <3>2. OnWay(libreq[r], libreq[r].pc)
          /\ (libreq[r].alone => Carries(libreq[r], libreq[r].pc, assets, tags, entries))
      BY <3>1 DEF Underway, Travels
    <3>3. Arrives(r)
      BY <1>1, <3>1, <3>2, MoveArrives
    <3>4. libreq'[r].pc # "done"
      BY <2>2 DEF Moves, Resting
    <3> QED BY <2>2, <3>1, <3>2, <3>3, <3>4 DEF Arrives, Travels, SameCall
  <2>3. CASE o = r /\ ~Moves(libreq'[r])
    BY <2>3 DEF Travels
  <2> QED BY <2>1, <2>2, <2>3
<1> QED BY <1>1, <1>6, <1>7 DEF Underway

LEMMA UnderwayCall ==
  ASSUME Underway, CallsAssumption, MovesAssumption, NEW r \in Requests, Call(r)
  PROVE  Underway'
<1>1. Stored /\ Stored' /\ UNCHANGED library
  BY CallKeeps DEF Underway, Call
<1>2. PICK q \in Calls :
        libreq' = [s \in Requests |->
                  IF s = r THEN [q EXCEPT !.alone = \A o \in Requests \ {r} : Idle(o)]
                  ELSE [libreq[s] EXCEPT !.alone = @ /\ Idle(s)]]
  BY DEF Call
<1>3. ASSUME NEW z, NEW b, Shaped(z)
      PROVE  LET y == [z EXCEPT !.alone = b] IN
             y.alone = b /\ y.pc = z.pc /\ y.op = z.op /\ y.tags = z.tags /\ y.back = z.back
  BY <1>3, BlankShaped DEF Shaped
<1>4. /\ libreq'[r].alone = (\A o \in Requests \ {r} : Idle(o))
      /\ libreq'[r].pc = q.pc /\ libreq'[r].op = q.op
  <2> DEFINE b == \A o \in Requests \ {r} : Idle(o)
  <2>1. libreq'[r] = [q EXCEPT !.alone = b] /\ Shaped(q)
    BY <1>2 DEF CallsAssumption, Recalls
  <2> HIDE DEF b
  <2>2. libreq'[r].alone = b /\ libreq'[r].pc = q.pc /\ libreq'[r].op = q.op
    BY <1>3, <2>1
  <2> QED BY <2>2 DEF b
<1>5. ASSUME NEW s \in Requests \ {r}
      PROVE  /\ libreq'[s].alone = (libreq[s].alone /\ Idle(s)) /\ libreq'[s].pc = libreq[s].pc
             /\ libreq'[s].op = libreq[s].op /\ libreq'[s].tags = libreq[s].tags
             /\ libreq'[s].back = libreq[s].back
  <2>1. libreq'[s] = [libreq[s] EXCEPT !.alone = (libreq[s].alone /\ Idle(s))]
    BY <1>2
  <2>2. Shaped(libreq[s])
    BY <1>1, Known
  <2> QED BY <1>3, <2>1, <2>2
<1>6. /\ \A o \in Requests : Idle(o) <=> libreq[o].pc \in Resting
      /\ \A o \in Requests : Idle(o)' <=> libreq'[o].pc \in Resting
  BY DEF Idle, Resting
<1>7. ByThemselves'
  <2> SUFFICES ASSUME NEW s \in Requests, NEW o \in Requests, libreq'[s].alone, ~Idle(s)', o # s
               PROVE  Idle(o)'
    BY DEF ByThemselves
  <2>1. s = r
    BY <1>5, <1>6
  <2>2. Idle(o)
    BY <1>4, <2>1
  <2> QED BY <1>5, <1>6, <2>1, <2>2
<1>8. ASSUME NEW s \in Requests
      PROVE  Travels(libreq'[s], assets', tags', entries')
  <2>1. CASE s = r
    <3>1. Moves(libreq'[r]) => libreq'[r].pc = "move_asset"
      BY <1>4 DEF Moves, MovesAssumption
    <3>2. \A x, A, T, E : OnWay(x, "move_asset") /\ Carries(x, "move_asset", A, T, E)
      BY DEF OnWay, Carries, MovePlaces, Reading, Listing, Tagging, Attaching, Ending
    <3> QED BY <2>1, <3>1, <3>2 DEF Travels
  <2>2. CASE s # r /\ Moves(libreq'[s])
    <3>1. Moves(libreq[s]) /\ ~Idle(s)
      BY <1>5, <1>6, <2>2 DEF Moves
    <3>2. OnWay(libreq[s], libreq[s].pc)
      BY <3>1 DEF Underway, Travels
    <3>3. OnWay(libreq'[s], libreq'[s].pc)
      BY <1>5, <2>2, <3>2 DEF OnWay
    <3>4. ~libreq'[s].alone
      BY <1>5, <2>2, <3>1
    <3> QED BY <3>3, <3>4 DEF Travels
  <2>3. CASE s # r /\ ~Moves(libreq'[s])
    BY <2>3 DEF Travels
  <2> QED BY <2>1, <2>2, <2>3
<1> QED BY <1>1, <1>7, <1>8 DEF Underway

LEMMA UnderwayRests ==
  ASSUME Underway, UNCHANGED libraryVars
  PROVE  Underway'
<1>1. UNCHANGED <<assets, tags, colls, entries, libreq>>
  BY DEF libraryVars, library
<1>2. Stored'
  BY <1>1 DEF Underway, Stored, LibraryTypeOK, NamesApart, ReferencesInScope, Live, TagRows, CollRows
<1>3. ByThemselves'
  BY <1>1 DEF Underway, ByThemselves, Idle
<1> QED BY <1>1, <1>2, <1>3 DEF Underway

LEMMA UnderwayInit ==
  ASSUME LibraryInit, StartInOrder
  PROVE  Underway
<1>1. \A r \in Requests : libreq[r].pc = "idle"
  BY DEF LibraryInit, Blank
<1>2. ByThemselves
  BY <1>1 DEF ByThemselves, Idle
<1>3. \A r \in Requests : Travels(libreq[r], assets, tags, entries)
  BY <1>1 DEF Travels, Moves, Resting
<1> QED BY <1>2, <1>3, StoredInit DEF Underway

\* The move that marks its source as deleted has carried everything over.
LEMMA UnderwayMoves == ASSUME Underway PROVE TagsMove
<1> SUFFICES ASSUME NEW r \in Requests, libreq[r].op = "move", libreq[r].alone, libreq[r].tags,
                    libreq[r].pc = "markDeleted"
             PROVE  LET q == libreq[r] IN
                    /\ q.target \in Live /\ q.target # q.asset
                    /\ assets[q.target].project = q.project
                    /\ assets[q.target].name = assets[q.asset].name
                    /\ TagNamesOf(q.asset) \subseteq TagNamesOf(q.target)
  BY DEF TagsMove
<1>1. Carries(libreq[r], "markDeleted", assets, tags, entries)
  BY DEF Underway, Travels, Moves, Resting
<1>2. /\ Copies(libreq[r], assets)
      /\ NamesIn(libreq[r].asset, tags, entries) \subseteq NamesIn(libreq[r].target, tags, entries)
  BY <1>1, AtPlace DEF Ending
<1> QED BY <1>2, InTables DEF Copies

\* A move that nothing overlaps never deletes its source before a live asset of the
\* target project has its name and each of its tags.
THEOREM TagsAlwaysMove ==
  ASSUME CallsAssumption, IdsAssumption, MovesAssumption
  PROVE  StartInOrder /\ LibrarySpec => [][TagsMove]_libraryVars
<1>1. StartInOrder /\ LibraryInit => Underway
  BY UnderwayInit
<1>2. Underway /\ [LibraryNext]_libraryVars => Underway'
  BY UnderwayStep, UnderwayCall, UnderwayRests DEF LibraryNext
<1>3. Underway => TagsMove
  BY UnderwayMoves
<1> QED BY <1>1, <1>2, <1>3, PTL DEF LibrarySpec
=============================================================================
