------------------------------ MODULE Migrations ------------------------------
(***************************************************************************)
(* migrate, which runs at every start before the services are built.  An   *)
(* old database has a scope "global" beside the projects; migrate moves    *)
(* what is in it into the global project, renames what clashes there and   *)
(* makes names unique, row by row in one transaction.  Ids grow in the     *)
(* order of creation; a name is a base and the suffixes that renames have  *)
(* put on it.                                                              *)
(***************************************************************************)
EXTENDS Naturals, Sequences, FiniteSets, ServiceNames

CONSTANTS Bases,       \* what names are made of
          DbScopes,      \* the projects, and "global"
          OldDatabases \* databases before the first migration

VARIABLES old,      \* the database before the first migration
          disk,     \* the database
          db,       \* and as the transaction sees it
          phase,    \* how far migrate is, or how it ended
          todo,     \* the global assets it has yet to compare
          reserved  \* the names of those it has compared
migrationVars == <<old, disk, db, phase, todo, reserved>>

Global == "global"
Running == {"scope", "names", "tagnames", "indexed"}

-----------------------------------------------------------------------------
(* The tables.                                                             *)

Name == [base : Bases, tail : Seq(Nat \X Nat)]
AssetRow == [scope : DbScopes, name : Name, live : BOOLEAN]
TagRow == [scope : DbScopes, name : Name]
Schema(d) ==
  /\ d = [assets |-> d.assets, tags |-> d.tags, entries |-> d.entries, indexed |-> d.indexed]
  /\ DOMAIN d.assets \subseteq Nat /\ IsFiniteSet(DOMAIN d.assets) /\ d.assets \in [DOMAIN d.assets -> AssetRow]
  /\ DOMAIN d.tags \subseteq Nat /\ IsFiniteSet(DOMAIN d.tags) /\ d.tags \in [DOMAIN d.tags -> TagRow]
  /\ d.entries \subseteq [asset : DOMAIN d.assets, tag : DOMAIN d.tags, scope : DbScopes]
  /\ d.indexed \subseteq {"assets", "tags"}
AssetsIn(d, scope) == {a \in DOMAIN d.assets : d.assets[a].live /\ d.assets[a].scope = scope}
Tags(d, scope) == {t \in DOMAIN d.tags : d.tags[t].scope = scope}

\* The unique indexes: of the names of live assets, and of those of tags.
Clash(rows, i, j) == rows[i].scope = rows[j].scope /\ rows[i].name = rows[j].name
AssetsUnique(d) ==
  \A a, b \in DOMAIN d.assets : d.assets[a].live /\ d.assets[b].live /\ Clash(d.assets, a, b) => a = b
TagsUnique(d) == \A t, u \in DOMAIN d.tags : Clash(d.tags, t, u) => t = u
Fits(d) == ("assets" \in d.indexed => AssetsUnique(d)) /\ ("tags" \in d.indexed => TagsUnique(d))

\* An entry is in the scope of its asset and its tag.
EntriesFit(d) ==
  \A e \in d.entries : e.scope = d.assets[e.asset].scope /\ e.scope = d.tags[e.tag].scope

-----------------------------------------------------------------------------
(* Names.                                                                  *)

\* _asset_name_exists, _asset_tag_name_exists
AssetNamesIn(scope) == {db.assets[a].name : a \in AssetsIn(db, scope)}
TagNamesIn(scope) == {db.tags[t].name : t \in Tags(db, scope)}
\* The name with the id behind it, and then a counter.
Candidate(name, id, n) == [base |-> name.base, tail |-> Append(name.tail, <<id, n>>)]
\* No global asset is called like another with that one's id behind its name.
OwnNames(d) ==
  \A a, b \in AssetsIn(d, Global) :
    LET given == d.assets[b].name IN
    a # b => \A k \in DOMAIN given.tail : given # Candidate(d.assets[a].name, a, given.tail[k][2])
ASSUME OldDatabasesAssumption ==
  /\ GlobalProject \in DbScopes \ {Global}
  /\ \A d \in OldDatabases : Schema(d) /\ Fits(d) /\ EntriesFit(d) /\ OwnNames(d)

\* The first candidate that is not among names.
FirstFree(names, name, id) ==
  LET free == {n \in 1..(Cardinality(names) + 1) : Candidate(name, id, n) \notin names}
  IN Candidate(name, id, CHOOSE n \in free : \A m \in free : n <= m)
DeduplicatedAssetName(scope, a) == FirstFree(AssetNamesIn(scope), db.assets[a].name, a)
DeduplicatedTagName(scope, t) == FirstFree(TagNamesIn(scope), db.tags[t].name, t)

-----------------------------------------------------------------------------
(* The transaction.                                                        *)

\* A statement that breaks an index raises, and nothing of the transaction stays.
Execute(d, next) ==
  /\ db' = IF Fits(d) THEN d ELSE disk
  /\ phase' = IF Fits(d) THEN next ELSE "raised"
WithName(rows, i, name) == [rows EXCEPT ![i].name = name]
SetAssetName(a, name) == Execute([db EXCEPT !.assets = WithName(db.assets, a, name)], phase)
SetTagName(t, name) == Execute([db EXCEPT !.tags = WithName(db.tags, t, name)], phase)

\* connect_db, at a start.
Migrate ==
  /\ phase \notin Running /\ phase' = "scope"
  /\ db' = disk /\ todo' = AssetsIn(disk, Global) /\ reserved' = {}
  /\ UNCHANGED <<old, disk>>

\* Mutant: only the global assets are compared with each other.
TakenAmongGlobal(a) == db.assets[a].name \in reserved
TakenByGlobal(a) == db.assets[a].name \in reserved \cup AssetNamesIn(GlobalProject)
\* _deduplicate_global_assets_for_project_scope, oldest first
DeduplicateGlobalAsset(a) ==
  /\ phase = "scope" /\ a \in todo /\ \A b \in todo : a <= b
  /\ \/ /\ TakenByGlobal(a)
        /\ SetAssetName(a, DeduplicatedAssetName(GlobalProject, a))
        /\ reserved' = reserved \cup {DeduplicatedAssetName(GlobalProject, a)}
     \/ ~TakenByGlobal(a) /\ reserved' = reserved \cup {db.assets[a].name} /\ UNCHANGED <<db, phase>>
  /\ todo' = todo \ {a}
  /\ UNCHANGED <<old, disk>>

\* Mutant: the entries of a merged tag are forgotten.
Forgotten(t, u) == {e \in db.entries : e.tag # t}
Repointed(t, u) == {IF e.tag = t THEN [e EXCEPT !.tag = u] ELSE e : e \in db.entries}
\* _merge_global_tags_into_global_project, oldest first
MergeGlobalTag(t) ==
  /\ phase = "scope" /\ todo = {}
  /\ t \in Tags(db, Global) /\ \A u \in Tags(db, Global) : t <= u
  /\ LET same == {u \in Tags(db, GlobalProject) : db.tags[u].name = db.tags[t].name} IN
     \/ /\ same = {}
        /\ Execute([db EXCEPT !.tags = [db.tags EXCEPT ![t].scope = GlobalProject]], phase)
     \/ \E u \in same : Execute([db EXCEPT !.tags = [v \in DOMAIN db.tags \ {t} |-> db.tags[v]],
                                           !.entries = Repointed(t, u)], phase)
  /\ UNCHANGED <<old, disk, todo, reserved>>

\* _normalize_global_asset_scope
ProjectOf(scope) == IF scope = Global THEN GlobalProject ELSE scope
NormalizeScope ==
  /\ phase = "scope" /\ todo = {} /\ Tags(db, Global) = {}
  /\ Execute([db EXCEPT
       !.assets = [a \in DOMAIN db.assets |-> [db.assets[a] EXCEPT !.scope = ProjectOf(db.assets[a].scope)]],
       !.entries = {[e EXCEPT !.scope = ProjectOf(e.scope)] : e \in db.entries}], "names")
  /\ UNCHANGED <<old, disk, todo, reserved>>

\* _ensure_unique_live_asset_names: the oldest of a group keeps its name.
OlderAssets(a) == {b \in AssetsIn(db, db.assets[a].scope) : b < a /\ db.assets[b].name = db.assets[a].name}
Renamed(a) == db.assets[a].live /\ OlderAssets(a) # {}
UniqueAssetName(a) ==
  /\ phase = "names" /\ Renamed(a)
  /\ SetAssetName(a, DeduplicatedAssetName(db.assets[a].scope, a))
  /\ UNCHANGED <<old, disk, todo, reserved>>
\* _ensure_live_asset_name_unique_index
IndexAssets ==
  /\ phase = "names" /\ \A a \in DOMAIN db.assets : ~Renamed(a)
  /\ Execute([db EXCEPT !.indexed = db.indexed \cup {"assets"}], "tagnames")
  /\ UNCHANGED <<old, disk, todo, reserved>>

\* Mutant: tags of other projects count as duplicates.
OlderAnywhere(t) == {u \in DOMAIN db.tags : u < t /\ db.tags[u].name = db.tags[t].name}
OlderTags(t) == {u \in Tags(db, db.tags[t].scope) : u < t /\ db.tags[u].name = db.tags[t].name}
\* _ensure_unique_asset_tag_names
UniqueTagName(t) ==
  /\ phase = "tagnames" /\ OlderTags(t) # {}
  /\ SetTagName(t, DeduplicatedTagName(db.tags[t].scope, t))
  /\ UNCHANGED <<old, disk, todo, reserved>>
\* _ensure_asset_tag_name_unique_index
IndexTags ==
  /\ phase = "tagnames" /\ \A t \in DOMAIN db.tags : OlderTags(t) = {}
  /\ Execute([db EXCEPT !.indexed = db.indexed \cup {"tags"}], "indexed")
  /\ UNCHANGED <<old, disk, todo, reserved>>

Commit ==
  /\ phase = "indexed" /\ phase' = "ok"
  /\ disk' = db
  /\ UNCHANGED <<old, db, todo, reserved>>
\* A process that dies leaves the database as it was.
Die ==
  /\ phase \in Running /\ phase' = "none"
  /\ db' = disk
  /\ UNCHANGED <<old, disk, todo, reserved>>

NotStarted == disk = old /\ db = old /\ phase = "none" /\ todo = {} /\ reserved = {}
MigrationInit == old \in OldDatabases /\ NotStarted
MigrationNext ==
  \/ Migrate \/ NormalizeScope \/ IndexAssets \/ IndexTags \/ Commit \/ Die
  \/ \E a \in DOMAIN db.assets : DeduplicateGlobalAsset(a) \/ UniqueAssetName(a)
  \/ \E t \in DOMAIN db.tags : MergeGlobalTag(t) \/ UniqueTagName(t)
MigrationSpec == MigrationInit /\ [][MigrationNext]_migrationVars

-----------------------------------------------------------------------------
(* Properties                                                              *)

\* No live asset and no tag shares its name within a project, now and later,
\* and the scope "global" is gone.
Upgraded(d) ==
  /\ AssetsUnique(d) /\ TagsUnique(d) /\ d.indexed = {"assets", "tags"}
  /\ \A a \in DOMAIN d.assets : d.assets[a].scope # Global
  /\ \A t \in DOMAIN d.tags : d.tags[t].scope # Global
\* A start never fails on an old database, and leaves it as it was or upgrades
\* it whole, also when the process dies.
MigrationWorks == phase # "raised" /\ (Upgraded(disk) \/ (disk = old /\ phase # "ok"))

TagBases(d, a) == {d.tags[e.tag].name.base : e \in {f \in d.entries : f.asset = a}}
\* No asset loses a tag, changes its project otherwise, or dies; and each entry
\* is in the scope of its asset and its tag again.
AllKept ==
  /\ DOMAIN disk.assets = DOMAIN old.assets
  /\ \A a \in DOMAIN disk.assets :
       /\ disk.assets[a].live = old.assets[a].live /\ disk.assets[a].scope = ProjectOf(old.assets[a].scope)
       /\ disk.assets[a].name.base = old.assets[a].name.base
       /\ TagBases(disk, a) = TagBases(old, a)
  /\ Schema(disk) /\ EntriesFit(disk)

\* A name is changed only where a row that comes to the same project had it.
Clashed(rows, i) ==
  \E j \in DOMAIN rows \ {i} : rows[j].name = rows[i].name /\ ProjectOf(rows[j].scope) = ProjectOf(rows[i].scope)
RenamesNeeded ==
  /\ \A a \in DOMAIN disk.assets : disk.assets[a].name # old.assets[a].name => Clashed(old.assets, a)
  /\ \A t \in DOMAIN disk.tags : disk.tags[t].name # old.tags[t].name => Clashed(old.tags, t)

\* The upgrade loses no tag of an asset and no asset, renames only what clashed,
\* and a start that finds an upgraded database changes nothing in it.
NothingLost == (disk = old \/ AllKept) /\ RenamesNeeded /\ (Upgraded(disk) => db = disk)
=============================================================================
