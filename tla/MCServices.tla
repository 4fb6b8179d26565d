----------------------------- MODULE MCServices -----------------------------
(***************************************************************************)
(* The services around the runtime, each on an instance of its own: a      *)
(* behaviour is one of the asset library, of its files, of accounts and    *)
(* templates, or of the migration of an old database; the others rest.     *)
(***************************************************************************)
EXTENDS FilesProofs, Platform, Migrations, TLC

CONSTANTS p1, p2, n1, n2, episodeTag, roleTag, a1, a2, a3, a4, t1, t2, t3, t4, t5, c1, c2, c3

VARIABLE part \* whose behaviour this is

MCProjects == {p1, p2}
MCAssetNames == {n1, n2}
MCTagNames == {episodeTag, roleTag}
MCAssetIds == {a1, a2, a3, a4}
MCTagIds == {t1, t2, t3, t4, t5}
MCCollIds == {c1, c2, c3}

MCStart ==
  [assets |-> (a1 :> [project |-> p1, name |-> n1, text |-> TRUE, episode |-> TRUE, live |-> TRUE])
           @@ (a2 :> [project |-> p2, name |-> n2, text |-> FALSE, episode |-> FALSE, live |-> TRUE]),
   tags |-> (t1 :> [project |-> p1, name |-> episodeTag, there |-> TRUE])
         @@ (t2 :> [project |-> p1, name |-> roleTag, there |-> TRUE]),
   colls |-> (c1 :> [project |-> p1, parent |-> None, title |-> "first", there |-> TRUE])
          @@ (c2 :> [project |-> p1, parent |-> c1, title |-> "first", there |-> TRUE]),
   entries |-> {<<a1, t1>>, <<a1, t2>>, <<a1, c2>>}]

Creates ==
  {PostText(p, n1, TRUE) : p \in MCProjects}
  \cup {PostFile(p1, n2, t, c) : t \in {t2, None}, c \in {c2, None}}
  \cup {PostIntelligentFile(p2, n1, TRUE)}
Updates ==
  UNION {{PatchAsset(a, n2, TRUE), PutText(a, n2, TRUE), SaveMetadata(a, TRUE)} : a \in {a1, a2}}
Deletes == {RemoveAsset(a) : a \in {a1, a2}}
TagCalls ==
  {PostTag(p, roleTag) : p \in MCProjects} \cup {PatchTag(t, roleTag) : t \in {t1, t2}}
  \cup {RemoveTagOf(t2)}
  \cup UNION {{PostAssetTag(a, t), RemoveAssetTag(a, t)} : a \in {a1, a2, a3}, t \in {t2, t3}}
CollectionCalls ==
  {PostCollection(p1, c) : c \in {c1, c2, None}} \cup {PatchCollection(c2)}
  \cup {RemoveCollection(c) : c \in {c1, c2}}
Transfers ==
  {PostTransfer(op, <<a1>>, p, TRUE) : op \in {"copy", "move"}, p \in MCProjects}
  \cup {PostTransfer("move", <<a2, a1, a2>>, p1, FALSE)}
MCCalls == Creates \cup Updates \cup Deletes \cup TagCalls \cup CollectionCalls \cup Transfers
Overlapping == Permutations(Requests)
\* What the proofs about the library and about its files ask of them.
ASSUME ProofsAssumption == CallsAssumption /\ IdsAssumption /\ PoolsAssumption /\ MovesAssumption
ASSUME FilesAssumption == Serial

-----------------------------------------------------------------------------
(* AssetFiles: one published asset and one that is not.                     *)

CONSTANTS b1, b2, b3

MCContents == {b1, b2, b3}
MCRows == (a1 :> [uri |-> b1, url |-> b1, live |-> TRUE])
       @@ (a2 :> [uri |-> b2, url |-> None, live |-> TRUE])

-----------------------------------------------------------------------------
(* Platform: two users, one project beside the global one, three contracts. *)

CONSTANTS u1, u2, system, w1
Contract(body, s, p) == [workflow |-> w1, body |-> body, scope |-> s, project |-> p]
MCUsers == {u1, u2}
MCContracts == {Contract(1, "global", None), Contract(2, "global", None), Contract(1, "project", p1)}

-----------------------------------------------------------------------------
(* Migrations: old databases with three assets and three tags of one name,   *)
(* each on every asset of its scope: the assets vary with few tags, and the   *)
(* tags with few assets.  One asset and one tag may have been renamed before, *)
(* or be called as another will be.                                          *)

OldName(base) == [base |-> base, tail |-> <<>>]
MCBases == {n1, n2, roleTag}
MCScopes == {Global, p1, p2}
Suffixed(base, id) == [base |-> base, tail |-> <<<<id, 1>>>>]
MCOldDatabases ==
  LET Assets == [1..3 -> [scope : MCScopes, name : {OldName(n1), OldName(n2)} \cup {Suffixed(n1, k) : k \in {2, 3}}, live : BOOLEAN]]
      Some == {a \in Assets : /\ a[1].name = OldName(n1) /\ a[1].scope # p1
                              /\ a[2].name.tail = <<>> /\ a[2].live}
      OldTags == {t \in [1..3 -> [scope : MCScopes, name : {OldName(roleTag), Suffixed(roleTag, 2)}]] :
                    t[1].name.tail = <<>> /\ t[2].name.tail = <<>>}
      InTurn == {t \in OldTags : t[1].scope = Global /\ t[2].scope = p2 /\ t[3].scope # p2 /\ t[3].name.tail = <<>>}
      Db(a, t, i) ==
        [assets |-> a, tags |-> t, indexed |-> i,
         entries |-> {[asset |-> b, tag |-> u, scope |-> a[b].scope] :
                        <<b, u>> \in {c \in (1..3) \X (1..3) : t[c[2]].scope = a[c[1]].scope}}]
      Indexes == SUBSET {"assets", "tags"}
  IN {d \in {Db(a, t, i) : a \in Some, t \in InTurn, i \in Indexes}
           \cup {Db(a, t, i) : a \in {b \in Some : \A k \in 1..3 : b[k].live /\ b[k].name = OldName(n1)},
                              t \in OldTags, i \in Indexes} : Fits(d) /\ OwnNames(d)}
NoDatabase == [assets |-> <<>>, tags |-> <<>>, entries |-> {}, indexed |-> {}]

-----------------------------------------------------------------------------
ServicesInit ==
  /\ part \in {"library", "files", "accounts", "database"}
  /\ LibraryInit /\ Init /\ PlatformInit
  /\ old \in IF part = "database" THEN OldDatabases ELSE {NoDatabase}
  /\ NotStarted
ServicesNext ==
  /\ UNCHANGED part
  /\ \/ part = "library" /\ LibraryNext /\ UNCHANGED <<vars, platformVars, migrationVars>>
     \/ part = "files" /\ Next /\ UNCHANGED <<libraryVars, platformVars, migrationVars>>
     \/ part = "accounts" /\ PlatformNext /\ UNCHANGED <<libraryVars, vars, migrationVars>>
     \/ part = "database" /\ MigrationNext /\ UNCHANGED <<libraryVars, vars, platformVars>>
ServicesSpec == ServicesInit /\ [][ServicesNext]_<<part, libraryVars, vars, platformVars, migrationVars>>

(* The properties of the parts; each is stated in full where it is defined. *)
(* They are checked as they stand: in the other parts their rows rest.       *)
=============================================================================
