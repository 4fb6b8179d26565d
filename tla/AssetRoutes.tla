----------------------------- MODULE AssetRoutes -----------------------------
(***************************************************************************)
(* The routes of the asset library, one operator each: the request that a  *)
(* route hands to SqliteAssetService.  `pc' is the service's method, `op'   *)
(* what the method cannot tell from its arguments, `back' where the route   *)
(* goes on when the method has returned, `rest' the assets a transfer has   *)
(* yet to try.  Every argument is stripped, and refused when it is empty.   *)
(***************************************************************************)
EXTENDS Sequences, SequencesExt, ServiceNames

CONSTANTS TagNames

Blank == [pc |-> "idle", op |-> None, back |-> "done", alone |-> TRUE, rest |-> <<>>, tags |-> TRUE,
          asset |-> None, target |-> None, project |-> None, name |-> None,
          tag |-> None, coll |-> None, episode |-> FALSE, text |-> TRUE,
          todo |-> {}, found |-> [n \in TagNames |-> None], tree |-> {}]
Ask(pc) == [Blank EXCEPT !.pc = pc]

PostText(p, n, episode) ==
  [Ask("create_text_asset") EXCEPT !.project = p, !.name = n, !.episode = episode]
\* The upload may name tags and collections: one of each here.
PostFile(p, n, t, c) ==
  [Ask("import_file_asset") EXCEPT !.project = p, !.name = n, !.tag = t, !.coll = c, !.text = FALSE]
PostIntelligentFile(p, n, episode) ==
  [PostFile(p, n, None, None) EXCEPT !.op = "upload", !.episode = episode,
                                     !.back = "complete_upload_metadata"]
PostCollection(p, parent) ==
  [Ask("create_collection_node") EXCEPT !.project = p, !.coll = parent]
PatchCollection(c) == [Ask("update_collection_node") EXCEPT !.coll = c]
RemoveCollection(c) == [Ask("delete_collection_node") EXCEPT !.coll = c]
PostTag(p, n) == [Ask("create_tag") EXCEPT !.project = p, !.name = n]
PatchTag(t, n) == [Ask("update_tag") EXCEPT !.tag = t, !.name = n]
RemoveTagOf(t) == [Ask("delete_tag") EXCEPT !.tag = t]

\* _unique_ids
UniqueIds(ids) ==
  FoldLeft(LAMBDA s, i : IF i \in Range(s) THEN s ELSE Append(s, i), <<>>, ids)
\* The loop of /transfer: a failure is noted and the next asset tried, each
\* with a request of its own to the service.
Transfer(op, p, ids, q) ==
  [q EXCEPT !.op = op, !.project = p, !.asset = Head(ids), !.rest = Tail(ids),
            !.pc = IF op = "move" THEN "move_asset" ELSE "copy_asset"]
PostTransfer(op, ids, p, copyTags) ==
  Transfer(op, p, UniqueIds(ids), [Blank EXCEPT !.tags = copyTags])

PostAssetTag(a, t) == [Ask("attach_asset_tag") EXCEPT !.target = a, !.tag = t]
RemoveAssetTag(a, t) == [PostAssetTag(a, t) EXCEPT !.op = "detach"]
PatchAsset(a, n, episode) ==
  [Ask("update_asset") EXCEPT !.target = a, !.name = n, !.episode = episode]
PutText(a, n, episode) ==
  [Ask("update_text_asset") EXCEPT !.target = a, !.name = n, !.episode = episode]
\* No route asks for it.
SaveMetadata(a, episode) ==
  [Ask("update_asset_metadata") EXCEPT !.target = a, !.episode = episode]
RemoveAsset(a) == [Ask("delete_asset") EXCEPT !.asset = a]
=============================================================================
