----------------------------- MODULE AssetFiles -----------------------------
(***************************************************************************)
(* The bytes of assets: SqliteAssetService above LocalAssetStorage, whose  *)
(* files are named by their content, and above the object storage, whose   *)
(* keys are the same names and which gives a row its public_url: metadata, *)
(* which updates write as well.  A file is written before the row that     *)
(* names it, and a failing import takes back what it put.  A step runs     *)
(* from one await to the next; a request that is cancelled, or dies with   *)
(* the process, cleans nothing up.                                         *)
(***************************************************************************)
EXTENDS Integers, FiniteSets, ServiceNames

CONSTANTS Contents, StartRows, Overlap

VARIABLES rows,    \* [id -> the content its storage_uri and its public_url name, live]
          files,   \* contents that have a local file
          objects, \* contents that have an object
          thumbs,  \* cached thumbnails: an asset and a content
          req      \* [Requests -> what the handler remembers]

stores == <<rows, files, objects, thumbs>>
vars == <<stores, req>>

LiveRows == {a \in DOMAIN rows : rows[a].live}

-----------------------------------------------------------------------------
BlankFile == [pc |-> "idle", op |-> None, asset |-> None, content |-> None, url |-> None,
          publish |-> FALSE, created |-> FALSE, put |-> FALSE, copy |-> None]
FileIdle(r) == req[r].pc \in {"idle", "done"}
FileAt(r, pc) == req[r].pc = pc
FileReturned == [BlankFile EXCEPT !.pc = "done"]
FileSet(r, q) == req' = [req EXCEPT ![r] = q]
FileGoto(r, pc) == FileSet(r, [req[r] EXCEPT !.pc = pc])
FileReturn(r) == FileSet(r, FileReturned)

\* The requests of the routes; all but an import begin by reading the asset.
PostBytes(c, publish) ==
  [BlankFile EXCEPT !.op = "import", !.pc = "import_file_asset", !.content = c, !.publish = publish]
OnAsset(op, a) == [BlankFile EXCEPT !.op = op, !.pc = "get_asset", !.asset = a]
PutFile(a, c) == [OnAsset("replace", a) EXCEPT !.content = c]
PatchRow(a) == OnAsset("edit", a)
GetThumbnail(a) == OnAsset("thumbnail", a)
GetContentOf(a) == [OnAsset("content", a) EXCEPT !.pc = "get_asset_content"]
RemoveRow(a) == OnAsset("delete", a)
PostTransferOf(op, a) == OnAsset(op, a)
FileCalls ==
  {PostBytes(c, p) : c \in Contents, p \in BOOLEAN}
  \cup {PutFile(a, c) : a \in AssetIds, c \in Contents}
  \cup UNION {{PatchRow(a), GetThumbnail(a), GetContentOf(a), RemoveRow(a),
               PostTransferOf("copy", a), PostTransferOf("move", a)} : a \in AssetIds}

\* The assets and contents a request is about.
About(q) ==
  {q.asset, q.copy, q.content} \cup {rows[a].uri : a \in {q.asset} \cap DOMAIN rows}
\* A client names an asset it has seen.  Unless requests may overlap, those
\* under way are about different things.
FileCall(r) ==
  /\ FileAt(r, "idle")
  /\ \E q \in FileCalls :
       /\ q.asset \in DOMAIN rows \cup {None}
       /\ \/ Overlap
          \/ \A o \in Requests : FileIdle(o) \/ About(q) \cap About(req[o]) \subseteq {None}
       /\ FileSet(r, q)
  /\ UNCHANGED stores

\* The client goes away or the process dies: no handler of exceptions runs.
Cancel(r) == ~FileIdle(r) /\ FileReturn(r) /\ UNCHANGED stores

-----------------------------------------------------------------------------
(* import_file_asset                                                       *)

CheckImport(r) ==
  /\ FileAt(r, "import_file_asset")
  /\ \/ FileReturn(r) \/ FileGoto(r, "put_bytes")
  /\ UNCHANGED stores
\* put_bytes_with_status: an existing file is left as it is.
PutBytes(r) ==
  LET q == req[r] IN
  /\ FileAt(r, "put_bytes")
  /\ files' = files \cup {q.content}
  /\ FileSet(r, [q EXCEPT !.created = q.content \notin files,
                      !.pc = IF q.publish THEN "put_object" ELSE "insert"])
  /\ UNCHANGED <<rows, objects, thumbs>>
\* The except clause: the object first, which is awaited, then the file.
\* An object storage that fails to delete keeps the file from being deleted.
\* Mutant: the file is deleted whoever created it.
CleanUpAlways(r) ==
  LET q == req[r] IN
  IF q.put THEN FileGoto(r, "delete_object") /\ UNCHANGED stores
  ELSE files' = files \ {q.content} /\ FileReturn(r) /\ UNCHANGED <<rows, objects, thumbs>>
CleanUp(r) ==
  LET q == req[r] IN
  IF q.put THEN FileGoto(r, "delete_object") /\ UNCHANGED stores
  ELSE /\ files' = IF q.created THEN files \ {q.content} ELSE files
       /\ FileReturn(r)
       /\ UNCHANGED <<rows, objects, thumbs>>
DeleteObject(r) ==
  LET q == req[r] IN
  /\ FileAt(r, "delete_object")
  /\ \/ /\ objects' = objects \ {q.content}
        /\ files' = IF q.created THEN files \ {q.content} ELSE files
     \/ UNCHANGED <<objects, files>>
  /\ FileReturn(r)
  /\ UNCHANGED <<rows, thumbs>>
\* The upload succeeds, or fails; without an object storage an import that is to
\* be published fails here.
PutObject(r) ==
  LET q == req[r] IN
  /\ FileAt(r, "put_object")
  /\ \/ /\ objects' = objects \cup {q.content}
        /\ FileSet(r, [q EXCEPT !.put = TRUE, !.url = q.content,
                            !.pc = IF q.op = "replace" THEN "updateFile" ELSE "insert"])
        /\ UNCHANGED <<rows, files, thumbs>>
     \/ q.op # "replace" /\ CleanUp(r)
     \/ q.op = "replace" /\ FileReturn(r) /\ UNCHANGED stores
WithFileRow(a, row) == [b \in DOMAIN rows \cup {a} |-> IF b = a THEN row ELSE rows[b]]
\* The row and its entries are written together; a name or a target that went
\* meanwhile, or the database, may refuse them.
\* Mutant: a move goes on when its copy could not be inserted.
InsertRowSwallows(r) ==
  LET q == req[r] IN
  /\ FileAt(r, "insert")
  /\ \/ q.op # "move" /\ CleanUp(r)
     \/ /\ q.op = "move"
        /\ FileSet(r, [q EXCEPT !.pc = "get_asset", !.op = "delete", !.copy = q.asset])
        /\ UNCHANGED stores
     \/ /\ \E a \in AssetIds \ DOMAIN rows :
             /\ rows' = WithFileRow(a, [uri |-> q.content, url |-> q.url, live |-> TRUE])
             /\ FileSet(r, IF q.op = "move"
                       THEN [q EXCEPT !.pc = "get_asset", !.op = "delete", !.copy = a]
                       ELSE FileReturned)
        /\ UNCHANGED <<files, objects, thumbs>>
InsertRow(r) ==
  LET q == req[r] IN
  /\ FileAt(r, "insert")
  /\ \/ CleanUp(r)
     \/ /\ \E a \in AssetIds \ DOMAIN rows :
             /\ rows' = WithFileRow(a, [uri |-> q.content, url |-> q.url, live |-> TRUE])
             /\ FileSet(r, IF q.op = "move"
                       THEN [q EXCEPT !.pc = "get_asset", !.op = "delete", !.copy = a]
                       ELSE FileReturned)
        /\ UNCHANGED <<files, objects, thumbs>>

-----------------------------------------------------------------------------
(* Operations on an asset, which begin with get_asset                      *)

GetAsset(r) ==
  LET q == req[r]
      row == rows[q.asset] IN
  /\ FileAt(r, "get_asset")
  /\ IF q.asset \notin LiveRows THEN FileReturn(r)
     ELSE FileSet(r, CASE q.op = "replace" ->
                        [q EXCEPT !.pc = "replace_asset_file", !.url = row.url]
                   [] q.op \in {"copy", "move"} -> [q EXCEPT !.pc = "get_asset_content"]
                   [] q.op = "edit" -> [q EXCEPT !.pc = "update_asset", !.url = row.url]
                   [] q.op = "thumbnail" ->
                        [q EXCEPT !.pc = "get_asset_thumbnail", !.content = row.uri]
                   [] q.op = "delete" -> [q EXCEPT !.pc = "delete_asset"])
  /\ UNCHANGED stores

\* replace_asset_file: metadata was read with the asset, and the old file stays.
\* An asset that was published is published again, unless there is no object
\* storage, which leaves the URL it had.
ReplaceFile(r) ==
  /\ FileAt(r, "replace_asset_file")
  /\ files' = files \cup {req[r].content}
  /\ \/ req[r].url # None /\ FileGoto(r, "put_object")
     \/ FileGoto(r, "updateFile")
  /\ UNCHANGED <<rows, objects, thumbs>>
UpdateFile(r) ==
  LET q == req[r] IN
  /\ FileAt(r, "updateFile")
  /\ rows' = [rows EXCEPT ![q.asset].uri = q.content, ![q.asset].url = q.url]
  /\ thumbs' = IF rows[q.asset].live THEN {x \in thumbs : x[1] # q.asset} ELSE thumbs
  /\ FileReturn(r)
  /\ UNCHANGED <<files, objects>>

\* update_asset without metadata writes back the metadata it read; with metadata,
\* as the intelligent upload's and update_asset_metadata do, whatever it is given.
RewriteRow(r) ==
  LET q == req[r] IN
  /\ FileAt(r, "update_asset")
  /\ \E url \in {q.url} \cup Contents \cup {None} : rows' = [rows EXCEPT ![q.asset].url = url]
  /\ FileReturn(r)
  /\ UNCHANGED <<files, objects, thumbs>>

DeleteAsset(r) ==
  LET q == req[r] IN
  /\ FileAt(r, "delete_asset")
  /\ rows' = [rows EXCEPT ![q.asset].live = FALSE]
  /\ FileReturn(r)
  /\ UNCHANGED <<files, objects, thumbs>>

\* get_asset_content reads the row again, and then its file, which must exist;
\* the copy is imported unpublished.
GetContent(r) ==
  LET q == req[r] IN
  /\ FileAt(r, "get_asset_content")
  /\ IF q.asset \in LiveRows /\ rows[q.asset].uri \in files
     THEN FileSet(r, IF q.op = "content" THEN FileReturned
                 ELSE [q EXCEPT !.pc = "import_file_asset", !.content = rows[q.asset].uri])
     ELSE FileReturn(r)
  /\ UNCHANGED stores

\* get_asset_thumbnail: from the cache, or made from the file and cached.
Thumbnail(r) ==
  LET q == req[r] IN
  /\ FileAt(r, "get_asset_thumbnail")
  /\ thumbs' = IF q.content \in files THEN thumbs \cup {<<q.asset, q.content>>} ELSE thumbs
  /\ FileReturn(r)
  /\ UNCHANGED <<rows, files, objects>>

-----------------------------------------------------------------------------
Init ==
  /\ rows = StartRows
  /\ files = {rows[a].uri : a \in DOMAIN rows}
  /\ objects = {rows[a].url : a \in DOMAIN rows} \ {None}
  /\ thumbs = {}
  /\ req = [r \in Requests |-> BlankFile]

FileStep(r) ==
  \/ CheckImport(r) \/ PutBytes(r) \/ PutObject(r) \/ InsertRow(r) \/ DeleteObject(r)
  \/ GetAsset(r) \/ ReplaceFile(r) \/ UpdateFile(r) \/ RewriteRow(r) \/ DeleteAsset(r)
  \/ GetContent(r) \/ Thumbnail(r)
Next == \E r \in Requests : FileCall(r) \/ FileStep(r) \/ Cancel(r)
Spec == Init /\ [][Next]_vars

-----------------------------------------------------------------------------
(* Properties                                                              *)

\* What a row names, the local files and the objects are contents.
FilesTypeOK ==
  /\ DOMAIN rows \subseteq AssetIds
  /\ \A a \in DOMAIN rows :
       rows[a] \in [uri : Contents, url : Contents \cup {None}, live : BOOLEAN]
  /\ files \subseteq Contents /\ objects \subseteq Contents
  /\ thumbs \subseteq AssetIds \X Contents

\* Every live asset has its file.
HaveFiles == \A a \in LiveRows : rows[a].uri \in files

\* No import that fails, is cancelled or shares its content with another takes
\* the file of a live row away, and what is stored is well formed.
FilesKept == FilesTypeOK /\ HaveFiles

\* When a move deletes its source, a live asset has the content of the source.
ContentMoves ==
  \A r \in Requests :
    req[r].copy # None /\ FileAt(r, "delete_asset") /\ req'[r] # req[r] /\ rows' # rows =>
      \E a \in LiveRows \ {req[r].asset} : rows'[a].live /\ rows'[a].uri = rows[req[r].asset].uri
=============================================================================
