----------------------------- MODULE FilesProofs -----------------------------
(* No import takes the file of an asset away, for any number of requests,    *)
(* assets and contents, whatever fails and whoever is cancelled, as long as   *)
(* the requests under way at a time are about different assets and contents;  *)
(* and, with the library's rows, a move loses nothing.                        *)
EXTENDS AssetFiles, LibraryProofs

----------------------------------------------------------------------------
(* What the proofs ask of the constants: ids and contents are told apart, the *)
(* library to begin with is well formed, and requests do not overlap.         *)

Row == [uri : Contents, url : Contents \cup {None}, live : BOOLEAN]
Serial ==
    /\ None \notin AssetIds \cup Contents
    /\ AssetIds \cap Contents = {}
    /\ ~Overlap
    /\ DOMAIN StartRows \subseteq AssetIds
    /\ \A a \in DOMAIN StartRows : StartRows[a] \in Row

----------------------------------------------------------------------------
(* The inductive invariant.                                                   *)

Places == {"idle", "done", "import_file_asset", "put_bytes", "put_object", "insert", "delete_object",
           "get_asset", "replace_asset_file", "updateFile", "update_asset", "delete_asset",
           "get_asset_content", "get_asset_thumbnail"}
Request == [pc : Places, op : {"import", "replace", "edit", "thumbnail", "content", "delete",
                               "copy", "move", None},
            asset : AssetIds \cup {None}, content : Contents \cup {None}, url : Contents \cup {None},
            publish : BOOLEAN, created : BOOLEAN, put : BOOLEAN, copy : AssetIds \cup {None}]

\* A request names assets there are, and its content when it is about to store it.
Named(r) ==
    LET q == req[r] IN
    /\ FileIdle(r) => q.asset = None /\ q.content = None /\ q.copy = None
    /\ q.asset \in DOMAIN rows \cup {None} /\ q.copy \in DOMAIN rows \cup {None}
    /\ q.pc \in {"get_asset", "replace_asset_file", "update_asset", "updateFile", "delete_asset",
                 "get_asset_content", "get_asset_thumbnail"} => q.asset # None
    /\ q.pc = "put_object" /\ q.op = "replace" => q.asset # None
    /\ ~FileIdle(r) /\ q.op = "move" => q.asset # None
    /\ q.pc \in {"get_asset_content", "import_file_asset", "put_bytes"} => q.op # "replace"
    /\ q.pc \in {"import_file_asset", "put_bytes", "put_object", "insert", "delete_object",
                 "replace_asset_file", "updateFile", "get_asset_thumbnail"} => q.content # None
    /\ q.pc = "get_asset" =>
          /\ q.op \in {"replace", "edit", "thumbnail", "delete", "copy", "move"}
          /\ q.op = "replace" => q.content # None

\* What it is about to store has its file, which belongs to no row if the
\* request made it.
Holds(r) ==
    LET q == req[r] IN
    /\ q.pc \in {"put_object", "insert", "updateFile"} => q.content \in files
    /\ q.pc \in {"put_object", "insert", "delete_object"} /\ q.created =>
          \A a \in LiveRows : rows[a].uri # q.content
    /\ (q.pc = "get_asset" /\ q.op = "replace") \/ q.pc = "replace_asset_file" => ~q.created

Topic(r) == About(req[r])
Apart == \A r, o \in Requests : r # o => Topic(r) \cap Topic(o) \subseteq {None}

Kept ==
    /\ FilesTypeOK /\ req \in [Requests -> Request]
    /\ HaveFiles
    /\ Apart
    /\ \A r \in Requests : Named(r) /\ Holds(r)

----------------------------------------------------------------------------
(* A step of one request, seen by the others.                                 *)

Frame(r) ==
    /\ \A o \in Requests \ {r} : req'[o] = req[o]
    /\ DOMAIN rows \subseteq DOMAIN rows'
    /\ \A a \in DOMAIN rows : a # req[r].asset => rows'[a] = rows[a]
    /\ \A a \in LiveRows' : (a \in LiveRows /\ rows'[a].uri = rows[a].uri) \/ rows'[a].uri = req[r].content
    /\ files \ files' \subseteq {req[r].content}
    /\ Topic(r)' \subseteq Topic(r) \cup (DOMAIN rows' \ DOMAIN rows) \cup {None}

\* What a request that is served leaves behind for itself.
Own(r) == /\ FilesTypeOK' /\ (req \in [Requests -> Request])'
          /\ HaveFiles' /\ Named(r)' /\ Holds(r)'

LEMMA TopicOf ==
    ASSUME Kept, NEW r \in Requests
    PROVE  /\ req[r].asset \in Topic(r) /\ req[r].content \in Topic(r) /\ req[r].copy \in Topic(r)
           /\ Topic(r) \subseteq DOMAIN rows \cup Contents \cup {None}
BY DEF Topic, About, Kept, Named, Request, FilesTypeOK

LEMMA TopicStays ==
    ASSUME Serial, Kept, NEW r \in Requests, Frame(r), FilesTypeOK', NEW o \in Requests \ {r}
    PROVE  Topic(o)' = Topic(o)
<1>1. req'[o] = req[o]
  BY DEF Frame
<1>2. req[o].asset \in DOMAIN rows \cup {None} /\ None \notin DOMAIN rows /\ None \notin DOMAIN rows'
  BY DEF Kept, Named, FilesTypeOK, Serial
<1>3. CASE req[o].asset = None
  BY <1>1, <1>2, <1>3 DEF Topic, About
<1>4. CASE req[o].asset \in DOMAIN rows
  <2>1. req[o].asset # req[r].asset
    BY <1>2, <1>4, TopicOf DEF Kept, Apart
  <2>2. req[o].asset \in DOMAIN rows' /\ rows'[req[o].asset] = rows[req[o].asset]
    BY <1>4, <2>1 DEF Frame
  <2> QED BY <1>1, <1>4, <2>2 DEF Topic, About
<1> QED BY <1>2, <1>3, <1>4

\* The others stay apart from it and from one another, and hold what they held.
LEMMA OthersKept ==
    ASSUME Serial, Kept, NEW r \in Requests, Frame(r), Own(r)
    PROVE  Kept'
<1>1. FilesTypeOK' /\ (req \in [Requests -> Request])' /\ HaveFiles'
  BY DEF Own
<1>2. ASSUME NEW o \in Requests, o # r
      PROVE  Topic(o)' = Topic(o) /\ Topic(o) \cap Topic(r)' \subseteq {None}
  <2>1. Topic(o)' = Topic(o)
    BY <1>1, <1>2, TopicStays
  <2>2. Topic(o) \cap (DOMAIN rows' \ DOMAIN rows) \subseteq {None}
    BY <1>1, <1>2, TopicOf DEF FilesTypeOK, Serial
  <2>3. Topic(o) \cap Topic(r) \subseteq {None}
    BY <1>2 DEF Kept, Apart
  <2> QED BY <2>1, <2>2, <2>3 DEF Frame
<1>3. Apart'
  <2> SUFFICES ASSUME NEW p \in Requests, NEW o \in Requests, p # o
               PROVE  Topic(p)' \cap Topic(o)' \subseteq {None}
    BY DEF Apart
  <2>1. CASE p = r
    BY <1>2, <2>1
  <2>2. CASE o = r
    BY <1>2, <2>2
  <2>3. CASE p # r /\ o # r
    BY <1>2, <2>3 DEF Kept, Apart
  <2> QED BY <2>1, <2>2, <2>3
<1>4. ASSUME NEW o \in Requests, o # r
      PROVE  Named(o)' /\ Holds(o)'
  <2>1. req'[o] = req[o] /\ Named(o) /\ Holds(o)
    BY <1>4 DEF Frame, Kept
  <2>2. Named(o)'
    BY <2>1 DEF Named, FileIdle, Frame
  <2>3. req[o].content # None => req[o].content # req[r].content
    BY <1>4, TopicOf DEF Kept, Apart
  <2>5. req[o].pc \in {"put_object", "insert", "updateFile", "delete_object"} => req[o].content # None
    BY <2>1 DEF Named
  <2>6. req[o].pc \in {"put_object", "insert", "updateFile"} => req[o].content \in files'
    BY <2>1, <2>3, <2>5 DEF Holds, Frame
  <2>7. req[o].pc \in {"put_object", "insert", "delete_object"} /\ req[o].created =>
            \A a \in LiveRows' : rows'[a].uri # req[o].content
    BY <2>1, <2>3, <2>5 DEF Holds, Frame
  <2> QED BY <2>1, <2>2, <2>6, <2>7 DEF Holds
<1> QED BY <1>1, <1>3, <1>4 DEF Kept, Own

----------------------------------------------------------------------------
(* The steps.                                                                 *)

\* A step that only moves the request, to a topic it has already.
LEMMA OnlyMoves ==
    ASSUME Serial, Kept, NEW r \in Requests, NEW q \in Request, FileSet(r, q), UNCHANGED <<rows, thumbs>>,
           files \subseteq files', files' \subseteq Contents, objects' \subseteq Contents,
           q.asset = req[r].asset, q.copy = req[r].copy,
           q.content = req[r].content \/ (q.asset \in DOMAIN rows /\ q.content = rows[q.asset].uri),
           Named(r)', Holds(r)'
    PROVE  Kept'
<1>1. req'[r] = q /\ (\A o \in Requests \ {r} : req'[o] = req[o]) /\ (req \in [Requests -> Request])'
  BY DEF FileSet, Kept
<1>2. UNCHANGED rows
  OBVIOUS
<1>3. FilesTypeOK' /\ HaveFiles' /\ LiveRows' = LiveRows
  BY <1>2 DEF Kept, FilesTypeOK, HaveFiles, LiveRows
<1>4. Topic(r)' \subseteq Topic(r)
  BY <1>1, <1>2 DEF Topic, About
<1>5. Frame(r)
  BY <1>1, <1>2, <1>3, <1>4 DEF Frame
<1> QED BY <1>1, <1>3, <1>5, OthersKept DEF Own

LEMMA ReturnedIs ==
    /\ FileReturned \in Request /\ FileReturned.pc = "done" /\ FileReturned.asset = None
    /\ FileReturned.content = None /\ FileReturned.copy = None
BY DEF FileReturned, BlankFile, Request, Places

\* A request that ends; what it did to the stores is for the caller to show.
LEMMA Ends ==
    ASSUME Serial, Kept, NEW r \in Requests, FileReturn(r),
           FilesTypeOK', HaveFiles',
           DOMAIN rows \subseteq DOMAIN rows',
           \A a \in DOMAIN rows : a # req[r].asset => rows'[a] = rows[a],
           \A a \in LiveRows' : (a \in LiveRows /\ rows'[a].uri = rows[a].uri) \/ rows'[a].uri = req[r].content,
           files \ files' \subseteq {req[r].content}
    PROVE  Kept'
<1>1. req'[r] = FileReturned /\ (\A o \in Requests \ {r} : req'[o] = req[o]) /\ (req \in [Requests -> Request])'
  BY ReturnedIs DEF FileReturn, FileSet, Kept
<1>2. Topic(r)' \subseteq {None}
  <2>1. None \notin DOMAIN rows'
    BY DEF FilesTypeOK, Serial
  <2> QED BY <1>1, <2>1, ReturnedIs DEF Topic, About
<1>3. Frame(r)
  BY <1>1, <1>2 DEF Frame
<1>4. Named(r)' /\ Holds(r)'
  BY <1>1, ReturnedIs DEF Named, Holds, FileIdle
<1> QED BY <1>1, <1>3, <1>4, OthersKept DEF Own

LEMMA EndsQuietly ==
    ASSUME Serial, Kept, NEW r \in Requests, FileReturn(r), UNCHANGED stores
    PROVE  Kept'
<1>1. UNCHANGED rows /\ UNCHANGED files /\ UNCHANGED objects /\ UNCHANGED thumbs
  BY DEF stores
<1>2. FilesTypeOK' /\ HaveFiles' /\ LiveRows' = LiveRows
  BY <1>1 DEF Kept, FilesTypeOK, HaveFiles, LiveRows
<1> QED BY <1>1, <1>2, Ends

LEMMA CallKept ==
    ASSUME Serial, Kept, NEW r \in Requests, FileCall(r)
    PROVE  Kept'
<1>1. PICK q \in FileCalls :
        /\ q.asset \in DOMAIN rows \cup {None}
        /\ \A o \in Requests : FileIdle(o) \/ About(q) \cap About(req[o]) \subseteq {None}
        /\ FileSet(r, q)
  BY DEF FileCall, Serial
<1>2. UNCHANGED rows /\ UNCHANGED files /\ UNCHANGED objects /\ UNCHANGED thumbs
  BY DEF FileCall, stores
<1>3. FilesTypeOK' /\ HaveFiles' /\ LiveRows' = LiveRows
  BY <1>2 DEF Kept, FilesTypeOK, HaveFiles, LiveRows
<1>4. /\ q \in Request /\ q.copy = None
      /\ \/ q.pc = "import_file_asset" /\ q.op = "import" /\ q.content \in Contents /\ q.url = None
         \/ /\ q.pc = "get_asset" /\ q.url = None /\ q.asset # None /\ ~q.created
            /\ q.op \in {"replace", "edit", "thumbnail", "delete", "copy", "move"}
            /\ q.op = "replace" => q.content # None
         \/ q.pc = "get_asset_content" /\ q.op = "content" /\ q.url = None /\ q.asset # None
  <2> USE DEF BlankFile, Request, Places, Serial
  <2>1. CASE \E c \in Contents, p \in BOOLEAN : q = PostBytes(c, p)
    BY <2>1 DEF PostBytes
  <2>2. CASE \E a \in AssetIds, c \in Contents : q = PutFile(a, c)
    BY <2>2 DEF PutFile, OnAsset
  <2>3. CASE \E a \in AssetIds : q = GetContentOf(a)
    BY <2>3 DEF GetContentOf, OnAsset
  <2>4. CASE \E a \in AssetIds, op \in {"edit", "thumbnail", "delete", "copy", "move"} : q = OnAsset(op, a)
    BY <2>4 DEF OnAsset
  <2> QED BY <1>1, <2>1, <2>2, <2>3, <2>4
          DEF FileCalls, PatchRow, GetThumbnail, RemoveRow, PostTransferOf
<1>5. req'[r] = q /\ (\A o \in Requests \ {r} : req'[o] = req[o]) /\ (req \in [Requests -> Request])'
  BY <1>1, <1>4 DEF FileSet, Kept
<1>6. Named(r)' /\ Holds(r)'
  <2>1. Named(r)'
    BY <1>1, <1>2, <1>4, <1>5 DEF Named, FileIdle, Serial
  <2>2. Holds(r)'
    BY <1>2, <1>3, <1>4, <1>5 DEF Holds
  <2> QED BY <2>1, <2>2
<1>7. ASSUME NEW o \in Requests, o # r
      PROVE  Named(o)' /\ Holds(o)' /\ Topic(o)' = Topic(o) /\ Topic(r)' \cap Topic(o) \subseteq {None}
  <2>1. req'[o] = req[o] /\ Named(o) /\ Holds(o)
    BY <1>5, <1>7 DEF Kept
  <2>2. Named(o)'
    BY <2>1, <1>2 DEF Named, FileIdle
  <2>3. Holds(o)'
    BY <2>1, <1>2, <1>3 DEF Holds
  <2>4. Topic(o)' = Topic(o) /\ Topic(r)' = About(q)
    BY <2>1, <1>2, <1>5 DEF Topic, About
  <2>5. FileIdle(o) => Topic(o) \subseteq {None}
    BY <2>1 DEF Topic, About, Named, Kept, FilesTypeOK, Serial
  <2> QED BY <1>1, <2>2, <2>3, <2>4, <2>5 DEF Topic
<1>8. Apart'
  BY <1>7 DEF Apart, Kept
<1> QED BY <1>3, <1>5, <1>6, <1>7, <1>8 DEF Kept

\* What a request remembers, spelled out.
LEMMA Remembered ==
    ASSUME Serial, Kept, NEW r \in Requests
    PROVE  /\ req[r] \in Request /\ Named(r) /\ Holds(r) /\ req \in [Requests -> Request]
           /\ files \subseteq Contents /\ objects \subseteq Contents /\ None \notin DOMAIN rows
           /\ \A a \in DOMAIN rows : a \in AssetIds /\ rows[a] \in Row
BY DEF Kept, FilesTypeOK, Serial, Row

LEMMA StoresStay ==
    ASSUME UNCHANGED stores
    PROVE  UNCHANGED rows /\ UNCHANGED files /\ UNCHANGED objects /\ UNCHANGED thumbs /\ LiveRows' = LiveRows
BY DEF stores, LiveRows

\* The fields a step of a request leaves alone.
SameAsked(q, x) == q.op = x.op /\ q.asset = x.asset /\ q.content = x.content /\ q.copy = x.copy

LEMMA CheckImportKept ==
    ASSUME Serial, Kept, NEW r \in Requests, CheckImport(r)
    PROVE  Kept'
<1>1. CASE FileReturn(r)
  BY <1>1, EndsQuietly DEF CheckImport
<1>2. CASE FileGoto(r, "put_bytes")
  <2> DEFINE x == req[r]
             q == [x EXCEPT !.pc = "put_bytes"]
  <2>1. FileSet(r, q)
    BY <1>2 DEF FileGoto
  <2>2. q \in Request /\ SameAsked(q, x) /\ q.url = x.url /\ q.pc = "put_bytes"
    BY Remembered DEF Request, Places, SameAsked
  <2>3. x.pc = "import_file_asset" /\ Named(r) /\ Holds(r) /\ x \in Request
    BY Remembered DEF CheckImport, FileAt
  <2> HIDE DEF q
  <2>4. req'[r] = q
    BY <2>1, Remembered DEF FileSet
  <2>5. UNCHANGED rows /\ UNCHANGED files /\ UNCHANGED objects /\ UNCHANGED thumbs
    BY StoresStay DEF CheckImport
  <2>6. Named(r)' /\ Holds(r)'
    BY <2>2, <2>3, <2>4, <2>5 DEF Named, Holds, FileIdle, SameAsked
  <2> QED BY <2>1, <2>2, <2>5, <2>6, Remembered, OnlyMoves DEF SameAsked
<1> QED BY <1>1, <1>2 DEF CheckImport

LEMMA PutBytesKept ==
    ASSUME Serial, Kept, NEW r \in Requests, PutBytes(r)
    PROVE  Kept'
<1> DEFINE x == req[r]
           q == [x EXCEPT !.created = x.content \notin files,
                          !.pc = IF x.publish THEN "put_object" ELSE "insert"]
<1>1. FileSet(r, q)
  BY DEF PutBytes
<1>2. /\ q \in Request /\ SameAsked(q, x) /\ q.url = x.url
      /\ q.pc \in {"put_object", "insert"} /\ (q.created => x.content \notin files)
  BY Remembered DEF Request, Places, SameAsked
<1>3. x.pc = "put_bytes" /\ Named(r) /\ Holds(r) /\ x \in Request
  BY Remembered DEF PutBytes, FileAt
<1> HIDE DEF q
<1>4. req'[r] = q
  BY <1>1, Remembered DEF FileSet
<1>5. x.content \in Contents /\ files' = files \cup {x.content}
  BY <1>3 DEF PutBytes, Named, Request
<1>6. UNCHANGED rows /\ UNCHANGED thumbs /\ UNCHANGED objects /\ LiveRows' = LiveRows
  BY DEF PutBytes, LiveRows
<1>7. x.op # "replace"
  BY <1>3 DEF Named
<1>8. Named(r)'
  BY <1>2, <1>3, <1>4, <1>5, <1>6, <1>7 DEF Named, FileIdle, Serial, SameAsked
<1>9. Holds(r)'
  BY <1>2, <1>3, <1>4, <1>5, <1>6 DEF Holds, Kept, HaveFiles, SameAsked
<1> QED BY <1>1, <1>2, <1>5, <1>6, <1>8, <1>9, Remembered, OnlyMoves DEF SameAsked

\* import_file_asset gives up: the file goes only when the request made it, and
\* then no row has it.
LEMMA CleanUpKept ==
    ASSUME Serial, Kept, NEW r \in Requests, CleanUp(r), req[r].pc \in {"put_object", "insert"}
    PROVE  Kept'
<1> DEFINE x == req[r]
<1>1. CASE x.put
  <2> DEFINE q == [x EXCEPT !.pc = "delete_object"]
  <2>1. FileSet(r, q) /\ UNCHANGED stores
    BY <1>1 DEF CleanUp, FileGoto
  <2>2. q \in Request /\ SameAsked(q, x) /\ q.url = x.url /\ q.created = x.created /\ q.pc = "delete_object"
    BY Remembered DEF Request, Places, SameAsked
  <2> HIDE DEF q
  <2>3. req'[r] = q
    BY <2>1, Remembered DEF FileSet
  <2>4. UNCHANGED rows /\ UNCHANGED files /\ UNCHANGED objects /\ UNCHANGED thumbs /\ LiveRows' = LiveRows
    BY <2>1, StoresStay
  <2>5. Named(r)' /\ Holds(r)'
    BY <2>2, <2>3, <2>4, Remembered DEF Named, Holds, FileIdle, SameAsked
  <2> QED BY <2>1, <2>2, <2>4, <2>5, Remembered, OnlyMoves DEF SameAsked
<1>2. CASE ~x.put
  <2>1. /\ files' = IF x.created THEN files \ {x.content} ELSE files
        /\ FileReturn(r) /\ UNCHANGED rows /\ UNCHANGED objects /\ UNCHANGED thumbs /\ LiveRows' = LiveRows
    BY <1>2 DEF CleanUp, LiveRows
  <2>2. x.created => \A a \in LiveRows : rows[a].uri # x.content
    BY Remembered DEF Holds
  <2>3. FilesTypeOK' /\ HaveFiles'
    BY <2>1, <2>2 DEF Kept, FilesTypeOK, HaveFiles
  <2> QED BY <2>1, <2>3, Ends DEF LiveRows
<1> QED BY <1>1, <1>2

LEMMA DeleteObjectKept ==
    ASSUME Serial, Kept, NEW r \in Requests, DeleteObject(r)
    PROVE  Kept'
<1> DEFINE x == req[r]
<1>1. /\ files' \in {files, IF x.created THEN files \ {x.content} ELSE files} /\ objects' \subseteq objects
      /\ FileReturn(r) /\ UNCHANGED rows /\ UNCHANGED thumbs /\ LiveRows' = LiveRows
  BY DEF DeleteObject, LiveRows
<1>2. x.created => \A a \in LiveRows : rows[a].uri # x.content
  BY Remembered DEF Holds, DeleteObject, FileAt
<1>3. FilesTypeOK' /\ HaveFiles'
  BY <1>1, <1>2 DEF Kept, FilesTypeOK, HaveFiles
<1> QED BY <1>1, <1>3, Ends DEF LiveRows

LEMMA PutObjectKept ==
    ASSUME Serial, Kept, NEW r \in Requests, PutObject(r)
    PROVE  Kept'
<1> DEFINE x == req[r]
           q == [x EXCEPT !.put = TRUE, !.url = x.content,
                          !.pc = IF x.op = "replace" THEN "updateFile" ELSE "insert"]
<1>1. x.pc = "put_object" /\ Named(r) /\ Holds(r) /\ x \in Request /\ x.content \in Contents
  BY Remembered DEF PutObject, FileAt, Named, Request
<1>2. CASE /\ objects' = objects \cup {x.content} /\ FileSet(r, q)
           /\ UNCHANGED rows /\ UNCHANGED files /\ UNCHANGED thumbs
  <2>1. /\ q \in Request /\ SameAsked(q, x) /\ q.url = x.content /\ q.created = x.created
        /\ q.pc = IF x.op = "replace" THEN "updateFile" ELSE "insert"
    BY <1>1 DEF Request, Places, SameAsked
  <2> HIDE DEF q
  <2>2. req'[r] = q /\ LiveRows' = LiveRows
    BY <1>2, Remembered DEF FileSet, LiveRows
  <2>3. Named(r)'
    BY <1>1, <1>2, <2>1, <2>2 DEF Named, FileIdle, SameAsked
  <2>4. Holds(r)'
    BY <1>1, <1>2, <2>1, <2>2 DEF Holds, SameAsked
  <2> QED BY <1>1, <1>2, <2>1, <2>3, <2>4, Remembered, OnlyMoves DEF SameAsked
<1>3. CASE CleanUp(r)
  BY <1>1, <1>3, CleanUpKept
<1>4. CASE FileReturn(r) /\ UNCHANGED stores
  BY <1>4, EndsQuietly
<1> QED BY <1>2, <1>3, <1>4 DEF PutObject

LEMMA ReplaceFileKept ==
    ASSUME Serial, Kept, NEW r \in Requests, ReplaceFile(r)
    PROVE  Kept'
<1> DEFINE x == req[r]
<1>0. PICK pc \in {"put_object", "updateFile"} : FileGoto(r, pc)
  BY DEF ReplaceFile
<1> DEFINE q == [x EXCEPT !.pc = pc]
<1>1. x.pc = "replace_asset_file" /\ Named(r) /\ Holds(r) /\ x \in Request /\ x.content \in Contents
  BY Remembered DEF ReplaceFile, FileAt, Named, Request
<1>2. /\ files' = files \cup {x.content} /\ FileSet(r, q)
      /\ UNCHANGED rows /\ UNCHANGED objects /\ UNCHANGED thumbs
  BY <1>0 DEF ReplaceFile, FileGoto
<1>3. /\ q \in Request /\ SameAsked(q, x) /\ q.url = x.url /\ q.created = x.created
      /\ q.pc \in {"put_object", "updateFile"}
  BY <1>1 DEF Request, Places, SameAsked
<1> HIDE DEF q
<1>4. req'[r] = q /\ LiveRows' = LiveRows
  BY <1>2, Remembered DEF FileSet, LiveRows
<1>5. Named(r)'
  BY <1>1, <1>2, <1>3, <1>4 DEF Named, FileIdle, SameAsked
<1>6. Holds(r)'
  BY <1>1, <1>2, <1>3, <1>4 DEF Holds, SameAsked
<1> QED BY <1>1, <1>2, <1>3, <1>5, <1>6, Remembered, OnlyMoves DEF SameAsked

LEMMA GetContentKept ==
    ASSUME Serial, Kept, NEW r \in Requests, GetContent(r)
    PROVE  Kept'
<1> DEFINE x == req[r]
           q == [x EXCEPT !.pc = "import_file_asset", !.content = rows[x.asset].uri]
<1>1. x.pc = "get_asset_content" /\ Named(r) /\ Holds(r) /\ x \in Request /\ UNCHANGED stores
  BY Remembered DEF GetContent, FileAt
<1>2. CASE FileReturn(r)
  BY <1>1, <1>2, EndsQuietly
<1>3. CASE x.asset \in LiveRows /\ FileSet(r, q)
  <2>1. x.asset \in DOMAIN rows /\ rows[x.asset].uri \in Contents
    BY <1>3, Remembered DEF LiveRows, Row
  <2>2. /\ q \in Request /\ q.op = x.op /\ q.asset = x.asset /\ q.copy = x.copy /\ q.url = x.url
        /\ q.pc = "import_file_asset" /\ q.content = rows[x.asset].uri
    BY <1>1, <2>1 DEF Request, Places
  <2> HIDE DEF q
  <2>3. req'[r] = q
    BY <1>3, Remembered DEF FileSet
  <2>4. UNCHANGED rows /\ UNCHANGED files /\ UNCHANGED objects /\ UNCHANGED thumbs
    BY <1>1, StoresStay
  <2>5. Named(r)' /\ Holds(r)'
    BY <1>1, <2>1, <2>2, <2>3, <2>4, Remembered DEF Named, Holds, FileIdle, Serial
  <2> QED BY <1>3, <2>1, <2>2, <2>4, <2>5, Remembered, OnlyMoves
<1> QED BY <1>2, <1>3 DEF GetContent, FileReturn

LEMMA GetAssetKept ==
    ASSUME Serial, Kept, NEW r \in Requests, GetAsset(r)
    PROVE  Kept'
<1> DEFINE x == req[r]
<1>1. /\ x.pc = "get_asset" /\ Named(r) /\ Holds(r) /\ x \in Request
      /\ x.asset # None /\ UNCHANGED rows /\ UNCHANGED files /\ UNCHANGED objects
      /\ UNCHANGED thumbs /\ LiveRows' = LiveRows
  BY Remembered, StoresStay DEF GetAsset, FileAt, Named
<1>2. CASE FileReturn(r)
  BY <1>1, <1>2, EndsQuietly DEF GetAsset
<1>3. ASSUME x.asset \in LiveRows,
             NEW q \in Request, FileSet(r, q), q.op = x.op, q.asset = x.asset, q.copy = x.copy,
             q.created = x.created,
             \/ q.pc = "replace_asset_file" /\ x.op = "replace" /\ q.content = x.content
             \/ q.pc = "get_asset_content" /\ x.op \in {"copy", "move"} /\ q.content = x.content
             \/ q.pc = "update_asset" /\ q.content = x.content
             \/ q.pc = "get_asset_thumbnail" /\ q.content = rows[x.asset].uri
             \/ q.pc = "delete_asset" /\ q.content = x.content
      PROVE  Kept'
  <2>1. x.asset \in DOMAIN rows /\ rows[x.asset].uri \in Contents
    BY <1>3, Remembered DEF LiveRows, Row
  <2>2. req'[r] = q
    BY <1>3, Remembered DEF FileSet
  <2>3. Named(r)'
    BY <1>1, <1>3, <2>1, <2>2 DEF Named, FileIdle, Serial
  <2>4. Holds(r)'
    BY <1>1, <1>3, <2>1, <2>2 DEF Holds
  <2> QED BY <1>1, <1>3, <2>1, <2>3, <2>4, Remembered, OnlyMoves
<1>4. CASE x.asset \in LiveRows /\ ~FileReturn(r)
  <2> DEFINE row == rows[x.asset]
  <2>1. row.url \in Contents \cup {None} /\ row.uri \in Contents
    BY <1>4, Remembered DEF LiveRows, Row
  <2>2. CASE x.op = "replace"
    <3> DEFINE q == [x EXCEPT !.pc = "replace_asset_file", !.url = row.url]
    <3>1. FileSet(r, q)
      BY <1>4, <2>2 DEF GetAsset
    <3>2. q \in Request /\ SameAsked(q, x) /\ q.created = x.created /\ q.pc = "replace_asset_file"
      BY <1>1, <2>1 DEF Request, Places, SameAsked
    <3> HIDE DEF q
    <3> QED BY <1>3, <1>4, <2>2, <3>1, <3>2 DEF SameAsked
  <2>3. CASE x.op \in {"copy", "move"}
    <3> DEFINE q == [x EXCEPT !.pc = "get_asset_content"]
    <3>1. FileSet(r, q)
      BY <1>4, <2>3 DEF GetAsset
    <3>2. q \in Request /\ SameAsked(q, x) /\ q.created = x.created /\ q.pc = "get_asset_content"
      BY <1>1 DEF Request, Places, SameAsked
    <3> HIDE DEF q
    <3> QED BY <1>3, <1>4, <2>3, <3>1, <3>2 DEF SameAsked
  <2>4. CASE x.op = "edit"
    <3> DEFINE q == [x EXCEPT !.pc = "update_asset", !.url = row.url]
    <3>1. FileSet(r, q)
      BY <1>4, <2>4 DEF GetAsset
    <3>2. q \in Request /\ SameAsked(q, x) /\ q.created = x.created /\ q.pc = "update_asset"
      BY <1>1, <2>1 DEF Request, Places, SameAsked
    <3> HIDE DEF q
    <3> QED BY <1>3, <1>4, <3>1, <3>2 DEF SameAsked
  <2>5. CASE x.op = "thumbnail"
    <3> DEFINE q == [x EXCEPT !.pc = "get_asset_thumbnail", !.content = row.uri]
    <3>1. FileSet(r, q)
      BY <1>4, <2>5 DEF GetAsset
    <3>2. /\ q \in Request /\ q.op = x.op /\ q.asset = x.asset /\ q.copy = x.copy
          /\ q.created = x.created /\ q.pc = "get_asset_thumbnail" /\ q.content = row.uri
      BY <1>1, <2>1 DEF Request, Places
    <3> HIDE DEF q
    <3> QED BY <1>3, <1>4, <3>1, <3>2
  <2>6. CASE x.op = "delete"
    <3> DEFINE q == [x EXCEPT !.pc = "delete_asset"]
    <3>1. FileSet(r, q)
      BY <1>4, <2>6 DEF GetAsset
    <3>2. q \in Request /\ SameAsked(q, x) /\ q.created = x.created /\ q.pc = "delete_asset"
      BY <1>1 DEF Request, Places, SameAsked
    <3> HIDE DEF q
    <3> QED BY <1>3, <1>4, <3>1, <3>2 DEF SameAsked
  <2> QED BY <1>1, <2>2, <2>3, <2>4, <2>5, <2>6 DEF Named
<1> QED BY <1>2, <1>4 DEF GetAsset

\* Rows that a request changes, and the file of the one it names.
LEMMA UpdateFileKept ==
    ASSUME Serial, Kept, NEW r \in Requests, UpdateFile(r)
    PROVE  Kept'
<1> DEFINE x == req[r]
<1>1. /\ x.asset \in DOMAIN rows /\ x.content \in files /\ x.content \in Contents
      /\ x.url \in Contents \cup {None}
  BY Remembered DEF UpdateFile, FileAt, Named, Holds, Request
<1>2. /\ FileReturn(r) /\ UNCHANGED files /\ UNCHANGED objects /\ thumbs' \subseteq thumbs
      /\ rows' = [rows EXCEPT ![x.asset].uri = x.content, ![x.asset].url = x.url]
  BY DEF UpdateFile
<1>3. /\ DOMAIN rows' = DOMAIN rows /\ \A a \in DOMAIN rows : a # x.asset => rows'[a] = rows[a]
      /\ rows'[x.asset] = [uri |-> x.content, url |-> x.url, live |-> rows[x.asset].live]
  BY <1>1, <1>2, Remembered DEF Row
<1>4. FilesTypeOK' /\ HaveFiles'
  BY <1>1, <1>2, <1>3, Remembered DEF Kept, FilesTypeOK, HaveFiles, LiveRows, Row
<1>5. \A a \in LiveRows' : (a \in LiveRows /\ rows'[a].uri = rows[a].uri) \/ rows'[a].uri = x.content
  BY <1>3 DEF LiveRows
<1> QED BY <1>2, <1>3, <1>4, <1>5, Ends

LEMMA UpdateAssetKept ==
    ASSUME Serial, Kept, NEW r \in Requests, RewriteRow(r)
    PROVE  Kept'
<1> DEFINE x == req[r]
<1>1. x.asset \in DOMAIN rows /\ x.url \in Contents \cup {None}
  BY Remembered DEF RewriteRow, FileAt, Named, Request
<1>2. PICK url \in Contents \cup {None} :
        /\ rows' = [rows EXCEPT ![x.asset].url = url]
        /\ FileReturn(r) /\ UNCHANGED files /\ UNCHANGED objects /\ UNCHANGED thumbs
  BY <1>1 DEF RewriteRow
<1>3. /\ DOMAIN rows' = DOMAIN rows /\ \A a \in DOMAIN rows : a # x.asset => rows'[a] = rows[a]
      /\ rows'[x.asset] = [uri |-> rows[x.asset].uri, url |-> url, live |-> rows[x.asset].live]
  BY <1>1, <1>2, Remembered DEF Row
<1>4. FilesTypeOK' /\ HaveFiles'
  BY <1>1, <1>2, <1>3, Remembered DEF Kept, FilesTypeOK, HaveFiles, LiveRows, Row
<1>5. \A a \in LiveRows' : a \in LiveRows /\ rows'[a].uri = rows[a].uri
  BY <1>3 DEF LiveRows
<1> QED BY <1>2, <1>3, <1>4, <1>5, Ends

LEMMA DeleteAssetKept ==
    ASSUME Serial, Kept, NEW r \in Requests, DeleteAsset(r)
    PROVE  Kept'
<1> DEFINE x == req[r]
<1>1. x.asset \in DOMAIN rows
  BY Remembered DEF DeleteAsset, FileAt, Named
<1>2. /\ FileReturn(r) /\ UNCHANGED files /\ UNCHANGED objects /\ UNCHANGED thumbs
      /\ rows' = [rows EXCEPT ![x.asset].live = FALSE]
  BY DEF DeleteAsset
<1>3. /\ DOMAIN rows' = DOMAIN rows /\ \A a \in DOMAIN rows : a # x.asset => rows'[a] = rows[a]
      /\ rows'[x.asset] = [uri |-> rows[x.asset].uri, url |-> rows[x.asset].url, live |-> FALSE]
  BY <1>1, <1>2, Remembered DEF Row
<1>4. \A a \in LiveRows' : a \in LiveRows /\ rows'[a] = rows[a]
  BY <1>3 DEF LiveRows
<1>5. FilesTypeOK'
  <2> DEFINE new == [uri |-> rows[x.asset].uri, url |-> rows[x.asset].url, live |-> FALSE]
  <2>1. rows[x.asset].uri \in Contents /\ rows[x.asset].url \in Contents \cup {None}
    BY <1>1 DEF Kept, FilesTypeOK
  <2>2. new \in [uri : Contents, url : Contents \cup {None}, live : BOOLEAN]
    BY <2>1
  <2>3. rows'[x.asset] = new
    BY <1>3
  <2>4. \A a \in DOMAIN rows' : rows'[a] \in [uri : Contents, url : Contents \cup {None}, live : BOOLEAN]
    <3> HIDE DEF new
    <3> QED BY <1>3, <2>2, <2>3 DEF Kept, FilesTypeOK
  <2> QED BY <1>2, <1>3, <2>4 DEF Kept, FilesTypeOK
<1>6. HaveFiles'
  BY <1>2, <1>4 DEF Kept, HaveFiles
<1> QED BY <1>2, <1>3, <1>4, <1>5, <1>6, Ends

LEMMA ThumbnailKept ==
    ASSUME Serial, Kept, NEW r \in Requests, Thumbnail(r)
    PROVE  Kept'
<1> DEFINE x == req[r]
<1>1. x.asset \in AssetIds /\ x.content \in Contents
  BY Remembered DEF Thumbnail, FileAt, Named, Request
<1>2. /\ FileReturn(r) /\ UNCHANGED rows /\ UNCHANGED files /\ UNCHANGED objects /\ LiveRows' = LiveRows
      /\ thumbs' \subseteq thumbs \cup {<<x.asset, x.content>>}
  BY DEF Thumbnail, LiveRows
<1>3. FilesTypeOK' /\ HaveFiles'
  BY <1>1, <1>2 DEF Kept, FilesTypeOK, HaveFiles
<1> QED BY <1>2, <1>3, Ends DEF LiveRows

\* The new row is apart from everything the others are about.
LEMMA InsertRowKept ==
    ASSUME Serial, Kept, NEW r \in Requests, InsertRow(r)
    PROVE  Kept'
<1> DEFINE x == req[r]
<1>1. /\ x.pc = "insert" /\ x.content \in files /\ x.content \in Contents
      /\ x.url \in Contents \cup {None} /\ x \in Request
  BY Remembered DEF InsertRow, FileAt, Named, Holds, Request
<1>2. CASE CleanUp(r)
  BY <1>1, <1>2, CleanUpKept
<1>3. ASSUME NEW a \in AssetIds \ DOMAIN rows,
             rows' = WithFileRow(a, [uri |-> x.content, url |-> x.url, live |-> TRUE]),
             FileSet(r, IF x.op = "move" THEN [x EXCEPT !.pc = "get_asset", !.op = "delete", !.copy = a]
                    ELSE FileReturned),
             UNCHANGED files /\ UNCHANGED objects /\ UNCHANGED thumbs
      PROVE  Kept'
  <2>1. /\ DOMAIN rows' = DOMAIN rows \cup {a} /\ \A b \in DOMAIN rows : rows'[b] = rows[b]
        /\ rows'[a] = [uri |-> x.content, url |-> x.url, live |-> TRUE]
    BY <1>3 DEF WithFileRow
  <2>2. FilesTypeOK' /\ HaveFiles'
    <3> DEFINE new == [uri |-> x.content, url |-> x.url, live |-> TRUE]
    <3>1. new \in [uri : Contents, url : Contents \cup {None}, live : BOOLEAN]
      BY <1>1
    <3>2. rows'[a] = new
      BY <2>1
    <3>a. \A b \in DOMAIN rows' : rows'[b] \in [uri : Contents, url : Contents \cup {None}, live : BOOLEAN]
      <4> HIDE DEF new
      <4> QED BY <2>1, <3>1, <3>2 DEF Kept, FilesTypeOK
    <3>b. FilesTypeOK'
      BY <1>3, <2>1, <3>a DEF Kept, FilesTypeOK
    <3>3. \A b \in LiveRows' : b = a \/ (b \in LiveRows /\ rows'[b] = rows[b])
      BY <2>1 DEF LiveRows
    <3>4. HaveFiles'
      <4>1. rows'[a].uri = x.content
        BY <2>1
      <4> QED BY <1>1, <1>3, <4>1, <3>3 DEF Kept, HaveFiles
    <3> QED BY <3>b, <3>4
  <2>3. \A b \in LiveRows' : (b \in LiveRows /\ rows'[b].uri = rows[b].uri) \/ rows'[b].uri = x.content
    BY <2>1 DEF LiveRows
  <2>4. CASE x.op # "move"
    BY <1>3, <2>1, <2>2, <2>3, <2>4, Ends DEF FileReturn
  <2>5. CASE x.op = "move"
    <3> DEFINE q == [x EXCEPT !.pc = "get_asset", !.op = "delete", !.copy = a]
    <3>1. FileSet(r, q)
      BY <1>3, <2>5
    <3>2. /\ q \in Request /\ q.pc = "get_asset" /\ q.op = "delete" /\ q.copy = a
          /\ q.asset = x.asset /\ q.content = x.content
      BY <1>1 DEF Request, Places
    <3> HIDE DEF q
    <3>3. req'[r] = q /\ (\A o \in Requests \ {r} : req'[o] = req[o]) /\ (req \in [Requests -> Request])'
      BY <3>1, <3>2, Remembered DEF FileSet
    <3>4. Topic(r)' \subseteq Topic(r) \cup {a}
      BY <2>1, <3>2, <3>3, Remembered DEF Topic, About, Named, Serial
    <3>5. Frame(r)
      BY <1>3, <2>1, <2>3, <3>3, <3>4 DEF Frame
    <3>6. Named(r)' /\ Holds(r)'
      BY <1>1, <2>1, <2>5, <3>2, <3>3, Remembered DEF Named, Holds, FileIdle, Serial
    <3> QED BY <2>2, <3>3, <3>5, <3>6, OthersKept DEF Own
  <2> QED BY <2>4, <2>5
<1> QED BY <1>2, <1>3 DEF InsertRow

----------------------------------------------------------------------------
(* The theorems.                                                              *)

LEMMA KeptInit == ASSUME Serial, Init PROVE Kept
<1>1. req \in [Requests -> Request] /\ \A r \in Requests : Named(r) /\ Holds(r) /\ Topic(r) \subseteq {None}
  BY DEF Init, BlankFile, Request, Places, Named, Holds, FileIdle, Topic, About, Serial
<1>2. FilesTypeOK /\ HaveFiles
  BY DEF Init, Serial, Row, FilesTypeOK, HaveFiles, LiveRows
<1> QED BY <1>1, <1>2 DEF Kept, Apart

LEMMA KeptNext == ASSUME Serial, Kept, [Next]_vars PROVE Kept'
<1>1. CASE UNCHANGED vars
  <2>1. UNCHANGED rows /\ UNCHANGED files /\ UNCHANGED objects /\ UNCHANGED thumbs /\ UNCHANGED req
    BY <1>1 DEF vars, stores
  <2>2. FilesTypeOK' /\ HaveFiles' /\ LiveRows' = LiveRows
    BY <2>1 DEF Kept, FilesTypeOK, HaveFiles, LiveRows
  <2>3. \A r \in Requests : Named(r)' /\ Holds(r)' /\ Topic(r)' = Topic(r)
    BY <2>1, <2>2 DEF Kept, Named, Holds, FileIdle, Topic, About
  <2> QED BY <2>1, <2>2, <2>3 DEF Kept, Apart
<1>2. ASSUME NEW r \in Requests, FileCall(r) \/ FileStep(r) \/ Cancel(r) PROVE Kept'
  <2>1. CASE FileCall(r)
    BY <2>1, CallKept
  <2>2. CASE Cancel(r)
    BY <2>2, EndsQuietly DEF Cancel
  <2>3. CASE FileStep(r)
    BY <2>3, CheckImportKept, PutBytesKept, PutObjectKept, InsertRowKept, DeleteObjectKept,
       GetAssetKept, ReplaceFileKept, UpdateFileKept, UpdateAssetKept, DeleteAssetKept,
       GetContentKept, ThumbnailKept DEF FileStep
  <2> QED BY <1>2, <2>1, <2>2, <2>3
<1> QED BY <1>1, <1>2 DEF Next

\* No import that fails, is cancelled or has its content in common with an earlier asset
\* takes the file of a live row away (import_file_asset's except clause), and what is
\* stored stays well formed.
THEOREM FilesAlwaysKept == ASSUME Serial PROVE Spec => []FilesKept
<1>1. Init => Kept
  BY KeptInit
<1>2. Kept /\ [Next]_vars => Kept'
  BY KeptNext
<1>3. Kept => FilesKept
  BY DEF Kept, FilesKept
<1> QED BY <1>1, <1>2, <1>3, PTL DEF Spec

----------------------------------------------------------------------------
(* A move deletes its source only beside its copy.                            *)

\* What a move is about to insert is the content its source has, and the copy it
\* has made is live, is not the source, and has that content.
Moving(r) ==
    LET q == req[r] IN
    /\ q.op = "move" /\ q.pc \in {"import_file_asset", "put_bytes", "put_object", "insert"} =>
          q.content = rows[q.asset].uri
    /\ q.pc = "replace_asset_file" => q.op = "replace"
    /\ q.copy # None =>
          /\ q.op = "delete" /\ q.pc \in {"get_asset", "delete_asset"}
          /\ q.copy \in LiveRows /\ q.copy # q.asset /\ rows[q.copy].uri = rows[q.asset].uri

Moved == Kept /\ \A r \in Requests : Moving(r)

\* A step touches at most the row its request names, and adds others.
Touches(r) ==
    /\ \A o \in Requests \ {r} : req'[o] = req[o]
    /\ DOMAIN rows \subseteq DOMAIN rows'
    /\ \A a \in DOMAIN rows : a # req[r].asset => rows'[a] = rows[a]

LEMMA StepTouches ==
    ASSUME Serial, Kept, NEW r \in Requests, FileCall(r) \/ FileStep(r) \/ Cancel(r)
    PROVE  Touches(r)
<1>1. \A o \in Requests \ {r} : req'[o] = req[o]
  BY Remembered
     DEF FileCall, FileStep, Cancel, CheckImport, PutBytes, PutObject, CleanUp, InsertRow, DeleteObject, GetAsset,
         ReplaceFile, UpdateFile, RewriteRow, DeleteAsset, GetContent, Thumbnail, FileReturn, FileGoto, FileSet
<1>2. CASE UNCHANGED rows
  BY <1>1, <1>2 DEF Touches
<1>3. CASE UpdateFile(r) \/ RewriteRow(r) \/ DeleteAsset(r)
  <2>1. DOMAIN rows' = DOMAIN rows /\ \A a \in DOMAIN rows : a # req[r].asset => rows'[a] = rows[a]
    <3>1. CASE UpdateFile(r)
      BY <3>1 DEF UpdateFile
    <3>2. CASE RewriteRow(r)
      BY <3>2 DEF RewriteRow
    <3>3. CASE DeleteAsset(r)
      BY <3>3 DEF DeleteAsset
    <3> QED BY <1>3, <3>1, <3>2, <3>3
  <2> QED BY <1>1, <2>1 DEF Touches
<1>4. CASE InsertRow(r) /\ ~UNCHANGED rows
  <2>1. PICK a \in AssetIds \ DOMAIN rows : \E row : rows' = WithFileRow(a, row)
    BY <1>4 DEF InsertRow, CleanUp, stores
  <2>2. DOMAIN rows' = DOMAIN rows \cup {a} /\ \A b \in DOMAIN rows : rows'[b] = rows[b]
    BY <2>1 DEF WithFileRow
  <2> QED BY <1>1, <2>2 DEF Touches
<1>5. \/ UNCHANGED rows
      \/ UpdateFile(r) \/ RewriteRow(r) \/ DeleteAsset(r)
      \/ InsertRow(r) /\ ~UNCHANGED rows
  BY DEF FileCall, FileStep, Cancel, CheckImport, PutBytes, PutObject, CleanUp, DeleteObject, GetAsset,
         ReplaceFile, GetContent, Thumbnail, stores
<1> QED BY <1>2, <1>3, <1>4, <1>5

LEMMA OthersMove ==
    ASSUME Serial, Moved, NEW r \in Requests, Touches(r), NEW o \in Requests \ {r}
    PROVE  Moving(o)'
<1>1. /\ req'[o] = req[o] /\ Moving(o) /\ Named(o) /\ None \notin DOMAIN rows
      /\ req[o].asset \in DOMAIN rows \cup {None} /\ req[o].copy \in DOMAIN rows \cup {None}
  BY Remembered DEF Touches, Moved, Kept, Named
<1>2. req[o].asset # None => req[o].asset \in DOMAIN rows' /\ rows'[req[o].asset] = rows[req[o].asset]
  <2>1. req[o].asset # None => req[o].asset # req[r].asset
    BY TopicOf DEF Moved, Kept, Apart
  <2> QED BY <1>1, <2>1 DEF Touches
<1>3. req[o].copy # None => req[o].copy \in DOMAIN rows' /\ rows'[req[o].copy] = rows[req[o].copy]
  <2>1. req[o].copy # None => req[o].copy # req[r].asset
    BY TopicOf DEF Moved, Kept, Apart
  <2> QED BY <1>1, <2>1 DEF Touches
<1>4. ~FileIdle(o) /\ req[o].op = "move" => req[o].asset # None
  BY <1>1 DEF Named
<1>5. req[o].copy # None => req[o].asset # None
  BY <1>1 DEF Named, Moving
<1> QED BY <1>1, <1>2, <1>3, <1>4, <1>5 DEF Moving, LiveRows, FileIdle

\* A request that returns is not moving any more.
LEMMA ReturnMoves == ASSUME Serial, Kept, NEW r \in Requests, FileReturn(r) PROVE Moving(r)'
<1>1. req'[r] = FileReturned /\ FileReturned.op = None /\ FileReturned.pc = "done" /\ FileReturned.copy = None
  BY Remembered DEF FileReturn, FileSet, FileReturned, BlankFile
<1> QED BY <1>1 DEF Moving

\* One that goes on with what it had, before the insert, has the same to move.
LEMMA GoesOnMoving ==
    ASSUME Serial, Moved, NEW r \in Requests, NEW q, FileSet(r, q), UNCHANGED rows,
           req[r].pc \notin {"get_asset", "delete_asset"},
           q.op = req[r].op, q.asset = req[r].asset, q.copy = req[r].copy,
           q.pc # "replace_asset_file",
           q.op = "move" /\ q.pc \in {"import_file_asset", "put_bytes", "put_object", "insert"} =>
             q.content = rows[q.asset].uri
    PROVE  Moving(r)'
<1>1. req'[r] = q /\ Moving(r)
  BY Remembered DEF FileSet, Moved
<1> QED BY <1>1 DEF Moving

LEMMA OwnMoves ==
    ASSUME Serial, Moved, NEW r \in Requests, FileCall(r) \/ FileStep(r) \/ Cancel(r)
    PROVE  Moving(r)'
<1> DEFINE x == req[r]
<1>0. Kept /\ Moving(r) /\ Named(r) /\ x \in Request /\ \A q : FileSet(r, q) => req'[r] = q
  BY Remembered DEF Moved, FileSet
<1>1. CASE FileReturn(r)
  BY <1>0, <1>1, ReturnMoves
<1>2. CASE FileCall(r)
  <2>1. PICK q \in FileCalls : FileSet(r, q)
    BY <1>2 DEF FileCall
  <2>2. q.copy = None /\ q.pc # "replace_asset_file" /\ (q.op = "move" => q.pc = "get_asset")
    <3>1. CASE \E c \in Contents, p \in BOOLEAN : q = PostBytes(c, p)
      BY <3>1 DEF PostBytes, BlankFile
    <3>2. CASE \E a \in AssetIds, op \in {"replace", "edit", "thumbnail", "delete", "copy", "move"},
                  c \in Contents : q \in {OnAsset(op, a), [OnAsset(op, a) EXCEPT !.content = c]}
      BY <3>2 DEF OnAsset, BlankFile
    <3>3. CASE \E a \in AssetIds : q = GetContentOf(a)
      BY <3>3 DEF GetContentOf, OnAsset, BlankFile
    <3>4. CASE \E a \in AssetIds, op \in {"edit", "thumbnail", "delete", "copy", "move"} : q = OnAsset(op, a)
      BY <3>4 DEF OnAsset, BlankFile
    <3> QED BY <2>1, <3>1, <3>2, <3>3, <3>4
            DEF FileCalls, PutFile, PatchRow, GetThumbnail, RemoveRow, PostTransferOf
  <2> QED BY <1>0, <2>1, <2>2 DEF Moving
<1>3. CASE CheckImport(r) /\ ~FileReturn(r)
  BY <1>0, <1>3, GoesOnMoving, StoresStay DEF CheckImport, FileGoto, Moving, FileAt, Request
<1>4. CASE PutBytes(r)
  BY <1>0, <1>4, GoesOnMoving DEF PutBytes, Moving, FileAt, Request
<1>5. ASSUME CleanUp(r), x.pc \in {"put_object", "insert"} PROVE Moving(r)'
  BY <1>0, <1>1, <1>5, GoesOnMoving, StoresStay DEF CleanUp, FileGoto, Request
<1>6. CASE PutObject(r)
  <2> DEFINE q == [x EXCEPT !.put = TRUE, !.url = x.content,
                            !.pc = IF x.op = "replace" THEN "updateFile" ELSE "insert"]
  <2>1. x.pc = "put_object"
    BY <1>6 DEF PutObject, FileAt
  <2>2. CASE FileSet(r, q) /\ UNCHANGED rows
    <3>1. q.op = x.op /\ q.asset = x.asset /\ q.copy = x.copy /\ q.content = x.content /\ q.pc \in {"updateFile", "insert"}
      BY <1>0 DEF Request
    <3> HIDE DEF q
    <3> QED BY <1>0, <2>1, <2>2, <3>1, GoesOnMoving DEF Moving
  <2> QED BY <1>1, <1>5, <1>6, <2>1, <2>2 DEF PutObject
<1>7. CASE DeleteObject(r) \/ UpdateFile(r) \/ RewriteRow(r) \/ DeleteAsset(r) \/ Thumbnail(r) \/ Cancel(r)
  BY <1>1, <1>7 DEF DeleteObject, UpdateFile, RewriteRow, DeleteAsset, Thumbnail, Cancel
<1>8. CASE ReplaceFile(r)
  <2>1. x.pc = "replace_asset_file" /\ UNCHANGED rows
        /\ (FileGoto(r, "put_object") \/ FileGoto(r, "updateFile"))
    BY <1>8 DEF ReplaceFile, FileAt
  <2> QED BY <1>0, <2>1, GoesOnMoving DEF FileGoto, Moving, Request
<1>9. CASE GetContent(r) /\ ~FileReturn(r)
  BY <1>0, <1>9, GoesOnMoving, StoresStay DEF GetContent, FileReturn, FileAt, Request
<1>10. CASE GetAsset(r) /\ ~FileReturn(r)
  BY <1>0, <1>10, StoresStay DEF GetAsset, Moving, FileAt, Request, Named
<1>11. CASE InsertRow(r) /\ ~CleanUp(r) /\ ~FileReturn(r)
  <2>1. /\ x.pc = "insert" /\ x.op = "move" /\ x.content = rows[x.asset].uri /\ x.asset \in DOMAIN rows
        /\ x.asset # None
    BY <1>0, <1>11, Remembered DEF InsertRow, FileAt, FileReturn, Moving, Named, FileIdle
  <2>2. PICK a \in AssetIds \ DOMAIN rows :
          /\ rows' = WithFileRow(a, [uri |-> x.content, url |-> x.url, live |-> TRUE])
          /\ FileSet(r, [x EXCEPT !.pc = "get_asset", !.op = "delete", !.copy = a])
    BY <1>11, <2>1 DEF InsertRow
  <2>3. /\ DOMAIN rows' = DOMAIN rows \cup {a} /\ \A b \in DOMAIN rows : rows'[b] = rows[b]
        /\ rows'[a].uri = x.content /\ rows'[a].live
    BY <2>2 DEF WithFileRow
  <2> DEFINE q == [x EXCEPT !.pc = "get_asset", !.op = "delete", !.copy = a]
  <2>4. q.pc = "get_asset" /\ q.op = "delete" /\ q.copy = a /\ q.asset = x.asset
    BY <1>0 DEF Request
  <2> HIDE DEF q
  <2>5. req'[r] = q
    BY <1>0, <2>2 DEF q
  <2> QED BY <2>1, <2>3, <2>4, <2>5 DEF Moving, LiveRows
<1>12. CASE InsertRow(r) /\ CleanUp(r)
  BY <1>5, <1>12 DEF InsertRow, FileAt
<1> QED BY <1>1, <1>2, <1>3, <1>4, <1>6, <1>7, <1>8, <1>9, <1>10, <1>11, <1>12 DEF FileStep

LEMMA MovedNext == ASSUME Serial, Moved, [Next]_vars PROVE Moved'
<1>1. Kept'
  BY KeptNext DEF Moved
<1>2. CASE UNCHANGED vars
  BY <1>1, <1>2 DEF vars, stores, Moved, Moving, LiveRows
<1>3. ASSUME NEW r \in Requests, FileCall(r) \/ FileStep(r) \/ Cancel(r) PROVE Moved'
  BY <1>1, <1>3, StepTouches, OthersMove, OwnMoves DEF Moved
<1> QED BY <1>2, <1>3 DEF Next

\* When a move deletes its source (move_asset), a live asset beside it has the
\* content of the source.
THEOREM ContentAlwaysMoves == ASSUME Serial PROVE Spec => [][ContentMoves]_vars
<1>1. Init => Moved
  BY KeptInit DEF Init, BlankFile, Moved, Moving
<1>2. Moved /\ [Next]_vars => Moved'
  BY MovedNext
<1>3. Moved /\ [Next]_vars => ContentMoves \/ UNCHANGED vars
  <2> SUFFICES ASSUME Moved, Next, NEW r \in Requests, req[r].copy # None, FileAt(r, "delete_asset"),
                      req'[r] # req[r], rows' # rows
               PROVE  \E a \in LiveRows \ {req[r].asset} : rows'[a].live /\ rows'[a].uri = rows[req[r].asset].uri
    BY DEF ContentMoves
  <2>1. PICK o \in Requests : FileCall(o) \/ FileStep(o) \/ Cancel(o)
    BY DEF Next
  <2>2. Touches(o) /\ o = r
    BY <2>1, StepTouches DEF Moved, Touches
  <2>3. req[r].copy \in LiveRows /\ req[r].copy # req[r].asset /\ rows[req[r].copy].uri = rows[req[r].asset].uri
    BY DEF Moved, Moving
  <2>4. rows'[req[r].copy] = rows[req[r].copy]
    BY <2>2, <2>3 DEF Touches, LiveRows
  <2> QED BY <2>3, <2>4 DEF LiveRows
<1> QED BY <1>1, <1>2, <1>3, PTL DEF Spec

----------------------------------------------------------------------------
(* A move, in the library and among the files.                                *)

\* When a move deletes its source, a live asset has the source's content, and one
\* has its name and each of its tags.
MovesLoseNothing == [][TagsMove /\ ContentMoves]_<<libraryVars, vars>>

\* In a library of any size no move that runs alone loses a tag or its name, and none
\* loses its content when the requests under way are about different files (Serial).
THEOREM NothingLostByMoves ==
  ASSUME CallsAssumption, IdsAssumption, MovesAssumption, Serial
  PROVE  StartInOrder /\ LibrarySpec /\ Spec => MovesLoseNothing
<1>1. StartInOrder /\ LibrarySpec => [][TagsMove]_libraryVars
  BY TagsAlwaysMove
<1>2. Spec => [][ContentMoves]_vars
  BY ContentAlwaysMoves
<1>3. UNCHANGED libraryVars => TagsMove
  BY DEF libraryVars, TagsMove
<1>4. UNCHANGED vars => ContentMoves
  BY DEF vars, ContentMoves
<1> QED BY <1>1, <1>2, <1>3, <1>4, PTL DEF MovesLoseNothing
=============================================================================
