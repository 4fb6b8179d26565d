# XiAgent in TLA+

XiAgent runs workflows (directed graphs of AI, tool and human nodes) as tasks:
it schedules the nodes, keeps every attempt in SQLite, stops for human input,
lets nodes be rerun, and streams what happens to a page. This directory holds
TLA+ modules of the parts where order and overlap matter, the TLC runs that check
them on small instances, and proofs that TLAPS checks for all instances.

Paths below are relative to the repository: `src/xiagent/...` is the Python
package, `src/ui/...` the web pages, `src/docs`, `src/tests`, `src/workflows` the
rest. `service.py` alone means `src/xiagent/runtime/service.py`.

## 1. Inventory

| Component | State it keeps | Operations | Interacts with | What is hard | What makes it correct |
|---|---|---|---|---|---|
| Task runtime, `runtime/service.py` | rows of `tasks`, `node_executions`, `task_events` (SQLite) | create, resume with output, resume with form input, save draft, rerun, delete, read | calls nodes (minutes long), the store, users; called by the API | a request awaits at every database call, and requests on one task are not serialised; status, view, rows and events are four records of one truth; crashes | one current execution per node, history kept, inputs from current outputs, joins wait, no task left running without a reason, view and events agree with rows |
| Contract, validator, scheduler, `workflows/validator.py`, `service.py:1138-1256` | none: a contract is immutable | validate; ready nodes from outputs and executions | read by the runtime loop | conditions, joins over branches that may or may not come | acyclic, all nodes reachable and convergent; a join neither starts early nor waits for ever |
| Execution store, `runtime/execution_store.py`, `infrastructure/database.py` | the tables | list, cursor queries, insert event | one connection per call, commit at normal exit, rollback on exception | SELECTs before the first write are outside the transaction | each row change carries its event |
| Event stream, `api/routers/tasks.py:273` and the V2 task page | a cursor per stream; the page's detail and live events | poll, yield, stop; fetch detail, refresh | reads store and task | events between two reads; the stream's end | the page ends up showing the task as it is |
| AI interactions, `api/routers/tasks.py:386-667` | none beside the task's rows | started event, provider calls, draft, last event | runtime drafts and events, model router | the node may be answered or rerun, and the task deleted, during the calls; the client may go away | each recorded start gets one end, in order; drafts keep one another's fields |
| Asset library, `assets/service.py`, `local_storage.py`, `api/routers/assets.py` | rows of assets, tags, collections, index entries; files named by their content | create, import, intelligent upload, copy, move, transfer, publish, update, replace, delete, tags, collections, search | users, object storage, model router | checks and writes are separate transactions; rows and files change in separate steps | names unique, entries point to what exists in their project, no live row without its file, a move loses nothing, a search finds what fits |
| Asset generation, `assets/generation.py` | jobs, in memory | create, run, get | providers, asset library | runs after its response; a restart forgets it | succeeded only with its image |
| Object storage, `infrastructure/object_storage/` | objects by content | put, delete, URL | asset library | fails on its own | as the library's |
| Providers, `models/` | none; RunningHub has jobs | submit, poll to the deadline; chat | nodes, capabilities | deadline against a late answer, half answers | a result that arrives in time is used; every call ends |
| AI nodes and capabilities, `nodes/ai/`, `ai/` | none | calls with retries; gather; review and refine | providers | one of several failing while the others go on; bounds | bounded attempts and rounds; a text carries its own review; nothing missing in a success |
| Tool nodes, `nodes/tools/` | none | look assets up, match, filter, complete; reshape JSON | asset library | the library changes between search and reading; limits; spellings of one identity | each item gets the best asset found, or is kept for generation |
| System nodes, `nodes/system/` | none | ask and wait | runtime | - | as the runtime's |
| Users and projects, `users/`, `api/dependencies.py`, `api/routers/auth.py` | users, projects; tokens in memory | register, log in, create project, check access | all | the check is long past when the write comes; restarts | access follows ownership |
| Catalog and templates, `workflows/service.py`, `service.py:1519-1580` | contracts in memory; `workflow_templates` rows | load, list, find or create | runtime | find, then create | a task's template is one of its contract |
| Migrations, `infrastructure/migrations.py` | the schema and the rows of an old database | one run per start | startup | names that clash only after scopes are merged; databases upgraded half way by earlier versions | a start succeeds, loses nothing, renames only what it must |
| Testing runner, UI controls, config, API wiring, V1 UI, LangGraph stub | none | - | - | pure, or a tool | - |


`PROJECT.json` repeats this list with the modules of each part and lists the
hazards, each at its line.

## 2. Modules

    WorkflowGraph      the contract as a graph, and the scheduler's functions on it
    TaskRuntime        one task: rows, requests, one action per transaction or read
    TaskProperties     what the rows promise: types, invariants, action properties, progress
    TaskBoard          the abstract task: what a client sees of each node, and the phase
    TaskProofs         types, executions, history, attempts, answers, the board, events, proved
    OutcomeProofs      what the scheduler promises and what the task row says, proved
    TaskInteraction    AI interactions and drafts on nodes that wait
    InteractionProofs  no draft loses another's, interactions tell one story, proved
    TaskStream         the cursor loop that serves a task's events to one client
    EventStream        the stream beside requests that write events
    TaskPage           the task page: detail reads, stream, refreshes, own requests
    PageProofs         a stream skips nothing, the page shows what it received, proved
    ServiceNames       what the services beside the runtime are asked about
    AssetRoutes        the requests the library's routes make of its service
    AssetLibrary       rows of the library and the service's methods, call by call
    LibraryProofs      unique names, references in their project, complete searches, moved tags, proved
    AssetFiles         the bytes: files, objects, public URLs, thumbnails
    FilesProofs        no live asset loses its file, moves lose nothing, proved
    Platform           accounts, tokens, projects, templates, across restarts
    PlatformProofs     every task lies where its user may put it; an upgrade works and loses nothing, proved
    Migrations         the upgrade of an old database, statement by statement
    ImageJobs          image generation: jobs, nodes, RunningHub, polling
    LlmNodes           the nodes that ask a language model, item by item
    ModelProofs        a success has all its images or results, a timeout is late, a review is of its text,
                       an item gets the best asset found, proved
    AssetMatching      the tools that match a script's items to the library
    MCTask, MCInteraction, MCServices, MCModels   instances for TLC

How they fit together: `TaskProperties` extends `TaskRuntime` extends
`WorkflowGraph`, and instantiates `TaskBoard` as what the rows show; `TaskPage`
extends `TaskStream`, and `PageProofs` shows that it contains an `EventStream`;
`AssetLibrary` extends `AssetRoutes`. `MCServices` and `MCModels` hold several
systems that share no state: a variable `part`, chosen at the start, says whose
behaviour this is, and the others rest. `MCServices` extends `FilesProofs` (with it
`AssetFiles`, `LibraryProofs` and `AssetLibrary`), `Platform` and `Migrations`, and
`MCModels` extends `ModelProofs` (with it `ImageJobs`, `LlmNodes` and `AssetMatching`), so
their properties are checked as they stand. `PlatformProofs` extends `Platform` and
`Migrations`.

### WorkflowGraph

`Nodes`, `Rank` (position in the contract's list), `Edges`, `Reads` (the
nodes an input specification refers to) and `Yields` (the values a node's output
schema lets through, of the one field that conditions compare) are constants;
`ContractAssumption` says what `validate_workflow_contract` has established. The
stack loops of the code (`_downstream_node_ids`, `_potential_downstream_nodes`,
`_collect_upstream_nodes`) are defined by what they compute, the least set
closed under the edges. `ReadyNodes(outs, started)` is `_ready_node_ids`: a node
is ready when it is not started, an active edge leads to it, and every other edge
into it comes from a node that is done or can no longer become active.

### TaskRuntime

| Model | Code |
|---|---|
| `task` = [status, view, finished] | the `tasks` row: status, `current_view_json`, `finished_at` |
| `execs[i]` | the `node_executions` rows in insertion order; `form` is "metadata has an input_schema"; `uses[m]` is the execution whose output of m went into the input snapshot; `fields` the draft fields in it |
| `events` | the `task_events` rows: type and the nodes they are about |
| `pc[r]`, `req[r]`, `mem[r]` | where request r's handler is suspended, what was asked, its local variables |

The service is one asyncio process, and a coroutine gives way at each database
call and at `node.run`. So an action is one transaction or one read, with the
computation that follows it up to the next await; this is exact where the code
reads and writes in separate `connect_db` blocks, and also inside a block:
Python's sqlite3 opens a transaction at the first INSERT or UPDATE, so a SELECT
before it is a separate step (`FinishRead`, `FailRead`, `FindCurrent`,
`ClearRead`, `ArchiveRead`), while a SELECT after it is inside.

| Action | Code |
|---|---|
| `CreateTask` | `create_task_from_contract`: insert row and two events |
| `ResumeTask`, `FindWaiting`, `Answer` | `resume_task` with an output |
| `LoadInput`, `Submit`, then a mark at "run input" | `_resume_node_with_input` |
| `ReadExecutions`, `LoadOutputs` | the two reads of `_continue_task`, and what it decides |
| `ResolveInputs`, `StartNode`, `MarkWaiting`, `MarkSucceeded`, `MarkFailed`, `LookAgain` | `_start_node_execution` and the read back of the row that decides how the loop goes on |
| `FinishRead`, `FinishTask`, `FailRead`, `FailTask` | `_finish_task`, `_fail_task` |
| `SaveDraft`, `MergeDraft`, `CommitDraft` | `save_waiting_node_draft` |
| `RerunNode`, `FindCurrent`, `ClearRead`, `ClearDownstream` | `rerun_node`; with nothing to supersede, its second SELECT (`ClearRead`) comes before the first write |
| `DeleteTask`, `ArchiveRead`, `ArchiveTask` | `delete_task` |
| `Crash` | the process dies; the rows stay |

`Results[n]` gives the ways `node.run` of n may end: it succeeds with one of
`Yields[n]`, waits, or fails (raises, or returns something unusable).

Abstractions, all of them:

- one task, one contract; the template row is the constant contract;
- access control, payload validation, SQL errors, logging and asset references are left out: a
  request refused by its first check does nothing;
- an output is one value, of the field that conditions compare; a draft is the fields it sends,
  each of which may hold the saved value (then nothing is written) or another;
- rows are listed in insertion order, where the code orders by `created_at`, a
  clock value taken shortly before the transaction;
- each request is made once, so `Requests` bounds every behaviour;
- `Exclusive` names the kinds of request of which callers have one in flight at
  a time. It is a statement about callers, not a lock of the code: the
  runs and theorems say which one they need, and the violation runs show what
  happens without;
- START edges carry no condition (the validator refuses one,
  `validator.py:203-205`).

### TaskStream, EventStream, TaskPage

| Model | Code |
|---|---|
| `log[i]` | the `created_at` of the `task_events` row with rowid i |
| `life` | `tasks.status` as far as the stream looks at it |
| `at`, `cursor`, `todo` | `stream_events()` in `api/routers/tasks.py`: where it is, `cursor_event_id`, the rest of the `for` loop |
| `wire`, `got`, `last` | what the connection holds, what the client has received, its Last-Event-ID |
| `Begin`, `ListEvents`, `SendEvent`, `CheckTask` | the first cursor (:284), the listing (:295), one yield (:301), the look at the task (:308) |
| `Connect`, `ReceiveEvent`, `Break` | `streamTaskEvents` in `ui/V2/src/api/tasks.ts` |
| `TakeTime`, `Commit` | a request's `_utc_now()` and, later, its transaction with one or two events |
| `fetching`, `reads`, `shown` | the effect that calls `getTask` (App.tsx:876), the three reads behind it, what is on the page |
| `timer`, `Refreshed` | `requestDetailRefresh` and its 150 ms timer (App.tsx:797) |
| `Ask`, `Reply`, `ShowReply` | `markInteractionRunning`, `handleInteraction`, `handleInteractionDraft` (App.tsx:983-1017) |

`TaskStream` only reads `log` and `life`; `EventStream` adds the writers,
`TaskPage` extends it by the page. The writers may commit any event and any
status: what `TaskRuntime` writes is among it, and no property of the stream
needs more. That a version of a task is told by the length of its log is justified
by `EventsTellTheRows`: each change of the rows comes with an event in the same
transaction. A new detail read gives up the one before, as the effect's
`active = false` does. A page that leaves the task is not modelled, nor is
`since_event_id`, which no client sends. `Reconnects` stands for a client that
reconnects as the API offers (docs/design/2026-05-26-01, line 103); V2
does not, and only `PageKeepsUp` uses it.

### TaskBoard

The abstract task: `board[n]` is what the current execution of n does, "idle" when
there is none, and `phase` is the status. `TaskProperties` maps the rows to it
(`CurrentAt`, `Cell`) and instantiates it, with the nodes downstream of n for
`Below[n]`. `BoardShown` says that every step of the runtime is a step of the board
or none: a node is started only when idle, is idle again only when it or a
node above it is rerun, and a task is not finished beside a question or a failure. It
holds for one driver at a time. `Finish` does not ask for cells that still run:
after a crash and a rerun of another node, a task can end as succeeded beside a
row that says running for good, so `SucceededIsComplete` is claimed without
crashes.

### TaskInteraction

The routes of a node that waits (`api/routers/tasks.py:386-667`, and the draft at
:669), beside the rest of the task.

| Model | Code |
|---|---|
| `task`, `open` | `tasks.status` as the routes see it; the nodes whose current execution waits |
| `snapshot[n][k]` | the waiting execution's input: the value saved under the draft field k, `None` for none |
| `log` | `task_events`: started, draft saved, succeeded, failed, with the node, the key and the value; and the events of the task itself |
| `drivers` | how many requests run the task's loop: one that resumes or reruns adds one, one that asks or leaves takes one |
| `Call`, `CheckWaiting` | a request arrives; `get_waiting_node` |
| `RecordEvent` | one `_record_...` call, a transaction of its own that requires the node to wait |
| `WaitingExecution`, `RunNode`, `Result` | the panel prompt's look at the execution, its nodes in turn; the provider's answer |
| `ReadDraft`, `WriteDraft` | `save_waiting_node_draft`: the read, which ends it when no field changes (service.py:303), then the write of the merged input |
| `Raised` | the `except` of the route: the failed event, then the error |
| `Cancel` | the client goes away, or the process dies: no handler of `Exception` runs |
| `Answer`, `Rerun`, `Ask`, `Leave`, `Archive` | what a resume, `rerun_node`, the loop that asks or ends, and a deletion do to the task meanwhile |

`Rerun` asks nothing of the task, as `rerun_node` does: it clears the questions of one of
`Reruns` and sets the task running, and no answer is recorded. So a question
may go away under an interaction without an answer: `EndsRecorded` names what ends its
obligation. `MaxMoves` bounds the events of the task itself. An interaction whose result is already
saved under its key succeeds without a saved event of its own;
`StoriesInOrder` therefore asks for an earlier event that saved this value.

With `Overlap = FALSE` nothing else happens to a node between a draft's read and
its write; `DraftsOverlap` runs without that. A result goes to whatever execution of
the node waits when it comes, not to the one that was asked
(tasks.py:936): an answer or a rerun during the provider's call can bring the answer to the old
question into the new one. Left out: prompts, model choice, the fallback to the
first card when none has the given id (tasks.py:926).

### AssetRoutes, AssetLibrary

`AssetRoutes` has an operator for each route of `api/routers/assets.py`, which
gives the request it makes of the service; `AssetLibrary` runs them.

| Model | Code |
|---|---|
| `assets`, `tags`, `colls`, `entries` | `assets`, `asset_tags`, `asset_collections`, `asset_index_entries` |
| `req[r].pc` | the service's method, or the database call inside it at which the request is suspended |
| `CreateText`, `InsertText`; `ImportFile`, `IndexTargets`, `InsertFile` | `create_text_asset`; `import_file_asset` |
| `UpdateAsset`, `UpdateText`, `UpdateMetadata`, `FreeName`, `WriteAsset`, `WriteText`, `WriteMetadata` | the three updates: read, name check, write |
| `GetForDelete`, `MarkDeleted` | `delete_asset`, a soft delete |
| `CreateTag`, `InsertTag`; `UpdateTag`, `FreeTagName`, `RenameTag`; `DeleteTag`, `CountUses`, `RemoveTag` | tags |
| `GetForTag`, `TagScope`, `SeeEntry`, `AddEntry`, `RemoveEntry` | `attach_asset_tag`, `detach_asset_tag` |
| `CreateCollection` ... `RemoveTree` | collections, with the recursive query of the tree |
| `MoveAsset`, `GetSource`, `ReadContent`, `CopyName`, `InsertCopy`, `ListTags` ... `EachTag`, `Copied` | `copy_asset_to_project`, `move_asset_to_project` |
| `CompleteMetadata`, `TypeTag` | `complete_upload_metadata` of an intelligent upload |
| `Search` | `search_assets`, as it filters; compared with what a search should find by `SearchFindsAll` |

`Grown` is what the recursive queries of the service return (`with recursive ...
union`), defined as the least set that has the roots and their children.

Abstractions: SQLite has one writer, so a connection's work from its first write
to its commit is one step and the reads before it are their own; entries are a
set of pairs, though `asset_index_entries` has no unique key (migrations.py:92-102): two attaches that
overlap write one pair twice, which no query tells from once, as each counts distinct tags or assets; pages of results and their order, texts
and the full text index (written, and never read by a search) are left out; an asset
that is not there any more when a list of tags is read counts as refused.

What the model shows on the way, without being a property: an intelligent upload can
fail after its asset exists; an update of an asset deleted meanwhile still
writes its episode entry; a collection deleted during its update ends in an
assertion; a tag deleted between the check and the insert is refused by the foreign key, and such an
error ends a whole transfer where others are noted; a search for one tag id
given twice finds nothing, since the list is counted and not its tags (assets/service.py:1421), which is
why `SearchFindsAll` makes an exception of such lists; the use count of a tag counts deleted assets too, so
a tag can be undeletable though no asset shows it; the refusal
`asset_global_move_not_supported` (assets/service.py:378) cannot happen after migration, which
leaves no asset without a project.

### AssetFiles

| Model | Code |
|---|---|
| `rows[a]` | `storage_uri` and `public_url` of an asset, as the contents they name |
| `files`, `objects`, `thumbs` | `local_storage.py`'s files, the object storage, the thumbnail cache: all named by content |
| `CheckImport`, `PutBytes`, `PutObject`, `InsertRow`, `CleanUp`, `DeleteObject` | `import_file_asset` with its `except` |
| `GetAsset`, `ReplaceFile`, `UpdateFile`, `UpdateAsset`, `DeleteAsset` | `replace_asset_file`, `update_asset`, `delete_asset` |
| `GetContent`, `Thumbnail` | `get_asset_content` as copies use it; `get_asset_thumbnail` |
| `Cancel` | the client or the process goes: no clean-up runs |

Uploads and deletions of objects fail when they like, and an upload that fails
may have stored the object. With `Overlap = FALSE` requests under way at once are
about different assets and contents. `ReplaceFile` publishes again only where there is
an object storage; otherwise the old URL stays (assets/service.py:1171). `RewriteRow` is each of the
three ways metadata is written: `update_asset` without metadata writes back what it read
(:992, :1015), with metadata, and `update_asset_metadata`, whatever they are given. So a public URL need
not name the content of its asset, even without overlap: nothing is
claimed of it.

### Platform

Accounts, tokens, projects, templates and tasks of `users/service.py`,
`api/dependencies.py`, `workflows/service.py` and
`_find_or_create_workflow_template`. `Startup` and `Stop` are the process: tokens
live in memory and clients keep theirs. A task is created in four steps
(`CreateTask`, `CheckAccess`, `Find`, `Insert`) between which other requests run. Two
requests that overlap can make two rows of one template; later tasks
use the newer one. Passwords are right or the login did not happen; the YAML
catalog is the constant `Contracts`.

### Migrations

`migrate` is one transaction of many statements. `disk` is the database, `db` what the
transaction sees of it, and each turn of the loops in `infrastructure/migrations.py` is an
action.

| Model | Code |
|---|---|
| `disk` = [assets, tags, entries, indexed] | the tables `assets`, `asset_tags`, `asset_index_entries`; `indexed`: which of the two unique indexes exist |
| `old` | the database before its first migration; nothing reads it, it is there for the properties |
| `phase`, `todo`, `reserved` | how far `migrate` is; the rows `_deduplicate_global_assets_for_project_scope` has yet to compare, and its `reserved_names` |
| `Migrate`, `Commit`, `Die` | `connect_db`: the start of the transaction, its commit, and a process that dies before it |
| `Execute` | a statement: one that breaks an index raises, and nothing of the transaction stays |
| `DeduplicateGlobalAsset`, `MergeGlobalTag`, `NormalizeScope` | `_normalize_global_asset_scope` and the two functions it calls |
| `UniqueAssetName`, `IndexAssets` | `_ensure_unique_live_asset_names`, `_ensure_live_asset_name_unique_index` |
| `UniqueTagName`, `IndexTags` | `_ensure_unique_asset_tag_names`, `_ensure_asset_tag_name_unique_index` |
| `Candidate`, `FirstFree` | `_deduplicated_asset_name`, `_deduplicated_asset_tag_name`: the id's suffix, then a counter, up to the first free name |

A start may follow any other, after a commit, a crash or an exception. The groups of
duplicates are renamed in any order, and within one in any order but for the oldest. A name is
a base and the suffixes that renames have put on it. `OldDatabasesAssumption` says what
an old database is: ids in the order of creation, entries in the scope of their asset and
their tag (which the service checked), the indexes it has are met, and `OwnNames`: no global asset
is called like another global one with that one's id behind it, a name nobody gives by hand (without it
a start can fail, see section 3). The last eight characters of the ids, which make the suffix, are
taken to tell the rows apart.
Collections change their scope only, and the search texts follow the names: both
are left out, as are columns added.

### ImageJobs

| Model | Code |
|---|---|
| `plan[g]` | what g is: a job of `assets/generation.py`, or a node that makes the images of many items, one image, one text or a workflow's image |
| `gen[g]` | the job's status or the node's |
| `call[p]` | one coroutine per prompt: where it is in resolving images, uploading, submitting, polling; `left`, `sleep` and `age` are its timers |
| `remote[p]` | RunningHub's job (external) |
| `Create`, `RunJob`, `GetGeneration` | the routes of generation, and its background task |
| `GenerateOne`, `ResolveImage`, `UploadImage` | `image_references.py` and the capability; `Fetch` is a download or the asset library; a reference of any kind may be refused |
| `Submitted` | the submission's own answer, which may say that the job is queued, done, empty or broken, or name none |
| `Queried`, `Look`, `Wake` | `runninghub.py:190-260`, its polling loop with the deadline |
| `Finish` | what the end of one prompt does to the others: `gather` raises with the first failure and lets the rest run on |
| `Tick`, `Restart` | the clock; the process restarts and forgets its jobs |

The poller of workflows does not look at `errorCode`, so a workflow job that
answers with one is polled to its deadline; a workflow's image count counts the urls
beyond its slots, which are not sent. A restart loses jobs, not what RunningHub does
with them. Images are not looked at.

### LlmNodes

Every node that asks a language model, as a coroutine per item (`co[r][i]`) with
its attempt, its round of review and the version of the text it carries (`ver`), and the version
the review is about (`reviewed`). `Respond(r, i)` is the provider's answer: valid, passed, invalid,
refused or lost; `Resume` says what each kind of node makes of it. `llmplan` says which nodes
stand one behind the other, whether each has `continue_on_item_error`, which items lack
what a node needs, and how many runs there are at most (`runs`). A row of `node` is one run of a
node, with the run whose results it was given (`source`). `Start(n)` is the runtime
that runs a node when the one before it has succeeded, `Rerun(n)` is `rerun_node` of any node that
has run, at any time, whatever has become of its run and of those behind it: what
still runs there goes on beside the new run. Tool nodes between writing and reviewing are left out, and prompts and schemas
are whether an answer is "valid".

### AssetMatching

The tools that decide which items of a script are new, in the order of
`asset_catalog.workflow.yaml`: `asset_lookup` (`Search`, `ReadTags`, twice: existing assets by tag, and by name),
the semantic matcher (`SemanticMatch`, external: any answer), `enrich_characters`
(`InferType`, `FindByTags`, `FindByName`, `Enrich`), the user's review, which may take items off
(`Review`, external), and `filter_assets_for_generation` (`Filter`). `library` may lose an asset while the lookups run (`DeleteAsset`): a lookup whose asset
goes between the search and the reading of its tags fails. The limit of a lookup applies
before its filters, so what it cuts off cannot be matched; `BestMatch` speaks of what was
found. The fallback by name gives a variant an asset that lacks the variant's tags.

Two identities. A lookup compares the name and the tags of an asset's metadata
(`LookedUp`, asset_lookup.py:243-253) and puts out a record without them at hand;
the merge normalizes that record and does not look into its metadata (`Who`,
enrich_characters.py:77 and :101). So an asset whose name is only in its metadata passes the
lookup, is not matched by the merge, and its item is generated again. `MCLibraries`
has such an asset, and `BestMatch` is stated with the merge's identity: it says what the merge makes of the records it gets,
not that the two agree.

`tool.complete_asset_images`, which fits uploaded images to prompts, is in no workflow of
the repository and is not modelled; of the user's edits in the review only the
removal of items is.

### One behaviour of one part

`MCServices` and `MCModels` save runs: their modules have no variable in common
and no action that joins them, so a product would only multiply states.
`part` is chosen in the initial state and never changes. The rows of a part that rests
stay as they begin, which satisfies the invariants, so the properties stand as they are.

Operators commented "Mutant" stand for plausible mistakes in the definition
after them. No specification uses them; the checks substitute each for the
definition it follows and expect the property named in `PROJECT.json` to break.

### The plan

Done: the runtime, its properties and proofs; the stream and the page; `TaskBoard` and its
refinement; `TaskInteraction`; the library, its routes and files;
`ImageJobs`, `LlmNodes`, `AssetMatching`; `Platform`; `Migrations`.

Left, in order:

1. The page composed with `TaskRuntime`, so that its own answers are requests of
   the task.
2. A reference check of `WorkflowGraph` against the stack algorithms, written
   recursively in a module of its own, and the validator itself.
3. The tools that only reshape a storyboard (`prepare_storyboard_panel_cards.py`
   and the like), as functions against a reference definition.
4. Theorems: with those parts, and `PageProofs` for the composed page.

## 3. Runs

The runs of the runtime use `MCTask`. Three contracts:

- Branch: a form (`brief`), an approval that chooses a branch, a drawing beside it
  that may fail, and a join that reads the branch one answer leaves out. It has
  both kinds of waiting, a condition, a join, a failure and an exception.
- Chain: an approval and the work behind it. The least where answers race.
- Fork: two nodes side by side. The least where a rerun meets a sibling.

| Run | Callers | Shows |
|---|---|---|
| `TaskSerial` | one request at a time that drives or deletes, drafts whenever; 5 requests; any node rerun | `StuckForAReason`, `SucceededIsComplete`, `ViewIsCurrent` |
| `TaskDrivers` | one create, resume or rerun at a time; drafts, deletions and crashes whenever; 4 requests; any node rerun | `TypeOK`, `OneCurrentExecution`, `AttemptsInOrder`, `BranchesDoneFirst`, `InputsCurrent`, `EventsTellTheRows`, `WaitingIsAnswerable`, `HistoryKept`, `ArchivedStays`, and that the runtime implements `TaskBoard` (`BoardShown`) |
| `TaskAnswers` | no restriction, 4 requests | `AnswersMatchQuestions` for answers with an output |
| `TaskProgress` | fair handlers, 3 requests, drafts overlap | `RequestsReturn`, `TaskSettles` |

| Run | Surroundings | Shows |
|---|---|---|
| `PageShows` | two writers that overlap, 3 events, 2 times, the page's own answers, failed reads, one lost connection | `PageFollows`, `NothingSkipped` |
| `PageKeepsUp` | one writer, 4 events, one lost connection, a page that only looks on and reconnects | `EveryEventArrives`, `PageCatchesUp` |

| Run | Instance | Shows |
|---|---|---|
| `Services`, library | 2 requests that overlap, a library of 2 assets, 2 tags and a tree of 2 collections, with ids for 2 assets, 3 tags and a collection more; about 35 different calls | `NamesUnique`, `ReferencesInScope`, `SearchFindsAll`, `MovesLoseNothing` |
| `Services`, files | 2 requests about different things, 2 assets (one published), 3 contents, every failure and cancellation | `FilesKept`, `MovesLoseNothing` |
| `Services`, accounts | 2 users, 2 requests that overlap, a project beside the global one, contracts of both scopes, 2 tasks, restarts | `OwnersOnly` |
| `Services`, database | old databases of 3 assets and 3 tags in 3 scopes, each tag on every asset of its scope, with each of the two indexes there or not; starts, crashes and further starts | `MigrationWorks`, `NothingLost` |
| `Interactions` | 2 nodes that may wait, 2 requests of an image, a panel prompt (of 1 call) or a draft, 2 values; up to 3 events of the task itself (questions, answers, reruns of one node or of a node above both, ends, deletion); cancellations | `StoriesInOrder`, `EndsRecorded`, `DraftsKept` |
| `Models`, images | a job beside a text node, a node with two prompts, an image node with and without pictures, workflows of 0 and 1 slots; a deadline of 2, polls every 1, answers delayed by 1 | `ImagesComplete`, `TimeoutIsLate`, `CallsEnd` |
| `Models`, nodes | two segments written, reviewed, or both, each with and without `continue_on_item_error`, and each node that wants one answer; 2 attempts, 1 round; any node run again at any time, 3 runs of a chain with one item, 2 with two | `ReviewFits`, `ResultsComplete`, `CallsEnd` |
| `Models`, tools | scripts with and without tags and types; libraries of up to 3 assets with plain and composite names, tags within tags, and a name only in the metadata; a limit of 2 | `BestMatch` |

`ModelsTypeOK` is the type invariant of all three parts of `Models`; in `Services` each
part's is in the invariant that relies on it.

What the bounds reach: two requests meet each pair of a check and another's
write, which is where names, scopes and entries can go wrong; a transfer of three
assets has a repeated one and one that fails; a third request would only queue. The spare ids are more
than two requests can use. In `Services`, database, the
assets vary (names, scopes, deleted or not) with few tags, and the tags
(of one name, so every clash of three) with few assets, as no statement reads both tables'
names. An asset or a tag that is called what another would be renamed to makes a rename whose
first candidate is taken. A deadline of 2 with polls of 1 gives a
query before, at and after it, and a delayed answer that crosses it. Two items with
two attempts and two runs have a failure beside a call that goes on into the
rerun; a third run of a chain lets the first node be run again after the second has begun. The limit of 2 cuts off one of three assets. `Requests` are symmetric in `Services` and
`Interactions`.

Two times and two events are enough to put times and rowids in different
orders; that nothing is skipped in longer logs is proved (section 4).
`PageKeepsUp` needs two events of one transaction with a lost connection
between them, and an event after that. Its page reconnects with Last-Event-ID, as the
API offers and V2 does not. For `PageCatchesUp` this covers V2 too: until its
stream first ends V2's page behaves as this one, and when it ends the property
asks no more.

Bounds. A task of Branch needs create and two answers to end; five requests add
two reruns or drafts on the way or after it, which reaches every pair of a
rerun and a wait, and attempts up to 3. Four are enough for a driver, an overlapping
draft, a deletion and a rerun. Requests are symmetric (not in the liveness run).
Three events of the task are a question, its answer or rerun, and another question, or two questions at
once (`n1` is rerun beside the question of `n2`). CHECK_DEADLOCK is off
in all runs: when every request has been made the system rests.

The passing runs state what holds and for which callers. These runs show where
the code departs from what its docs and tests say, each with one property:

| Run | Property | What happens |
|---|---|---|
| `RerunBesideQuestion` | `NothingStuck` | a node is rerun while a sibling waits: the task says running and the open question can no longer be answered |
| `AnswerBeforeReturn` | `OneCurrentExecution` | an answer between the mark and the read back: two requests drive the task |
| `DraftsOverlap` | `DraftsKept` | two drafts of one question read the same input, and the later write drops the field of the earlier |

There are close relatives, which TLC finds when a constant of a run is changed:

- `HistoryKept` fails when requests overlap as they like (`Exclusive = {}` in
  `TaskDrivers`): a running node is rerun, and its superseded row is later marked
  succeeded (service.py:951).
- `AnswersMatchQuestions` fails for forms (`FormNodes = {"approve"}`, `Results <-
  ChainFormResults` in `TaskAnswers`): two answers to a form both run the node, since neither changes the status before
  `_start_node_execution` does (:774).
- `ArchivedStays` without `NoDriver` fails when a deletion meets a request that drives the task:
  its next commit writes over the status (:1047). And it asks nothing after a rerun:
  `rerun_node` never asks whether the task is archived (:499).
- `EveryEventArrives` fails for a page that does not reconnect (`Reconnects = FALSE` in
  `PageKeepsUp`): when the task has ended, an event between the listing and the look
  at the task is not sent (tasks.py:313).
- `NothingStuck` fails as well when the sibling has failed (`ForkResults` with
  `"failed"`; the loop leaves at service.py:585), and, in a contract where a node
  decides by itself and a later one reads the branch left out, when a rerun of the
  first decides otherwise: the exception leaves `rerun_node` (:543) with the
  task running. `StuckForAReason` says that these are all: a task that says running beside no driver has
  a row that waits or has failed, or was left by a rerun whose loop could not go on.
- `NothingSkipped` fails when a client reconnects beside two writers
  (`Reconnects = TRUE` and `MaxEvents = 4` in `PageShows`): the listing is cut off by rowid and ordered
  by time, so a connection lost between the two loses an event.
- `PageFollows` fails when the page saves drafts (`Own = {"draft"}`): a late answer
  puts an old row back (App.tsx:1016) and nothing refreshes.
- `PageCatchesUp` without `from < i` fails at once: an event between the first detail
  read and the first cursor is in neither.
- `FilesKept` fails when requests about one content overlap (`Overlap = TRUE` in
  `Services`): an import that created the object and then fails deletes
  it, though another asset was published to it meanwhile (assets/service.py:272-275).
  For what one request after another does, `tests/test_assets_service.py:1306`
  is right, and so is the design (docs/design/2026-05-26-02, line 252).
- `MigrationWorks` fails (with `OwnNames` taken out of `MCOldDatabases` and of the assumption) for a
  database that does not meet it but has the index of asset names: the new name of a global asset is compared with the names in the global project only
  (migrations.py:366-372), so the update meets the index when another global asset has
  that name, and every start fails.

Fairness of the stream (`FairSpec` of `EventStream`, `FairPage`): the generator
is resumed after its sleep and its database calls, the browser reads what has
arrived, effects run and timers fire; writers, the network and the user owe
nothing. `PageKeepsUp` has no requests of the page's own: a user who
answers without end would restart the detail read without end.

Fairness of `Models`: every started call and node is served by the event loop, HTTP
calls end (they have timeouts), so each step of a call has `WF`, and time goes on
(`WF` of `Tick`). Nothing is assumed of RunningHub: the deadline is what ends a
call whose job never does.

Fairness (`FairSpec` of `TaskRuntime`): `WF_vars(Handle(r))` for each request. A handler that is
suspended at a database call is resumed by the event loop, and `node.run`
ends (providers have timeouts). Callers owe nothing, so `Call` has no fairness,
and `Crash` is not part of `FairSpec`: nothing in the code picks up a task whose
process died, so a crash may leave it running for good.

## 4. Proofs

`TaskProofs.TypeCorrect`: `CrashSpec => []TypeOK`, for every contract that meets
the assumptions. `TypeOK` alone is not inductive, since the actions index
`execs` by what a request remembers, so the invariant `Typed` adds `Placed`: a request that
is about to use an execution remembers one that exists.

`TaskProofs.OneCurrentAlways`: if `Drivers \subseteq Exclusive` then
`CrashSpec => []OneCurrentExecution`. The invariant `Driven` adds
to `Typed`: `Alone`, at most one request is driving; and `Remembers(r)`, that
the nodes a driver intends to start have no current execution, that
those it knows as started include all that have, and that the
rows a rerun will supersede are all current ones of the nodes it affects. So
what a driver read is still true when it uses it, because only drafts, deletions
and crashes came in between, and those neither add rows nor revive them.

`TaskProofs.HistoryAlwaysKept`: the same invariant gives `HistoryKept`: the
execution a driver marks is still current, and not yet succeeded.

`TaskProofs.AttemptsAlwaysInOrder`: and `AttemptsInOrder`. The attempt is read before the
transaction that writes it, so the invariant `Ordered` adds to `Driven` that the number a
request is about to write is still the next (`Planned`), and that the next number is one more than the rows of
the node (`Counted`).

`TaskProofs.AnswersAlwaysMatch`: `AnswersMatchQuestions`, if there are no forms (whatever overlaps)
or driving requests come alone; with forms and overlap it fails (section 3). The invariant
`Answered` adds to `Typed` that of each node the answers given and the rows that wait are
together no more than the questions asked (`Balanced`): a row begins to wait along with
an event that asks, and an answer takes a row's waiting away. To count right it also has that
the row a request marks is one of the node it names in its event (`OwnRow`).

`TaskProofs.BoardImplemented`: under the same assumption, `CrashSpec => BoardShown`: the
runtime implements `TaskBoard`. The invariant `Shown` is `Driven` with `Knows`: what
a driver has read beyond the nodes started (that nothing has failed, that nothing waits, which rows
a rerun will supersede) is still so when it commits. From
`OneCurrentExecution` a node's cell is the status of its one current row, and lemmas say what
appending, marking and superseding rows do to the cells; then each handler is shown to be one
action of the board, or none.

`TaskProofs.EventsAlwaysTellTheRows`: and `EventsTellTheRows`. The invariant `Telling` adds to
`Shown` that what the last event tells of a node is its cell on the board (`Reported`), and that the node a
request writes into its events is the node of the row it marks (`Named`). Lemmas say what
appending one, two or three events tells; each handler's commit is then one change of the
cells and one of what is told.

`OutcomeProofs.BranchesAlwaysDoneFirst` and `InputsAlwaysCurrent`: still with
`Drivers \subseteq Exclusive`, `CrashSpec` satisfies `BranchesDoneFirst` and `InputsCurrent`, for every
contract the validator accepts. A node is *due* when it is active and no node above it is, or may still
become, active without having completed. The invariant `Scheduled` says that every current row is
of a due node (`OnTime`), that the results it has read are still in use (`Fed`), and the same of what a
request is about to start and of the outputs it holds (`Intends`). The lemmas about the graph are
what carries it: what `_ready_node_ids` returns is due (`ReadyIsDue`); a completion activates
only nodes below it, and takes nothing from what was due (`CompletionActivates`); a
rerun supersedes a set of nodes closed downward, so what stays was not computed from what
went (`AffectedClosed`, `ClearedDue`).

The rest of `OutcomeProofs` takes this to the task row:

- `WaitingAlwaysAnswerable`: `CrashSpec` satisfies `WaitingIsAnswerable`. The invariant `Waiting` adds
  that between its first read and its mark a driver sees no failure (`Calm`).
- `SucceededAlwaysComplete`: `Spec`, so without crashes, satisfies `SucceededIsComplete`. With crashes it
  does not: an execution whose process died stays `running`, and after a rerun of another node
  the task can succeed beside it. The invariant `Finished` therefore says that a row that runs has a
  request that runs it (`Attended`), and that what is about to be finished is complete
  (`Closing`). That nothing is left when nothing is ready (`NothingLeft`) takes
  a topmost active node that has not completed; there is one since the graph is finite and acyclic.
- `StuckOnlyForAReason`: `Spec` satisfies `StuckForAReason`, whatever node of whatever task is rerun. Without
  crashes, as a crash may leave a task running for none of these reasons. The invariant `Led` says that a task that
  says running has a request in the loop, or a reason (`Minded`); and that a request in the loop is led
  by outputs which, though read before other steps, hold everything that is there now of what the nodes it
  has yet to start depend on (`Leads`, `UpToDate`). So an exception of the loop, raised from the outputs it
  read, would be raised from the rows too (`Blocked`), and of the requests only a rerun lets one through: the others
  set the task failed.
- `ViewAlwaysCurrent`: if moreover deletions do not overlap with what drives the task
  (`Drivers \cup {"delete"} \subseteq Exclusive`; drafts overlap with everything), `CrashSpec`
  satisfies `ViewIsCurrent`. The view lags behind only while the row says running; the invariant `Viewed` says what each place takes
  the status to be, and that a view read before a commit is still the one the executions give (`Views`). A draft
  looks for a waiting row again when it writes, and the view it
  writes is that of the executions, with the status "waiting": that is the exception in the property (`DraftLast`).
- `ArchivedAlwaysStays`: `CrashSpec` satisfies `ArchivedStays`, with no assumption on what overlaps. The property
  is about tasks that no request drives any more, and until a node is rerun: the code does bring back a task that is being driven when
  it is deleted, or rerun after (section 3). The invariant `Kinded` says that whoever drives was called to
  create, resume or rerun; a resume reads the status first, and finds it archived.

The assumptions are those the runs make: `TaskDrivers` has the first, `TaskSerial` that of `ViewAlwaysCurrent`.

The assumption `Drivers \subseteq Exclusive` is needed: the run `AnswerBeforeReturn`, and the
overlapping rerun of section 3, violate the first two properties without it.

`PageProofs.NothingSkippedAlways`: a client that opens the stream once
(`~Reconnects`, which is needed: see the list in section 3) is not made to miss
an event while the stream is up. `NothingSkipped` is inductive together with the
types and `OpenedOnce`: every committed event after `from` is sent, or
listed, or has a higher rowid than the cursor and than all that is listed. The last is what
makes the wandering cursor harmless: whichever listed event becomes the
cursor, what was not listed lies behind it.

`PageProofs.PageFollowsAlways`: a page without drafts (why: the same list)
satisfies `PageFollows`. The invariant adds `ReadAfter`: when no refresh is due, a
detail under way was begun after the last event came. `PageImplementsStream`
shows that the page and its stream are an `EventStream`, so the first theorem
holds of it.

`FilesProofs.FilesAlwaysKept`: if `Serial`, then `Spec` of `AssetFiles`
satisfies `FilesKept`. `Serial` says that ids and contents are told apart,
that the library begins well formed, and `~Overlap`, without which it fails (section 3).
The invariant `Kept` adds to it: `Apart`, the topics of two requests under way (their
assets, their contents and those of their assets) have nothing in common; and of each request
that the assets it names exist (`Named`), that the content it is about to give to a row has its
file, and that no live row has a content whose file the request made itself (`Holds`). With `Apart`, a step of one request touches nothing another
remembers (`OthersKept`), so what a handler saw before an await still holds after it, and the
file that a failing import deletes is nobody's.

`InteractionProofs.DraftsAlwaysKept`: if `~Overlap` (the run `DraftsOverlap` shows that it is
needed) and the calls are well formed, then `Spec` of `TaskInteraction` satisfies `DraftsKept`. The
invariant `Merged` adds: a request about to write has read the input there is, of a node that
still waits, and is the only one about to write to it (`Alone`); and every key of a question
has a last event that set it (`Asked`), the question itself if no draft did. Lemmas say what appending
an event does to the last one; then every step either rewrites one node's input along
with such an event (`Rewritten`), or sets nothing (`Quiet`).

`InteractionProofs.StoriesAlwaysInOrder` and `EndsAlwaysRecorded`: `Spec` of `TaskInteraction` satisfies
`StoriesInOrder` and `EndsRecorded`, whatever overlaps and is rerun. The invariant `Storied` says
what a request has told by where it is (`Chapter`), and that a request which found its node waiting finds
it so again unless the task moved on meanwhile: it took an answer, was rerun, ended or was deleted (`Watched`).
That success comes after a saved value needs a second invariant, `Traced`, as a draft whose value is there already writes
nothing: every value in a node's input, and in what a request has read of one, was saved for that
node by an event (`TracedInput`), and a request about to record success has its value so (`Vouched`). Inputs are
only replaced by what was read, plus the value saved with its event, so this holds though
overlapping drafts drop one another's fields.

`LibraryProofs.NamesAlwaysUnique` and `ReferencesAlwaysInScope`: `LibrarySpec` satisfies
`NamesUnique` and `ReferencesInScope`, however many requests overlap in whatever way, if the library
begins in order (`StartInOrder`), requests are shaped as the routes shape them (`CallsAssumption`), and ids are told
apart (`IdsAssumption`; TLC evaluates both for the run `Services`, whose module
extends `LibraryProofs` through `FilesProofs`). The invariant `Stored` adds what a request remembers, by where it is (`Recalls`), and
here lies the point: between its steps the library may lose the tag, the collection
or the asset it has seen, and what it remembers is only that the row is there and
of the right project, deleted or not (`Suits`). Rows are marked, not taken away, and never change
their project, so this stays true whatever the others do (`RecallsStays`); that the
row is still live is asked again by the write itself, by the unique index or
the foreign key, and the lemma of each write rests on just that question. `RemoveTreeKeeps` has the case that is
easily got wrong: a collection created below a tree after the tree was read.

`LibraryProofs.SearchAlwaysFindsAll`: the same invariant gives `SearchFindsAll`, for any scopes, tags, names and
collection, if tags and names are finitely many (`PoolsAssumption`). A search looks at tags and collections of its scope
only, and counts: are as many of the tags in the list with the asset as the list is long? (A list that repeats a tag is longer than it has
tags: `TagsFound` has the exception.) That this hides nothing takes that an entry, its asset
and its tag are of one project (`OwnTags`); that a finite set has no proper part of its own size (`AllOfThem`);
and that a collection and its parent are of one project, so that the tree cut off at the scope is
the whole tree (`TreesFound`; trees are least closed sets, hence no recursion).

`FilesProofs.NothingLostByMoves`: `LibrarySpec` and `Spec` of `AssetFiles` satisfy `MovesLoseNothing`, if the calls
to move come as the route makes them (`MovesAssumption`) and `Serial` holds of the files. It has two halves.

- `LibraryProofs.TagsAlwaysMove`, the tags: the invariant `Underway` adds to `Stored` that beside a request that is
  alone no other is on its way (`ByThemselves`), and, of a move that is alone, what the loop over the tags has
  brought about at each of its places (`Carries`): the tags of the source are among those yet to be copied, the one in hand,
  and those of the copy. So when the loop has ended the copy has them all. The lemmas say what attaching,
  finding and inserting a tag do to that equation. A move that overlaps with another request owes nothing:
  another one may take a tag away meanwhile.
- `FilesProofs.ContentAlwaysMoves`, the content: the invariant `Moved` adds to `Kept` that a move on its way to the
  deletion has made a live asset beside the source, with its content (`Moving`).

`PlatformProofs.MigrationAlwaysWorks` and `NothingEverLost`: `MigrationSpec` satisfies `MigrationWorks` and
`NothingLost`, from any old database that meets `OldDatabasesAssumption`, whatever its size, and for any number of starts,
crashes and exceptions. The invariant `Upgrading` says three things.

- What the transaction sees, and what is on disk, is `Faithful` to the old database: each asset is there
  with its base name, in the project it came from, with tags of the same bases, and a row that has another
  name than before had its old one in common with another (`NameKept`). The point is that a rename may make room for itself
  only where it must. A later loop finds two rows of one name and renames the younger; that is for a reason only if
  both have had this name from the beginning (`OldShares`): no rename, and no merge of scopes, ever makes two
  rows alike.
- How far the upgrade is (`Progress`): the global assets compared so far share no name with one another or with what is
  in the global project (`Apart`), and have their old name or one with their own id behind it (`GlobalNames`).
- What is on disk is the old database or an upgraded one, and a transaction that began with an upgraded one
  has changed nothing.

That a first free name exists (`SomeFree`) is the pigeonhole principle: of one candidate more than there are names, one is not
among the names, as candidates tell rows and numbers apart (`CandidatesDiffer`). That it is not
the name of a global asset either, which the code does not ask, is `OwnCandidate`, and there `OwnNames` is used.

`PlatformProofs.OwnersAlwaysOnly`: `PlatformSpec` satisfies `OwnersOnly`, across restarts and for any number of
requests that overlap, if `None` is not a status or a role. The invariant `Owned` adds to the types that a
request past the check still may use its project (`Allowed`: projects are never given to
another), that the template it found is one of its contract and project (`Serves`), and
that what passes a check is somebody's by right (`LetThrough`, `Rightful`).

`ModelProofs.ImagesAlwaysComplete` and `TimeoutsAlwaysLate`: `Spec` of `ImageJobs` satisfies `ImagesComplete` and
`TimeoutIsLate`, for any plans, deadline, interval and delay. The invariant `Sound` says of each call, by where
it is, which pictures it has fetched (`Fetching`), what its job was given (`Asking`), and how its timers and
the job's end are related (`Ending`, `Fits`): a call that polls wakes before its
deadline, so an answer that was there in time is seen. The time left is noted
when the job ends: all of it while the call has not set its deadline yet.

`ModelProofs.CountsStayInBounds`, `ReviewAlwaysFits` and `ResultsAlwaysComplete`: `LlmSpec` satisfies `LlmTypeOK`,
`ReviewFits` and `ResultsComplete`, for any items, plans, attempts, rounds and number of runs, if each answer is
asked for at least once and a plan is a list of nodes (`LlmAssumption`, which the code's
bounds meet and TLC evaluates for the run `Models`). The invariant `Worked` says what each
coroutine is worth by where it is and whose it is (`Right`: one that asks has not failed,
and revises only while rounds are left; one that came out of the review carries the review of its
version; one that failed was let fail by its own node, or had failed before); that a run which succeeded is complete (`NodesComplete`); and that the run whose results another was given
has succeeded (`Sourced`). Nothing is said of which runs are current, as any node may be run again at any time: an answer that
comes late, to a run that has failed or was superseded, changes none of this, since what was given is of a run that succeeded, where
nobody asks any more. With that, what has failed at one node is passed on (`FailuresPass`).

`ModelProofs.AlwaysBestMatch`: `MatchingSpec` satisfies `BestMatch`, for any
scripts, libraries, answers of the model, removals by the user and limit of a search. The invariant `Matching` says that a
lookup reads only what it has found, no more than the limit, and that the first puts all of it out (`LooksUp`); and that what comes after the merge
is as the merge of the three lookups has left it (`Merged`). The lemmas need that the code's "first" of some records is one of them
whenever there is one (`FirstIn`, from `Least`) and that no more assets have fewer than `Limit` older ones (`SearchedFew`).

`ModelProofs.ModelsTypeCorrect`: the bounds of the three kinds of nodes (`ModelsTypeOK`), from the
invariants `Sound`, `Worked` and `Matching`.

Every safety property that a passing run checks, with the refinement `BoardShown`, is the property of one of these
theorems. What stays with TLC is liveness (`RequestsReturn`, `TaskSettles`, `EveryEventArrives`, `PageCatchesUp`,
`CallsEnd`), since the prover knows nothing of ENABLED; and of course the three runs that expect a violation.

## 5. Not modelled

The abstractions of each module are listed with it in section 2. Beyond those:

- the workflow validator's algorithms: their result is the assumption `ContractAssumption`;
- the tools that reshape a storyboard (`prepare_storyboard_panel_cards.py` and others),
  which are pure functions on JSON; what could go wrong there (nested names, prompts made equal
  and dropped as doubles, cards that refer to all characters) is about data, and a unit test
  with the data says more;
- `tool.complete_asset_images`, which no workflow of the repository uses, and the user's edits in the review
  of the asset catalog other than removals;
- whether a public URL names the content of its asset: it need not (section 2, AssetFiles), and no document
  says that it must;
- the episode metadata tool, whose lookup of 20 assets (`episode_metadata.py:137`)
  misses the twenty-first, and the text asset node, whose rerun meets the name
  its first run has taken;
- prompts, model routing tables and vendor payloads, apart from whether an answer is usable;
- Qiniu's retries across regions, thumbnails' pixels, the YAML catalog, configuration;
- both user interfaces' rendering, V1 as a whole, the UI control catalog, the testing
  runner (it drives the same runtime) and the LangGraph stub.
