--------------------------- MODULE PlatformProofs ---------------------------
(* Every task lies in a project its user may use, with a template of it, for  *)
(* any number of users, projects, requests and contracts; and the upgrade of  *)
(* a database works and loses nothing, whatever old database it finds.        *)
EXTENDS Platform, Migrations, FiniteSetTheorems, WellFoundedInduction, TLAPS

----------------------------------------------------------------------------
(* The inductive invariant.                                                   *)

Pending == [pc : {"idle", "access", "find", "insert"}, user : Users \cup {None},
            project : ProjectIds \cup {None}, contract : Contracts \cup {None}, found : Nat]
Template == [contract : Contracts \cup {None}, project : ProjectIds \cup {None}]
Task == [user : Users \cup {None}, project : ProjectIds \cup {None}, contract : Contracts \cup {None},
         template : Nat]

PlatformTypes ==
  /\ DOMAIN accounts = Users \cup {System} /\ DOMAIN projects = ProjectIds
  /\ templates \in Seq(Template) /\ tasks \in Seq(Task)
  /\ taskreq \in [Requests -> Pending]

\* A project that is somebody's stays theirs.
Allowed(u, p) == p = GlobalProject \/ (projects[p] # None /\ projects[p] = u /\ p \in ProjectIds)

\* What a template row is for.
Serves(i, c, p) ==
  i \in 1..Len(templates) /\ templates[i].contract = c /\ templates[i].project \in {None, p}

\* A request that has been let through may still use the project, and the row
\* it found is still one for its contract.
LetThrough(r) ==
  LET s == taskreq[r] IN
  /\ s.pc # "idle" => s.project \in ProjectIds
  /\ s.pc \in {"find", "insert"} => Allowed(s.user, s.project) /\ ScopeFits(s.contract, s.project)
  /\ s.found # 0 => Serves(s.found, s.contract, s.project)

\* A task is its user's, with a row for its contract.
Rightful(t) == Allowed(t.user, t.project) /\ Serves(t.template, t.contract, t.project)

Owned ==
  /\ PlatformTypes
  /\ \A u \in held \cup tokens : u \in Users \cup {System} /\ accounts[u] # None
  /\ \A r \in Requests : LetThrough(r)
  /\ \A i \in 1..Len(tasks) : Rightful(tasks[i])

----------------------------------------------------------------------------
(* The newest row there is, of those that match.                              *)

LEMMA Newest ==
  ASSUME NEW n \in Nat, NEW S \in SUBSET (1..n), S # {}
  PROVE  \E i \in S : \A j \in S : j <= i
<1> DEFINE T == {i..n : i \in S}
<1>1. T \subseteq FiniteSubsetsOf(1..n) /\ T # {}
  <2>1. \A i \in S : i \in Int /\ n \in Int /\ i..n \in SUBSET (1..n)
    OBVIOUS
  <2> QED BY <2>1, FS_Interval DEF FiniteSubsetsOf
<1>2. PICK x \in T : \A y \in T : <<y, x>> \notin StrictSubsetOrdering(1..n)
  BY <1>1, FS_StrictSubsetOrderingWellFounded, WFMin
<1>3. PICK i \in S : x = i..n
  OBVIOUS
<1>4. ASSUME NEW j \in S PROVE j <= i
  <2> SUFFICES ASSUME i < j PROVE FALSE
    OBVIOUS
  <2>1. j..n \in SUBSET (i..n) /\ i \in i..n /\ i \notin j..n
    OBVIOUS
  <2>2. (i..n) \in SUBSET (1..n) /\ (j..n) \in SUBSET (1..n)
    OBVIOUS
  <2>3. <<j..n, i..n>> \in StrictSubsetOrdering(1..n)
    BY <1>1, <2>1, <2>2 DEF StrictSubsetOrdering
  <2> QED BY <1>2, <1>3, <2>3
<1> QED BY <1>4

----------------------------------------------------------------------------
(* Each step keeps it.                                                        *)

\* The row a request finds is one for its contract.
LEMMA FindsOneFor ==
  ASSUME PlatformTypes, NEW s \in Pending, FindTemplate(s) # 0
  PROVE  Serves(FindTemplate(s), s.contract, s.project)
<1> DEFINE same == {i \in Rows(s) : templates[i].contract = s.contract}
<1>1. same \in SUBSET (1..Len(templates)) /\ Len(templates) \in Nat
  BY DEF Rows, PlatformTypes
<1>2. same # {} /\ FindTemplate(s) = CHOOSE i \in same : \A j \in same : j <= i
  BY DEF FindTemplate
<1>3. \E i \in same : \A j \in same : j <= i
  <2> HIDE DEF same
  <2> QED BY <1>1, <1>2, Newest
<1>4. FindTemplate(s) \in same
  <2> HIDE DEF same
  <2> QED BY <1>2, <1>3
<1> QED BY <1>1, <1>4 DEF Serves, Rows, TemplateProject

\* Nobody has anything at first.
LEMMA OwnedInit == PlatformInit => Owned
<1> SUFFICES ASSUME PlatformInit PROVE Owned
  OBVIOUS
<1>1. PlatformTypes
  BY DEF PlatformInit, PlatformTypes, Pending, NoTask
<1>2. \A r \in Requests : LetThrough(r)
  BY DEF PlatformInit, LetThrough, NoTask
<1> QED BY <1>1, <1>2 DEF PlatformInit, Owned

\* A step that adds rows only, and takes no project from its owner, leaves what
\* the other requests were let through for, and the tasks.
Grows ==
  /\ \A u, p : Allowed(u, p) => Allowed(u, p)'
  /\ \A i, c, p : Serves(i, c, p) => Serves(i, c, p)'

LEMMA OthersLetThrough ==
  ASSUME Owned, Grows, NEW r \in Requests, taskreq'[r] = taskreq[r]
  PROVE  LetThrough(r)'
BY DEF Owned, Grows, LetThrough, ScopeFits

\* So does one that leaves both alone.
LEMMA RowsStay ==
  ASSUME Owned, UNCHANGED <<templates, projects>>
  PROVE  Grows
BY DEF Grows, Allowed, Serves

\* A step that adds no task.
LEMMA NoNewTask ==
  ASSUME Owned, Grows, tasks' = tasks
  PROVE  \A i \in 1..Len(tasks') : Rightful(tasks[i])'
<1> SUFFICES ASSUME NEW i \in 1..Len(tasks') PROVE Rightful(tasks[i])'
  OBVIOUS
<1> DEFINE t == tasks[i]
<1>1. Rightful(t) /\ tasks'[i] = t
  BY DEF Owned
<1>2. Allowed(t.user, t.project)' /\ Serves(t.template, t.contract, t.project)'
  BY <1>1 DEF Rightful, Grows
<1> QED BY <1>1, <1>2 DEF Rightful

\* A step of a request that leaves accounts, projects and rows alone.
LEMMA RequestOnly ==
  ASSUME Owned, NEW r \in Requests, NEW q \in Pending, SetTask(r, q), LetThrough(r)',
         UNCHANGED <<up, accounts, projects, tokens, held, templates, tasks>>
  PROVE  Owned'
<1>1. Grows
  BY RowsStay
<1>2. PlatformTypes'
  BY DEF Owned, PlatformTypes, SetTask
<1>3. ASSUME NEW o \in Requests PROVE LetThrough(o)'
  <2>1. CASE o = r
    BY <2>1
  <2>2. CASE o # r
    <3>1. taskreq'[o] = taskreq[o]
      BY <2>2 DEF SetTask, Owned, PlatformTypes
    <3> QED BY <1>1, <3>1, OthersLetThrough
  <2> QED BY <2>1, <2>2
<1>4. \A i \in 1..Len(tasks') : Rightful(tasks[i])'
  BY <1>1, NoNewTask
<1> QED BY <1>2, <1>3, <1>4 DEF Owned

LEMMA StartupKeeps == ASSUME Owned, Startup, None \notin {"active", "system"} PROVE Owned'
<1>1. Grows
  BY DEF Startup, Grows, Allowed, Serves, Owned, PlatformTypes
<1>2. PlatformTypes'
  BY DEF Startup, Owned, PlatformTypes
<1>3. \A r \in Requests : LetThrough(r)'
  BY <1>1, OthersLetThrough DEF Startup
<1>4. \A i \in 1..Len(tasks') : Rightful(tasks[i])'
  BY <1>1, NoNewTask DEF Startup
<1>5. \A u \in held' \cup tokens' : u \in Users \cup {System} /\ accounts'[u] # None
  BY DEF Startup, Owned, PlatformTypes
<1> QED BY <1>2, <1>3, <1>4, <1>5 DEF Owned

LEMMA StopKeeps == ASSUME Owned, Stop PROVE Owned'
<1>1. Grows
  BY RowsStay DEF Stop
<1>2. PlatformTypes'
  BY DEF Stop, Owned, PlatformTypes, Pending, NoTask
<1>3. \A r \in Requests : LetThrough(r)'
  BY DEF Stop, LetThrough, NoTask
<1>4. \A i \in 1..Len(tasks') : Rightful(tasks[i])'
  BY <1>1, NoNewTask DEF Stop
<1> QED BY <1>2, <1>3, <1>4 DEF Owned, Stop

LEMMA UserKeeps ==
  ASSUME Owned, None \notin {"active", "system"}, NEW u \in Users \cup {System},
         CreateUser(u) \/ Login(u) \/ CreateProject(u)
  PROVE  Owned'
<1>1. CASE CreateUser(u) \/ Login(u)
  <2>1. Grows
    BY <1>1, RowsStay DEF CreateUser, Login
  <2>2. PlatformTypes'
    BY <1>1 DEF CreateUser, Login, Owned, PlatformTypes
  <2>3. \A r \in Requests : LetThrough(r)'
    BY <1>1, <2>1, OthersLetThrough DEF CreateUser, Login
  <2>4. \A i \in 1..Len(tasks') : Rightful(tasks[i])'
    BY <1>1, <2>1, NoNewTask DEF CreateUser, Login
  <2>5. \A v \in held' \cup tokens' : v \in Users \cup {System} /\ accounts'[v] # None
    BY <1>1 DEF CreateUser, Login, Authenticate, Owned, PlatformTypes
  <2> QED BY <2>2, <2>3, <2>4, <2>5 DEF Owned
<1>2. CASE CreateProject(u)
  <2>1. Grows
    BY <1>2 DEF CreateProject, Grows, Allowed, Serves, Owned, PlatformTypes
  <2>2. PlatformTypes'
    BY <1>2 DEF CreateProject, Owned, PlatformTypes
  <2>3. \A r \in Requests : LetThrough(r)'
    BY <1>2, <2>1, OthersLetThrough DEF CreateProject
  <2>4. \A i \in 1..Len(tasks') : Rightful(tasks[i])'
    BY <1>2, <2>1, NoNewTask DEF CreateProject
  <2> QED BY <1>2, <2>2, <2>3, <2>4 DEF Owned, CreateProject
<1> QED BY <1>1, <1>2

LEMMA CreateTaskKeeps ==
  ASSUME Owned, NEW r \in Requests, NEW u \in Users, NEW p \in ProjectIds, NEW c \in Contracts,
         CreateTask(r, u, p, c)
  PROVE  Owned'
<1> DEFINE q == [pc |-> "access", user |-> u, project |-> p, contract |-> c, found |-> 0]
<1>1. q \in Pending /\ SetTask(r, q) /\ taskreq'[r] = q
  BY DEF CreateTask, SetTask, Pending, Owned, PlatformTypes
<1>2. LetThrough(r)'
  BY <1>1 DEF LetThrough
<1> QED BY <1>1, <1>2, RequestOnly DEF CreateTask

LEMMA CheckAccessKeeps ==
  ASSUME Owned, NEW r \in Requests, CheckAccess(r) PROVE Owned'
<1> DEFINE fine == EnsureProjectAccess(taskreq[r].user, taskreq[r].project) /\ ScopeFits(taskreq[r].contract, taskreq[r].project)
           q == IF fine THEN [taskreq[r] EXCEPT !.pc = "find"] ELSE NoTask
<1>1. taskreq[r] \in Pending /\ LetThrough(r)
  BY DEF Owned, PlatformTypes
<1>2. q \in Pending /\ SetTask(r, q) /\ taskreq'[r] = q
  BY <1>1 DEF CheckAccess, SetTask, Pending, NoTask, Owned, PlatformTypes
<1>3. LetThrough(r)'
  <2>1. CASE fine
    <3>1. q.pc = "find" /\ q.user = taskreq[r].user /\ q.project = taskreq[r].project
            /\ q.contract = taskreq[r].contract /\ q.found = taskreq[r].found
      BY <1>1, <2>1 DEF Pending
    <3>2. taskreq[r].project \in ProjectIds
      BY <1>1 DEF LetThrough, CheckAccess
    <3>3. Allowed(taskreq[r].user, taskreq[r].project) /\ ScopeFits(taskreq[r].contract, taskreq[r].project)
      BY <2>1, <3>2 DEF EnsureProjectAccess, FetchProjectForUser, Allowed
    <3>4. taskreq[r].found # 0 => Serves(taskreq[r].found, taskreq[r].contract, taskreq[r].project)
      BY <1>1 DEF LetThrough
    <3>5. Grows
      BY RowsStay DEF CheckAccess
    <3> HIDE DEF q
    <3> QED BY <1>2, <3>1, <3>2, <3>3, <3>4, <3>5 DEF LetThrough, ScopeFits, Grows
  <2>2. CASE ~fine
    BY <1>2, <2>2 DEF LetThrough, NoTask
  <2> QED BY <2>1, <2>2
<1> QED BY <1>2, <1>3, RequestOnly DEF CheckAccess

LEMMA FindKeeps == ASSUME Owned, NEW r \in Requests, Find(r) PROVE Owned'
<1> DEFINE q == [taskreq[r] EXCEPT !.pc = "insert", !.found = FindTemplate(taskreq[r])]
<1>1. taskreq[r] \in Pending /\ LetThrough(r) /\ PlatformTypes
  BY DEF Owned, PlatformTypes
<1>2. FindTemplate(taskreq[r]) # 0 => Serves(FindTemplate(taskreq[r]), taskreq[r].contract, taskreq[r].project)
  BY <1>1, FindsOneFor
<1>3. FindTemplate(taskreq[r]) \in Nat
  BY <1>1, <1>2 DEF Serves, PlatformTypes
<1>4. q \in Pending /\ q.pc = "insert" /\ q.user = taskreq[r].user /\ q.project = taskreq[r].project
      /\ q.contract = taskreq[r].contract /\ q.found = FindTemplate(taskreq[r])
  BY <1>1, <1>3 DEF Pending
<1>5. SetTask(r, q)
  BY DEF Find
<1> HIDE DEF q
<1>6. taskreq'[r] = q
  BY <1>1, <1>5 DEF SetTask, PlatformTypes
<1>7. Allowed(q.user, q.project) /\ ScopeFits(q.contract, q.project) /\ q.project \in ProjectIds
  BY <1>1, <1>4 DEF LetThrough, Find
<1>8. q.found # 0 => Serves(q.found, q.contract, q.project)
  BY <1>2, <1>4
<1>9. LetThrough(r)'
  <2>1. Grows
    BY RowsStay DEF Find
  <2> QED BY <1>6, <1>7, <1>8, <2>1 DEF LetThrough, ScopeFits, Grows
<1> QED BY <1>4, <1>5, <1>9, RequestOnly DEF Find

LEMMA InsertKeeps == ASSUME Owned, NEW r \in Requests, Insert(r) PROVE Owned'
<1> DEFINE s == taskreq[r]
           row == [contract |-> s.contract, project |-> TemplateProject(s)]
           id == IF s.found = 0 THEN Len(templates) + 1 ELSE s.found
           t == [user |-> s.user, project |-> s.project, contract |-> s.contract, template |-> id]
<1>1. s \in Pending /\ LetThrough(r) /\ PlatformTypes /\ s.pc = "insert"
  BY DEF Owned, PlatformTypes, Insert
<1>2. row \in Template /\ row.contract = s.contract /\ row.project \in {None, s.project}
  BY <1>1 DEF Pending, Template, TemplateProject
<1>3. templates' = (IF s.found = 0 THEN Append(templates, row) ELSE templates)
      /\ tasks' = Append(tasks, t) /\ SetTask(r, NoTask) /\ UNCHANGED <<up, accounts, projects, tokens, held>>
  BY DEF Insert
<1>4. id \in Nat /\ t \in Task
  BY <1>1 DEF Pending, Task, PlatformTypes
<1>5. t.user = s.user /\ t.project = s.project /\ t.contract = s.contract /\ t.template = id
  OBVIOUS
<1> HIDE DEF t, row
<1>6. PlatformTypes'
  <2>1. tasks' \in Seq(Task)
    BY <1>1, <1>3, <1>4 DEF PlatformTypes
  <2>2. templates' \in Seq(Template)
    BY <1>1, <1>2, <1>3 DEF PlatformTypes
  <2>3. taskreq' \in [Requests -> Pending]
    BY <1>1, <1>3 DEF PlatformTypes, SetTask, Pending, NoTask
  <2> QED BY <1>1, <1>3, <2>1, <2>2, <2>3 DEF PlatformTypes
<1>7. Grows
  <2>1. \A u, p : Allowed(u, p) => Allowed(u, p)'
    BY <1>3 DEF Allowed
  <2>2. \A i \in 1..Len(templates) : i \in 1..Len(templates') /\ templates'[i] = templates[i]
    BY <1>1, <1>2, <1>3 DEF PlatformTypes
  <2>3. \A i, c, p : Serves(i, c, p) => Serves(i, c, p)'
    BY <2>2 DEF Serves
  <2> QED BY <2>1, <2>3 DEF Grows
<1>8. \A o \in Requests : LetThrough(o)'
  <2> TAKE o \in Requests
  <2>1. CASE o = r
    BY <1>1, <1>3, <2>1 DEF LetThrough, SetTask, NoTask, PlatformTypes
  <2>2. CASE o # r
    <3>1. taskreq'[o] = taskreq[o]
      BY <1>1, <1>3, <2>2 DEF SetTask, PlatformTypes
    <3> QED BY <1>7, <3>1, OthersLetThrough
  <2> QED BY <2>1, <2>2
<1>9. Allowed(s.user, s.project)
  BY <1>1 DEF LetThrough
<1>10. id \in 1..Len(templates') /\ templates'[id].contract = s.contract
       /\ templates'[id].project \in {None, s.project}
  <2>1. CASE s.found = 0
    <3>1. id \in 1..Len(templates') /\ templates'[id] = row
      BY <1>1, <1>2, <1>3, <2>1 DEF PlatformTypes
    <3> QED BY <1>2, <3>1
  <2>2. CASE s.found # 0
    BY <1>1, <1>3, <2>2 DEF LetThrough, Serves
  <2> QED BY <2>1, <2>2
<1>11. ASSUME NEW i \in 1..Len(tasks') PROVE Rightful(tasks[i])'
  <2>1. CASE i \in 1..Len(tasks)
    <3> DEFINE x == tasks[i]
    <3>1. tasks'[i] = x
      BY <1>1, <1>3, <1>4, <2>1 DEF PlatformTypes
    <3>2. Allowed(x.user, x.project) /\ Serves(x.template, x.contract, x.project)
      BY <2>1 DEF Owned, Rightful
    <3> HIDE DEF x
    <3> QED BY <1>7, <3>1, <3>2 DEF Rightful, Grows
  <2>2. CASE i \notin 1..Len(tasks)
    <3>1. tasks'[i] = t
      BY <1>1, <1>3, <1>4, <2>2 DEF PlatformTypes
    <3>2. tasks'[i].user = s.user /\ tasks'[i].project = s.project
          /\ tasks'[i].contract = s.contract /\ tasks'[i].template = id
      BY <1>5, <3>1
    <3> QED BY <1>3, <1>9, <1>10, <3>2 DEF Rightful, Allowed, Serves
  <2> QED BY <2>1, <2>2
<1> QED BY <1>3, <1>6, <1>8, <1>11 DEF Owned

LEMMA OwnedNext ==
  ASSUME Owned, [PlatformNext]_platformVars, None \notin {"active", "system"}
  PROVE  Owned'
<1>1. CASE Startup
  BY <1>1, StartupKeeps
<1>2. CASE Stop
  BY <1>2, StopKeeps
<1>3. CASE \E u \in Users \cup {System} : CreateUser(u) \/ Login(u) \/ CreateProject(u)
  BY <1>3, UserKeeps
<1>4. ASSUME NEW r \in Requests, CheckAccess(r) PROVE Owned'
  BY <1>4, CheckAccessKeeps
<1>5. ASSUME NEW r \in Requests, Find(r) PROVE Owned'
  BY <1>5, FindKeeps
<1>6. ASSUME NEW r \in Requests, Insert(r) PROVE Owned'
  BY <1>6, InsertKeeps
<1>7. ASSUME NEW r \in Requests,
             \E u \in Users, p \in ProjectIds, c \in Contracts : CreateTask(r, u, p, c)
      PROVE  Owned'
  BY <1>7, CreateTaskKeeps
<1>8. CASE UNCHANGED platformVars
  <2>1. Grows
    BY <1>8, RowsStay DEF platformVars
  <2>2. \A r \in Requests : LetThrough(r)'
    BY <1>8, <2>1, OthersLetThrough DEF platformVars
  <2>3. \A i \in 1..Len(tasks') : Rightful(tasks[i])'
    BY <1>8, <2>1, NoNewTask DEF platformVars
  <2> QED BY <1>8, <2>2, <2>3 DEF Owned, PlatformTypes, platformVars
<1> QED BY <1>1, <1>2, <1>3, <1>4, <1>5, <1>6, <1>7, <1>8 DEF PlatformNext

----------------------------------------------------------------------------

LEMMA OwnedIsOnly == Owned => OwnersOnly
<1> SUFFICES ASSUME Owned PROVE PlatformTypeOK /\ OwnTasks
  BY DEF OwnersOnly
<1>1. \A r \in Requests : taskreq[r].found \in 0..Len(templates)
  <2> TAKE r \in Requests
  <2>1. taskreq[r].found \in Nat /\ Len(templates) \in Nat /\ LetThrough(r)
    BY DEF Owned, PlatformTypes, Pending
  <2> QED BY <2>1 DEF LetThrough, Serves
<1>2. PlatformTypeOK
  BY <1>1 DEF Owned, PlatformTypeOK
<1>3. OwnTasks
  BY DEF Owned, OwnTasks, Rightful, Allowed, Serves
<1> QED BY <1>2, <1>3

(* Every task lies in the global project or in its user's own, although        *)
(* create_task checks that long before it writes the row, and its template is  *)
(* one for its contract, of that project or of none; only accounts hold tokens. *)
THEOREM OwnersAlwaysOnly ==
  ASSUME None \notin {"active", "system"}
  PROVE  PlatformSpec => []OwnersOnly
<1>1. PlatformInit => Owned
  BY OwnedInit
<1>2. Owned /\ [PlatformNext]_platformVars => Owned'
  BY OwnedNext
<1>3. Owned => OwnersOnly
  BY OwnedIsOnly
<1> QED BY <1>1, <1>2, <1>3, PTL DEF PlatformSpec

----------------------------------------------------------------------------
(* migrate: the inductive invariant.                                          *)

\* A row of the old database has its name still, or another for a reason.
NameKept(rows, before, i) ==
  /\ rows[i].name.base = before[i].name.base /\ ProjectOf(rows[i].scope) = ProjectOf(before[i].scope)
  /\ rows[i].name = before[i].name \/ Clashed(before, i)
\* Rows that come to one project and share a name have had it from the beginning.
OldShares(rows, before, S) ==
  \A i, j \in S : /\ i # j /\ rows[i].name = rows[j].name
                  /\ ProjectOf(rows[i].scope) = ProjectOf(rows[j].scope)
                  => rows[i].name = before[i].name
LiveRows(d) == {a \in DOMAIN d.assets : d.assets[a].live}
AssetsKept(d, o) ==
  /\ DOMAIN d.assets = DOMAIN o.assets
  /\ \A a \in DOMAIN d.assets : /\ NameKept(d.assets, o.assets, a) /\ d.assets[a].live = o.assets[a].live
                                /\ TagBases(d, a) = TagBases(o, a)
TagsKept(d, o) == DOMAIN d.tags \subseteq DOMAIN o.tags /\ \A t \in DOMAIN d.tags : NameKept(d.tags, o.tags, t)
EntriesKept(d) ==
  \A e \in d.entries : e.scope = d.assets[e.asset].scope /\ ProjectOf(e.scope) = ProjectOf(d.tags[e.tag].scope)
\* What has become of an old database, at any point of an upgrade.
Faithful(d, o) ==
  /\ Schema(d) /\ AssetsKept(d, o) /\ TagsKept(d, o) /\ EntriesKept(d)
  /\ OldShares(d.assets, o.assets, LiveRows(d)) /\ OldShares(d.tags, o.tags, DOMAIN d.tags)

\* The global assets that have been compared share no name with one another or with
\* what is in the global project already.
Apart(d, left, names) ==
  LET seen == AssetsIn(d, Global) \ left IN
  /\ \A a \in seen : /\ d.assets[a].name \in names
                     /\ \A b \in AssetsIn(d, GlobalProject) : d.assets[a].name # d.assets[b].name
                     /\ \A b \in seen : d.assets[a].name = d.assets[b].name => a = b
  /\ \A n \in names : \E a \in seen : n = d.assets[a].name
\* A global asset has its old name, or once its own id behind that; those left to
\* compare have the old one.
GlobalNames(d, o, left) ==
  \A a \in AssetsIn(d, Global) :
    /\ o.assets[a].scope = Global
    /\ \/ d.assets[a].name = o.assets[a].name
       \/ a \notin left /\ \E n \in Nat : d.assets[a].name = Candidate(o.assets[a].name, a, n)
NoGlobal(d) ==
  /\ \A a \in DOMAIN d.assets : d.assets[a].scope # Global
  /\ \A t \in DOMAIN d.tags : d.tags[t].scope # Global
\* How far it is.
Progress ==
  /\ phase \notin Running => db = disk
  /\ phase = "scope" => /\ todo \subseteq AssetsIn(db, Global) /\ Apart(db, todo, reserved)
                        /\ GlobalNames(db, old, todo)
  /\ phase \in {"names", "tagnames", "indexed"} => NoGlobal(db)
  /\ phase \in {"tagnames", "indexed"} => "assets" \in db.indexed
  /\ phase = "indexed" => "tags" \in db.indexed
Upgrading ==
  /\ old \in OldDatabases
  /\ Faithful(disk, old) /\ Faithful(db, old) /\ Fits(disk) /\ Fits(db)
  /\ Progress /\ MigrationWorks /\ (Upgraded(disk) => db = disk)

----------------------------------------------------------------------------
(* migrate: names and their suffixes.                                         *)

\* Candidates tell their rows and their numbers apart.
LEMMA CandidatesDiffer ==
  ASSUME NEW x, NEW y, x.tail \in Seq(Nat \X Nat), y.tail \in Seq(Nat \X Nat),
         NEW i \in Nat, NEW j \in Nat, NEW m \in Nat, NEW n \in Nat, Candidate(x, i, m) = Candidate(y, j, n)
  PROVE  i = j /\ m = n
<1> DEFINE s == x.tail
           t == y.tail
           e == <<i, m>>
           f == <<j, n>>
<1>1. Append(s, e) = Append(t, f)
  <2>1. Candidate(x, i, m).tail = Append(s, e) /\ Candidate(y, j, n).tail = Append(t, f)
    BY DEF Candidate
  <2> QED BY <2>1
<1>2. s \in Seq(Nat \X Nat) /\ t \in Seq(Nat \X Nat) /\ e \in Nat \X Nat /\ f \in Nat \X Nat
  OBVIOUS
<1> HIDE DEF s, t, e, f
<1>3. Len(s) \in Nat /\ Len(Append(s, e)) = Len(s) + 1 /\ Append(s, e)[Len(s) + 1] = e
  BY <1>2
<1>4. Len(t) \in Nat /\ Len(Append(t, f)) = Len(t) + 1 /\ Append(t, f)[Len(t) + 1] = f
  BY <1>2
<1>5. Len(s) = Len(t)
  BY <1>1, <1>3, <1>4
<1>6. e = f
  BY <1>1, <1>3, <1>4, <1>5
<1> QED BY <1>6 DEF e, f

\* Some numbers that are bounded have a least one.
LEMMA Least ==
  ASSUME NEW n \in Nat, NEW S \in SUBSET (1..n), S # {}
  PROVE  \E i \in S : \A j \in S : i <= j
<1> DEFINE F == {1..i : i \in S}
<1>1. F \subseteq FiniteSubsetsOf(1..n) /\ F # {}
  <2>1. ASSUME NEW i \in S PROVE 1..i \in SUBSET (1..n) /\ IsFiniteSet(1..i)
    <3>1. 1 \in Int /\ i \in Int /\ 1..i \in SUBSET (1..n)
      OBVIOUS
    <3>2. IsFiniteSet(1..i)
      BY <3>1, FS_Interval
    <3> QED BY <3>1, <3>2
  <2> QED BY <2>1 DEF FiniteSubsetsOf
<1>2. PICK x \in F : \A y \in F : <<y, x>> \notin StrictSubsetOrdering(1..n)
  BY <1>1, FS_Interval, FS_StrictSubsetOrderingWellFounded, WFMin
<1>3. PICK i \in S : x = 1..i
  OBVIOUS
<1>4. ASSUME NEW j \in S, ~(i <= j) PROVE FALSE
  <2>1. 1..j \in SUBSET (1..i) /\ i \in 1..i /\ i \notin 1..j
    BY <1>4
  <2>2. (1..i) \in SUBSET (1..n) /\ (1..j) \in SUBSET (1..n)
    OBVIOUS
  <2>3. <<1..j, 1..i>> \in StrictSubsetOrdering(1..n)
    BY <2>1, <2>2 DEF StrictSubsetOrdering
  <2> QED BY <1>2, <1>3, <2>3
<1> QED BY <1>4

\* Of one candidate more than there are names, one is free.
LEMMA SomeFree ==
  ASSUME NEW names, IsFiniteSet(names), NEW name, name.tail \in Seq(Nat \X Nat), NEW i \in Nat
  PROVE  \E n \in 1..(Cardinality(names) + 1) : Candidate(name, i, n) \notin names
<1> DEFINE some == 1..(Cardinality(names) + 1)
           f == [n \in some |-> Candidate(name, i, n)]
<1>1. Cardinality(names) \in Nat
  BY FS_CardinalityType
<1>2. IsFiniteSet(some) /\ Cardinality(some) = Cardinality(names) + 1 /\ some \subseteq Nat
  <2> DEFINE last == Cardinality(names) + 1
  <2>1. last \in Int /\ ~(1 > last) /\ last - 1 + 1 = last /\ 1..last \subseteq Nat
    BY <1>1
  <2> HIDE DEF last
  <2>2. 1 \in Int /\ IsFiniteSet(1..last) /\ Cardinality(1..last) = last
    BY <2>1, FS_Interval
  <2> QED BY <2>1, <2>2 DEF last
<1> SUFFICES ASSUME \A n \in some : Candidate(name, i, n) \in names PROVE FALSE
  OBVIOUS
<1>3. f \in [some -> names] /\ \A n \in some : f[n] = Candidate(name, i, n)
  OBVIOUS
<1>4. Cardinality(names) < Cardinality(some)
  BY <1>1, <1>2
<1> HIDE DEF some, f
<1>5. PICK m \in some, n \in some : m # n /\ f[m] = f[n]
  <2>1. IsFiniteSet(some) /\ IsFiniteSet(names) /\ f \in [some -> names]
    BY <1>2, <1>3
  <2>2. \E x, y \in some : x # y /\ f[x] = f[y]
    BY <2>1, <1>4, FS_PigeonHole, Zenon
  <2> QED BY <2>2
<1> QED BY <1>2, <1>3, <1>5, CandidatesDiffer

\* The name found is a candidate, and none of the names.
LEMMA FirstFreeIs ==
  ASSUME NEW names, IsFiniteSet(names), NEW name \in Name, NEW i \in Nat
  PROVE  /\ FirstFree(names, name, i) \notin names
         /\ FirstFree(names, name, i) \in Name
         /\ \E n \in Nat : FirstFree(names, name, i) = Candidate(name, i, n)
<1> SUFFICES ASSUME NEW c, c = FirstFree(names, name, i)
             PROVE  c \notin names /\ c \in Name /\ \E n \in Nat : c = Candidate(name, i, n)
  OBVIOUS
<1> DEFINE free == {n \in 1..(Cardinality(names) + 1) : Candidate(name, i, n) \notin names}
           least == CHOOSE n \in free : \A m \in free : n <= m
<1>1. name.base \in Bases /\ name.tail \in Seq(Nat \X Nat)
  BY DEF Name
<1>2. free # {} /\ free \subseteq Nat
  <2>1. Cardinality(names) \in Nat
    BY FS_CardinalityType
  <2>2. PICK n \in 1..(Cardinality(names) + 1) : Candidate(name, i, n) \notin names
    BY <1>1, SomeFree
  <2> QED BY <2>1, <2>2
<1>2a. Cardinality(names) + 1 \in Nat /\ free \subseteq 1..(Cardinality(names) + 1)
  BY FS_CardinalityType
<1>3. c = Candidate(name, i, least)
  BY DEF FirstFree
<1>4. \A n \in free : n \in Nat /\ Candidate(name, i, n) \notin names
  BY <1>2
<1> HIDE DEF free
<1>5. least \in free
  <2>1. \E n \in free : \A m \in free : n <= m
    BY <1>2, <1>2a, Least
  <2> QED BY <2>1
<1> HIDE DEF least
<1>6. c \notin names /\ least \in Nat
  BY <1>3, <1>4, <1>5
<1>7. c = [base |-> name.base, tail |-> Append(name.tail, <<i, least>>)]
  BY <1>3 DEF Candidate
<1>8. Append(name.tail, <<i, least>>) \in Seq(Nat \X Nat)
  BY <1>1, <1>6
<1>9. c \in Name
  BY <1>1, <1>7, <1>8 DEF Name
<1> QED BY <1>3, <1>6, <1>9

\* The names of some rows are finitely many.
LEMMA FewNames ==
  ASSUME NEW rows, NEW S \in SUBSET DOMAIN rows, IsFiniteSet(DOMAIN rows)
  PROVE  IsFiniteSet({rows[i].name : i \in S})
<1> DEFINE T == {rows[i].name : i \in S}
           f == [i \in S |-> rows[i].name]
<1>1. IsFiniteSet(S)
  BY FS_Subset
<1>2. f \in Surjection(S, T)
  BY DEF Surjection
<1> HIDE DEF f, T
<1>3. IsFiniteSet(T)
  BY <1>1, <1>2, FS_Surjection
<1> QED BY <1>3 DEF T

LEMMA AssetCandidate ==
  ASSUME Schema(db), NEW a \in DOMAIN db.assets, NEW scope, NEW c, c = DeduplicatedAssetName(scope, a)
  PROVE  /\ c \in Name /\ c.base = db.assets[a].name.base
         /\ \A b \in AssetsIn(db, scope) : db.assets[b].name # c
         /\ \E n \in Nat : c = Candidate(db.assets[a].name, a, n)
<1>1. a \in Nat /\ db.assets[a].name \in Name
  BY DEF Schema, AssetRow
<1>2. IsFiniteSet(AssetNamesIn(scope))
  BY FewNames DEF AssetNamesIn, AssetsIn, Schema
<1>3. c = FirstFree(AssetNamesIn(scope), db.assets[a].name, a)
  BY DEF DeduplicatedAssetName
<1>4. \A b \in AssetsIn(db, scope) : db.assets[b].name \in AssetNamesIn(scope)
  BY DEF AssetNamesIn
<1>5. /\ c \notin AssetNamesIn(scope) /\ c \in Name /\ c.base = db.assets[a].name.base
      /\ \E n \in Nat : c = Candidate(db.assets[a].name, a, n)
  <2> DEFINE names == AssetNamesIn(scope)
             name == db.assets[a].name
  <2>1. IsFiniteSet(names) /\ name \in Name /\ a \in Nat /\ c = FirstFree(names, name, a)
    BY <1>1, <1>2, <1>3
  <2> HIDE DEF names, name
  <2>2. c \notin names
    BY <2>1, FirstFreeIs
  <2>3. c \in Name
    BY <2>1, FirstFreeIs
  <2>4. \E n \in Nat : c = Candidate(name, a, n)
    BY <2>1, FirstFreeIs
  <2>5. c.base = name.base
    BY <2>4 DEF Candidate
  <2> QED BY <2>2, <2>3, <2>4, <2>5 DEF names, name
<1> QED BY <1>4, <1>5

LEMMA TagCandidate ==
  ASSUME Schema(db), NEW t \in DOMAIN db.tags, NEW scope, NEW c, c = DeduplicatedTagName(scope, t)
  PROVE  /\ c \in Name /\ c.base = db.tags[t].name.base
         /\ \A u \in Tags(db, scope) : db.tags[u].name # c
<1>1. t \in Nat /\ db.tags[t].name \in Name
  BY DEF Schema, TagRow
<1>2. IsFiniteSet(TagNamesIn(scope))
  BY FewNames DEF TagNamesIn, Tags, Schema
<1>3. c = FirstFree(TagNamesIn(scope), db.tags[t].name, t)
  BY DEF DeduplicatedTagName
<1>4. \A u \in Tags(db, scope) : db.tags[u].name \in TagNamesIn(scope)
  BY DEF TagNamesIn
<1>5. /\ c \notin TagNamesIn(scope) /\ c \in Name /\ c.base = db.tags[t].name.base
      /\ \E n \in Nat : c = Candidate(db.tags[t].name, t, n)
  <2> DEFINE names == TagNamesIn(scope)
             name == db.tags[t].name
  <2>1. IsFiniteSet(names) /\ name \in Name /\ t \in Nat /\ c = FirstFree(names, name, t)
    BY <1>1, <1>2, <1>3
  <2> HIDE DEF names, name
  <2>2. c \notin names
    BY <2>1, FirstFreeIs
  <2>3. c \in Name
    BY <2>1, FirstFreeIs
  <2>4. \E n \in Nat : c = Candidate(name, t, n)
    BY <2>1, FirstFreeIs
  <2>5. c.base = name.base
    BY <2>4 DEF Candidate
  <2> QED BY <2>2, <2>3, <2>4, <2>5 DEF names, name
<1> QED BY <1>4, <1>5

\* What clashes now has always clashed.
LEMMA ClashedBefore ==
  ASSUME NEW rows, NEW before, DOMAIN rows \subseteq DOMAIN before,
         \A i \in DOMAIN rows : NameKept(rows, before, i),
         NEW S \in SUBSET DOMAIN rows, OldShares(rows, before, S), NEW i \in S, NEW j \in S, i # j,
         rows[i].name = rows[j].name, ProjectOf(rows[i].scope) = ProjectOf(rows[j].scope)
  PROVE  Clashed(before, i)
<1>1. rows[i].name = before[i].name /\ rows[j].name = before[j].name
  BY DEF OldShares
<1>2. ProjectOf(before[i].scope) = ProjectOf(before[j].scope)
  BY DEF NameKept
<1> QED BY <1>1, <1>2 DEF Clashed

----------------------------------------------------------------------------
(* migrate: what a rename changes.                                            *)

WithAssetName(d, a, name) == [d EXCEPT !.assets = WithName(d.assets, a, name)]
WithTagName(d, t, name) == [d EXCEPT !.tags = WithName(d.tags, t, name)]

LEMMA AssetNamed ==
  ASSUME NEW d, Schema(d), NEW a \in DOMAIN d.assets, NEW name \in Name,
         NEW d1, d1 = WithAssetName(d, a, name)
  PROVE  /\ Schema(d1) /\ DOMAIN d1.assets = DOMAIN d.assets
         /\ d1.tags = d.tags /\ d1.entries = d.entries /\ d1.indexed = d.indexed
         /\ d1.assets[a].name = name /\ d1.assets[a].scope = d.assets[a].scope
         /\ d1.assets[a].live = d.assets[a].live
         /\ \A b \in DOMAIN d.assets : b # a => d1.assets[b] = d.assets[b]
<1> DEFINE new == WithName(d.assets, a, name)
           row == [d.assets[a] EXCEPT !.name = name]
<1>1. d = [assets |-> d.assets, tags |-> d.tags, entries |-> d.entries, indexed |-> d.indexed]
  BY DEF Schema
<1>2. d1 = [d EXCEPT !.assets = new]
  BY DEF WithAssetName
<1>3. d.assets \in [DOMAIN d.assets -> AssetRow]
  BY DEF Schema
<1>4. row \in AssetRow /\ row.name = name /\ row.scope = d.assets[a].scope /\ row.live = d.assets[a].live
  BY <1>3 DEF AssetRow
<1>5. new = [d.assets EXCEPT ![a] = row]
  BY DEF WithName
<1> HIDE DEF row
<1>6. new \in [DOMAIN d.assets -> AssetRow] /\ DOMAIN new = DOMAIN d.assets /\ new[a] = row
      /\ \A b \in DOMAIN d.assets : b # a => new[b] = d.assets[b]
  BY <1>3, <1>4, <1>5
<1> HIDE DEF new
<1>7. d1 = [assets |-> new, tags |-> d.tags, entries |-> d.entries, indexed |-> d.indexed]
  BY <1>1, <1>2
<1>8. d1.assets = new /\ d1.tags = d.tags /\ d1.entries = d.entries /\ d1.indexed = d.indexed
  BY <1>7
<1>9. Schema(d1)
  BY <1>6, <1>7, <1>8 DEF Schema
<1> QED BY <1>4, <1>6, <1>8, <1>9

LEMMA TagNamed ==
  ASSUME NEW d, Schema(d), NEW t \in DOMAIN d.tags, NEW name \in Name,
         NEW d1, d1 = WithTagName(d, t, name)
  PROVE  /\ Schema(d1) /\ DOMAIN d1.tags = DOMAIN d.tags
         /\ d1.assets = d.assets /\ d1.entries = d.entries /\ d1.indexed = d.indexed
         /\ d1.tags[t].name = name /\ d1.tags[t].scope = d.tags[t].scope
         /\ \A u \in DOMAIN d.tags : u # t => d1.tags[u] = d.tags[u]
<1> DEFINE new == WithName(d.tags, t, name)
           row == [d.tags[t] EXCEPT !.name = name]
<1>1. d = [assets |-> d.assets, tags |-> d.tags, entries |-> d.entries, indexed |-> d.indexed]
  BY DEF Schema
<1>2. d1 = [d EXCEPT !.tags = new]
  BY DEF WithTagName
<1>3. d.tags \in [DOMAIN d.tags -> TagRow]
  BY DEF Schema
<1>4. row \in TagRow /\ row.name = name /\ row.scope = d.tags[t].scope
  BY <1>3 DEF TagRow
<1>5. new = [d.tags EXCEPT ![t] = row]
  BY DEF WithName
<1> HIDE DEF row
<1>6. new \in [DOMAIN d.tags -> TagRow] /\ DOMAIN new = DOMAIN d.tags /\ new[t] = row
      /\ \A u \in DOMAIN d.tags : u # t => new[u] = d.tags[u]
  BY <1>3, <1>4, <1>5
<1> HIDE DEF new
<1>7. d1 = [assets |-> d.assets, tags |-> new, entries |-> d.entries, indexed |-> d.indexed]
  BY <1>1, <1>2
<1>8. d1.assets = d.assets /\ d1.tags = new /\ d1.entries = d.entries /\ d1.indexed = d.indexed
  BY <1>7
<1>9. Schema(d1)
  BY <1>6, <1>7, <1>8 DEF Schema
<1> QED BY <1>4, <1>6, <1>8, <1>9

\* A rename for a reason keeps a database faithful, and breaks no index.
LEMMA AssetRenamed ==
  ASSUME NEW d, NEW o, Faithful(d, o), Fits(d), NEW a \in DOMAIN d.assets, Clashed(o.assets, a),
         NEW c \in Name, c.base = d.assets[a].name.base,
         \A b \in LiveRows(d) : b # a /\ ProjectOf(d.assets[b].scope) = ProjectOf(d.assets[a].scope)
                                => d.assets[b].name # c,
         NEW d1, d1 = WithAssetName(d, a, c)
  PROVE  Faithful(d1, o) /\ Fits(d1)
<1>1. Schema(d)
  BY DEF Faithful
<1>4. /\ Schema(d1) /\ DOMAIN d1.assets = DOMAIN d.assets
      /\ d1.tags = d.tags /\ d1.entries = d.entries /\ d1.indexed = d.indexed
      /\ d1.assets[a].name = c /\ d1.assets[a].scope = d.assets[a].scope
      /\ d1.assets[a].live = d.assets[a].live
      /\ \A b \in DOMAIN d.assets : b # a => d1.assets[b] = d.assets[b]
  BY <1>1, AssetNamed
<1>5. \A b \in DOMAIN d.assets : d1.assets[b].scope = d.assets[b].scope /\ d1.assets[b].live = d.assets[b].live
  BY <1>4
<1>6. OldShares(d1.assets, o.assets, LiveRows(d1))
  <2>1. LiveRows(d1) = LiveRows(d)
    BY <1>4, <1>5 DEF LiveRows
  <2> SUFFICES ASSUME NEW b \in LiveRows(d), NEW b1 \in LiveRows(d), b # b1,
                      d1.assets[b].name = d1.assets[b1].name,
                      ProjectOf(d1.assets[b].scope) = ProjectOf(d1.assets[b1].scope)
               PROVE  d1.assets[b].name = o.assets[b].name
    BY <2>1 DEF OldShares
  <2>2. b \in DOMAIN d.assets /\ b1 \in DOMAIN d.assets
        /\ ProjectOf(d.assets[b].scope) = ProjectOf(d.assets[b1].scope)
    BY <1>5 DEF LiveRows
  <2>3. b # a /\ b1 # a
    BY <1>4, <2>2
  <2> QED BY <1>4, <2>2, <2>3 DEF Faithful, OldShares
<1>7. AssetsKept(d1, o)
  <2>1. \A b : TagBases(d1, b) = TagBases(d, b)
    BY <1>4 DEF TagBases
  <2>2. \A b \in DOMAIN d.assets : NameKept(d1.assets, o.assets, b)
    <3> SUFFICES ASSUME NEW b \in DOMAIN d.assets PROVE NameKept(d1.assets, o.assets, b)
      OBVIOUS
    <3>1. NameKept(d.assets, o.assets, b)
      BY DEF Faithful, AssetsKept
    <3>2. CASE b = a
      BY <1>4, <3>1, <3>2 DEF NameKept
    <3>3. CASE b # a
      BY <1>4, <3>1, <3>3 DEF NameKept
    <3> QED BY <3>2, <3>3
  <2> QED BY <1>4, <1>5, <2>1, <2>2 DEF Faithful, AssetsKept
<1>8. TagsKept(d1, o) /\ OldShares(d1.tags, o.tags, DOMAIN d1.tags)
  BY <1>4 DEF Faithful, TagsKept
<1>9. EntriesKept(d1)
  <2>1. \A e \in d.entries : e.asset \in DOMAIN d.assets
    BY <1>1 DEF Schema
  <2> QED BY <1>4, <1>5, <2>1 DEF Faithful, EntriesKept
<1>10. AssetsUnique(d) => AssetsUnique(d1)
  <2> SUFFICES ASSUME AssetsUnique(d), NEW b \in DOMAIN d.assets, NEW b1 \in DOMAIN d.assets,
                      d1.assets[b].live, d1.assets[b1].live, Clash(d1.assets, b, b1), b # b1
               PROVE  FALSE
    BY <1>4 DEF AssetsUnique
  <2>1. CASE b # a /\ b1 # a
    BY <1>4, <2>1 DEF AssetsUnique, Clash
  <2>2. CASE b = a
    BY <1>4, <1>5, <2>2 DEF Clash, LiveRows
  <2>3. CASE b1 = a
    BY <1>4, <1>5, <2>3 DEF Clash, LiveRows
  <2> QED BY <2>1, <2>2, <2>3
<1>11. Fits(d1)
  BY <1>4, <1>10 DEF Fits, TagsUnique
<1> QED BY <1>4, <1>6, <1>7, <1>8, <1>9, <1>11 DEF Faithful

LEMMA TagRenamed ==
  ASSUME NEW d, NEW o, Faithful(d, o), Fits(d), NEW t \in DOMAIN d.tags, Clashed(o.tags, t),
         NEW c \in Name, c.base = d.tags[t].name.base,
         \A u \in DOMAIN d.tags : u # t /\ ProjectOf(d.tags[u].scope) = ProjectOf(d.tags[t].scope)
                                  => d.tags[u].name # c,
         NEW d1, d1 = WithTagName(d, t, c)
  PROVE  Faithful(d1, o) /\ Fits(d1)
<1>1. Schema(d)
  BY DEF Faithful
<1>4. /\ Schema(d1) /\ DOMAIN d1.tags = DOMAIN d.tags
      /\ d1.assets = d.assets /\ d1.entries = d.entries /\ d1.indexed = d.indexed
      /\ d1.tags[t].name = c /\ d1.tags[t].scope = d.tags[t].scope
      /\ \A u \in DOMAIN d.tags : u # t => d1.tags[u] = d.tags[u]
  BY <1>1, TagNamed
<1>5. \A u \in DOMAIN d.tags : d1.tags[u].scope = d.tags[u].scope /\ d1.tags[u].name.base = d.tags[u].name.base
  BY <1>4
<1>6. OldShares(d1.tags, o.tags, DOMAIN d1.tags)
  <2> SUFFICES ASSUME NEW u \in DOMAIN d.tags, NEW u1 \in DOMAIN d.tags, u # u1,
                      d1.tags[u].name = d1.tags[u1].name,
                      ProjectOf(d1.tags[u].scope) = ProjectOf(d1.tags[u1].scope)
               PROVE  d1.tags[u].name = o.tags[u].name
    BY <1>4 DEF OldShares
  <2>1. ProjectOf(d.tags[u].scope) = ProjectOf(d.tags[u1].scope)
    BY <1>5
  <2>2. u # t /\ u1 # t
    BY <1>4, <2>1
  <2> QED BY <1>4, <2>1, <2>2 DEF Faithful, OldShares
<1>7. \A e \in d.entries : e.tag \in DOMAIN d.tags
  BY <1>1 DEF Schema
<1>8. AssetsKept(d1, o)
  <2>1. ASSUME NEW b PROVE TagBases(d1, b) = TagBases(d, b)
    BY <1>4, <1>5, <1>7 DEF TagBases
  <2> QED BY <1>4, <2>1 DEF Faithful, AssetsKept
<1>9. TagsKept(d1, o)
  <2>1. \A u \in DOMAIN d.tags : NameKept(d1.tags, o.tags, u)
    <3> SUFFICES ASSUME NEW u \in DOMAIN d.tags PROVE NameKept(d1.tags, o.tags, u)
      OBVIOUS
    <3>1. NameKept(d.tags, o.tags, u)
      BY DEF Faithful, TagsKept
    <3>2. CASE u = t
      BY <1>4, <3>1, <3>2 DEF NameKept
    <3>3. CASE u # t
      BY <1>4, <3>1, <3>3 DEF NameKept
    <3> QED BY <3>2, <3>3
  <2> QED BY <1>4, <2>1 DEF Faithful, TagsKept
<1>10. EntriesKept(d1)
  BY <1>4, <1>5, <1>7 DEF Faithful, EntriesKept
<1>11. TagsUnique(d) => TagsUnique(d1)
  <2> SUFFICES ASSUME TagsUnique(d), NEW u \in DOMAIN d.tags, NEW u1 \in DOMAIN d.tags,
                      Clash(d1.tags, u, u1), u # u1
               PROVE  FALSE
    BY <1>4 DEF TagsUnique
  <2>1. CASE u # t /\ u1 # t
    BY <1>4, <2>1 DEF TagsUnique, Clash
  <2>2. CASE u = t
    BY <1>4, <1>5, <2>2 DEF Clash
  <2>3. CASE u1 = t
    BY <1>4, <1>5, <2>3 DEF Clash
  <2> QED BY <2>1, <2>2, <2>3
<1>12. Fits(d1)
  BY <1>4, <1>11 DEF Fits, AssetsUnique
<1> QED BY <1>4, <1>6, <1>8, <1>9, <1>10, <1>12 DEF Faithful, LiveRows

----------------------------------------------------------------------------
(* migrate: what the merge of tags and the move into the global project change. *)

LEMMA ProjectIs ==
  /\ GlobalProject \in DbScopes /\ GlobalProject # Global
  /\ ProjectOf(GlobalProject) = GlobalProject /\ ProjectOf(Global) = GlobalProject
  /\ \A s \in DbScopes : ProjectOf(s) \in DbScopes /\ ProjectOf(s) # Global
  /\ \A s : ProjectOf(ProjectOf(s)) = ProjectOf(s)
BY OldDatabasesAssumption DEF ProjectOf

WithTagMoved(d, t) == [d EXCEPT !.tags = [d.tags EXCEPT ![t].scope = GlobalProject]]
Joined(d, t, u) == {IF e.tag = t THEN [e EXCEPT !.tag = u] ELSE e : e \in d.entries}
WithTagJoined(d, t, u) ==
  [d EXCEPT !.tags = [v \in DOMAIN d.tags \ {t} |-> d.tags[v]], !.entries = Joined(d, t, u)]

LEMMA TagMoved ==
  ASSUME NEW d, NEW o, Faithful(d, o), Fits(d), NEW t \in Tags(d, Global),
         \A u \in Tags(d, GlobalProject) : d.tags[u].name # d.tags[t].name,
         NEW d1, d1 = WithTagMoved(d, t)
  PROVE  Faithful(d1, o) /\ Fits(d1) /\ d1.assets = d.assets /\ d1.indexed = d.indexed
<1> DEFINE new == [d.tags EXCEPT ![t].scope = GlobalProject]
           row == [d.tags[t] EXCEPT !.scope = GlobalProject]
<1>1. Schema(d) /\ t \in DOMAIN d.tags /\ d.tags[t].scope = Global
  BY DEF Faithful, Tags
<1>2. d = [assets |-> d.assets, tags |-> d.tags, entries |-> d.entries, indexed |-> d.indexed]
  BY <1>1 DEF Schema
<1>3. d1 = [d EXCEPT !.tags = new]
  BY DEF WithTagMoved
<1>4. d.tags \in [DOMAIN d.tags -> TagRow]
  BY <1>1 DEF Schema
<1>5. row \in TagRow /\ row.scope = GlobalProject /\ row.name = d.tags[t].name
  BY <1>1, <1>4, ProjectIs DEF TagRow
<1>6. new = [d.tags EXCEPT ![t] = row]
  OBVIOUS
<1> HIDE DEF row
<1>7. new \in [DOMAIN d.tags -> TagRow] /\ DOMAIN new = DOMAIN d.tags /\ new[t] = row
      /\ \A u \in DOMAIN d.tags : u # t => new[u] = d.tags[u]
  BY <1>1, <1>4, <1>5, <1>6
<1> HIDE DEF new
<1>8. d1 = [assets |-> d.assets, tags |-> new, entries |-> d.entries, indexed |-> d.indexed]
  BY <1>2, <1>3
<1>9. d1.assets = d.assets /\ d1.tags = new /\ d1.entries = d.entries /\ d1.indexed = d.indexed
  BY <1>8
<1>10. Schema(d1)
  BY <1>1, <1>7, <1>8, <1>9 DEF Schema
<1>11. \A u \in DOMAIN d.tags : new[u].name = d.tags[u].name /\ ProjectOf(new[u].scope) = ProjectOf(d.tags[u].scope)
  <2> SUFFICES ASSUME NEW u \in DOMAIN d.tags
               PROVE  new[u].name = d.tags[u].name /\ ProjectOf(new[u].scope) = ProjectOf(d.tags[u].scope)
    OBVIOUS
  <2>1. CASE u = t
    BY <1>1, <1>5, <1>7, <2>1, ProjectIs
  <2>2. CASE u # t
    BY <1>7, <2>2
  <2> QED BY <2>1, <2>2
<1>12. OldShares(d1.assets, o.assets, LiveRows(d1)) /\ OldShares(d1.tags, o.tags, DOMAIN d1.tags)
  BY <1>7, <1>9, <1>11 DEF OldShares, LiveRows, Faithful
<1>13. \A e \in d.entries : e.tag \in DOMAIN d.tags
  BY <1>1 DEF Schema
<1>14. AssetsKept(d1, o)
  <2>1. ASSUME NEW b PROVE TagBases(d1, b) = TagBases(d, b)
    BY <1>9, <1>11, <1>13 DEF TagBases
  <2> QED BY <1>9, <2>1 DEF Faithful, AssetsKept
<1>15. TagsKept(d1, o)
  BY <1>7, <1>9, <1>11 DEF Faithful, TagsKept, NameKept
<1>16. EntriesKept(d1)
  BY <1>9, <1>11, <1>13 DEF Faithful, EntriesKept
<1>17. TagsUnique(d) => TagsUnique(d1)
  <2> SUFFICES ASSUME TagsUnique(d), NEW u \in DOMAIN d.tags, NEW v \in DOMAIN d.tags, Clash(d1.tags, u, v), u # v
               PROVE  FALSE
    BY <1>7, <1>9 DEF TagsUnique
  <2>1. new[u].name = new[v].name /\ new[u].scope = new[v].scope
    BY <1>9 DEF Clash
  <2>2. CASE u # t /\ v # t
    BY <1>7, <2>1, <2>2 DEF TagsUnique, Clash
  <2>3. CASE u = t
    BY <1>5, <1>7, <2>1, <2>3 DEF Tags
  <2>4. CASE v = t
    BY <1>5, <1>7, <2>1, <2>4 DEF Tags
  <2> QED BY <2>2, <2>3, <2>4
<1>18. Fits(d1)
  BY <1>9, <1>17 DEF Fits, AssetsUnique
<1> QED BY <1>9, <1>10, <1>12, <1>14, <1>15, <1>16, <1>18 DEF Faithful

LEMMA TagJoined ==
  ASSUME NEW d, NEW o, Faithful(d, o), Fits(d), NEW t \in Tags(d, Global), NEW u \in Tags(d, GlobalProject),
         d.tags[u].name = d.tags[t].name, NEW d1, d1 = WithTagJoined(d, t, u)
  PROVE  Faithful(d1, o) /\ Fits(d1) /\ d1.assets = d.assets /\ d1.indexed = d.indexed
<1> DEFINE new == [v \in DOMAIN d.tags \ {t} |-> d.tags[v]]
           moved == Joined(d, t, u)
           To(e) == IF e.tag = t THEN [e EXCEPT !.tag = u] ELSE e
<1>1. Schema(d) /\ t \in DOMAIN d.tags /\ d.tags[t].scope = Global /\ u \in DOMAIN d.tags
      /\ d.tags[u].scope = GlobalProject /\ u # t
  BY ProjectIs DEF Faithful, Tags
<1>2. d = [assets |-> d.assets, tags |-> d.tags, entries |-> d.entries, indexed |-> d.indexed]
  BY <1>1 DEF Schema
<1>3. d1 = [d EXCEPT !.tags = new, !.entries = moved]
  BY DEF WithTagJoined
<1>4. d.tags \in [DOMAIN d.tags -> TagRow] /\ d.entries \subseteq [asset : DOMAIN d.assets, tag : DOMAIN d.tags, scope : DbScopes]
  BY <1>1 DEF Schema
<1>5. new \in [DOMAIN new -> TagRow] /\ DOMAIN new = DOMAIN d.tags \ {t}
      /\ \A v \in DOMAIN new : new[v] = d.tags[v]
  BY <1>4
<1>6. ASSUME NEW e \in d.entries
      PROVE  /\ To(e) \in [asset : DOMAIN d.assets, tag : DOMAIN new, scope : DbScopes]
             /\ To(e).asset = e.asset /\ To(e).scope = e.scope
             /\ To(e).tag = IF e.tag = t THEN u ELSE e.tag
  <2>1. e \in [asset : DOMAIN d.assets, tag : DOMAIN d.tags, scope : DbScopes]
    BY <1>4
  <2>2. u \in DOMAIN new /\ \A v \in DOMAIN d.tags : v # t => v \in DOMAIN new
    BY <1>1, <1>5
  <2> HIDE DEF new
  <2>3. CASE e.tag = t
    BY <2>1, <2>2, <2>3
  <2>4. CASE e.tag # t
    BY <2>1, <2>2, <2>4
  <2> QED BY <2>3, <2>4
<1>7. moved = {To(e) : e \in d.entries}
  BY DEF Joined
<1> HIDE DEF new, moved, To
<1>8. d1 = [assets |-> d.assets, tags |-> new, entries |-> moved, indexed |-> d.indexed]
  BY <1>2, <1>3
<1>9. d1.assets = d.assets /\ d1.tags = new /\ d1.entries = moved /\ d1.indexed = d.indexed
  BY <1>8
<1>10. IsFiniteSet(DOMAIN new)
  BY <1>1, <1>5, FS_Subset DEF Schema
<1>11. moved \subseteq [asset : DOMAIN d.assets, tag : DOMAIN new, scope : DbScopes]
  BY <1>6, <1>7
<1>12. Schema(d1)
  BY <1>1, <1>5, <1>8, <1>9, <1>10, <1>11 DEF Schema
<1>13. OldShares(d1.assets, o.assets, LiveRows(d1)) /\ OldShares(d1.tags, o.tags, DOMAIN d1.tags)
  BY <1>5, <1>9 DEF OldShares, LiveRows, Faithful
<1>14. ASSUME NEW e \in d.entries
       PROVE  new[To(e).tag].name.base = d.tags[e.tag].name.base
              /\ ProjectOf(new[To(e).tag].scope) = ProjectOf(d.tags[e.tag].scope)
  <2>1. e.tag \in DOMAIN d.tags
    BY <1>4
  <2>2. CASE e.tag = t
    BY <1>1, <1>5, <1>6, <2>2, ProjectIs
  <2>3. CASE e.tag # t
    BY <1>5, <1>6, <2>1, <2>3
  <2> QED BY <2>2, <2>3
<1>15. AssetsKept(d1, o)
  <2>1. ASSUME NEW b PROVE TagBases(d1, b) = TagBases(d, b)
    <3> DEFINE now == {f \in moved : f.asset = b}
               then == {f \in d.entries : f.asset = b}
    <3>1. TagBases(d1, b) = {new[e.tag].name.base : e \in now}
          /\ TagBases(d, b) = {d.tags[e.tag].name.base : e \in then}
      BY <1>9 DEF TagBases
    <3>2. \A f \in now : \E e \in then : f = To(e)
      BY <1>6, <1>7
    <3>3. \A e \in then : To(e) \in now
      BY <1>6, <1>7
    <3>4. \A e \in then : new[To(e).tag].name.base = d.tags[e.tag].name.base
      BY <1>14
    <3> HIDE DEF now, then
    <3> QED BY <3>1, <3>2, <3>3, <3>4
  <2> QED BY <1>9, <2>1 DEF Faithful, AssetsKept
<1>16. TagsKept(d1, o)
  BY <1>5, <1>9 DEF Faithful, TagsKept, NameKept
<1>17. EntriesKept(d1)
  <2> SUFFICES ASSUME NEW e \in d.entries
               PROVE  To(e).scope = d.assets[To(e).asset].scope /\ ProjectOf(To(e).scope) = ProjectOf(new[To(e).tag].scope)
    BY <1>7, <1>9 DEF EntriesKept
  <2> QED BY <1>6, <1>14 DEF Faithful, EntriesKept
<1>18. TagsUnique(d) => TagsUnique(d1)
  BY <1>5, <1>9 DEF TagsUnique, Clash
<1>19. Fits(d1)
  BY <1>9, <1>18 DEF Fits, AssetsUnique
<1> QED BY <1>9, <1>12, <1>13, <1>15, <1>16, <1>17, <1>19 DEF Faithful

MovedRows(rows) == [a \in DOMAIN rows |-> [rows[a] EXCEPT !.scope = ProjectOf(rows[a].scope)]]
MovedEntries(entries) == {[e EXCEPT !.scope = ProjectOf(e.scope)] : e \in entries}
Normalized(d) == [d EXCEPT !.assets = MovedRows(d.assets), !.entries = MovedEntries(d.entries)]

LEMMA ScopeMoved ==
  ASSUME NEW d, NEW o, Faithful(d, o), Fits(d), NEW names, Apart(d, {}, names), Tags(d, Global) = {},
         NEW d1, d1 = Normalized(d)
  PROVE  Faithful(d1, o) /\ Fits(d1) /\ NoGlobal(d1) /\ (NoGlobal(d) => d1 = d)
<1> DEFINE new == MovedRows(d.assets)
           moved == MovedEntries(d.entries)
           To(e) == [e EXCEPT !.scope = ProjectOf(e.scope)]
<1>1. Schema(d)
  BY DEF Faithful
<1>2. d = [assets |-> d.assets, tags |-> d.tags, entries |-> d.entries, indexed |-> d.indexed]
  BY <1>1 DEF Schema
<1>3. d1 = [d EXCEPT !.assets = new, !.entries = moved]
  BY DEF Normalized
<1>4. /\ d.assets \in [DOMAIN d.assets -> AssetRow] /\ d.tags \in [DOMAIN d.tags -> TagRow]
      /\ d.entries \subseteq [asset : DOMAIN d.assets, tag : DOMAIN d.tags, scope : DbScopes]
  BY <1>1 DEF Schema
<1>5. DOMAIN new = DOMAIN d.assets /\ \A a \in DOMAIN d.assets :
        /\ new[a] \in AssetRow /\ new[a].name = d.assets[a].name /\ new[a].live = d.assets[a].live
        /\ new[a].scope = ProjectOf(d.assets[a].scope)
        /\ (d.assets[a].scope # Global => new[a] = d.assets[a])
  <2>1. DOMAIN new = DOMAIN d.assets
    BY DEF MovedRows
  <2> SUFFICES ASSUME NEW a \in DOMAIN d.assets
               PROVE  /\ new[a] \in AssetRow /\ new[a].name = d.assets[a].name /\ new[a].live = d.assets[a].live
                      /\ new[a].scope = ProjectOf(d.assets[a].scope)
                      /\ (d.assets[a].scope # Global => new[a] = d.assets[a])
    BY <2>1
  <2> DEFINE s == ProjectOf(d.assets[a].scope)
  <2>2. new[a] = [d.assets[a] EXCEPT !.scope = s]
    BY DEF MovedRows
  <2>3. d.assets[a] \in AssetRow
    BY <1>4
  <2>4. s \in DbScopes /\ (d.assets[a].scope # Global => s = d.assets[a].scope)
    BY <2>3, ProjectIs DEF AssetRow, ProjectOf
  <2> HIDE DEF s, new
  <2>5. new[a] \in AssetRow /\ new[a].name = d.assets[a].name /\ new[a].live = d.assets[a].live /\ new[a].scope = s
        /\ (s = d.assets[a].scope => new[a] = d.assets[a])
    BY <2>2, <2>3, <2>4 DEF AssetRow
  <2> QED BY <2>4, <2>5 DEF s
<1>6. ASSUME NEW e \in d.entries
      PROVE  /\ To(e) \in [asset : DOMAIN d.assets, tag : DOMAIN d.tags, scope : DbScopes]
             /\ To(e).asset = e.asset /\ To(e).scope = ProjectOf(e.scope) /\ To(e).tag = e.tag
             /\ (e.scope # Global => To(e) = e)
  <2>1. e \in [asset : DOMAIN d.assets, tag : DOMAIN d.tags, scope : DbScopes]
    BY <1>4
  <2> DEFINE s == ProjectOf(e.scope)
  <2>2. s \in DbScopes /\ (e.scope # Global => s = e.scope)
    BY <2>1, ProjectIs DEF ProjectOf
  <2> HIDE DEF s
  <2>3. To(e) = [e EXCEPT !.scope = s]
    BY DEF s
  <2> HIDE DEF To
  <2>4. To(e) \in [asset : DOMAIN d.assets, tag : DOMAIN d.tags, scope : DbScopes]
        /\ To(e).asset = e.asset /\ To(e).scope = s /\ To(e).tag = e.tag /\ (s = e.scope => To(e) = e)
    BY <2>1, <2>2, <2>3
  <2> QED BY <2>2, <2>4 DEF s
<1>7. moved = {To(e) : e \in d.entries}
  BY DEF MovedEntries
<1>8. new = [a \in DOMAIN d.assets |-> new[a]]
  BY DEF MovedRows
<1> HIDE DEF new, moved, To
<1>9. d1 = [assets |-> new, tags |-> d.tags, entries |-> moved, indexed |-> d.indexed]
  BY <1>2, <1>3
<1>10. d1.assets = new /\ d1.tags = d.tags /\ d1.entries = moved /\ d1.indexed = d.indexed
  BY <1>9
<1>11. Schema(d1)
  <2>1. moved \subseteq [asset : DOMAIN new, tag : DOMAIN d.tags, scope : DbScopes]
    BY <1>5, <1>6, <1>7
  <2>2. new \in [DOMAIN new -> AssetRow]
    BY <1>5, <1>8
  <2> QED BY <1>1, <1>5, <1>9, <1>10, <2>1, <2>2 DEF Schema
<1>12. OldShares(d1.assets, o.assets, LiveRows(d1)) /\ OldShares(d1.tags, o.tags, DOMAIN d1.tags)
  BY <1>5, <1>10, ProjectIs DEF OldShares, LiveRows, Faithful
<1>13. AssetsKept(d1, o)
  <2>1. ASSUME NEW b PROVE TagBases(d1, b) = TagBases(d, b)
    <3> DEFINE now == {f \in moved : f.asset = b}
               then == {f \in d.entries : f.asset = b}
    <3>1. TagBases(d1, b) = {d.tags[e.tag].name.base : e \in now}
          /\ TagBases(d, b) = {d.tags[e.tag].name.base : e \in then}
      BY <1>10 DEF TagBases
    <3>2. \A f \in now : \E e \in then : f = To(e)
      BY <1>6, <1>7
    <3>3. \A e \in then : To(e) \in now
      BY <1>6, <1>7
    <3>4. \A e \in then : To(e).tag = e.tag
      BY <1>6
    <3> HIDE DEF now, then
    <3> QED BY <3>1, <3>2, <3>3, <3>4
  <2>2. \A a \in DOMAIN d.assets : NameKept(new, o.assets, a)
    <3> SUFFICES ASSUME NEW a \in DOMAIN d.assets PROVE NameKept(new, o.assets, a)
      OBVIOUS
    <3>1. NameKept(d.assets, o.assets, a)
      BY DEF Faithful, AssetsKept
    <3> QED BY <1>5, <3>1, ProjectIs DEF NameKept
  <2> QED BY <1>5, <1>10, <2>1, <2>2 DEF Faithful, AssetsKept
<1>14. TagsKept(d1, o)
  BY <1>10 DEF Faithful, TagsKept
<1>15. EntriesKept(d1)
  <2> SUFFICES ASSUME NEW e \in d.entries
               PROVE  To(e).scope = new[To(e).asset].scope /\ ProjectOf(To(e).scope) = ProjectOf(d.tags[To(e).tag].scope)
    BY <1>7, <1>10 DEF EntriesKept
  <2>1. e.asset \in DOMAIN d.assets /\ e.scope = d.assets[e.asset].scope
        /\ ProjectOf(e.scope) = ProjectOf(d.tags[e.tag].scope)
    BY <1>4 DEF Faithful, EntriesKept
  <2> QED BY <1>5, <1>6, <2>1, ProjectIs
<1>16. AssetsUnique(d) => AssetsUnique(d1)
  <2> SUFFICES ASSUME AssetsUnique(d), NEW a \in DOMAIN d.assets, NEW b \in DOMAIN d.assets,
                      d.assets[a].live, d.assets[b].live, d.assets[a].name = d.assets[b].name,
                      ProjectOf(d.assets[a].scope) = ProjectOf(d.assets[b].scope), a # b
               PROVE  FALSE
    BY <1>5, <1>10 DEF AssetsUnique, Clash
  <2>1. d.assets[a].scope # d.assets[b].scope
    BY DEF AssetsUnique, Clash
  <2>2. CASE d.assets[a].scope = Global
    <3>1. a \in AssetsIn(d, Global) \ {} /\ b \in AssetsIn(d, GlobalProject)
      BY <2>1, <2>2 DEF AssetsIn, ProjectOf
    <3> QED BY <3>1 DEF Apart
  <2>3. CASE d.assets[a].scope # Global
    <3>1. b \in AssetsIn(d, Global) \ {} /\ a \in AssetsIn(d, GlobalProject)
      BY <2>1, <2>3 DEF AssetsIn, ProjectOf
    <3> QED BY <3>1 DEF Apart
  <2> QED BY <2>2, <2>3
<1>17. Fits(d1)
  BY <1>10, <1>16 DEF Fits, TagsUnique
<1>18. NoGlobal(d1)
  <2>1. \A a \in DOMAIN d.assets : d.assets[a].scope \in DbScopes
    BY <1>4 DEF AssetRow
  <2> QED BY <1>5, <1>10, <2>1, ProjectIs DEF NoGlobal, Tags
<1>19. NoGlobal(d) => d1 = d
  <2> SUFFICES ASSUME NoGlobal(d) PROVE d1 = d
    OBVIOUS
  <2>1. \A a \in DOMAIN d.assets : new[a] = d.assets[a]
    BY <1>5 DEF NoGlobal
  <2>2. new = d.assets
    BY <1>4, <1>8, <2>1
  <2>3. \A e \in d.entries : To(e) = e
    BY <1>4, <1>6 DEF NoGlobal, Faithful, EntriesKept
  <2>4. moved = d.entries
    BY <1>7, <2>3
  <2> QED BY <1>2, <1>9, <2>2, <2>4
<1> QED BY <1>11, <1>12, <1>13, <1>14, <1>15, <1>17, <1>18, <1>19 DEF Faithful

----------------------------------------------------------------------------
(* migrate: the invariant holds at the start, and each step keeps it.         *)

LEMMA UpgradingInit == MigrationInit => Upgrading
<1> SUFFICES ASSUME MigrationInit PROVE Upgrading
  OBVIOUS
<1>1. old \in OldDatabases /\ disk = old /\ db = old /\ phase = "none"
  BY DEF MigrationInit, NotStarted
<1>2. Schema(old) /\ Fits(old) /\ EntriesFit(old)
  BY <1>1, OldDatabasesAssumption
<1>3. AssetsKept(old, old) /\ TagsKept(old, old)
  BY DEF AssetsKept, TagsKept, NameKept
<1>4. EntriesKept(old)
  BY <1>2 DEF EntriesKept, EntriesFit
<1>5. Faithful(old, old)
  BY <1>2, <1>3, <1>4 DEF Faithful, OldShares
<1>6. Progress
  BY <1>1 DEF Progress, Running
<1> QED BY <1>1, <1>2, <1>5, <1>6 DEF Upgrading, MigrationWorks

\* What a phase asks of what the transaction sees.
Reached(at, d, o, left, names) ==
  /\ at = "scope" => left \subseteq AssetsIn(d, Global) /\ Apart(d, left, names) /\ GlobalNames(d, o, left)
  /\ at \in {"names", "tagnames", "indexed"} => NoGlobal(d)
  /\ at \in {"tagnames", "indexed"} => "assets" \in d.indexed
  /\ at = "indexed" => "tags" \in d.indexed

LEMMA ProgressIs == Progress <=> (phase \notin Running => db = disk) /\ Reached(phase, db, old, todo, reserved)
BY DEF Progress, Reached

\* A statement that may be executed, where a start finds something to do.
LEMMA Executed ==
  ASSUME Upgrading, phase \in Running, UNCHANGED <<old, disk>>, NEW d, NEW next \in Running,
         db' = d, phase' = next, Faithful(d, old), Fits(d), Upgraded(disk) => d = db,
         Reached(next, d, old, todo', reserved')
  PROVE  Upgrading'
<1>1. Progress'
  <2>1. Reached(phase', db', old', todo', reserved')
    OBVIOUS
  <2>2. phase' \in Running
    OBVIOUS
  <2> QED BY <2>1, <2>2 DEF Progress, Reached
<1>2. Faithful(disk, old)' /\ Faithful(db, old)' /\ Fits(disk)' /\ Fits(db)' /\ old' \in OldDatabases
  BY DEF Upgrading
<1>3. MigrationWorks'
  <2>1. Upgraded(disk)' <=> Upgraded(disk)
    OBVIOUS
  <2> QED BY <2>1 DEF Upgrading, MigrationWorks, Running
<1>4. Upgraded(disk)' => db' = disk'
  BY DEF Upgrading
<1> QED BY <1>1, <1>2, <1>3, <1>4 DEF Upgrading

LEMMA Executes ==
  ASSUME NEW d, NEW next, Fits(d), Execute(d, next)
  PROVE  db' = d /\ phase' = next
BY DEF Execute

\* A global asset's new name is not that of another global asset: this is what
\* nothing checks, and what an old database has to grant.
LEMMA OwnCandidate ==
  ASSUME old \in OldDatabases, Faithful(db, old), GlobalNames(db, old, todo),
         NEW a \in AssetsIn(db, Global), a \in todo, NEW b \in AssetsIn(db, Global), b # a,
         NEW n \in Nat, db.assets[b].name = Candidate(db.assets[a].name, a, n)
  PROVE  FALSE
<1> DEFINE x == old.assets[a].name
           y == old.assets[b].name
<1>1. Schema(old) /\ OwnNames(old)
  BY OldDatabasesAssumption
<1>2. a \in AssetsIn(old, Global) /\ b \in AssetsIn(old, Global)
  BY DEF Faithful, AssetsKept, GlobalNames, AssetsIn
<1>3. /\ a \in Nat /\ b \in Nat /\ x \in Name /\ y \in Name
      /\ x.tail \in Seq(Nat \X Nat) /\ y.tail \in Seq(Nat \X Nat)
  BY <1>1, <1>2 DEF Schema, AssetsIn, AssetRow, Name
<1>4. db.assets[a].name = x
  BY DEF GlobalNames
<1>5. CASE db.assets[b].name = y
  <2>1. y = Candidate(x, a, n)
    BY <1>4, <1>5
  <2>2. y.tail = Append(x.tail, <<a, n>>)
    <3>1. Candidate(x, a, n).tail = Append(x.tail, <<a, n>>)
      BY DEF Candidate
    <3> QED BY <2>1, <3>1
  <2>3. \E k \in DOMAIN y.tail : y.tail[k][2] = n
    <3> DEFINE s == x.tail
               e == <<a, n>>
    <3>1. s \in Seq(Nat \X Nat) /\ e \in Nat \X Nat /\ e[2] = n /\ y.tail = Append(s, e)
      BY <1>3, <2>2
    <3> HIDE DEF s, e
    <3>2. Len(s) + 1 \in DOMAIN y.tail /\ y.tail[Len(s) + 1] = e
      BY <3>1
    <3> QED BY <3>1, <3>2
  <2>4. \A k \in DOMAIN y.tail : y # Candidate(x, a, y.tail[k][2])
    BY <1>1, <1>2 DEF OwnNames
  <2> QED BY <2>1, <2>3, <2>4
<1>6. CASE \E m \in Nat : db.assets[b].name = Candidate(y, b, m)
  BY <1>3, <1>4, <1>6, CandidatesDiffer
<1> QED BY <1>5, <1>6 DEF GlobalNames

LEMMA DeduplicateStep ==
  ASSUME Upgrading, NEW a \in DOMAIN db.assets, DeduplicateGlobalAsset(a)
  PROVE  Upgrading'
<1> DEFINE name == db.assets[a].name
           c == DeduplicatedAssetName(GlobalProject, a)
           left == todo \ {a}
<1>1. /\ phase = "scope" /\ a \in todo /\ todo' = left /\ UNCHANGED <<old, disk>>
      /\ todo \subseteq AssetsIn(db, Global) /\ Apart(db, todo, reserved) /\ GlobalNames(db, old, todo)
  BY DEF Upgrading, Progress, DeduplicateGlobalAsset
<1>2. Faithful(db, old) /\ Fits(db) /\ Schema(db)
  BY DEF Upgrading, Faithful
<1>3. a \in AssetsIn(db, Global) /\ db.assets[a].scope = Global
  BY <1>1 DEF AssetsIn
<1>4. ~Upgraded(disk)
  BY <1>3 DEF Upgrading, Upgraded
<1>5. phase \in Running /\ "scope" \in Running
  BY <1>1 DEF Running
<1> HIDE DEF name, c
<1>6. CASE TakenByGlobal(a) /\ SetAssetName(a, DeduplicatedAssetName(GlobalProject, a))
           /\ reserved' = reserved \cup {DeduplicatedAssetName(GlobalProject, a)}
  <2> DEFINE d == WithAssetName(db, a, c)
  <2>2. Execute(d, "scope") /\ reserved' = reserved \cup {c}
    BY <1>1, <1>6 DEF SetAssetName, WithAssetName, c
  <2>3. Clashed(old.assets, a)
    <3>1. \E b \in LiveRows(db) : /\ b # a /\ db.assets[a].name = db.assets[b].name
                                  /\ ProjectOf(db.assets[a].scope) = ProjectOf(db.assets[b].scope)
      <4>1. CASE name \in reserved
        <5>1. PICK b \in AssetsIn(db, Global) \ todo : name = db.assets[b].name
          BY <1>1, <4>1 DEF Apart
        <5> QED BY <1>1, <1>3, <5>1 DEF AssetsIn, LiveRows, name
      <4>2. CASE name \in AssetNamesIn(GlobalProject)
        <5>1. PICK b \in AssetsIn(db, GlobalProject) : name = db.assets[b].name
          BY <4>2 DEF AssetNamesIn
        <5>2. b \in LiveRows(db) /\ db.assets[b].scope = GlobalProject
          BY <5>1 DEF AssetsIn, LiveRows
        <5> QED BY <1>3, <5>1, <5>2, ProjectIs DEF name
      <4> QED BY <1>6, <4>1, <4>2 DEF TakenByGlobal, name
    <3>2. DOMAIN db.assets \subseteq DOMAIN old.assets /\ \A b \in DOMAIN db.assets : NameKept(db.assets, old.assets, b)
      BY <1>2 DEF Faithful, AssetsKept
    <3>3. OldShares(db.assets, old.assets, LiveRows(db)) /\ LiveRows(db) \in SUBSET DOMAIN db.assets /\ a \in LiveRows(db)
      BY <1>2, <1>3 DEF Faithful, LiveRows, AssetsIn
    <3> QED BY <3>1, <3>2, <3>3, ClashedBefore
  <2>1. /\ c \in Name /\ c.base = db.assets[a].name.base
        /\ \A b \in AssetsIn(db, GlobalProject) : db.assets[b].name # c
        /\ \E n \in Nat : c = Candidate(db.assets[a].name, a, n)
    BY <1>2, AssetCandidate DEF c
  <2>5. \A b \in LiveRows(db) : b # a /\ ProjectOf(db.assets[b].scope) = GlobalProject => db.assets[b].name # c
    <3> SUFFICES ASSUME NEW b \in LiveRows(db), b # a, ProjectOf(db.assets[b].scope) = GlobalProject
                 PROVE  db.assets[b].name # c
      OBVIOUS
    <3>1. CASE db.assets[b].scope = GlobalProject
      BY <2>1, <3>1 DEF LiveRows, AssetsIn
    <3>2. CASE db.assets[b].scope = Global
      <4>1. b \in AssetsIn(db, Global)
        BY <3>2 DEF LiveRows, AssetsIn
      <4>2. old \in OldDatabases
        BY DEF Upgrading
      <4>3. ASSUME db.assets[b].name = c PROVE FALSE
        <5>1. PICK n \in Nat : db.assets[b].name = Candidate(db.assets[a].name, a, n)
          BY <2>1, <4>3
        <5> QED BY <1>1, <1>2, <1>3, <4>1, <4>2, <5>1, OwnCandidate
      <4> QED BY <4>3
    <3> QED BY <3>1, <3>2 DEF ProjectOf
  <2>4. Faithful(d, old) /\ Fits(d)
    BY <1>2, <1>3, <2>1, <2>3, <2>5, ProjectIs, AssetRenamed
  <2>6. /\ DOMAIN d.assets = DOMAIN db.assets
        /\ d.assets[a].name = c /\ d.assets[a].scope = db.assets[a].scope /\ d.assets[a].live = db.assets[a].live
        /\ \A b \in DOMAIN db.assets : b # a => d.assets[b] = db.assets[b]
    BY <1>2, <2>1, AssetNamed
  <2> HIDE DEF d
  <2>7. db' = d /\ phase' = "scope"
    BY <2>2, <2>4, Executes
  <2>8. \A s : AssetsIn(d, s) = AssetsIn(db, s)
    <3>1. \A b \in DOMAIN db.assets : d.assets[b].scope = db.assets[b].scope /\ d.assets[b].live = db.assets[b].live
      BY <2>6
    <3> QED BY <2>6, <3>1 DEF AssetsIn
  <2>9. left \subseteq AssetsIn(d, Global) /\ Apart(d, left, reserved') /\ GlobalNames(d, old, left)
    <3> DEFINE seen == AssetsIn(db, Global) \ todo
    <3>1. AssetsIn(d, Global) \ left = seen \cup {a} /\ a \notin seen
      BY <1>1, <1>3, <2>8
    <3>2. \A b \in seen : b \in DOMAIN db.assets /\ d.assets[b].name = db.assets[b].name /\ db.assets[b].name # c
      <4>1. \A b \in seen : b \in LiveRows(db) /\ b # a /\ db.assets[b].scope = Global
        BY <3>1 DEF AssetsIn, LiveRows
      <4>2. \A b \in LiveRows(db) : b \in DOMAIN db.assets
        BY DEF LiveRows
      <4> QED BY <2>5, <2>6, <4>1, <4>2, ProjectIs
    <3>3. \A b \in AssetsIn(db, GlobalProject) : d.assets[b].name = db.assets[b].name /\ db.assets[b].name # c
      <4>1. \A b \in AssetsIn(db, GlobalProject) : b \in DOMAIN db.assets /\ b # a
        BY <1>3, ProjectIs DEF AssetsIn
      <4> QED BY <2>1, <2>6, <4>1
    <3>4. /\ \A b \in seen : /\ db.assets[b].name \in reserved
                             /\ \A p \in AssetsIn(db, GlobalProject) : db.assets[b].name # db.assets[p].name
                             /\ \A p \in seen : db.assets[b].name = db.assets[p].name => b = p
          /\ \A n \in reserved : \E b \in seen : n = db.assets[b].name
      BY <1>1 DEF Apart
    <3> HIDE DEF seen
    <3>5. \A b \in seen \cup {a} : /\ d.assets[b].name \in reserved'
                                   /\ \A p \in AssetsIn(d, GlobalProject) : d.assets[b].name # d.assets[p].name
                                   /\ \A p \in seen \cup {a} : d.assets[b].name = d.assets[p].name => b = p
      BY <2>2, <2>6, <2>8, <3>2, <3>3, <3>4
    <3>6. \A n \in reserved' : \E b \in seen \cup {a} : n = d.assets[b].name
      BY <2>2, <2>6, <3>2, <3>4
    <3>7. GlobalNames(d, old, left)
      <4>1. \A b \in AssetsIn(db, Global) : b \in DOMAIN db.assets
        BY DEF AssetsIn
      <4>2. db.assets[a].name = old.assets[a].name
        BY <1>1, <1>3 DEF GlobalNames
      <4> QED BY <1>1, <1>3, <2>1, <2>6, <2>8, <4>1, <4>2 DEF GlobalNames
    <3> QED BY <1>1, <2>8, <3>1, <3>5, <3>6, <3>7 DEF Apart
  <2>10. Reached("scope", d, old, todo', reserved')
    BY <1>1, <2>9 DEF Reached
  <2> QED BY <1>1, <1>4, <1>5, <2>4, <2>7, <2>10, Executed
<1>7. CASE ~TakenByGlobal(a) /\ reserved' = reserved \cup {name} /\ UNCHANGED <<db, phase>>
  <2> DEFINE seen == AssetsIn(db, Global) \ todo
  <2>1. AssetsIn(db, Global) \ left = seen \cup {a} /\ a \notin seen
    BY <1>1, <1>3
  <2>2. name \notin reserved /\ \A p \in AssetsIn(db, GlobalProject) : name # db.assets[p].name
    BY <1>7 DEF TakenByGlobal, AssetNamesIn, name
  <2>3. /\ \A b \in seen : /\ db.assets[b].name \in reserved
                           /\ \A p \in AssetsIn(db, GlobalProject) : db.assets[b].name # db.assets[p].name
                           /\ \A p \in seen : db.assets[b].name = db.assets[p].name => b = p
        /\ \A n \in reserved : \E b \in seen : n = db.assets[b].name
    BY <1>1 DEF Apart
  <2> HIDE DEF seen
  <2>4. \A b \in seen \cup {a} : /\ db.assets[b].name \in reserved'
                                 /\ \A p \in AssetsIn(db, GlobalProject) : db.assets[b].name # db.assets[p].name
                                 /\ \A p \in seen \cup {a} : db.assets[b].name = db.assets[p].name => b = p
    BY <1>7, <2>2, <2>3 DEF name
  <2>5. \A n \in reserved' : \E b \in seen \cup {a} : n = db.assets[b].name
    BY <1>7, <2>3 DEF name
  <2>6. GlobalNames(db, old, todo')
    BY <1>1 DEF GlobalNames
  <2>7. Reached("scope", db, old, todo', reserved')
    BY <1>1, <2>1, <2>4, <2>5, <2>6 DEF Reached, Apart
  <2> QED BY <1>1, <1>2, <1>5, <1>7, <2>7, Executed
<1> QED BY <1>6, <1>7 DEF DeduplicateGlobalAsset, name

LEMMA ApartStays ==
  ASSUME NEW d, NEW d1, d1.assets = d.assets, NEW o, NEW left, NEW names, Apart(d, left, names), GlobalNames(d, o, left)
  PROVE  Apart(d1, left, names) /\ GlobalNames(d1, o, left) /\ AssetsIn(d1, Global) = AssetsIn(d, Global)
BY DEF Apart, GlobalNames, AssetsIn

LEMMA MergeStep ==
  ASSUME Upgrading, NEW t \in DOMAIN db.tags, MergeGlobalTag(t)
  PROVE  Upgrading'
<1>1. /\ phase = "scope" /\ todo = {} /\ t \in Tags(db, Global) /\ UNCHANGED <<old, disk, todo, reserved>>
      /\ Apart(db, {}, reserved) /\ GlobalNames(db, old, {})
  BY DEF Upgrading, Progress, MergeGlobalTag
<1>2. Faithful(db, old) /\ Fits(db)
  BY DEF Upgrading
<1>3. ~Upgraded(disk)
  BY <1>1 DEF Upgrading, Upgraded, Tags
<1>4. phase \in Running /\ "scope" \in Running
  BY <1>1 DEF Running
<1>5. CASE \E d : Faithful(d, old) /\ Fits(d) /\ d.assets = db.assets /\ Execute(d, "scope")
  <2>1. PICK d : Faithful(d, old) /\ Fits(d) /\ d.assets = db.assets /\ Execute(d, "scope")
    BY <1>5
  <2>2. db' = d /\ phase' = "scope"
    BY <2>1, Executes
  <2>3. Reached("scope", d, old, todo', reserved')
    BY <1>1, <2>1, ApartStays DEF Reached
  <2> QED BY <1>1, <1>3, <1>4, <2>1, <2>2, <2>3, Executed
<1>6. CASE /\ {u \in Tags(db, GlobalProject) : db.tags[u].name = db.tags[t].name} = {}
           /\ Execute([db EXCEPT !.tags = [db.tags EXCEPT ![t].scope = GlobalProject]], phase)
  <2> DEFINE d == WithTagMoved(db, t)
  <2>1. Execute(d, "scope")
    BY <1>1, <1>6 DEF WithTagMoved
  <2>2. \A u \in Tags(db, GlobalProject) : db.tags[u].name # db.tags[t].name
    BY <1>6
  <2>3. Faithful(d, old) /\ Fits(d) /\ d.assets = db.assets
    BY <1>1, <1>2, <2>2, TagMoved
  <2> QED BY <1>5, <2>1, <2>3
<1>7. CASE \E u \in {v \in Tags(db, GlobalProject) : db.tags[v].name = db.tags[t].name} :
             Execute([db EXCEPT !.tags = [v \in DOMAIN db.tags \ {t} |-> db.tags[v]],
                                !.entries = Repointed(t, u)], phase)
  <2>1. PICK u \in Tags(db, GlobalProject) :
             /\ db.tags[u].name = db.tags[t].name
             /\ Execute([db EXCEPT !.tags = [v \in DOMAIN db.tags \ {t} |-> db.tags[v]],
                                   !.entries = Repointed(t, u)], phase)
    BY <1>7
  <2> DEFINE d == WithTagJoined(db, t, u)
  <2>2. Execute(d, "scope")
    BY <1>1, <2>1 DEF WithTagJoined, Repointed, Joined
  <2>3. Faithful(d, old) /\ Fits(d) /\ d.assets = db.assets
    BY <1>1, <1>2, <2>1, TagJoined
  <2> QED BY <1>5, <2>2, <2>3
<1> QED BY <1>6, <1>7 DEF MergeGlobalTag

LEMMA NormalizeStep ==
  ASSUME Upgrading, NormalizeScope
  PROVE  Upgrading'
<1> DEFINE d == Normalized(db)
<1>1. /\ phase = "scope" /\ todo = {} /\ Tags(db, Global) = {} /\ UNCHANGED <<old, disk, todo, reserved>>
      /\ Apart(db, {}, reserved)
  BY DEF Upgrading, Progress, NormalizeScope
<1>2. Execute(d, "names")
  BY DEF NormalizeScope, Normalized, MovedRows, MovedEntries
<1>3. Faithful(db, old) /\ Fits(db)
  BY DEF Upgrading
<1>4. Faithful(d, old) /\ Fits(d) /\ NoGlobal(d) /\ (NoGlobal(db) => d = db)
  BY <1>1, <1>3, ScopeMoved
<1> HIDE DEF d
<1>5. db' = d /\ phase' = "names"
  BY <1>2, <1>4, Executes
<1>6. Upgraded(disk) => d = db
  BY <1>4 DEF Upgrading, Upgraded, NoGlobal
<1>7. Reached("names", d, old, todo', reserved') /\ "names" \in Running /\ phase \in Running
  BY <1>1, <1>4 DEF Reached, Running
<1> QED BY <1>1, <1>4, <1>5, <1>6, <1>7, Executed

LEMMA UniqueAssetStep ==
  ASSUME Upgrading, NEW a \in DOMAIN db.assets, UniqueAssetName(a)
  PROVE  Upgrading'
<1> DEFINE c == DeduplicatedAssetName(db.assets[a].scope, a)
           d == WithAssetName(db, a, c)
<1>1. /\ phase = "names" /\ Renamed(a) /\ UNCHANGED <<old, disk, todo, reserved>> /\ NoGlobal(db)
  BY DEF Upgrading, Progress, UniqueAssetName
<1>2. Faithful(db, old) /\ Fits(db) /\ Schema(db)
  BY DEF Upgrading, Faithful
<1>3. Execute(d, "names")
  <2>1. SetAssetName(a, c) /\ phase = "names"
    BY <1>1 DEF UniqueAssetName
  <2> HIDE DEF c
  <2> QED BY <2>1 DEF SetAssetName, WithAssetName
<1>4. PICK b \in DOMAIN db.assets : /\ b < a /\ db.assets[a].live /\ db.assets[b].live
                                    /\ db.assets[a].name = db.assets[b].name /\ db.assets[a].scope = db.assets[b].scope
  BY <1>1 DEF Renamed, OlderAssets, AssetsIn
<1>5. a # b
  BY <1>2, <1>4 DEF Schema
<1>6. Clashed(old.assets, a)
  <2>1. DOMAIN db.assets \subseteq DOMAIN old.assets /\ \A x \in DOMAIN db.assets : NameKept(db.assets, old.assets, x)
    BY <1>2 DEF Faithful, AssetsKept
  <2>2. OldShares(db.assets, old.assets, LiveRows(db)) /\ LiveRows(db) \in SUBSET DOMAIN db.assets
        /\ a \in LiveRows(db) /\ b \in LiveRows(db)
    BY <1>2, <1>4 DEF Faithful, LiveRows
  <2> QED BY <1>4, <1>5, <2>1, <2>2, ClashedBefore
<1>6a. /\ c \in Name /\ c.base = db.assets[a].name.base
       /\ \A x \in AssetsIn(db, db.assets[a].scope) : db.assets[x].name # c
  BY <1>2, AssetCandidate
<1> HIDE DEF c
<1>7. Faithful(d, old) /\ Fits(d)
  <2>1. \A x \in LiveRows(db) : ProjectOf(db.assets[x].scope) = ProjectOf(db.assets[a].scope)
                                => x \in AssetsIn(db, db.assets[a].scope)
    BY <1>1 DEF NoGlobal, ProjectOf, LiveRows, AssetsIn
  <2> QED BY <1>2, <1>6, <1>6a, <2>1, AssetRenamed
<1>8. NoGlobal(d)
  <2>1. /\ DOMAIN d.assets = DOMAIN db.assets /\ d.tags = db.tags /\ d.assets[a].scope = db.assets[a].scope
        /\ \A x \in DOMAIN db.assets : x # a => d.assets[x] = db.assets[x]
    BY <1>2, <1>6a, AssetNamed
  <2> HIDE DEF d
  <2> QED BY <1>1, <2>1 DEF NoGlobal
<1> HIDE DEF d
<1>9. db' = d /\ phase' = "names"
  BY <1>3, <1>7, Executes
<1>10. ~Upgraded(disk)
  BY <1>4, <1>5 DEF Upgrading, Upgraded, AssetsUnique, Clash
<1>11. Reached("names", d, old, todo', reserved') /\ "names" \in Running /\ phase \in Running
  BY <1>1, <1>8 DEF Reached, Running
<1> QED BY <1>1, <1>7, <1>9, <1>10, <1>11, Executed

LEMMA UniqueTagStep ==
  ASSUME Upgrading, NEW t \in DOMAIN db.tags, UniqueTagName(t)
  PROVE  Upgrading'
<1> DEFINE c == DeduplicatedTagName(db.tags[t].scope, t)
           d == WithTagName(db, t, c)
<1>1. /\ phase = "tagnames" /\ OlderTags(t) # {} /\ UNCHANGED <<old, disk, todo, reserved>>
      /\ NoGlobal(db) /\ "assets" \in db.indexed
  BY DEF Upgrading, Progress, UniqueTagName
<1>2. Faithful(db, old) /\ Fits(db) /\ Schema(db)
  BY DEF Upgrading, Faithful
<1>3. Execute(d, "tagnames")
  <2>1. SetTagName(t, c) /\ phase = "tagnames"
    BY <1>1 DEF UniqueTagName
  <2> HIDE DEF c
  <2> QED BY <2>1 DEF SetTagName, WithTagName
<1>4. PICK u \in DOMAIN db.tags : u < t /\ db.tags[t].name = db.tags[u].name /\ db.tags[t].scope = db.tags[u].scope
  BY <1>1 DEF OlderTags, Tags
<1>5. t # u
  BY <1>2, <1>4 DEF Schema
<1>6. Clashed(old.tags, t)
  <2>1. DOMAIN db.tags \subseteq DOMAIN old.tags /\ \A x \in DOMAIN db.tags : NameKept(db.tags, old.tags, x)
    BY <1>2 DEF Faithful, TagsKept
  <2>2. OldShares(db.tags, old.tags, DOMAIN db.tags)
    BY <1>2 DEF Faithful
  <2> QED BY <1>4, <1>5, <2>1, <2>2, ClashedBefore
<1>6a. /\ c \in Name /\ c.base = db.tags[t].name.base
       /\ \A x \in Tags(db, db.tags[t].scope) : db.tags[x].name # c
  BY <1>2, TagCandidate
<1> HIDE DEF c
<1>7. Faithful(d, old) /\ Fits(d)
  <2>1. \A x \in DOMAIN db.tags : ProjectOf(db.tags[x].scope) = ProjectOf(db.tags[t].scope)
                                => x \in Tags(db, db.tags[t].scope)
    BY <1>1 DEF NoGlobal, ProjectOf, Tags
  <2> QED BY <1>2, <1>6, <1>6a, <2>1, TagRenamed
<1>8. NoGlobal(d) /\ d.indexed = db.indexed
  <2>1. /\ DOMAIN d.tags = DOMAIN db.tags /\ d.assets = db.assets /\ d.tags[t].scope = db.tags[t].scope
        /\ d.indexed = db.indexed /\ \A x \in DOMAIN db.tags : x # t => d.tags[x] = db.tags[x]
    BY <1>2, <1>6a, TagNamed
  <2> HIDE DEF d
  <2> QED BY <1>1, <2>1 DEF NoGlobal
<1> HIDE DEF d
<1>9. db' = d /\ phase' = "tagnames"
  BY <1>3, <1>7, Executes
<1>10. ~Upgraded(disk)
  BY <1>4, <1>5 DEF Upgrading, Upgraded, TagsUnique, Clash
<1>11. Reached("tagnames", d, old, todo', reserved') /\ "tagnames" \in Running /\ phase \in Running
  BY <1>1, <1>8 DEF Reached, Running
<1> QED BY <1>1, <1>7, <1>9, <1>10, <1>11, Executed

\* An index of unique rows changes none of them.
LEMMA Indexed ==
  ASSUME NEW d, NEW o, Faithful(d, o), Fits(d), NEW k \in {"assets", "tags"},
         k = "assets" => AssetsUnique(d), k = "tags" => TagsUnique(d),
         NEW d1, d1 = [d EXCEPT !.indexed = d.indexed \cup {k}]
  PROVE  /\ Faithful(d1, o) /\ Fits(d1) /\ d1.indexed = d.indexed \cup {k}
         /\ (NoGlobal(d) => NoGlobal(d1)) /\ (k \in d.indexed => d1 = d)
<1> DEFINE both == d.indexed \cup {k}
<1>1. Schema(d)
  BY DEF Faithful
<1>2. d = [assets |-> d.assets, tags |-> d.tags, entries |-> d.entries, indexed |-> d.indexed]
  BY <1>1 DEF Schema
<1>3. d1 = [d EXCEPT !.indexed = both]
  OBVIOUS
<1>4. both \subseteq {"assets", "tags"} /\ k \in both /\ (k \in d.indexed => both = d.indexed)
      /\ \A x \in both : x \in d.indexed \/ x = k
  BY <1>1 DEF Schema
<1> HIDE DEF both
<1>5. d1 = [assets |-> d.assets, tags |-> d.tags, entries |-> d.entries, indexed |-> both]
  BY <1>2, <1>3
<1>6. d1.assets = d.assets /\ d1.tags = d.tags /\ d1.entries = d.entries /\ d1.indexed = both
  BY <1>5
<1>7. Schema(d1)
  BY <1>1, <1>4, <1>5, <1>6 DEF Schema
<1>8. Faithful(d1, o)
  <2>1. \A b : TagBases(d1, b) = TagBases(d, b)
    BY <1>6 DEF TagBases
  <2> QED BY <1>6, <1>7, <2>1 DEF Faithful, AssetsKept, TagsKept, EntriesKept, LiveRows
<1>9. Fits(d1)
  BY <1>4, <1>6 DEF Fits, AssetsUnique, TagsUnique
<1>10. NoGlobal(d) => NoGlobal(d1)
  BY <1>6 DEF NoGlobal
<1> QED BY <1>2, <1>4, <1>5, <1>6, <1>8, <1>9, <1>10 DEF both

LEMMA IndexAssetsStep ==
  ASSUME Upgrading, IndexAssets
  PROVE  Upgrading'
<1> DEFINE d == [db EXCEPT !.indexed = db.indexed \cup {"assets"}]
<1>1. /\ phase = "names" /\ \A a \in DOMAIN db.assets : ~Renamed(a)
      /\ Execute(d, "tagnames") /\ UNCHANGED <<old, disk, todo, reserved>> /\ NoGlobal(db)
  BY DEF Upgrading, Progress, IndexAssets
<1>2. Faithful(db, old) /\ Fits(db) /\ DOMAIN db.assets \subseteq Nat
  BY DEF Upgrading, Faithful, Schema
<1>3. AssetsUnique(db)
  <2> SUFFICES ASSUME NEW a \in DOMAIN db.assets, NEW b \in DOMAIN db.assets, db.assets[a].live, db.assets[b].live,
                      Clash(db.assets, a, b), a # b
               PROVE  FALSE
    BY DEF AssetsUnique
  <2>1. a < b \/ b < a
    BY <1>2
  <2>2. a < b => Renamed(b)
    BY DEF Renamed, OlderAssets, AssetsIn, Clash
  <2>3. b < a => Renamed(a)
    BY DEF Renamed, OlderAssets, AssetsIn, Clash
  <2> QED BY <1>1, <2>1, <2>2, <2>3
<1>4. /\ Faithful(d, old) /\ Fits(d) /\ d.indexed = db.indexed \cup {"assets"} /\ NoGlobal(d)
      /\ ("assets" \in db.indexed => d = db)
  <2>1. \A k \in {"assets"} : k \in {"assets", "tags"} /\ (k = "tags" => TagsUnique(db))
    OBVIOUS
  <2> QED BY <1>1, <1>2, <1>3, <2>1, Indexed
<1> HIDE DEF d
<1>5. db' = d /\ phase' = "tagnames"
  BY <1>1, <1>4, Executes
<1>6. Upgraded(disk) => d = db
  BY <1>4 DEF Upgrading, Upgraded
<1>7. Reached("tagnames", d, old, todo', reserved') /\ "tagnames" \in Running /\ phase \in Running
  BY <1>1, <1>4 DEF Reached, Running
<1> QED BY <1>1, <1>4, <1>5, <1>6, <1>7, Executed

LEMMA IndexTagsStep ==
  ASSUME Upgrading, IndexTags
  PROVE  Upgrading'
<1> DEFINE d == [db EXCEPT !.indexed = db.indexed \cup {"tags"}]
<1>1. /\ phase = "tagnames" /\ \A t \in DOMAIN db.tags : OlderTags(t) = {}
      /\ Execute(d, "indexed") /\ UNCHANGED <<old, disk, todo, reserved>> /\ NoGlobal(db) /\ "assets" \in db.indexed
  BY DEF Upgrading, Progress, IndexTags
<1>2. Faithful(db, old) /\ Fits(db) /\ DOMAIN db.tags \subseteq Nat
  BY DEF Upgrading, Faithful, Schema
<1>3. TagsUnique(db)
  <2> SUFFICES ASSUME NEW t \in DOMAIN db.tags, NEW u \in DOMAIN db.tags, Clash(db.tags, t, u), t # u
               PROVE  FALSE
    BY DEF TagsUnique
  <2>1. t < u \/ u < t
    BY <1>2
  <2>2. t < u => OlderTags(u) # {}
    BY DEF OlderTags, Tags, Clash
  <2>3. u < t => OlderTags(t) # {}
    BY DEF OlderTags, Tags, Clash
  <2> QED BY <1>1, <2>1, <2>2, <2>3
<1>4. /\ Faithful(d, old) /\ Fits(d) /\ d.indexed = db.indexed \cup {"tags"} /\ NoGlobal(d)
      /\ ("tags" \in db.indexed => d = db)
  BY <1>1, <1>2, <1>3, Indexed
<1> HIDE DEF d
<1>5. db' = d /\ phase' = "indexed"
  BY <1>1, <1>4, Executes
<1>6. Upgraded(disk) => d = db
  BY <1>4 DEF Upgrading, Upgraded
<1>7. Reached("indexed", d, old, todo', reserved') /\ "indexed" \in Running /\ phase \in Running
  BY <1>1, <1>4 DEF Reached, Running
<1> QED BY <1>1, <1>4, <1>5, <1>6, <1>7, Executed

LEMMA StartStep ==
  ASSUME Upgrading, Migrate
  PROVE  Upgrading'
<1>1. /\ phase' = "scope" /\ db' = disk /\ todo' = AssetsIn(disk, Global) /\ reserved' = {} /\ UNCHANGED <<old, disk>>
  BY DEF Migrate
<1>2. Apart(disk, AssetsIn(disk, Global), {})
  BY DEF Apart
<1>2a. GlobalNames(disk, old, AssetsIn(disk, Global))
  <2>1. Upgraded(disk) => AssetsIn(disk, Global) = {}
    BY DEF Upgraded, AssetsIn
  <2>2. disk = old => GlobalNames(disk, old, AssetsIn(disk, Global))
    BY DEF GlobalNames, AssetsIn
  <2> QED BY <2>1, <2>2 DEF Upgrading, MigrationWorks, GlobalNames
<1>3. Progress'
  BY <1>1, <1>2, <1>2a DEF Progress, Running
<1>4. Faithful(disk, old)' /\ Faithful(db, old)' /\ Fits(disk)' /\ Fits(db)' /\ old' \in OldDatabases
  BY <1>1 DEF Upgrading
<1>5. MigrationWorks'
  <2>1. Upgraded(disk)' <=> Upgraded(disk)
    BY <1>1
  <2> QED BY <1>1, <2>1 DEF Upgrading, MigrationWorks
<1> QED BY <1>1, <1>3, <1>4, <1>5 DEF Upgrading

LEMMA DieStep ==
  ASSUME Upgrading, Die
  PROVE  Upgrading'
<1>1. /\ phase' = "none" /\ db' = disk /\ UNCHANGED <<old, disk>>
  BY DEF Die
<1>2. Progress'
  BY <1>1 DEF Progress, Running
<1>3. Faithful(disk, old)' /\ Faithful(db, old)' /\ Fits(disk)' /\ Fits(db)' /\ old' \in OldDatabases
  BY <1>1 DEF Upgrading
<1>4. MigrationWorks'
  <2>1. Upgraded(disk)' <=> Upgraded(disk)
    BY <1>1
  <2> QED BY <1>1, <2>1 DEF Upgrading, MigrationWorks
<1> QED BY <1>1, <1>2, <1>3, <1>4 DEF Upgrading

LEMMA CommitStep ==
  ASSUME Upgrading, Commit
  PROVE  Upgrading'
<1>1. /\ phase = "indexed" /\ phase' = "ok" /\ disk' = db /\ UNCHANGED <<old, db>>
  BY DEF Commit
<1>2. Upgraded(db)
  <2>1. NoGlobal(db) /\ "assets" \in db.indexed /\ "tags" \in db.indexed /\ Fits(db)
    BY <1>1 DEF Upgrading, Progress
  <2>2. db.indexed = {"assets", "tags"}
    BY <2>1 DEF Upgrading, Faithful, Schema
  <2> QED BY <2>1, <2>2 DEF Upgraded, Fits, NoGlobal
<1>3. Progress'
  BY <1>1 DEF Progress, Running
<1>4. Faithful(disk, old)' /\ Faithful(db, old)' /\ Fits(disk)' /\ Fits(db)' /\ old' \in OldDatabases
  BY <1>1 DEF Upgrading
<1>5. MigrationWorks'
  <2>1. Upgraded(disk)' <=> Upgraded(db)
    BY <1>1
  <2> QED BY <1>1, <1>2, <2>1 DEF MigrationWorks
<1> QED BY <1>1, <1>3, <1>4, <1>5 DEF Upgrading

LEMMA UpgradingStays == Upgrading /\ [MigrationNext]_migrationVars => Upgrading'
<1> SUFFICES ASSUME Upgrading, [MigrationNext]_migrationVars PROVE Upgrading'
  OBVIOUS
<1>1. CASE Migrate
  BY <1>1, StartStep
<1>2. CASE NormalizeScope
  BY <1>2, NormalizeStep
<1>3. CASE IndexAssets
  BY <1>3, IndexAssetsStep
<1>4. CASE IndexTags
  BY <1>4, IndexTagsStep
<1>5. CASE Commit
  BY <1>5, CommitStep
<1>6. CASE Die
  BY <1>6, DieStep
<1>7. CASE \E a \in DOMAIN db.assets : DeduplicateGlobalAsset(a) \/ UniqueAssetName(a)
  BY <1>7, DeduplicateStep, UniqueAssetStep
<1>8. CASE \E t \in DOMAIN db.tags : MergeGlobalTag(t) \/ UniqueTagName(t)
  BY <1>8, MergeStep, UniqueTagStep
<1>9. CASE UNCHANGED migrationVars
  <2>1. UNCHANGED <<old, disk, db, phase, todo, reserved>>
    BY <1>9 DEF migrationVars
  <2>2. Progress'
    BY <2>1 DEF Upgrading, Progress
  <2>3. Faithful(disk, old)' /\ Faithful(db, old)' /\ Fits(disk)' /\ Fits(db)' /\ old' \in OldDatabases
    BY <2>1 DEF Upgrading
  <2>4. (Upgraded(disk)' <=> Upgraded(disk)) /\ MigrationWorks'
    BY <2>1 DEF Upgrading, MigrationWorks
  <2> QED BY <2>1, <2>2, <2>3, <2>4 DEF Upgrading
<1> QED BY <1>1, <1>2, <1>3, <1>4, <1>5, <1>6, <1>7, <1>8, <1>9 DEF MigrationNext

\* No old database, whatever was upgraded of it before, makes a start fail, and no
\* crash leaves one half upgraded.
THEOREM MigrationAlwaysWorks == MigrationSpec => []MigrationWorks
<1>1. Upgrading => MigrationWorks
  BY DEF Upgrading
<1> QED BY <1>1, UpgradingInit, UpgradingStays, PTL DEF MigrationSpec

\* Whatever clashed, each asset keeps its tags, its state and its base name, each
\* entry its place, and only clashes are renamed.
THEOREM NothingEverLost == MigrationSpec => []NothingLost
<1>1. Upgrading => NothingLost
  <2> SUFFICES ASSUME Upgrading PROVE NothingLost
    OBVIOUS
  <2>1. Faithful(disk, old)
    BY DEF Upgrading
  <2>2. RenamesNeeded
    BY <2>1 DEF RenamesNeeded, Faithful, AssetsKept, TagsKept, NameKept
  <2>3. ASSUME Upgraded(disk) PROVE AllKept
    <3>1. NoGlobal(disk)
      BY <2>3 DEF Upgraded, NoGlobal
    <3>2. \A a \in DOMAIN disk.assets : ProjectOf(disk.assets[a].scope) = disk.assets[a].scope
      BY <3>1 DEF NoGlobal, ProjectOf
    <3>3. \A t \in DOMAIN disk.tags : ProjectOf(disk.tags[t].scope) = disk.tags[t].scope
      BY <3>1 DEF NoGlobal, ProjectOf
    <3>4. EntriesFit(disk)
      <4> SUFFICES ASSUME NEW e \in disk.entries
                   PROVE  e.scope = disk.assets[e.asset].scope /\ e.scope = disk.tags[e.tag].scope
        BY DEF EntriesFit
      <4>1. e.asset \in DOMAIN disk.assets /\ e.tag \in DOMAIN disk.tags
        BY <2>1 DEF Faithful, Schema
      <4>2. e.scope = disk.assets[e.asset].scope /\ ProjectOf(e.scope) = ProjectOf(disk.tags[e.tag].scope)
        BY <2>1 DEF Faithful, EntriesKept
      <4> QED BY <3>2, <3>3, <4>1, <4>2
    <3>5. \A a \in DOMAIN disk.assets :
            /\ disk.assets[a].live = old.assets[a].live /\ disk.assets[a].scope = ProjectOf(old.assets[a].scope)
            /\ disk.assets[a].name.base = old.assets[a].name.base
            /\ TagBases(disk, a) = TagBases(old, a)
      BY <2>1, <3>2 DEF Faithful, AssetsKept, NameKept
    <3> QED BY <2>1, <3>4, <3>5 DEF AllKept, Faithful, AssetsKept
  <2> QED BY <2>2, <2>3 DEF NothingLost, Upgrading, MigrationWorks
<1> QED BY <1>1, UpgradingInit, UpgradingStays, PTL DEF MigrationSpec
=============================================================================
