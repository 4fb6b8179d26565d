------------------------------ MODULE Platform -------------------------------
(***************************************************************************)
(* Who may do what: accounts, access tokens, projects, and the template    *)
(* rows that tasks are created from.  Tokens live in the process, the rest *)
(* in the database, which every start brings up to date first.  A task's   *)
(* contract comes with the request, which looks its template up and then   *)
(* adds it in separate steps.                                              *)
(***************************************************************************)
EXTENDS Naturals, Sequences, FiniteSets, ServiceNames

CONSTANTS Users, System, ProjectIds, Contracts, MaxTasks

VARIABLES up,        \* the process runs
          accounts,  \* [usernames -> status]
          projects,  \* [project ids -> owner]
          tokens,    \* whose access tokens the process knows
          held,      \* whose clients hold a token
          templates, \* the rows of workflow_templates, by rowid
          tasks,     \* the rows of tasks
          taskreq        \* create_task requests under way
platformVars == <<up, accounts, projects, tokens, held, templates, tasks, taskreq>>

NoTask == [pc |-> "idle", user |-> None, project |-> None, contract |-> None, found |-> 0]
SetTask(r, s) == taskreq' = [taskreq EXCEPT ![r] = s]

\* lifespan: migrate's _ensure_global_project, then build_services without a token.
Startup ==
  /\ ~up /\ up' = TRUE
  /\ accounts' = [accounts EXCEPT ![System] = "system"]
  /\ projects' = [projects EXCEPT ![GlobalProject] = System]
  /\ tokens' = {}
  /\ UNCHANGED <<held, templates, tasks, taskreq>>
Stop ==
  /\ up /\ up' = FALSE
  /\ taskreq' = [r \in Requests |-> NoTask]
  /\ UNCHANGED <<accounts, projects, tokens, held, templates, tasks>>

\* A username that exists is refused by its unique column.
CreateUser(u) ==
  /\ up /\ accounts[u] = None
  /\ accounts' = [accounts EXCEPT ![u] = "active"]
  /\ UNCHANGED <<up, projects, tokens, held, templates, tasks, taskreq>>

Authenticate(u) == accounts[u] = "active"
\* login, with the account's password.
Login(u) ==
  /\ up /\ Authenticate(u)
  /\ tokens' = tokens \cup {u} /\ held' = held \cup {u}
  /\ UNCHANGED <<up, accounts, projects, templates, tasks, taskreq>>

\* get_current_user: a token of an earlier process is invalid.
CurrentUser(u) == up /\ u \in held /\ u \in tokens
CreateProject(u) ==
  /\ CurrentUser(u) /\ accounts[u] = "active"
  /\ \E p \in ProjectIds \ {GlobalProject} :
       projects[p] = None /\ projects' = [projects EXCEPT ![p] = u]
  /\ UNCHANGED <<up, accounts, tokens, held, templates, tasks, taskreq>>

\* Mutant: any project there is.
FetchProject(u, p) == projects[p] # None
\* _fetch_project_for_user
FetchProjectForUser(u, p) == projects[p] # None /\ (p = GlobalProject \/ projects[p] = u)
EnsureProjectAccess(u, p) == accounts[u] = "active" /\ FetchProjectForUser(u, p)
\* _validate_workflow_project_scope
ScopeFits(c, p) == c.scope = "project" /\ c.project # None => c.project = p

CreateTask(r, u, p, c) ==
  /\ taskreq[r] = NoTask /\ Len(tasks) < MaxTasks /\ CurrentUser(u)
  /\ SetTask(r, [pc |-> "access", user |-> u, project |-> p, contract |-> c, found |-> 0])
  /\ UNCHANGED <<up, accounts, projects, tokens, held, templates, tasks>>
\* A request that may not, or whose contract belongs to another project, is refused.
CheckAccess(r) ==
  /\ taskreq[r].pc = "access"
  /\ SetTask(r, IF EnsureProjectAccess(taskreq[r].user, taskreq[r].project) /\ ScopeFits(taskreq[r].contract, taskreq[r].project)
            THEN [taskreq[r] EXCEPT !.pc = "find"] ELSE NoTask)
  /\ UNCHANGED <<up, accounts, projects, tokens, held, templates, tasks>>

TemplateProject(s) == IF s.contract.scope = "project" THEN s.project ELSE None
Rows(s) == {i \in 1..Len(templates) :
              templates[i].project = TemplateProject(s) /\ templates[i].contract.workflow = s.contract.workflow
              /\ templates[i].contract.scope = s.contract.scope}
\* _find_or_create_workflow_template's select: the newest row with this contract.
FindTemplate(s) ==
  LET same == {i \in Rows(s) : templates[i].contract = s.contract}
  IN IF same = {} THEN 0 ELSE CHOOSE i \in same : \A j \in same : j <= i
Find(r) ==
  /\ taskreq[r].pc = "find"
  /\ SetTask(r, [taskreq[r] EXCEPT !.pc = "insert", !.found = FindTemplate(taskreq[r])])
  /\ UNCHANGED <<up, accounts, projects, tokens, held, templates, tasks>>
Insert(r) ==
  LET s == taskreq[r]
      row == [contract |-> s.contract, project |-> TemplateProject(s)]
      id == IF s.found = 0 THEN Len(templates) + 1 ELSE s.found
  IN /\ s.pc = "insert" /\ Len(tasks) < MaxTasks
     /\ templates' = IF s.found = 0 THEN Append(templates, row) ELSE templates
     /\ tasks' = Append(tasks, [user |-> s.user, project |-> s.project, contract |-> s.contract, template |-> id])
     /\ SetTask(r, NoTask)
     /\ UNCHANGED <<up, accounts, projects, tokens, held>>

PlatformInit ==
  /\ up = FALSE /\ accounts = [u \in Users \cup {System} |-> None]
  /\ projects = [p \in ProjectIds |-> None]
  /\ tokens = {} /\ held = {} /\ templates = <<>> /\ tasks = <<>>
  /\ taskreq = [r \in Requests |-> NoTask]
PlatformNext ==
  \/ Startup \/ Stop
  \/ \E u \in Users \cup {System} : CreateUser(u) \/ Login(u) \/ CreateProject(u)
  \/ \E r \in Requests :
       \/ CheckAccess(r) \/ Find(r) \/ Insert(r)
       \/ \E u \in Users, p \in ProjectIds, c \in Contracts : CreateTask(r, u, p, c)
PlatformSpec == PlatformInit /\ [][PlatformNext]_platformVars

-----------------------------------------------------------------------------
(* Properties                                                              *)

\* Only accounts hold tokens, and what is running has found rows that exist.
PlatformTypeOK ==
  /\ \A u \in held \cup tokens : accounts[u] # None
  /\ \A r \in Requests : taskreq[r].found \in 0..Len(templates)

\* Every task lies in the global project or in one its user owns, although the
\* check is long past when it is written, and its template is one for its
\* contract, of that project or of none.
OwnTasks ==
  \A i \in 1..Len(tasks) :
    LET t == tasks[i]
        row == templates[t.template]
    IN /\ t.project = GlobalProject \/ projects[t.project] = t.user
       /\ row.contract = t.contract /\ row.project \in {None, t.project}

\* That, and only accounts hold tokens, and what is looked up is found.
OwnersOnly == PlatformTypeOK /\ OwnTasks
=============================================================================
