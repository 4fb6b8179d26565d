------------------------------ MODULE ImageJobs ------------------------------
(***************************************************************************)
(* Image generation.  A generation is a job of AssetGenerationService,     *)
(* which lives in memory and runs after the response that created it, or   *)
(* the run of an image node.  It asks RunningHub for one image per prompt, *)
(* all at once (asyncio.gather): a provider submits a job, which RunningHub *)
(* works off (it is external), and polls it until it has ended or a        *)
(* deadline has passed.  The first exception ends the generation, while    *)
(* the calls beside it go on; a restart forgets all of them, not the       *)
(* submitted jobs.  Time is kept in timers that count down.                *)
(***************************************************************************)
EXTENDS Integers, FiniteSets, Sequences, SequencesExt

CONSTANTS Plans, Timeout, Interval, Delay, None

\* A plan says of each generation which prompts it has, which pictures each
\* prompt refers to, how many a workflow has slots for, and who runs it: a job
\* for one asset, a node for the images of many, or a node for one image, one
\* text or one workflow.  The item of a job and those of many images refer to a
\* picture, a text refers to none; no prompt is of two generations.
ASSUME PlansAssumption ==
  /\ Timeout \in Nat /\ Interval \in Nat /\ Delay \in Nat
  /\ \A plan \in Plans : \A g \in DOMAIN plan :
       /\ plan[g].kind \in {"job", "images", "image", "text", "workflow"}
       /\ plan[g].slots \in Nat
       /\ plan[g].refs \in Seq({"asset", "data_uri", "url", "other"})
       /\ plan[g].kind \in {"job", "images"} => plan[g].refs # <<>>
       /\ plan[g].kind = "text" => plan[g].refs = <<>>
       /\ \A h \in DOMAIN plan \ {g} : plan[g].prompts \cap plan[h].prompts = {}

VARIABLES plan,   \* what is asked for
          gen,    \* [generations -> status]
          call,   \* [prompts -> the coroutine that makes its image]
          remote  \* [prompts -> the job at RunningHub]
vars == <<plan, gen, call, remote>>

PromptsOf(g) == plan[g].prompts
Prompts == UNION {PromptsOf(g) : g \in DOMAIN plan}
Owner(p) == CHOOSE g \in DOMAIN plan : p \in PromptsOf(g)
Kind(p) == plan[Owner(p)].kind

-----------------------------------------------------------------------------
NoCall == [pc |-> "idle", left |-> 0, sleep |-> 0, age |-> 0, answer |-> None, images |-> <<>>]
NoJob == [status |-> None, left |-> 0, given |-> <<>>]

Ended(c) == c.pc \in {"idle", "image", "error", "timeout"}
Become(p, c) == call' = [call EXCEPT ![p] = c]
At(p, pc) == call[p].pc = pc

\* create_asset_image_generation, for jobs; a node runs at once.
Create(g) ==
  /\ gen[g] = None
  /\ gen' = [gen EXCEPT ![g] = "queued"]
  /\ UNCHANGED <<plan, call, remote>>
Begin(g, pc) ==
  /\ gen' = [gen EXCEPT ![g] = "running"]
  /\ call' = [p \in Prompts |-> IF p \in PromptsOf(g) THEN [NoCall EXCEPT !.pc = pc] ELSE call[p]]
  /\ UNCHANGED <<plan, remote>>
\* run_asset_image_generation, after the response that created the job.
RunJob(g) == plan[g].kind = "job" /\ gen[g] = "queued" /\ Begin(g, "generate_one")
\* The run of a node; one that has no pictures asks for an image of the text,
\* and one whose list of pictures is empty refuses to run.
Refuse(g) == gen' = [gen EXCEPT ![g] = "failed"] /\ UNCHANGED <<plan, call, remote>>
RunImages(g) == plan[g].kind = "images" /\ gen[g] = None /\ Begin(g, "generate_one")
RunText(g) == plan[g].kind = "text" /\ gen[g] = None /\ Begin(g, "submit")
RunImage(g) ==
  /\ plan[g].kind = "image" /\ gen[g] = None
  /\ IF plan[g].refs = <<>> THEN Refuse(g) ELSE Begin(g, "resolve")
RunWorkflow(g) ==
  /\ plan[g].kind = "workflow" /\ gen[g] = None
  /\ IF plan[g].refs = <<>> THEN Refuse(g) ELSE Begin(g, "upload")
Run(g) == RunJob(g) \/ RunImages(g) \/ RunText(g) \/ RunImage(g) \/ RunWorkflow(g)

\* get_generation, which only its user may ask; a restart has forgotten it.
GetGeneration(user, g) ==
  IF gen[g] \in {None, "lost"} \/ plan[g].user # user THEN "not_found" ELSE gen[g]

\* Mutant: one image is enough.
FinishAny(p, c) ==
  /\ Become(p, c)
  /\ gen' = [gen EXCEPT ![Owner(p)] =
               IF @ # "running" THEN @ ELSE IF c.pc = "image" THEN "succeeded" ELSE "failed"]
\* gather: the first exception is the generation's, the last image completes it.
Finish(p, c) ==
  LET g == Owner(p) IN
  /\ Become(p, c)
  /\ gen' = [gen EXCEPT ![g] =
               IF @ # "running" THEN @
               ELSE IF c.pc # "image" THEN "failed"
               ELSE IF \A o \in PromptsOf(g) \ {p} : At(o, "image") THEN "succeeded" ELSE @]
Image(p) == Finish(p, [NoCall EXCEPT !.pc = "image"])
Raise(p) == Finish(p, [NoCall EXCEPT !.pc = "error"])
RaiseTimeout(p) == Finish(p, [NoCall EXCEPT !.pc = "timeout"])

-----------------------------------------------------------------------------
(* A call: resolve the references, submit, poll.                           *)

\* generate_one: an item without a prompt or a name raises; the picture it
\* refers to is resolved next.
GenerateOne(p) ==
  /\ At(p, "generate_one")
  /\ \/ Become(p, [call[p] EXCEPT !.pc = "resolve"]) /\ UNCHANGED gen
     \/ Raise(p)
  /\ UNCHANGED <<plan, remote>>
RefsOf(p) == plan[Owner(p)].refs
NextRef(p) == RefsOf(p)[Len(call[p].images) + 1]
\* The pictures are fetched one by one, in their order, up to the last needed.
\* Mutant: the call goes on after the first.
FetchFirst(p, last) ==
  Become(p, [call[p] EXCEPT !.images = Append(@, NextRef(p)), !.pc = "submit"])
Fetch(p, last) ==
  LET images == Append(call[p].images, NextRef(p)) IN
  Become(p, [call[p] EXCEPT !.images = images, !.pc = IF Len(images) = last THEN "submit" ELSE @])
\* resolve_image_ref: data is taken as it is, an asset is read; a reference that
\* is neither, and an asset that is gone, empty or not the user's to read, raise.
ResolveImage(p) ==
  /\ At(p, "resolve")
  /\ \/ Fetch(p, Len(RefsOf(p))) /\ UNCHANGED gen
     \/ Raise(p)
  /\ UNCHANGED <<plan, remote>>
\* _build_payload and _upload_image: as many pictures as the workflow has slots
\* for are downloaded and uploaded, which may fail.
Slots(p) == plan[Owner(p)].slots
UploadImage(p) ==
  LET needed == IF Slots(p) < Len(RefsOf(p)) THEN Slots(p) ELSE Len(RefsOf(p)) IN
  /\ At(p, "upload")
  /\ \/ needed = 0 /\ Become(p, [call[p] EXCEPT !.pc = "submit"]) /\ UNCHANGED gen
     \/ needed > 0 /\ Fetch(p, needed) /\ UNCHANGED gen
     \/ needed > 0 /\ Raise(p)
  /\ UNCHANGED <<plan, remote>>

\* The answers RunningHub gives about a job.  A submission that made no job is
\* answered by an error, or by something without a task id.
AnswersTo(job) ==
  CASE job.status = None -> {"error", "noid"}
    [] job.status = "queued" -> {"waiting"}
    [] job.status = "done" -> {"results"}
    [] job.status = "empty" -> {"success"}
    [] job.status = "broken" -> {"failed", "error"}
\* A submission is answered for what it made: no job, a job to poll, or one that
\* has ended before the answer is written.
Submitted(p) ==
  /\ At(p, "submit")
  /\ \E job \in {NoJob} \cup [status : {"queued", "done", "empty", "broken"},
                               left : {Timeout}, given : {call[p].images}] :
       /\ remote' = [remote EXCEPT ![p] = job]
       /\ \E a \in AnswersTo(job) : Become(p, [call[p] EXCEPT !.pc = "submitted", !.answer = a])
  /\ UNCHANGED <<plan, gen>>
Queried(p) ==
  /\ At(p, "query")
  /\ \E a \in AnswersTo(remote[p]) : Become(p, [call[p] EXCEPT !.pc = "queried", !.answer = a, !.age = 0])
  /\ UNCHANGED <<plan, gen, remote>>
\* A post raises: the connection, its timeout, or an answer that is no object.
Lost(p) ==
  /\ call[p].pc \in {"submit", "submitted", "query", "queried"}
  /\ Raise(p)
  /\ UNCHANGED <<plan, remote>>

\* Mutant: the deadline is looked at before the answer.
LookLate(p, answer, left) ==
  IF left = 0 THEN RaiseTimeout(p)
  ELSE CASE answer = "results" -> Image(p)
         [] answer \in {"success", "failed", "noid", "error"} -> Raise(p)
         [] answer = "waiting" ->
              Become(p, [NoCall EXCEPT !.pc = "sleep", !.left = left, !.sleep = Interval]) /\ UNCHANGED gen
\* Mutant: every answer starts the time over.
LookOver(p, answer, left) ==
  CASE answer = "results" -> Image(p)
    [] answer \in {"success", "failed", "noid", "error"} -> Raise(p)
    [] answer = "waiting" ->
         Become(p, [NoCall EXCEPT !.pc = "sleep", !.left = Timeout, !.sleep = Interval]) /\ UNCHANGED gen
\* _poll_until_complete's loop body: results are taken however late they come;
\* success without results is found out by _chat_response; the poller of
\* workflows takes an error code for an answer like any other.
Look(p, answer, left) ==
  CASE answer = "results" -> Image(p)
    [] answer \in {"success", "failed", "noid"} -> Raise(p)
    [] answer = "error" /\ Kind(p) # "workflow" -> Raise(p)
    [] answer = "error" /\ Kind(p) = "workflow" /\ remote[p].status = None -> Raise(p)
    [] OTHER ->
         IF left = 0 THEN RaiseTimeout(p)
         ELSE /\ Become(p, [NoCall EXCEPT !.pc = "sleep", !.left = left, !.sleep = Interval])
              /\ UNCHANGED gen
\* The deadline is set when the submission has been answered.
SubmissionArrives(p) ==
  /\ At(p, "submitted")
  /\ Look(p, call[p].answer, Timeout)
  /\ UNCHANGED <<plan, remote>>
AnswerArrives(p) ==
  /\ At(p, "queried")
  /\ Look(p, call[p].answer, call[p].left)
  /\ UNCHANGED <<plan, remote>>
Wake(p) ==
  /\ At(p, "sleep") /\ call[p].sleep = 0
  /\ Become(p, [call[p] EXCEPT !.pc = "query"])
  /\ UNCHANGED <<plan, gen, remote>>

-----------------------------------------------------------------------------
(* The world                                                               *)

\* RunningHub ends a job; what is left of its caller's time is noted: all of it
\* while the deadline is not set yet.
RemoteEnds(p) ==
  /\ remote[p].status = "queued"
  /\ \E s \in {"done", "empty", "broken"} :
       remote' = [remote EXCEPT ![p].status = s,
                                ![p].left = IF At(p, "submitted") THEN Timeout ELSE call[p].left]
  /\ UNCHANGED <<plan, gen, call>>

\* Mutant: a timer runs below zero.
DownOn(n) == n - 1
Down(n) == IF n = 0 THEN 0 ELSE n - 1
Polling(c) == c.pc \in {"sleep", "query", "queried"}
\* An answer to a query is under way for at most Delay.
Tick ==
  /\ \A p \in Prompts : At(p, "queried") => call[p].age < Delay
  /\ call' = [p \in Prompts |->
                IF ~Polling(call[p]) THEN call[p]
                ELSE [call[p] EXCEPT !.left = Down(@), !.sleep = Down(@),
                                     !.age = IF At(p, "queried") THEN @ + 1 ELSE @]]
  /\ UNCHANGED <<plan, gen, remote>>

\* The process dies: jobs in memory are gone, nodes do not run any more.
Restart ==
  /\ gen' = [g \in DOMAIN plan |-> IF gen[g] = None THEN None ELSE "lost"]
  /\ call' = [p \in Prompts |-> NoCall]
  /\ UNCHANGED <<plan, remote>>

-----------------------------------------------------------------------------
Init ==
  /\ plan \in Plans
  /\ gen = [g \in DOMAIN plan |-> None]
  /\ call = [p \in Prompts |-> NoCall]
  /\ remote = [p \in Prompts |-> NoJob]

Step(p) ==
  \/ GenerateOne(p) \/ ResolveImage(p) \/ UploadImage(p) \/ Submitted(p) \/ Queried(p) \/ Lost(p)
  \/ SubmissionArrives(p) \/ AnswerArrives(p) \/ Wake(p)
Next ==
  \/ \E g \in DOMAIN plan : (plan[g].kind = "job" /\ Create(g)) \/ Run(g)
  \/ \E p \in Prompts : Step(p) \/ RemoteEnds(p)
  \/ Tick \/ Restart
\* The event loop serves every coroutine, HTTP calls end, time goes on; of
\* RunningHub nothing is assumed.
AllPrompts == UNION {UNION {q[g].prompts : g \in DOMAIN q} : q \in Plans}
AllGenerations == UNION {DOMAIN q : q \in Plans}
Fairness ==
  /\ \A g \in AllGenerations : WF_vars(g \in DOMAIN plan /\ Run(g))
  /\ \A p \in AllPrompts : WF_vars(p \in Prompts /\ Step(p))
  /\ WF_vars(Tick)
Spec == Init /\ [][Next]_vars /\ Fairness

-----------------------------------------------------------------------------
(* Properties                                                              *)

JobsTypeOK ==
  /\ \A g \in DOMAIN plan : gen[g] \in {None, "queued", "running", "succeeded", "failed", "lost"}
  /\ \A p \in Prompts :
       /\ call[p].left \in 0..Timeout /\ call[p].sleep \in 0..Interval /\ call[p].age \in 0..Delay
       /\ remote[p].status \in {None, "queued", "done", "empty", "broken"}

\* A client that is told a generation succeeded finds an image for every prompt,
\* each from a job that RunningHub has done for it and that was sent only when
\* all its pictures were there: all the prompt refers to, in their order, or, for
\* a workflow, as many as it has slots.
PicturesSent(p) ==
  /\ IsPrefix(remote[p].given, RefsOf(p))
  /\ Len(remote[p].given) \in {Len(RefsOf(p)), Slots(p)}
  /\ Kind(p) # "workflow" => remote[p].given = RefsOf(p)
ImagesComplete ==
  \A g \in DOMAIN plan : GetGeneration(plan[g].user, g) = "succeeded" =>
    \A p \in PromptsOf(g) : At(p, "image") /\ remote[p].status = "done" /\ PicturesSent(p)

\* A call that timed out gave its job all the time it had: the job had not
\* ended when an answer's way was left before the deadline.
TimeoutIsLate ==
  \A p \in Prompts : At(p, "timeout") =>
    remote[p].status \in {"queued", "broken"} \/ remote[p].left <= Delay

\* A generation that runs comes to an end, and so does each of its calls, also
\* when RunningHub never finishes and when the generation failed before them.
GenerationsSettle ==
  /\ \A g \in AllGenerations :
       (g \in DOMAIN plan /\ gen[g] \in {"queued", "running"})
         ~> (g \in DOMAIN plan /\ gen[g] \in {"succeeded", "failed", "lost"})
  /\ \A p \in AllPrompts : (p \in Prompts /\ ~Ended(call[p])) ~> (p \in Prompts /\ Ended(call[p]))
=============================================================================
