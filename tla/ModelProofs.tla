----------------------------- MODULE ModelProofs -----------------------------
(* A generation that succeeded has every image, each from a job sent with all  *)
(* its pictures, and a call times out only when its job is late: for any       *)
(* plans, deadline, interval and delay.  A node that asks a language model and *)
(* succeeded has every result, a reviewed text carries its own review, and     *)
(* what failed goes through the nodes that follow as it is: for any items,     *)
(* plans, reruns, and bounds of attempts and rounds.  An item of a script gets *)
(* the best asset the lookups found: for any scripts, libraries and limit of a *)
(* search.                                                                     *)
EXTENDS ImageJobs, LlmNodes, AssetMatching, TLAPS, FiniteSetTheorems, WellFoundedInduction

----------------------------------------------------------------------------
(* Images: the inductive invariant.                                            *)

Refs == {"asset", "data_uri", "url", "other"}
Places == {"idle", "generate_one", "resolve", "upload", "submit", "submitted", "query", "queried",
           "sleep", "image", "error", "timeout"}
Answers == {None, "waiting", "results", "success", "failed", "noid", "error"}
Calls == [pc : Places, left : 0..Timeout, sleep : 0..Interval, age : 0..Delay,
          answer : Answers, images : Seq(Refs)]
Jobs == [status : {None, "queued", "done", "empty", "broken"}, left : 0..Timeout, given : Seq(Refs)]

Words == {"queued", "running", "succeeded", "failed", "lost", "done", "empty", "broken"}

ImageTypes ==
  /\ plan \in Plans
  /\ gen \in [DOMAIN plan -> {None, "queued", "running", "succeeded", "failed", "lost"}]
  /\ call \in [Prompts -> Calls]
  /\ remote \in [Prompts -> Jobs]

Needed(p) == IF Slots(p) < Len(RefsOf(p)) THEN Slots(p) ELSE Len(RefsOf(p))

\* The pictures s are the first of those p refers to.
FirstOf(s, p) == Len(s) <= Len(RefsOf(p)) /\ \A i \in 1..Len(s) : s[i] = RefsOf(p)[i]

\* All that are to be sent.
Full(s, p) == FirstOf(s, p) /\ Len(s) = (IF Kind(p) = "workflow" THEN Needed(p) ELSE Len(RefsOf(p)))

\* A call on its way has fetched the first pictures, and has no job before it
\* has all of them.
Fetching(p, c, j) ==
  /\ c.pc \in {"generate_one", "resolve", "upload", "submit"} => j = NoJob
  /\ c.pc = "generate_one" => c.images = <<>> /\ RefsOf(p) # <<>> /\ Kind(p) # "workflow"
  /\ c.pc = "resolve" =>
       Kind(p) # "workflow" /\ FirstOf(c.images, p) /\ Len(c.images) < Len(RefsOf(p))
  /\ c.pc = "upload" =>
       /\ Kind(p) = "workflow" /\ FirstOf(c.images, p)
       /\ IF Needed(p) = 0 THEN c.images = <<>> ELSE Len(c.images) < Needed(p)
  /\ c.pc = "submit" => Full(c.images, p)

\* What an answer says was so when it was given: a job that was not done then
\* has used up all but what passed since.
Asking(c, j) ==
  /\ c.pc = "submitted" =>
       /\ c.answer \in {"waiting", "results", "success", "failed", "noid", "error"}
       /\ c.answer = "results" => j.status = "done"
       /\ c.answer = "error" => j.status \in {None, "broken"}
  /\ c.pc = "queried" =>
       /\ c.answer \in {"waiting", "results", "success", "failed", "noid", "error"}
       /\ c.answer = "results" => j.status = "done"
       /\ c.answer = "waiting" => j.status = "queued" \/ j.left <= c.left + c.age
       /\ c.answer = "error" => j.status \in {None, "broken"}

\* How a call has ended.
Ending(c, j) ==
  /\ c.pc = "image" => j.status = "done"
  /\ c.pc = "timeout" => c.left = 0
  /\ c.pc = "timeout" => j.status \in {"queued", "broken"} \/ j.left <= Delay

Fits(p, c, j) ==
  /\ Fetching(p, c, j) /\ Asking(c, j) /\ Ending(c, j)
  /\ j.status # None => Full(j.given, p)
  /\ j.status = None => j = NoJob

Unbegun(p) == gen[Owner(p)] \in {None, "queued"}

Sound ==
  /\ ImageTypes
  /\ \A p \in Prompts : Fits(p, call[p], remote[p])
  /\ \A p \in Prompts : Unbegun(p) => call[p] = NoCall /\ remote[p] = NoJob
  /\ \A g \in DOMAIN plan : gen[g] = "succeeded" => \A p \in PromptsOf(g) : At(p, "image")

----------------------------------------------------------------------------
(* Each prompt is of one generation.                                           *)

LEMMA OneOwner ==
  ASSUME plan \in Plans, NEW p \in Prompts
  PROVE  /\ Owner(p) \in DOMAIN plan /\ p \in PromptsOf(Owner(p))
         /\ \A g \in DOMAIN plan : p \in PromptsOf(g) => g = Owner(p)
<1>1. Owner(p) \in DOMAIN plan /\ p \in PromptsOf(Owner(p))
  BY DEF Owner, Prompts
<1>2. \A g \in DOMAIN plan : p \in PromptsOf(g) => g = Owner(p)
  <2> SUFFICES ASSUME NEW g \in DOMAIN plan, p \in PromptsOf(g), g # Owner(p) PROVE FALSE
    OBVIOUS
  <2>1. Owner(p) \in DOMAIN plan \ {g}
    BY <1>1
  <2>2. plan[g].prompts \cap plan[Owner(p)].prompts = {}
    BY <2>1, PlansAssumption
  <2> QED BY <1>1, <2>2 DEF PromptsOf
<1> QED BY <1>1, <1>2

\* What the plans say of the pictures of a prompt.
LEMMA PlanOf ==
  ASSUME plan \in Plans, NEW p \in Prompts
  PROVE  /\ RefsOf(p) \in Seq(Refs) /\ Slots(p) \in Nat
         /\ Kind(p) \in {"job", "images"} => RefsOf(p) # <<>>
         /\ Kind(p) = "text" => RefsOf(p) = <<>>
BY OneOwner, PlansAssumption DEF RefsOf, Slots, Kind, Refs

LEMMA NoneTyped == NoCall \in Calls /\ NoJob \in Jobs
BY PlansAssumption DEF NoCall, NoJob, Calls, Jobs, Places, Answers

\* A call that has ended is right whatever its job, unless it says otherwise.
LEMMA IdleFits ==
  ASSUME NEW p, NEW c, NEW j, c.pc \in {"idle", "error"},
         j.status # None => Full(j.given, p), j.status = None => j = NoJob
  PROVE  Fits(p, c, j)
BY DEF Fits, Fetching, Asking, Ending

LEMMA SoundInit == ASSUME None \notin Words, Init PROVE Sound
<1>1. ImageTypes
  BY NoneTyped DEF Init, ImageTypes
<1>2. ASSUME NEW p \in Prompts PROVE Fits(p, call[p], remote[p])
  <2>1. call[p] = NoCall /\ remote[p] = NoJob
    BY DEF Init
  <2> QED BY <2>1, IdleFits DEF NoCall, NoJob
<1>3. \A p \in Prompts : call[p] = NoCall /\ remote[p] = NoJob
  BY DEF Init
<1>4. \A g \in DOMAIN plan : gen[g] # "succeeded"
  BY DEF Init, Words
<1> QED BY <1>1, <1>2, <1>3, <1>4 DEF Sound

----------------------------------------------------------------------------
(* One call goes on.                                                           *)

LEMMA FitsStays ==
  ASSUME UNCHANGED plan
  PROVE  \A p, c, j : Fits(p, c, j) <=> Fits(p, c, j)'
BY DEF Fits, Fetching, Asking, Ending, Full, FirstOf, Needed, RefsOf, Slots, Kind, Owner, PromptsOf

\* A call that goes on, or ends and perhaps its generation with it.
GoesOn(p, c) == Become(p, c) /\ UNCHANGED gen

LEMMA CallMoves ==
  ASSUME None \notin Words, Sound, NEW p \in Prompts, NEW c \in Calls, NEW j \in Jobs,
         call[p].pc \notin {"idle", "image"}, UNCHANGED plan,
         GoesOn(p, c) \/ Finish(p, c), remote' = [remote EXCEPT ![p] = j], Fits(p, c, j)
  PROVE  Sound'
<1> DEFINE g == Owner(p)
<1>1. ImageTypes /\ plan \in Plans /\ g \in DOMAIN plan /\ p \in PromptsOf(g)
  BY OneOwner DEF Sound, ImageTypes
<1>2. call' = [call EXCEPT ![p] = c]
  BY DEF GoesOn, Finish, Become
<1>3. gen' = gen \/ (gen' = [gen EXCEPT ![g] = gen'[g]] /\ gen[g] = "running"
         /\ gen'[g] \in {"running", "succeeded", "failed"}
         /\ (gen'[g] = "succeeded" => c.pc = "image" /\ \A o \in PromptsOf(g) \ {p} : At(o, "image")))
  <2>1. CASE GoesOn(p, c)
    BY <2>1 DEF GoesOn
  <2>2. CASE Finish(p, c)
    <3>1. CASE gen[g] # "running"
      BY <1>1, <2>2, <3>1 DEF Finish, ImageTypes
    <3>2. CASE gen[g] = "running"
      BY <1>1, <2>2, <3>2 DEF Finish, ImageTypes
    <3> QED BY <3>1, <3>2
  <2> QED BY <2>1, <2>2
<1>4. UNCHANGED Prompts /\ UNCHANGED DOMAIN plan /\ \A o : UNCHANGED Owner(o) /\ UNCHANGED PromptsOf(o)
  BY DEF Prompts, PromptsOf, Owner
<1>5. ImageTypes'
  <2>1. gen' \in [DOMAIN plan -> {None, "queued", "running", "succeeded", "failed", "lost"}]
    <3>1. CASE gen' = gen
      BY <1>1, <3>1 DEF ImageTypes
    <3>2. CASE gen' # gen
      BY <1>1, <1>3, <3>2 DEF ImageTypes
    <3> QED BY <3>1, <3>2
  <2>2. call' \in [Prompts -> Calls]
    BY <1>1, <1>2 DEF ImageTypes
  <2>3. remote' \in [Prompts -> Jobs]
    BY <1>1 DEF ImageTypes
  <2> QED BY <1>1, <1>4, <2>1, <2>2, <2>3 DEF ImageTypes
<1>6. ASSUME NEW o \in Prompts PROVE Fits(o, call'[o], remote'[o])
  <2>1. CASE o = p
    BY <1>1, <1>2, <2>1 DEF ImageTypes
  <2>2. CASE o # p
    BY <1>1, <1>2, <2>2 DEF ImageTypes, Sound
  <2> QED BY <2>1, <2>2
<1>7. \A o \in Prompts' : Fits(o, call[o], remote[o])'
  BY <1>4, <1>6, FitsStays
<1>8. ASSUME NEW o \in Prompts, gen'[Owner(o)] \in {None, "queued"}
      PROVE  call'[o] = NoCall /\ remote'[o] = NoJob
  <2>1. Unbegun(o)
    BY <1>1, <1>3, <1>8, OneOwner DEF Unbegun, ImageTypes, Words
  <2>2. call[o] = NoCall /\ remote[o] = NoJob
    BY <2>1 DEF Sound
  <2>3. o # p
    BY <2>2 DEF NoCall
  <2> QED BY <1>1, <1>2, <2>2, <2>3 DEF ImageTypes
<1>9. \A o \in Prompts' : Unbegun(o)' => call'[o] = NoCall /\ remote'[o] = NoJob
  BY <1>4, <1>8 DEF Unbegun
<1>10. ASSUME NEW h \in DOMAIN plan, gen'[h] = "succeeded", NEW o \in PromptsOf(h)
       PROVE  call'[o].pc = "image"
  <2>1. o \in Prompts
    BY DEF Prompts
  <2>2. CASE gen[h] = "succeeded"
    <3>1. At(o, "image")
      BY <2>2 DEF Sound
    <3>2. o # p
      BY <3>1 DEF At
    <3> QED BY <1>1, <1>2, <2>1, <3>1, <3>2 DEF ImageTypes, At
  <2>3. CASE gen[h] # "succeeded"
    <3>1. h = g /\ c.pc = "image" /\ \A x \in PromptsOf(g) \ {p} : At(x, "image")
      BY <1>1, <1>3, <1>10, <2>3 DEF ImageTypes
    <3>2. CASE o = p
      BY <1>1, <1>2, <3>1, <3>2 DEF ImageTypes
    <3>3. CASE o # p
      BY <1>1, <1>2, <2>1, <3>1, <3>3 DEF ImageTypes, At
    <3> QED BY <3>2, <3>3
  <2> QED BY <2>2, <2>3
<1>11. \A h \in (DOMAIN plan)' : gen'[h] = "succeeded" => \A o \in PromptsOf(h)' : At(o, "image")'
  BY <1>4, <1>10 DEF At
<1> QED BY <1>5, <1>7, <1>9, <1>11 DEF Sound
\* What is known of a prompt whose call is under way.
LEMMA Known ==
  ASSUME Sound, NEW p \in Prompts
  PROVE  /\ call[p] \in Calls /\ remote[p] \in Jobs /\ Fits(p, call[p], remote[p])
         /\ remote = [remote EXCEPT ![p] = remote[p]]
         /\ plan \in Plans
BY DEF Sound, ImageTypes

LEMMA EndTyped ==
  ASSUME NEW pc \in Places
  PROVE  [NoCall EXCEPT !.pc = pc] \in Calls /\ [NoCall EXCEPT !.pc = pc].pc = pc
BY NoneTyped DEF NoCall, Calls

LEMMA Raises ==
  ASSUME None \notin Words, Sound, NEW p \in Prompts, call[p].pc \notin {"idle", "image"},
         Raise(p), UNCHANGED <<plan, remote>>
  PROVE  Sound'
<1> DEFINE c == [NoCall EXCEPT !.pc = "error"]
<1>1. c \in Calls /\ c.pc = "error" /\ Finish(p, c)
  BY EndTyped DEF Raise, Places
<1> HIDE DEF c
<1>2. Fits(p, c, remote[p])
  BY <1>1, Known, IdleFits DEF Fits
<1> QED BY <1>1, <1>2, Known, CallMoves

\* A call that goes on with its job as it is.
LEMMA Goes ==
  ASSUME None \notin Words, Sound, NEW p \in Prompts, call[p].pc \notin {"idle", "image"},
         NEW c \in Calls, Become(p, c), UNCHANGED <<plan, gen, remote>>,
         Fetching(p, c, remote[p]), Asking(c, remote[p]), Ending(c, remote[p])
  PROVE  Sound'
<1>1. Fits(p, c, remote[p])
  BY Known DEF Fits
<1> QED BY <1>1, Known, CallMoves DEF GoesOn

\* One more picture is the next of those referred to.
LEMMA Fetched ==
  ASSUME Sound, NEW p \in Prompts, FirstOf(call[p].images, p),
         Len(call[p].images) < Len(RefsOf(p))
  PROVE  LET s == Append(call[p].images, NextRef(p)) IN
         s \in Seq(Refs) /\ FirstOf(s, p) /\ Len(s) = Len(call[p].images) + 1
<1> DEFINE s == Append(call[p].images, NextRef(p))
<1>1. RefsOf(p) \in Seq(Refs) /\ call[p].images \in Seq(Refs)
  BY Known, PlanOf DEF Calls
<1>2. NextRef(p) \in Refs
  BY <1>1 DEF NextRef
<1>3. s \in Seq(Refs) /\ Len(s) = Len(call[p].images) + 1
  BY <1>1, <1>2
<1>4. ASSUME NEW i \in 1..Len(s) PROVE s[i] = RefsOf(p)[i]
  <2>1. CASE i \in 1..Len(call[p].images)
    BY <1>1, <1>2, <2>1 DEF FirstOf
  <2>2. CASE i = Len(call[p].images) + 1
    BY <1>1, <1>2, <2>2 DEF NextRef
  <2> QED BY <1>1, <1>3, <2>1, <2>2
<1> QED BY <1>1, <1>3, <1>4 DEF FirstOf

LEMMA GenerateOneKeeps ==
  ASSUME None \notin Words, Sound, NEW p \in Prompts, GenerateOne(p) PROVE Sound'
<1> DEFINE c == [call[p] EXCEPT !.pc = "resolve"]
<1>1. call[p] \in Calls /\ call[p].pc = "generate_one" /\ call[p].images = <<>> /\ RefsOf(p) # <<>>
      /\ remote[p] = NoJob /\ Kind(p) # "workflow"
  BY Known DEF GenerateOne, At, Fits, Fetching
<1>2. CASE Raise(p)
  BY <1>1, <1>2, Raises DEF GenerateOne
<1>3. CASE Become(p, c) /\ UNCHANGED gen
  <2>1. c \in Calls /\ c.pc = "resolve" /\ c.images = <<>>
    BY <1>1 DEF Calls, Places
  <2> HIDE DEF c
  <2>2. RefsOf(p) \in Seq(Refs)
    BY Known, PlanOf
  <2>3. FirstOf(<<>>, p) /\ Len(<<>>) < Len(RefsOf(p))
    BY <1>1, <2>2 DEF FirstOf
  <2>4. Fetching(p, c, remote[p]) /\ Asking(c, remote[p]) /\ Ending(c, remote[p])
    BY <1>1, <2>1, <2>3 DEF Fetching, Asking, Ending
  <2> QED BY <1>1, <1>3, <2>1, <2>4, Goes DEF GenerateOne
<1> QED BY <1>2, <1>3 DEF GenerateOne

LEMMA ResolveKeeps ==
  ASSUME None \notin Words, Sound, NEW p \in Prompts, ResolveImage(p) PROVE Sound'
<1> DEFINE s == Append(call[p].images, NextRef(p))
           pc == IF Len(s) = Len(RefsOf(p)) THEN "submit" ELSE "resolve"
           c == [call[p] EXCEPT !.images = s, !.pc = pc]
<1>1. call[p] \in Calls /\ call[p].pc = "resolve" /\ remote[p] = NoJob /\ Kind(p) # "workflow"
      /\ FirstOf(call[p].images, p) /\ Len(call[p].images) < Len(RefsOf(p))
  BY Known DEF ResolveImage, At, Fits, Fetching
<1>2. CASE Raise(p)
  BY <1>1, <1>2, Raises DEF ResolveImage
<1>3. CASE Fetch(p, Len(RefsOf(p))) /\ UNCHANGED gen
  <2>1. s \in Seq(Refs) /\ FirstOf(s, p)
    BY <1>1, Fetched
  <2>2. Become(p, c)
    BY <1>1, <1>3 DEF Fetch
  <2> HIDE DEF s
  <2>3. pc \in Places /\ c \in Calls /\ c.pc = pc /\ c.images = s
    BY <1>1, <2>1 DEF Calls, Places
  <2> HIDE DEF c
  <2>4. RefsOf(p) \in Seq(Refs)
    BY Known, PlanOf
  <2>5. Len(s) < Len(RefsOf(p)) \/ Len(s) = Len(RefsOf(p))
    BY <2>1, <2>4 DEF FirstOf
  <2>6. Fetching(p, c, remote[p]) /\ Asking(c, remote[p]) /\ Ending(c, remote[p])
    BY <1>1, <2>1, <2>3, <2>5 DEF Fetching, Asking, Ending, Full
  <2> QED BY <1>1, <1>3, <2>2, <2>3, <2>6, Goes DEF ResolveImage
<1> QED BY <1>2, <1>3 DEF ResolveImage

LEMMA UploadKeeps ==
  ASSUME None \notin Words, Sound, NEW p \in Prompts, UploadImage(p) PROVE Sound'
<1>1. call[p] \in Calls /\ call[p].pc = "upload" /\ remote[p] = NoJob /\ Kind(p) = "workflow"
      /\ FirstOf(call[p].images, p)
      /\ (IF Needed(p) = 0 THEN call[p].images = <<>> ELSE Len(call[p].images) < Needed(p))
  BY Known DEF UploadImage, At, Fits, Fetching
<1>2. RefsOf(p) \in Seq(Refs) /\ Slots(p) \in Nat /\ Needed(p) \in Nat /\ Needed(p) <= Len(RefsOf(p))
  BY Known, PlanOf DEF Needed
<1>3. CASE Raise(p)
  BY <1>1, <1>3, Raises DEF UploadImage
<1>4. CASE Needed(p) = 0 /\ Become(p, [call[p] EXCEPT !.pc = "submit"]) /\ UNCHANGED gen
  <2> DEFINE c == [call[p] EXCEPT !.pc = "submit"]
  <2>1. c \in Calls /\ c.pc = "submit" /\ c.images = <<>>
    BY <1>1, <1>4 DEF Calls, Places
  <2> HIDE DEF c
  <2>2. Full(<<>>, p)
    BY <1>1, <1>2, <1>4 DEF Full, FirstOf
  <2>3. Fetching(p, c, remote[p]) /\ Asking(c, remote[p]) /\ Ending(c, remote[p])
    BY <1>1, <2>1, <2>2 DEF Fetching, Asking, Ending
  <2>4. Become(p, c)
    BY <1>4 DEF c
  <2> QED BY <1>1, <1>4, <2>1, <2>3, <2>4, Goes DEF UploadImage
<1>5. CASE Needed(p) > 0 /\ Fetch(p, Needed(p)) /\ UNCHANGED gen
  <2> DEFINE s == Append(call[p].images, NextRef(p))
             pc == IF Len(s) = Needed(p) THEN "submit" ELSE "upload"
             c == [call[p] EXCEPT !.images = s, !.pc = pc]
  <2>1. Len(call[p].images) < Needed(p) /\ Len(call[p].images) < Len(RefsOf(p))
        /\ Len(call[p].images) \in Nat
    BY <1>1, <1>2, <1>5 DEF Calls
  <2>2. s \in Seq(Refs) /\ FirstOf(s, p) /\ Len(s) = Len(call[p].images) + 1
    BY <1>1, <2>1, Fetched
  <2>3. Become(p, c)
    BY <1>1, <1>5 DEF Fetch
  <2> HIDE DEF s
  <2>4. pc \in Places /\ c \in Calls /\ c.pc = pc /\ c.images = s
    BY <1>1, <2>2 DEF Calls, Places
  <2> HIDE DEF c
  <2>5. Len(s) < Needed(p) \/ Len(s) = Needed(p)
    BY <1>2, <2>1, <2>2
  <2>6. Fetching(p, c, remote[p]) /\ Asking(c, remote[p]) /\ Ending(c, remote[p])
    BY <1>1, <1>5, <2>2, <2>4, <2>5 DEF Fetching, Asking, Ending, Full
  <2> QED BY <1>1, <1>5, <2>3, <2>4, <2>6, Goes DEF UploadImage
<1> QED BY <1>3, <1>4, <1>5 DEF UploadImage, Needed

\* What an answer says of the job it is about.
LEMMA AnswersSay ==
  ASSUME None \notin Words, NEW j \in Jobs, NEW a \in AnswersTo(j)
  PROVE  /\ a \in {"waiting", "results", "success", "failed", "noid", "error"}
         /\ a = "results" => j.status = "done"
         /\ a = "waiting" => j.status = "queued"
         /\ a = "error" => j.status \in {None, "broken"}
<1>1. j.status \in {None, "queued", "done", "empty", "broken"}
  BY DEF Jobs
<1>2. CASE j.status = None
  BY <1>2 DEF AnswersTo, Words
<1>3. CASE j.status # None
  BY <1>1, <1>3 DEF AnswersTo, Words
<1> QED BY <1>2, <1>3

LEMMA SubmittedKeeps ==
  ASSUME None \notin Words, Sound, NEW p \in Prompts, Submitted(p) PROVE Sound'
<1>1. call[p] \in Calls /\ call[p].pc = "submit" /\ Full(call[p].images, p) /\ call[p].images \in Seq(Refs)
  BY Known DEF Submitted, At, Fits, Fetching, Calls
<1>2. PICK j \in {NoJob} \cup [status : {"queued", "done", "empty", "broken"},
                               left : {Timeout}, given : {call[p].images}] :
        /\ remote' = [remote EXCEPT ![p] = j]
        /\ \E a \in AnswersTo(j) : Become(p, [call[p] EXCEPT !.pc = "submitted", !.answer = a])
  BY DEF Submitted
<1>3. /\ j \in Jobs
      /\ j.status = None => j = NoJob
      /\ j.status # None => Full(j.given, p)
  <2>1. CASE j = NoJob
    BY <2>1, NoneTyped DEF NoJob
  <2>2. CASE j \in [status : {"queued", "done", "empty", "broken"}, left : {Timeout}, given : {call[p].images}]
    BY <1>1, <2>2, PlansAssumption DEF Jobs, Words
  <2> QED BY <1>2, <2>1, <2>2
<1>4. PICK a \in AnswersTo(j) : Become(p, [call[p] EXCEPT !.pc = "submitted", !.answer = a])
  BY <1>2
<1> DEFINE c == [call[p] EXCEPT !.pc = "submitted", !.answer = a]
<1>5. /\ a \in {"waiting", "results", "success", "failed", "noid", "error"}
      /\ a = "results" => j.status = "done"
      /\ a = "error" => j.status \in {None, "broken"}
  BY <1>3, <1>4, AnswersSay
<1>6. c \in Calls /\ c.pc = "submitted" /\ c.answer = a
  BY <1>1, <1>5 DEF Calls, Places, Answers
<1>7. Become(p, c)
  BY <1>4
<1>8. GoesOn(p, c) /\ UNCHANGED plan
  BY <1>7 DEF Submitted, GoesOn
<1> HIDE DEF c
<1>9. Fits(p, c, j)
  BY <1>3, <1>5, <1>6 DEF Fits, Fetching, Asking, Ending
<1> QED BY <1>1, <1>2, <1>3, <1>6, <1>8, <1>9, CallMoves

LEMMA QueriedKeeps ==
  ASSUME None \notin Words, Sound, NEW p \in Prompts, Queried(p) PROVE Sound'
<1>1. call[p] \in Calls /\ remote[p] \in Jobs /\ call[p].pc = "query"
  BY Known DEF Queried, At
<1>2. PICK a \in AnswersTo(remote[p]) :
        Become(p, [call[p] EXCEPT !.pc = "queried", !.answer = a, !.age = 0])
  BY DEF Queried
<1> DEFINE c == [call[p] EXCEPT !.pc = "queried", !.answer = a, !.age = 0]
<1>3. /\ a \in {"waiting", "results", "success", "failed", "noid", "error"}
      /\ a = "results" => remote[p].status = "done"
      /\ a = "waiting" => remote[p].status = "queued"
      /\ a = "error" => remote[p].status \in {None, "broken"}
  BY <1>1, <1>2, AnswersSay
<1>4. c \in Calls /\ c.pc = "queried" /\ c.answer = a
  <2>1. a \in Answers /\ 0 \in 0..Delay
    BY <1>3, PlansAssumption DEF Answers
  <2> QED BY <1>1, <2>1 DEF Calls, Places
<1>5. Become(p, c)
  BY <1>2
<1> HIDE DEF c
<1>6. Asking(c, remote[p])
  BY <1>3, <1>4 DEF Asking
<1>7. Fetching(p, c, remote[p]) /\ Ending(c, remote[p])
  BY <1>4 DEF Fetching, Ending
<1> QED BY <1>1, <1>4, <1>5, <1>6, <1>7, Goes DEF Queried

LEMMA LostKeeps ==
  ASSUME None \notin Words, Sound, NEW p \in Prompts, Lost(p) PROVE Sound'
BY Raises DEF Lost

\* What comes of an answer, of which it is known what it says.
LEMMA Looks ==
  ASSUME None \notin Words, Sound, NEW p \in Prompts, NEW a, NEW left \in 0..Timeout,
         call[p].pc \in {"submitted", "queried"}, Look(p, a, left), UNCHANGED <<plan, remote>>,
         a \in {"waiting", "results", "success", "failed", "noid", "error"},
         a = "results" => remote[p].status = "done",
         a = "waiting" /\ left = 0 => remote[p].status = "queued" \/ remote[p].left <= Delay,
         a = "error" => remote[p].status \in {None, "broken"}
  PROVE  Sound'
<1> USE DEF Ending
<1>1. CASE a = "results"
  <2> DEFINE c == [NoCall EXCEPT !.pc = "image"]
  <2>1. c \in Calls /\ c.pc = "image"
    BY EndTyped DEF Places
  <2>2. Finish(p, c)
    BY <1>1 DEF Look, Image
  <2> HIDE DEF c
  <2>3. Fits(p, c, remote[p])
    BY <1>1, <2>1, Known DEF Fits, Fetching, Asking
  <2> QED BY <2>1, <2>2, <2>3, Known, CallMoves
<1>2. CASE Raise(p)
  BY <1>2, Raises
<1>3. CASE left = 0 /\ RaiseTimeout(p) /\ (a = "waiting" \/ remote[p].status # None)
           /\ a \in {"waiting", "error"}
  <2> DEFINE c == [NoCall EXCEPT !.pc = "timeout"]
  <2>1. c \in Calls /\ c.pc = "timeout" /\ c.left = 0
    BY EndTyped DEF Places, NoCall
  <2>2. Finish(p, c)
    BY <1>3 DEF RaiseTimeout
  <2> HIDE DEF c
  <2>3. Fits(p, c, remote[p])
    BY <1>3, <2>1, Known DEF Fits, Fetching, Asking
  <2> QED BY <2>1, <2>2, <2>3, Known, CallMoves
<1>4. CASE Become(p, [NoCall EXCEPT !.pc = "sleep", !.left = left, !.sleep = Interval]) /\ UNCHANGED gen
  <2> DEFINE c == [NoCall EXCEPT !.pc = "sleep", !.left = left, !.sleep = Interval]
  <2>1. c \in Calls /\ c.pc = "sleep"
    <3>1. Interval \in 0..Interval /\ "sleep" \in Places
      BY PlansAssumption DEF Places
    <3> QED BY <3>1, NoneTyped DEF NoCall, Calls
  <2>2. Become(p, c)
    BY <1>4
  <2> HIDE DEF c
  <2>3. Fetching(p, c, remote[p]) /\ Asking(c, remote[p]) /\ Ending(c, remote[p])
    BY <2>1 DEF Fetching, Asking
  <2> QED BY <1>4, <2>1, <2>2, <2>3, Goes
<1>5. CASE a \in {"success", "failed", "noid"}
  BY <1>2, <1>5 DEF Look
<1>6. CASE a = "waiting"
  BY <1>3, <1>4, <1>6 DEF Look
<1>7. CASE a = "error"
  <2>1. CASE Kind(p) # "workflow" \/ remote[p].status = None
    BY <1>2, <1>7, <2>1 DEF Look
  <2>2. CASE Kind(p) = "workflow" /\ remote[p].status # None
    BY <1>3, <1>4, <1>7, <2>2 DEF Look
  <2> QED BY <2>1, <2>2
<1> QED BY <1>1, <1>5, <1>6, <1>7

LEMMA SubmissionArrivesKeeps ==
  ASSUME None \notin Words, Sound, NEW p \in Prompts, SubmissionArrives(p) PROVE Sound'
<1>1. call[p].pc = "submitted" /\ Asking(call[p], remote[p]) /\ remote[p] \in Jobs
  BY Known DEF SubmissionArrives, At, Fits
<1>2. /\ call[p].answer \in {"waiting", "results", "success", "failed", "noid", "error"}
      /\ call[p].answer = "results" => remote[p].status = "done"
      /\ call[p].answer = "error" => remote[p].status \in {None, "broken"}
  BY <1>1 DEF Asking
<1>3. Timeout \in 0..Timeout /\ (Timeout = 0 => remote[p].left <= Delay)
  BY <1>1, PlansAssumption DEF Jobs
<1>4. Look(p, call[p].answer, Timeout) /\ UNCHANGED <<plan, remote>>
  BY DEF SubmissionArrives
<1> QED BY <1>1, <1>2, <1>3, <1>4, Looks

LEMMA AnswerArrivesKeeps ==
  ASSUME None \notin Words, Sound, NEW p \in Prompts, AnswerArrives(p) PROVE Sound'
<1>1. call[p].pc = "queried" /\ Asking(call[p], remote[p]) /\ remote[p] \in Jobs /\ call[p] \in Calls
  BY Known DEF AnswerArrives, At, Fits
<1>2. /\ call[p].answer \in {"waiting", "results", "success", "failed", "noid", "error"}
      /\ call[p].answer = "results" => remote[p].status = "done"
      /\ call[p].answer = "waiting" =>
           remote[p].status = "queued" \/ remote[p].left <= call[p].left + call[p].age
      /\ call[p].answer = "error" => remote[p].status \in {None, "broken"}
  BY <1>1 DEF Asking
<1>3. call[p].left \in 0..Timeout /\ call[p].age \in 0..Delay /\ remote[p].left \in 0..Timeout
  BY <1>1 DEF Calls, Jobs
<1>4. call[p].answer = "waiting" /\ call[p].left = 0 => remote[p].status = "queued" \/ remote[p].left <= Delay
  BY <1>2, <1>3, PlansAssumption
<1>5. Look(p, call[p].answer, call[p].left) /\ UNCHANGED <<plan, remote>>
  BY DEF AnswerArrives
<1> QED BY <1>1, <1>2, <1>3, <1>4, <1>5, Looks

LEMMA WakeKeeps ==
  ASSUME None \notin Words, Sound, NEW p \in Prompts, Wake(p) PROVE Sound'
<1> DEFINE c == [call[p] EXCEPT !.pc = "query"]
<1>1. call[p] \in Calls /\ call[p].pc = "sleep"
  BY Known DEF Wake, At
<1>2. c \in Calls /\ c.pc = "query"
  BY <1>1 DEF Calls, Places
<1>3. Become(p, c)
  BY DEF Wake
<1> HIDE DEF c
<1>4. Fetching(p, c, remote[p]) /\ Asking(c, remote[p]) /\ Ending(c, remote[p])
  BY <1>2 DEF Fetching, Asking, Ending
<1> QED BY <1>1, <1>2, <1>3, <1>4, Goes DEF Wake

----------------------------------------------------------------------------
(* Generations begin, jobs end, time goes on, the process starts over.         *)

\* A step that leaves the plan is right when it is right for each prompt.
LEMMA EachSound ==
  ASSUME UNCHANGED plan, ImageTypes',
         \A p \in Prompts : Fits(p, call'[p], remote'[p]),
         \A p \in Prompts : gen'[Owner(p)] \in {None, "queued"} => call'[p] = NoCall /\ remote'[p] = NoJob,
         \A g \in DOMAIN plan : gen'[g] = "succeeded" => \A p \in PromptsOf(g) : call'[p].pc = "image"
  PROVE  Sound'
<1>1. UNCHANGED Prompts /\ UNCHANGED DOMAIN plan /\ \A o : UNCHANGED Owner(o) /\ UNCHANGED PromptsOf(o)
  BY DEF Prompts, PromptsOf, Owner
<1>2. \A p \in Prompts' : Fits(p, call[p], remote[p])'
  BY <1>1, FitsStays
<1>3. \A p \in Prompts' : Unbegun(p)' => call'[p] = NoCall /\ remote'[p] = NoJob
  BY <1>1 DEF Unbegun
<1>4. \A g \in (DOMAIN plan)' : gen'[g] = "succeeded" => \A p \in PromptsOf(g)' : At(p, "image")'
  BY <1>1 DEF At
<1> QED BY <1>2, <1>3, <1>4 DEF Sound

LEMMA RemoteEndsKeeps ==
  ASSUME None \notin Words, Sound, NEW p \in Prompts, RemoteEnds(p) PROVE Sound'
<1>1. PICK s \in {"done", "empty", "broken"} :
        remote' = [remote EXCEPT ![p].status = s,
                                 ![p].left = IF At(p, "submitted") THEN Timeout ELSE call[p].left]
  BY DEF RemoteEnds
<1> DEFINE j == remote'[p]
<1>2. call[p] \in Calls /\ remote[p] \in Jobs /\ Fits(p, call[p], remote[p]) /\ ImageTypes
      /\ remote[p].status = "queued"
  BY Known DEF Sound, RemoteEnds
<1>3. /\ j.status = s /\ j.given = remote[p].given
      /\ j.left = (IF At(p, "submitted") THEN Timeout ELSE call[p].left)
      /\ \A o \in Prompts \ {p} : remote'[o] = remote[o]
  BY <1>1, <1>2 DEF ImageTypes, Jobs
<1>4. j.left \in 0..Timeout
  BY <1>2, <1>3, PlansAssumption DEF Calls
<1>5. j \in Jobs
  BY <1>1, <1>2, <1>4 DEF ImageTypes, Jobs
<1>6. remote' \in [Prompts -> Jobs]
  BY <1>1, <1>2, <1>3, <1>5 DEF ImageTypes
<1>7. ImageTypes'
  BY <1>2, <1>6 DEF RemoteEnds, ImageTypes, Prompts, PromptsOf
<1> HIDE DEF j
<1>8. Fits(p, call[p], j)
  <2>1. Fetching(p, call[p], j)
    BY <1>2, Known DEF Fits, Fetching, NoJob, Words
  <2>2. Asking(call[p], j)
    <3>1. call[p].pc = "submitted" => call[p].answer \notin {"results", "error"}
      BY <1>2 DEF Fits, Asking, Words
    <3>2. call[p].pc = "queried" => j.left <= call[p].left + call[p].age
      BY <1>2, <1>3, PlansAssumption DEF At, Calls
    <3>3. call[p].pc = "queried" => call[p].answer \notin {"results", "error"}
      BY <1>2 DEF Fits, Asking, Words
    <3> QED BY <1>2, <3>1, <3>2, <3>3 DEF Fits, Asking
  <2>3. Ending(call[p], j)
    <3>1. call[p].pc # "image"
      BY <1>2 DEF Fits, Ending
    <3>2. CASE call[p].pc = "timeout"
      <4>1. call[p].left = 0
        BY <1>2, <3>2 DEF Fits, Ending
      <4> QED BY <1>3, <3>2, <4>1, PlansAssumption DEF Ending, At
    <3> QED BY <3>1, <3>2 DEF Ending
  <2>4. Full(j.given, p) /\ j.status # None
    BY <1>2, <1>3 DEF Fits, Words
  <2> QED BY <2>1, <2>2, <2>3, <2>4 DEF Fits
<1>9. \A o \in Prompts : Fits(o, call'[o], remote'[o])
  BY <1>3, <1>8 DEF RemoteEnds, Sound, j
<1>10. \A o \in Prompts : gen'[Owner(o)] \in {None, "queued"} => call'[o] = NoCall /\ remote'[o] = NoJob
  <2> SUFFICES ASSUME NEW o \in Prompts, gen'[Owner(o)] \in {None, "queued"}
               PROVE  call'[o] = NoCall /\ remote'[o] = NoJob
    OBVIOUS
  <2>1. call[o] = NoCall /\ remote[o] = NoJob
    BY DEF RemoteEnds, Sound, Unbegun
  <2>2. o # p
    BY <1>2, <2>1 DEF NoJob, Words
  <2> QED BY <1>3, <2>1, <2>2 DEF RemoteEnds
<1> QED BY <1>7, <1>9, <1>10, EachSound DEF RemoteEnds, Sound, At

LEMMA TickKeeps == ASSUME None \notin Words, Sound, Tick PROVE Sound'
<1> DEFINE Later(c) ==
      [c EXCEPT !.left = Down(@), !.sleep = Down(@), !.age = IF c.pc = "queried" THEN @ + 1 ELSE @]
<1>1. ImageTypes
  BY DEF Sound
<1>2. ASSUME NEW p \in Prompts
      PROVE  /\ call'[p] \in Calls /\ Fits(p, call'[p], remote[p])
             /\ call'[p].pc = call[p].pc /\ (call[p] = NoCall => call'[p] = NoCall)
  <2>1. CASE ~Polling(call[p])
    <3>1. call'[p] = call[p]
      BY <2>1 DEF Tick
    <3> QED BY <1>1, <3>1 DEF Sound, ImageTypes
  <2>2. CASE Polling(call[p])
    <3> DEFINE c == call[p]
               d == call'[p]
    <3>1. d = Later(c) /\ c \in Calls /\ Fits(p, c, remote[p]) /\ remote[p] \in Jobs
      BY <1>1, <2>2 DEF Tick, Sound, ImageTypes, At
    <3>2. /\ d.pc = c.pc /\ d.answer = c.answer /\ d.images = c.images
          /\ d.left = Down(c.left) /\ d.sleep = Down(c.sleep)
          /\ d.age = (IF c.pc = "queried" THEN c.age + 1 ELSE c.age)
      BY <3>1 DEF Calls
    <3>3. c.left \in 0..Timeout /\ c.sleep \in 0..Interval /\ c.age \in 0..Delay
          /\ remote[p].left \in 0..Timeout
      BY <3>1 DEF Calls, Jobs
    <3>4. d.left \in 0..Timeout /\ d.sleep \in 0..Interval /\ c.left <= d.left + 1
      BY <3>2, <3>3, PlansAssumption DEF Down
    <3>5. d.age \in 0..Delay
      <4>1. c.pc = "queried" => c.age < Delay
        BY DEF Tick, At
      <4> HIDE DEF d, c
      <4> QED BY <3>2, <3>3, <4>1, PlansAssumption
    <3>6. d \in Calls
      <4>1. d \in [pc : Places, left : 0..Timeout, sleep : 0..Interval, age : 0..Delay,
                   answer : Answers, images : Seq(Refs)]
        BY <3>1, <3>2, <3>4, <3>5 DEF Calls
      <4> QED BY <4>1 DEF Calls
    <3>7. c # NoCall
      BY <2>2 DEF Polling, NoCall
    <3> HIDE DEF d
    <3>8. Asking(d, remote[p])
      <4>1. CASE c.pc = "queried"
        <5>1. c.answer = "waiting" /\ remote[p].status # "queued" => remote[p].left <= d.left + d.age
          <6>1. c.answer = "waiting" /\ remote[p].status # "queued" => remote[p].left <= c.left + c.age
            BY <3>1, <4>1 DEF Fits, Asking
          <6>2. d.age = c.age + 1
            BY <3>2, <4>1
          <6> HIDE DEF c
          <6> QED BY <3>3, <3>4, <6>1, <6>2, PlansAssumption
        <5> QED BY <3>1, <3>2, <4>1, <5>1 DEF Fits, Asking
      <4>2. CASE c.pc # "queried"
        BY <2>2, <3>2, <4>2 DEF Polling, Asking
      <4> QED BY <4>1, <4>2
    <3>9. Fits(p, d, remote[p])
      BY <2>2, <3>1, <3>2, <3>8 DEF Polling, Fits, Fetching, Ending
    <3> QED BY <3>2, <3>6, <3>7, <3>9 DEF d
  <2> QED BY <2>1, <2>2
<1>3. call' \in [Prompts -> Calls]
  BY <1>2 DEF Tick
<1>4. ImageTypes'
  BY <1>1, <1>3 DEF Tick, ImageTypes, Prompts, PromptsOf
<1>5. \A p \in Prompts : gen'[Owner(p)] \in {None, "queued"} => call'[p] = NoCall /\ remote'[p] = NoJob
  BY <1>2 DEF Tick, Sound, Unbegun
<1>6. \A g \in DOMAIN plan : gen'[g] = "succeeded" => \A p \in PromptsOf(g) : call'[p].pc = "image"
  BY <1>2 DEF Tick, Sound, At, Prompts
<1> QED BY <1>2, <1>4, <1>5, <1>6, EachSound DEF Tick

LEMMA RestartKeeps == ASSUME None \notin Words, Sound, Restart PROVE Sound'
<1>1. ImageTypes /\ \A g \in DOMAIN plan : gen'[g] = (IF gen[g] = None THEN None ELSE "lost")
  BY DEF Sound, Restart
<1>2. ImageTypes'
  <2>1. gen' \in [DOMAIN plan -> {None, "queued", "running", "succeeded", "failed", "lost"}]
    BY DEF Restart
  <2>2. call' \in [Prompts -> Calls]
    BY NoneTyped DEF Restart
  <2> QED BY <1>1, <2>1, <2>2 DEF Restart, ImageTypes, Prompts, PromptsOf
<1>3. ASSUME NEW p \in Prompts PROVE Fits(p, call'[p], remote'[p]) /\ call'[p] = NoCall
  <2>1. call'[p] = NoCall /\ remote'[p] = remote[p] /\ NoCall.pc = "idle"
    BY DEF Restart, NoCall
  <2> QED BY <2>1, Known, IdleFits DEF Fits
<1>4. ASSUME NEW p \in Prompts, gen'[Owner(p)] \in {None, "queued"} PROVE remote'[p] = NoJob
  <2>1. Unbegun(p)
    BY <1>1, <1>4, OneOwner DEF ImageTypes, Unbegun, Words
  <2> QED BY <2>1 DEF Sound, Restart
<1>5. \A g \in DOMAIN plan : gen'[g] # "succeeded"
  BY <1>1 DEF Words
<1> QED BY <1>2, <1>3, <1>4, <1>5, EachSound DEF Restart

LEMMA CreateKeeps ==
  ASSUME None \notin Words, Sound, NEW g \in DOMAIN plan, Create(g) PROVE Sound'
<1>1. ImageTypes /\ gen' = [gen EXCEPT ![g] = "queued"] /\ gen[g] = None
  BY DEF Sound, Create
<1>2. ImageTypes'
  BY <1>1 DEF Create, ImageTypes, Prompts, PromptsOf
<1>3. \A p \in Prompts : gen'[Owner(p)] \in {None, "queued"} => Unbegun(p)
  BY <1>1, OneOwner DEF ImageTypes, Unbegun
<1>4. \A p \in Prompts : gen'[Owner(p)] \in {None, "queued"} => call'[p] = NoCall /\ remote'[p] = NoJob
  BY <1>3 DEF Create, Sound
<1>5. \A h \in DOMAIN plan : gen'[h] = "succeeded" => gen[h] = "succeeded"
  BY <1>1 DEF ImageTypes
<1>6. \A h \in DOMAIN plan : gen'[h] = "succeeded" => \A p \in PromptsOf(h) : call'[p].pc = "image"
  BY <1>5 DEF Create, Sound, At
<1> QED BY <1>2, <1>4, <1>6, EachSound DEF Create, Sound

LEMMA RefuseKeeps ==
  ASSUME None \notin Words, Sound, NEW g \in DOMAIN plan, Refuse(g), gen[g] = None PROVE Sound'
<1>1. ImageTypes /\ gen' = [gen EXCEPT ![g] = "failed"] /\ UNCHANGED <<plan, call, remote>>
  BY DEF Sound, Refuse
<1>2. ImageTypes'
  BY <1>1 DEF ImageTypes, Prompts, PromptsOf
<1>3. \A p \in Prompts : gen'[Owner(p)] \in {None, "queued"} => Unbegun(p)
  BY <1>1, OneOwner DEF ImageTypes, Unbegun
<1>4. \A p \in Prompts : gen'[Owner(p)] \in {None, "queued"} => call'[p] = NoCall /\ remote'[p] = NoJob
  BY <1>1, <1>3 DEF Sound
<1>5. \A h \in DOMAIN plan : gen'[h] = "succeeded" => gen[h] = "succeeded"
  BY <1>1 DEF ImageTypes
<1>6. \A h \in DOMAIN plan : gen'[h] = "succeeded" => \A p \in PromptsOf(h) : call'[p].pc = "image"
  BY <1>1, <1>5 DEF Sound, At
<1> QED BY <1>1, <1>2, <1>4, <1>6, EachSound DEF Sound

\* All calls of a generation begin, at a place its kind allows.
LEMMA BeginKeeps ==
  ASSUME None \notin Words, Sound, NEW g \in DOMAIN plan, gen[g] \in {None, "queued"},
         NEW pc \in {"generate_one", "resolve", "upload", "submit"}, Begin(g, pc),
         pc = "generate_one" => plan[g].kind \in {"job", "images"},
         pc = "resolve" => plan[g].kind = "image" /\ plan[g].refs # <<>>,
         pc = "upload" => plan[g].kind = "workflow",
         pc = "submit" => plan[g].kind = "text"
  PROVE  Sound'
<1> DEFINE c == [NoCall EXCEPT !.pc = pc]
<1>1. /\ ImageTypes /\ gen' = [gen EXCEPT ![g] = "running"] /\ UNCHANGED <<plan, remote>>
      /\ call' = [p \in Prompts |-> IF p \in PromptsOf(g) THEN c ELSE call[p]]
  BY DEF Sound, Begin
<1>2. c \in Calls /\ c.pc = pc /\ c.images = <<>>
  BY EndTyped DEF NoCall, Places
<1> HIDE DEF c
<1>3. ImageTypes'
  <2>1. gen' \in [DOMAIN plan -> {None, "queued", "running", "succeeded", "failed", "lost"}]
    BY <1>1 DEF ImageTypes
  <2>2. call' \in [Prompts -> Calls]
    BY <1>1, <1>2 DEF ImageTypes
  <2> QED BY <1>1, <2>1, <2>2 DEF ImageTypes, Prompts, PromptsOf
<1>4. ASSUME NEW p \in Prompts, p \in PromptsOf(g) PROVE Fits(p, c, remote[p])
  <2>1. Owner(p) = g /\ RefsOf(p) \in Seq(Refs) /\ Slots(p) \in Nat
    BY <1>1, <1>4, OneOwner, PlanOf DEF ImageTypes
  <2>2. remote[p] = NoJob
    BY <2>1 DEF Sound, Unbegun
  <2>3. /\ Kind(p) = plan[g].kind /\ RefsOf(p) = plan[g].refs
        /\ Kind(p) \in {"job", "images"} => RefsOf(p) # <<>>
        /\ Kind(p) = "text" => RefsOf(p) = <<>>
    BY <1>1, <2>1, PlanOf DEF ImageTypes, Kind, RefsOf
  <2>4. FirstOf(<<>>, p) /\ (RefsOf(p) # <<>> => Len(<<>>) < Len(RefsOf(p)))
    BY <2>1 DEF FirstOf
  <2>5. Needed(p) \in Nat
    BY <2>1 DEF Needed
  <2>6. Fetching(p, c, NoJob)
    <3>1. CASE pc = "generate_one"
      BY <1>2, <2>3, <3>1 DEF Fetching
    <3>2. CASE pc = "resolve"
      BY <1>2, <2>3, <2>4, <3>2 DEF Fetching
    <3>3. CASE pc = "upload"
      <4>1. Needed(p) = 0 \/ Len(<<>>) < Needed(p)
        BY <2>5
      <4> QED BY <1>2, <2>3, <2>4, <3>3, <4>1 DEF Fetching
    <3>4. CASE pc = "submit"
      <4>1. Full(<<>>, p)
        BY <2>3, <2>4, <3>4 DEF Full
      <4> QED BY <1>2, <3>4, <4>1 DEF Fetching
    <3> QED BY <3>1, <3>2, <3>3, <3>4
  <2> QED BY <1>2, <2>2, <2>6 DEF Fits, Asking, Ending, NoJob
<1>5. \A p \in Prompts : Fits(p, call'[p], remote'[p])
  <2> TAKE p \in Prompts
  <2>1. CASE p \in PromptsOf(g)
    BY <1>1, <1>4, <2>1
  <2>2. CASE p \notin PromptsOf(g)
    BY <1>1, <2>2 DEF Sound
  <2> QED BY <2>1, <2>2
<1>6. ASSUME NEW p \in Prompts, gen'[Owner(p)] \in {None, "queued"}
      PROVE  call'[p] = NoCall /\ remote'[p] = NoJob
  <2>1. Owner(p) # g /\ p \notin PromptsOf(g) /\ Unbegun(p)
    BY <1>1, <1>6, OneOwner DEF ImageTypes, Unbegun, Words
  <2> QED BY <1>1, <2>1 DEF Sound
<1>7. ASSUME NEW h \in DOMAIN plan, gen'[h] = "succeeded", NEW p \in PromptsOf(h)
      PROVE  call'[p].pc = "image"
  <2>1. h # g /\ gen[h] = "succeeded" /\ p \in Prompts
    BY <1>1, <1>7 DEF ImageTypes, Prompts
  <2>2. p \notin PromptsOf(g)
    BY <1>1, <2>1, OneOwner DEF ImageTypes
  <2> QED BY <1>1, <2>1, <2>2 DEF Sound, At
<1> QED BY <1>1, <1>3, <1>5, <1>6, <1>7, EachSound

LEMMA RunKeeps ==
  ASSUME None \notin Words, Sound, NEW g \in DOMAIN plan, Run(g) PROVE Sound'
<1>1. CASE RunJob(g) \/ RunImages(g)
  BY <1>1, BeginKeeps DEF RunJob, RunImages
<1>2. CASE RunText(g)
  BY <1>2, BeginKeeps DEF RunText
<1>3. CASE RunImage(g)
  BY <1>3, BeginKeeps, RefuseKeeps DEF RunImage
<1>4. CASE RunWorkflow(g)
  BY <1>4, BeginKeeps, RefuseKeeps DEF RunWorkflow
<1> QED BY <1>1, <1>2, <1>3, <1>4 DEF Run

LEMMA SoundNext == ASSUME None \notin Words, Sound, [Next]_vars PROVE Sound'
<1>1. ASSUME NEW g \in DOMAIN plan, Create(g) \/ Run(g) PROVE Sound'
  BY <1>1, CreateKeeps, RunKeeps
<1>2. ASSUME NEW p \in Prompts, Step(p) PROVE Sound'
  BY <1>2, GenerateOneKeeps, ResolveKeeps, UploadKeeps, SubmittedKeeps, QueriedKeeps, LostKeeps,
     SubmissionArrivesKeeps, AnswerArrivesKeeps, WakeKeeps DEF Step
<1>3. ASSUME NEW p \in Prompts, RemoteEnds(p) PROVE Sound'
  BY <1>3, RemoteEndsKeeps
<1>4. CASE Tick
  BY <1>4, TickKeeps
<1>5. CASE Restart
  BY <1>5, RestartKeeps
<1>6. CASE UNCHANGED vars
  <2>1. ImageTypes'
    BY <1>6 DEF Sound, ImageTypes, vars, Prompts, PromptsOf
  <2> QED BY <1>6, <2>1, EachSound DEF Sound, Unbegun, At, vars
<1> QED BY <1>1, <1>2, <1>3, <1>4, <1>5, <1>6 DEF Next

----------------------------------------------------------------------------

LEMMA SoundTypes == Sound => JobsTypeOK
BY DEF Sound, ImageTypes, Calls, Jobs, JobsTypeOK

\* A job sent with all its pictures was sent what the prompt refers to.
LEMMA FullSent ==
  ASSUME Sound, NEW p \in Prompts, Full(remote[p].given, p)
  PROVE  PicturesSent(p)
<1> DEFINE s == remote[p].given
           t == RefsOf(p)
<1>1. s \in Seq(Refs) /\ t \in Seq(Refs) /\ Slots(p) \in Nat
  BY Known, PlanOf DEF Jobs
<1>2. Len(s) <= Len(t) /\ (\A i \in 1..Len(s) : s[i] = t[i])
      /\ Len(s) = (IF Kind(p) = "workflow" THEN Needed(p) ELSE Len(t))
  BY DEF Full, FirstOf
<1>3. Len(s) \in {Len(t), Slots(p)}
  BY <1>1, <1>2 DEF Needed
<1> HIDE DEF s, t
<1>4. IsPrefix(s, t)
  <2>1. SubSeq(t, 1, Len(s)) = s
    BY <1>1, <1>2
  <2> QED BY <1>1, <1>2, <2>1 DEF IsPrefix
<1>5. Kind(p) # "workflow" => s = t
  BY <1>1, <1>2
<1> QED BY <1>3, <1>4, <1>5 DEF PicturesSent, s, t

LEMMA SoundComplete == ASSUME None \notin Words, Sound PROVE ImagesComplete
<1> SUFFICES ASSUME NEW g \in DOMAIN plan, GetGeneration(plan[g].user, g) = "succeeded",
                    NEW p \in PromptsOf(g)
             PROVE  At(p, "image") /\ remote[p].status = "done" /\ PicturesSent(p)
  BY DEF ImagesComplete
<1>1. gen[g] = "succeeded" /\ p \in Prompts
  BY DEF GetGeneration, Prompts
<1>2. At(p, "image") /\ remote[p].status = "done"
  BY <1>1, Known DEF Sound, Fits, Ending, At
<1>3. PicturesSent(p)
  BY <1>1, <1>2, Known, FullSent DEF Fits, Words
<1> QED BY <1>2, <1>3

LEMMA SoundLate == Sound => TimeoutIsLate
BY Known DEF TimeoutIsLate, At, Fits, Ending

(* A client that is told a generation succeeded finds an image for every prompt, *)
(* each from a job that RunningHub has done and that was sent with all its        *)
(* pictures, in their order: generate_one, the providers and their pollers, any   *)
(* number of them at once, with restarts between any two steps.                   *)
THEOREM ImagesAlwaysComplete ==
  ASSUME None \notin Words
  PROVE  Spec => [](JobsTypeOK /\ ImagesComplete)
<1>1. Init => Sound
  BY SoundInit
<1>2. Sound /\ [Next]_vars => Sound'
  BY SoundNext
<1>3. Sound => JobsTypeOK /\ ImagesComplete
  BY SoundTypes, SoundComplete
<1> QED BY <1>1, <1>2, <1>3, PTL DEF Spec

(* _poll_until_complete gives a job all the time it has: a call that timed out    *)
(* had a job that was not done when an answer's way was left before the deadline. *)
THEOREM TimeoutsAlwaysLate ==
  ASSUME None \notin Words
  PROVE  Spec => []TimeoutIsLate
<1>1. Init => Sound
  BY SoundInit
<1>2. Sound /\ [Next]_vars => Sound'
  BY SoundNext
<1>3. Sound => TimeoutIsLate
  BY SoundLate
<1> QED BY <1>1, <1>2, <1>3, PTL DEF Spec

----------------------------------------------------------------------------
(* Nodes that ask a language model: the inductive invariant.                   *)

Coroutine ==
  [pc : {"chat", "done", "raised"}, step : {"none", "write", "review", "revise"},
   attempt : 1..MaxAttempts, round : 1..(MaxRounds + 1), ver : Nat, reviewed : Nat,
   passed : BOOLEAN, status : {"ok", "failed"}]

\* A coroutine of a node of kind k: one that asks has not failed and revises in
\* its rounds, one that is done carries its review, or has failed where it may.
Right(k, may, c) ==
  /\ c \in Coroutine
  /\ c.pc = "chat" => /\ c.status = "ok"
                      /\ k = "review" => c.step \in {"review", "revise"}
                      /\ k = "review" /\ c.step = "revise" => c.round <= MaxRounds
  /\ k = "review" /\ c.pc = "done" /\ c.status = "ok" =>
       c.reviewed = c.ver /\ (c.passed \/ c.round = MaxRounds + 1)
  /\ c.pc = "done" /\ c.status = "failed" => may

RunRow == [stage : 1..Len(llmplan.stages), status : {"running", "succeeded", "failed"}, source : Nat]
Typed ==
  /\ llmplan \in LlmPlans
  /\ node \in Seq(RunRow)
  /\ co \in Seq([llmplan.items -> Coroutine]) /\ Len(co) = Len(node)
MayFail(r, i) == Continues(r) \/ Input(r, i).status = "failed"
AllRight == \A r \in Runs : \A i \in llmplan.items : Right(KindOf(r), MayFail(r, i), co[r][i])
NodesComplete == \A r \in Runs : node[r].status = "succeeded" => \A i \in llmplan.items : co[r][i].pc = "done"
\* A run was given results of one that has succeeded, and so does not change.
Sourced ==
  \A r \in Runs : node[r].source # 0 =>
    node[r].source \in Runs /\ node[node[r].source].status = "succeeded"
Worked == Typed /\ AllRight /\ NodesComplete /\ Sourced /\ FailuresPass

----------------------------------------------------------------------------
(* One coroutine.                                                              *)

LEMMA Bounds ==
  ASSUME LlmAssumption
  PROVE  MaxAttempts \in Nat /\ MaxRounds \in Nat /\ 1 \in 1..MaxAttempts /\ 1 \in 1..(MaxRounds + 1)
BY DEF LlmAssumption

LEMMA DoneRight ==
  ASSUME LlmAssumption, NEW c \in Coroutine, NEW k, NEW may, c.status = "ok",
         k = "review" => c.reviewed = c.ver /\ (c.passed \/ c.round = MaxRounds + 1)
  PROVE  Right(k, may, Done(c))
BY Bounds DEF Right, Done, Coroutine

LEMMA FailRight ==
  ASSUME LlmAssumption, NEW c \in Coroutine, NEW k, NEW may, NEW caught \in BOOLEAN, caught => may
  PROVE  Right(k, may, Fail(c, caught))
BY Bounds DEF Right, Fail, Done, Coroutine, Idle

LEMMA AgainRight ==
  ASSUME LlmAssumption, NEW k, NEW may, NEW c, Right(k, may, c), c.pc = "chat",
         NEW caught \in BOOLEAN, caught => may
  PROVE  Right(k, may, Again(c, caught))
<1>1. CASE c.attempt < MaxAttempts
  BY <1>1, Bounds DEF Right, Again, Coroutine
<1>2. CASE ~(c.attempt < MaxAttempts)
  BY <1>2, FailRight DEF Right, Again
<1> QED BY <1>1, <1>2

LEMMA StructuredRight ==
  ASSUME LlmAssumption, NEW k, NEW may, NEW c, Right(k, may, c), c.pc = "chat",
         NEW continue \in BOOLEAN, continue => may, NEW a \in {"invalid", "refused", "lost"}
  PROVE  Right(k, may, Structured(c, a, continue))
<1>1. c \in Coroutine
  BY DEF Right
<1> QED BY <1>1, AgainRight, FailRight DEF Structured

LEMMA ReviewRight ==
  ASSUME LlmAssumption, NEW k, k = "review", NEW may, NEW c, Right(k, may, c), c.pc = "chat",
         NEW continue \in BOOLEAN, continue => may, NEW a \in Replies
  PROVE  Right(k, may, ReviewItem(c, a, continue))
<1>1. CASE a \notin {"valid", "passed"}
  <2>1. ReviewItem(c, a, continue) = Structured(c, a, continue)
    BY <1>1 DEF ReviewItem
  <2>2. a \in {"invalid", "refused", "lost"}
    BY <1>1 DEF Replies
  <2> QED BY <2>1, <2>2, StructuredRight
<1>2. CASE a \in {"valid", "passed"} /\ c.step = "revise"
  <2>1. ReviewItem(c, a, continue) = Merge(c)
    BY <1>2 DEF ReviewItem
  <2>2. c \in Coroutine /\ c.round <= MaxRounds /\ c.status = "ok"
    BY <1>2 DEF Right
  <2>3. Merge(c) \in Coroutine /\ Merge(c).pc = "chat" /\ Merge(c).status = "ok" /\ Merge(c).step = "review"
    <3>1. c.round + 1 \in 1..(MaxRounds + 1) /\ c.ver + 1 \in Nat
      BY <2>2, Bounds DEF Coroutine
    <3> QED BY <2>2, <3>1, Bounds DEF Merge, Coroutine
  <2>4. Right(k, may, Merge(c))
    BY <2>3 DEF Right
  <2> QED BY <2>1, <2>4
<1>3. CASE a \in {"valid", "passed"} /\ c.step # "revise"
  <2> DEFINE v == Reviewed(c, a)
  <2>1. /\ v \in Coroutine /\ v.reviewed = v.ver /\ (a = "passed" => v.passed = TRUE) /\ v.status = "ok"
        /\ v.round = c.round /\ v.pc = "chat"
    BY Bounds DEF Reviewed, Right, Coroutine
  <2>2. ReviewItem(c, a, continue) = IF a = "passed" \/ c.round > MaxRounds THEN Done(v)
                           ELSE [v EXCEPT !.step = "revise", !.attempt = 1]
    BY <1>3 DEF ReviewItem
  <2> HIDE DEF v
  <2>3. c.round \in 1..(MaxRounds + 1)
    BY Bounds DEF Right, Coroutine
  <2>4. CASE a = "passed" \/ c.round > MaxRounds
    <3>1. v.passed \/ v.round = MaxRounds + 1
      BY <2>1, <2>3, <2>4, Bounds
    <3>2. Right(k, may, Done(v))
      BY <2>1, <3>1, DoneRight
    <3> QED BY <2>2, <2>4, <3>2
  <2>5. CASE ~(a = "passed" \/ c.round > MaxRounds)
    <3> DEFINE w == [v EXCEPT !.step = "revise", !.attempt = 1]
    <3>1. w \in Coroutine /\ w.pc = "chat" /\ w.status = "ok" /\ w.step = "revise" /\ w.round = c.round
      BY <2>1, Bounds DEF Coroutine
    <3>2. c.round <= MaxRounds
      BY <2>3, <2>5, Bounds
    <3>3. ReviewItem(c, a, continue) = w
      BY <2>2, <2>5
    <3> HIDE DEF w
    <3> QED BY <3>1, <3>2, <3>3 DEF Right
  <2> QED BY <2>4, <2>5
<1> QED BY <1>1, <1>2, <1>3

LEMMA OneObjectRight ==
  ASSUME LlmAssumption, NEW k \in Kinds \ {"review"}, NEW may, NEW c, Right(k, may, c), c.pc = "chat",
         NEW a \in Replies
  PROVE  Right(k, may, OneObject(c, a)) /\ Right(k, may, Vision(c, a)) /\ Right(k, may, Chat(c, a))
<1>1. c \in Coroutine /\ c.status = "ok"
  BY DEF Right
<1>2. Right(k, may, Done(c)) /\ Right(k, may, Fail(c, FALSE)) /\ Right(k, may, Again(c, FALSE))
  BY <1>1, DoneRight, FailRight, AgainRight
<1> QED BY <1>2 DEF OneObject, Vision, Chat

LEMMA WriteRight ==
  ASSUME LlmAssumption, NEW may, NEW c, Right("write", may, c), c.pc = "chat",
         NEW continue \in BOOLEAN, continue => may, NEW a \in Replies
  PROVE  Right("write", may, WriteItem(c, a, continue))
<1>1. c \in Coroutine /\ c.status = "ok"
  BY DEF Right
<1>2. Right("write", may, Fail(c, FALSE)) /\ Right("write", may, Again(c, continue))
  BY <1>1, FailRight, AgainRight
<1>3. Right("write", may, [Done(c) EXCEPT !.ver = 1])
  BY <1>1, Bounds DEF Right, Done, Coroutine
<1> QED BY <1>2, <1>3 DEF WriteItem

LEMMA ResumeRight ==
  ASSUME LlmAssumption, NEW k \in Kinds, NEW may, NEW c, Right(k, may, c), c.pc = "chat",
         NEW continue \in BOOLEAN, continue => may, NEW a \in Replies
  PROVE  Right(k, may, Resume(k, c, a, continue))
<1>1. CASE k = "write"
  BY <1>1, WriteRight DEF Resume
<1>2. CASE k = "review"
  BY <1>2, ReviewRight DEF Resume
<1>3. CASE k \in Kinds \ {"write", "review"}
  <2>1. Right(k, may, OneObject(c, a)) /\ Right(k, may, Vision(c, a)) /\ Right(k, may, Chat(c, a))
    BY <1>3, OneObjectRight
  <2> QED BY <1>3, <2>1
       DEF Resume, Kinds, StructuredJson, AssignAssets, DraftAsset, CompleteUpload
<1> QED BY <1>1, <1>2, <1>3

\* What a coroutine begins with: a text, and whether it failed upstream.
Given(c) == c.status \in {"ok", "failed"} /\ c.ver \in Nat

LEMMA BeginRight ==
  ASSUME LlmAssumption, NEW k \in Kinds, NEW c, Given(c), NEW lacks \in BOOLEAN,
         NEW continue \in BOOLEAN, NEW may, continue \/ c.status = "failed" => may
  PROVE  /\ Right(k, may, BeginItem(k, c, lacks, continue))
         /\ c.status = "failed" => /\ BeginItem(k, c, lacks, continue).pc = "done"
                                   /\ BeginItem(k, c, lacks, continue).status = "failed"
                                   /\ BeginItem(k, c, lacks, continue).ver = c.ver
<1> DEFINE c1 == [Idle EXCEPT !.ver = c.ver, !.step = IF k = "review" THEN "review" ELSE "write"]
<1>1. /\ [c1 EXCEPT !.pc = "chat"] \in Coroutine /\ c1.ver = c.ver /\ c1.status = "ok" /\ c1.round = 1
      /\ c1.step = IF k = "review" THEN "review" ELSE "write"
      /\ DOMAIN c1 = DOMAIN Idle
  BY Bounds DEF Idle, Coroutine, Given
<1>2. BeginItem(k, c, lacks, continue) =
        CASE c.status = "failed" -> Fail(c1, TRUE)
          [] c.status = "ok" /\ lacks -> Fail(c1, continue)
          [] OTHER -> [c1 EXCEPT !.pc = "chat"]
  BY DEF BeginItem
<1>3. Right(k, may, [c1 EXCEPT !.pc = "chat"])
  BY <1>1, Bounds DEF Right, Coroutine
<1>4. ASSUME NEW caught \in BOOLEAN, caught => may PROVE Right(k, may, Fail(c1, caught))
  <2>1. c1 \in [pc : {"none"}, step : {"none", "write", "review", "revise"},
                 attempt : 1..MaxAttempts, round : 1..(MaxRounds + 1), ver : Nat, reviewed : Nat,
                 passed : BOOLEAN, status : {"ok", "failed"}]
    BY Bounds DEF Idle, Given
  <2> HIDE DEF c1
  <2>2. Fail(c1, TRUE) = [c1 EXCEPT !.pc = "done", !.attempt = 1, !.status = "failed"]
    BY <2>1 DEF Fail, Done
  <2>3. Fail(c1, TRUE) \in Coroutine /\ Fail(c1, TRUE).pc = "done" /\ Fail(c1, TRUE).status = "failed"
    <3> DEFINE f == [c1 EXCEPT !.pc = "done", !.attempt = 1, !.status = "failed"]
    <3>1. f \in Coroutine /\ f.pc = "done" /\ f.status = "failed"
      BY <2>1, Bounds DEF Coroutine
    <3> HIDE DEF f
    <3> QED BY <2>2, <3>1 DEF f
  <2>4. Fail(c1, FALSE) \in Coroutine /\ Fail(c1, FALSE).pc = "raised"
    BY Bounds DEF Fail, Idle, Coroutine
  <2>5. CASE caught = TRUE
    BY <1>4, <2>3, <2>5 DEF Right
  <2>6. CASE caught = FALSE
    BY <2>4, <2>6 DEF Right
  <2> QED BY <2>5, <2>6
<1>5. c.status = "failed" => /\ Fail(c1, TRUE).pc = "done" /\ Fail(c1, TRUE).status = "failed"
                             /\ Fail(c1, TRUE).ver = c.ver
  BY <1>1 DEF Fail, Done, Idle
<1> HIDE DEF c1
<1>6. CASE c.status = "failed"
  BY <1>2, <1>4, <1>5, <1>6
<1>7. CASE c.status = "ok"
  BY <1>2, <1>3, <1>4, <1>7
<1> QED BY <1>6, <1>7 DEF Given

----------------------------------------------------------------------------
(* The runs.                                                                   *)

LEMMA GatherSays ==
  ASSUME NEW cs
  PROVE  /\ Gather(cs) \in {"running", "succeeded", "failed"}
         /\ Gather(cs) = "succeeded" => \A i \in DOMAIN cs : cs[i].pc = "done"
BY DEF Gather

\* A run is one of a stage of the plan.
LEMMA StepsAre ==
  ASSUME LlmAssumption, Typed, NEW r \in Runs
  PROVE  /\ r \in Nat /\ r \in 1..Len(node) /\ node[r] \in RunRow
         /\ Len(llmplan.stages) \in Nat /\ node[r].stage \in 1..Len(llmplan.stages)
         /\ KindOf(r) \in Kinds /\ Continues(r) \in BOOLEAN
<1>1. r \in Nat /\ r \in 1..Len(node) /\ node[r] \in RunRow
  BY DEF Typed, Runs
<1>2. llmplan.stages \in Seq(Kinds) /\ llmplan.continue \in [DOMAIN llmplan.stages -> BOOLEAN]
  BY DEF LlmAssumption, Typed
<1>3. Len(llmplan.stages) \in Nat /\ DOMAIN llmplan.stages = 1..Len(llmplan.stages)
  BY <1>2
<1>4. node[r].stage \in 1..Len(llmplan.stages)
  BY <1>1 DEF RunRow
<1>5. Continues(r) \in BOOLEAN
  BY <1>2, <1>3, <1>4 DEF Continues
<1> QED BY <1>1, <1>2, <1>3, <1>4, <1>5 DEF KindOf

\* What a run came out with, once it has succeeded, another may begin with.
LEMMA ResultGiven ==
  ASSUME LlmAssumption, Worked, NEW q \in Runs, NEW i \in llmplan.items
  PROVE  Given(co[q][i])
BY DEF Worked, AllRight, Right, Given, Coroutine

\* A run whose source stays was given what it was given.
LEMMA InputStays ==
  ASSUME NEW r, node'[r].source = node[r].source,
         node[r].source # 0 => co'[node[r].source] = co[node[r].source]
  PROVE  \A i : Input(r, i)' = Input(r, i)
BY DEF Input

LEMMA InitWorks ==
  ASSUME LlmAssumption, LlmInit
  PROVE  Worked
<1>1. node = <<>> /\ co = <<>> /\ llmplan \in LlmPlans /\ Runs = {}
  BY DEF LlmInit, Runs
<1>2. Typed
  BY <1>1 DEF Typed
<1>3. AllRight /\ NodesComplete /\ Sourced /\ FailuresPass
  BY <1>1 DEF AllRight, NodesComplete, Sourced, FailuresPass
<1> QED BY <1>2, <1>3 DEF Worked

\* One more run, of stage n, given what the run q came out with.
LEMMA StartWorks ==
  ASSUME LlmAssumption, Worked, NEW n \in DOMAIN llmplan.stages, NEW q \in Sources(n), StartAt(n, q)
  PROVE  Worked'
<1>a. PICK l \in Nat : l = Len(node)
  BY DEF Worked, Typed
<1> DEFINE kind == llmplan.stages[n]
           continue == llmplan.continue[n]
           of(i) == IF q = 0 THEN Idle ELSE co[q][i]
           cs == [i \in llmplan.items |-> BeginItem(kind, of(i), i \in llmplan.lack[n], continue)]
           went == [stage |-> n, status |-> Gather(cs), source |-> q]
<1>0. co' = Append(co, cs) /\ node' = Append(node, went) /\ llmplan' = llmplan
  BY DEF StartAt
<1>1. /\ llmplan \in LlmPlans /\ node \in Seq(RunRow) /\ co \in Seq([llmplan.items -> Coroutine])
      /\ Len(co) = l /\ l \in Nat /\ Runs = 1..l /\ llmplan' = llmplan
  BY <1>a, <1>0 DEF Worked, Typed, Runs
<1>2. kind \in Kinds /\ continue \in BOOLEAN /\ n \in 1..Len(llmplan.stages)
  <2>1. llmplan.stages \in Seq(Kinds) /\ llmplan.continue \in [DOMAIN llmplan.stages -> BOOLEAN]
    BY <1>1 DEF LlmAssumption
  <2> QED BY <2>1
<1>3. q \in Nat /\ (q # 0 => q \in Runs /\ node[q].status = "succeeded")
  BY <1>1 DEF Sources
<1>4. ASSUME NEW i \in llmplan.items
      PROVE  /\ Right(kind, continue \/ of(i).status = "failed", cs[i])
             /\ of(i).status = "failed" =>
                  cs[i].pc = "done" /\ cs[i].status = "failed" /\ cs[i].ver = of(i).ver
  <2> DEFINE c == of(i)
             lacks == i \in llmplan.lack[n]
             may == continue \/ c.status = "failed"
  <2>1. Given(c)
    <3>1. CASE q = 0
      BY <3>1 DEF Given, Idle
    <3>2. CASE q # 0
      BY <1>3, <3>2, ResultGiven
    <3> QED BY <3>1, <3>2
  <2>2. lacks \in BOOLEAN /\ cs[i] = BeginItem(kind, c, lacks, continue) /\ (continue \/ c.status = "failed" => may)
    OBVIOUS
  <2> HIDE DEF c, lacks, cs, kind, continue, may, of
  <2>3. /\ Right(kind, may, BeginItem(kind, c, lacks, continue))
        /\ c.status = "failed" => /\ BeginItem(kind, c, lacks, continue).pc = "done"
                                  /\ BeginItem(kind, c, lacks, continue).status = "failed"
                                  /\ BeginItem(kind, c, lacks, continue).ver = c.ver
    BY <1>2, <2>1, <2>2, BeginRight
  <2> QED BY <2>2, <2>3 DEF c, may
<1>5. cs \in [llmplan.items -> Coroutine] /\ DOMAIN cs = llmplan.items
  BY <1>4 DEF Right
<1>6. went \in RunRow /\ went.stage = n /\ went.status = Gather(cs) /\ went.source = q
  BY <1>2, <1>3, GatherSays DEF RunRow
<1>7. \A i : of(i) = IF q = 0 THEN Idle ELSE co[q][i]
  OBVIOUS
<1>8. kind = llmplan.stages[n] /\ continue = llmplan.continue[n]
  OBVIOUS
<1> HIDE DEF cs, went, of, kind, continue
<1>9. /\ node' \in Seq(RunRow) /\ Len(node') = l + 1 /\ node'[l + 1] = went
      /\ co' \in Seq([llmplan.items -> Coroutine]) /\ Len(co') = l + 1 /\ co'[l + 1] = cs
      /\ Runs' = 1..(l + 1)
      /\ \A r \in 1..l : node'[r] = node[r] /\ co'[r] = co[r]
  <2>1. /\ node' \in Seq(RunRow) /\ Len(node') = l + 1 /\ node'[l + 1] = went
        /\ \A r \in 1..l : node'[r] = node[r]
    BY <1>a, <1>0, <1>1, <1>6
  <2>2. /\ co' \in Seq([llmplan.items -> Coroutine]) /\ Len(co') = l + 1 /\ co'[l + 1] = cs
        /\ \A r \in 1..l : co'[r] = co[r]
    BY <1>0, <1>1, <1>5
  <2>3. Runs' = 1..(l + 1)
    BY <2>1 DEF Runs
  <2> QED BY <2>1, <2>2, <2>3
<1>10. Typed'
  BY <1>1, <1>9 DEF Typed, RunRow, Coroutine
<1>11. ASSUME NEW r \in 1..l, NEW i PROVE Input(r, i)' = Input(r, i)
  <2>1. node'[r].source = node[r].source
    BY <1>9
  <2>2. node[r].source # 0 => node[r].source \in 1..l
    BY <1>1 DEF Worked, Sourced
  <2>3. node[r].source # 0 => co'[node[r].source] = co[node[r].source]
    BY <1>9, <2>2
  <2> QED BY <2>1, <2>3, InputStays
<1>12. ASSUME NEW i PROVE Input(l + 1, i)' = of(i)
  <2>1. node'[l + 1].source = q /\ (q # 0 => co'[q] = co[q])
    BY <1>1, <1>3, <1>6, <1>9
  <2> QED BY <1>7, <2>1 DEF Input
<1>13. AllRight'
  <2> SUFFICES ASSUME NEW r \in 1..(l + 1), NEW i \in llmplan.items
               PROVE  Right(KindOf(r), MayFail(r, i), co[r][i])'
    BY <1>1, <1>9 DEF AllRight
  <2>1. CASE r = l + 1
    <3>1. /\ KindOf(r)' = kind /\ Continues(r)' = continue /\ co'[r][i] = cs[i]
          /\ Input(r, i)' = of(i)
      BY <1>1, <1>6, <1>8, <1>9, <1>12, <2>1 DEF KindOf, Continues
    <3>2. MayFail(r, i)' <=> continue \/ of(i).status = "failed"
      BY <3>1 DEF MayFail
    <3>3. Right(kind, continue \/ of(i).status = "failed", cs[i])
      BY <1>4
    <3> QED BY <1>1, <3>1, <3>2, <3>3 DEF Right, Coroutine
  <2>2. CASE r \in 1..l
    <3>1. KindOf(r)' = KindOf(r) /\ Continues(r)' = Continues(r) /\ co'[r][i] = co[r][i]
      BY <1>1, <1>9, <2>2 DEF KindOf, Continues
    <3>2. MayFail(r, i)' <=> MayFail(r, i)
      BY <1>11, <2>2, <3>1 DEF MayFail
    <3>3. Right(KindOf(r), MayFail(r, i), co[r][i])
      BY <1>1, <2>2 DEF Worked, AllRight
    <3> QED BY <1>1, <3>1, <3>2, <3>3 DEF Right, Coroutine
  <2> QED BY <2>1, <2>2
<1>14. NodesComplete'
  <2> SUFFICES ASSUME NEW r \in 1..(l + 1), node'[r].status = "succeeded", NEW i \in llmplan.items
               PROVE  co'[r][i].pc = "done"
    BY <1>1, <1>9 DEF NodesComplete
  <2>1. CASE r = l + 1
    BY <1>5, <1>6, <1>9, <2>1, GatherSays
  <2>2. CASE r \in 1..l
    BY <1>1, <1>9, <2>2 DEF Worked, NodesComplete
  <2> QED BY <2>1, <2>2
<1>15. Sourced'
  <2> SUFFICES ASSUME NEW r \in 1..(l + 1), node'[r].source # 0
               PROVE  node'[r].source \in 1..(l + 1) /\ node'[node'[r].source].status = "succeeded"
    BY <1>9 DEF Sourced
  <2>1. CASE r = l + 1
    BY <1>1, <1>3, <1>6, <1>9, <2>1
  <2>2. CASE r \in 1..l
    <3>1. node[r].source \in 1..l /\ node[node[r].source].status = "succeeded"
      BY <1>1, <1>9, <2>2 DEF Worked, Sourced
    <3> QED BY <1>9, <2>2, <3>1
  <2> QED BY <2>1, <2>2
<1>16. FailuresPass'
  <2> SUFFICES ASSUME NEW r \in 1..(l + 1), NEW i \in llmplan.items, Input(r, i)'.status = "failed"
               PROVE  /\ co'[r][i].pc = "done" /\ co'[r][i].status = "failed"
                      /\ co'[r][i].ver = Input(r, i)'.ver
    BY <1>1, <1>9 DEF FailuresPass
  <2>1. CASE r = l + 1
    BY <1>4, <1>9, <1>12, <2>1
  <2>2. CASE r \in 1..l
    <3>1. Input(r, i)' = Input(r, i)
      BY <1>11, <2>2
    <3> QED BY <1>1, <1>9, <2>2, <3>1 DEF Worked, FailuresPass
  <2> QED BY <2>1, <2>2
<1> QED BY <1>10, <1>13, <1>14, <1>15, <1>16 DEF Worked

\* A chat that returns: a run's own coroutine goes on, and only a run that is
\* running ends.
LEMMA RespondWorks ==
  ASSUME LlmAssumption, Worked, NEW r \in 1..MaxRuns, NEW i \in Items, Respond(r, i)
  PROVE  Worked'
<1>1. /\ r \in Runs /\ i \in llmplan.items /\ co[r][i].pc = "chat" /\ llmplan' = llmplan
      /\ llmplan \in LlmPlans
  BY DEF Respond, Worked, Typed
<1>2. PICK a \in Replies :
        /\ co' = [co EXCEPT ![r] = [co[r] EXCEPT ![i] = Resume(KindOf(r), @, a, Continues(r))]]
        /\ node' = [node EXCEPT ![r].status = IF @ = "running"
             THEN Gather([co[r] EXCEPT ![i] = Resume(KindOf(r), @, a, Continues(r))]) ELSE @]
  BY DEF Respond
<1> DEFINE cs == [co[r] EXCEPT ![i] = Resume(KindOf(r), @, a, Continues(r))]
           status == IF node[r].status = "running" THEN Gather(cs) ELSE node[r].status
           went == [node[r] EXCEPT !.status = status]
<1>3. /\ node \in Seq(RunRow) /\ co \in Seq([llmplan.items -> Coroutine])
      /\ DOMAIN node = Runs /\ DOMAIN co = Runs
      /\ node[r] \in RunRow /\ co[r] \in [llmplan.items -> Coroutine]
      /\ KindOf(r) \in Kinds /\ Continues(r) \in BOOLEAN
  BY <1>1, StepsAre DEF Worked, Typed, Runs
<1>4. Right(KindOf(r), MayFail(r, i), Resume(KindOf(r), co[r][i], a, Continues(r)))
  <2>1. Right(KindOf(r), MayFail(r, i), co[r][i])
    BY <1>1 DEF Worked, AllRight
  <2>2. Continues(r) => MayFail(r, i)
    BY DEF MayFail
  <2> QED BY <1>1, <1>3, <2>1, <2>2, ResumeRight
<1>5. /\ cs \in [llmplan.items -> Coroutine] /\ DOMAIN cs = llmplan.items
      /\ \A j \in llmplan.items : Right(KindOf(r), MayFail(r, j), cs[j]) /\ (j # i => cs[j] = co[r][j])
  <2>1. \A j \in llmplan.items : cs[j] = IF j = i THEN Resume(KindOf(r), co[r][i], a, Continues(r)) ELSE co[r][j]
    BY <1>3
  <2>2. DOMAIN cs = llmplan.items
    BY <1>3
  <2>3. cs = [j \in llmplan.items |-> cs[j]]
    BY <1>3
  <2> HIDE DEF cs
  <2>4. \A j \in llmplan.items : Right(KindOf(r), MayFail(r, j), cs[j])
    BY <1>1, <1>4, <2>1 DEF Worked, AllRight
  <2> QED BY <2>1, <2>2, <2>3, <2>4 DEF Right
<1>6. co' = [co EXCEPT ![r] = cs]
  BY <1>2
<1>7. /\ status \in {"running", "succeeded", "failed"}
      /\ status = "succeeded" => node[r].status = "succeeded" \/ \A j \in DOMAIN cs : cs[j].pc = "done"
  BY <1>3, GatherSays DEF RunRow
<1>8. node' = [node EXCEPT ![r] = went]
  BY <1>2
<1>9. went \in RunRow /\ went.stage = node[r].stage /\ went.status = status /\ went.source = node[r].source
  <2> DEFINE e == node[r]
  <2>1. e \in RunRow
    BY <1>3
  <2> HIDE DEF e, status
  <2>2. /\ [e EXCEPT !.status = status] \in RunRow /\ [e EXCEPT !.status = status].stage = e.stage
        /\ [e EXCEPT !.status = status].status = status /\ [e EXCEPT !.status = status].source = e.source
    BY <1>7, <2>1 DEF RunRow
  <2> QED BY <2>2 DEF e
<1>10. node[r].status # "succeeded"
  BY <1>1 DEF Worked, NodesComplete
<1> HIDE DEF cs, went, status
<1>11. /\ node' \in Seq(RunRow) /\ co' \in Seq([llmplan.items -> Coroutine]) /\ Len(co') = Len(node')
       /\ DOMAIN node' = Runs /\ Runs' = Runs
       /\ node'[r] = went /\ co'[r] = cs
       /\ \A q \in Runs \ {r} : node'[q] = node[q] /\ co'[q] = co[q]
  <2>1. /\ node' \in Seq(RunRow) /\ Len(node') = Len(node) /\ DOMAIN node' = Runs /\ node'[r] = went
        /\ \A q \in Runs \ {r} : node'[q] = node[q]
    BY <1>1, <1>3, <1>8, <1>9
  <2>2. /\ co' \in Seq([llmplan.items -> Coroutine]) /\ Len(co') = Len(co) /\ co'[r] = cs
        /\ \A q \in Runs \ {r} : co'[q] = co[q]
    BY <1>1, <1>3, <1>5, <1>6
  <2> QED BY <2>1, <2>2 DEF Runs, Worked, Typed
<1>12. \A q \in Runs : node'[q].stage = node[q].stage /\ node'[q].source = node[q].source
  BY <1>9, <1>11
<1>13. Typed'
  BY <1>1, <1>11 DEF Typed, RunRow, Coroutine
<1>14. ASSUME NEW q \in Runs, NEW j PROVE Input(q, j)' = Input(q, j)
  <2>1. node[q].source # 0 => node[q].source \in Runs \ {r}
    BY <1>10 DEF Worked, Sourced
  <2> QED BY <1>11, <1>12, <2>1, InputStays
<1>15. AllRight'
  <2> SUFFICES ASSUME NEW q \in Runs, NEW j \in llmplan.items
               PROVE  Right(KindOf(q), MayFail(q, j), co[q][j])'
    BY <1>1, <1>11 DEF AllRight
  <2>1. KindOf(q)' = KindOf(q) /\ Continues(q)' = Continues(q)
    BY <1>1, <1>12 DEF KindOf, Continues
  <2>2. MayFail(q, j)' <=> MayFail(q, j)
    BY <1>14, <2>1 DEF MayFail
  <2>3. Right(KindOf(q), MayFail(q, j), co'[q][j])
    BY <1>5, <1>11 DEF Worked, AllRight
  <2> QED BY <1>1, <2>1, <2>2, <2>3 DEF Right, Coroutine
<1>16. NodesComplete'
  <2> SUFFICES ASSUME NEW q \in Runs, node'[q].status = "succeeded", NEW j \in llmplan.items
               PROVE  co'[q][j].pc = "done"
    BY <1>1, <1>11 DEF NodesComplete
  <2>1. CASE q = r
    BY <1>5, <1>7, <1>9, <1>10, <1>11, <2>1
  <2>2. CASE q # r
    BY <1>11, <2>2 DEF Worked, NodesComplete
  <2> QED BY <2>1, <2>2
<1>17. Sourced'
  <2> SUFFICES ASSUME NEW q \in Runs, node[q].source # 0
               PROVE  node[q].source \in Runs /\ node'[node[q].source].status = "succeeded"
    BY <1>11, <1>12 DEF Sourced
  <2>1. node[q].source \in Runs \ {r} /\ node[node[q].source].status = "succeeded"
    BY <1>10 DEF Worked, Sourced
  <2> QED BY <1>11, <2>1
<1>18. FailuresPass'
  <2> SUFFICES ASSUME NEW q \in Runs, NEW j \in llmplan.items, Input(q, j).status = "failed"
               PROVE  /\ co'[q][j].pc = "done" /\ co'[q][j].status = "failed"
                      /\ co'[q][j].ver = Input(q, j).ver
    BY <1>1, <1>11, <1>14 DEF FailuresPass
  <2>1. co[q][j].pc = "done" /\ co[q][j].status = "failed" /\ co[q][j].ver = Input(q, j).ver
    BY DEF Worked, FailuresPass
  <2>2. co'[q][j] = co[q][j]
    <3>1. CASE q = r
      BY <1>1, <1>5, <1>11, <2>1, <3>1
    <3>2. CASE q # r
      BY <1>11, <3>2
    <3> QED BY <3>1, <3>2
  <2> QED BY <2>1, <2>2
<1> QED BY <1>13, <1>15, <1>16, <1>17, <1>18 DEF Worked

LEMMA WorksStays ==
  ASSUME LlmAssumption, Worked, [LlmNext]_llmvars
  PROVE  Worked'
<1>1. CASE LlmNext
  BY <1>1, StartWorks, RespondWorks DEF LlmNext, Start, Rerun
<1>2. CASE UNCHANGED llmvars
  <2>1. llmplan' = llmplan /\ node' = node /\ co' = co
    BY <1>2 DEF llmvars
  <2>2. Runs' = Runs /\ \A r, i : KindOf(r)' = KindOf(r) /\ Continues(r)' = Continues(r) /\ Input(r, i)' = Input(r, i)
    BY <2>1 DEF Runs, KindOf, Continues, Input
  <2>3. Typed'
    BY <2>1 DEF Worked, Typed, Coroutine, RunRow
  <2>4. NodesComplete' /\ Sourced'
    BY <2>1, <2>2 DEF Worked, NodesComplete, Sourced
  <2>5. FailuresPass'
    BY <2>1, <2>2 DEF Worked, FailuresPass
  <2>6. AllRight'
    BY <2>1, <2>2 DEF Worked, AllRight, MayFail, Right, Coroutine
  <2> QED BY <2>3, <2>4, <2>5, <2>6 DEF Worked
<1> QED BY <1>1, <1>2

----------------------------------------------------------------------------
(* What follows from it.                                                       *)

\* No answer is asked for more often than MaxAttempts, no segment reviewed in more
\* than MaxRounds + 1 rounds.
THEOREM CountsStayInBounds ==
  ASSUME LlmAssumption
  PROVE  LlmSpec => []LlmTypeOK
<1>1. LlmInit => Worked
  BY InitWorks
<1>2. Worked /\ [LlmNext]_llmvars => Worked'
  BY WorksStays
<1>3. Worked => LlmTypeOK
  <2> SUFFICES ASSUME Worked PROVE LlmTypeOK
    OBVIOUS
  <2>1. DOMAIN co = Runs
    BY DEF Worked, Typed, Runs
  <2>2. ASSUME NEW r \in Runs, NEW i \in llmplan.items PROVE co[r][i] \in Coroutine
    BY DEF Worked, AllRight, Right
  <2>3. \A r \in Runs : node[r] \in RunRow
    BY StepsAre DEF Worked
  <2> QED BY <2>1, <2>2, <2>3 DEF LlmTypeOK, Coroutine, RunRow
<1> QED BY <1>1, <1>2, <1>3, PTL DEF LlmSpec

\* A text that comes out of the review carries the review of the very text it
\* carries, and passed it or used up its rounds.
THEOREM ReviewAlwaysFits ==
  ASSUME LlmAssumption
  PROVE  LlmSpec => []ReviewFits
<1>1. LlmInit => Worked
  BY InitWorks
<1>2. Worked /\ [LlmNext]_llmvars => Worked'
  BY WorksStays
<1>3. Worked => ReviewFits
  BY DEF Worked, AllRight, ReviewFits, Right
<1> QED BY <1>1, <1>2, <1>3, PTL DEF LlmSpec

\* A node that succeeded has every item's result, none of its calls goes on, and
\* where items may not fail none has that had not before; and what failed at one
\* node comes out of the nodes that follow as it went in: with any node run again
\* at any time, beside what still runs.
THEOREM ResultsAlwaysComplete ==
  ASSUME LlmAssumption
  PROVE  LlmSpec => []ResultsComplete
<1>1. LlmInit => Worked
  BY InitWorks
<1>2. Worked /\ [LlmNext]_llmvars => Worked'
  BY WorksStays
<1>3. Worked => AllComplete
  <2> SUFFICES ASSUME Worked, NEW r \in Runs, node[r].status = "succeeded", NEW i \in llmplan.items
               PROVE  co[r][i].pc = "done" /\ (~Continues(r) /\ Input(r, i).status = "ok" => co[r][i].status = "ok")
    BY DEF AllComplete
  <2>1. co[r][i].pc = "done" /\ Right(KindOf(r), MayFail(r, i), co[r][i])
    BY DEF Worked, AllRight, NodesComplete
  <2> QED BY <2>1 DEF Right, MayFail, Coroutine
<1>4. Worked => FailuresPass
  BY DEF Worked
<1> QED BY <1>1, <1>2, <1>3, <1>4, PTL DEF LlmSpec, ResultsComplete

----------------------------------------------------------------------------
(* Matching: the oldest and the newest of some assets.                         *)

LEMMA Greatest ==
  ASSUME NEW n \in Nat, NEW S \in SUBSET (1..n), S # {}
  PROVE  \E i \in S : \A j \in S : i >= j
<1> DEFINE F == {i..n : i \in S}
<1>1. F \subseteq FiniteSubsetsOf(1..n) /\ F # {}
  <2>1. \A i \in S : i \in Int /\ n \in Int /\ i..n \in SUBSET (1..n)
    OBVIOUS
  <2> QED BY <2>1, FS_Interval DEF FiniteSubsetsOf
<1>2. PICK x \in F : \A y \in F : <<y, x>> \notin StrictSubsetOrdering(1..n)
  BY <1>1, FS_StrictSubsetOrderingWellFounded, WFMin
<1>3. PICK i \in S : x = i..n
  OBVIOUS
<1>4. ASSUME NEW j \in S, ~(i >= j) PROVE FALSE
  <2>1. j..n \in SUBSET (i..n) /\ i \in i..n /\ i \notin j..n
    BY <1>4
  <2>2. (i..n) \in SUBSET (1..n) /\ (j..n) \in SUBSET (1..n)
    OBVIOUS
  <2>3. <<j..n, i..n>> \in StrictSubsetOrdering(1..n)
    BY <2>1, <2>2 DEF StrictSubsetOrdering
  <2> QED BY <1>2, <1>3, <2>3
<1> QED BY <1>4

LEMMA Least ==
  ASSUME NEW n \in Nat, NEW S \in SUBSET (1..n), S # {}
  PROVE  \E i \in S : \A j \in S : i <= j
<1> DEFINE M == {n + 1 - i : i \in S}
<1>1. M \in SUBSET (1..n) /\ M # {}
  <2>1. \A i \in S : i \in Int /\ n + 1 - i \in 1..n
    OBVIOUS
  <2>2. PICK i \in S : TRUE
    OBVIOUS
  <2>3. n + 1 - i \in M
    OBVIOUS
  <2>4. \A m \in M : m \in 1..n
    BY <2>1
  <2> QED BY <2>3, <2>4
<1> HIDE DEF M
<1>2. PICK m \in M : \A k \in M : m >= k
  BY <1>1, Greatest
<1>3. PICK i \in S : m = n + 1 - i
  BY DEF M
<1>4. ASSUME NEW j \in S PROVE i <= j
  <2>1. n + 1 - j \in M
    BY DEF M
  <2>2. n + 1 - i >= n + 1 - j
    BY <1>2, <1>3, <2>1
  <2> QED BY <2>2
<1> QED BY <1>4

LEMMA Extremes ==
  ASSUME NEW n \in Nat, NEW S \in SUBSET (1..n), S # {}
  PROVE  /\ Min(S) \in S /\ \A j \in S : Min(S) <= j
         /\ Max(S) \in S /\ \A j \in S : Max(S) >= j
BY Least, Greatest DEF Min, Max

LEMMA OneMore ==
  ASSUME NEW few, NEW m, NEW more \in SUBSET (few \cup {m}), NEW most \in Nat,
         IsFiniteSet(few), Cardinality(few) < most
  PROVE  Cardinality(more) <= most
<1> DEFINE bound == few \cup {m}
<1>1. IsFiniteSet(bound) /\ (Cardinality(bound) = Cardinality(few) \/ Cardinality(bound) = Cardinality(few) + 1)
  BY FS_AddElement
<1>2. Cardinality(few) \in Nat
  BY FS_CardinalityType
<1> HIDE DEF bound
<1>3. Cardinality(more) <= Cardinality(bound) /\ Cardinality(more) \in Nat
  BY <1>1, FS_Subset, FS_CardinalityType DEF bound
<1> QED BY <1>1, <1>2, <1>3

\* No more assets have fewer than Limit older ones.
LEMMA SearchedFew ==
  ASSUME Limit \in Nat, NEW n \in Nat, Ids = 1..n, NEW tag
  PROVE  Searched(tag) \subseteq Ids /\ Cardinality(Searched(tag)) <= Limit
<1> DEFINE S == Tagged(tag)
           Older(a) == {b \in S : b < a}
           X == Searched(tag)
<1>1. S \in SUBSET (1..n) /\ IsFiniteSet(S) /\ X \in SUBSET S
  BY FS_Interval, FS_Subset DEF Tagged, Searched
<1>2. CASE X = {}
  BY <1>1, <1>2, FS_EmptySet
<1>3. CASE X # {}
  <2>1. PICK m \in X : \A j \in X : m >= j
    <3>1. X \in SUBSET (1..n)
      BY <1>1
    <3> HIDE DEF X, S
    <3> QED BY <1>3, <3>1, Greatest
  <2>2. Cardinality(Older(m)) < Limit
    BY DEF Searched
  <2>3. Older(m) \in SUBSET S
    OBVIOUS
  <2>4. X \subseteq Older(m) \cup {m}
    BY <1>1, <2>1
  <2> HIDE DEF Older, S, X
  <2>5. IsFiniteSet(Older(m))
    BY <1>1, <2>3, FS_Subset
  <2>6. Cardinality(X) <= Limit
    BY <2>2, <2>4, <2>5, OneMore
  <2> QED BY <1>1, <2>6 DEF X, S, Tagged
<1> QED BY <1>1, <1>2, <1>3

----------------------------------------------------------------------------
(* Matching: the inductive invariant.                                          *)

MatchTypes ==
  /\ \E n \in Nat : Ids = 1..n
  /\ \E n \in Nat : ItemIds = 1..n
  /\ found \in [Lookups -> SUBSET Ids] /\ records \in [Lookups -> SUBSET Ids]
\* A lookup reads what it found, and the first puts all of it out.
LooksUp ==
  /\ \A k \in Lookups : Cardinality(found[k]) <= Limit /\ records[k] \subseteq found[k]
  /\ todo \subseteq Ids
  /\ \A k \in Lookups : step = k => todo \subseteq found[k]
  /\ step # "failed" =>
       found["existing"] \subseteq records["existing"] \cup (IF step = "existing" THEN todo ELSE {})
\* What comes after the merge is as the merge has left it.
Merged ==
  /\ step \in {"review", "filter", "done"} => \A i \in ItemIds : merged[i] = AssetOf(i)
  /\ approved \subseteq ItemIds
  /\ kept \subseteq {i \in ItemIds : merged[i] = Absent} /\ (step # "done" => kept = {})
Matching == MatchTypes /\ LooksUp /\ Merged /\ MatchingTypeOK

LEMMA KnownKept ==
  ASSUME Matching
  PROVE  \E n \in Nat : Ids = 1..n /\ KnownAssets \in SUBSET (1..n) /\ records["by_name"] \subseteq KnownAssets
BY DEF Matching, MatchTypes, KnownAssets, Lookups

\* The first of some assets is one of them.
LEMMA FirstIn ==
  ASSUME Matching, NEW S \in SUBSET KnownAssets
  PROVE  IF S = {} THEN First(S) = Absent ELSE First(S) \in S
<1>1. PICK n \in Nat : Ids = 1..n /\ KnownAssets \in SUBSET (1..n)
  BY KnownKept
<1> DEFINE early == S \cap records["by_name"]
<1>2. CASE early # {}
  <2>1. early \in SUBSET (1..n)
    BY <1>1
  <2> HIDE DEF early
  <2>2. Min(early) \in early
    BY <1>2, <2>1, Extremes
  <2>3. First(S) = Min(early) /\ early \subseteq S
    BY <1>2 DEF First, early
  <2> QED BY <1>2, <2>2, <2>3
<1>3. CASE early = {} /\ S # {}
  <2>1. Min(S) \in S
    BY <1>1, <1>3, Extremes
  <2>2. First(S) = Min(S)
    BY <1>3 DEF First
  <2> QED BY <1>3, <2>1, <2>2
<1>4. CASE S = {}
  BY <1>4 DEF First
<1> QED BY <1>2, <1>3, <1>4

LEMMA MatchesBest ==
  ASSUME Matching
  PROVE  BestMatch
<1> SUFFICES ASSUME step \in {"review", "filter", "done"}, NEW i \in ItemIds
             PROVE  /\ Fitting(i) # {} => merged[i] \in Fitting(i)
                    /\ merged[i] \notin Fitting(i) \cup Named(i) => Named(i) = {} /\ merged[i] = semantic[i]
                    /\ i \in kept => Fitting(i) \cup Named(i) = {} /\ semantic[i] = Absent
  BY DEF BestMatch
<1> DEFINE item == ItemOf(i)
           written == {a \in records["by_name"] : library[a].label = item.name}
           meant == {a \in records["by_name"] : Who(a).name = item.name}
           fitting == {a \in OfTypedName(item) : item.tags \subseteq Who(a).tags}
           best == Else(First(fitting), Else(FindByName(item), semantic[i]))
<1>1. merged[i] = best
  BY DEF Matching, Merged, AssetOf, FindByTags
<1>2. PICK n \in Nat : Ids = 1..n /\ KnownAssets \in SUBSET (1..n) /\ records["by_name"] \subseteq KnownAssets
  BY KnownKept
<1>3. \A a \in KnownAssets : a # Absent
  BY <1>2, MatchingAssumption
<1>4. KnownAssets = found["existing"] \cup records["by_name"]
  <2>1. found["existing"] = records["existing"]
    BY DEF Matching, LooksUp, Lookups
  <2> QED BY <2>1 DEF KnownAssets
<1>5. Fitting(i) = fitting /\ Named(i) = written \cup meant
  BY <1>4 DEF Fitting, Named, OfTypedName
<1>6. FindByName(item) = IF written # {} THEN Max(written) ELSE First(meant)
  BY DEF FindByName
<1>7. /\ fitting \subseteq KnownAssets /\ written \in SUBSET (1..n) /\ written \subseteq KnownAssets
      /\ meant \in SUBSET KnownAssets
  BY <1>2 DEF OfTypedName
<1>8. i \in kept => merged[i] = Absent
  BY DEF Matching, Merged
<1> HIDE DEF item, fitting, written, meant
<1>9. IF fitting = {} THEN First(fitting) = Absent ELSE First(fitting) \in fitting /\ First(fitting) # Absent
  BY <1>3, <1>7, FirstIn
<1>10. IF written \cup meant = {} THEN FindByName(item) = Absent
       ELSE FindByName(item) \in written \cup meant /\ FindByName(item) # Absent
  <2>1. written # {} => Max(written) \in written
    BY <1>7, Extremes
  <2>2. IF meant = {} THEN First(meant) = Absent ELSE First(meant) \in meant
    BY <1>7, FirstIn
  <2> QED BY <1>3, <1>6, <1>7, <2>1, <2>2
<1> QED BY <1>1, <1>5, <1>8, <1>9, <1>10 DEF Else

----------------------------------------------------------------------------
(* Matching: the invariant holds at the start, and each step keeps it.        *)

LEMMA MatchingStarts ==
  ASSUME MatchingInit
  PROVE  Matching
<1>1. items \in Seq(Range(items)) /\ library \in Seq(Range(library))
  BY MatchingAssumption DEF MatchingInit
<1>2. MatchTypes
  <2>1. Len(library) \in Nat /\ Ids = 1..Len(library)
    BY <1>1 DEF Ids
  <2>2. Len(items) \in Nat /\ ItemIds = 1..Len(items)
    BY <1>1 DEF ItemIds
  <2>3. found \in [Lookups -> SUBSET Ids] /\ records \in [Lookups -> SUBSET Ids]
    BY DEF MatchingInit, NothingYet
  <2> QED BY <2>1, <2>2, <2>3 DEF MatchTypes
<1>3. LooksUp
  <2>1. \A k \in Lookups : found[k] = {} /\ records[k] = {}
    BY DEF MatchingInit, NothingYet
  <2> QED BY <2>1, FS_EmptySet, MatchingAssumption DEF LooksUp, MatchingInit, NothingYet, Lookups
<1>4. Merged
  BY DEF Merged, MatchingInit, NothingYet
<1>5. MatchingTypeOK
  BY <1>2, <1>3 DEF MatchingTypeOK, MatchTypes, LooksUp, MatchingInit, NothingYet, Lookups
<1> QED BY <1>2, <1>3, <1>4, <1>5 DEF Matching

\* What a lookup does leaves alone what comes after it.
LEMMA LookingUp ==
  ASSUME Matching, step \in Lookups, step' \in Lookups \cup {"semantic", "failed"},
         items' = items, approved' = approved, kept' = kept, Ids' = Ids,
         found' \in [Lookups -> SUBSET Ids], records' \in [Lookups -> SUBSET Ids], LooksUp'
  PROVE  Matching'
<1>1. MatchTypes'
  BY DEF Matching, MatchTypes, ItemIds
<1>2. kept = {} /\ approved \subseteq ItemIds /\ ItemIds' = ItemIds
  BY DEF Matching, Merged, Lookups, ItemIds
<1>3. Merged'
  BY <1>2 DEF Merged, Lookups
<1>4. MatchingTypeOK'
  BY <1>1, <1>2 DEF MatchingTypeOK, MatchTypes, LooksUp
<1> QED BY <1>1, <1>3, <1>4 DEF Matching

LEMMA SearchMatches ==
  ASSUME Matching, NEW k \in Lookups, Search(k)
  PROVE  Matching'
<1> DEFINE got == Searched(TypeTags["character"])
<1>1. got \subseteq Ids /\ Cardinality(got) <= Limit
  <2>1. PICK n \in Nat : Ids = 1..n
    BY DEF Matching, MatchTypes
  <2> QED BY <2>1, SearchedFew, MatchingAssumption
<1>2. /\ step = k /\ found' = [found EXCEPT ![k] = got] /\ todo' = got
      /\ step' = IF got = {} THEN After(k) ELSE k
      /\ UNCHANGED <<items, library, records, semantic, merged, approved, kept>>
  BY DEF Search
<1> HIDE DEF got
<1>3. found \in [Lookups -> SUBSET Ids] /\ records \in [Lookups -> SUBSET Ids]
  BY DEF Matching, MatchTypes
<1>4. found' \in [Lookups -> SUBSET Ids] /\ Ids' = Ids
  BY <1>1, <1>2, <1>3 DEF Ids
<1>5. LooksUp'
  <2>1. \A l \in Lookups : Cardinality(found'[l]) <= Limit /\ records'[l] \subseteq found'[l]
    <3> SUFFICES ASSUME NEW l \in Lookups
                 PROVE  Cardinality(found'[l]) <= Limit /\ records'[l] \subseteq found'[l]
      OBVIOUS
    <3>1. found[k] = {} /\ records[k] \subseteq found[k] /\ records[l] \subseteq found[l]
          /\ Cardinality(found[l]) <= Limit
      BY DEF Search, Matching, LooksUp
    <3>2. found'[l] = IF l = k THEN got ELSE found[l]
      BY <1>2, <1>3
    <3> QED BY <1>1, <1>2, <3>1, <3>2
  <2>2. \A l \in Lookups : step' = l => todo' \subseteq found'[l]
    BY <1>2, <1>3
  <2>3. found'["existing"] \subseteq records'["existing"] \cup (IF step' = "existing" THEN todo' ELSE {})
    <3>1. CASE k = "existing"
      BY <1>2, <1>3, <3>1 DEF After, Lookups
    <3>2. CASE k = "by_name"
      <4>1. found["existing"] \subseteq records["existing"]
        BY <1>2, <3>2 DEF Matching, LooksUp
      <4> QED BY <1>2, <1>3, <3>2, <4>1
    <3> QED BY <3>1, <3>2 DEF Lookups
  <2> QED BY <1>1, <1>2, <1>4, <2>1, <2>2, <2>3 DEF LooksUp
<1>6. step' \in Lookups \cup {"semantic"}
  BY <1>2 DEF After, Lookups
<1> QED BY <1>2, <1>3, <1>4, <1>5, <1>6, LookingUp

LEMMA ReadTagsMatches ==
  ASSUME Matching, NEW k \in Lookups, ReadTags(k)
  PROVE  Matching'
<1> DEFINE a == Min(todo)
<1>1. a \in todo
  <2>1. PICK n \in Nat : Ids = 1..n
    BY DEF Matching, MatchTypes
  <2>2. todo \in SUBSET (1..n) /\ todo # {}
    BY <2>1 DEF Matching, LooksUp, ReadTags
  <2> QED BY <2>2, Extremes
<1>2. step = k /\ todo \subseteq found[k] /\ todo \subseteq Ids
  BY DEF ReadTags, Matching, LooksUp
<1>3. found \in [Lookups -> SUBSET Ids] /\ records \in [Lookups -> SUBSET Ids]
  BY DEF Matching, MatchTypes
<1>4. /\ UNCHANGED <<items, library, found, semantic, merged, approved, kept>>
      /\ todo' = todo \ {a}
      /\ \/ step' = "failed" /\ records' = records
         \/ /\ records' = [records EXCEPT ![k] = @ \cup {a}] \/ records' = records
            /\ k = "existing" => records' = [records EXCEPT ![k] = @ \cup {a}]
            /\ step' = IF todo = {a} THEN After(k) ELSE k
  <2>1. \A b : [records EXCEPT ![k] = IF b THEN @ \cup {a} ELSE @]
                 \in {[records EXCEPT ![k] = @ \cup {a}], records}
    BY <1>3
  <2> QED BY <1>3, <2>1 DEF ReadTags
<1> HIDE DEF a
<1>5. Ids' = Ids /\ found' \in [Lookups -> SUBSET Ids] /\ records' \in [Lookups -> SUBSET Ids]
  BY <1>1, <1>2, <1>3, <1>4 DEF Ids
<1>6. \A l \in Lookups : records'[l] \subseteq found'[l]
  <2>1. \A l \in Lookups : records[l] \subseteq found[l]
    BY DEF Matching, LooksUp
  <2>2. \A l \in Lookups : records'[l] \subseteq records[l] \cup (IF l = k THEN {a} ELSE {})
    BY <1>3, <1>4
  <2> QED BY <1>1, <1>2, <1>4, <2>1, <2>2
<1>7. \A l \in Lookups : step' = l => todo' \subseteq found'[l]
  BY <1>1, <1>2, <1>4 DEF After, Lookups
<1>8. LooksUp'
  <2>1. step' # "failed" =>
          found'["existing"] \subseteq records'["existing"] \cup (IF step' = "existing" THEN todo' ELSE {})
    <3> SUFFICES ASSUME step' # "failed"
                 PROVE  found'["existing"] \subseteq records'["existing"] \cup (IF step' = "existing" THEN todo' ELSE {})
      OBVIOUS
    <3>1. found["existing"] \subseteq records["existing"] \cup (IF step = "existing" THEN todo ELSE {})
      BY <1>2 DEF Matching, LooksUp, Lookups
    <3>2. CASE k = "existing"
      BY <1>1, <1>2, <1>3, <1>4, <3>1, <3>2 DEF After, Lookups
    <3>3. CASE k = "by_name"
      BY <1>2, <1>3, <1>4, <3>1, <3>3 DEF Lookups
    <3> QED BY <3>2, <3>3 DEF Lookups
  <2> QED BY <1>2, <1>4, <1>5, <1>6, <1>7, <2>1 DEF LooksUp, Matching
<1>9. step' \in Lookups \cup {"semantic", "failed"}
  BY <1>4 DEF After, Lookups
<1> QED BY <1>2, <1>4, <1>5, <1>8, <1>9, LookingUp

LEMMA DeleteMatches ==
  ASSUME Matching, NEW a \in Ids, DeleteAsset(a)
  PROVE  Matching'
<1>1. Ids' = Ids
  BY DEF DeleteAsset, Ids
<1>2. LooksUp'
  BY <1>1 DEF DeleteAsset, Matching, LooksUp
<1> QED BY <1>1, <1>2, LookingUp DEF DeleteAsset, Matching, MatchTypes

LEMMA SemanticMatches ==
  ASSUME Matching, SemanticMatch
  PROVE  Matching'
<1>1. /\ step = "semantic" /\ step' = "enrich"
      /\ UNCHANGED <<items, library, found, todo, records, merged, approved, kept>>
  BY DEF SemanticMatch
<1>2. MatchTypes' /\ LooksUp'
  BY <1>1 DEF Matching, MatchTypes, LooksUp, Ids, ItemIds, Lookups
<1>3. Merged'
  BY <1>1 DEF Matching, Merged, ItemIds
<1>4. MatchingTypeOK'
  BY <1>1 DEF Matching, MatchingTypeOK, Ids, ItemIds
<1> QED BY <1>2, <1>3, <1>4 DEF Matching

\* The merge reads nothing that it writes.
LEMMA SameAsset ==
  ASSUME UNCHANGED <<items, library, records, semantic>>, NEW i \in ItemIds
  PROVE  AssetOf(i)' = AssetOf(i)
<1>1. \A a : Who(a)' = Who(a)
  BY DEF Who, Record
<1>2. KnownAssets' = KnownAssets
  BY DEF KnownAssets
<1>3. \A S : First(S)' = First(S)
  BY DEF First
<1>4. InferType' = InferType
  BY <1>1, <1>2, <1>3 DEF InferType
<1>5. ItemOf(i)' = ItemOf(i)
  BY <1>4 DEF ItemOf
<1>6. \A item : OfTypedName(item)' = OfTypedName(item)
  BY <1>1, <1>2 DEF OfTypedName
<1>7. \A item : FindByTags(item)' = FindByTags(item)
  BY <1>1, <1>3, <1>6 DEF FindByTags
<1>8. \A item : FindByName(item)' = FindByName(item)
  BY <1>1, <1>3 DEF FindByName
<1> QED BY <1>5, <1>7, <1>8 DEF AssetOf

LEMMA EnrichMatches ==
  ASSUME Matching, Enrich
  PROVE  Matching'
<1>1. /\ step = "enrich" /\ step' = "review"
      /\ UNCHANGED <<items, library, found, todo, records, semantic, approved, kept>>
  BY DEF Enrich
<1>2. MatchTypes' /\ LooksUp'
  BY <1>1 DEF Matching, MatchTypes, LooksUp, Ids, ItemIds, Lookups
<1>3. Merged'
  <2>1. ASSUME NEW i \in ItemIds PROVE merged'[i] = AssetOf(i)'
    <3>1. merged'[i] = AssetOf(i)
      BY DEF Enrich
    <3> QED BY <1>1, <3>1, SameAsset
  <2>2. ItemIds' = ItemIds /\ kept' = {} /\ approved' \subseteq ItemIds
    BY <1>1 DEF Matching, Merged, ItemIds
  <2> QED BY <1>1, <2>1, <2>2 DEF Merged
<1>4. MatchingTypeOK'
  BY <1>1 DEF Matching, MatchingTypeOK, Ids, ItemIds
<1> QED BY <1>2, <1>3, <1>4 DEF Matching

\* The review and the filter keep what the merge has written.
LEMMA FilterMatches ==
  ASSUME Matching, Review \/ Filter
  PROVE  Matching'
<1>1. /\ step \in {"review", "filter"} /\ step' \in {"filter", "done"}
      /\ approved' \subseteq ItemIds
      /\ kept' = {} \/ (step' = "done" /\ kept' \subseteq {i \in ItemIds : merged[i] = Absent})
      /\ UNCHANGED <<items, library, found, todo, records, semantic, merged>>
  BY DEF Review, Filter, IsExisting, Matching, Merged
<1>2. MatchTypes' /\ LooksUp' /\ ItemIds' = ItemIds
  BY <1>1 DEF Matching, MatchTypes, LooksUp, Ids, ItemIds, Lookups
<1>3. Merged'
  <2>1. \A i \in ItemIds : merged'[i] = AssetOf(i)'
    <3>1. \A i \in ItemIds : merged[i] = AssetOf(i)
      BY <1>1 DEF Matching, Merged
    <3> QED BY <1>1, <3>1, SameAsset
  <2> QED BY <1>1, <1>2, <2>1 DEF Merged
<1>4. MatchingTypeOK'
  BY <1>1, <1>2 DEF Matching, MatchingTypeOK, Ids
<1> QED BY <1>2, <1>3, <1>4 DEF Matching

LEMMA MatchingStays == Matching /\ [MatchingNext]_matchingVars => Matching'
<1> SUFFICES ASSUME Matching, [MatchingNext]_matchingVars PROVE Matching'
  OBVIOUS
<1>1. CASE \E k \in Lookups : Search(k) \/ ReadTags(k)
  BY <1>1, SearchMatches, ReadTagsMatches
<1>2. CASE SemanticMatch
  BY <1>2, SemanticMatches
<1>3. CASE Enrich
  BY <1>3, EnrichMatches
<1>4. CASE Review \/ Filter
  BY <1>4, FilterMatches
<1>5. CASE \E a \in Ids : DeleteAsset(a)
  BY <1>5, DeleteMatches
<1>6. CASE UNCHANGED matchingVars
  <2>1. UNCHANGED <<items, library, step, found, todo, records, semantic, merged, approved, kept>>
    BY <1>6 DEF matchingVars
  <2>2. MatchTypes' /\ LooksUp'
    BY <2>1 DEF Matching, MatchTypes, LooksUp, Ids, ItemIds, Lookups
  <2>3. \A i \in ItemIds : AssetOf(i)' = AssetOf(i)
    BY <2>1, SameAsset
  <2>4. Merged'
    BY <2>1, <2>3 DEF Matching, Merged, ItemIds
  <2>5. MatchingTypeOK'
    BY <2>1 DEF Matching, MatchingTypeOK, Ids, ItemIds
  <2> QED BY <2>2, <2>4, <2>5 DEF Matching
<1> QED BY <1>1, <1>2, <1>3, <1>4, <1>5, <1>6 DEF MatchingNext

LEMMA AlwaysMatching == MatchingSpec => []Matching
<1>1. MatchingInit => Matching
  BY MatchingStarts
<1> QED BY <1>1, MatchingStays, PTL DEF MatchingSpec

\* Whatever the script, the library, the answers of the model and what the user takes off
\* the list: an item is matched to an asset that has all its tags when the searches found one
\* of its type and name, and it is drawn only when they found none, none under its name,
\* and the language model knew none.
THEOREM AlwaysBestMatch == MatchingSpec => []BestMatch
<1>1. Matching => BestMatch
  BY MatchesBest
<1> QED BY <1>1, AlwaysMatching, PTL

\* Timers, attempts of one answer, rounds of one review and the output of a
\* lookup stay in their bounds.
ModelsTypeOK == JobsTypeOK /\ LlmTypeOK /\ MatchingTypeOK

\* The bounds of the three kinds of nodes, whichever of them run beside each other:
\* the timers of the pollers, the retries and review rounds, the search's limit.
THEOREM ModelsTypeCorrect ==
  ASSUME LlmAssumption, None \notin Words
  PROVE  Spec /\ LlmSpec /\ MatchingSpec => []ModelsTypeOK
<1>1. Spec => []JobsTypeOK
  <2>1. Init => Sound
    BY SoundInit
  <2>2. Sound /\ [Next]_vars => Sound'
    BY SoundNext
  <2>3. Sound => JobsTypeOK
    BY SoundTypes
  <2> QED BY <2>1, <2>2, <2>3, PTL DEF Spec
<1>2. LlmSpec => []LlmTypeOK
  BY CountsStayInBounds
<1>3. Matching => MatchingTypeOK
  BY DEF Matching
<1>4. JobsTypeOK /\ LlmTypeOK /\ MatchingTypeOK => ModelsTypeOK
  BY DEF ModelsTypeOK
<1> QED BY <1>1, <1>2, <1>3, <1>4, AlwaysMatching, PTL
=============================================================================
