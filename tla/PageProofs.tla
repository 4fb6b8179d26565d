------------------------------ MODULE PageProofs ------------------------------
(* A stream that is opened once skips nothing, whatever the number of writers *)
(* and in whatever order their times and commits come.  The page shows what   *)
(* it has received, for any number of writers, events and lost connections,   *)
(* as long as it makes no drafts.                                             *)
EXTENDS TaskPage, TLAPS

----------------------------------------------------------------------------
(* The stream.                                                                *)

\* What the argument rests on besides the types: a page that does not open the
\* stream again begins with nothing received and nothing under way.
OpenedOnce ==
    /\ from = 0 => got = {} /\ last = 0 /\ wire = <<>>
    /\ at = "open" => from = 0
    /\ at \in {"list", "send"} => from # 0

StreamInv == StreamTypeOK /\ OpenedOnce /\ NothingSkipped

LEMMA StreamInitInv == Init => StreamInv
BY DEF Init, StreamInit, StreamInv, StreamTypeOK, OpenedOnce, NothingSkipped, OnWire

\* A page that opens its stream once does so before it has begun.
LEMMA ConnectInv ==
    ASSUME StreamInv, ~Reconnects, Connect, UNCHANGED <<log, life, clock, stamp, breaks>>
    PROVE  StreamInv'
BY DEF StreamInv, StreamTypeOK, OpenedOnce, NothingSkipped, OnWire, Connect

\* The first cursor: nothing lies behind it yet.
LEMMA BeginInv ==
    ASSUME StreamInv, Begin, UNCHANGED <<log, life, clock, stamp, breaks>>
    PROVE  StreamInv'
<1>1. StreamTypeOK'
  BY DEF StreamInv, StreamTypeOK, OnWire, OpenedOnce, Begin
<1>2. from' \in {0, Len(log)} /\ (from' = 0 => from = 0) /\ (at' = "list" => from' = Len(log))
  BY DEF StreamInv, StreamTypeOK, OnWire, OpenedOnce, Begin
<1>3. OpenedOnce'
  BY <1>2 DEF StreamInv, StreamTypeOK, OpenedOnce, Begin
<1>4. NothingSkipped'
  BY <1>2 DEF StreamInv, StreamTypeOK, NothingSkipped, OnWire, Begin
<1> QED
  BY <1>1, <1>3, <1>4 DEF StreamInv

\* Whatever is neither received nor under way lies behind the cursor: it is
\* listed.
LEMMA ListInv ==
    ASSUME StreamInv, ListEvents, UNCHANGED <<log, life, clock, stamp, breaks>>
    PROVE  StreamInv'
<1>1. StreamTypeOK' /\ OpenedOnce'
  BY DEF StreamInv, StreamTypeOK, OpenedOnce, ListEvents, Behind, OnWire
<1>2. NothingSkipped'
  BY DEF StreamInv, StreamTypeOK, NothingSkipped, ListEvents, Behind, OnWire
<1> QED
  BY <1>1, <1>2 DEF StreamInv

\* The event that is sent was listed, so what was behind all that was listed is
\* behind the new cursor, which may be lower than the one before.
LEMMA SendInv ==
    ASSUME StreamInv, SendEvent, UNCHANGED <<log, life, clock, stamp, breaks>>
    PROVE  StreamInv'
<1>1. PICK i \in todo : wire' = Append(wire, i) /\ cursor' = i /\ todo' = todo \ {i}
  BY DEF SendEvent
<1>2. i \in DOMAIN log /\ i \in Nat /\ wire \in Seq(Nat)
  BY <1>1 DEF StreamInv, StreamTypeOK
<1>3. wire' \in Seq(Nat) /\ OnWire' = OnWire \cup {i}
  <2>1. wire' \in Seq(Nat) /\ Len(wire') = Len(wire) + 1 /\ wire'[Len(wire) + 1] = i
    BY <1>1, <1>2
  <2>2. \A k \in 1..Len(wire) : wire'[k] = wire[k]
    BY <1>1, <1>2
  <2>3. DOMAIN wire = 1..Len(wire) /\ DOMAIN wire' = 1..(Len(wire) + 1) /\ Len(wire) \in Nat
    BY <1>2, <2>1
  <2>4. DOMAIN wire' = DOMAIN wire \cup {Len(wire) + 1}
    BY <2>3
  <2> QED
    BY <2>1, <2>2, <2>3, <2>4 DEF OnWire
<1>4. StreamTypeOK'
  <2>1. OnWire' \subseteq DOMAIN log
    BY <1>2, <1>3 DEF StreamInv, StreamTypeOK
  <2>2. cursor' \in 0..Len(log) /\ todo' \subseteq DOMAIN log
    BY <1>1, <1>2 DEF StreamInv, StreamTypeOK
  <2> QED
    BY <1>3, <2>1, <2>2 DEF StreamInv, StreamTypeOK, SendEvent
<1>5. OpenedOnce'
  BY DEF StreamInv, StreamTypeOK, OpenedOnce, SendEvent
<1>6. NothingSkipped'
  BY <1>1, <1>3 DEF StreamInv, StreamTypeOK, NothingSkipped, SendEvent
<1> QED
  BY <1>4, <1>5, <1>6 DEF StreamInv

LEMMA CheckInv ==
    ASSUME StreamInv, CheckTask, UNCHANGED <<log, life, clock, stamp, breaks>>
    PROVE  StreamInv'
BY DEF StreamInv, StreamTypeOK, OpenedOnce, NothingSkipped, CheckTask, OnWire

\* What leaves the connection is received.
LEMMA ReceiveInv ==
    ASSUME StreamInv, ReceiveEvent, UNCHANGED <<log, life, clock, stamp, breaks>>
    PROVE  StreamInv'
<1>1. wire \in Seq(Nat) /\ wire # <<>>
  BY DEF StreamInv, StreamTypeOK, ReceiveEvent
<1>2. wire' \in Seq(Nat) /\ Head(wire) \in Nat /\ Head(wire) = wire[1] /\ 1 \in DOMAIN wire
  BY <1>1 DEF ReceiveEvent
<1>3. OnWire = OnWire' \cup {Head(wire)}
  <2>1. ASSUME NEW k \in DOMAIN wire, k # 1
        PROVE  \E j \in DOMAIN wire' : wire'[j] = wire[k]
    <3>1. k - 1 \in DOMAIN Tail(wire) /\ Tail(wire)[k - 1] = wire[k]
      BY <1>1, <2>1
    <3> QED
      BY <3>1 DEF ReceiveEvent
  <2>2. ASSUME NEW j \in DOMAIN wire'
        PROVE  j + 1 \in DOMAIN wire /\ wire'[j] = wire[j + 1]
    BY <1>1, <2>2 DEF ReceiveEvent
  <2> QED
    BY <1>2, <2>1, <2>2 DEF OnWire
<1>4. Head(wire) \in OnWire /\ OnWire' \subseteq DOMAIN log /\ OnWire \subseteq DOMAIN log
  BY <1>3 DEF StreamInv, StreamTypeOK
<1>5. StreamTypeOK'
  BY <1>2, <1>4 DEF StreamInv, StreamTypeOK, ReceiveEvent
<1>6. OpenedOnce'
  BY <1>1 DEF StreamInv, OpenedOnce, ReceiveEvent
<1>7. NothingSkipped'
  BY <1>3 DEF StreamInv, NothingSkipped, ReceiveEvent
<1> QED
  BY <1>5, <1>6, <1>7 DEF StreamInv

LEMMA BreakInv ==
    ASSUME StreamInv, Lost
    PROVE  StreamInv'
BY DEF StreamInv, StreamTypeOK, OpenedOnce, NothingSkipped, OnWire, Lost, Break

\* A new event has the highest rowid, so it is behind every cursor.
LEMMA CommitInv ==
    ASSUME StreamInv, BoundsAssumption,
           NEW w \in Writers, NEW n \in 1..2, NEW l \in {"live", "over", "gone"},
           Commit(w, n, l)
    PROVE  StreamInv'
<1>1. stamp[w] \in Nat /\ log \in Seq(Nat)
  BY DEF StreamInv, StreamTypeOK
<1>2. log' \in Seq(Nat) /\ Len(log') = Len(log) + n
  <2> DEFINE more == [k \in 1..n |-> stamp[w]]
  <2>1. more \in Seq(Nat) /\ Len(more) = n
    BY <1>1
  <2>2. log' = log \o more
    BY DEF Commit
  <2> HIDE DEF more
  <2> QED
    BY <1>1, <2>1, <2>2
<1>3. OnWire' = OnWire
  BY DEF Commit, streamVars, OnWire
<1>4. stamp' \in [Writers -> Nat] /\ DOMAIN log \subseteq DOMAIN log' /\ UNCHANGED breaks
  BY <1>1, <1>2 DEF StreamInv, StreamTypeOK, Commit
<1>5. StreamTypeOK'
  <2>1. UNCHANGED streamVars /\ life' = l
    BY DEF Commit
  <2>2. 0..Len(log) \subseteq 0..Len(log') /\ Len(log') > 0
    <3>1. Len(log) \in Nat /\ Len(log) > 0
      BY <1>1 DEF StreamInv, StreamTypeOK
    <3> QED
      BY <1>2, <3>1
  <2>3. OnWire' \subseteq DOMAIN log'
    BY <1>3, <1>4 DEF StreamInv, StreamTypeOK
  <2>4. UNCHANGED <<at, cursor, todo, wire, got, last, from>>
    BY <2>1 DEF streamVars
  <2>5. clock' = clock /\ breaks' = breaks
    BY DEF Commit
  <2>6. cursor' \in 0..Len(log') /\ last' \in 0..Len(log') /\ from' \in 0..Len(log')
    BY <2>2, <2>4 DEF StreamInv, StreamTypeOK
  <2>7. todo' \subseteq DOMAIN log' /\ (at' # "send" => todo' = {}) /\ got' \subseteq DOMAIN log'
    BY <1>4, <2>4 DEF StreamInv, StreamTypeOK
  <2>8. at' \in {"closed", "open", "list", "send", "ended"} /\ wire' \in Seq(Nat)
    BY <2>4 DEF StreamInv, StreamTypeOK
  <2>9. clock' \in Nat /\ breaks' \in Nat
    BY <2>5 DEF StreamInv, StreamTypeOK
  <2> QED
    BY <1>2, <1>4, <2>1, <2>2, <2>3, <2>6, <2>7, <2>8, <2>9 DEF StreamTypeOK
<1>6. OpenedOnce'
  BY DEF StreamInv, OpenedOnce, Commit, streamVars
<1>7. NothingSkipped'
  <2> SUFFICES ASSUME at \in {"list", "send"}, NEW i \in DOMAIN log', i > from
               PROVE  \/ i \in got \cup OnWire \cup todo
                      \/ \A j \in todo \cup {cursor} : i > j
    BY DEF NothingSkipped, Commit, streamVars, OnWire
  <2>1. CASE i \in DOMAIN log
    BY <2>1 DEF StreamInv, NothingSkipped
  <2>2. CASE i \notin DOMAIN log
    <3>1. i \in Nat /\ i > Len(log)
      BY <1>1, <1>2, <2>2
    <3>2. \A j \in todo \cup {cursor} : j \in 0..Len(log)
      BY <1>1 DEF StreamInv, StreamTypeOK
    <3> QED
      BY <1>1, <3>1, <3>2
  <2> QED
    BY <2>1, <2>2
<1> QED
  BY <1>5, <1>6, <1>7 DEF StreamInv

\* Neither the clock nor a time that is taken changes what the stream sees.
LEMMA TimeInv ==
    ASSUME StreamInv, BoundsAssumption, Tick \/ (\E w \in Writers : TakeTime(w))
    PROVE  StreamInv'
<1>1. clock' \in Nat /\ stamp' \in [Writers -> Nat]
  <2>1. clock \in Nat /\ stamp \in [Writers -> Nat]
    BY DEF StreamInv, StreamTypeOK
  <2> QED
    BY <2>1 DEF Tick, TakeTime
<1>2. UNCHANGED <<log, life, breaks, streamVars>>
  BY DEF Tick, TakeTime
<1> QED
  BY <1>1, <1>2 DEF StreamInv, StreamTypeOK, OpenedOnce, NothingSkipped, OnWire, streamVars

LEMMA StreamStep ==
    ASSUME StreamInv, ~Reconnects, [Next]_vars
    PROVE  StreamInv'
<1>1. CASE Tick
  BY <1>1, TimeInv, BoundsAssumption
<1>2. CASE Write
  <2>1. PICK w \in Writers :
            \/ TakeTime(w)
            \/ \E n \in 1..2, l \in {"live", "over", "gone"} : Commit(w, n, l)
    BY <1>2 DEF Write
  <2> QED
    BY <2>1, TimeInv, CommitInv, BoundsAssumption
<1>3. CASE Server
  BY <1>3, BeginInv, ListInv, SendInv, CheckInv DEF Server, Serve
<1>4. CASE Page
  BY <1>4, ConnectInv, ReceiveInv DEF Page
<1>5. CASE Lost
  BY <1>5, BreakInv
<1>6. CASE UNCHANGED vars
  BY <1>6 DEF vars, streamVars, StreamInv, StreamTypeOK, OpenedOnce, NothingSkipped, OnWire
<1> QED
  BY <1>1, <1>2, <1>3, <1>4, <1>5, <1>6 DEF Next

\* While the stream of a page that opens it once is up, no event committed
\* after its beginning is passed over, for any number of writers whose times
\* and commits overlap: it is sent, listed, or still behind the cursor.
THEOREM NothingSkippedAlways ==
    ASSUME ~Reconnects
    PROVE  Spec => []NothingSkipped
<1>1. Init => StreamInv
  BY StreamInitInv
<1>2. StreamInv /\ [Next]_vars => StreamInv'
  BY StreamStep
<1>3. StreamInv => NothingSkipped
  BY DEF StreamInv
<1> QED
  BY <1>1, <1>2, <1>3, PTL DEF Spec

----------------------------------------------------------------------------
(* The page.                                                                  *)

\* A detail that is read with no refresh due was begun after the last event
\* came, so each of its parts is as new as that event.
ReadAfter == ~timer /\ fetching => \A i \in got : \A k \in DOMAIN reads : reads[k] >= i

PageInv == StreamInv /\ PageTypeOK /\ ReadAfter /\ PageFollows

\* What a detail is before its first read.
LEMMA NothingRead ==
    ASSUME NEW s, s = <<>>
    PROVE  s \in Seq(Nat) /\ Len(s) <= 3 /\ DOMAIN s = {}
OBVIOUS

LEMMA PageStartsWell == PageInit => PageInv
<1> SUFFICES ASSUME PageInit PROVE PageInv
  OBVIOUS
<1>1. StreamInv
  BY StreamInitInv DEF PageInit
<1>2. Len(log) \in Nat /\ 0 \in 0..Len(log) /\ shown = [k \in Parts |-> 0]
  BY <1>1 DEF StreamInv, StreamTypeOK, PageInit
<1>3. shown \in [Parts -> 0..Len(log)]
  BY <1>2
<1>4. PageTypeOK
  <2>1. reads \in Seq(Nat) /\ Len(reads) <= 3 /\ DOMAIN reads = {}
    BY NothingRead DEF PageInit
  <2> QED
    BY <1>1, <1>2, <1>3, <2>1 DEF PageTypeOK, PageInit, StreamInv
<1> QED
  BY <1>1, <1>4 DEF PageInit, PageInv, ReadAfter, PageFollows

\* Every step of the page is a step of the stream or leaves the stream alone.
LEMMA PageStepIsStreamStep == PageNext => [Next]_vars
<1> SUFFICES ASSUME PageNext PROVE [Next]_vars
  OBVIOUS
<1>1. CASE Elsewhere
  BY <1>1 DEF Elsewhere, Next
<1>2. CASE Opens
  BY <1>2 DEF Opens, Next, Page
<1>3. CASE OnEvent
  BY <1>3 DEF OnEvent, Next, Page
<1>4. CASE Disconnects
  BY <1>4 DEF Disconnects, Next
<1>5. CASE LoadDetail
  BY <1>5 DEF LoadDetail, ReadDetail, ShowDetail, FailDetail
<1>6. CASE Refreshed
  BY <1>6 DEF Refreshed
<1>7. CASE \E kind \in Own : Ask(kind)
  BY <1>7 DEF Ask
<1>8. CASE Reply \/ ShowReply
  BY <1>8 DEF Reply, ShowReply
<1> QED
  BY <1>1, <1>2, <1>3, <1>4, <1>5, <1>6, <1>7, <1>8 DEF PageNext

\* The log only grows.
LEMMA LogGrows ==
    ASSUME StreamInv, StreamInv', [Next]_vars
    PROVE  Len(log) \in Nat /\ Len(log') \in Nat /\ Len(log) <= Len(log')
<1>1. Len(log) \in Nat /\ Len(log') \in Nat
  <2>1. log \in Seq(Nat) /\ log' \in Seq(Nat)
    BY DEF StreamInv, StreamTypeOK
  <2> QED
    BY <2>1
<1>2. CASE log' = log
  BY <1>1, <1>2
<1>3. CASE \E w \in Writers, n \in 1..2, l \in {"live", "over", "gone"} : Commit(w, n, l)
  <2>1. PICK w \in Writers, n \in 1..2 : log' = log \o [k \in 1..n |-> stamp[w]]
    BY <1>3 DEF Commit
  <2>2. log \in Seq(Nat) /\ [k \in 1..n |-> stamp[w]] \in Seq(Nat)
    BY DEF StreamInv, StreamTypeOK
  <2>3. Len([k \in 1..n |-> stamp[w]]) \in Nat
    BY <2>2
  <2> QED
    BY <2>1, <2>2, <2>3
<1>4. log' = log \/ \E w \in Writers, n \in 1..2, l \in {"live", "over", "gone"} : Commit(w, n, l)
  BY DEF Next, Tick, Write, TakeTime, Server, Page, Lost, vars
<1> QED
  BY <1>2, <1>3, <1>4

\* Steps of the server, the writers and the connection: the page is as it was.
LEMMA OthersKeep ==
    ASSUME PageInv, StreamInv', [Next]_vars, got' = got,
           UNCHANGED <<fetching, reads, shown, timer, asked, said>>,
           error' \in {error, TRUE}
    PROVE  PageInv'
<1>1. Len(log) \in Nat /\ Len(log') \in Nat /\ Len(log) <= Len(log')
  BY LogGrows DEF PageInv
<1>2. 0..Len(log) \subseteq 0..Len(log')
  BY <1>1
<1>3. \A k \in DOMAIN reads : reads[k] <= Len(log')
  BY <1>1 DEF PageInv, PageTypeOK
<1>4. shown' \in [Parts -> 0..Len(log')] /\ said' \in 0..Len(log')
  BY <1>2 DEF PageInv, PageTypeOK
<1>5. error' \in BOOLEAN
  BY DEF PageInv, PageTypeOK
<1>6. PageTypeOK'
  BY <1>3, <1>4, <1>5 DEF PageInv, PageTypeOK, StreamInv
<1>7. ReadAfter' /\ PageFollows'
  BY DEF PageInv, ReadAfter, PageFollows, Shows
<1> QED
  BY <1>6, <1>7 DEF PageInv

LEMMA OnEventKeeps ==
    ASSUME PageInv, StreamInv', OnEvent
    PROVE  PageInv'
<1>1. PageTypeOK'
  BY DEF PageInv, PageTypeOK, StreamInv, OnEvent
<1>2. ReadAfter' /\ PageFollows'
  BY DEF ReadAfter, PageFollows, OnEvent
<1> QED
  BY <1>1, <1>2 DEF PageInv

\* What is read now is as new as everything received so far.
LEMMA ReadDetailKeeps ==
    ASSUME PageInv, StreamInv', ReadDetail
    PROVE  PageInv'
<1>1. reads \in Seq(Nat) /\ Len(log) \in Nat /\ log' = log /\ got' = got
  BY DEF PageInv, PageTypeOK, StreamTypeOK, ReadDetail, vars, streamVars
<1>2. reads' = Append(reads, Len(log)) /\ Len(reads) < 3 /\ fetching
  BY DEF ReadDetail
<1>3. reads' \in Seq(Nat) /\ Len(reads') <= 3
  BY <1>1, <1>2
<1>4. \A k \in DOMAIN reads' : (k \in DOMAIN reads /\ reads'[k] = reads[k]) \/ reads'[k] = Len(log)
  BY <1>1, <1>2
<1>5. \A k \in DOMAIN reads' : reads'[k] <= Len(log)
  BY <1>1, <1>4 DEF PageInv, PageTypeOK
<1>6. PageTypeOK'
  BY <1>1, <1>2, <1>3, <1>5 DEF PageInv, PageTypeOK, StreamInv, ReadDetail
<1>7. \A i \in got : i \in Nat /\ i <= Len(log)
  BY <1>1 DEF PageInv, PageTypeOK, StreamTypeOK
<1>8. ReadAfter'
  BY <1>1, <1>4, <1>7 DEF PageInv, ReadAfter, ReadDetail
<1>9. PageFollows'
  BY <1>2 DEF PageFollows, ReadDetail
<1> QED
  BY <1>6, <1>8, <1>9 DEF PageInv

LEMMA ShowDetailKeeps ==
    ASSUME PageInv, StreamInv', ShowDetail
    PROVE  PageInv'
<1>1. reads \in Seq(Nat) /\ Len(log) \in Nat /\ log' = log /\ got' = got
  BY DEF PageInv, PageTypeOK, StreamTypeOK, ShowDetail, vars, streamVars
<1>2. Parts = DOMAIN reads /\ shown' = [k \in Parts |-> reads[k]] /\ fetching
  BY <1>1 DEF ShowDetail, Parts
<1>3. \A k \in Parts : shown'[k] = reads[k] /\ reads[k] \in 0..Len(log)
  BY <1>1, <1>2 DEF PageInv, PageTypeOK
<1>4. shown' \in [Parts -> 0..Len(log')]
  BY <1>1, <1>2, <1>3
<1>5. PageTypeOK'
  <2>1. reads' \in Seq(Nat) /\ Len(reads') <= 3 /\ DOMAIN reads' = {}
    BY NothingRead DEF ShowDetail
  <2> QED
    BY <1>1, <1>4, <2>1 DEF PageInv, PageTypeOK, StreamInv, ShowDetail
<1>6. ReadAfter'
  BY DEF ReadAfter, ShowDetail
<1>7. PageFollows'
  BY <1>1, <1>2, <1>3 DEF PageInv, ReadAfter, PageFollows, Shows, ShowDetail
<1> QED
  BY <1>5, <1>6, <1>7 DEF PageInv

LEMMA FailDetailKeeps ==
    ASSUME PageInv, StreamInv', FailDetail
    PROVE  PageInv'
<1>1. log' = log
  BY DEF FailDetail, vars
<1>2. PageTypeOK'
  <2>1. reads' \in Seq(Nat) /\ Len(reads') <= 3 /\ DOMAIN reads' = {}
    BY NothingRead DEF FailDetail
  <2> QED
    BY <1>1, <2>1 DEF PageInv, PageTypeOK, StreamInv, FailDetail
<1> QED
  BY <1>2 DEF PageInv, ReadAfter, PageFollows, FailDetail

LEMMA RefreshedKeeps ==
    ASSUME PageInv, StreamInv', Refreshed
    PROVE  PageInv'
<1>1. log' = log
  BY DEF Refreshed, vars
<1>2. PageTypeOK'
  <2>1. reads' \in Seq(Nat) /\ Len(reads') <= 3 /\ DOMAIN reads' = {}
    BY NothingRead DEF Refreshed, Refresh
  <2> QED
    BY <1>1, <2>1 DEF PageInv, PageTypeOK, StreamInv, Refreshed, Refresh
<1> QED
  BY <1>2 DEF PageInv, ReadAfter, PageFollows, Refreshed, Refresh

LEMMA AskKeeps ==
    ASSUME PageInv, StreamInv', NEW kind \in Own, Ask(kind)
    PROVE  PageInv'
<1>1. log' = log /\ got' = got /\ Len(log) \in Nat
  BY DEF PageInv, PageTypeOK, StreamTypeOK, Ask, vars, streamVars
<1>2. shown' \in [Parts -> 0..Len(log)]
  BY <1>1 DEF PageInv, PageTypeOK, Ask
<1>3. kind # "none"
  BY OwnAssumption
<1>4. PageTypeOK'
  BY <1>1, <1>2, <1>3 DEF PageInv, PageTypeOK, StreamInv, Ask
<1>5. ReadAfter' /\ PageFollows'
  BY <1>1, <1>3 DEF PageInv, ReadAfter, PageFollows, Ask
<1> QED
  BY <1>4, <1>5 DEF PageInv

LEMMA ReplyKeeps ==
    ASSUME PageInv, StreamInv', Reply
    PROVE  PageInv'
<1>1. log' = log /\ got' = got /\ Len(log) \in Nat
  BY DEF PageInv, PageTypeOK, StreamTypeOK, Reply, vars, streamVars
<1>2. PageTypeOK'
  BY <1>1 DEF PageInv, PageTypeOK, StreamInv, Reply
<1>3. ReadAfter' /\ PageFollows'
  BY <1>1 DEF PageInv, ReadAfter, PageFollows, Shows, Reply
<1> QED
  BY <1>2, <1>3 DEF PageInv

\* The one request a page without drafts makes refreshes when it is answered.
LEMMA ShowReplyKeeps ==
    ASSUME PageInv, StreamInv', "draft" \notin Own, ShowReply
    PROVE  PageInv'
<1>1. log' = log /\ got' = got /\ Len(log) \in Nat
  BY DEF PageInv, PageTypeOK, StreamTypeOK, ShowReply, vars, streamVars
<1>2. asked = "answer"
  BY OwnAssumption DEF PageInv, PageTypeOK, ShowReply
<1>3. fetching' = TRUE /\ reads' = <<>> /\ error' = FALSE
  BY <1>2 DEF ShowReply, Refresh
<1>4. shown' \in [Parts -> 0..Len(log)]
  BY <1>1 DEF PageInv, PageTypeOK, ShowReply
<1>5. PageTypeOK'
  <2>1. reads' \in Seq(Nat) /\ Len(reads') <= 3 /\ DOMAIN reads' = {}
    BY <1>3, NothingRead
  <2>2. asked' = "none" /\ said' = 0 /\ timer' = timer
    BY DEF ShowReply
  <2>3. fetching' /\ fetching' \in BOOLEAN /\ error' \in BOOLEAN /\ timer' \in BOOLEAN
    BY <1>3, <2>2 DEF PageInv, PageTypeOK
  <2>4. log' = log /\ 0 \in 0..Len(log)
    BY <1>1
  <2> QED
    BY <1>4, <2>1, <2>2, <2>3, <2>4 DEF PageTypeOK, StreamInv
<1>6. ReadAfter' /\ PageFollows'
  BY <1>3 DEF ReadAfter, PageFollows
<1> QED
  BY <1>5, <1>6 DEF PageInv

LEMMA PageStep ==
    ASSUME PageInv, ~Reconnects, "draft" \notin Own, [PageNext]_allVars
    PROVE  PageInv'
<1>1. [Next]_vars
  BY PageStepIsStreamStep DEF allVars
<1>2. StreamInv'
  BY <1>1, StreamStep DEF PageInv
<1>3. CASE Elsewhere
  <2>1. got' = got /\ UNCHANGED <<fetching, reads, shown, timer, asked, said, error>>
    BY <1>3 DEF Elsewhere, pageVars, Tick, Write, TakeTime, Commit, Server, Serve, Begin,
                ListEvents, SendEvent, CheckTask, streamVars
  <2> QED
    BY <1>1, <1>2, <2>1, OthersKeep
<1>4. CASE Opens
  <2>1. got' = got /\ UNCHANGED <<fetching, reads, shown, timer, asked, said, error>>
    BY <1>4 DEF Opens, pageVars, Connect
  <2> QED
    BY <1>1, <1>2, <2>1, OthersKeep
<1>5. CASE Disconnects
  <2>1. got' = got /\ error' = TRUE /\ UNCHANGED <<fetching, reads, shown, timer, asked, said>>
    BY <1>5 DEF Disconnects, Lost, Break
  <2> QED
    BY <1>1, <1>2, <2>1, OthersKeep
<1>6. CASE OnEvent
  BY <1>2, <1>6, OnEventKeeps
<1>7. CASE LoadDetail
  BY <1>2, <1>7, ReadDetailKeeps, ShowDetailKeeps, FailDetailKeeps DEF LoadDetail
<1>8. CASE Refreshed
  BY <1>2, <1>8, RefreshedKeeps
<1>9. CASE \E kind \in Own : Ask(kind)
  BY <1>2, <1>9, AskKeeps
<1>10. CASE Reply
  BY <1>2, <1>10, ReplyKeeps
<1>11. CASE ShowReply
  BY <1>2, <1>11, ShowReplyKeeps
<1>12. CASE UNCHANGED allVars
  <2>1. UNCHANGED <<vars, got, fetching, reads, shown, timer, asked, said, error>>
    BY <1>12 DEF allVars, pageVars, vars, streamVars
  <2> QED
    BY <1>1, <1>2, <2>1, OthersKeep
<1> QED
  BY <1>3, <1>4, <1>5, <1>6, <1>7, <1>8, <1>9, <1>10, <1>11, <1>12 DEF PageNext

\* A page that makes no drafts and has nothing under way shows each part of the
\* task at least as new as every event it has received, for any number of
\* writers, events and lost connections.
THEOREM PageFollowsAlways ==
    ASSUME ~Reconnects, "draft" \notin Own
    PROVE  PageSpec => []PageFollows
<1>1. PageInit => PageInv
  BY PageStartsWell
<1>2. PageInv /\ [PageNext]_allVars => PageInv'
  BY PageStep
<1>3. PageInv => PageFollows
  BY DEF PageInv
<1> QED
  BY <1>1, <1>2, <1>3, PTL DEF PageSpec

\* The page with its stream is a stream: what holds of the stream beside the
\* writers holds of the one the page opens.
THEOREM PageImplementsStream == PageSpec => Spec
<1>1. PageInit => Init
  BY DEF PageInit
<1>2. [PageNext]_allVars => [Next]_vars
  BY PageStepIsStreamStep DEF allVars
<1> QED
  BY <1>1, <1>2, PTL DEF PageSpec, Spec
===============================================================================
