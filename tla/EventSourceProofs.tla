------------------------- MODULE EventSourceProofs -------------------------
(***************************************************************************)
(* What holds of an EventSource for any limit of the backlog, any number   *)
(* of events and of nested main loops: its references and the posts under  *)
(* way are counted right, so that the connection is freed after the last   *)
(* of them, and the backlog is bounded.  Variables keep their types, and   *)
(* readyState at rest says where the thread is.  No event comes twice.     *)
(* The thread that is waited for gets nearer to its end with each step.    *)
(***************************************************************************)
EXTENDS EventSource, FiniteSetTheorems, FunctionTheorems, SequenceTheorems, TLAPS

\* The queues hold posts, of which None is not one: the handlers of each run.
Posts == Int \ {None}
Typed ==
  /\ refs \in Int /\ pending \in Int
  /\ idles \in Seq(Posts) /\ timers \in Seq(Posts)
  /\ next \in Nat \ {0} /\ lastId \in Nat

SourceInv == Typed /\ SourceRefs

-----------------------------------------------------------------------------
LEMMA HeldIs == Held(TRUE) = 1 /\ Held(FALSE) = 0
BY DEF Held

LEMMA HeldInt == ASSUME NEW b PROVE Held(b) \in {0, 1}
BY DEF Held

\* The numbers that SourceRefs compares, after a step.
LEMMA Counts ==
  ASSUME NEW l \in Nat, NEW h \in {0, 1}, NEW p \in {0, 1}, NEW w \in {0, 1},
         Len(idles') + Len(timers') = l, Held(handling' # None) = h,
         Held(page' # "freed") = p, Held(worker' # "done") = w,
         refs' = p + w + (l + h), pending' = l + h, pending' <= MaxPending
  PROVE  SourceRefs'
BY DEF SourceRefs

LEMMA OneLess ==
  ASSUME NEW h \in Int, NEW p \in Int, NEW w \in Int, NEW l \in Int
  PROVE  /\ p + w + (l + h) - 1 = p + w + ((l - 1) + h)
         /\ (l + h) - 1 = (l - 1) + h
OBVIOUS

LEMMA SeqAppend ==
  ASSUME NEW q \in Seq(Posts), NEW e \in Posts
  PROVE  Append(q, e) \in Seq(Posts) /\ Len(Append(q, e)) = Len(q) + 1 /\ Len(q) \in Nat
OBVIOUS

LEMMA SeqTail ==
  ASSUME NEW q \in Seq(Posts), q # <<>>
  PROVE  Tail(q) \in Seq(Posts) /\ Len(Tail(q)) = Len(q) - 1 /\ Len(q) \in Nat /\ Head(q) \in Posts
OBVIOUS

LEMMA InitInv == SourceInit => SourceInv
<1> SUFFICES ASSUME SourceInit PROVE SourceInv
  OBVIOUS
<1>1. <<>> \in Seq(Posts) /\ Len(<<>>) = 0
  OBVIOUS
<1>2. Held(page # "freed") = 1 /\ Held(worker # "done") = 1 /\ Held(handling # None) = 0
  BY DEF SourceInit, Held
<1> QED BY <1>1, <1>2, SourceAssumption DEF SourceInit, SourceInv, Typed, SourceRefs

-----------------------------------------------------------------------------
\* A step that counts nothing, and leaves alone what is counted.
LEMMA CountsNothing ==
  ASSUME SourceInv, UNCHANGED <<refs, pending, idles, timers, handling>>, next' \in Nat \ {0}, lastId' \in Nat,
         (page' = "freed") <=> (page = "freed"), (worker' = "done") <=> (worker = "done")
  PROVE  SourceInv'
<1>1. Held(page # "freed") = Held(page' # "freed") /\ Held(worker # "done") = Held(worker' # "done")
  BY DEF Held
<1>2. Typed'
  BY DEF SourceInv, Typed
<1>3. SourceRefs'
  BY <1>1 DEF SourceInv, SourceRefs
<1> QED BY <1>2, <1>3 DEF SourceInv

\* A post is counted, if it is made.
LEMMA PostCounts ==
  ASSUME SourceInv, NEW e \in Posts, Post(e), next' \in Nat \ {0}, lastId' \in Nat,
         worker # "done", worker' # "done"
  PROVE  SourceInv'
<1>1. UNCHANGED <<timers, handling, page>>
  BY DEF Post, script
<1>2. CASE UNCHANGED <<idles, refs, pending>>
  BY <1>1, <1>2, CountsNothing
<1>3. CASE idles' = Append(idles, e) /\ pending' = pending + 1 /\ refs' = refs + 1 /\ pending < MaxPending
  <2>1. Append(idles, e) \in Seq(Posts) /\ Len(Append(idles, e)) = Len(idles) + 1 /\ Len(idles) \in Nat
    BY SeqAppend DEF SourceInv, Typed
  <2>2. Typed'
    BY <1>1, <1>3, <2>1 DEF SourceInv, Typed
  <2>3. Len(timers) \in Nat
    BY DEF SourceInv, Typed
  <2>4. /\ Held(page # "freed") \in {0, 1} /\ Held(handling # None) \in {0, 1}
        /\ Held(worker # "done") = 1 /\ Held(worker' # "done") = 1
    BY DEF Held
  <2>5. Len(idles') = Len(idles) + 1 /\ Len(timers') = Len(timers)
    BY <1>1, <1>3, <2>1
  <2>6. Held(handling' # None) = Held(handling # None) /\ Held(page' # "freed") = Held(page # "freed")
    BY <1>1
  <2>7. MaxPending \in Int /\ pending' <= MaxPending
    BY <1>3, SourceAssumption DEF SourceInv, Typed
  <2>8. refs' = refs + 1 /\ pending' = pending + 1
    BY <1>3
  <2>9. /\ refs = Held(page # "freed") + 1 + (Len(idles) + Len(timers) + Held(handling # None))
        /\ pending = Len(idles) + Len(timers) + Held(handling # None)
    BY <2>4 DEF SourceInv, SourceRefs
  <2>10. Len(idles') + Len(timers') = Len(idles) + Len(timers) + 1 /\ Len(idles) + Len(timers) + 1 \in Nat
    BY <2>1, <2>3, <2>5
  <2>11. /\ refs' = Held(page # "freed") + 1 + ((Len(idles) + Len(timers) + 1) + Held(handling # None))
         /\ pending' = (Len(idles) + Len(timers) + 1) + Held(handling # None)
    BY <2>1, <2>3, <2>4, <2>8, <2>9
  <2>12. SourceRefs'
    BY <2>4, <2>6, <2>7, <2>10, <2>11, Counts
  <2> QED BY <2>2, <2>12 DEF SourceInv
<1> QED
  <2>1. (pending >= MaxPending) \/ pending < MaxPending
    BY SourceAssumption DEF SourceInv, Typed
  <2> QED BY <1>2, <1>3, <2>1 DEF Post

\* The numbers of ns_es_dispatch_run: the post leaves its queue, for another one
\* or for the handlers, or it is released.
LEMMA RunCounts ==
  ASSUME SourceInv, NEW e \in Posts, NEW i \in Seq(Posts), NEW q \in Seq(Posts),
         idles' = i, Len(i) + Len(q) = Len(idles) + Len(timers) - 1,
         LoopRuns, Run(e, q)
  PROVE  SourceInv'
<1>1. UNCHANGED <<next, lastId, page, worker>>
  BY DEF Run, stream
<1>2. /\ Held(page # "freed") \in {0, 1} /\ Held(worker # "done") \in {0, 1}
      /\ Len(i) \in Nat /\ Len(q) \in Nat /\ Len(idles) \in Nat /\ Len(timers) \in Nat
  BY HeldInt DEF SourceInv, Typed
<1>3. CASE busy /\ ~detached
  <2>1. timers' = Append(q, e) /\ UNCHANGED <<refs, pending, handling>>
    BY <1>3 DEF Run
  <2>2. Append(q, e) \in Seq(Posts) /\ Len(Append(q, e)) = Len(q) + 1
    BY SeqAppend
  <2>3. Typed'
    BY <1>1, <2>1, <2>2 DEF SourceInv, Typed
  <2>4. Held(handling # None) \in {0, 1}
    BY HeldInt
  <2>5. Len(idles') + Len(timers') = Len(idles) + Len(timers)
    BY <1>2, <2>1, <2>2
  <2>6. SourceRefs'
    BY <1>1, <1>2, <2>1, <2>4, <2>5 DEF SourceInv, Typed, SourceRefs
  <2> QED BY <2>3, <2>6 DEF SourceInv
<1>4. CASE detached
  <2>1. timers' = q /\ refs' = refs - 1 /\ pending' = pending - 1 /\ UNCHANGED handling
    BY <1>4 DEF Run, Release
  <2>2. Typed'
    BY <1>1, <2>1 DEF SourceInv, Typed
  <2>3. Held(handling # None) \in {0, 1}
    BY HeldInt
  <2>4. Len(idles') + Len(timers') = Len(idles) + Len(timers) - 1
    BY <1>2, <2>1
  <2>5. pending <= MaxPending /\ MaxPending \in Int
    BY SourceAssumption DEF SourceInv, SourceRefs
  <2>6. pending' <= MaxPending
    BY <2>1, <2>5 DEF SourceInv, Typed
  <2>7. Held(handling' # None) = Held(handling # None) /\ Held(page' # "freed") = Held(page # "freed")
        /\ Held(worker' # "done") = Held(worker # "done")
    BY <1>1, <2>1
  <2>8. refs' = refs - 1 /\ pending' = pending - 1
    BY <2>1
  <2>9. /\ refs = Held(page # "freed") + Held(worker # "done") + (Len(idles) + Len(timers) + Held(handling # None))
        /\ pending = Len(idles) + Len(timers) + Held(handling # None)
    BY DEF SourceInv, SourceRefs
  <2>10. Len(idles) + Len(timers) - 1 \in Nat
    BY <1>2
  <2>11. /\ refs' = Held(page # "freed") + Held(worker # "done") + ((Len(idles) + Len(timers) - 1) + Held(handling # None))
         /\ pending' = (Len(idles) + Len(timers) - 1) + Held(handling # None)
    <3>1. /\ Held(page # "freed") \in Int /\ Held(worker # "done") \in Int
          /\ Held(handling # None) \in Int /\ Len(idles) + Len(timers) \in Int
      BY <1>2, <2>3
    <3>2. PICK p, w, l, h \in Int :
            /\ p = Held(page # "freed") /\ w = Held(worker # "done")
            /\ l = Len(idles) + Len(timers) /\ h = Held(handling # None)
      BY <3>1
    <3>3. refs = p + w + (l + h) /\ pending = l + h
      BY <2>9, <3>2
    <3>4. refs' = p + w + ((l - 1) + h) /\ pending' = (l - 1) + h
      BY <2>8, <3>3, OneLess
    <3> QED BY <3>2, <3>4
  <2>12. SourceRefs'
    BY <1>2, <2>3, <2>4, <2>6, <2>7, <2>10, <2>11, Counts
  <2> QED BY <2>2, <2>12 DEF SourceInv
<1>5. CASE ~busy /\ ~detached
  <2>1. timers' = q /\ handling' = e /\ UNCHANGED <<refs, pending>>
    BY <1>5 DEF Run
  <2>2. Typed'
    BY <1>1, <2>1 DEF SourceInv, Typed
  <2>3. Held(handling # None) = 0 /\ Held(handling' # None) = 1
    BY <1>5, <2>1 DEF LoopRuns, Held, Posts
  <2>4. SourceRefs'
    BY <1>1, <1>2, <2>1, <2>3 DEF SourceInv, Typed, SourceRefs
  <2> QED BY <2>2, <2>4 DEF SourceInv
<1> QED BY <1>3, <1>4, <1>5

-----------------------------------------------------------------------------
\* The steps of the thread.
WorkerStep ==
  LoopHead \/ Answered \/ Refused \/ Unreadable \/ LineTooLong \/ EventTooLong \/ BufferRead
  \/ Aborted \/ Break
  \/ IdLine \/ DataLine \/ Dispatch \/ Ended \/ Waited \/ Unref

LEMMA WorkerInv == SourceInv /\ WorkerStep => SourceInv'
<1> SUFFICES ASSUME SourceInv, WorkerStep PROVE SourceInv'
  OBVIOUS
<1>1. CASE LoopHead
  <2>1. next' \in Nat \ {0} /\ lastId' \in Nat
    BY <1>1 DEF LoopHead, Resume, NothingPosted, source, SourceInv, Typed
  <2> QED BY <1>1, <2>1, CountsNothing DEF LoopHead, NothingPosted, source, script
<1>2. CASE Refused \/ Unreadable \/ LineTooLong \/ EventTooLong \/ BufferRead \/ DataLine \/ Waited
  <2>1. UNCHANGED <<refs, pending, idles, timers, handling, page, next, lastId>>
    BY <1>2 DEF Refused, Unreadable, LineTooLong, EventTooLong, BufferRead, DataLine, Waited, NothingPosted, source, script
  <2>2. worker # "done" /\ worker' # "done"
    BY <1>2 DEF Refused, Unreadable, LineTooLong, EventTooLong, BufferRead, DataLine, Waited, Reading
  <2> QED BY <2>1, <2>2, CountsNothing DEF SourceInv, Typed
<1>3. CASE Aborted \/ Break
  <2>1. UNCHANGED <<refs, pending, idles, timers, handling, page, next, lastId>>
    BY <1>3 DEF Aborted, Break, Forget, source, script
  <2>2. worker # "done" /\ worker' # "done"
    BY <1>3 DEF Aborted, Break
  <2> QED BY <2>1, <2>2, CountsNothing DEF SourceInv, Typed
<1>4. CASE IdLine
  <2>1. UNCHANGED <<refs, pending, idles, timers, handling, page, next>> /\ lastId' = next
    BY <1>4 DEF IdLine, script
  <2>2. worker # "done" /\ worker' # "done"
    BY <1>4 DEF IdLine, Reading
  <2> QED BY <2>1, <2>2, CountsNothing DEF SourceInv, Typed
<1>5. CASE Answered
  BY <1>5, PostCounts DEF Answered, Posts, Open, None, SourceInv, Typed
<1>6. CASE Dispatch
  <2>1. next \in Posts /\ next' \in Nat \ {0}
    BY <1>6 DEF Dispatch, Posts, None, SourceInv, Typed
  <2> QED BY <1>6, <2>1, PostCounts DEF Dispatch, Reading, SourceInv, Typed
<1>7. CASE Ended
  <2>1. /\ UNCHANGED <<next, lastId>> /\ worker # "done" /\ worker' # "done"
        /\ NothingPosted \/ Post(Fatal) \/ Post(Error)
    BY <1>7 DEF Ended
  <2>2. Fatal \in Posts /\ Error \in Posts
    BY DEF Posts, Fatal, Error, None
  <2>3. CASE NothingPosted
    BY <2>1, <2>3, CountsNothing DEF NothingPosted, source, script, SourceInv, Typed
  <2> QED BY <2>1, <2>2, <2>3, PostCounts DEF SourceInv, Typed
<1>8. CASE Unref
  <2>1. refs' = refs - 1 /\ UNCHANGED <<pending, idles, timers, handling, page, next, lastId>>
    BY <1>8 DEF Unref, script
  <2>2. Held(worker # "done") = 1 /\ Held(worker' # "done") = 0
    BY <1>8 DEF Unref, Held
  <2>3. /\ Held(page # "freed") \in {0, 1} /\ Held(handling # None) \in {0, 1}
        /\ Len(idles) \in Nat /\ Len(timers) \in Nat
    BY HeldInt DEF SourceInv, Typed
  <2>4. SourceRefs'
    BY <2>1, <2>2, <2>3 DEF SourceInv, Typed, SourceRefs
  <2>5. Typed'
    BY <2>1 DEF SourceInv, Typed
  <2> QED BY <2>4, <2>5 DEF SourceInv
<1> QED BY <1>1, <1>2, <1>3, <1>4, <1>5, <1>6, <1>7, <1>8 DEF WorkerStep

\* The steps of the engine thread.
LEMMA EngineInv == SourceInv /\ (DispatchIdle \/ DispatchTimer \/ HandlerEnd) => SourceInv'
<1> SUFFICES ASSUME SourceInv, DispatchIdle \/ DispatchTimer \/ HandlerEnd PROVE SourceInv'
  OBVIOUS
<1>1. idles \in Seq(Posts) /\ timers \in Seq(Posts)
  BY DEF SourceInv, Typed
<1>2. CASE DispatchIdle
  <2>1. LoopRuns /\ idles # <<>> /\ idles' = Tail(idles) /\ Run(Head(idles), timers)
    BY <1>2 DEF DispatchIdle
  <2>2. Tail(idles) \in Seq(Posts) /\ Len(Tail(idles)) = Len(idles) - 1 /\ Head(idles) \in Posts
    BY <1>1, <2>1, SeqTail
  <2>3. Len(Tail(idles)) + Len(timers) = Len(idles) + Len(timers) - 1
    BY <1>1, <2>2
  <2> QED BY <1>1, <2>1, <2>2, <2>3, RunCounts
<1>3. CASE DispatchTimer
  <2>1. LoopRuns /\ timers # <<>> /\ idles' = idles /\ Run(Head(timers), Tail(timers))
    BY <1>3 DEF DispatchTimer
  <2>2. Tail(timers) \in Seq(Posts) /\ Len(Tail(timers)) = Len(timers) - 1 /\ Head(timers) \in Posts
    BY <1>1, <2>1, SeqTail
  <2>3. Len(idles) + Len(Tail(timers)) = Len(idles) + Len(timers) - 1
    BY <1>1, <2>2
  <2> QED BY <1>1, <2>1, <2>2, <2>3, RunCounts
<1>4. CASE HandlerEnd
  <2>1. /\ refs' = refs - 1 /\ pending' = pending - 1 /\ handling # None /\ handling' = None
        /\ UNCHANGED <<idles, timers, page, worker, next, lastId>>
    BY <1>4 DEF HandlerEnd, Release, stream
  <2>2. Held(handling # None) = 1 /\ Held(handling' # None) = 0
    BY <2>1 DEF Held
  <2>3. /\ Held(page # "freed") \in {0, 1} /\ Held(worker # "done") \in {0, 1}
        /\ Len(idles) \in Nat /\ Len(timers) \in Nat
    BY <1>1, HeldInt
  <2>4. SourceRefs'
    BY <2>1, <2>2, <2>3, SourceAssumption DEF SourceInv, Typed, SourceRefs
  <2>5. Typed'
    BY <2>1 DEF SourceInv, Typed
  <2> QED BY <2>4, <2>5 DEF SourceInv
<1> QED BY <1>2, <1>3, <1>4

\* The steps of script and of the page.
PageStep == CloseMethod \/ PumpBegin \/ PumpEnd \/ FreeBegin \/ FreeJoin

LEMMA PageInv == SourceInv /\ PageStep => SourceInv'
<1> SUFFICES ASSUME SourceInv, PageStep PROVE SourceInv'
  OBVIOUS
<1>1. CASE CloseMethod \/ PumpBegin \/ PumpEnd \/ FreeBegin
  <2>1. UNCHANGED <<refs, pending, idles, timers, handling, worker, next, lastId>>
    BY <1>1 DEF CloseMethod, PumpBegin, PumpEnd, FreeBegin, source, stream
  <2>2. page # "freed" => page' # "freed"
    BY <1>1 DEF CloseMethod, PumpBegin, PumpEnd, FreeBegin
  <2>3. page = "freed" => page' = "freed"
    BY <1>1 DEF CloseMethod, PumpBegin, PumpEnd, FreeBegin, Script
  <2> QED BY <2>1, <2>2, <2>3, CountsNothing DEF SourceInv, Typed
<1>2. CASE FreeJoin
  <2>1. refs' = refs - 1 /\ UNCHANGED <<pending, idles, timers, handling, worker, next, lastId>>
    BY <1>2 DEF FreeJoin, stream
  <2>2. Held(page # "freed") = 1 /\ Held(page' # "freed") = 0
    BY <1>2 DEF FreeJoin, Held
  <2>3. /\ Held(handling # None) \in {0, 1} /\ Held(worker # "done") \in {0, 1}
        /\ Len(idles) \in Nat /\ Len(timers) \in Nat
    BY HeldInt DEF SourceInv, Typed
  <2>4. SourceRefs'
    BY <2>1, <2>2, <2>3 DEF SourceInv, Typed, SourceRefs
  <2>5. Typed'
    BY <2>1 DEF SourceInv, Typed
  <2> QED BY <2>4, <2>5 DEF SourceInv
<1> QED BY <1>1, <1>2 DEF PageStep

\* ns_es is held by its object, its thread and each post under way, and the posts
\* are counted and bounded, for any limit: ns_es_dispatch_run puts a post off
\* without counting it again, and a handler may free the object under its post.
THEOREM SourceCounts == SourceSpec => []SourceRefs
<1>1. SourceInv /\ [SourceNext]_vars => SourceInv'
  <2> SUFFICES ASSUME SourceInv, [SourceNext]_vars PROVE SourceInv'
    OBVIOUS
  <2>1. CASE SourceNext
    BY <2>1, WorkerInv, EngineInv, PageInv DEF SourceNext, WorkerStep, PageStep
  <2>2. CASE UNCHANGED vars
    BY <2>2, CountsNothing DEF vars, source, stream, script, SourceInv, Typed
  <2> QED BY <2>1, <2>2
<1>2. SourceInv => SourceRefs
  BY DEF SourceInv
<1> QED BY InitInv, <1>1, <1>2, PTL DEF SourceSpec

-----------------------------------------------------------------------------
(* Types *)

\* What can be posted; an event is read only while the server has one.
EventPosts == (Fatal..MaxEvents) \ {None}

Stages == {"loop", "connect", "stream", "failing", "fatal", "broken", "failed", "waiting", "ending", "done"}

Queued  == idles \in Seq(EventPosts) /\ timers \in Seq(EventPosts) /\ handling \in EventPosts \cup {None}
Read    == /\ lastId \in 0..MaxEvents /\ next \in 1..(MaxEvents + 1)
           /\ got # {} => next <= MaxEvents
Staged  == worker \in Stages /\ readyState \in {CONNECTING, OPEN, CLOSED} /\ page \in {"none", "joining", "freed"}

TypedInv == Queued /\ Read /\ Staged

LEMMA Constants ==
  /\ MaxEvents \in Nat /\ Fatal \in EventPosts /\ Error \in EventPosts /\ Open \in EventPosts
  /\ \A n \in 1..MaxEvents : n \in EventPosts
BY SourceAssumption DEF EventPosts, Fatal, Error, Open, None

\* A post leaves only posts in the queue.
LEMMA PostTyped ==
  ASSUME Queued, NEW e \in EventPosts, Post(e)
  PROVE  Queued' /\ UNCHANGED <<readyState, page>>
<1>1. UNCHANGED <<timers, handling, readyState, page>> BY DEF Post, script
<1>2. idles' = idles \/ idles' = Append(idles, e) BY DEF Post
<1>3. Append(idles, e) \in Seq(EventPosts) BY DEF Queued
<1> QED BY <1>1, <1>2, <1>3 DEF Queued

\* The steps of the thread.
LEMMA WorkerTyped == TypedInv /\ WorkerStep => TypedInv'
<1> SUFFICES ASSUME TypedInv, WorkerStep PROVE TypedInv' OBVIOUS
<1> USE DEF TypedInv
<1>1. worker' \in Stages
  BY DEF WorkerStep, LoopHead, Answered, Refused, Unreadable, LineTooLong, EventTooLong, BufferRead,
     Aborted, Break, IdLine, DataLine,
     Dispatch, Ended, Waited, Unref, Reading, Stages, Staged
<1>2. ASSUME UNCHANGED <<idles, timers, handling, readyState, page>>, Read' PROVE TypedInv'
  BY <1>1, <1>2 DEF Queued, Staged
<1>3. ASSUME NEW e \in EventPosts, Post(e), Read' PROVE TypedInv'
  BY <1>1, <1>3, PostTyped DEF Staged
<1>4. CASE LoopHead
  <2>1. UNCHANGED <<idles, timers, handling, readyState, page, lastId>>
    BY <1>4 DEF LoopHead, NothingPosted, source, script
  <2>2. UNCHANGED <<next, got>> \/ (got' = {} /\ next' = lastId + 1)
    BY <1>4 DEF LoopHead, Resume
  <2>3. Read' BY <2>1, <2>2, Constants DEF Read
  <2> QED BY <1>2, <2>1, <2>3
<1>5. CASE Refused \/ Unreadable \/ LineTooLong \/ EventTooLong \/ BufferRead \/ Waited \/ Unref
  <2>1. UNCHANGED <<idles, timers, handling, readyState, page, lastId, next, got>>
    BY <1>5 DEF Refused, Unreadable, LineTooLong, EventTooLong, BufferRead, Waited, Unref, NothingPosted, source, script
  <2> QED BY <1>2, <2>1 DEF Read
<1>6. CASE Aborted \/ Break
  <2>1. UNCHANGED <<idles, timers, handling, readyState, page, lastId, next>> /\ got' = {}
    BY <1>6 DEF Aborted, Break, Forget, source, script
  <2> QED BY <1>2, <2>1 DEF Read
<1>7. CASE IdLine \/ DataLine
  <2>1. UNCHANGED <<idles, timers, handling, readyState, page, next>> /\ next <= MaxEvents
        /\ lastId' \in {lastId, next}
    BY <1>7 DEF IdLine, DataLine, NothingPosted, source, script
  <2>2. Read' BY <2>1, Constants DEF Read
  <2> QED BY <1>2, <2>1, <2>2
<1>8. CASE Answered
  <2>1. Post(Open) /\ UNCHANGED <<next, got, lastId>> BY <1>8 DEF Answered
  <2> QED BY <1>3, <2>1, Constants DEF Read
<1>9. CASE Dispatch
  <2>1. Post(next) /\ got # {} /\ got' = {} /\ next' = next + 1 /\ lastId' = lastId BY <1>9 DEF Dispatch
  <2>2. next \in EventPosts /\ Read' BY <2>1, Constants DEF Read
  <2> QED BY <1>3, <2>1, <2>2
<1>10. CASE Ended
  <2>1. UNCHANGED <<next, got, lastId>> /\ (NothingPosted \/ Post(Fatal) \/ Post(Error)) BY <1>10 DEF Ended
  <2>2. Read' BY <2>1 DEF Read
  <2>3. CASE NothingPosted BY <1>2, <2>2, <2>3 DEF NothingPosted, script
  <2> QED BY <1>3, <2>1, <2>2, <2>3, Constants
<1> QED BY <1>4, <1>5, <1>6, <1>7, <1>8, <1>9, <1>10 DEF WorkerStep

\* The dispatch of a post.
LEMMA RunTyped ==
  ASSUME TypedInv, NEW e \in EventPosts, NEW q \in Seq(EventPosts), idles' \in Seq(EventPosts), Run(e, q)
  PROVE  TypedInv'
<1> USE DEF TypedInv
<1>1. UNCHANGED <<next, got, lastId, worker, page>> BY DEF Run, stream
<1>2. timers' \in Seq(EventPosts)
  <2>1. Append(q, e) \in Seq(EventPosts) OBVIOUS
  <2> QED BY <2>1 DEF Run
<1>3. handling' \in EventPosts \cup {None} BY DEF Run, Queued
<1>4. readyState' \in {CONNECTING, OPEN, CLOSED} BY DEF Run, Invoke, Staged
<1> QED BY <1>1, <1>2, <1>3, <1>4 DEF Queued, Read, Staged

\* The steps of the engine thread, of script and of the page.
LEMMA EngineTyped ==
  TypedInv /\ (DispatchIdle \/ DispatchTimer \/ HandlerEnd \/ PageStep \/ UNCHANGED vars) => TypedInv'
<1> SUFFICES ASSUME TypedInv, DispatchIdle \/ DispatchTimer \/ HandlerEnd \/ PageStep \/ UNCHANGED vars
             PROVE  TypedInv'
  OBVIOUS
<1> USE DEF TypedInv
<1>1. CASE DispatchIdle
  <2>1. idles # <<>> /\ idles \in Seq(EventPosts) /\ timers \in Seq(EventPosts) BY <1>1 DEF DispatchIdle, Queued
  <2>2. Head(idles) \in EventPosts /\ Tail(idles) \in Seq(EventPosts) BY <2>1
  <2> QED BY <1>1, <2>1, <2>2, RunTyped DEF DispatchIdle
<1>2. CASE DispatchTimer
  <2>1. timers # <<>> /\ idles \in Seq(EventPosts) /\ timers \in Seq(EventPosts) BY <1>2 DEF DispatchTimer, Queued
  <2>2. Head(timers) \in EventPosts /\ Tail(timers) \in Seq(EventPosts) BY <2>1
  <2> QED BY <1>2, <2>1, <2>2, RunTyped DEF DispatchTimer
<1>3. CASE HandlerEnd \/ PageStep \/ UNCHANGED vars
  <2>1. UNCHANGED <<idles, timers, next, got, lastId, worker>> /\ handling' \in {handling, None}
    BY <1>3 DEF HandlerEnd, PageStep, CloseMethod, PumpBegin, PumpEnd, FreeBegin, FreeJoin, vars, source, stream,
       script
  <2>2. readyState' \in {readyState, CLOSED} /\ page' \in {page, "joining", "freed"}
    BY <1>3 DEF HandlerEnd, PageStep, CloseMethod, PumpBegin, PumpEnd, FreeBegin, FreeJoin, vars, script
  <2>3. Queued' BY <2>1 DEF Queued
  <2>4. Read' BY <2>1 DEF Read
  <2>5. Staged' BY <2>1, <2>2 DEF Staged
  <2> QED BY <2>3, <2>4, <2>5
<1> QED BY <1>1, <1>2, <1>3

\* The invariant of the types.
LEMMA SourceTyped == SourceSpec => []TypedInv
<1>1. SourceInit => TypedInv
  <2> SUFFICES ASSUME SourceInit PROVE TypedInv OBVIOUS
  <2>1. <<>> \in Seq(EventPosts) OBVIOUS
  <2>2. Queued BY <2>1 DEF SourceInit, Queued
  <2>3. Read BY Constants DEF SourceInit, Read
  <2>4. Staged BY DEF SourceInit, Staged, Stages
  <2> QED BY <2>2, <2>3, <2>4 DEF TypedInv
<1>2. TypedInv /\ [SourceNext]_vars => TypedInv'
  BY WorkerTyped, EngineTyped DEF SourceNext, WorkerStep, PageStep
<1> QED BY <1>1, <1>2, PTL DEF SourceSpec

\* Every variable of an EventSource keeps its type: ns_es_process_line and
\* ns_es_dispatch_event never post what is not an event of the server.
THEOREM SourceTypes == SourceSpec => []SourceTypeOK
<1>1. TypedInv /\ SourceRefs => SourceTypeOK
  <2> SUFFICES ASSUME TypedInv, SourceRefs PROVE SourceTypeOK OBVIOUS
  <2> USE DEF TypedInv
  <2>1. Len(idles) \in Nat /\ Len(timers) \in Nat BY DEF Queued
  <2>2. Held(page # "freed") \in {0, 1} /\ Held(worker # "done") \in {0, 1} /\ Held(handling # None) \in {0, 1}
    BY HeldInt
  <2>3. refs \in Nat /\ pending \in 0..MaxPending BY <2>1, <2>2, SourceAssumption DEF SourceRefs
  <2>4. handling \in Fatal..MaxEvents BY Constants DEF Queued, EventPosts, Fatal, None
  <2> QED BY <2>3, <2>4 DEF Read, Staged, Stages, SourceTypeOK
<1> QED BY <1>1, SourceTyped, SourceCounts, PTL

-----------------------------------------------------------------------------
(* The state that script sees *)

\* The posts that change readyState, and what they make of it.
States     == {Open, Error, Fatal}
StateOf(e) == CASE e = Open -> OPEN [] e = Error -> CONNECTING [] e = Fatal -> CLOSED

\* What readyState will be once the posts of q have run, from r.
Said(s, q, r) ==
  \/ r = s /\ \A i \in 1..Len(q) : q[i] \notin States
  \/ \E i \in 1..Len(q) : /\ q[i] \in States /\ StateOf(q[i]) = s
                          /\ \A j \in 1..Len(q) : j > i => q[j] \notin States

\* Nothing of what changes the state was lost or overtaken.
Plain == ~closed /\ ~detached /\ ~deferred /\ lost \cap States = {}

Over == worker \in {"ending", "done"}

\* What was posted says where the thread is; the end is the last that is.
Foretold ==
  /\ worker = "stream" => Said(OPEN, idles, readyState)
  /\ worker \in {"loop", "connect", "waiting"} => Said(CONNECTING, idles, readyState)
  /\ Over => Said(CLOSED, idles, readyState)
  /\ ~Over => readyState # CLOSED /\ handling # Fatal /\ \A i \in 1..Len(idles) : idles[i] # Fatal
  /\ \A i \in 1..Len(idles) : idles[i] = Fatal => i = Len(idles)
  /\ readyState = CLOSED => idles = <<>>
  /\ handling = Fatal => readyState = CLOSED
  /\ pinned <=> readyState # CLOSED \/ handling = Fatal

StateInv ==
  /\ deferred \/ timers = <<>>
  /\ exit => closed \/ detached
  /\ Plain => Foretold

LEMMA StatesDiffer ==
  /\ Open # Error /\ Open # Fatal /\ Error # Fatal /\ None \notin States /\ States \subseteq Posts
  /\ StateOf(Open) = OPEN /\ StateOf(Error) = CONNECTING /\ StateOf(Fatal) = CLOSED
  /\ OPEN # CLOSED /\ CONNECTING # CLOSED
  /\ \A n \in Nat : n \notin States
BY DEF Open, Error, Fatal, None, States, StateOf, OPEN, CONNECTING, CLOSED, Posts

\* A post that is made.
LEMMA SaidAppend ==
  ASSUME NEW q \in Seq(Posts), NEW e \in Posts, NEW r, NEW o, o = Append(q, e)
  PROVE  /\ e \in States => Said(StateOf(e), o, r)
         /\ e \notin States => \A s : Said(s, q, r) => Said(s, o, r)
<1>1. /\ Len(o) = Len(q) + 1 /\ Len(q) \in Nat /\ o[Len(q) + 1] = e
      /\ \A i \in 1..Len(q) : o[i] = q[i]
  OBVIOUS
<1>2. 1..Len(o) = (1..Len(q)) \cup {Len(q) + 1} BY <1>1
<1>3. ASSUME e \in States PROVE Said(StateOf(e), o, r)
  <2>1. Len(q) + 1 \in 1..Len(o) /\ \A j \in 1..Len(o) : ~(j > Len(q) + 1) BY <1>1
  <2> QED BY <1>1, <1>3, <2>1 DEF Said
<1>4. ASSUME e \notin States, NEW s, Said(s, q, r) PROVE Said(s, o, r)
  <2>1. CASE r = s /\ \A i \in 1..Len(q) : q[i] \notin States BY <1>1, <1>2, <1>4, <2>1 DEF Said
  <2>2. CASE \E i \in 1..Len(q) : /\ q[i] \in States /\ StateOf(q[i]) = s
                                  /\ \A j \in 1..Len(q) : j > i => q[j] \notin States
    BY <1>1, <1>2, <1>4, <2>2 DEF Said
  <2> QED BY <1>4, <2>1, <2>2 DEF Said
<1> QED BY <1>3, <1>4

\* A post that runs.
LEMMA SaidTail ==
  ASSUME NEW q \in Seq(Posts), q # <<>>, NEW r, NEW s, Said(s, q, r), NEW e, e = Head(q),
         NEW o, o = Tail(q), NEW r2, r2 = IF e \in States THEN StateOf(e) ELSE r
  PROVE  Said(s, o, r2)
<1>1. /\ Len(o) = Len(q) - 1 /\ Len(q) \in Nat \ {0} /\ q[1] = e
      /\ \A i \in 1..Len(o) : o[i] = q[i + 1]
  OBVIOUS
<1>2. \A i \in 1..Len(o) : i + 1 \in 1..Len(q) BY <1>1
<1>3. 1 \in 1..Len(q) BY <1>1
<1>4. CASE r = s /\ \A i \in 1..Len(q) : q[i] \notin States
  <2>1. r2 = s BY <1>1, <1>3, <1>4
  <2>2. \A i \in 1..Len(o) : o[i] \notin States BY <1>1, <1>2, <1>4
  <2> QED BY <2>1, <2>2 DEF Said
<1>5. ASSUME NEW i \in 1..Len(q), q[i] \in States, StateOf(q[i]) = s,
             \A j \in 1..Len(q) : j > i => q[j] \notin States
      PROVE  Said(s, o, r2)
  <2>1. CASE i = 1
    <3>1. r2 = s BY <1>1, <1>5, <2>1
    <3>2. \A j \in 1..Len(o) : j + 1 > i BY <2>1
    <3>3. \A j \in 1..Len(o) : o[j] \notin States BY <1>1, <1>2, <1>5, <3>2
    <3> QED BY <3>1, <3>3 DEF Said
  <2>2. CASE i # 1
    <3>1. PICK k \in 1..Len(o) : k + 1 = i
      <4>1. i - 1 \in 1..Len(o) /\ (i - 1) + 1 = i BY <1>1, <2>2
      <4> QED BY <4>1
    <3>2. o[k] = q[i] BY <1>1, <3>1
    <3>3. \A j \in 1..Len(o) : j > k => j + 1 > i BY <3>1
    <3>4. \A j \in 1..Len(o) : j > k => o[j] \notin States BY <1>1, <1>2, <1>5, <3>3
    <3> QED BY <1>5, <3>2, <3>4 DEF Said
  <2> QED BY <2>1, <2>2
<1> QED BY <1>4, <1>5 DEF Said

\* The state at the start.
LEMMA StateInit == SourceInit => StateInv
<1> SUFFICES ASSUME SourceInit PROVE StateInv OBVIOUS
<1>1. /\ idles = <<>> /\ timers = <<>> /\ readyState = CONNECTING /\ pinned = TRUE /\ handling = None
      /\ exit = FALSE /\ worker = "loop"
  BY DEF SourceInit
<1>2. Len(<<>>) = 0 /\ 1..0 = {} OBVIOUS
<1>3. Said(CONNECTING, idles, readyState) BY <1>1, <1>2 DEF Said
<1>4. Foretold BY <1>1, <1>2, <1>3, StatesDiffer DEF Foretold, Over, States
<1> QED BY <1>1, <1>4 DEF StateInv

\* Steps that leave the posts and the state alone, and where the thread is but for
\* what it may be without saying so.
LEMMA SaysNothing ==
  ASSUME StateInv, UNCHANGED <<idles, timers, readyState, handling, pinned, deferred>>,
         closed => closed', detached => detached', lost \subseteq lost',
         exit' => exit \/ closed' \/ detached',
         Plain' => \/ worker' = worker
                   \/ worker \in {"loop", "connect", "waiting"} /\ worker' \in {"loop", "connect", "waiting"}
                   \/ ~Over /\ worker' \in {"failing", "fatal", "failed", "broken"}
                   \/ Over /\ worker' \in {"ending", "done"}
  PROVE  StateInv'
<1>1. Plain' => Plain BY DEF Plain
<1>2. ASSUME Plain' PROVE Foretold'
  <2>1. Foretold BY <1>1, <1>2 DEF StateInv
  <2>2. Over' <=> Over BY <1>2 DEF Over
  <2>3. ~Over => readyState # CLOSED /\ handling # Fatal /\ \A i \in 1..Len(idles) : idles[i] # Fatal
    BY <2>1 DEF Foretold
  <2> QED BY <1>2, <2>1, <2>2, <2>3 DEF Foretold, Over
<1> QED BY <1>2 DEF StateInv

\* What the thread posts.
LEMMA PostSays ==
  ASSUME SourceInv, StateInv, NEW e \in Posts, Post(e), ~Over,
         \/ e = Open /\ worker' = "stream"
         \/ e = Error /\ worker' = "waiting"
         \/ e = Fatal /\ worker' = "ending"
         \/ e \notin States /\ worker' = worker
  PROVE  StateInv'
<1>1. UNCHANGED <<timers, readyState, handling, pinned, deferred, closed, detached, exit>> /\ lost \subseteq lost'
  BY DEF Post, script
<1>2. ASSUME Plain' PROVE Foretold'
  <2>1. Foretold /\ ~detached BY <1>1, <1>2 DEF StateInv, Plain
  <2>2. lost' = lost \cup {e} => e \notin States BY <1>2 DEF Plain
  <2>3. idles \in Seq(Posts) BY DEF SourceInv, Typed
  <2>4. readyState # CLOSED /\ handling # Fatal /\ \A i \in 1..Len(idles) : idles[i] # Fatal
    BY <2>1 DEF Foretold
  <2>5. CASE idles' = idles
    <3>1. e \notin States
      <4>1. lost' = lost \cup {e} \/ idles' = Append(idles, e) BY <2>1 DEF Post
      <4>2. idles' # Append(idles, e)
        <5>1. Len(Append(idles, e)) = Len(idles) + 1 /\ Len(idles) \in Nat BY <2>3, SeqAppend
        <5>2. Len(idles) # Len(idles) + 1 BY <5>1
        <5> QED BY <2>5, <5>1, <5>2
      <4> QED BY <2>2, <4>1, <4>2
    <3>2. worker' = worker BY <3>1 DEF States
    <3> QED BY <1>1, <2>1, <2>5, <3>2 DEF Foretold, Over
  <2>6. CASE idles' = Append(idles, e)
    <3>1. PICK o : o = Append(idles, e) OBVIOUS
    <3>2. /\ e \in States => Said(StateOf(e), o, readyState)
          /\ e \notin States => \A s : Said(s, idles, readyState) => Said(s, o, readyState)
      BY <2>3, <3>1, SaidAppend
    <3>3. /\ Len(o) = Len(idles) + 1 /\ Len(idles) \in Nat /\ o[Len(idles) + 1] = e
          /\ \A i \in 1..Len(idles) : o[i] = idles[i]
      BY <2>3, <3>1
    <3>4. 1..Len(o) = (1..Len(idles)) \cup {Len(idles) + 1} BY <3>3
    <3>5. \A i \in 1..Len(o) : o[i] = Fatal => i = Len(o) /\ e = Fatal BY <2>4, <3>3, <3>4
    <3>6. idles' = o /\ readyState' = readyState /\ handling' = handling /\ pinned' = pinned
      BY <1>1, <2>6, <3>1
    <3>7. /\ worker' = "stream" => Said(OPEN, o, readyState)
          /\ worker' \in {"loop", "connect", "waiting"} => Said(CONNECTING, o, readyState)
          /\ Over' => Said(CLOSED, o, readyState) /\ e = Fatal
          /\ ~Over' => e # Fatal
      <4>1. CASE e \in States BY <3>2, <4>1, StatesDiffer DEF Over
      <4>2. CASE e \notin States
        <5>1. worker' = worker BY <4>2 DEF States
        <5>2. ~Over' /\ e # Fatal BY <4>2, <5>1 DEF Over, States
        <5> QED BY <2>1, <3>2, <4>2, <5>1, <5>2 DEF Foretold
      <4> QED BY <4>1, <4>2
    <3>8. ~Over' => \A i \in 1..Len(o) : o[i] # Fatal BY <3>5, <3>7
    <3>9. pinned' <=> readyState' # CLOSED \/ handling' = Fatal BY <2>1, <3>6 DEF Foretold
    <3> QED BY <2>4, <3>5, <3>6, <3>7, <3>8, <3>9 DEF Foretold
  <2> QED BY <2>1, <2>5, <2>6 DEF Post
<1> QED BY <1>1, <1>2 DEF StateInv

\* The steps of the thread.
LEMMA WorkerSays == SourceInv /\ StateInv /\ WorkerStep => StateInv'
<1> SUFFICES ASSUME SourceInv, StateInv, WorkerStep PROVE StateInv' OBVIOUS
<1>1. CASE LoopHead \/ Refused \/ Unreadable \/ LineTooLong \/ EventTooLong \/ BufferRead \/ DataLine \/ Waited
  <2>1. UNCHANGED <<idles, timers, readyState, handling, pinned, deferred, closed, detached, lost, exit>>
    BY <1>1 DEF LoopHead, Refused, Unreadable, LineTooLong, EventTooLong, BufferRead, DataLine, Waited, NothingPosted, source, script, notes
  <2>2. exit /\ Plain => FALSE BY DEF StateInv, Plain
  <2>3. Plain' => Plain BY <2>1 DEF Plain
  <2>4. Plain' => \/ worker' = worker
                  \/ worker \in {"loop", "connect", "waiting"} /\ worker' \in {"loop", "connect", "waiting"}
                  \/ ~Over /\ worker' \in {"failing", "fatal", "failed", "broken"}
    BY <1>1, <2>2, <2>3 DEF LoopHead, Refused, Unreadable, LineTooLong, EventTooLong, BufferRead, DataLine, Waited, Over
  <2> QED BY <2>1, <2>4, SaysNothing
<1>2. CASE Aborted \/ Break
  <2>1. UNCHANGED <<idles, timers, readyState, handling, pinned, deferred, closed, detached, exit>>
        /\ lost \subseteq lost'
    BY <1>2 DEF Aborted, Break, Forget, source, script
  <2>2. ~Over /\ worker' \in {"failing", "fatal", "failed", "broken"} BY <1>2 DEF Aborted, Break, Over
  <2> QED BY <2>1, <2>2, SaysNothing
<1>3. CASE IdLine \/ Unref
  <2>1. UNCHANGED <<idles, timers, readyState, handling, pinned, deferred, closed, detached, lost, exit>>
    BY <1>3 DEF IdLine, Unref, script, notes
  <2>2. CASE IdLine
    <3>1. worker' = worker BY <2>2 DEF IdLine
    <3> QED BY <2>1, <3>1, SaysNothing
  <2>3. CASE Unref
    <3>1. Over /\ worker' \in {"ending", "done"} BY <2>3 DEF Unref, Over
    <3> QED BY <2>1, <3>1, SaysNothing
  <2> QED BY <1>3, <2>2, <2>3
<1>4. CASE Answered
  <2>1. Post(Open) /\ worker' = "stream" /\ ~Over /\ Open \in Posts
    BY <1>4, StatesDiffer DEF Answered, Over, States
  <2> QED BY <2>1, PostSays
<1>5. CASE Dispatch
  <2>1. Post(next) /\ worker' = worker /\ ~Over BY <1>5 DEF Dispatch, Reading, Over
  <2>2. next \in Posts /\ next \notin States BY StatesDiffer DEF SourceInv, Typed, Posts, None
  <2> QED BY <2>1, <2>2, PostSays
<1>6. CASE Ended
  <2>1. ~Over BY <1>6 DEF Ended, Over
  <2>2. CASE exit
    <3>1. NothingPosted BY <1>6, <2>2 DEF Ended
    <3>2. UNCHANGED <<idles, timers, readyState, handling, pinned, deferred, closed, detached, lost, exit>>
      BY <3>1 DEF NothingPosted, source, script, notes
    <3>3. ~Plain' BY <2>2, <3>2 DEF StateInv, Plain
    <3> QED BY <3>2, <3>3, SaysNothing
  <2>3. CASE ~exit
    <3>1. \/ Post(Fatal) /\ worker' = "ending"
          \/ Post(Error) /\ worker' = "waiting"
      BY <1>6, <2>3 DEF Ended
    <3>2. Fatal \in Posts /\ Error \in Posts BY StatesDiffer DEF States
    <3> QED BY <2>1, <3>1, <3>2, PostSays
  <2> QED BY <2>2, <2>3
<1> QED BY <1>1, <1>2, <1>3, <1>4, <1>5, <1>6 DEF WorkerStep

\* What runs does what it says.
LEMMA RunSays ==
  ASSUME SourceInv, StateInv, DispatchIdle \/ DispatchTimer
  PROVE  StateInv'
<1>1. PICK e, q : Run(e, q)
                  /\ \/ DispatchTimer
                     \/ LoopRuns /\ idles # <<>> /\ idles' = Tail(idles) /\ e = Head(idles) /\ q = timers
  BY DEF DispatchIdle, DispatchTimer
<1>2. UNCHANGED <<exit, detached, closed, lost, pinned, worker>> /\ (deferred => deferred')
  BY <1>1 DEF Run, stream
<1>3. deferred' \/ timers' = <<>>
  <2>1. CASE busy /\ ~detached BY <1>1, <2>1 DEF Run
  <2>2. CASE ~(busy /\ ~detached)
    <3>1. deferred' = deferred /\ timers' = q BY <1>1, <2>2 DEF Run
    <3>2. CASE deferred BY <3>1, <3>2
    <3>3. CASE ~deferred
      <4>1. timers = <<>> BY <3>3 DEF StateInv
      <4>2. q = timers BY <1>1, <4>1 DEF DispatchTimer
      <4> QED BY <3>1, <4>1, <4>2
    <3> QED BY <3>2, <3>3
  <2> QED BY <2>1, <2>2
<1>4. ASSUME Plain' PROVE Foretold'
  <2>1. Plain /\ Foretold /\ ~deferred' /\ ~detached
    BY <1>2, <1>4 DEF StateInv, Plain
  <2>2. timers = <<>> BY <2>1 DEF StateInv, Plain
  <2>3. LoopRuns /\ idles # <<>> /\ idles' = Tail(idles) /\ e = Head(idles)
    BY <1>1, <2>2 DEF DispatchTimer
  <2>4. ~busy BY <1>1, <2>1 DEF Run
  <2>5. Invoke(e) /\ handling' = e BY <1>1, <2>1, <2>4 DEF Run
  <2>6. handling = None BY <2>3, <2>4 DEF LoopRuns
  <2>7. idles \in Seq(Posts) BY DEF SourceInv, Typed
  <2>8. PICK o : o = Tail(idles) OBVIOUS
  <2>9. /\ Len(o) = Len(idles) - 1 /\ Len(idles) \in Nat \ {0} /\ idles[1] = e /\ o \in Seq(Posts)
        /\ \A i \in 1..Len(o) : o[i] = idles[i + 1]
    BY <2>3, <2>7, <2>8
  <2>10. readyState' = IF e \in States THEN StateOf(e) ELSE readyState
    BY <2>5 DEF Invoke, States, StateOf
  <2>11. \A s : Said(s, idles, readyState) => Said(s, o, readyState')
    BY <2>3, <2>7, <2>8, <2>10, SaidTail
  <2>12. \A i \in 1..Len(o) : i + 1 \in 1..Len(idles) BY <2>9
  <2>13. 1 \in 1..Len(idles) BY <2>9
  <2>14. ~Over => e # Fatal /\ \A i \in 1..Len(o) : o[i] # Fatal
    BY <2>1, <2>9, <2>12, <2>13 DEF Foretold
  <2>15. readyState # CLOSED BY <2>1, <2>3 DEF Foretold
  <2>16. e # Fatal => readyState' # CLOSED BY <2>10, <2>15, StatesDiffer DEF States
  <2>17. e = Fatal => readyState' = CLOSED /\ o = <<>>
    <3>1. SUFFICES ASSUME e = Fatal PROVE readyState' = CLOSED /\ o = <<>> OBVIOUS
    <3>2. 1 = Len(idles)
      <4>1. idles[1] = Fatal BY <2>9, <3>1
      <4> QED BY <2>1, <2>13, <4>1 DEF Foretold
    <3>3. PICK n \in Nat : n = Len(idles) /\ Len(o) = n - 1 BY <2>9
    <3>4. Len(o) = 0 BY <3>2, <3>3
    <3>5. o = <<>> BY <2>9, <3>4
    <3>6. e \in States BY <3>1 DEF States
    <3> QED BY <2>10, <3>1, <3>5, <3>6, StatesDiffer
  <2>18. \A i \in 1..Len(o) : o[i] = Fatal => i = Len(o)
    <3>1. ASSUME NEW i \in 1..Len(o), o[i] = Fatal PROVE i = Len(o)
      <4>1. idles[i + 1] = Fatal /\ i + 1 \in 1..Len(idles) BY <2>9, <2>12, <3>1
      <4>2. i + 1 = Len(idles) BY <2>1, <4>1 DEF Foretold
      <4> QED BY <2>9, <4>2
    <3> QED BY <3>1
  <2>19. pinned BY <2>1, <2>15 DEF Foretold
  <2>20. idles' = o /\ worker' = worker /\ handling' = e /\ (pinned' <=> pinned) BY <1>2, <2>3, <2>5, <2>8
  <2>21. Over' <=> Over BY <2>20 DEF Over
  <2>22. /\ worker' = "stream" => Said(OPEN, o, readyState')
         /\ worker' \in {"loop", "connect", "waiting"} => Said(CONNECTING, o, readyState')
         /\ Over' => Said(CLOSED, o, readyState')
    BY <2>1, <2>11, <2>20, <2>21 DEF Foretold
  <2> QED BY <2>14, <2>16, <2>17, <2>18, <2>19, <2>20, <2>21, <2>22 DEF Foretold
<1> QED BY <1>2, <1>3, <1>4 DEF StateInv

\* The handlers return: the end lets go of the object.
LEMMA EndSays == SourceInv /\ StateInv /\ HandlerEnd => StateInv'
<1> SUFFICES ASSUME SourceInv, StateInv, HandlerEnd PROVE StateInv' OBVIOUS
<1>1. /\ handling # None /\ handling' = None /\ pinned' = (pinned /\ handling # Fatal)
      /\ UNCHANGED <<idles, timers, exit, detached, readyState, deferred, closed, lost, worker>>
  BY DEF HandlerEnd, stream, notes
<1>2. ASSUME Plain' PROVE Foretold'
  <2>1. Foretold BY <1>1, <1>2 DEF StateInv, Plain
  <2>2. None # Fatal BY DEF None, Fatal
  <2>3. Over' <=> Over BY <1>1 DEF Over
  <2>4. pinned' <=> readyState # CLOSED BY <1>1, <2>1 DEF Foretold
  <2> QED BY <1>1, <2>1, <2>2, <2>3, <2>4 DEF Foretold
<1> QED BY <1>1, <1>2 DEF StateInv

\* The steps of script and of the page.
LEMMA PageSays == SourceInv /\ StateInv /\ (PageStep \/ UNCHANGED vars) => StateInv'
<1> SUFFICES ASSUME SourceInv, StateInv, PageStep \/ UNCHANGED vars PROVE StateInv' OBVIOUS
<1>1. CASE CloseMethod
  <2>1. closed' = TRUE /\ timers' = timers /\ deferred' = deferred BY <1>1 DEF CloseMethod
  <2> QED BY <2>1 DEF StateInv, Plain
<1>2. CASE PumpBegin \/ PumpEnd \/ FreeBegin \/ FreeJoin \/ UNCHANGED vars
  <2>1. UNCHANGED <<idles, timers, readyState, handling, pinned, deferred, closed, lost, worker>>
    BY <1>2 DEF PumpBegin, PumpEnd, FreeBegin, FreeJoin, vars, source, stream, script, notes
  <2>2. (detached => detached') /\ (exit' => exit \/ detached')
    BY <1>2 DEF PumpBegin, PumpEnd, FreeBegin, FreeJoin, vars, source
  <2> QED BY <2>1, <2>2, SaysNothing
<1> QED BY <1>1, <1>2 DEF PageStep

\* When nothing is under way readyState says what the thread does, and the object is
\* pinned as long as it does something, for any limit: ns_es_post, the callbacks of
\* js.c and ns_es_worker.
THEOREM StateTold == SourceSpec => []StateAtRest
<1>1. SourceInit => SourceInv /\ TypedInv /\ StateInv
  <2>1. SourceInit => TypedInv
    <3> SUFFICES ASSUME SourceInit PROVE TypedInv OBVIOUS
    <3>1. <<>> \in Seq(EventPosts) OBVIOUS
    <3>2. Queued BY <3>1 DEF SourceInit, Queued
    <3>3. Read BY Constants DEF SourceInit, Read
    <3>4. Staged BY DEF SourceInit, Staged, Stages
    <3> QED BY <3>2, <3>3, <3>4 DEF TypedInv
  <2> QED BY <2>1, InitInv, StateInit
<1>2. SourceInv /\ TypedInv /\ StateInv /\ [SourceNext]_vars => SourceInv' /\ TypedInv' /\ StateInv'
  <2> SUFFICES ASSUME SourceInv, TypedInv, StateInv, [SourceNext]_vars
               PROVE  SourceInv' /\ TypedInv' /\ StateInv'
    OBVIOUS
  <2>1. WorkerStep \/ DispatchIdle \/ DispatchTimer \/ HandlerEnd \/ PageStep \/ UNCHANGED vars
    BY DEF SourceNext, WorkerStep, PageStep
  <2>2. SourceInv'
    BY <2>1, WorkerInv, EngineInv, PageInv, CountsNothing
       DEF vars, source, stream, script, SourceInv, Typed
  <2>3. TypedInv' BY <2>1, WorkerTyped, EngineTyped
  <2>4. StateInv' BY <2>1, WorkerSays, RunSays, EndSays, PageSays
  <2> QED BY <2>2, <2>3, <2>4
<1>3. TypedInv /\ StateInv => StateAtRest
  <2> SUFFICES ASSUME TypedInv, StateInv, idles = <<>>, timers = <<>>, handling = None, ~closed, ~detached,
                      ~deferred, lost \cap {Open, Error, Fatal} = {}
               PROVE  CASE worker = "stream" -> readyState = OPEN /\ pinned
                        [] worker \in {"loop", "connect", "waiting"} -> readyState = CONNECTING /\ pinned
                        [] worker \in {"failing", "fatal", "broken", "failed"} -> readyState # CLOSED /\ pinned
                        [] OTHER -> readyState = CLOSED /\ ~pinned
    BY DEF StateAtRest
  <2>1. Foretold BY DEF StateInv, Plain, States
  <2>2. Len(idles) = 0 /\ 1..0 = {} OBVIOUS
  <2>3. \A s : Said(s, idles, readyState) => readyState = s BY <2>2 DEF Said
  <2>4. None # Fatal /\ OPEN # CLOSED /\ CONNECTING # CLOSED BY StatesDiffer DEF States
  <2>5. worker \in Stages BY DEF TypedInv, Staged
  <2>6. CASE worker = "stream" BY <2>1, <2>3, <2>4, <2>6 DEF Foretold
  <2>7. CASE worker \in {"loop", "connect", "waiting"} BY <2>1, <2>3, <2>4, <2>7 DEF Foretold
  <2>8. CASE worker \in {"failing", "fatal", "broken", "failed"} BY <2>1, <2>8 DEF Foretold, Over
  <2>9. CASE worker \in {"ending", "done"} BY <2>1, <2>3, <2>4, <2>9 DEF Foretold, Over
  <2> QED BY <2>5, <2>6, <2>7, <2>8, <2>9 DEF Stages
<1> QED BY <1>1, <1>2, <1>3, PTL DEF SourceSpec

-----------------------------------------------------------------------------
(* Each event once, and in order *)

\* What has come of the stream goes on behind the last id; lines are kept only
\* while the transfer goes on.
Follows ==
  /\ got # {} => Reading \/ worker = "fatal"
  /\ "id" \in got => next = lastId
  /\ Reading \/ worker = "connect" => next = IF "id" \in got THEN lastId ELSE lastId + 1

\* The events that are done with, or posted.
Top == IF "id" \in got THEN lastId - 1 ELSE lastId

\* The events given, d, and those on their way, q, are in order up to top.
Ordered(d, q, top) ==
  /\ \A i \in DOMAIN d : d[i] <= top
  /\ \A i \in DOMAIN q : q[i] <= top
  /\ \A i, j \in DOMAIN d : i < j => d[i] < d[j]
  /\ \A i, j \in DOMAIN q : i < j /\ q[i] > 0 /\ q[j] > 0 => q[i] < q[j]
  /\ \A i \in DOMAIN d, j \in DOMAIN q : q[j] > 0 => d[i] < q[j]

Given == delivered \in Seq(1..MaxEvents)
Line  == ~deferred => timers = <<>> /\ Ordered(delivered, idles, Top)

InPlace == ~detached => \A n \in 1..MaxEvents : Places(n) = Held(n <= lastId)

OnceInv == Follows /\ Given /\ Line /\ InPlace

\* Where e is in q.
Spots(q, e) == {i \in DOMAIN q : q[i] = e}

\* An event is in a sequence a number of times.
LEMMA SpotsFinite ==
  ASSUME NEW S, NEW q \in Seq(S), NEW e
  PROVE  /\ Len(q) \in Nat /\ DOMAIN q = 1..Len(q)
         /\ IsFiniteSet(Spots(q, e)) /\ Count(q, e) = Cardinality(Spots(q, e)) /\ Count(q, e) \in Nat
<1>1. Len(q) \in Nat /\ DOMAIN q = 1..Len(q)
  BY LenProperties
<1>2. IsFiniteSet(1..Len(q)) /\ Spots(q, e) \in SUBSET (1..Len(q))
  BY <1>1, FS_Interval DEF Spots
<1>3. IsFiniteSet(Spots(q, e))
  BY <1>2, FS_Subset
<1> QED BY <1>1, <1>3, FS_CardinalityType DEF Count, Spots

\* One more if it is appended.
LEMMA CountAppend ==
  ASSUME NEW S, NEW q \in Seq(S), NEW x \in S, NEW e
  PROVE  Count(Append(q, x), e) = Count(q, e) + Held(x = e)
<1> DEFINE r == Append(q, x)
           m == Len(q) + 1
<1>1. r \in Seq(S) /\ Len(r) = m /\ r[m] = x /\ \A i \in 1..Len(q) : r[i] = q[i]
  BY AppendProperties
<1>2. /\ Len(q) \in Nat /\ DOMAIN q = 1..Len(q)
      /\ IsFiniteSet(Spots(q, e)) /\ Count(q, e) = Cardinality(Spots(q, e)) /\ Count(q, e) \in Nat
  BY SpotsFinite
<1>3. DOMAIN r = 1..m /\ Count(r, e) = Cardinality(Spots(r, e))
  BY <1>1, SpotsFinite
<1>4. m \notin Spots(q, e) /\ DOMAIN r = DOMAIN q \cup {m} /\ m \notin DOMAIN q
  BY <1>2, <1>3 DEF Spots
<1>7. Held(x = e) = IF x = e THEN 1 ELSE 0
  BY DEF Held
<1> HIDE DEF r, m
<1>5. CASE x = e
  <2>1. Spots(r, e) = Spots(q, e) \cup {m}
    BY <1>1, <1>2, <1>4, <1>5 DEF Spots
  <2>2. Cardinality(Spots(q, e) \cup {m}) = Cardinality(Spots(q, e)) + 1
    BY <1>2, <1>4, FS_AddElement
  <2> QED BY <1>2, <1>3, <1>5, <1>7, <2>1, <2>2 DEF r
<1>6. CASE x # e
  <2>1. Spots(r, e) = Spots(q, e)
    BY <1>1, <1>2, <1>4, <1>6 DEF Spots
  <2> QED BY <1>2, <1>3, <1>6, <1>7, <2>1 DEF r
<1> QED BY <1>5, <1>6

\* One less if it is taken from the front: what is behind moves up by one.
LEMMA CountTail ==
  ASSUME NEW S, NEW q \in Seq(S), q # <<>>, NEW e
  PROVE  Count(q, e) = Count(Tail(q), e) + Held(Head(q) = e)
<1> DEFINE t == Tail(q)
<1>1. /\ t \in Seq(S) /\ Len(t) = Len(q) - 1 /\ Head(q) = q[1]
      /\ \A i \in 1..Len(t) : t[i] = q[i + 1]
  BY HeadTailProperties
<1>2. /\ Len(q) \in Nat /\ DOMAIN q = 1..Len(q)
      /\ IsFiniteSet(Spots(q, e)) /\ Count(q, e) = Cardinality(Spots(q, e)) /\ Count(q, e) \in Nat
  BY SpotsFinite
<1>3. /\ Len(t) \in Nat /\ DOMAIN t = 1..Len(t)
      /\ IsFiniteSet(Spots(t, e)) /\ Count(t, e) = Cardinality(Spots(t, e)) /\ Count(t, e) \in Nat
  BY <1>1, SpotsFinite
<1> HIDE DEF t
<1>4. Len(q) >= 1
  BY <1>1, <1>2, <1>3
<1> DEFINE rest == Spots(q, e) \ {1}
<1>5. Cardinality(rest) = Cardinality(Spots(t, e))
  <2> DEFINE f == [i \in Spots(t, e) |-> i + 1]
  <2>1. \A i \in Spots(t, e) : i \in Nat /\ i + 1 \in rest
    BY <1>1, <1>2, <1>3 DEF Spots
  <2>2. f \in [Spots(t, e) -> rest]
    BY <2>1
  <2>3. \A a, b \in Spots(t, e) : f[a] = f[b] => a = b
    BY <2>1
  <2>4. \A k \in rest : \E i \in Spots(t, e) : f[i] = k
    <3> TAKE k \in rest
    <3>1. k \in 2..Len(q) /\ q[k] = e
      BY <1>2 DEF Spots
    <3>2. k - 1 \in 1..Len(t) /\ (k - 1) + 1 = k
      BY <1>1, <1>2, <3>1
    <3>3. k - 1 \in Spots(t, e)
      BY <1>1, <1>3, <3>1, <3>2 DEF Spots
    <3> QED BY <3>2, <3>3
  <2>5. f \in Bijection(Spots(t, e), rest)
    BY <2>2, <2>3, <2>4, Fun_IsBij
  <2>6. ExistsBijection(Spots(t, e), rest)
    BY <2>5, Fun_ExistsBij
  <2> QED BY <1>3, <2>6, FS_Bijection
<1>6. Cardinality(rest) = IF 1 \in Spots(q, e) THEN Cardinality(Spots(q, e)) - 1 ELSE Cardinality(Spots(q, e))
  BY <1>2, FS_RemoveElement
<1>7. 1 \in Spots(q, e) <=> Head(q) = e
  BY <1>1, <1>2, <1>4 DEF Spots
<1>8. Held(Head(q) = e) = IF Head(q) = e THEN 1 ELSE 0
  BY DEF Held
<1> QED BY <1>2, <1>3, <1>5, <1>6, <1>7, <1>8 DEF t

-----------------------------------------------------------------------------
\* The numbers of the posts.
LEMMA PostNumbers ==
  /\ MaxEvents \in Nat /\ EventPosts \in SUBSET Int /\ (1..MaxEvents) \in SUBSET EventPosts
  /\ Open < 0 /\ Error < 0 /\ Fatal < 0 /\ {Open, Error, Fatal} \in SUBSET EventPosts
BY Constants DEF EventPosts, Open, Error, Fatal

\* Where the events that have come end.
LEMMA TopNumber == ASSUME TypedInv, Follows PROVE Top \in Nat /\ (Reading => Top = next - 1)
<1>1. lastId \in Nat /\ next \in Nat \ {0}
  BY PostNumbers DEF TypedInv, Read
<1>2. CASE "id" \in got
  <2>1. next = lastId /\ Top = lastId - 1
    BY <1>2 DEF Follows, Top
  <2> QED BY <1>1, <2>1
<1>3. CASE "id" \notin got
  <2>1. Top = lastId /\ (Reading => next = lastId + 1)
    BY <1>3 DEF Follows, Top
  <2> QED BY <1>1, <2>1
<1> QED BY <1>2, <1>3

\* The elements of a sequence of numbers.
LEMMA Elements ==
  ASSUME NEW S \in SUBSET Int, NEW q \in Seq(S)
  PROVE  Len(q) \in Nat /\ DOMAIN q = 1..Len(q) /\ \A i \in DOMAIN q : q[i] \in Int
<1>1. Len(q) \in Nat /\ q \in [1..Len(q) -> S] /\ DOMAIN q = 1..Len(q)
  BY LenProperties
<1>2. \A i \in DOMAIN q : q[i] \in S
  BY <1>1
<1> QED BY <1>1, <1>2

\* A post comes behind what is in order.
LEMMA OrderedPost ==
  ASSUME NEW d \in Seq(1..MaxEvents), NEW q \in Seq(EventPosts), NEW e \in EventPosts,
         NEW top \in Int, NEW above \in Int, Ordered(d, q, top),
         top <= above, e <= above, e > 0 => top < e
  PROVE  Ordered(d, Append(q, e), above)
<1> DEFINE r == Append(q, e)
<1>1. /\ Len(d) \in Nat /\ DOMAIN d = 1..Len(d) /\ \A i \in DOMAIN d : d[i] \in Int
      /\ Len(q) \in Nat /\ DOMAIN q = 1..Len(q) /\ \A i \in DOMAIN q : q[i] \in Int
      /\ e \in Int
  <2>1. 1..MaxEvents \in SUBSET Int /\ EventPosts \in SUBSET Int
    BY PostNumbers
  <2> QED BY <2>1, Elements
<1>2. /\ DOMAIN r = 1..(Len(q) + 1) /\ r[Len(q) + 1] = e /\ \A i \in DOMAIN q : r[i] = q[i]
  BY <1>1, AppendProperties, LenProperties
<1> HIDE DEF r
<1>3. \A i \in DOMAIN r : i \in DOMAIN q \/ (i = Len(q) + 1 /\ r[i] = e)
  BY <1>1, <1>2
<1>4. \A i \in DOMAIN d : d[i] <= above
  BY <1>1 DEF Ordered
<1>5. \A i \in DOMAIN r : r[i] <= above
  BY <1>1, <1>2, <1>3 DEF Ordered
<1>6. ASSUME NEW i \in DOMAIN r, NEW j \in DOMAIN r, i < j, r[i] > 0, r[j] > 0 PROVE r[i] < r[j]
  <2>1. i \in DOMAIN q /\ r[i] = q[i] /\ q[i] <= top
    BY <1>1, <1>2, <1>3, <1>6 DEF Ordered
  <2>2. CASE j \in DOMAIN q
    BY <1>2, <1>6, <2>1, <2>2 DEF Ordered
  <2>3. CASE j = Len(q) + 1 /\ r[j] = e
    BY <1>1, <1>6, <2>1, <2>3
  <2> QED BY <1>3, <2>2, <2>3
<1>7. ASSUME NEW i \in DOMAIN d, NEW j \in DOMAIN r, r[j] > 0 PROVE d[i] < r[j]
  <2>1. d[i] <= top /\ d[i] \in Int
    BY <1>1 DEF Ordered
  <2>2. CASE j \in DOMAIN q
    BY <1>2, <1>7, <2>2 DEF Ordered
  <2>3. CASE j = Len(q) + 1 /\ r[j] = e
    BY <1>1, <1>7, <2>1, <2>3
  <2> QED BY <1>3, <2>2, <2>3
<1>8. \A i, j \in DOMAIN d : i < j => d[i] < d[j]
  BY DEF Ordered
<1>9. Ordered(d, r, above)
  BY <1>4, <1>5, <1>6, <1>7, <1>8 DEF Ordered
<1> QED BY <1>9 DEF r

\* The first post leaves the others in order, and if it is an event it comes behind
\* those given before.
LEMMA OrderedGive ==
  ASSUME NEW d \in Seq(1..MaxEvents), NEW q \in Seq(EventPosts), q # <<>>, NEW e, e = Head(q),
         NEW top \in Int, Ordered(d, q, top)
  PROVE  Ordered(d, Tail(q), top) /\ (e \in 1..MaxEvents => Ordered(Append(d, e), Tail(q), top))
<1> DEFINE t == Tail(q)
           g == Append(d, e)
<1>1. /\ Len(d) \in Nat /\ DOMAIN d = 1..Len(d) /\ \A i \in DOMAIN d : d[i] \in Int
      /\ Len(q) \in Nat /\ DOMAIN q = 1..Len(q) /\ \A i \in DOMAIN q : q[i] \in Int
  <2>1. 1..MaxEvents \in SUBSET Int /\ EventPosts \in SUBSET Int
    BY PostNumbers
  <2> QED BY <2>1, Elements
<1>2. /\ t \in Seq(EventPosts) /\ Len(t) = Len(q) - 1 /\ e = q[1]
      /\ \A i \in 1..Len(t) : t[i] = q[i + 1]
  BY HeadTailProperties
<1>3. DOMAIN t = 1..Len(t) /\ Len(t) \in Nat
  BY <1>2, LenProperties
<1>4. e \in 1..MaxEvents => /\ DOMAIN g = 1..(Len(d) + 1) /\ g[Len(d) + 1] = e
                            /\ \A i \in DOMAIN d : g[i] = d[i]
  BY <1>1, AppendProperties, LenProperties
<1> HIDE DEF t, g
<1>5. \A i \in DOMAIN t : i \in Nat /\ i + 1 \in DOMAIN q /\ t[i] = q[i + 1] /\ 1 < i + 1
  BY <1>1, <1>2, <1>3
<1>6. 1 \in DOMAIN q /\ e \in Int
  BY <1>1, <1>2, <1>3
<1>7. Ordered(d, t, top)
  <2>1. \A i, j \in DOMAIN t : i < j => i + 1 < j + 1
    BY <1>5
  <2>2. \A i, j \in DOMAIN t : i < j /\ t[i] > 0 /\ t[j] > 0 => t[i] < t[j]
    BY <1>5, <2>1 DEF Ordered
  <2> QED BY <1>5, <2>2 DEF Ordered
<1>8. ASSUME e \in 1..MaxEvents PROVE Ordered(g, t, top)
  <2>1. /\ DOMAIN g = 1..(Len(d) + 1) /\ \A i \in DOMAIN d : g[i] = d[i]
        /\ \A i \in DOMAIN g : i \in DOMAIN d \/ (i = Len(d) + 1 /\ g[i] = e)
    BY <1>1, <1>4, <1>8
  <2>2. e > 0 /\ e <= top /\ \A i \in DOMAIN d : d[i] < e
    BY <1>2, <1>6, <1>8 DEF Ordered
  <2>3. \A i \in DOMAIN g : g[i] <= top
    BY <2>1, <2>2 DEF Ordered
  <2>4. ASSUME NEW i \in DOMAIN g, NEW j \in DOMAIN g, i < j PROVE g[i] < g[j]
    <3>1. i \in DOMAIN d /\ g[i] = d[i]
      BY <1>1, <2>1, <2>4
    <3>2. CASE j \in DOMAIN d
      BY <2>1, <2>4, <3>1, <3>2 DEF Ordered
    <3>3. CASE j = Len(d) + 1 /\ g[j] = e
      BY <2>2, <3>1, <3>3
    <3> QED BY <2>1, <3>2, <3>3
  <2>5. ASSUME NEW i \in DOMAIN g, NEW j \in DOMAIN t, t[j] > 0 PROVE g[i] < t[j]
    <3>1. CASE i \in DOMAIN d
      BY <1>7, <2>1, <2>5, <3>1 DEF Ordered
    <3>2. CASE g[i] = e
      BY <1>2, <1>5, <1>6, <2>2, <2>5, <3>2 DEF Ordered
    <3> QED BY <2>1, <3>1, <3>2
  <2>6. /\ \A i \in DOMAIN t : t[i] <= top
        /\ \A i, j \in DOMAIN t : i < j /\ t[i] > 0 /\ t[j] > 0 => t[i] < t[j]
    BY <1>7 DEF Ordered
  <2> QED BY <2>3, <2>4, <2>5, <2>6 DEF Ordered
<1> QED BY <1>7, <1>8 DEF t, g

-----------------------------------------------------------------------------
\* A step that leaves the stream alone.
Aside == UNCHANGED <<stream, lastId>>

\* The stream goes on behind the last id.
LEMMA FollowsStep == TypedInv /\ Follows /\ (WorkerStep \/ Aside) => Follows'
<1> SUFFICES ASSUME TypedInv, Follows, WorkerStep \/ Aside PROVE Follows' OBVIOUS
<1> USE DEF Reading
<1>1. CASE Aside BY <1>1 DEF Aside, stream, Follows
<1>2. CASE LoopHead
  <2>1. got = {} /\ lastId' = lastId BY <1>2 DEF LoopHead, NothingPosted, source, Follows
  <2>2. CASE exit BY <1>2, <2>1, <2>2 DEF LoopHead, Follows
  <2>3. CASE ~exit BY <1>2, <2>1, <2>3 DEF LoopHead, Resume, Follows
  <2> QED BY <2>2, <2>3
<1>3. CASE Answered BY <1>3 DEF Answered, Follows
<1>4. CASE Refused \/ Unreadable \/ LineTooLong \/ EventTooLong \/ BufferRead \/ Waited
  BY <1>4 DEF Refused, Unreadable, LineTooLong, EventTooLong, BufferRead, Waited, NothingPosted, source, Follows
<1>5. CASE Aborted \/ Break
  BY <1>5 DEF Aborted, Break, Forget, source, Follows
<1>6. CASE IdLine
  <2>1. got' = got \cup {"id"} /\ lastId' = next /\ next' = next /\ worker' = worker /\ Reading
    BY <1>6 DEF IdLine
  <2> QED BY <2>1 DEF Follows
<1>7. CASE DataLine
  <2>1. got' = got \cup {"data"} /\ UNCHANGED <<lastId, next, worker>> /\ Reading
    BY <1>7 DEF DataLine, NothingPosted, source
  <2>2. "id" \in got' <=> "id" \in got BY <2>1
  <2> QED BY <2>1, <2>2 DEF Follows
<1>8. CASE Dispatch
  <2>1. "id" \in got /\ got' = {} /\ next' = next + 1 /\ UNCHANGED <<lastId, worker>> /\ Reading
    BY <1>8 DEF Dispatch
  <2> QED BY <2>1 DEF Follows
<1>9. CASE Ended \/ Unref
  <2>1. got = {} BY <1>9 DEF Ended, Unref, Follows
  <2>2. UNCHANGED <<got, next, lastId>> /\ worker' \in {"ending", "waiting", "done"} BY <1>9 DEF Ended, Unref
  <2> QED BY <2>1, <2>2 DEF Follows
<1> QED BY <1>1, <1>2, <1>3, <1>4, <1>5, <1>6, <1>7, <1>8, <1>9 DEF WorkerStep

\* What the thread does to the queues: nothing, or a post, of its own or of the
\* event that is next.
LEMMA ThreadPosts ==
  ASSUME WorkerStep, TypedInv, Follows
  PROVE  /\ UNCHANGED <<timers, delivered, deferred, detached>>
         /\ \/ /\ UNCHANGED <<idles, lost, lastId>> /\ ("id" \in got <=> "id" \in got')
               /\ "id" \in got => next' = next
            \/ IdLine
            \/ Forget
            \/ \E e \in {Open, Error, Fatal} : Post(e) /\ UNCHANGED <<next, got, lastId>>
            \/ Dispatch
<1> USE DEF NothingPosted, source, script, notes
<1>1. CASE LoopHead
  <2>1. got = {} BY <1>1 DEF LoopHead, Follows, Reading
  <2> QED BY <1>1, <2>1 DEF LoopHead
<1>2. CASE Answered BY <1>2 DEF Answered, Post
<1>3. CASE Refused \/ Unreadable \/ LineTooLong \/ EventTooLong \/ BufferRead \/ Waited \/ Unref
  BY <1>3 DEF Refused, Unreadable, LineTooLong, EventTooLong, BufferRead, Waited, Unref
<1>4. CASE Aborted \/ Break BY <1>4 DEF Aborted, Break, Forget
<1>5. CASE IdLine BY <1>5 DEF IdLine
<1>6. CASE DataLine BY <1>6 DEF DataLine
<1>7. CASE Dispatch BY <1>7 DEF Dispatch, Post
<1>8. CASE Ended
  <2>1. CASE Post(Error) \/ Post(Fatal)
    <3>1. UNCHANGED <<next, got, lastId>> BY <1>8 DEF Ended
    <3>2. UNCHANGED <<timers, delivered, deferred, detached>> BY <2>1 DEF Post
    <3> QED BY <2>1, <3>1, <3>2
  <2>2. CASE NothingPosted BY <1>8, <2>2 DEF Ended
  <2> QED BY <1>8, <2>1, <2>2 DEF Ended
<1> QED BY <1>1, <1>2, <1>3, <1>4, <1>5, <1>6, <1>7, <1>8 DEF WorkerStep

\* What is in order up to top is so up to above.
LEMMA OrderedUp ==
  ASSUME NEW d \in Seq(1..MaxEvents), NEW q \in Seq(EventPosts),
         NEW top \in Int, NEW above \in Int, Ordered(d, q, top), top <= above
  PROVE  Ordered(d, q, above)
<1>1. (\A i \in DOMAIN d : d[i] \in Int) /\ (\A i \in DOMAIN q : q[i] \in Int)
  <2>1. 1..MaxEvents \in SUBSET Int /\ EventPosts \in SUBSET Int BY PostNumbers
  <2> QED BY <2>1, Elements
<1> QED BY <1>1 DEF Ordered

\* The thread keeps the order: it posts only what comes behind all the others.
LEMMA ThreadInLine ==
  ASSUME WorkerStep, TypedInv, Follows, Given, Line
  PROVE  Given' /\ Line'
<1>1. UNCHANGED <<timers, delivered, deferred, detached>>
  BY ThreadPosts
<1>2. Follows' /\ TypedInv'
  BY FollowsStep, WorkerTyped
<1>3. Top \in Nat /\ (Reading => Top = next - 1) /\ Top' \in Nat
  <2>1. TypedInv' /\ Follows' => Top' \in Nat
    <3>1. TypedInv' => lastId' \in Nat /\ next' \in Nat \ {0} BY PostNumbers DEF TypedInv, Read
    <3> QED BY <3>1 DEF Follows, Top
  <2> QED BY <1>2, <2>1, TopNumber
<1>4. lastId \in Nat /\ next \in Nat \ {0}
  BY PostNumbers DEF TypedInv, Read
<1>5. delivered \in Seq(1..MaxEvents) /\ idles \in Seq(EventPosts)
  BY DEF Given, TypedInv, Queued
<1>6. SUFFICES ASSUME ~deferred, timers = <<>>, Ordered(delivered, idles, Top)
               PROVE  Ordered(delivered, idles', Top')
  BY <1>1 DEF Given, Line
<1>7. CASE UNCHANGED <<idles, lastId>> /\ ("id" \in got <=> "id" \in got')
  BY <1>6, <1>7 DEF Top
<1>8. CASE IdLine
  <2>1. "id" \notin got /\ Reading /\ lastId' = next /\ got' = got \cup {"id"} /\ idles' = idles
    BY <1>8 DEF IdLine
  <2>2. Top' = next - 1
    BY <2>1 DEF Top
  <2> QED BY <1>3, <1>6, <2>1, <2>2
<1>9. CASE Forget
  <2>1. got' = {} /\ lastId' = lastId /\ idles' = idles
    BY <1>9 DEF Forget, source
  <2>2. Top <= Top'
    BY <1>4, <2>1 DEF Top
  <2> QED BY <1>3, <1>5, <1>6, <2>1, <2>2, OrderedUp
<1>10. ASSUME NEW e \in {Open, Error, Fatal}, Post(e), UNCHANGED <<next, got, lastId>>
       PROVE  Ordered(delivered, idles', Top')
  <2>1. Top' = Top
    BY <1>10 DEF Top
  <2>2. e \in EventPosts /\ e < 0 /\ e \in Int
    BY PostNumbers
  <2>3. e <= Top /\ ~(e > 0)
    BY <1>3, <2>2
  <2>4. Ordered(delivered, Append(idles, e), Top)
    BY <1>3, <1>5, <1>6, <2>2, <2>3, OrderedPost
  <2>5. idles' = idles \/ idles' = Append(idles, e)
    BY <1>10 DEF Post
  <2> QED BY <1>6, <2>1, <2>4, <2>5
<1>11. CASE Dispatch
  <2>1. "id" \in got /\ got' = {} /\ lastId' = lastId /\ Post(next) /\ Reading
    BY <1>11 DEF Dispatch
  <2>2. Top' = next /\ next <= MaxEvents /\ next = lastId
    BY <2>1 DEF Top, Follows, TypedInv, Read
  <2>3. Top < next /\ Top <= next /\ next \in EventPosts
    BY <1>3, <1>4, <2>1, <2>2, PostNumbers
  <2>4. Ordered(delivered, Append(idles, next), next) /\ Ordered(delivered, idles, next)
    BY <1>3, <1>4, <1>5, <1>6, <2>3, OrderedPost, OrderedUp
  <2>5. idles' = idles \/ idles' = Append(idles, next)
    BY <2>1 DEF Post
  <2> QED BY <2>2, <2>4, <2>5
<1> QED BY <1>7, <1>8, <1>9, <1>10, <1>11, ThreadPosts

\* The dispatch of a post keeps the order, if it does not put it off.
LEMMA RunInLine ==
  ASSUME TypedInv, Follows, Given, Line, DispatchIdle \/ DispatchTimer
  PROVE  Given' /\ Line'
<1>1. delivered \in Seq(1..MaxEvents) /\ idles \in Seq(EventPosts)
  BY DEF Given, TypedInv, Queued
<1>2. Given'
  <2>1. ASSUME NEW e, NEW q, Run(e, q)
        PROVE  delivered' = delivered \/ (e \in 1..MaxEvents /\ delivered' = Append(delivered, e))
    BY <2>1 DEF Run, Invoke
  <2>2. delivered' = delivered \/ \E e \in 1..MaxEvents : delivered' = Append(delivered, e)
    BY <2>1 DEF DispatchIdle, DispatchTimer
  <2>3. \A e \in 1..MaxEvents : Append(delivered, e) \in Seq(1..MaxEvents)
    BY <1>1, AppendProperties
  <2> QED BY <1>1, <2>2, <2>3 DEF Given
<1>3. ASSUME ~deferred' PROVE timers' = <<>> /\ Ordered(delivered', idles', Top')
  <2>1. PICK e, q : Run(e, q) /\ (DispatchIdle => e = Head(idles) /\ q = timers)
                    /\ (~DispatchIdle => timers # <<>>)
    BY DEF DispatchIdle, DispatchTimer
  <2>2. ~deferred /\ ~(busy /\ ~detached) /\ timers' = q /\ UNCHANGED <<next, got, lastId>>
        /\ (UNCHANGED delivered \/ Invoke(e))
    BY <1>3, <2>1 DEF Run, stream
  <2>3. timers = <<>> /\ Ordered(delivered, idles, Top) /\ Top' = Top /\ Top \in Int
    BY <2>2, TopNumber DEF Line, Top
  <2>4. DispatchIdle /\ e = Head(idles) /\ q = timers /\ idles # <<>> /\ idles' = Tail(idles)
    BY <2>1, <2>3 DEF DispatchIdle
  <2>5. /\ Ordered(delivered, Tail(idles), Top)
        /\ e \in 1..MaxEvents => Ordered(Append(delivered, e), Tail(idles), Top)
    BY <1>1, <2>3, <2>4, OrderedGive
  <2>6. delivered' = delivered \/ (e \in 1..MaxEvents /\ delivered' = Append(delivered, e))
    BY <2>2 DEF Invoke
  <2> QED BY <2>2, <2>3, <2>4, <2>5, <2>6
<1> QED BY <1>2, <1>3 DEF Line

\* How often an event is given or on its way.
Queues(n) == Count(delivered, n) + Count(idles, n) + Count(timers, n)

\* The numbers that are compared.
LEMMA PlacesCount ==
  ASSUME TypedInv, Given, NEW n
  PROVE  /\ Count(delivered, n) \in Nat /\ Count(idles, n) \in Nat /\ Count(timers, n) \in Nat
         /\ Queues(n) \in Nat
         /\ Places(n) = Queues(n) + Held(n \in lost) + Held(n = next /\ "id" \in got)
<1>1. Count(delivered, n) \in Nat /\ Count(idles, n) \in Nat /\ Count(timers, n) \in Nat
  BY SpotsFinite DEF TypedInv, Queued, Given
<1> QED BY <1>1 DEF Queues, Places

\* What happens to one event when the thread posts another: nothing, or if it is
\* the one it goes to the queue or is lost at the limit.
LEMMA PostPlaces ==
  ASSUME TypedInv, NEW e \in EventPosts, Post(e), ~detached, UNCHANGED <<timers, delivered>>, NEW n
  PROVE  \/ /\ Count(idles', n) = Count(idles, n) + Held(e = n) /\ lost' = lost
         \/ /\ Count(idles', n) = Count(idles, n) /\ lost' = lost \cup {e}
<1>1. idles \in Seq(EventPosts) BY DEF TypedInv, Queued
<1>2. Count(Append(idles, e), n) = Count(idles, n) + Held(e = n) BY <1>1, CountAppend
<1> QED BY <1>2 DEF Post

\* The thread keeps each event in one place.
LEMMA ThreadInPlace ==
  ASSUME WorkerStep, TypedInv, Follows, Given, InPlace
  PROVE  InPlace'
<1>1. UNCHANGED <<timers, delivered, deferred, detached>>
  BY ThreadPosts
<1>2. SUFFICES ASSUME ~detached, NEW n \in 1..MaxEvents, Places(n) = Held(n <= lastId)
               PROVE  Places(n)' = Held(n <= lastId')
  BY <1>1 DEF InPlace
<1>3. PICK d, i, t \in Nat : d = Count(delivered, n) /\ i = Count(idles, n) /\ t = Count(timers, n)
  BY PlacesCount
<1>4. lastId \in Nat /\ next \in Nat \ {0} /\ n \in Nat \ {0}
  BY PostNumbers DEF TypedInv, Read
<1>5. d + i + t + Held(n \in lost) + Held(n = next /\ "id" \in got) = Held(n <= lastId)
  BY <1>2, <1>3 DEF Places
<1>6. Places(n)' = d + Count(idles', n) + t + Held(n \in lost') + Held(n = next' /\ "id" \in got')
  BY <1>1, <1>3 DEF Places
<1>7. CASE /\ UNCHANGED <<idles, lost, lastId>> /\ ("id" \in got <=> "id" \in got')
           /\ "id" \in got => next' = next
  <2>1. Held(n = next' /\ "id" \in got') = Held(n = next /\ "id" \in got)
    BY <1>7 DEF Held
  <2> QED BY <1>3, <1>5, <1>6, <1>7, <2>1
<1>8. CASE IdLine
  <2>1. /\ "id" \notin got /\ Reading /\ lastId' = next /\ got' = got \cup {"id"}
        /\ UNCHANGED <<next, idles, lost>>
    BY <1>8 DEF IdLine, notes
  <2>2. next = lastId + 1
    BY <2>1 DEF Follows
  <2>3. Held(n = next /\ "id" \in got) = 0 /\ Held(n = next' /\ "id" \in got') = Held(n = next)
    BY <2>1 DEF Held
  <2>4. Held(n <= lastId') = Held(n <= lastId) + Held(n = next)
    BY <1>4, <2>1, <2>2 DEF Held
  <2>5. Held(n \in lost) \in Int /\ Held(n = next) \in Int /\ Held(n <= lastId) \in Int
    BY DEF Held
  <2> QED BY <1>3, <1>5, <1>6, <2>1, <2>3, <2>4, <2>5
<1>9. CASE Forget
  <2>1. /\ got' = {} /\ UNCHANGED <<next, lastId, idles>>
        /\ lost' = IF "id" \in got THEN lost \cup {next} ELSE lost
    BY <1>9 DEF Forget, source
  <2>2. Held(n = next' /\ "id" \in got') = 0
    BY <2>1 DEF Held
  <2>3. CASE n = next /\ "id" \in got
    <3>1. Held(n = next /\ "id" \in got) = 1 /\ Held(n \in lost') = 1
      BY <2>1, <2>3 DEF Held
    <3>2. Held(n \in lost) \in {0, 1} /\ Held(n <= lastId) \in {0, 1}
      BY HeldInt
    <3>3. Held(n \in lost) = 0
      BY <1>3, <1>5, <3>1, <3>2
    <3> QED BY <1>3, <1>5, <1>6, <2>1, <2>2, <3>1, <3>3
  <2>4. CASE ~(n = next /\ "id" \in got)
    <3>1. Held(n = next /\ "id" \in got) = 0
      BY <2>4 DEF Held
    <3>2. Held(n \in lost') = Held(n \in lost)
      BY <2>1, <2>4 DEF Held
    <3> QED BY <1>3, <1>5, <1>6, <2>1, <2>2, <3>1, <3>2
  <2> QED BY <2>3, <2>4
<1>10. ASSUME NEW e \in {Open, Error, Fatal}, Post(e), UNCHANGED <<next, got, lastId>>
       PROVE  Places(n)' = Held(n <= lastId')
  <2>1. e \in EventPosts /\ e # n
    BY <1>4, PostNumbers
  <2>2. Held(e = n) = 0
    BY <2>1 DEF Held
  <2>3. Count(idles', n) = i /\ Held(n \in lost') = Held(n \in lost)
    <3>1. CASE Count(idles', n) = Count(idles, n) + Held(e = n) /\ lost' = lost
      BY <1>3, <2>2, <3>1
    <3>2. CASE Count(idles', n) = Count(idles, n) /\ lost' = lost \cup {e}
      <4>1. n \in lost' <=> n \in lost
        BY <2>1, <3>2
      <4> QED BY <1>3, <3>2, <4>1 DEF Held
    <3> QED BY <1>1, <1>2, <1>10, <2>1, <3>1, <3>2, PostPlaces
  <2> QED BY <1>5, <1>6, <1>10, <2>3
<1>11. CASE Dispatch
  <2>1. "id" \in got /\ got' = {} /\ lastId' = lastId /\ Post(next) /\ Reading
    BY <1>11 DEF Dispatch
  <2>2. Held(n = next' /\ "id" \in got') = 0 /\ Held(n = next /\ "id" \in got) = Held(next = n)
    BY <2>1 DEF Held
  <2>3. next \in EventPosts
    BY <2>1, PostNumbers, <1>4 DEF TypedInv, Read
  <2>4. Held(n \in lost) \in {0, 1} /\ Held(n <= lastId) \in {0, 1} /\ Held(next = n) \in {0, 1}
    BY HeldInt
  <2>5. CASE Count(idles', n) = Count(idles, n) + Held(next = n) /\ lost' = lost
    BY <1>3, <1>5, <1>6, <2>1, <2>2, <2>4, <2>5
  <2>6. CASE Count(idles', n) = Count(idles, n) /\ lost' = lost \cup {next}
    <3>1. CASE next = n
      <4>1. Held(next = n) = 1 /\ Held(n \in lost') = 1
        BY <2>6, <3>1 DEF Held
      <4>2. Held(n \in lost) = 0
        BY <1>3, <1>5, <2>2, <2>4, <4>1
      <4> QED BY <1>3, <1>5, <1>6, <2>1, <2>2, <2>6, <4>1, <4>2
    <3>2. CASE next # n
      <4>1. Held(next = n) = 0 /\ Held(n \in lost') = Held(n \in lost)
        BY <2>6, <3>2 DEF Held
      <4> QED BY <1>3, <1>5, <1>6, <2>1, <2>2, <2>6, <4>1
    <3> QED BY <3>1, <3>2
  <2> QED BY <1>1, <1>2, <2>1, <2>3, <2>5, <2>6, PostPlaces
<1> QED BY <1>7, <1>8, <1>9, <1>10, <1>11, ThreadPosts

\* What one number gains of another the sum does not see.
LEMMA SameSum ==
  ASSUME NEW a \in Int, NEW b \in Int, NEW h \in Int, NEW d \in Int, NEW i \in Int, NEW t \in Int,
         a + b + h = i + t
  PROVE  d + a + (b + h) = d + i + t /\ (d + h) + a + b = d + i + t
OBVIOUS

\* A dispatch moves an event, to script or to those put off.
LEMMA RunInPlace ==
  ASSUME TypedInv, Given, InPlace, DispatchIdle \/ DispatchTimer
  PROVE  InPlace'
<1>1. UNCHANGED <<detached, next, got, lastId, lost>>
  BY DEF DispatchIdle, DispatchTimer, Run, stream
<1>2. SUFFICES ASSUME ~detached, NEW n \in 1..MaxEvents, Places(n) = Held(n <= lastId)
               PROVE  Places(n)' = Held(n <= lastId')
  BY <1>1 DEF InPlace
<1>3. PICK d, i, t \in Nat : d = Count(delivered, n) /\ i = Count(idles, n) /\ t = Count(timers, n)
  BY PlacesCount
<1>4. /\ delivered \in Seq(1..MaxEvents) /\ idles \in Seq(EventPosts) /\ timers \in Seq(EventPosts)
  BY DEF Given, TypedInv, Queued
<1>5. PICK e \in EventPosts, q \in Seq(EventPosts) :
        Run(e, q) /\ Count(idles', n) + Count(q, n) + Held(e = n) = i + t
        /\ Count(idles', n) \in Nat /\ Count(q, n) \in Nat
  <2>1. CASE DispatchIdle
    <3>1. idles # <<>> /\ idles' = Tail(idles) /\ Run(Head(idles), timers)
      BY <2>1 DEF DispatchIdle
    <3>2. Head(idles) \in EventPosts /\ Tail(idles) \in Seq(EventPosts)
      BY <1>4, <3>1, HeadTailProperties
    <3>3. i = Count(Tail(idles), n) + Held(Head(idles) = n) /\ Count(Tail(idles), n) \in Nat
      <4>1. Count(idles, n) = Count(Tail(idles), n) + Held(Head(idles) = n)
        BY <1>4, <3>1, CountTail
      <4>2. Count(Tail(idles), n) \in Nat
        BY <3>2, SpotsFinite
      <4> QED BY <1>3, <4>1, <4>2
    <3>4. Held(Head(idles) = n) \in Int
      BY HeldInt
    <3>5. Count(Tail(idles), n) + Count(timers, n) + Held(Head(idles) = n) = i + t
      BY <1>3, <3>3, <3>4
    <3> QED BY <1>3, <1>4, <3>1, <3>2, <3>3, <3>5
  <2>2. CASE DispatchTimer
    <3>1. timers # <<>> /\ idles' = idles /\ Run(Head(timers), Tail(timers))
      BY <2>2 DEF DispatchTimer
    <3>2. Head(timers) \in EventPosts /\ Tail(timers) \in Seq(EventPosts)
      BY <1>4, <3>1, HeadTailProperties
    <3>3. t = Count(Tail(timers), n) + Held(Head(timers) = n) /\ Count(Tail(timers), n) \in Nat
      <4>1. Count(timers, n) = Count(Tail(timers), n) + Held(Head(timers) = n)
        BY <1>4, <3>1, CountTail
      <4>2. Count(Tail(timers), n) \in Nat
        BY <3>2, SpotsFinite
      <4> QED BY <1>3, <4>1, <4>2
    <3>4. Held(Head(timers) = n) \in Int
      BY HeldInt
    <3>5. Count(idles, n) + Count(Tail(timers), n) + Held(Head(timers) = n) = i + t
      BY <1>3, <3>3, <3>4
    <3> QED BY <1>3, <3>1, <3>2, <3>3, <3>5
  <2> QED BY <2>1, <2>2
<1>6. Held(e = n) \in {0, 1}
  BY HeldInt
<1>7. PICK a, b, h : /\ a \in Int /\ b \in Int /\ h \in Int
                     /\ a = Count(idles', n) /\ b = Count(q, n) /\ h = Held(e = n) /\ a + b + h = i + t
  <2>1. PICK a, b, h : a = Count(idles', n) /\ b = Count(q, n) /\ h = Held(e = n)
    OBVIOUS
  <2>2. a \in Int /\ b \in Int /\ h \in Int /\ a + b + h = i + t
    BY <1>5, <1>6, <2>1
  <2> QED BY <2>1, <2>2
<1>8. /\ a \in Int /\ b \in Int /\ h \in Int /\ d \in Int /\ i \in Int /\ t \in Int
       /\ a + b + h = i + t
  BY <1>7
<1>9. Count(delivered', n) + Count(idles', n) + Count(timers', n) = d + i + t
  <2>1. CASE busy
    <3>1. timers' = Append(q, e) /\ delivered' = delivered
      BY <1>2, <1>5, <2>1 DEF Run
    <3>2. Count(Append(q, e), n) = Count(q, n) + Held(e = n)
      BY CountAppend
    <3>3. Count(timers', n) = b + h /\ Count(delivered', n) = d
      BY <1>3, <1>7, <3>1, <3>2
    <3>4. d + a + (b + h) = d + i + t
      BY <1>8, SameSum
    <3> QED BY <1>7, <3>3, <3>4
  <2>2. CASE ~busy
    <3>1. timers' = q /\ delivered' = IF e \in 1..MaxEvents THEN Append(delivered, e) ELSE delivered
      BY <1>2, <1>5, <2>2 DEF Run, Invoke
    <3>2. Count(delivered', n) = d + h
      <4>1. CASE e \in 1..MaxEvents
        <5>1. Count(Append(delivered, e), n) = Count(delivered, n) + Held(e = n)
          <6>1. PICK S : S = 1..MaxEvents
            OBVIOUS
          <6>2. delivered \in Seq(S) /\ e \in S
            BY <1>4, <4>1, <6>1
          <6> QED BY <6>2, CountAppend
        <5> QED BY <1>3, <1>7, <3>1, <4>1, <5>1
      <4>2. CASE e \notin 1..MaxEvents
        <5>1. h = 0
          BY <1>7, <4>2 DEF Held
        <5> QED BY <1>3, <3>1, <4>2, <5>1
      <4> QED BY <4>1, <4>2
    <3>3. Count(timers', n) = b
      BY <1>7, <3>1
    <3>4. (d + h) + a + b = d + i + t
      BY <1>8, SameSum
    <3> QED BY <1>7, <3>2, <3>3, <3>4
  <2> QED BY <2>1, <2>2
<1>10. Places(n)' = (Count(delivered', n) + Count(idles', n) + Count(timers', n))
                    + Held(n \in lost') + Held(n = next' /\ "id" \in got')
  BY DEF Places
<1>11. Places(n) = (d + i + t) + Held(n \in lost) + Held(n = next /\ "id" \in got)
  BY <1>3 DEF Places
<1> QED BY <1>1, <1>2, <1>9, <1>10, <1>11

\* What handlers, script and the page do besides moves no event.
LEMMA PageOnce ==
  ASSUME OnceInv, HandlerEnd \/ PageStep \/ UNCHANGED vars
  PROVE  UNCHANGED <<stream, lastId>> /\ Given' /\ Line' /\ InPlace'
<1>1. UNCHANGED <<next, got, worker, lastId, idles, timers, delivered, lost, deferred>> /\ (detached => detached')
  BY DEF HandlerEnd, PageStep, CloseMethod, PumpBegin, PumpEnd, FreeBegin, FreeJoin, vars, source, stream, notes
<1>2. Given' BY <1>1 DEF OnceInv, Given
<1>3. Line' BY <1>1 DEF OnceInv, Line, Top
<1>4. InPlace' BY <1>1 DEF OnceInv, InPlace, Places
<1> QED BY <1>1, <1>2, <1>3, <1>4 DEF stream

\* The invariant of the events.
LEMMA OnceInvariant == SourceSpec => [](TypedInv /\ OnceInv)
<1>1. SourceInit => OnceInv
  <2> SUFFICES ASSUME SourceInit PROVE OnceInv OBVIOUS
  <2>1. /\ lastId = 0 /\ worker = "loop" /\ next = 1 /\ got = {} /\ idles = <<>> /\ timers = <<>>
        /\ delivered = <<>> /\ lost = {}
    BY DEF SourceInit
  <2>2. <<>> \in Seq(1..MaxEvents) /\ DOMAIN <<>> = {} OBVIOUS
  <2>3. Follows BY <2>1 DEF Follows, Reading
  <2>4. Given /\ Line BY <2>1, <2>2 DEF Given, Line, Ordered
  <2>5. ASSUME NEW n \in 1..MaxEvents PROVE Places(n) = Held(n <= lastId)
    <3>1. n \in Nat \ {0} BY PostNumbers
    <3>2. Count(<<>>, n) = 0
      <4>1. {i \in DOMAIN <<>> : <<>>[i] = n} = {} BY <2>2
      <4> QED BY <4>1, FS_EmptySet DEF Count
    <3>3. Held(n \in lost) = 0 /\ Held(n = next /\ "id" \in got) = 0 /\ Held(n <= lastId) = 0
      BY <2>1, <3>1 DEF Held
    <3> QED BY <2>1, <3>2, <3>3 DEF Places
  <2> QED BY <2>3, <2>4, <2>5 DEF OnceInv, InPlace
<1>2. TypedInv /\ OnceInv /\ [SourceNext]_vars => OnceInv'
  <2> SUFFICES ASSUME TypedInv, OnceInv, [SourceNext]_vars PROVE OnceInv' OBVIOUS
  <2> USE DEF OnceInv
  <2>1. CASE WorkerStep BY <2>1, FollowsStep, ThreadInLine, ThreadInPlace
  <2>2. CASE DispatchIdle \/ DispatchTimer
    <3>1. Aside BY <2>2 DEF DispatchIdle, DispatchTimer, Run, Aside
    <3> QED BY <2>2, <3>1, FollowsStep, RunInLine, RunInPlace
  <2>3. CASE HandlerEnd \/ PageStep \/ UNCHANGED vars
    <3>1. UNCHANGED <<stream, lastId>> /\ Given' /\ Line' /\ InPlace' BY <2>3, PageOnce
    <3>2. Aside BY <3>1 DEF Aside
    <3> QED BY <3>1, <3>2, FollowsStep
  <2> QED BY <2>1, <2>2, <2>3 DEF SourceNext, WorkerStep, PageStep
<1> QED BY <1>1, <1>2, SourceTyped, PTL DEF SourceSpec

\* ns_es_process_line keeps an id at once and ns_es_connect_once sends it: for any
\* number of events, of breaks of the stream and of posts dropped or put off, an event
\* comes at most once, and in its order unless a post was put off.
THEOREM EventsComeOnce == SourceSpec => []EventsOnce
<1>1. ASSUME TypedInv, OnceInv PROVE EventsOnce
  <2>1. ASSUME ~deferred, NEW i \in 1..(Len(delivered) - 1) PROVE delivered[i] < delivered[i + 1]
    <3>1. Len(delivered) \in Nat /\ DOMAIN delivered = 1..Len(delivered)
      BY <1>1, LenProperties DEF OnceInv, Given
    <3>2. i \in DOMAIN delivered /\ i + 1 \in DOMAIN delivered /\ i < i + 1
      BY <3>1
    <3> QED BY <1>1, <2>1, <3>2 DEF OnceInv, Line, Ordered
  <2> QED BY <1>1, <2>1 DEF OnceInv, InPlace, EventsOnce
<1> QED BY <1>1, OnceInvariant, PTL


-----------------------------------------------------------------------------
(* The join: that the thread which ns_es_free waits for goes to its end.   *)
(*                                                                         *)
(* An exit was requested, so each step of ns_es_worker takes it nearer to  *)
(* its end.  The lines of the stream are the steps it may take on the way. *)

\* The most steps the thread is from its end once an exit was requested.
StepsLeft ==
  [connect |-> 6, stream |-> 5, failing |-> 4, fatal |-> 3, waiting |-> 3, loop |-> 2,
   broken |-> 2, failed |-> 2, ending |-> 1, done |-> 0]
Left == StepsLeft[worker]

\* ns_es_free asks for the exit before it waits.
Asked == page = "joining" => exit

\* No step lets a request for an exit go.
LEMMA AskedStep == Asked /\ [SourceNext]_vars => Asked'
<1> SUFFICES ASSUME Asked, [SourceNext]_vars PROVE Asked'
  OBVIOUS
<1>1. ASSUME page' = page, exit' = exit PROVE Asked'
  BY <1>1 DEF Asked
<1>2. CASE WorkerStep
  <2>1. page' = page /\ exit' = exit
    BY <1>2 DEF WorkerStep, LoopHead, Answered, Refused, Unreadable, LineTooLong, EventTooLong, BufferRead,
     Aborted, Break,
       IdLine, DataLine, Dispatch, Ended, Waited, Unref, Forget, Post, NothingPosted, source, script
  <2> QED BY <1>1, <2>1
<1>3. CASE DispatchIdle \/ DispatchTimer \/ HandlerEnd
  <2>1. page' = page /\ exit' = exit
    BY <1>3 DEF DispatchIdle, DispatchTimer, HandlerEnd, Run
  <2> QED BY <1>1, <2>1
<1>4. CASE PageStep
  BY <1>4 DEF PageStep, CloseMethod, PumpBegin, PumpEnd, FreeBegin, FreeJoin, Asked, source
<1>5. CASE UNCHANGED vars
  BY <1>5, <1>1 DEF vars, source, script
<1> QED BY <1>2, <1>3, <1>4, <1>5 DEF SourceNext, WorkerStep, PageStep

\* A step of the thread after an exit was requested: it stays where it is, or is
\* nearer its end.
LEMMA ThreadNearer ==
  ASSUME worker \in Stages, worker' \in Stages, exit, WorkerStep
  PROVE  /\ worker' = worker => ~WorkerRuns
         /\ worker' # worker => Left' < Left
<1>1. CASE LoopHead
  BY <1>1 DEF LoopHead, Left, StepsLeft
<1>2. CASE Answered
  BY <1>2 DEF Answered, Left, StepsLeft
<1>3. CASE Refused \/ Unreadable
  BY <1>3 DEF Refused, Unreadable, Left, StepsLeft
<1>4. CASE LineTooLong
  BY <1>4 DEF LineTooLong, Left, StepsLeft
<1>5. CASE EventTooLong
  BY <1>5 DEF EventTooLong, Left, StepsLeft
<1>6. CASE BufferRead \/ Aborted
  BY <1>6 DEF BufferRead, Aborted, Left, StepsLeft
<1>7. CASE Break
  BY <1>7 DEF Break, Left, StepsLeft
<1>8. CASE IdLine \/ DataLine \/ Dispatch
  <2>1. worker' = worker /\ worker \in {"stream", "failing"}
    BY <1>8 DEF IdLine, DataLine, Dispatch, Reading
  <2>2. ~WorkerRuns
    BY <2>1 DEF WorkerRuns, LoopHead, BufferRead, Ended, Waited, Unref, Break, Aborted
  <2> QED BY <2>1, <2>2
<1>9. CASE Ended
  BY <1>9 DEF Ended, Left, StepsLeft
<1>10. CASE Waited
  BY <1>10 DEF Waited, Left, StepsLeft
<1>11. CASE Unref
  BY <1>11 DEF Unref, Left, StepsLeft
<1> QED BY <1>1, <1>2, <1>3, <1>4, <1>5, <1>6, <1>7, <1>8, <1>9, <1>10, <1>11 DEF WorkerStep

\* While ns_es_free waits no step takes the thread away from its end, and none of
\* those that fairness promises leaves it where it is.
Nearer ==
  page = "joining" =>
    /\ page' \in {"joining", "freed"} /\ (page' = "freed" => Left = 0)
    /\ Left' <= Left /\ (WorkerRuns => Left' < Left)

\* Every step, from what the waiting knows.
LEMMA NearerStep == TypedInv /\ TypedInv' /\ Asked /\ SourceNext => Nearer
<1> SUFFICES ASSUME TypedInv, TypedInv', Asked, SourceNext, page = "joining"
             PROVE  /\ page' \in {"joining", "freed"} /\ (page' = "freed" => Left = 0)
                    /\ Left' <= Left /\ (WorkerRuns => Left' < Left)
  BY DEF Nearer
<1>1. worker \in Stages /\ worker' \in Stages /\ exit
  BY DEF TypedInv, Staged, Asked
<1>2. Left \in Nat /\ Left' \in Nat
  BY <1>1 DEF Left, StepsLeft, Stages
<1>3. CASE WorkerStep
  <2>1. page' = page
    BY <1>3 DEF WorkerStep, LoopHead, Answered, Refused, Unreadable, LineTooLong, EventTooLong, BufferRead,
     Aborted, Break,
       IdLine, DataLine, Dispatch, Ended, Waited, Unref, Forget, Post, NothingPosted, source, script
  <2>2. worker' = worker => Left' = Left
    BY DEF Left
  <2>3. /\ worker' = worker => ~WorkerRuns
        /\ worker' # worker => Left' < Left
    BY <1>1, <1>3, ThreadNearer
  <2>4. Left' <= Left
    BY <1>2, <2>2, <2>3
  <2> QED BY <2>1, <2>3, <2>4
<1>4. CASE FreeJoin
  <2>1. worker = "done" /\ worker' = worker /\ page' = "freed"
    BY <1>4 DEF FreeJoin, stream
  <2>2. Left = 0 /\ Left' = 0
    BY <2>1 DEF Left, StepsLeft
  <2>3. ~WorkerRuns
    BY <2>1 DEF WorkerRuns, LoopHead, BufferRead, Ended, Waited, Unref, Break, Aborted
  <2> QED BY <2>1, <2>2, <2>3
<1>5. CASE PumpEnd
  <2>1. worker' = worker /\ page' = page
    BY <1>5 DEF PumpEnd, stream
  <2>2. Left' = Left
    BY <2>1 DEF Left
  <2>3. ~WorkerRuns
    <3>1. CASE worker \in {"connect", "stream"}
      BY <2>1, <3>1 DEF WorkerRuns, LoopHead, BufferRead, Ended, Waited, Unref, Break, Aborted
    <3>2. CASE worker \notin {"connect", "stream"}
      BY <2>1, <3>2 DEF WorkerRuns, LoopHead, BufferRead, Ended, Waited, Unref, Break, Aborted
    <3> QED BY <3>1, <3>2
  <2> QED BY <1>2, <2>1, <2>2, <2>3
<1>6. ~(DispatchIdle \/ DispatchTimer \/ HandlerEnd \/ CloseMethod \/ PumpBegin \/ FreeBegin)
  BY DEF DispatchIdle, DispatchTimer, HandlerEnd, LoopRuns, CloseMethod, PumpBegin, FreeBegin, Script
<1> QED BY <1>3, <1>4, <1>5, <1>6 DEF SourceNext, WorkerStep

\* ns_es_free waits for a thread that was told to exit and is a bounded number of
\* steps from its end: each step of ns_es_worker takes it nearer, whatever the server
\* does, and nothing else moves it.  So the wait ends if the thread runs.
THEOREM JoinDescends ==
  SourceSpec => /\ [](page = "joining" => exit /\ Left \in 0..6 /\ (Left = 0 => worker = "done"))
                /\ [][Nearer]_vars
<1>1. SourceInit => Asked
  BY DEF SourceInit, Asked
<1>2. Asked /\ [SourceNext]_vars => Asked'
  BY AskedStep
<1>3. TypedInv /\ Asked => (page = "joining" => exit /\ Left \in 0..6 /\ (Left = 0 => worker = "done"))
  BY DEF TypedInv, Staged, Stages, Asked, Left, StepsLeft
<1>4. TypedInv /\ TypedInv' /\ Asked /\ [SourceNext]_vars => [Nearer]_vars
  BY NearerStep
<1> QED BY <1>1, <1>2, <1>3, <1>4, SourceTyped, PTL DEF SourceSpec

=============================================================================
