------------------------ MODULE ViewProtocolProofs ------------------------
(***************************************************************************)
(* Two things about the view and its engine thread, for any numbers of     *)
(* tiles, positions, sizes, redirects, navigations and events.             *)
(*                                                                         *)
(* Its reference count: a view is never freed while something of it is     *)
(* under way, and no request, result or dialog leaks a reference.  The     *)
(* handlers are functions of a world w = [v, jobs, idles, refs]; each      *)
(* keeps what is Due, the references that are not held by the queues.      *)
(*                                                                         *)
(* Its frame: what it shows is what the engine drew, and of this page.     *)
(* Each handler keeps a world that Fits the session, and each job of the   *)
(* engine thread continues the history of frames they agree on.            *)
(***************************************************************************)
EXTENDS ViewProtocol, TLAPS, SequenceTheorems

\* A queue of messages of kinds K.
IsQueue(q, K) ==
  /\ q \in Seq({q[i] : i \in DOMAIN q})
  /\ \A i \in 1..Len(q) : "kind" \in DOMAIN q[i] /\ q[i].kind \in K

Results  == {"load", "render", "viewport", "click", "release", "export", "wake", "unref"}
Requests == {"load", "render", "viewport", "click", "release", "export", "close"}

IsMessage(m, K) == "kind" \in DOMAIN m /\ m.kind \in K

\* What the proof needs to know of a world.
IsWorld(w) ==
  /\ {"v", "jobs", "idles", "refs"} \subseteq DOMAIN w
  /\ {"closed", "asking"} \subseteq DOMAIN w.v
  /\ w.v.closed \in BOOLEAN /\ w.v.asking \in BOOLEAN
  /\ IsQueue(w.jobs, Requests) /\ IsQueue(w.idles, Results)
  /\ w.refs \in Int

\* The references that a widget and a dialog account for.
Due(w) == w.refs - (Len(w.jobs) + Len(w.idles))

\* A handler keeps them, and neither closes the view nor opens a dialog.
Same(w, o) ==
  /\ IsWorld(o)
  /\ o.v.closed = w.v.closed /\ o.v.asking = w.v.asking
  /\ Due(o) = Due(w)

-----------------------------------------------------------------------------
(* Queues *)

\* A queue has a length and is indexed from one.
LEMMA QueueLength ==
  ASSUME NEW q, NEW K, IsQueue(q, K)
  PROVE  Len(q) \in Nat /\ DOMAIN q = 1..Len(q)
BY DEF IsQueue

\* What is a sequence over some set is one over its own elements.
LEMMA OwnElements ==
  ASSUME NEW S, NEW q \in Seq(S)
  PROVE  q \in Seq({q[i] : i \in DOMAIN q})
<1>1. q \in [1..Len(q) -> S] /\ Len(q) \in Nat /\ DOMAIN q = 1..Len(q)
  OBVIOUS
<1>2. q \in [1..Len(q) -> {q[i] : i \in DOMAIN q}]
  BY <1>1
<1> QED
  BY <1>1, <1>2, SeqDef

\* Raising sequence numbers changes neither the length nor the kinds.
LEMMA OutdatedQueue ==
  ASSUME NEW q, NEW K, NEW kinds, IsQueue(q, K)
  PROVE  IsQueue(Outdated(q, kinds), K) /\ Len(Outdated(q, kinds)) = Len(q)
<1> DEFINE o == Outdated(q, kinds)
<1>1. Len(q) \in Nat /\ DOMAIN q = 1..Len(q)
  BY QueueLength
<1>2. o = [i \in 1..Len(q) |-> IF q[i].kind \in kinds THEN [q[i] EXCEPT !.cur = FALSE] ELSE q[i]]
  BY <1>1 DEF Outdated
<1>3. \A i \in 1..Len(q) : "kind" \in DOMAIN o[i] /\ o[i].kind = q[i].kind
  <2> TAKE i \in 1..Len(q)
  <2>1. "kind" \in DOMAIN q[i] BY DEF IsQueue
  <2>2. CASE q[i].kind \in kinds
    <3>1. o[i] = [q[i] EXCEPT !.cur = FALSE] BY <1>2, <2>2
    <3>2. DOMAIN [q[i] EXCEPT !.cur = FALSE] = DOMAIN q[i] OBVIOUS
    <3>3. [q[i] EXCEPT !.cur = FALSE].kind = q[i].kind BY <2>1
    <3> QED BY <2>1, <3>1, <3>2, <3>3
  <2>3. CASE q[i].kind \notin kinds BY <1>2, <2>1, <2>3
  <2> QED BY <2>2, <2>3
<1>4. DOMAIN o = 1..Len(q) BY <1>2
<1>5. o \in [1..Len(q) -> {o[i] : i \in DOMAIN o}] BY <1>2, <1>4
<1>6. o \in Seq({o[i] : i \in DOMAIN o}) BY <1>1, <1>5, SeqDef
<1>7. Len(o) = Len(q) BY <1>1, <1>4, <1>6
<1> QED BY <1>3, <1>6, <1>7 DEF IsQueue

\* A message is put at the end.
LEMMA AppendQueue ==
  ASSUME NEW q, NEW K, NEW m, IsQueue(q, K), IsMessage(m, K)
  PROVE  IsQueue(Append(q, m), K) /\ Len(Append(q, m)) = Len(q) + 1
<1> DEFINE S == {q[i] : i \in DOMAIN q} \cup {m}
<1>1. q \in Seq(S) /\ m \in S
  <2>1. q \in [1..Len(q) -> S] /\ Len(q) \in Nat
    BY QueueLength DEF IsQueue
  <2> QED BY <2>1, SeqDef
<1>2. Append(q, m) \in Seq(S) /\ Len(Append(q, m)) = Len(q) + 1
  BY <1>1
<1>3. \A i \in 1..(Len(q) + 1) : Append(q, m)[i] = IF i <= Len(q) THEN q[i] ELSE m
  BY <1>1
<1>4. Append(q, m) \in Seq({Append(q, m)[i] : i \in DOMAIN Append(q, m)})
  BY <1>2, OwnElements
<1>5. \A i \in 1..(Len(q) + 1) : Append(q, m)[i] = m \/ (i \in 1..Len(q) /\ Append(q, m)[i] = q[i])
  BY <1>3, QueueLength
<1> QED BY <1>2, <1>4, <1>5 DEF IsQueue, IsMessage

\* The first message is taken.
LEMMA TailQueue ==
  ASSUME NEW q, NEW K, IsQueue(q, K), q # <<>>
  PROVE  /\ IsQueue(Tail(q), K) /\ Len(Tail(q)) = Len(q) - 1
         /\ IsMessage(Head(q), K)
<1>1. PICK S : S = {q[i] : i \in DOMAIN q} /\ q \in Seq(S)
  BY DEF IsQueue
<1>2. Tail(q) \in Seq(S) /\ Len(Tail(q)) = Len(q) - 1 /\ Len(q) >= 1 /\ Len(q) \in Nat
  BY <1>1
<1>3. \A i \in 1..(Len(q) - 1) : Tail(q)[i] = q[i + 1] /\ i + 1 \in 1..Len(q)
  BY <1>1, <1>2
<1>4. Tail(q) \in Seq({Tail(q)[i] : i \in DOMAIN Tail(q)})
  BY <1>2, OwnElements
<1>5. Head(q) = q[1] /\ 1 \in 1..Len(q)
  BY <1>1, <1>2
<1> QED BY <1>2, <1>3, <1>4, <1>5 DEF IsQueue, IsMessage

-----------------------------------------------------------------------------
(* Worlds *)

\* What keeps the references, done after what keeps them, keeps them.
LEMMA SameTwice ==
  ASSUME NEW w, NEW o, NEW p, Same(w, o), Same(o, p)
  PROVE  Same(w, p)
BY DEF Same

\* Other fields of the view may become what they like.
LEMMA OtherFields ==
  ASSUME NEW w, IsWorld(w), NEW o,
         {"v", "jobs", "idles", "refs"} \subseteq DOMAIN o,
         o.jobs = w.jobs, o.idles = w.idles, o.refs = w.refs,
         {"closed", "asking"} \subseteq DOMAIN o.v,
         o.v.closed = w.v.closed, o.v.asking = w.v.asking
  PROVE  Same(w, o)
BY DEF Same, IsWorld, Due

\* Raising sequence numbers.
LEMMA OutdateSame ==
  ASSUME NEW w, IsWorld(w), NEW kinds
  PROVE  Same(w, Outdate(w, kinds)) /\ Outdate(w, kinds).v = w.v
<1> DEFINE o == Outdate(w, kinds)
<1>1. /\ o.v = w.v /\ o.refs = w.refs /\ DOMAIN o = DOMAIN w
      /\ o.jobs = Outdated(w.jobs, kinds) /\ o.idles = Outdated(w.idles, kinds)
  BY DEF Outdate, IsWorld
<1>2. /\ IsQueue(o.jobs, Requests) /\ Len(o.jobs) = Len(w.jobs)
      /\ IsQueue(o.idles, Results) /\ Len(o.idles) = Len(w.idles)
  BY <1>1, OutdatedQueue DEF IsWorld
<1> QED
  BY <1>1, <1>2 DEF Same, IsWorld, Due

\* A reference and a request more, by their numbers.
LEMMA DueGrown ==
  ASSUME NEW w, NEW o, NEW r \in Int, NEW m \in Int, NEW n \in Int,
         w.refs = r, Len(w.jobs) = m, Len(w.idles) = n,
         o.refs = r + 1, Len(o.jobs) = m + 1, Len(o.idles) = n
  PROVE  Due(w) = Due(o)
BY DEF Due

\* A reference and a request more.
LEMMA BothGrow ==
  ASSUME NEW w, NEW o, w.refs \in Int, Len(w.jobs) \in Nat, Len(w.idles) \in Nat,
         o.refs = w.refs + 1, Len(o.jobs) = Len(w.jobs) + 1, Len(o.idles) = Len(w.idles)
  PROVE  Due(w) = Due(o) /\ o.refs \in Int
<1>1. PICK r, m, n : r = w.refs /\ m = Len(w.jobs) /\ n = Len(w.idles)
  OBVIOUS
<1>2. r \in Int /\ m \in Int /\ n \in Int
  BY <1>1
<1>3. o.refs \in Int
  OBVIOUS
<1> QED BY <1>1, <1>2, <1>3, DueGrown

\* A request takes a reference, or is not made.
LEMMA PushReqSame ==
  ASSUME NEW w, IsWorld(w), NEW req, IsMessage(req, Requests)
  PROVE  Same(w, PushReq(w, req)) /\ PushReq(w, req).v = w.v
<1>1. CASE w.v.closed /\ req.kind # "close"
  BY <1>1 DEF PushReq, Same
<1>2. CASE ~(w.v.closed /\ req.kind # "close")
  <2>0. PICK o : o = PushReq(w, req)
    OBVIOUS
  <2>1. /\ o.v = w.v /\ o.refs = w.refs + 1 /\ DOMAIN o = DOMAIN w
        /\ o.jobs = Append(w.jobs, req) /\ o.idles = w.idles
    BY <1>2, <2>0 DEF PushReq, IsWorld
  <2>2. IsQueue(o.jobs, Requests) /\ Len(o.jobs) = Len(w.jobs) + 1
    BY <2>1, AppendQueue DEF IsWorld
  <2>3. Len(w.jobs) \in Nat /\ Len(w.idles) \in Nat /\ w.refs \in Int
    BY QueueLength DEF IsWorld
  <2>4. Due(o) = Due(w) /\ o.refs \in Int
    <3>1. o.refs = w.refs + 1 /\ Len(o.jobs) = Len(w.jobs) + 1 /\ Len(o.idles) = Len(w.idles)
      BY <2>1, <2>2, Zenon
    <3> QED BY <2>3, <3>1, BothGrow
  <2>5. IsWorld(o)
    BY <2>1, <2>2, <2>4 DEF IsWorld
  <2> QED BY <2>0, <2>1, <2>4, <2>5 DEF Same
<1> QED BY <1>1, <1>2

\* start_render
LEMMA StartRenderSame == ASSUME NEW w, IsWorld(w) PROVE Same(w, StartRender(w))
<1>1. CASE ~w.v.opened BY <1>1 DEF StartRender, Same
<1>2. CASE w.v.opened
  <2>1. PICK a : a = Outdate(w, {"render"}) /\ Same(w, a) /\ IsWorld(a)
    BY OutdateSame DEF Same
  <2>2. PICK o : o = [a EXCEPT !.v.inflight = TRUE, !.v.forceFull = FALSE]
    OBVIOUS
  <2>3. Same(a, o)
    <3>1. o.jobs = a.jobs /\ o.idles = a.idles /\ o.refs = a.refs /\ DOMAIN o = DOMAIN a
      BY <2>2
    <3>2. DOMAIN o.v = DOMAIN a.v /\ o.v.closed = a.v.closed /\ o.v.asking = a.v.asking
      BY <2>1, <2>2 DEF IsWorld
    <3> QED BY <2>1, <3>1, <3>2, OtherFields DEF IsWorld
  <2>4. PICK req : StartRender(w) = PushReq(o, req) /\ IsMessage(req, Requests)
    <3> DEFINE req == [kind |-> "render", cur |-> TRUE, size |-> w.v.size,
                       scroll |-> w.v.scroll, full |-> w.v.forceFull]
    <3>1. StartRender(w) = PushReq(o, req)
      BY <1>2, <2>1, <2>2 DEF StartRender
    <3>2. IsMessage(req, Requests)
      BY DEF IsMessage, Requests
    <3> QED BY <3>1, <3>2
  <2> QED BY <2>1, <2>3, <2>4, PushReqSame, SameTwice DEF Same
<1> QED BY <1>1, <1>2

\* request_render
LEMMA RequestRenderSame == ASSUME NEW w, IsWorld(w) PROVE Same(w, RequestRender(w))
<1>1. CASE ~w.v.opened BY <1>1 DEF RequestRender, Same
<1>2. CASE w.v.opened /\ w.v.inflight
  <2>1. PICK o : o = [w EXCEPT !.v.pending = TRUE] /\ RequestRender(w) = o
    BY <1>2 DEF RequestRender
  <2>2. Same(w, o)
    <3>1. o.jobs = w.jobs /\ o.idles = w.idles /\ o.refs = w.refs /\ DOMAIN o = DOMAIN w
      BY <2>1
    <3>2. DOMAIN o.v = DOMAIN w.v /\ o.v.closed = w.v.closed /\ o.v.asking = w.v.asking
      BY <2>1 DEF IsWorld
    <3> QED BY <3>1, <3>2, OtherFields DEF IsWorld
  <2> QED BY <2>1, <2>2
<1>3. CASE w.v.opened /\ ~w.v.inflight
  BY <1>3, StartRenderSame DEF RequestRender
<1> QED BY <1>1, <1>2, <1>3

\* on_adj_changed, as ScrollTo runs it.
LEMMA ScrollToSame == ASSUME NEW w, IsWorld(w), NEW pos PROVE Same(w, ScrollTo(w, pos))
<1>1. CASE pos = w.v.scroll BY <1>1 DEF ScrollTo, Same
<1>2. CASE pos # w.v.scroll
  <2>1. PICK o : o = [w EXCEPT !.v.scroll = pos] /\ ScrollTo(w, pos) = RequestRender(o)
    BY <1>2 DEF ScrollTo
  <2>2. o.jobs = w.jobs /\ o.idles = w.idles /\ o.refs = w.refs /\ DOMAIN o = DOMAIN w
    BY <2>1
  <2>3. DOMAIN o.v = DOMAIN w.v /\ o.v.closed = w.v.closed /\ o.v.asking = w.v.asking
    BY <2>1 DEF IsWorld
  <2>4. Same(w, o)
    BY <2>2, <2>3, OtherFields DEF IsWorld
  <2>5. Same(o, RequestRender(o))
    <3>1. IsWorld(o) BY <2>4 DEF Same
    <3> QED BY <3>1, RequestRenderSame
  <2>6. Same(w, RequestRender(o)) BY <2>4, <2>5, SameTwice
  <2> QED BY <2>1, <2>6
<1> QED BY <1>1, <1>2

\* start_viewport
LEMMA StartViewportSame ==
  ASSUME NEW w, IsWorld(w), NEW size PROVE Same(w, StartViewport(w, size))
<1>1. CASE ~w.v.opened BY <1>1 DEF StartViewport, Same
<1>2. CASE w.v.opened /\ w.v.vpInflight
  <2>1. PICK o : o = [w EXCEPT !.v.vpPending = TRUE] /\ StartViewport(w, size) = o
    BY <1>2 DEF StartViewport
  <2>2. o.jobs = w.jobs /\ o.idles = w.idles /\ o.refs = w.refs /\ DOMAIN o = DOMAIN w
    BY <2>1
  <2>3. DOMAIN o.v = DOMAIN w.v /\ o.v.closed = w.v.closed /\ o.v.asking = w.v.asking
    BY <2>1 DEF IsWorld
  <2> QED BY <2>1, <2>2, <2>3, OtherFields DEF IsWorld
<1>3. CASE w.v.opened /\ ~w.v.vpInflight
  <2>1. PICK a : a = Outdate(w, {"viewport"}) /\ Same(w, a) /\ IsWorld(a)
    BY OutdateSame DEF Same
  <2>2. PICK o : o = [a EXCEPT !.v.vpInflight = TRUE]
    OBVIOUS
  <2>3. o.jobs = a.jobs /\ o.idles = a.idles /\ o.refs = a.refs /\ DOMAIN o = DOMAIN a
    BY <2>2
  <2>4. DOMAIN o.v = DOMAIN a.v /\ o.v.closed = a.v.closed /\ o.v.asking = a.v.asking
    BY <2>1, <2>2 DEF IsWorld
  <2>5. Same(a, o)
    BY <2>1, <2>3, <2>4, OtherFields DEF IsWorld
  <2>6. PICK req : StartViewport(w, size) = PushReq(o, req) /\ IsMessage(req, Requests)
    <3> DEFINE req == [kind |-> "viewport", cur |-> TRUE, size |-> size]
    <3>1. StartViewport(w, size) = PushReq(o, req)
      BY <1>3, <2>1, <2>2 DEF StartViewport
    <3>2. IsMessage(req, Requests)
      BY DEF IsMessage, Requests
    <3> QED BY <3>1, <3>2
  <2> QED BY <2>1, <2>5, <2>6, PushReqSame, SameTwice DEF Same
<1> QED BY <1>1, <1>2, <1>3

\* maybe_update_viewport
LEMMA MaybeUpdateViewportSame ==
  ASSUME NEW w, IsWorld(w) PROVE Same(w, MaybeUpdateViewport(w))
<1>1. CASE ~ViewportMoved(w.v) BY <1>1 DEF MaybeUpdateViewport, Same
<1>2. CASE ViewportMoved(w.v)
  <2>1. PICK o : /\ o = [w EXCEPT !.v.lastVp = w.v.size]
                 /\ MaybeUpdateViewport(w) = StartViewport(o, w.v.size)
    BY <1>2 DEF MaybeUpdateViewport
  <2>2. o.jobs = w.jobs /\ o.idles = w.idles /\ o.refs = w.refs /\ DOMAIN o = DOMAIN w
    BY <2>1
  <2>3. DOMAIN o.v = DOMAIN w.v /\ o.v.closed = w.v.closed /\ o.v.asking = w.v.asking
    BY <2>1 DEF IsWorld
  <2>4. Same(w, o)
    BY <2>2, <2>3, OtherFields DEF IsWorld
  <2>5. Same(o, StartViewport(o, w.v.size))
    BY <2>4, StartViewportSame DEF Same
  <2> QED BY <2>1, <2>4, <2>5, SameTwice
<1> QED BY <1>1, <1>2

\* do_load
LEMMA DoLoadSame == ASSUME NEW w, IsWorld(w) PROVE Same(w, DoLoad(w))
<1> DEFINE a == Outdate(w, {"load", "render", "viewport", "click"})
<1>1. Same(w, a) /\ IsWorld(a) /\ a.v = w.v
  BY OutdateSame DEF Same
<1>2. PICK o : o = [a EXCEPT !.v = [@ EXCEPT !.load = w.v.load + 1, !.pending = FALSE,
                                    !.inflight = FALSE, !.vpInflight = FALSE,
                                    !.vpPending = FALSE, !.opened = FALSE, !.armed = FALSE,
                                    !.frame = NoFrame, !.loading = TRUE, !.stopped = FALSE]]
  OBVIOUS
<1>3. o.jobs = a.jobs /\ o.idles = a.idles /\ o.refs = a.refs /\ DOMAIN o = DOMAIN a
  BY <1>2
<1>4. DOMAIN o.v = DOMAIN a.v /\ o.v.closed = a.v.closed /\ o.v.asking = a.v.asking
  BY <1>1, <1>2 DEF IsWorld
<1>5. Same(w, o) /\ IsWorld(o)
  BY <1>1, <1>3, <1>4, OtherFields, SameTwice DEF IsWorld, Same
<1>6. CASE w.v.size = 0
  <2>1. PICK p : p = [o EXCEPT !.v.deferred = TRUE] /\ DoLoad(w) = p
    BY <1>2, <1>6 DEF DoLoad
  <2>2. p.jobs = o.jobs /\ p.idles = o.idles /\ p.refs = o.refs /\ DOMAIN p = DOMAIN o
    BY <2>1
  <2>3. DOMAIN p.v = DOMAIN o.v /\ p.v.closed = o.v.closed /\ p.v.asking = o.v.asking
    BY <1>5, <2>1 DEF IsWorld
  <2>4. Same(o, p)
    BY <1>5, <2>2, <2>3, OtherFields DEF IsWorld
  <2> QED BY <1>5, <2>1, <2>4, SameTwice
<1>7. CASE w.v.size # 0
  <2>1. PICK p : p = [o EXCEPT !.v.lastVp = w.v.size]
    OBVIOUS
  <2>2. p.jobs = o.jobs /\ p.idles = o.idles /\ p.refs = o.refs /\ DOMAIN p = DOMAIN o
    BY <2>1
  <2>3. DOMAIN p.v = DOMAIN o.v /\ p.v.closed = o.v.closed /\ p.v.asking = o.v.asking
    BY <1>5, <2>1 DEF IsWorld
  <2>4. Same(o, p) /\ IsWorld(p)
    BY <1>5, <2>2, <2>3, OtherFields DEF IsWorld, Same
  <2>5. PICK req : DoLoad(w) = PushReq(p, req) /\ IsMessage(req, Requests)
    <3> DEFINE req == [kind |-> "load", cur |-> TRUE, load |-> w.v.load + 1, size |-> w.v.size]
    <3>1. DoLoad(w) = PushReq(p, req)
      BY <1>2, <1>7, <2>1 DEF DoLoad
    <3>2. IsMessage(req, Requests)
      BY DEF IsMessage, Requests
    <3> QED BY <3>1, <3>2
  <2> QED BY <1>5, <2>4, <2>5, PushReqSame, SameTwice
<1> QED BY <1>6, <1>7

-----------------------------------------------------------------------------
(* Results *)

\* The result of a load.
LEMMA OnPageSame == ASSUME NEW w, IsWorld(w), NEW r PROVE Same(w, OnPage(w, r))
<1>1. CASE ~r.cur BY <1>1 DEF OnPage, Same
<1>2. CASE r.cur /\ r.outcome = "fail"
  <2>1. PICK o : o = [w EXCEPT !.v.loading = FALSE] /\ OnPage(w, r) = o
    BY <1>2 DEF OnPage
  <2>2. o.jobs = w.jobs /\ o.idles = w.idles /\ o.refs = w.refs /\ DOMAIN o = DOMAIN w
    BY <2>1
  <2>3. DOMAIN o.v = DOMAIN w.v /\ o.v.closed = w.v.closed /\ o.v.asking = w.v.asking
    BY <2>1 DEF IsWorld
  <2>4. Same(w, o) /\ IsWorld(o)
    BY <2>2, <2>3, <2>1, OtherFields DEF IsWorld, Same
  <2> QED BY <2>1, <2>4
<1>3. CASE r.cur /\ r.outcome # "fail" /\ r.outcome = "redirect" /\ w.v.redirects < MaxRedirects
  <2>1. PICK o : o = [w EXCEPT !.v.redirects = @ + 1] /\ OnPage(w, r) = DoLoad(o)
    BY <1>3 DEF OnPage
  <2>2. o.jobs = w.jobs /\ o.idles = w.idles /\ o.refs = w.refs /\ DOMAIN o = DOMAIN w
    BY <2>1
  <2>3. DOMAIN o.v = DOMAIN w.v /\ o.v.closed = w.v.closed /\ o.v.asking = w.v.asking
    BY <2>1 DEF IsWorld
  <2>4. Same(w, o) /\ IsWorld(o)
    BY <2>2, <2>3, <2>1, OtherFields DEF IsWorld, Same
  <2> QED BY <2>1, <2>4, DoLoadSame, SameTwice
<1>4. CASE r.cur /\ r.outcome # "fail" /\ ~(r.outcome = "redirect" /\ w.v.redirects < MaxRedirects)
  <2>1. PICK o : /\ o = [w EXCEPT !.v = [@ EXCEPT !.redirects = 0, !.opened = TRUE, !.loading = FALSE]]
                 /\ OnPage(w, r) = RequestRender(MaybeUpdateViewport(ScrollTo(o, 0)))
    BY <1>4 DEF OnPage
  <2>2. o.jobs = w.jobs /\ o.idles = w.idles /\ o.refs = w.refs /\ DOMAIN o = DOMAIN w
    BY <2>1
  <2>3. DOMAIN o.v = DOMAIN w.v /\ o.v.closed = w.v.closed /\ o.v.asking = w.v.asking
    BY <2>1 DEF IsWorld
  <2>4. Same(w, o) /\ IsWorld(o)
    BY <2>2, <2>3, <2>1, OtherFields DEF IsWorld, Same
  <2>5. PICK a : a = ScrollTo(o, 0) /\ Same(w, a) /\ IsWorld(a)
    BY <2>4, ScrollToSame, SameTwice DEF Same
  <2>6. PICK b : b = MaybeUpdateViewport(a) /\ Same(w, b) /\ IsWorld(b)
    BY <2>5, MaybeUpdateViewportSame, SameTwice DEF Same
  <2> QED BY <2>1, <2>5, <2>6, RequestRenderSame, SameTwice
<1> QED BY <1>1, <1>2, <1>3, <1>4

\* The pixels of a result: a copy, a patch that fits or not, or nothing.
LEMMA OnPatchSame == ASSUME NEW w, IsWorld(w), NEW r PROVE Same(w, OnPatch(w, r))
<1>1. CASE w.v.frame.gen # None /\ w.v.frame.gen = r.base
  <2>1. PICK f, o : o = [w EXCEPT !.v.frame = f] /\ OnPatch(w, r) = o
    BY <1>1 DEF OnPatch
  <2>2. o.jobs = w.jobs /\ o.idles = w.idles /\ o.refs = w.refs /\ DOMAIN o = DOMAIN w
    BY <2>1
  <2>3. DOMAIN o.v = DOMAIN w.v /\ o.v.closed = w.v.closed /\ o.v.asking = w.v.asking
    BY <2>1 DEF IsWorld
  <2>4. Same(w, o) /\ IsWorld(o)
    BY <2>2, <2>3, <2>1, OtherFields DEF IsWorld, Same
  <2> QED BY <2>1, <2>4
<1>2. CASE ~(w.v.frame.gen # None /\ w.v.frame.gen = r.base)
  <2>1. PICK o : o = [w EXCEPT !.v.forceFull = TRUE] /\ OnPatch(w, r) = RequestRender(o)
    BY <1>2 DEF OnPatch
  <2>2. o.jobs = w.jobs /\ o.idles = w.idles /\ o.refs = w.refs /\ DOMAIN o = DOMAIN w
    BY <2>1
  <2>3. DOMAIN o.v = DOMAIN w.v /\ o.v.closed = w.v.closed /\ o.v.asking = w.v.asking
    BY <2>1 DEF IsWorld
  <2>4. Same(w, o) /\ IsWorld(o)
    BY <2>2, <2>3, <2>1, OtherFields DEF IsWorld, Same
  <2> QED BY <2>1, <2>4, RequestRenderSame, SameTwice
<1> QED BY <1>1, <1>2

LEMMA OnPixelsSame == ASSUME NEW w, IsWorld(w), NEW r PROVE Same(w, OnPixels(w, r))
<1>1. CASE r.has = "full" /\ r.cur
  <2>1. PICK f, o : o = [w EXCEPT !.v.frame = f] /\ OnPixels(w, r) = o
    BY <1>1 DEF OnPixels
  <2>2. o.jobs = w.jobs /\ o.idles = w.idles /\ o.refs = w.refs /\ DOMAIN o = DOMAIN w
    BY <2>1
  <2>3. DOMAIN o.v = DOMAIN w.v /\ o.v.closed = w.v.closed /\ o.v.asking = w.v.asking
    BY <2>1 DEF IsWorld
  <2>4. Same(w, o) /\ IsWorld(o)
    BY <2>2, <2>3, <2>1, OtherFields DEF IsWorld, Same
  <2> QED BY <2>1, <2>4
<1>2. CASE ~(r.has = "full" /\ r.cur) /\ r.has = "patch"
  <2>1. OnPixels(w, r) = OnPatch(w, r)
    BY <1>2 DEF OnPixels
  <2> QED BY <2>1, OnPatchSame
<1>3. CASE ~(r.has = "full" /\ r.cur) /\ r.has # "patch"
  <2>1. OnPixels(w, r) = w
    BY <1>3 DEF OnPixels
  <2> QED BY <2>1 DEF Same
<1> QED BY <1>1, <1>2, <1>3

\* The result of a render, one of its parts after another.
LEMMA OnFrameSame == ASSUME NEW w, IsWorld(w), NEW r PROVE Same(w, OnFrame(w, r))
<1> DEFINE arm == IF r.cur /\ r.ok THEN [w EXCEPT !.v.armed = r.animating] ELSE w
           pos == IF r.cur /\ r.ok /\ r.scroll # None THEN ScrollTo(arm, r.scroll) ELSE arm
           pix == IF r.ok THEN OnPixels(pos, r) ELSE pos
           nav == IF r.cur /\ r.ok /\ r.nav /\ pix.v.redirects < MaxRedirects
                  THEN DoLoad([pix EXCEPT !.v.redirects = @ + 1]) ELSE pix
           end == [nav EXCEPT !.v.inflight = FALSE, !.v.pending = FALSE]
<1>0. OnFrame(w, r) = IF nav.v.pending THEN StartRender(end)
                       ELSE IF r.cur /\ ~r.ok THEN [end EXCEPT !.v.loading = FALSE] ELSE end
  BY Zenon DEF OnFrame
<1>1. arm = IF r.cur /\ r.ok THEN [w EXCEPT !.v.armed = r.animating] ELSE w
  OBVIOUS
<1>3. pos = IF r.cur /\ r.ok /\ r.scroll # None THEN ScrollTo(arm, r.scroll) ELSE arm
  OBVIOUS
<1>5. pix = IF r.ok THEN OnPixels(pos, r) ELSE pos
  OBVIOUS
<1>7. nav = IF r.cur /\ r.ok /\ r.nav /\ pix.v.redirects < MaxRedirects
          THEN DoLoad([pix EXCEPT !.v.redirects = @ + 1]) ELSE pix
  OBVIOUS
<1>9. end = [nav EXCEPT !.v.inflight = FALSE, !.v.pending = FALSE]
  OBVIOUS
<1> HIDE DEF arm, pos, pix, nav, end
<1>2. Same(w, arm) /\ IsWorld(arm)
  <2>1. CASE r.cur /\ r.ok
    <3>1. arm = [w EXCEPT !.v.armed = r.animating]
      BY <1>1, <2>1
    <3>2. arm.jobs = w.jobs /\ arm.idles = w.idles /\ arm.refs = w.refs /\ DOMAIN arm = DOMAIN w
      BY <3>1
    <3>3. DOMAIN arm.v = DOMAIN w.v /\ arm.v.closed = w.v.closed /\ arm.v.asking = w.v.asking
      BY <3>1 DEF IsWorld
    <3>4. Same(w, arm) /\ IsWorld(arm)
      BY <3>2, <3>3, <3>1, OtherFields DEF IsWorld, Same
    <3> QED BY <3>4
  <2>2. CASE ~(r.cur /\ r.ok) BY <1>1, <2>2 DEF Same
  <2> QED BY <2>1, <2>2
<1>4. Same(w, pos) /\ IsWorld(pos)
  BY <1>2, <1>3, ScrollToSame, SameTwice DEF Same
<1>6. Same(w, pix) /\ IsWorld(pix)
  BY <1>4, <1>5, OnPixelsSame, SameTwice DEF Same
<1>8. Same(w, nav) /\ IsWorld(nav)
  <2>1. CASE r.cur /\ r.ok /\ r.nav /\ pix.v.redirects < MaxRedirects
    <3>1. PICK o : o = [pix EXCEPT !.v.redirects = @ + 1] /\ nav = DoLoad(o)
      BY <1>7, <2>1
    <3>2. o.jobs = pix.jobs /\ o.idles = pix.idles /\ o.refs = pix.refs /\ DOMAIN o = DOMAIN pix
      BY <1>6, <3>1
    <3>3. DOMAIN o.v = DOMAIN pix.v /\ o.v.closed = pix.v.closed /\ o.v.asking = pix.v.asking
      BY <1>6, <3>1 DEF IsWorld
    <3>4. Same(pix, o) /\ IsWorld(o)
      BY <3>2, <3>3, <1>6, <3>1, OtherFields DEF IsWorld, Same
    <3> QED BY <1>6, <3>1, <3>4, DoLoadSame, SameTwice DEF Same
  <2>2. CASE ~(r.cur /\ r.ok /\ r.nav /\ pix.v.redirects < MaxRedirects) BY <1>6, <1>7, <2>2
  <2> QED BY <2>1, <2>2
<1>10. end.jobs = nav.jobs /\ end.idles = nav.idles /\ end.refs = nav.refs /\ DOMAIN end = DOMAIN nav
  BY <1>8, <1>9
<1>11. DOMAIN end.v = DOMAIN nav.v /\ end.v.closed = nav.v.closed /\ end.v.asking = nav.v.asking
  BY <1>8, <1>9 DEF IsWorld
<1>12. Same(nav, end) /\ IsWorld(end)
  BY <1>10, <1>11, <1>8, <1>9, OtherFields DEF IsWorld, Same
<1>13. Same(w, end) /\ IsWorld(end)
  BY <1>8, <1>12, SameTwice
<1>15. CASE nav.v.pending
  <2>1. OnFrame(w, r) = StartRender(end) BY <1>0, <1>15
  <2>2. Same(end, StartRender(end)) BY <1>13, StartRenderSame
  <2>3. Same(w, StartRender(end)) BY <1>13, <2>2, SameTwice
  <2> QED BY <2>1, <2>3
<1>16. CASE ~nav.v.pending /\ r.cur /\ ~r.ok
  <2>1. PICK o : o = [end EXCEPT !.v.loading = FALSE] /\ OnFrame(w, r) = o
    BY <1>0, <1>16
  <2>2. o.jobs = end.jobs /\ o.idles = end.idles /\ o.refs = end.refs /\ DOMAIN o = DOMAIN end
    BY <1>13, <2>1
  <2>3. DOMAIN o.v = DOMAIN end.v /\ o.v.closed = end.v.closed /\ o.v.asking = end.v.asking
    BY <1>13, <2>1 DEF IsWorld
  <2>4. Same(end, o) /\ IsWorld(o)
    BY <2>2, <2>3, <1>13, <2>1, OtherFields DEF IsWorld, Same
  <2> QED BY <1>13, <2>1, <2>4, SameTwice
<1>17. CASE ~nav.v.pending /\ ~(r.cur /\ ~r.ok)
  BY <1>13, <1>0, <1>17
<1> QED BY <1>15, <1>16, <1>17

\* The result of a change of the viewport.
LEMMA OnViewportSame == ASSUME NEW w, IsWorld(w), NEW r PROVE Same(w, OnViewport(w, r))
<1>1. CASE ~r.cur BY <1>1 DEF OnViewport, Same
<1>2. CASE r.cur
  <2>1. PICK o : o = [w EXCEPT !.v.vpInflight = FALSE]
    OBVIOUS
  <2>2. o.jobs = w.jobs /\ o.idles = w.idles /\ o.refs = w.refs /\ DOMAIN o = DOMAIN w
    BY <2>1
  <2>3. DOMAIN o.v = DOMAIN w.v /\ o.v.closed = w.v.closed /\ o.v.asking = w.v.asking
    BY <2>1 DEF IsWorld
  <2>4. Same(w, o) /\ IsWorld(o)
    BY <2>2, <2>3, <2>1, OtherFields DEF IsWorld, Same
  <2>5. PICK p : p = IF r.ok THEN RequestRender(o) ELSE o
    OBVIOUS
  <2>6. Same(w, p) /\ IsWorld(p)
    BY <2>4, <2>5, RequestRenderSame, SameTwice DEF Same
  <2>7. OnViewport(w, r) = IF p.v.vpPending
                           THEN StartViewport([p EXCEPT !.v.vpPending = FALSE], p.v.lastVp) ELSE p
    BY <1>2, <2>1, <2>5 DEF OnViewport
  <2>8. CASE p.v.vpPending
    <3>1. PICK q : q = [p EXCEPT !.v.vpPending = FALSE] /\ OnViewport(w, r) = StartViewport(q, p.v.lastVp)
      BY <2>7, <2>8
    <3>2. q.jobs = p.jobs /\ q.idles = p.idles /\ q.refs = p.refs /\ DOMAIN q = DOMAIN p
      BY <2>6, <3>1
    <3>3. DOMAIN q.v = DOMAIN p.v /\ q.v.closed = p.v.closed /\ q.v.asking = p.v.asking
      BY <2>6, <3>1 DEF IsWorld
    <3>4. Same(p, q) /\ IsWorld(q)
      BY <3>2, <3>3, <2>6, <3>1, OtherFields DEF IsWorld, Same
    <3> QED BY <2>6, <3>1, <3>4, StartViewportSame, SameTwice
  <2>9. CASE ~p.v.vpPending BY <2>6, <2>7, <2>9
  <2> QED BY <2>8, <2>9
<1> QED BY <1>1, <1>2

\* The results of a click and of a release, and a wake.
LEMMA OnClickSame == ASSUME NEW w, IsWorld(w), NEW r PROVE Same(w, OnClick(w, r))
<1>1. Same(w, w) BY DEF Same
<1> QED BY <1>1, DoLoadSame, RequestRenderSame DEF OnClick

LEMMA OnReleaseSame == ASSUME NEW w, IsWorld(w), NEW r PROVE Same(w, OnRelease(w, r))
<1>1. Same(w, w) BY DEF Same
<1> QED BY <1>1, DoLoadSame, RequestRenderSame DEF OnRelease

LEMMA OnWakeSame == ASSUME NEW w, IsWorld(w) PROVE Same(w, OnWake(w))
<1>1. CASE ~w.v.opened BY <1>1 DEF OnWake, Same
<1>2. CASE w.v.opened
  <2>1. PICK o : o = [w EXCEPT !.v.armed = TRUE] /\ OnWake(w) = o
    BY <1>2 DEF OnWake
  <2>2. o.jobs = w.jobs /\ o.idles = w.idles /\ o.refs = w.refs /\ DOMAIN o = DOMAIN w
    BY <2>1
  <2>3. DOMAIN o.v = DOMAIN w.v /\ o.v.closed = w.v.closed /\ o.v.asking = w.v.asking
    BY <2>1 DEF IsWorld
  <2>4. Same(w, o) /\ IsWorld(o)
    BY <2>2, <2>3, <2>1, OtherFields DEF IsWorld, Same
  <2> QED BY <2>1, <2>4
<1> QED BY <1>1, <1>2

-----------------------------------------------------------------------------
(* Steps *)

\* The widget and the dialog hold what is due.
Holders(v) == Held(~v.closed) + Held(v.asking)

\* The inductive invariant: the queues are well formed and the references that
\* they do not hold are the holders'.
Counted == IsWorld(World) /\ Due(World) = Holders(view)

\* At the start the widget holds the view, and nothing is under way.
LEMMA CountedInit == ASSUME ViewInit PROVE Counted
<1>1. PICK size \in Sizes :
        view = [opened |-> FALSE, loading |-> FALSE, closed |-> FALSE, load |-> 0,
                redirects |-> 0, deferred |-> FALSE, size |-> size, lastVp |-> 0,
                scroll |-> 0, frame |-> NoFrame, forceFull |-> FALSE,
                armed |-> FALSE, inflight |-> FALSE, pending |-> FALSE,
                vpInflight |-> FALSE, vpPending |-> FALSE, asking |-> FALSE,
                stopped |-> FALSE]
  BY DEF ViewInit
<1>2. {"closed", "asking"} \subseteq DOMAIN view /\ view.closed = FALSE /\ view.asking = FALSE
  BY <1>1
<1>3. jobs = <<>> /\ idles = <<>> /\ refs = 1
  BY DEF ViewInit
<1>4. ASSUME NEW K PROVE IsQueue(<<>>, K)
  <2>1. <<>> \in Seq({}) /\ Len(<<>>) = 0
    BY EmptySeq
  <2>2. \A i \in 1..Len(<<>>) : FALSE
    BY <2>1
  <2>3. <<>> \in Seq({<<>>[i] : i \in DOMAIN <<>>})
    BY <2>1, OwnElements
  <2> QED BY <2>2, <2>3 DEF IsQueue
<1>5. IsWorld(World)
  <2>1. PICK w : /\ w = [v |-> view, jobs |-> jobs, idles |-> idles, refs |-> refs]
                 /\ w = World
    BY DEF World
  <2>2. DOMAIN w = {"v", "jobs", "idles", "refs"} /\ w.v = view /\ w.refs = 1
    BY <1>3, <2>1
  <2>3. w.jobs = <<>> /\ w.idles = <<>>
    BY <1>3, <2>1
  <2>4. IsQueue(w.jobs, Requests) /\ IsQueue(w.idles, Results)
    BY <1>4, <2>3, Zenon
  <2>5. {"closed", "asking"} \subseteq DOMAIN w.v /\ w.v.closed \in BOOLEAN /\ w.v.asking \in BOOLEAN
    BY <1>2, <2>2
  <2>6. {"v", "jobs", "idles", "refs"} \subseteq DOMAIN w /\ w.refs \in Int
    BY <2>2
  <2> QED BY <2>1, <2>4, <2>5, <2>6, Zenon DEF IsWorld
<1>6. Due(World) = 1 - (0 + 0)
  BY <1>3 DEF Due, World
<1>7. Holders(view) = 1 + 0
  BY <1>2 DEF Holders, Held
<1> QED BY <1>5, <1>6, <1>7 DEF Counted

\* A world that becomes the state, with its holders right, is counted.
LEMMA BecomesCounted ==
  ASSUME NEW STATE o, IsWorld(o), Due(o) = Holders(o.v), Become(o)
  PROVE  Counted'
<1>1. view' = o.v /\ jobs' = o.jobs /\ idles' = o.idles /\ refs' = o.refs
  BY DEF Become
<1>2. PICK w : w = [v |-> view', jobs |-> jobs', idles |-> idles', refs |-> refs']
  OBVIOUS
<1>3. IsWorld(w) /\ Due(w) = Due(o) /\ w.v = o.v
  BY <1>1, <1>2 DEF IsWorld, Due
<1> QED BY <1>1, <1>2, <1>3 DEF Counted, World

\* Steps that keep what is due.
LEMMA SameCounted ==
  ASSUME Counted, NEW STATE o, Same(World, o), Become(o)
  PROVE  Counted'
<1>1. World.v = view
  BY DEF World
<1>2. Due(o) = Holders(o.v) /\ IsWorld(o)
  BY <1>1 DEF Counted, Same, Holders
<1> QED BY <1>2, BecomesCounted

\* A stop leaves open what was open.
LEMMA HaltedFields ==
  ASSUME {"closed", "asking"} \subseteq DOMAIN view
  PROVE  DOMAIN Halted = DOMAIN view /\ Halted.closed = view.closed /\ Halted.asking = view.asking
BY DEF Halted

\* The main loop: the handlers that neither close the view nor end a dialog.
LEMMA HandlerCounted ==
  ASSUME Counted,
         \/ Load \/ Stop \/ AnimTick
         \/ \E size \in Sizes : Resize(size)
         \/ \E pos \in Scrolls : ScrollView(pos)
         \/ \E kind \in {"click", "release"} : Press(kind)
  PROVE  Counted'
<1>w. IsWorld(World) /\ World.v = view
  BY DEF Counted, World
<1>s. Same(World, World)
  BY <1>w DEF Same
<1>1. CASE Load
  BY <1>1, <1>w, DoLoadSame, SameCounted DEF Load
<1>2. CASE Stop
  <2>1. PICK a : a = Outdate(World, {"render"}) /\ Same(World, a) /\ IsWorld(a) /\ a.v = view
    BY <1>w, OutdateSame DEF Same
  <2>2. PICK o : o = [Outdate(World, {"render"}) EXCEPT !.v = Halted] /\ Become(o)
    BY <1>2, Zenon DEF Stop
  <2>3. o = [a EXCEPT !.v = Halted]
    BY <2>1, <2>2, Zenon
  <2>4. /\ o.jobs = a.jobs /\ o.idles = a.idles /\ o.refs = a.refs /\ DOMAIN o = DOMAIN a
        /\ o.v = Halted
    BY <2>1, <2>3 DEF IsWorld
  <2>5. DOMAIN o.v = DOMAIN a.v /\ o.v.closed = a.v.closed /\ o.v.asking = a.v.asking
    BY <1>w, <2>1, <2>4, HaltedFields DEF IsWorld
  <2>6. Same(a, o) /\ IsWorld(o)
    BY <2>1, <2>4, <2>5, OtherFields DEF IsWorld, Same
  <2> QED BY <2>1, <2>2, <2>6, SameTwice, SameCounted
<1>3. CASE AnimTick
  <2>1. CASE view.closed \/ ~view.opened
    <3>1. PICK o : o = [World EXCEPT !.v.armed = FALSE] /\ Become(o)
      BY <1>3, <2>1 DEF AnimTick
    <3>2. o.jobs = World.jobs /\ o.idles = World.idles /\ o.refs = World.refs /\ DOMAIN o = DOMAIN World
      BY <1>w, <3>1
    <3>3. DOMAIN o.v = DOMAIN World.v /\ o.v.closed = World.v.closed /\ o.v.asking = World.v.asking
      BY <1>w, <3>1 DEF IsWorld
    <3>4. Same(World, o) /\ IsWorld(o)
      BY <3>2, <3>3, <1>w, <3>1, OtherFields DEF IsWorld, Same
    <3> QED BY <3>1, <3>4, SameCounted
  <2>2. CASE ~(view.closed \/ ~view.opened)
    <3>1. Become(RequestRender(World))
      BY <1>3, <2>2 DEF AnimTick
    <3> QED BY <1>w, <3>1, RequestRenderSame, SameCounted
  <2> QED BY <2>1, <2>2
<1>4. ASSUME NEW size \in Sizes, Resize(size) PROVE Counted'
  <2>1. PICK w : w = [World EXCEPT !.v.size = size]
    OBVIOUS
  <2>2. w.jobs = World.jobs /\ w.idles = World.idles /\ w.refs = World.refs /\ DOMAIN w = DOMAIN World
    BY <1>w, <2>1
  <2>3. DOMAIN w.v = DOMAIN World.v /\ w.v.closed = World.v.closed /\ w.v.asking = World.v.asking
    BY <1>w, <2>1 DEF IsWorld
  <2>4. Same(World, w) /\ IsWorld(w)
    BY <2>2, <2>3, <1>w, <2>1, OtherFields DEF IsWorld, Same
  <2>5. Become(IF w.v.deferred /\ size > 0 THEN DoLoad([w EXCEPT !.v.deferred = FALSE])
               ELSE IF ~w.v.opened THEN w
               ELSE IF ViewportMoved(w.v) THEN MaybeUpdateViewport(w)
               ELSE RequestRender(w))
    BY <1>4, <2>1 DEF Resize
  <2>6. CASE w.v.deferred /\ size > 0
    <3>1. PICK o : o = [w EXCEPT !.v.deferred = FALSE] /\ Become(DoLoad(o))
      BY <2>5, <2>6
    <3>2. o.jobs = w.jobs /\ o.idles = w.idles /\ o.refs = w.refs /\ DOMAIN o = DOMAIN w
      BY <2>4, <3>1
    <3>3. DOMAIN o.v = DOMAIN w.v /\ o.v.closed = w.v.closed /\ o.v.asking = w.v.asking
      BY <2>4, <3>1 DEF IsWorld
    <3>4. Same(w, o) /\ IsWorld(o)
      BY <3>2, <3>3, <2>4, <3>1, OtherFields DEF IsWorld, Same
    <3>5. Same(World, DoLoad(o))
      BY <2>4, <3>4, DoLoadSame, SameTwice
    <3> QED BY <3>1, <3>5, SameCounted
  <2>7. CASE ~(w.v.deferred /\ size > 0) /\ ~w.v.opened
    BY <2>4, <2>5, <2>7, SameCounted
  <2>8. CASE ~(w.v.deferred /\ size > 0) /\ w.v.opened /\ ViewportMoved(w.v)
    <3>1. Become(MaybeUpdateViewport(w))
      BY <2>5, <2>8
    <3>2. Same(World, MaybeUpdateViewport(w))
      BY <2>4, MaybeUpdateViewportSame, SameTwice
    <3> QED BY <3>1, <3>2, SameCounted
  <2>9. CASE ~(w.v.deferred /\ size > 0) /\ w.v.opened /\ ~ViewportMoved(w.v)
    <3>1. Become(RequestRender(w))
      BY <2>5, <2>9
    <3>2. Same(World, RequestRender(w))
      BY <2>4, RequestRenderSame, SameTwice
    <3> QED BY <3>1, <3>2, SameCounted
  <2> QED BY <2>6, <2>7, <2>8, <2>9
<1>5. ASSUME NEW pos \in Scrolls, ScrollView(pos) PROVE Counted'
  BY <1>5, <1>w, ScrollToSame, SameCounted DEF ScrollView
<1>6. ASSUME NEW kind \in {"click", "release"}, Press(kind) PROVE Counted'
  <2>1. PICK a : /\ a = IF kind = "click" THEN Outdate(World, {"click"}) ELSE World
                 /\ Same(World, a) /\ IsWorld(a)
    BY <1>w, <1>s, OutdateSame DEF Same
  <2>2. PICK req : Become(PushReq(a, req)) /\ IsMessage(req, Requests)
    <3> DEFINE req == [kind |-> kind, cur |-> TRUE, by |-> view.load]
    <3>1. Become(PushReq(a, req))
      BY <1>6, <2>1 DEF Press
    <3>2. IsMessage(req, Requests)
      BY <1>6 DEF IsMessage, Requests
    <3> QED BY <3>1, <3>2
  <2>3. Same(World, PushReq(a, req))
    BY <2>1, <2>2, PushReqSame, SameTwice
  <2> QED BY <2>2, <2>3, SameCounted
<1> QED BY <1>1, <1>2, <1>3, <1>4, <1>5, <1>6

\* References more or less, the queues being as long.
LEMMA DueShifted ==
  ASSUME NEW w, NEW o, NEW d \in Int, w.refs \in Int, Len(w.jobs) \in Nat, Len(w.idles) \in Nat,
         o.refs = w.refs + d, Len(o.jobs) = Len(w.jobs), Len(o.idles) = Len(w.idles)
  PROVE  Due(o) = Due(w) + d /\ o.refs \in Int
<1>1. PICK r, m, n : r = w.refs /\ m = Len(w.jobs) /\ n = Len(w.idles)
  OBVIOUS
<1>2. r \in Int /\ m \in Int /\ n \in Int
  BY <1>1
<1>3. o.refs = r + d /\ Len(o.jobs) = m /\ Len(o.idles) = n
  BY <1>1
<1>4. Due(w) = r - (m + n) /\ Due(o) = (r + d) - (m + n)
  BY <1>1, <1>2, <1>3 DEF Due
<1> QED BY <1>2, <1>3, <1>4

\* The numbers of a world.
LEMMA WorldNumbers ==
  ASSUME NEW w, IsWorld(w)
  PROVE  w.refs \in Int /\ Len(w.jobs) \in Nat /\ Len(w.idles) \in Nat /\ Due(w) \in Int
<1>1. w.refs \in Int /\ Len(w.jobs) \in Nat /\ Len(w.idles) \in Nat
  BY QueueLength DEF IsWorld
<1>2. PICK r, m, n : r = w.refs /\ m = Len(w.jobs) /\ n = Len(w.idles)
  OBVIOUS
<1>i. r \in Int /\ m \in Int /\ n \in Int
  BY <1>1, <1>2
<1>3. Due(w) = r - (m + n)
  BY <1>2, <1>i DEF Due
<1>4. r - (m + n) \in Int
  BY <1>i
<1> QED BY <1>1, <1>3, <1>4, Zenon

\* A world with another number of references, and another view.
LEMMA Recounted ==
  ASSUME NEW w, IsWorld(w), NEW o, NEW d \in Int,
         {"v", "jobs", "idles", "refs"} \subseteq DOMAIN o,
         o.jobs = w.jobs, o.idles = w.idles, o.refs = w.refs + d,
         {"closed", "asking"} \subseteq DOMAIN o.v, o.v.closed \in BOOLEAN, o.v.asking \in BOOLEAN
  PROVE  IsWorld(o) /\ Due(o) = Due(w) + d
<1>1. Len(o.jobs) = Len(w.jobs) /\ Len(o.idles) = Len(w.idles) /\ o.refs = w.refs + d
  OBVIOUS
<1>a. w.refs \in Int /\ Len(w.jobs) \in Nat /\ Len(w.idles) \in Nat
  BY WorldNumbers
<1>2. Due(o) = Due(w) + d /\ o.refs \in Int
  BY <1>1, <1>a, DueShifted
<1> QED BY <1>2 DEF IsWorld

\* view_save: the dialog takes a reference.
LEMMA AskSaveCounted == ASSUME Counted, AskSave PROVE Counted'
<1>w. IsWorld(World) /\ World.v = view /\ Due(World) = Holders(view)
  BY DEF Counted, World
<1>1. PICK o : o = [World EXCEPT !.v.asking = TRUE, !.refs = @ + 1] /\ Become(o)
  BY DEF AskSave
<1>2. o.jobs = World.jobs /\ o.idles = World.idles /\ o.refs = World.refs + 1
      /\ {"v", "jobs", "idles", "refs"} \subseteq DOMAIN o
  BY <1>1 DEF World
<1>3. {"closed", "asking"} \subseteq DOMAIN o.v /\ o.v.closed = view.closed /\ o.v.asking = TRUE
  BY <1>w, <1>1 DEF IsWorld
<1>4. IsWorld(o) /\ Due(o) = Due(World) + 1
  <2>1. o.v.closed \in BOOLEAN /\ o.v.asking \in BOOLEAN
    BY <1>w, <1>3 DEF IsWorld
  <2> QED BY <1>w, <1>2, <1>3, <2>1, Recounted
<1>5. view.asking = FALSE
  BY <1>w DEF AskSave, IsWorld
<1>6. Holders(o.v) = Holders(view) + 1
  BY <1>3, <1>5 DEF Holders, Held
<1> QED BY <1>w, <1>1, <1>4, <1>6, BecomesCounted

\* on_save_dialog_done: the dialog's reference goes.
LEMMA SaveAnsweredCounted ==
  ASSUME Counted, NEW chosen \in BOOLEAN, SaveAnswered(chosen) PROVE Counted'
<1>w. IsWorld(World) /\ World.v = view /\ Due(World) = Holders(view)
  BY DEF Counted, World
<1>1. PICK w : w = [World EXCEPT !.v.asking = FALSE]
  OBVIOUS
<1>2. w.jobs = World.jobs /\ w.idles = World.idles /\ w.refs = World.refs + 0
      /\ {"v", "jobs", "idles", "refs"} \subseteq DOMAIN w
  BY <1>w, <1>1, WorldNumbers DEF World
<1>3. {"closed", "asking"} \subseteq DOMAIN w.v /\ w.v.closed = view.closed /\ w.v.asking = FALSE
  BY <1>w, <1>1 DEF IsWorld
<1>4. IsWorld(w) /\ Due(w) = Due(World) + 0
  <2>1. w.v.closed \in BOOLEAN /\ w.v.asking \in BOOLEAN
    BY <1>w, <1>3 DEF IsWorld
  <2> QED BY <1>w, <1>2, <1>3, <2>1, Recounted
<1>5. PICK o : /\ o = IF chosen /\ w.v.opened THEN PushReq(w, [kind |-> "export", cur |-> TRUE]) ELSE w
               /\ Become([o EXCEPT !.refs = @ - 1])
  BY <1>1 DEF SaveAnswered
<1>6. Same(w, o)
  <2>1. IsMessage([kind |-> "export", cur |-> TRUE], Requests)
    BY DEF IsMessage, Requests
  <2>2. Same(w, w)
    BY <1>4 DEF Same
  <2> QED BY <1>4, <1>5, <2>1, <2>2, PushReqSame
<1>7. PICK p : p = [o EXCEPT !.refs = @ - 1] /\ Become(p)
  BY <1>5
<1>8. IsWorld(p) /\ Due(p) = Due(o) + (-1) /\ p.v = o.v
  <2>1. IsWorld(o) /\ o.refs \in Int
    BY <1>6 DEF Same, IsWorld
  <2>2. p.jobs = o.jobs /\ p.idles = o.idles /\ p.v = o.v /\ DOMAIN p = DOMAIN o /\ p.refs = o.refs - 1
    BY <1>7, <2>1 DEF IsWorld
  <2>3. p.refs = o.refs + (-1)
    BY <2>1, <2>2
  <2>4. /\ {"v", "jobs", "idles", "refs"} \subseteq DOMAIN p /\ {"closed", "asking"} \subseteq DOMAIN p.v
        /\ p.v.closed \in BOOLEAN /\ p.v.asking \in BOOLEAN
    BY <2>1, <2>2 DEF IsWorld
  <2> QED BY <2>1, <2>2, <2>3, <2>4, Recounted
<1>9. Holders(p.v) = Holders(view) - 1 /\ Holders(view) \in Int
  <2>1. p.v.closed = view.closed /\ p.v.asking = FALSE
    BY <1>3, <1>6, <1>8 DEF Same
  <2>2. view.asking = TRUE
    BY <1>w DEF SaveAnswered, IsWorld
  <2> QED BY <2>1, <2>2 DEF Holders, Held
<1>10. Due(p) = Holders(p.v)
  <2>1. Due(o) = Due(w)
    BY <1>6 DEF Same
  <2> QED BY <1>w, <1>4, <1>8, <1>9, <2>1
<1> QED BY <1>7, <1>8, <1>10, BecomesCounted

\* on_area_destroy: the widget's reference goes.
LEMMA DestroyCounted == ASSUME Counted, Destroy PROVE Counted'
<1>w. IsWorld(World) /\ World.v = view /\ Due(World) = Holders(view)
  BY DEF Counted, World
<1>1. PICK w : w = [World EXCEPT !.v.closed = TRUE, !.v.armed = FALSE]
  OBVIOUS
<1>2. w.jobs = World.jobs /\ w.idles = World.idles /\ w.refs = World.refs + 0
      /\ {"v", "jobs", "idles", "refs"} \subseteq DOMAIN w
  BY <1>w, <1>1, WorldNumbers DEF World
<1>3. {"closed", "asking"} \subseteq DOMAIN w.v /\ w.v.closed = TRUE /\ w.v.asking = view.asking
  BY <1>w, <1>1 DEF IsWorld
<1>4. IsWorld(w) /\ Due(w) = Due(World) + 0
  <2>1. w.v.closed \in BOOLEAN /\ w.v.asking \in BOOLEAN
    BY <1>w, <1>3 DEF IsWorld
  <2> QED BY <1>w, <1>2, <1>3, <2>1, Recounted
<1>5. PICK o : /\ o = PushReq(w, [kind |-> "close", cur |-> TRUE])
               /\ Become([o EXCEPT !.refs = @ - 1])
  BY <1>1 DEF Destroy
<1>6. Same(w, o)
  <2>1. IsMessage([kind |-> "close", cur |-> TRUE], Requests)
    BY DEF IsMessage, Requests
  <2> QED BY <1>4, <1>5, <2>1, PushReqSame
<1>7. PICK p : p = [o EXCEPT !.refs = @ - 1] /\ Become(p)
  BY <1>5
<1>8. IsWorld(p) /\ Due(p) = Due(o) + (-1) /\ p.v = o.v
  <2>1. IsWorld(o) /\ o.refs \in Int
    BY <1>6 DEF Same, IsWorld
  <2>2. p.jobs = o.jobs /\ p.idles = o.idles /\ p.v = o.v /\ DOMAIN p = DOMAIN o /\ p.refs = o.refs - 1
    BY <1>7, <2>1 DEF IsWorld
  <2>3. p.refs = o.refs + (-1)
    BY <2>1, <2>2
  <2>4. /\ {"v", "jobs", "idles", "refs"} \subseteq DOMAIN p /\ {"closed", "asking"} \subseteq DOMAIN p.v
        /\ p.v.closed \in BOOLEAN /\ p.v.asking \in BOOLEAN
    BY <2>1, <2>2 DEF IsWorld
  <2> QED BY <2>1, <2>2, <2>3, <2>4, Recounted
<1>9. Holders(p.v) = Holders(view) - 1 /\ Holders(view) \in Int
  <2>1. p.v.asking = view.asking /\ p.v.closed = TRUE
    BY <1>3, <1>6, <1>8 DEF Same
  <2>2. view.closed = FALSE
    BY <1>w DEF Destroy, IsWorld
  <2> QED BY <2>1, <2>2 DEF Holders, Held
<1>10. Due(p) = Holders(p.v)
  <2>1. Due(o) = Due(w)
    BY <1>6 DEF Same
  <2> QED BY <1>w, <1>4, <1>8, <1>9, <2>1
<1> QED BY <1>7, <1>8, <1>10, BecomesCounted

\* A message less.
LEMMA OneLess ==
  ASSUME NEW w, NEW o, w.refs \in Int, Len(w.jobs) \in Nat, Len(w.idles) \in Nat,
         o.refs = w.refs, Len(o.jobs) = Len(w.jobs), Len(o.idles) = Len(w.idles) - 1
  PROVE  Due(o) = Due(w) + 1
<1>1. PICK r, m, n : r = w.refs /\ m = Len(w.jobs) /\ n = Len(w.idles)
  OBVIOUS
<1>2. r \in Int /\ m \in Int /\ n \in Int
  BY <1>1
<1>3. o.refs = r /\ Len(o.jobs) = m /\ Len(o.idles) = n - 1
  BY <1>1
<1>4. Due(w) = r - (m + n) /\ Due(o) = r - (m + (n - 1))
  BY <1>1, <1>2, <1>3 DEF Due
<1> QED BY <1>2, <1>4

\* The next idle: its message leaves the queue, and its reference goes.
LEMMA DeliverCounted == ASSUME Counted, Deliver PROVE Counted'
<1>w. IsWorld(World) /\ World.v = view /\ World.idles = idles /\ Due(World) = Holders(view)
  BY DEF Counted, World
<1>1. PICK w : w = [World EXCEPT !.idles = Tail(@)]
  OBVIOUS
<1>2. /\ w.jobs = World.jobs /\ w.idles = Tail(World.idles) /\ w.refs = World.refs /\ w.v = World.v
      /\ {"v", "jobs", "idles", "refs"} \subseteq DOMAIN w
  BY <1>w, <1>1 DEF World
<1>3. /\ IsQueue(Tail(World.idles), Results) /\ Len(Tail(World.idles)) = Len(World.idles) - 1
      /\ IsMessage(Head(World.idles), Results)
  BY <1>w, TailQueue DEF Deliver, IsWorld
<1>4. IsWorld(w)
  BY <1>w, <1>2, <1>3 DEF IsWorld
<1>5. PICK r : r = Head(idles) /\ r.kind \in Results
  BY <1>w, <1>3 DEF IsMessage
<1>6. PICK o : o = OnResult(w, r)
  OBVIOUS
<1>7. Same(w, o)
  <2>s. Same(w, w) BY <1>4 DEF Same
  <2>0. CASE w.v.closed BY <1>6, <2>0, <2>s DEF OnResult
  <2>1. CASE ~w.v.closed /\ r.kind = "load" BY <1>4, <1>6, <2>1, OnPageSame DEF OnResult
  <2>2. CASE ~w.v.closed /\ r.kind = "render" BY <1>4, <1>6, <2>2, OnFrameSame DEF OnResult
  <2>3. CASE ~w.v.closed /\ r.kind = "viewport" BY <1>4, <1>6, <2>3, OnViewportSame DEF OnResult
  <2>4. CASE ~w.v.closed /\ r.kind = "click" BY <1>4, <1>6, <2>4, OnClickSame DEF OnResult
  <2>5. CASE ~w.v.closed /\ r.kind = "release" BY <1>4, <1>6, <2>5, OnReleaseSame DEF OnResult
  <2>6. CASE ~w.v.closed /\ r.kind = "wake" BY <1>4, <1>6, <2>6, OnWakeSame DEF OnResult
  <2>7. CASE ~w.v.closed /\ r.kind \in {"export", "unref"} BY <1>6, <2>7, <2>s DEF OnResult
  <2> QED BY <1>4, <1>5, <2>0, <2>1, <2>2, <2>3, <2>4, <2>5, <2>6, <2>7 DEF Results, IsWorld
<1>8. PICK p : p = [o EXCEPT !.refs = @ - 1] /\ Become(p)
  BY <1>1, <1>5, <1>6 DEF Deliver
<1>9. IsWorld(p) /\ Due(p) = Due(o) + (-1) /\ p.v = o.v
  <2>1. IsWorld(o) /\ o.refs \in Int
    BY <1>7 DEF Same, IsWorld
  <2>2. p.jobs = o.jobs /\ p.idles = o.idles /\ p.v = o.v /\ DOMAIN p = DOMAIN o /\ p.refs = o.refs - 1
    BY <1>8, <2>1 DEF IsWorld
  <2>3. p.refs = o.refs + (-1)
    BY <2>1, <2>2
  <2>4. /\ {"v", "jobs", "idles", "refs"} \subseteq DOMAIN p /\ {"closed", "asking"} \subseteq DOMAIN p.v
        /\ p.v.closed \in BOOLEAN /\ p.v.asking \in BOOLEAN
    BY <2>1, <2>2 DEF IsWorld
  <2> QED BY <2>1, <2>2, <2>3, <2>4, Recounted
<1>10. Due(w) = Due(World) + 1
  <2>1. w.refs = World.refs /\ Len(w.jobs) = Len(World.jobs) /\ Len(w.idles) = Len(World.idles) - 1
    BY <1>2, <1>3
  <2>2. World.refs \in Int /\ Len(World.jobs) \in Nat /\ Len(World.idles) \in Nat
    BY <1>w, WorldNumbers
  <2> QED BY <2>1, <2>2, OneLess
<1>11. Holders(p.v) = Holders(view)
  BY <1>w, <1>2, <1>7, <1>9 DEF Same, Holders
<1>12. Due(p) = Holders(p.v)
  <2>1. Due(o) = Due(World) + 1 /\ Due(World) \in Int
    BY <1>w, <1>7, <1>10, WorldNumbers DEF Same
  <2>2. PICK d : d = Due(World) /\ d \in Int
    BY <2>1
  <2>3. Due(p) = (d + 1) + (-1)
    BY <1>9, <2>1, <2>2
  <2> QED BY <1>w, <1>11, <2>2, <2>3
<1> QED BY <1>8, <1>9, <1>12, BecomesCounted

\* A reference and an idle more.
LEMMA WakeGrows ==
  ASSUME NEW w, NEW o, w.refs \in Int, Len(w.jobs) \in Nat, Len(w.idles) \in Nat,
         o.refs = w.refs + 1, Len(o.jobs) = Len(w.jobs), Len(o.idles) = Len(w.idles) + 1
  PROVE  Due(o) = Due(w) /\ o.refs \in Int
<1>1. PICK r, m, n : r = w.refs /\ m = Len(w.jobs) /\ n = Len(w.idles)
  OBVIOUS
<1>2. r \in Int /\ m \in Int /\ n \in Int
  BY <1>1
<1>3. o.refs = r + 1 /\ Len(o.jobs) = m /\ Len(o.idles) = n + 1
  BY <1>1
<1>4. Due(w) = r - (m + n) /\ Due(o) = (r + 1) - (m + (n + 1))
  BY <1>1, <1>2, <1>3 DEF Due
<1> QED BY <1>2, <1>3, <1>4

\* A message put at the end by concatenation.
LEMMA SnocQueue ==
  ASSUME NEW q, NEW K, NEW m, IsQueue(q, K), IsMessage(m, K)
  PROVE  IsQueue(q \o <<m>>, K) /\ Len(q \o <<m>>) = Len(q) + 1
<1> DEFINE S == {q[i] : i \in DOMAIN q} \cup {m}
<1>1. q \in Seq(S) /\ m \in S
  <2>1. q \in [1..Len(q) -> S] /\ Len(q) \in Nat
    BY QueueLength DEF IsQueue
  <2> QED BY <2>1, SeqDef
<1>2. q \o <<m>> = Append(q, m)
  BY <1>1, AppendIsConcat
<1> QED BY <1>2, AppendQueue

\* One more reference than messages, when a job has left and its end has come.
LEMMA DueFinished ==
  ASSUME NEW w, NEW o, NEW k \in Nat, w.refs \in Int, Len(w.jobs) \in Nat, Len(w.idles) \in Nat,
         o.refs = w.refs + k, Len(o.jobs) = Len(w.jobs) - 1, Len(o.idles) = Len(w.idles) + k + 1
  PROVE  Due(o) = Due(w) /\ o.refs \in Int
<1>1. PICK r, m, n : r = w.refs /\ m = Len(w.jobs) /\ n = Len(w.idles)
  OBVIOUS
<1>2. r \in Int /\ m \in Int /\ n \in Int
  BY <1>1
<1>3. o.refs = r + k /\ Len(o.jobs) = m - 1 /\ Len(o.idles) = n + k + 1
  BY <1>1
<1>4. Due(w) = r - (m + n) /\ Due(o) = (r + k) - ((m - 1) + (n + k + 1))
  BY <1>1, <1>2, <1>3 DEF Due
<1>5. (r + k) - ((m - 1) + (n + k + 1)) = r - (m + n) /\ r + k \in Int
  BY <1>2
<1> QED BY <1>3, <1>4, <1>5

\* The end of a job: its request leaves, a result may come, and the request's
\* reference is on its way to be dropped.
LEMMA FinishCounted ==
  ASSUME Counted, jobs # <<>>, NEW STATE results,
         results = <<>> \/ \E m : results = <<m>> /\ IsMessage(m, Results),
         Finish(results)
  PROVE  Counted'
<1>w. /\ IsWorld(World) /\ Due(World) = Holders(view)
      /\ World.v = view /\ World.jobs = jobs /\ World.idles = idles /\ World.refs = refs
  BY DEF Counted, World
<1>1. IsQueue(Tail(jobs), Requests) /\ Len(Tail(jobs)) = Len(jobs) - 1
  BY <1>w, TailQueue DEF IsWorld
<1>2. PICK k, q : /\ k \in Nat /\ q = idles \o results /\ Len(results) = k
                   /\ IsQueue(q, Results) /\ Len(q) = Len(idles) + k
  <2>1. CASE results = <<>>
    <3>1. idles \o <<>> = idles
      BY <1>w, ConcatEmptySeq DEF IsWorld, IsQueue
    <3>2. Len(results) = 0 /\ Len(idles) \in Nat
      BY <1>w, <2>1, QueueLength, EmptySeq DEF IsWorld
    <3> QED BY <1>w, <2>1, <3>1, <3>2 DEF IsWorld
  <2>2. ASSUME NEW m, results = <<m>>, IsMessage(m, Results)
        PROVE  \E k, q : /\ k \in Nat /\ q = idles \o results /\ Len(results) = k
                          /\ IsQueue(q, Results) /\ Len(q) = Len(idles) + k
    <3>1. IsQueue(idles \o <<m>>, Results) /\ Len(idles \o <<m>>) = Len(idles) + 1
      BY <1>w, <2>2, SnocQueue DEF IsWorld
    <3>2. Len(results) = 1
      BY <2>2
    <3> QED BY <2>2, <3>1, <3>2
  <2> QED BY <2>1, <2>2
<1>3. PICK u : u = [kind |-> "unref", cur |-> TRUE] /\ IsMessage(u, Results)
  <2>1. IsMessage([kind |-> "unref", cur |-> TRUE], Results)
    BY DEF IsMessage, Results
  <2> QED BY <2>1
<1>4. IsQueue(q \o <<u>>, Results) /\ Len(q \o <<u>>) = Len(q) + 1
  BY <1>2, <1>3, SnocQueue
<1>5. PICK o : o = [v |-> view, jobs |-> Tail(jobs), idles |-> q \o <<u>>, refs |-> refs + k]
  OBVIOUS
<1>6. Become(o)
  <2>1. view' = o.v /\ jobs' = o.jobs
    BY <1>5 DEF Finish
  <2>2. idles' = o.idles /\ refs' = o.refs
    BY <1>2, <1>3, <1>5 DEF Finish
  <2> QED BY <2>1, <2>2 DEF Become
<1>7. o.v = view /\ o.jobs = Tail(jobs) /\ o.idles = q \o <<u>> /\ o.refs = refs + k
  BY <1>5
<1>8. Due(o) = Due(World) /\ o.refs \in Int
  <2>1. World.refs \in Int /\ Len(World.jobs) \in Nat /\ Len(World.idles) \in Nat
    BY <1>w, WorldNumbers
  <2>2. o.refs = World.refs + k /\ Len(o.jobs) = Len(World.jobs) - 1
    BY <1>w, <1>1, <1>7, Zenon
  <2>3. Len(o.idles) = Len(World.idles) + k + 1
    BY <1>w, <1>2, <1>4, <1>7, Zenon
  <2>4. k \in Nat
    BY <1>2
  <2> QED BY <2>1, <2>2, <2>3, <2>4, DueFinished
<1>9. IsWorld(o)
  <2>1. {"v", "jobs", "idles", "refs"} \subseteq DOMAIN o
    BY <1>5
  <2>2. {"closed", "asking"} \subseteq DOMAIN o.v /\ o.v.closed \in BOOLEAN /\ o.v.asking \in BOOLEAN
    BY <1>w, <1>7 DEF IsWorld
  <2>3. IsQueue(o.jobs, Requests) /\ IsQueue(o.idles, Results)
    BY <1>1, <1>4, <1>7, Zenon
  <2> QED BY <1>8, <2>1, <2>2, <2>3, Zenon DEF IsWorld
<1>10. Holders(o.v) = Holders(view)
  BY <1>7
<1> QED BY <1>w, <1>6, <1>8, <1>9, <1>10, BecomesCounted

\* The engine thread: each job ends with at most one result.
LEMMA RunJobCounted == ASSUME Counted, RunJob PROVE Counted'
<1>0. jobs # <<>>
  BY DEF RunJob
<1>f. ASSUME NEW STATE m, IsMessage(m, Results), Finish(<<m>>) PROVE Counted'
  BY <1>0, <1>f, FinishCounted
<1> DEFINE j == Head(jobs)
<1>1. ASSUME NEW outcome \in {"ok", "fail", "redirect"}, RunLoad(j, outcome) PROVE Counted'
  <2>1. Finish(<<[kind |-> "load", cur |-> j.cur, load |-> j.load, outcome |-> outcome]>>)
    BY <1>1 DEF RunLoad
  <2>2. IsMessage([kind |-> "load", cur |-> j.cur, load |-> j.load, outcome |-> outcome], Results)
    BY DEF IsMessage, Results
  <2> QED BY <2>1, <2>2, <1>f
<1>2. ASSUME RunRender(j) PROVE Counted'
  <2> DEFINE s   == IF j.full THEN InvalidateFrame(Session) ELSE Session
             out == RenderOf(s, j)
  <2>1. CASE s.page = None
    <3>1. Finish(<<[kind |-> "render", cur |-> j.cur, ok |-> FALSE]>>)
      BY <1>2, <2>1 DEF RunRender
    <3>2. IsMessage([kind |-> "render", cur |-> j.cur, ok |-> FALSE], Results)
      BY DEF IsMessage, Results
    <3> QED BY <3>1, <3>2, <1>f
  <2>2. CASE s.page # None
    <3>1. Finish(<<out.r>>)
      BY <1>2, <2>2 DEF RunRender
    <3>2. IsMessage(out.r, Results)
      BY DEF IsMessage, Results, RenderOf
    <3> QED BY <3>1, <3>2, <1>f
  <2> QED BY <2>1, <2>2
<1>3. ASSUME RunViewport(j) PROVE Counted'
  <2>1. Finish(<<[kind |-> "viewport", cur |-> j.cur, ok |-> Session.page # None]>>)
    BY <1>3 DEF RunViewport
  <2>2. IsMessage([kind |-> "viewport", cur |-> j.cur, ok |-> Session.page # None], Results)
    BY DEF IsMessage, Results
  <2> QED BY <2>1, <2>2, <1>f
<1>4. ASSUME NEW effect \in {"none", "draw", "nav"}, RunPress(j, effect), j.kind \in {"click", "release"}
      PROVE Counted'
  <2>1. Finish(<<[kind |-> j.kind, cur |-> j.cur, by |-> j.by, href |-> effect = "nav",
                  changed |-> effect = "draw"]>>)
    BY <1>4 DEF RunPress
  <2>2. IsMessage([kind |-> j.kind, cur |-> j.cur, by |-> j.by, href |-> effect = "nav",
                   changed |-> effect = "draw"], Results)
    BY <1>4 DEF IsMessage, Results
  <2> QED BY <2>1, <2>2, <1>f
<1>5. ASSUME RunExport PROVE Counted'
  <2>1. Finish(<<[kind |-> "export", cur |-> TRUE]>>)
    BY <1>5 DEF RunExport
  <2>2. IsMessage([kind |-> "export", cur |-> TRUE], Results)
    BY DEF IsMessage, Results
  <2> QED BY <2>1, <2>2, <1>f
<1>6. ASSUME RunClose PROVE Counted'
  <2>1. Finish(<<>>)
    BY <1>6 DEF RunClose
  <2> QED BY <1>0, <2>1, FinishCounted
<1> QED BY <1>1, <1>2, <1>3, <1>4, <1>5, <1>6 DEF RunJob

\* session_wake_dispatch: the wake takes a reference.
LEMMA SessionWakeCounted == ASSUME Counted, SessionWake PROVE Counted'
<1>w. /\ IsWorld(World) /\ Due(World) = Holders(view)
      /\ World.v = view /\ World.jobs = jobs /\ World.idles = idles /\ World.refs = refs
  BY DEF Counted, World
<1>1. PICK m : /\ m = [kind |-> "wake", cur |-> TRUE] /\ IsMessage(m, Results)
               /\ idles' = Append(idles, m)
  BY DEF SessionWake, IsMessage, Results
<1>2. IsQueue(Append(idles, m), Results) /\ Len(Append(idles, m)) = Len(idles) + 1
  BY <1>w, <1>1, AppendQueue DEF IsWorld
<1>3. PICK o : o = [v |-> view, jobs |-> jobs, idles |-> Append(idles, m), refs |-> refs + 1]
  OBVIOUS
<1>4. o.v = view /\ o.jobs = jobs /\ o.idles = Append(idles, m) /\ o.refs = refs + 1
  BY <1>3
<1>5. Become(o)
  BY <1>1, <1>4 DEF SessionWake, Become
<1>6. Due(o) = Due(World) /\ o.refs \in Int
  <2>1. World.refs \in Int /\ Len(World.jobs) \in Nat /\ Len(World.idles) \in Nat
    BY <1>w, WorldNumbers
  <2>2. o.refs = World.refs + 1 /\ Len(o.jobs) = Len(World.jobs) /\ Len(o.idles) = Len(World.idles) + 1
    BY <1>w, <1>2, <1>4, Zenon
  <2> QED BY <2>1, <2>2, WakeGrows
<1>7. IsWorld(o)
  <2>1. {"v", "jobs", "idles", "refs"} \subseteq DOMAIN o
    BY <1>3
  <2>2. {"closed", "asking"} \subseteq DOMAIN o.v /\ o.v.closed \in BOOLEAN /\ o.v.asking \in BOOLEAN
    BY <1>w, <1>4 DEF IsWorld
  <2>3. IsQueue(o.jobs, Requests) /\ IsQueue(o.idles, Results)
    BY <1>w, <1>2, <1>4, Zenon DEF IsWorld
  <2> QED BY <1>6, <2>1, <2>2, <2>3, Zenon DEF IsWorld
<1>8. Holders(o.v) = Holders(view)
  BY <1>4
<1> QED BY <1>w, <1>5, <1>6, <1>7, <1>8, BecomesCounted

-----------------------------------------------------------------------------
\* The invariant is inductive.
LEMMA CountedStep == ASSUME Counted, [ViewNext]_vars PROVE Counted'
<1>1. CASE User
  BY <1>1, HandlerCounted, DestroyCounted, AskSaveCounted, SaveAnsweredCounted DEF User
<1>2. CASE AnimTick BY <1>2, HandlerCounted
<1>3. CASE Deliver BY <1>3, DeliverCounted
<1>4. CASE RunJob BY <1>4, RunJobCounted
<1>5. CASE SessionWake BY <1>5, SessionWakeCounted
<1>6. CASE PageWork \/ UNCHANGED vars
  <2>1. view' = view /\ jobs' = jobs /\ idles' = idles /\ refs' = refs
    BY <1>6 DEF PageWork, PageStep, vars
  <2>2. World' = World
    BY <2>1 DEF World
  <2> QED BY <2>1, <2>2 DEF Counted
<1> QED BY <1>1, <1>2, <1>3, <1>4, <1>5, <1>6 DEF ViewNext

\* Whatever is counted is balanced.
LEMMA CountedBalances == ASSUME Counted PROVE RefsBalanced
<1>1. PICK w : w = World /\ IsWorld(w) /\ Due(w) = Holders(view)
  BY DEF Counted
<1>2. w.refs = refs /\ w.jobs = jobs /\ w.idles = idles /\ w.v = view
  BY <1>1 DEF World
<1>3. refs \in Int /\ Len(jobs) \in Int /\ Len(idles) \in Int
  <2>1. w.refs \in Int /\ Len(w.jobs) \in Nat /\ Len(w.idles) \in Nat
    BY <1>1, WorldNumbers
  <2> QED BY <1>2, <2>1
<1>4. Due(w) = refs - (Len(jobs) + Len(idles))
  BY <1>2, Zenon DEF Due
<1>5. Held(~view.closed) \in Int /\ Held(view.asking) \in Int
  BY DEF Held
<1>6. refs - (Len(jobs) + Len(idles)) = Held(~view.closed) + Held(view.asking)
  BY <1>1, <1>4 DEF Holders
<1> QED BY <1>3, <1>5, <1>6 DEF RefsBalanced

\* A view keeps one reference for its widget, one for a file dialog and one for
\* everything under way, for any tiles, sizes, positions and bounds: it is freed
\* neither too early nor never (pv_ref and pv_unref in procview.c).
THEOREM RefsAreBalanced == ViewSpec => []RefsBalanced
<1>1. ViewInit => Counted
  BY CountedInit
<1>2. Counted /\ [ViewNext]_vars => Counted'
  BY CountedStep
<1>3. Counted => RefsBalanced
  BY CountedBalances
<1> QED BY <1>1, <1>2, <1>3, PTL DEF ViewSpec

-----------------------------------------------------------------------------
(* Frames: what the view shows, against what the engine has drawn.         *)
(*                                                                         *)
(* H is the history of the engine's frame by generation.  A patch is the   *)
(* difference of two generations of H, so the order in which copies and    *)
(* patches are taken or dropped does not matter, only the generations.     *)

NoLoads(q) == \A i \in 1..Len(q) : q[i].kind # "load"
NoCurrentLoads(q) == \A i \in 1..Len(q) : q[i].kind = "load" => ~q[i].cur

IsPicture(p) ==
  \E l, v, z, c, t :
    p = [load |-> l, vp |-> v, size |-> z, scroll |-> c, tiles |-> t]

\* The session's frame is the last of the history, and while it is valid one of
\* the current page.
SessionFits(s, H) ==
  /\ {"page", "valid", "fb", "gen"} \subseteq DOMAIN s
  /\ s.gen \in Nat /\ H[s.gen] = s.fb
  /\ s.valid => IsPicture(s.fb) /\ s.fb.load = s.page

FrameFits(v, g, H) ==
  \/ v.frame = NoFrame
  \/ /\ v.frame.gen \in 0..g
     /\ v.frame.shot = H[v.frame.gen] /\ v.frame.pic = v.frame.shot
     /\ IsPicture(v.frame.pic) /\ v.frame.pic.load = v.load

\* A request that is still current is of the view's navigation.
JobFits(m, load, opened) ==
  /\ "cur" \in DOMAIN m /\ m.kind # "close"
  /\ m.cur => /\ m.kind = "load" => m.load = load
              /\ m.kind = "render" => opened
              /\ m.kind = "click" => m.by = load

\* The picture of a render's result is in the history, and a patch leads to it.
RenderFits(m, g, H) ==
  /\ "ok" \in DOMAIN m
  /\ m.ok => /\ {"has", "pic", "damage", "base", "gen"} \subseteq DOMAIN m
             /\ m.gen \in 0..g /\ m.pic = H[m.gen] /\ IsPicture(m.pic)
             /\ m.has = "patch" => /\ m.base \in 0..g
                                   /\ m.pic = Patched(H[m.base], m.damage, m.pic.tiles)

\* So is a result, and the page of a load that is current is the session's.
CurrentFits(m, load, page, q) ==
  m.cur => /\ m.kind = "load" => NoLoads(q) /\ (m.outcome # "fail" => page = load)
           /\ m.kind = "render" /\ m.ok => m.pic.load = load
           /\ m.kind = "click" => m.by = load

ResultFits(m, load, s, H, q) ==
  /\ "cur" \in DOMAIN m
  /\ m.kind = "render" => RenderFits(m, s.gen, H)
  /\ CurrentFits(m, load, s.page, q)

LastLoad(q) ==
  \A i, k \in 1..Len(q) : i < k /\ q[i].kind = "load" /\ q[i].cur => q[k].kind # "load"

\* A world of an open view, next to a session.
Fits(w, s, H) ==
  /\ IsWorld(w) /\ ~w.v.closed
  /\ {"load", "frame", "opened"} \subseteq DOMAIN w.v
  /\ SessionFits(s, H) /\ FrameFits(w.v, s.gen, H)
  /\ w.v.opened => s.page = w.v.load /\ NoLoads(w.jobs)
  /\ \A i \in 1..Len(w.jobs) : JobFits(w.jobs[i], w.v.load, w.v.opened)
  /\ LastLoad(w.jobs)
  /\ \A i \in 1..Len(w.idles) : ResultFits(w.idles[i], w.v.load, s, H, w.jobs)

\* A handler that does not navigate leaves the frame and takes no result.
Kept(w, o) ==
  /\ o.v.load = w.v.load /\ o.v.frame = w.v.frame /\ o.v.opened = w.v.opened
  /\ Len(o.idles) = Len(w.idles)

-----------------------------------------------------------------------------
(* What the parts of a handler leave as it fits *)

\* Kept is transitive.
LEMMA KeptTwice ==
  ASSUME NEW w, NEW o, NEW p, Kept(w, o), Kept(o, p)
  PROVE  Kept(w, p)
BY DEF Kept

\* Other fields of the view.
LEMMA TweakFits ==
  ASSUME NEW w, NEW s, NEW H, Fits(w, s, H), NEW o,
         {"v", "jobs", "idles", "refs"} \subseteq DOMAIN o,
         o.jobs = w.jobs, o.idles = w.idles, o.refs = w.refs,
         DOMAIN o.v = DOMAIN w.v,
         o.v.closed = w.v.closed, o.v.asking = w.v.asking, o.v.load = w.v.load,
         o.v.frame = w.v.frame, o.v.opened = w.v.opened
  PROVE  Fits(o, s, H) /\ Kept(w, o)
<1>1. IsWorld(o)
  <2>1. IsWorld(w) BY DEF Fits
  <2> QED BY <2>1 DEF IsWorld
<1>2. FrameFits(o.v, s.gen, H)
  BY DEF Fits, FrameFits
<1> QED BY <1>1, <1>2 DEF Fits, Kept

\* One message of a queue whose sequence numbers were raised.
LEMMA OutdatedMessage ==
  ASSUME NEW q, NEW K, NEW kinds, IsQueue(q, K), NEW i \in 1..Len(q), "cur" \in DOMAIN q[i]
  PROVE  /\ Outdated(q, kinds)[i].kind = q[i].kind
         /\ "cur" \in DOMAIN Outdated(q, kinds)[i]
         /\ Outdated(q, kinds)[i].cur => /\ Outdated(q, kinds)[i] = q[i]
                                         /\ q[i].kind \notin kinds
         /\ \/ Outdated(q, kinds)[i] = q[i]
            \/ Outdated(q, kinds)[i] = [q[i] EXCEPT !.cur = FALSE]
<1>1. DOMAIN q = 1..Len(q)
  BY QueueLength
<1>2. Outdated(q, kinds)[i] = IF q[i].kind \in kinds THEN [q[i] EXCEPT !.cur = FALSE] ELSE q[i]
  BY <1>1 DEF Outdated
<1>3. PICK m : m = q[i] /\ "kind" \in DOMAIN m /\ "cur" \in DOMAIN m
  BY DEF IsQueue
<1>4. PICK n : n = [m EXCEPT !.cur = FALSE]
  OBVIOUS
<1>5. n.kind = m.kind /\ n.cur = FALSE /\ DOMAIN n = DOMAIN m
  BY <1>3, <1>4
<1>6. CASE q[i].kind \in kinds
  <2>1. Outdated(q, kinds)[i] = n
    BY <1>2, <1>3, <1>4, <1>6
  <2> QED BY <1>3, <1>4, <1>5, <2>1
<1>7. CASE q[i].kind \notin kinds
  BY <1>2, <1>3, <1>7
<1> QED BY <1>6, <1>7

\* All of them.
LEMMA OutdatedMessages ==
  ASSUME NEW q, NEW K, NEW kinds, IsQueue(q, K), \A i \in 1..Len(q) : "cur" \in DOMAIN q[i]
  PROVE  \A i \in 1..Len(q) :
           /\ Outdated(q, kinds)[i].kind = q[i].kind /\ "cur" \in DOMAIN Outdated(q, kinds)[i]
           /\ Outdated(q, kinds)[i].cur => Outdated(q, kinds)[i] = q[i] /\ q[i].kind \notin kinds
<1>1. \A i \in 1..Len(q) :
         /\ Outdated(q, kinds)[i].kind = q[i].kind
         /\ "cur" \in DOMAIN Outdated(q, kinds)[i]
         /\ Outdated(q, kinds)[i].cur => /\ Outdated(q, kinds)[i] = q[i]
                                         /\ q[i].kind \notin kinds
         /\ \/ Outdated(q, kinds)[i] = q[i]
            \/ Outdated(q, kinds)[i] = [q[i] EXCEPT !.cur = FALSE]
  BY OutdatedMessage
<1> QED BY <1>1, Zenon

\* The picture of a result whose request was outdated is still in the history.
LEMMA OutdatedRender ==
  ASSUME NEW m, NEW g, NEW H, RenderFits(m, g, H), NEW n, n = [m EXCEPT !.cur = FALSE]
  PROVE  RenderFits(n, g, H)
<1>1. DOMAIN n = DOMAIN m
  OBVIOUS
<1>2. n.ok = m.ok
  BY DEF RenderFits
<1>3. CASE m.ok
  <2>1. {"has", "pic", "damage", "base", "gen"} \subseteq DOMAIN m
    BY <1>3 DEF RenderFits
  <2>2. /\ n.has = m.has /\ n.pic = m.pic /\ n.damage = m.damage
        /\ n.base = m.base /\ n.gen = m.gen
    BY <2>1
  <2> QED BY <1>1, <1>2, <1>3, <2>1, <2>2 DEF RenderFits
<1> QED BY <1>1, <1>2, <1>3 DEF RenderFits

\* The same, queue by queue: requests,
LEMMA OutdatedJobs ==
  ASSUME NEW q, NEW K, NEW kinds, IsQueue(q, K), NEW load, NEW opened,
         \A i \in 1..Len(q) : JobFits(q[i], load, opened),
         LastLoad(q)
  PROVE  /\ \A i \in 1..Len(q) : JobFits(Outdated(q, kinds)[i], load, opened)
         /\ LastLoad(Outdated(q, kinds))
         /\ NoLoads(q) => NoLoads(Outdated(q, kinds))
         /\ \A i \in 1..Len(q) : /\ Outdated(q, kinds)[i].kind = q[i].kind
                                 /\ Outdated(q, kinds)[i].cur => q[i].kind \notin kinds
<1>0. Len(Outdated(q, kinds)) = Len(q)
  BY OutdatedQueue
<1>1. PICK o : o = Outdated(q, kinds)
  OBVIOUS
<1>m. \A i \in 1..Len(q) :
        /\ Outdated(q, kinds)[i].kind = q[i].kind /\ "cur" \in DOMAIN Outdated(q, kinds)[i]
        /\ Outdated(q, kinds)[i].cur => Outdated(q, kinds)[i] = q[i] /\ q[i].kind \notin kinds
  <2>1. \A i \in 1..Len(q) : "cur" \in DOMAIN q[i] BY DEF JobFits
  <2> QED BY <2>1, OutdatedMessages
<1>2. ASSUME NEW i \in 1..Len(q)
      PROVE  /\ o[i].kind = q[i].kind /\ "cur" \in DOMAIN o[i]
             /\ o[i].cur => o[i] = q[i] /\ q[i].kind \notin kinds
  <2> QED BY <1>1, <1>m, Zenon
<1>3. \A i \in 1..Len(q) : JobFits(o[i], load, opened)
  BY <1>2 DEF JobFits
<1>4. LastLoad(o)
  BY <1>0, <1>1, <1>2 DEF LastLoad
<1>5. NoLoads(q) => NoLoads(o)
  BY <1>0, <1>1, <1>2 DEF NoLoads
<1> QED BY <1>1, <1>2, <1>3, <1>4, <1>5

\* and results.
LEMMA OutdatedResults ==
  ASSUME NEW q, NEW K, NEW kinds, IsQueue(q, K), NEW load, NEW s, NEW H, NEW jq, NEW ojq,
         \A i \in 1..Len(q) : ResultFits(q[i], load, s, H, jq),
         NoLoads(jq) => NoLoads(ojq)
  PROVE  /\ \A i \in 1..Len(q) : ResultFits(Outdated(q, kinds)[i], load, s, H, ojq)
         /\ \A i \in 1..Len(q) : /\ Outdated(q, kinds)[i].kind = q[i].kind
                                 /\ Outdated(q, kinds)[i].cur => q[i].kind \notin kinds
<1>1. PICK o : o = Outdated(q, kinds)
  OBVIOUS
<1>2. ASSUME NEW i \in 1..Len(q)
      PROVE  /\ o[i].kind = q[i].kind /\ "cur" \in DOMAIN o[i]
             /\ o[i].cur => o[i] = q[i] /\ q[i].kind \notin kinds
             /\ o[i] = q[i] \/ o[i] = [q[i] EXCEPT !.cur = FALSE]
  <2>1. "cur" \in DOMAIN q[i] BY DEF ResultFits
  <2> QED BY <1>1, <2>1, OutdatedMessage
<1>3. ASSUME NEW i \in 1..Len(q) PROVE ResultFits(o[i], load, s, H, ojq)
  <2>1. ResultFits(q[i], load, s, H, jq)
    OBVIOUS
  <2>2. o[i].kind = "render" => RenderFits(o[i], s.gen, H)
    BY <1>2, <2>1, OutdatedRender DEF ResultFits
  <2>3. CurrentFits(o[i], load, s.page, ojq)
    BY <1>2, <2>1 DEF ResultFits, CurrentFits
  <2> QED BY <1>2, <2>2, <2>3 DEF ResultFits
<1> QED BY <1>1, <1>2, <1>3

\* Raising sequence numbers.
LEMMA OutdateFits ==
  ASSUME NEW w, NEW s, NEW H, Fits(w, s, H), NEW kinds
  PROVE  /\ Fits(Outdate(w, kinds), s, H) /\ Kept(w, Outdate(w, kinds))
         /\ \A i \in 1..Len(Outdate(w, kinds).jobs) :
              Outdate(w, kinds).jobs[i].cur => Outdate(w, kinds).jobs[i].kind \notin kinds
         /\ \A i \in 1..Len(Outdate(w, kinds).idles) :
              Outdate(w, kinds).idles[i].cur => Outdate(w, kinds).idles[i].kind \notin kinds
<1>1. PICK o : /\ o = Outdate(w, kinds) /\ IsWorld(o) /\ o.v = w.v
               /\ o.jobs = Outdated(w.jobs, kinds) /\ o.idles = Outdated(w.idles, kinds)
  <2>1. IsWorld(w) BY DEF Fits
  <2>2. IsWorld(Outdate(w, kinds)) /\ Outdate(w, kinds).v = w.v
    BY <2>1, OutdateSame DEF Same
  <2>3. /\ Outdate(w, kinds).jobs = Outdated(w.jobs, kinds)
        /\ Outdate(w, kinds).idles = Outdated(w.idles, kinds)
    BY <2>1 DEF Outdate, IsWorld
  <2> QED BY <2>2, <2>3
<1>2. /\ IsQueue(w.jobs, Requests) /\ IsQueue(w.idles, Results) /\ LastLoad(w.jobs)
      /\ \A i \in 1..Len(w.jobs) : JobFits(w.jobs[i], w.v.load, w.v.opened)
      /\ \A i \in 1..Len(w.idles) : ResultFits(w.idles[i], w.v.load, s, H, w.jobs)
  BY DEF Fits, IsWorld
<1>3. Len(o.jobs) = Len(w.jobs) /\ Len(o.idles) = Len(w.idles)
  <2>1. PICK a : a = w.jobs /\ IsQueue(a, Requests) /\ o.jobs = Outdated(a, kinds)
    BY <1>1, <1>2
  <2>2. PICK b : b = w.idles /\ IsQueue(b, Results) /\ o.idles = Outdated(b, kinds)
    BY <1>1, <1>2
  <2>3. Len(Outdated(a, kinds)) = Len(a)
    BY <2>1, OutdatedQueue
  <2>4. Len(Outdated(b, kinds)) = Len(b)
    BY <2>2, OutdatedQueue
  <2> QED BY <2>1, <2>2, <2>3, <2>4, Zenon
<1>n. PICK q, p, load, opened :
        q = w.jobs /\ p = w.idles /\ load = w.v.load /\ opened = w.v.opened
  OBVIOUS
<1>4. /\ \A i \in 1..Len(w.jobs) : JobFits(o.jobs[i], w.v.load, w.v.opened)
      /\ LastLoad(o.jobs)
      /\ NoLoads(w.jobs) => NoLoads(o.jobs)
      /\ \A i \in 1..Len(w.jobs) : /\ o.jobs[i].kind = w.jobs[i].kind
                                   /\ o.jobs[i].cur => w.jobs[i].kind \notin kinds
  <2>1. IsQueue(q, Requests) /\ LastLoad(q) /\ \A i \in 1..Len(q) : JobFits(q[i], load, opened)
    BY <1>2, <1>n, Zenon
  <2>2. /\ \A i \in 1..Len(q) : JobFits(Outdated(q, kinds)[i], load, opened)
        /\ LastLoad(Outdated(q, kinds))
        /\ NoLoads(q) => NoLoads(Outdated(q, kinds))
        /\ \A i \in 1..Len(q) : /\ Outdated(q, kinds)[i].kind = q[i].kind
                                /\ Outdated(q, kinds)[i].cur => q[i].kind \notin kinds
    BY <2>1, OutdatedJobs, Zenon
  <2> QED BY <1>1, <1>n, <2>2, Zenon
<1>5. /\ \A i \in 1..Len(w.idles) : ResultFits(o.idles[i], w.v.load, s, H, o.jobs)
      /\ \A i \in 1..Len(w.idles) : /\ o.idles[i].kind = w.idles[i].kind
                                    /\ o.idles[i].cur => w.idles[i].kind \notin kinds
  <2>1. PICK jq, ojq : jq = w.jobs /\ ojq = o.jobs
    OBVIOUS
  <2>2. /\ IsQueue(p, Results)
        /\ NoLoads(jq) => NoLoads(ojq)
        /\ \A i \in 1..Len(p) : ResultFits(p[i], load, s, H, jq)
    BY <1>2, <1>4, <1>n, <2>1, Zenon
  <2>3. /\ \A i \in 1..Len(p) : ResultFits(Outdated(p, kinds)[i], load, s, H, ojq)
        /\ \A i \in 1..Len(p) : /\ Outdated(p, kinds)[i].kind = p[i].kind
                                /\ Outdated(p, kinds)[i].cur => p[i].kind \notin kinds
    BY <2>2, OutdatedResults, Zenon
  <2>4. o.idles = Outdated(p, kinds)
    BY <1>1, <1>n
  <2>5. /\ \A i \in 1..Len(p) : ResultFits(o.idles[i], load, s, H, ojq)
        /\ \A i \in 1..Len(p) : o.idles[i].kind = p[i].kind /\ (o.idles[i].cur => p[i].kind \notin kinds)
    BY <2>3, <2>4
  <2> QED BY <1>n, <2>1, <2>5
<1>6. Fits(o, s, H)
  BY <1>1, <1>3, <1>4, <1>5 DEF Fits
<1> QED BY <1>1, <1>3, <1>4, <1>5, <1>6 DEF Kept
\* A request is posted: anything but a load, or the load of a new navigation.
LEMMA AppendFits ==
  ASSUME NEW q, NEW K, NEW m, IsQueue(q, K), NEW load, NEW opened,
         \A i \in 1..Len(q) : JobFits(q[i], load, opened), LastLoad(q),
         JobFits(m, load, opened), m.kind = "load" => NoCurrentLoads(q)
  PROVE  /\ \A i \in 1..Len(Append(q, m)) : JobFits(Append(q, m)[i], load, opened)
         /\ LastLoad(Append(q, m))
         /\ m.kind # "load" /\ NoLoads(q) => NoLoads(Append(q, m))
<1>1. PICK S : q \in Seq(S) /\ m \in S
  <2> DEFINE S == {q[i] : i \in DOMAIN q} \cup {m}
  <2>1. q \in [1..Len(q) -> S] /\ Len(q) \in Nat
    BY QueueLength DEF IsQueue
  <2>2. q \in Seq(S) /\ m \in S BY <2>1, SeqDef
  <2> QED BY <2>2
<1>2. PICK o, n : o = Append(q, m) /\ n = Len(q)
  OBVIOUS
<1>3. n \in Nat /\ Len(o) = n + 1
  BY <1>1, <1>2
<1>4. \A i \in 1..Len(o) : o[i] = IF i <= n THEN q[i] ELSE m
  BY <1>1, <1>2
<1>5. ASSUME NEW i \in 1..Len(o) PROVE (i \in 1..n /\ o[i] = q[i]) \/ (i = n + 1 /\ o[i] = m)
  BY <1>3, <1>4
<1>6. \A i \in 1..Len(o) : JobFits(o[i], load, opened)
  BY <1>2, <1>5
<1>7. LastLoad(o)
  <2> SUFFICES ASSUME NEW i \in 1..Len(o), NEW k \in 1..Len(o), i < k,
                      o[i].kind = "load", o[i].cur
               PROVE  o[k].kind # "load"
    BY DEF LastLoad
  <2>1. i \in 1..n /\ o[i] = q[i]
    BY <1>3, <1>5
  <2>2. CASE k \in 1..n /\ o[k] = q[k]
    BY <1>2, <2>1, <2>2 DEF LastLoad
  <2>3. CASE k = n + 1 /\ o[k] = m
    BY <1>2, <2>1, <2>3 DEF NoCurrentLoads
  <2> QED BY <1>5, <2>2, <2>3
<1>8. m.kind # "load" /\ NoLoads(q) => NoLoads(o)
  BY <1>2, <1>5 DEF NoLoads
<1> QED BY <1>2, <1>6, <1>7, <1>8

\* push_req, on an open view.
LEMMA PushReqFits ==
  ASSUME NEW w, NEW s, NEW H, Fits(w, s, H), NEW req, IsMessage(req, Requests),
         JobFits(req, w.v.load, w.v.opened),
         req.kind = "load" => /\ ~w.v.opened
                              /\ NoCurrentLoads(w.jobs) /\ NoCurrentLoads(w.idles)
  PROVE  Fits(PushReq(w, req), s, H) /\ Kept(w, PushReq(w, req))
<1>1. PICK o : o = PushReq(w, req)
  OBVIOUS
<1>2. IsWorld(w) /\ ~w.v.closed
  BY DEF Fits
<1>3. IsWorld(o) /\ o.v = w.v
  BY <1>1, <1>2, PushReqSame DEF Same
<1>4. o.jobs = Append(w.jobs, req) /\ o.idles = w.idles
  BY <1>1, <1>2 DEF PushReq, IsWorld
<1>5. PICK q, load, opened : q = w.jobs /\ load = w.v.load /\ opened = w.v.opened
  OBVIOUS
<1>6. /\ IsQueue(q, Requests) /\ LastLoad(q)
      /\ \A i \in 1..Len(q) : JobFits(q[i], load, opened)
      /\ JobFits(req, load, opened)
      /\ req.kind = "load" => NoCurrentLoads(q)
  BY <1>5 DEF Fits, IsWorld
<1>7. /\ \A i \in 1..Len(Append(q, req)) : JobFits(Append(q, req)[i], load, opened)
      /\ LastLoad(Append(q, req))
      /\ req.kind # "load" /\ NoLoads(q) => NoLoads(Append(q, req))
  BY <1>6, AppendFits
<1>8. /\ \A i \in 1..Len(o.jobs) : JobFits(o.jobs[i], o.v.load, o.v.opened)
      /\ LastLoad(o.jobs)
      /\ req.kind # "load" /\ NoLoads(w.jobs) => NoLoads(o.jobs)
  BY <1>3, <1>4, <1>5, <1>7, Zenon
<1>9. o.v.opened => s.page = o.v.load /\ NoLoads(o.jobs)
  BY <1>3, <1>8 DEF Fits
<1>10. ASSUME NEW i \in 1..Len(o.idles) PROVE ResultFits(o.idles[i], o.v.load, s, H, o.jobs)
  <2>1. ResultFits(w.idles[i], w.v.load, s, H, w.jobs) /\ o.idles[i] = w.idles[i]
    BY <1>4 DEF Fits
  <2>2. w.idles[i].kind = "load" /\ w.idles[i].cur => req.kind # "load"
    BY <1>4 DEF NoCurrentLoads
  <2>3. CurrentFits(o.idles[i], o.v.load, s.page, o.jobs)
    BY <1>3, <1>8, <2>1, <2>2 DEF ResultFits, CurrentFits
  <2> QED BY <2>1, <2>3 DEF ResultFits
<1>11. Fits(o, s, H)
  BY <1>2, <1>3, <1>8, <1>9, <1>10 DEF Fits
<1> QED BY <1>1, <1>3, <1>4, <1>11 DEF Kept

\* A request of an open view that is no load and no click.
LEMMA PostedFits ==
  ASSUME NEW w, NEW s, NEW H, Fits(w, s, H), w.v.opened, NEW m,
         {"kind", "cur"} \subseteq DOMAIN m,
         m.kind \in {"render", "viewport", "release", "export"}
  PROVE  Fits(PushReq(w, m), s, H) /\ Kept(w, PushReq(w, m))
<1>1. IsMessage(m, Requests)
  BY DEF IsMessage, Requests
<1>2. JobFits(m, w.v.load, w.v.opened)
  BY DEF JobFits
<1> QED BY <1>1, <1>2, PushReqFits

\* start_render
LEMMA StartRenderFits ==
  ASSUME NEW w, NEW s, NEW H, Fits(w, s, H)
  PROVE  Fits(StartRender(w), s, H) /\ Kept(w, StartRender(w))
<1>1. CASE ~w.v.opened BY <1>1 DEF StartRender, Kept
<1>2. CASE w.v.opened
  <2>1. PICK a : a = Outdate(w, {"render"}) /\ Fits(a, s, H) /\ Kept(w, a)
    BY OutdateFits
  <2>2. PICK o : o = [a EXCEPT !.v.inflight = TRUE, !.v.forceFull = FALSE]
    OBVIOUS
  <2>3. Fits(o, s, H) /\ Kept(a, o)
    <3>1. /\ {"v", "jobs", "idles", "refs"} \subseteq DOMAIN a
          /\ {"closed", "asking", "load", "frame", "opened"} \subseteq DOMAIN a.v
      BY <2>1 DEF Fits, IsWorld
    <3>2. o.jobs = a.jobs /\ o.idles = a.idles /\ o.refs = a.refs /\ DOMAIN o = DOMAIN a
      BY <2>2
    <3>3. /\ DOMAIN o.v = DOMAIN a.v /\ o.v.closed = a.v.closed /\ o.v.asking = a.v.asking
          /\ o.v.load = a.v.load /\ o.v.frame = a.v.frame /\ o.v.opened = a.v.opened
      BY <2>2, <3>1
    <3> QED BY <2>1, <3>1, <3>2, <3>3, TweakFits
  <2>4. Kept(w, o)
    BY <2>1, <2>3, KeptTwice
  <2>5. PICK req : /\ StartRender(w) = PushReq(o, req)
                   /\ {"kind", "cur"} \subseteq DOMAIN req /\ req.kind = "render"
    <3> DEFINE req == [kind |-> "render", cur |-> TRUE, size |-> w.v.size,
                       scroll |-> w.v.scroll, full |-> w.v.forceFull]
    <3>1. StartRender(w) = PushReq(o, req)
      BY <1>2, <2>1, <2>2 DEF StartRender
    <3> QED BY <3>1
  <2>6. o.v.opened
    BY <1>2, <2>4 DEF Kept
  <2>7. Fits(PushReq(o, req), s, H) /\ Kept(o, PushReq(o, req))
    BY <2>3, <2>5, <2>6, PostedFits
  <2>8. Kept(w, PushReq(o, req))
    BY <2>4, <2>7, KeptTwice
  <2> QED BY <2>5, <2>7, <2>8, Zenon
<1> QED BY <1>1, <1>2
Kernel == {"closed", "asking", "load", "frame", "opened"}

\* One field of the view that neither the frame nor the requests depend on.
LEMMA FieldFits ==
  ASSUME NEW w, NEW s, NEW H, Fits(w, s, H), NEW f, f \notin Kernel, NEW e,
         NEW o, o = [w EXCEPT !.v = [w.v EXCEPT ![f] = e]]
  PROVE  Fits(o, s, H) /\ Kept(w, o)
<1>1. {"v", "jobs", "idles", "refs"} \subseteq DOMAIN w /\ Kernel \subseteq DOMAIN w.v
  BY DEF Fits, IsWorld, Kernel
<1>2. /\ o.jobs = w.jobs /\ o.idles = w.idles /\ o.refs = w.refs /\ DOMAIN o = DOMAIN w
      /\ o.v = [w.v EXCEPT ![f] = e]
  BY <1>1
<1>3. PICK v, u : v = w.v /\ u = o.v
  OBVIOUS
<1>4. u = [v EXCEPT ![f] = e] /\ Kernel \subseteq DOMAIN v
  BY <1>1, <1>2, <1>3
<1>5. DOMAIN u = DOMAIN v /\ \A x \in Kernel : u[x] = v[x]
  BY <1>4 DEF Kernel
<1>6. /\ u.closed = v.closed /\ u.asking = v.asking /\ u.load = v.load
      /\ u.frame = v.frame /\ u.opened = v.opened
  BY <1>5 DEF Kernel
<1> QED BY <1>1, <1>2, <1>3, <1>6, <1>5, TweakFits

\* request_render
LEMMA RequestRenderFits ==
  ASSUME NEW w, NEW s, NEW H, Fits(w, s, H)
  PROVE  Fits(RequestRender(w), s, H) /\ Kept(w, RequestRender(w))
<1>1. CASE ~w.v.opened BY <1>1 DEF RequestRender, Kept
<1>2. CASE w.v.opened /\ w.v.inflight
  <2>1. PICK o : o = [w EXCEPT !.v.pending = TRUE] /\ RequestRender(w) = o
    BY <1>2 DEF RequestRender
  <2>2. o = [w EXCEPT !.v = [w.v EXCEPT !["pending"] = TRUE]]
    BY <2>1
  <2>3. "pending" \notin Kernel
    BY DEF Kernel
  <2> QED BY <2>1, <2>2, <2>3, FieldFits
<1>3. CASE w.v.opened /\ ~w.v.inflight
  BY <1>3, StartRenderFits DEF RequestRender
<1> QED BY <1>1, <1>2, <1>3

\* on_adj_changed, as ScrollTo runs it.
LEMMA ScrollToFits ==
  ASSUME NEW w, NEW s, NEW H, Fits(w, s, H), NEW pos
  PROVE  Fits(ScrollTo(w, pos), s, H) /\ Kept(w, ScrollTo(w, pos))
<1>1. CASE pos = w.v.scroll BY <1>1 DEF ScrollTo, Kept
<1>2. CASE pos # w.v.scroll
  <2>1. PICK o : o = [w EXCEPT !.v.scroll = pos] /\ ScrollTo(w, pos) = RequestRender(o)
    BY <1>2 DEF ScrollTo
  <2>2. Fits(o, s, H) /\ Kept(w, o)
    <3>1. o = [w EXCEPT !.v = [w.v EXCEPT !["scroll"] = pos]] /\ "scroll" \notin Kernel
      BY <2>1 DEF Kernel
    <3> QED BY <3>1, FieldFits
  <2>3. Fits(RequestRender(o), s, H) /\ Kept(o, RequestRender(o))
    BY <2>2, RequestRenderFits
  <2>4. Kept(w, RequestRender(o))
    BY <2>2, <2>3, KeptTwice
  <2> QED BY <2>1, <2>3, <2>4
<1> QED BY <1>1, <1>2

\* start_viewport
LEMMA StartViewportFits ==
  ASSUME NEW w, NEW s, NEW H, Fits(w, s, H), NEW size
  PROVE  Fits(StartViewport(w, size), s, H) /\ Kept(w, StartViewport(w, size))
<1>1. CASE ~w.v.opened BY <1>1 DEF StartViewport, Kept
<1>2. CASE w.v.opened /\ w.v.vpInflight
  <2>1. PICK o : o = [w EXCEPT !.v.vpPending = TRUE] /\ StartViewport(w, size) = o
    BY <1>2 DEF StartViewport
  <2>2. o = [w EXCEPT !.v = [w.v EXCEPT !["vpPending"] = TRUE]] /\ "vpPending" \notin Kernel
    BY <2>1 DEF Kernel
  <2> QED BY <2>1, <2>2, FieldFits
<1>3. CASE w.v.opened /\ ~w.v.vpInflight
  <2>1. PICK a : a = Outdate(w, {"viewport"}) /\ Fits(a, s, H) /\ Kept(w, a)
    BY OutdateFits
  <2>2. PICK o : o = [a EXCEPT !.v.vpInflight = TRUE]
    OBVIOUS
  <2>3. Fits(o, s, H) /\ Kept(a, o)
    <3>1. o = [a EXCEPT !.v = [a.v EXCEPT !["vpInflight"] = TRUE]] /\ "vpInflight" \notin Kernel
      BY <2>2 DEF Kernel
    <3> QED BY <2>1, <3>1, FieldFits
  <2>4. Kept(w, o)
    BY <2>1, <2>3, KeptTwice
  <2>5. PICK req : /\ StartViewport(w, size) = PushReq(o, req)
                   /\ {"kind", "cur"} \subseteq DOMAIN req /\ req.kind = "viewport"
    <3> DEFINE req == [kind |-> "viewport", cur |-> TRUE, size |-> size]
    <3>1. StartViewport(w, size) = PushReq(o, req)
      BY <1>3, <2>1, <2>2 DEF StartViewport
    <3> QED BY <3>1
  <2>6. o.v.opened
    BY <1>3, <2>4 DEF Kept
  <2>7. Fits(PushReq(o, req), s, H) /\ Kept(o, PushReq(o, req))
    BY <2>3, <2>5, <2>6, PostedFits
  <2>8. Kept(w, PushReq(o, req))
    BY <2>4, <2>7, KeptTwice
  <2> QED BY <2>5, <2>7, <2>8, Zenon
<1> QED BY <1>1, <1>2, <1>3

\* maybe_update_viewport
LEMMA MaybeUpdateViewportFits ==
  ASSUME NEW w, NEW s, NEW H, Fits(w, s, H)
  PROVE  Fits(MaybeUpdateViewport(w), s, H) /\ Kept(w, MaybeUpdateViewport(w))
<1>1. CASE ~ViewportMoved(w.v) BY <1>1 DEF MaybeUpdateViewport, Kept
<1>2. CASE ViewportMoved(w.v)
  <2>1. PICK o : /\ o = [w EXCEPT !.v.lastVp = w.v.size]
                 /\ MaybeUpdateViewport(w) = StartViewport(o, w.v.size)
    BY <1>2 DEF MaybeUpdateViewport
  <2>2. Fits(o, s, H) /\ Kept(w, o)
    <3>1. o = [w EXCEPT !.v = [w.v EXCEPT !["lastVp"] = w.v.size]] /\ "lastVp" \notin Kernel
      BY <2>1 DEF Kernel
    <3> QED BY <3>1, FieldFits
  <2>3. Fits(StartViewport(o, w.v.size), s, H) /\ Kept(o, StartViewport(o, w.v.size))
    BY <2>2, StartViewportFits
  <2>4. Kept(w, StartViewport(o, w.v.size))
    BY <2>2, <2>3, KeptTwice
  <2> QED BY <2>1, <2>3, <2>4
<1> QED BY <1>1, <1>2

\* do_load: nothing of what is under way is current any more.
LEMMA DoLoadFits ==
  ASSUME NEW w, NEW s, NEW H, Fits(w, s, H)
  PROVE  Fits(DoLoad(w), s, H) /\ Len(DoLoad(w).idles) = Len(w.idles)
<1> DEFINE kinds == {"load", "render", "viewport", "click"}
<1>1. PICK a : a = Outdate(w, kinds) /\ Fits(a, s, H) /\ Kept(w, a)
  BY OutdateFits
<1>2. /\ \A i \in 1..Len(a.jobs) : a.jobs[i].cur => a.jobs[i].kind \notin kinds
      /\ \A i \in 1..Len(a.idles) : a.idles[i].cur => a.idles[i].kind \notin kinds
  BY <1>1, OutdateFits
<1>3. PICK o : o = [a EXCEPT !.v = [@ EXCEPT !.load = w.v.load + 1, !.pending = FALSE,
                                    !.inflight = FALSE, !.vpInflight = FALSE,
                                    !.vpPending = FALSE, !.opened = FALSE, !.armed = FALSE,
                                    !.frame = NoFrame, !.loading = TRUE, !.stopped = FALSE]]
  OBVIOUS
<1>4. /\ {"v", "jobs", "idles", "refs"} \subseteq DOMAIN a /\ Kernel \subseteq DOMAIN a.v
      /\ IsWorld(a)
  BY <1>1 DEF Fits, IsWorld, Kernel
<1>5. o.jobs = a.jobs /\ o.idles = a.idles /\ o.refs = a.refs /\ DOMAIN o = DOMAIN a
  BY <1>3
<1>6. /\ DOMAIN o.v = DOMAIN a.v /\ o.v.closed = a.v.closed /\ o.v.asking = a.v.asking
      /\ o.v.load = w.v.load + 1 /\ o.v.frame = NoFrame /\ o.v.opened = FALSE
  BY <1>3, <1>4 DEF Kernel
<1>7. Fits(o, s, H)
  <2>1. IsWorld(o)
    BY <1>4, <1>5, <1>6 DEF IsWorld
  <2>2. FrameFits(o.v, s.gen, H)
    BY <1>6 DEF FrameFits
  <2>3. ASSUME NEW i \in 1..Len(o.jobs) PROVE JobFits(o.jobs[i], o.v.load, o.v.opened)
    BY <1>1, <1>2, <1>5 DEF Fits, JobFits
  <2>4. LastLoad(o.jobs)
    BY <1>1, <1>5 DEF Fits
  <2>5. ASSUME NEW i \in 1..Len(o.idles) PROVE ResultFits(o.idles[i], o.v.load, s, H, o.jobs)
    BY <1>1, <1>2, <1>5 DEF Fits, ResultFits, CurrentFits
  <2>6. /\ ~o.v.closed /\ {"load", "frame", "opened"} \subseteq DOMAIN o.v
        /\ SessionFits(s, H)
    BY <1>1, <1>6 DEF Fits
  <2> QED BY <1>6, <2>1, <2>2, <2>3, <2>4, <2>5, <2>6 DEF Fits
<1>8. /\ NoCurrentLoads(o.jobs) /\ NoCurrentLoads(o.idles)
      /\ Len(o.idles) = Len(w.idles)
  BY <1>1, <1>2, <1>5 DEF NoCurrentLoads, Kept
<1>9. CASE w.v.size = 0
  <2>1. PICK p : p = [o EXCEPT !.v.deferred = TRUE] /\ DoLoad(w) = p
    BY <1>1, <1>3, <1>9 DEF DoLoad
  <2>2. p = [o EXCEPT !.v = [o.v EXCEPT !["deferred"] = TRUE]] /\ "deferred" \notin Kernel
    BY <2>1 DEF Kernel
  <2>3. Fits(p, s, H) /\ Kept(o, p)
    BY <1>7, <2>2, FieldFits
  <2> QED BY <1>8, <2>1, <2>3 DEF Kept
<1>10. CASE w.v.size # 0
  <2>1. PICK p : p = [o EXCEPT !.v.lastVp = w.v.size]
    OBVIOUS
  <2>2. p = [o EXCEPT !.v = [o.v EXCEPT !["lastVp"] = w.v.size]] /\ "lastVp" \notin Kernel
    BY <2>1 DEF Kernel
  <2>3. Fits(p, s, H) /\ Kept(o, p)
    BY <1>7, <2>2, FieldFits
  <2>4. PICK req : /\ DoLoad(w) = PushReq(p, req)
                   /\ {"kind", "cur"} \subseteq DOMAIN req
                   /\ req.kind = "load" /\ req.load = w.v.load + 1
    <3> DEFINE req == [kind |-> "load", cur |-> TRUE, load |-> w.v.load + 1, size |-> w.v.size]
    <3>1. DoLoad(w) = PushReq(p, req)
      BY <1>1, <1>3, <1>10, <2>1 DEF DoLoad
    <3> QED BY <3>1
  <2>5. IsMessage(req, Requests) /\ JobFits(req, p.v.load, p.v.opened)
    BY <1>6, <2>3, <2>4 DEF IsMessage, Requests, JobFits, Kept
  <2>6. ~p.v.opened /\ NoCurrentLoads(p.jobs) /\ NoCurrentLoads(p.idles)
    <3>1. p.jobs = o.jobs /\ p.idles = o.idles
      BY <1>4, <1>5, <2>1
    <3> QED BY <1>6, <1>8, <2>3, <3>1 DEF Kept
  <2>7. Fits(PushReq(p, req), s, H) /\ Kept(p, PushReq(p, req))
    BY <2>3, <2>5, <2>6, PushReqFits
  <2> QED BY <1>8, <2>3, <2>4, <2>7 DEF Kept
<1> QED BY <1>9, <1>10
-----------------------------------------------------------------------------
(* What a result does to a world that fits *)

\* A load that has come is the page's.
LEMMA OpenedFits ==
  ASSUME NEW w, NEW s, NEW H, Fits(w, s, H), s.page = w.v.load, NoLoads(w.jobs),
         NEW o, o = [w EXCEPT !.v = [@ EXCEPT !.redirects = 0, !.opened = TRUE, !.loading = FALSE]]
  PROVE  Fits(o, s, H) /\ Len(o.idles) = Len(w.idles)
<1>1. /\ {"v", "jobs", "idles", "refs"} \subseteq DOMAIN w /\ Kernel \subseteq DOMAIN w.v
      /\ IsWorld(w)
  BY DEF Fits, IsWorld, Kernel
<1>2. o.jobs = w.jobs /\ o.idles = w.idles /\ o.refs = w.refs /\ DOMAIN o = DOMAIN w
  OBVIOUS
<1>3. /\ DOMAIN o.v = DOMAIN w.v /\ o.v.closed = w.v.closed /\ o.v.asking = w.v.asking
      /\ o.v.load = w.v.load /\ o.v.frame = w.v.frame /\ o.v.opened = TRUE
  BY <1>1 DEF Kernel
<1>4. IsWorld(o)
  BY <1>1, <1>2, <1>3 DEF IsWorld
<1>5. FrameFits(o.v, s.gen, H)
  BY <1>3 DEF Fits, FrameFits
<1>6. ASSUME NEW i \in 1..Len(o.jobs) PROVE JobFits(o.jobs[i], o.v.load, o.v.opened)
  BY <1>2, <1>3 DEF Fits, JobFits
<1> QED BY <1>1, <1>2, <1>3, <1>4, <1>5, <1>6 DEF Fits

\* A picture of the page that is in the history.
LEMMA ShownFits ==
  ASSUME NEW w, NEW s, NEW H, Fits(w, s, H), NEW f,
         f.gen \in 0..s.gen, f.shot = H[f.gen], f.pic = f.shot,
         IsPicture(f.pic), f.pic.load = w.v.load,
         NEW o, o = [w EXCEPT !.v.frame = f]
  PROVE  Fits(o, s, H) /\ Len(o.idles) = Len(w.idles)
<1>1. /\ {"v", "jobs", "idles", "refs"} \subseteq DOMAIN w /\ Kernel \subseteq DOMAIN w.v
      /\ IsWorld(w)
  BY DEF Fits, IsWorld, Kernel
<1>2. o.jobs = w.jobs /\ o.idles = w.idles /\ o.refs = w.refs /\ DOMAIN o = DOMAIN w
  OBVIOUS
<1>3. /\ DOMAIN o.v = DOMAIN w.v /\ o.v.closed = w.v.closed /\ o.v.asking = w.v.asking
      /\ o.v.load = w.v.load /\ o.v.frame = f /\ o.v.opened = w.v.opened
  BY <1>1 DEF Kernel
<1>4. IsWorld(o)
  BY <1>1, <1>2, <1>3 DEF IsWorld
<1>5. FrameFits(o.v, s.gen, H)
  BY <1>3 DEF FrameFits
<1> QED BY <1>1, <1>2, <1>3, <1>4, <1>5 DEF Fits

\* The result of a load.
LEMMA OnPageFits ==
  ASSUME NEW w, NEW s, NEW H, Fits(w, s, H), NEW r, r.kind = "load",
         ResultFits(r, w.v.load, s, H, w.jobs)
  PROVE  Fits(OnPage(w, r), s, H) /\ Len(OnPage(w, r).idles) = Len(w.idles)
<1>1. CASE ~r.cur BY <1>1 DEF OnPage
<1>2. CASE r.cur /\ r.outcome = "fail"
  <2>1. PICK o : o = [w EXCEPT !.v.loading = FALSE] /\ OnPage(w, r) = o
    BY <1>2 DEF OnPage
  <2>2. o = [w EXCEPT !.v = [w.v EXCEPT !["loading"] = FALSE]] /\ "loading" \notin Kernel
    BY <2>1 DEF Kernel
  <2>3. Fits(o, s, H) /\ Kept(w, o)
    BY <2>2, FieldFits
  <2> QED BY <2>1, <2>3 DEF Kept
<1>3. CASE r.cur /\ r.outcome # "fail" /\ r.outcome = "redirect" /\ w.v.redirects < MaxRedirects
  <2>1. PICK o : o = [w EXCEPT !.v.redirects = @ + 1] /\ OnPage(w, r) = DoLoad(o)
    BY <1>3 DEF OnPage
  <2>2. o = [w EXCEPT !.v = [w.v EXCEPT !["redirects"] = w.v.redirects + 1]] /\ "redirects" \notin Kernel
    BY <2>1 DEF Kernel
  <2>3. Fits(o, s, H) /\ Kept(w, o)
    BY <2>2, FieldFits
  <2> QED BY <2>1, <2>3, DoLoadFits DEF Kept
<1>4. CASE r.cur /\ r.outcome # "fail" /\ ~(r.outcome = "redirect" /\ w.v.redirects < MaxRedirects)
  <2>1. PICK o : /\ o = [w EXCEPT !.v = [@ EXCEPT !.redirects = 0, !.opened = TRUE, !.loading = FALSE]]
                 /\ OnPage(w, r) = RequestRender(MaybeUpdateViewport(ScrollTo(o, 0)))
    BY <1>4 DEF OnPage
  <2>2. s.page = w.v.load /\ NoLoads(w.jobs)
    BY <1>4 DEF ResultFits, CurrentFits
  <2>3. Fits(o, s, H) /\ Len(o.idles) = Len(w.idles)
    BY <2>1, <2>2, OpenedFits
  <2>4. PICK a : a = ScrollTo(o, 0) /\ Fits(a, s, H) /\ Kept(o, a)
    BY <2>3, ScrollToFits
  <2>5. PICK b : b = MaybeUpdateViewport(a) /\ Fits(b, s, H) /\ Kept(a, b)
    BY <2>4, MaybeUpdateViewportFits
  <2>6. Fits(RequestRender(b), s, H) /\ Kept(b, RequestRender(b))
    BY <2>5, RequestRenderFits
  <2> QED BY <2>1, <2>3, <2>4, <2>5, <2>6 DEF Kept
<1> QED BY <1>1, <1>2, <1>3, <1>4

\* A patch is put on the frame it was made from, or not at all.
LEMMA OnPatchFits ==
  ASSUME NEW w, NEW s, NEW H, Fits(w, s, H), NEW r,
         RenderFits(r, s.gen, H), r.ok, r.has = "patch"
  PROVE  Fits(OnPatch(w, r), s, H) /\ Len(OnPatch(w, r).idles) = Len(w.idles)
<1>1. CASE w.v.frame.gen # None /\ w.v.frame.gen = r.base
  <2>1. PICK f : f = [gen |-> r.gen, shot |-> r.pic,
                      pic |-> Patched(w.v.frame.pic, r.damage, r.pic.tiles)]
    OBVIOUS
  <2>2. PICK o : o = [w EXCEPT !.v.frame = f] /\ OnPatch(w, r) = o
    BY <1>1, <2>1 DEF OnPatch
  <2>3. /\ w.v.frame.pic = H[r.base] /\ w.v.frame.pic.load = w.v.load
        /\ IsPicture(w.v.frame.pic)
    <3>1. w.v.frame # NoFrame
      BY <1>1 DEF NoFrame
    <3> QED BY <1>1, <3>1 DEF Fits, FrameFits
  <2>4. /\ r.gen \in 0..s.gen /\ r.pic = H[r.gen] /\ IsPicture(r.pic)
        /\ r.pic = Patched(H[r.base], r.damage, r.pic.tiles)
    BY DEF RenderFits
  <2>5. f.gen = r.gen /\ f.shot = r.pic /\ f.pic = r.pic
    BY <2>1, <2>3, <2>4
  <2>6. r.pic.load = w.v.load
    <3>1. PICK p, new : p = w.v.frame.pic /\ new = Patched(p, r.damage, r.pic.tiles)
      OBVIOUS
    <3>2. "load" \in DOMAIN p
      BY <2>3, <3>1 DEF IsPicture
    <3>3. new.load = p.load
      BY <3>1, <3>2 DEF Patched
    <3> QED BY <2>3, <2>4, <3>1, <3>3
  <2> QED BY <2>2, <2>4, <2>5, <2>6, ShownFits
<1>2. CASE ~(w.v.frame.gen # None /\ w.v.frame.gen = r.base)
  <2>1. PICK o : o = [w EXCEPT !.v.forceFull = TRUE] /\ OnPatch(w, r) = RequestRender(o)
    BY <1>2 DEF OnPatch
  <2>2. o = [w EXCEPT !.v = [w.v EXCEPT !["forceFull"] = TRUE]] /\ "forceFull" \notin Kernel
    BY <2>1 DEF Kernel
  <2>3. Fits(o, s, H) /\ Kept(w, o)
    BY <2>2, FieldFits
  <2>4. Fits(RequestRender(o), s, H) /\ Kept(o, RequestRender(o))
    BY <2>3, RequestRenderFits
  <2> QED BY <2>1, <2>3, <2>4 DEF Kept
<1> QED BY <1>1, <1>2

\* The pixels of a result.
LEMMA OnPixelsFits ==
  ASSUME NEW w, NEW s, NEW H, Fits(w, s, H), NEW r, r.kind = "render", r.ok,
         ResultFits(r, w.v.load, s, H, w.jobs)
  PROVE  Fits(OnPixels(w, r), s, H) /\ Len(OnPixels(w, r).idles) = Len(w.idles)
<1>0. RenderFits(r, s.gen, H)
  BY DEF ResultFits
<1>1. CASE r.has = "full" /\ r.cur
  <2>1. PICK f : f = [gen |-> r.gen, pic |-> r.pic, shot |-> r.pic]
    OBVIOUS
  <2>2. PICK o : o = [w EXCEPT !.v.frame = f] /\ OnPixels(w, r) = o
    BY <1>1, <2>1 DEF OnPixels
  <2>3. r.gen \in 0..s.gen /\ r.pic = H[r.gen] /\ IsPicture(r.pic)
    BY <1>0 DEF RenderFits
  <2>4. r.pic.load = w.v.load
    BY <1>1 DEF ResultFits, CurrentFits
  <2>5. f.gen = r.gen /\ f.shot = r.pic /\ f.pic = r.pic
    BY <2>1
  <2> QED BY <2>2, <2>3, <2>4, <2>5, ShownFits
<1>2. CASE ~(r.has = "full" /\ r.cur) /\ r.has = "patch"
  <2>1. OnPixels(w, r) = OnPatch(w, r)
    BY <1>2 DEF OnPixels
  <2> QED BY <1>0, <1>2, <2>1, OnPatchFits
<1>3. CASE ~(r.has = "full" /\ r.cur) /\ r.has # "patch"
  <2>1. OnPixels(w, r) = w
    BY <1>3 DEF OnPixels
  <2> QED BY <2>1
<1> QED BY <1>1, <1>2, <1>3
\* The result of a render, one of its parts after another.
LEMMA OnFrameFits ==
  ASSUME NEW w, NEW s, NEW H, Fits(w, s, H), NEW r, r.kind = "render",
         ResultFits(r, w.v.load, s, H, w.jobs)
  PROVE  Fits(OnFrame(w, r), s, H) /\ Len(OnFrame(w, r).idles) = Len(w.idles)
<1> DEFINE arm == IF r.cur /\ r.ok THEN [w EXCEPT !.v.armed = r.animating] ELSE w
           pos == IF r.cur /\ r.ok /\ r.scroll # None THEN ScrollTo(arm, r.scroll) ELSE arm
           pix == IF r.ok THEN OnPixels(pos, r) ELSE pos
           nav == IF r.cur /\ r.ok /\ r.nav /\ pix.v.redirects < MaxRedirects
                  THEN DoLoad([pix EXCEPT !.v.redirects = @ + 1]) ELSE pix
           end == [nav EXCEPT !.v.inflight = FALSE, !.v.pending = FALSE]
<1>0. OnFrame(w, r) = IF nav.v.pending THEN StartRender(end)
                       ELSE IF r.cur /\ ~r.ok THEN [end EXCEPT !.v.loading = FALSE] ELSE end
  BY Zenon DEF OnFrame
<1>1. arm = IF r.cur /\ r.ok THEN [w EXCEPT !.v.armed = r.animating] ELSE w
  OBVIOUS
<1>2. pos = IF r.cur /\ r.ok /\ r.scroll # None THEN ScrollTo(arm, r.scroll) ELSE arm
  OBVIOUS
<1>3. pix = IF r.ok THEN OnPixels(pos, r) ELSE pos
  OBVIOUS
<1>4. nav = IF r.cur /\ r.ok /\ r.nav /\ pix.v.redirects < MaxRedirects
          THEN DoLoad([pix EXCEPT !.v.redirects = @ + 1]) ELSE pix
  OBVIOUS
<1>5. end = [nav EXCEPT !.v.inflight = FALSE, !.v.pending = FALSE]
  OBVIOUS
<1> HIDE DEF arm, pos, pix, nav, end
<1>6. Fits(arm, s, H) /\ Kept(w, arm)
  <2>1. CASE r.cur /\ r.ok
    <3>1. arm = [w EXCEPT !.v = [w.v EXCEPT !["armed"] = r.animating]] /\ "armed" \notin Kernel
      BY <1>1, <2>1 DEF Kernel
    <3> QED BY <3>1, FieldFits
  <2>2. CASE ~(r.cur /\ r.ok) BY <1>1, <2>2 DEF Kept
  <2> QED BY <2>1, <2>2
<1>7. Fits(pos, s, H) /\ Kept(w, pos)
  <2>1. CASE r.cur /\ r.ok /\ r.scroll # None
    <3>1. pos = ScrollTo(arm, r.scroll) BY <1>2, <2>1
    <3>2. Fits(pos, s, H) /\ Kept(arm, pos) BY <1>6, <3>1, ScrollToFits
    <3> QED BY <1>6, <3>2, KeptTwice
  <2>2. CASE ~(r.cur /\ r.ok /\ r.scroll # None) BY <1>2, <1>6, <2>2
  <2> QED BY <2>1, <2>2
<1>8. Fits(pix, s, H) /\ Len(pix.idles) = Len(w.idles)
  <2>1. CASE r.ok
    <3>1. ResultFits(r, pos.v.load, s, H, pos.jobs)
      BY <1>7 DEF ResultFits, CurrentFits, Kept
    <3> QED BY <1>3, <1>7, <2>1, <3>1, OnPixelsFits DEF Kept
  <2>2. CASE ~r.ok BY <1>3, <1>7, <2>2 DEF Kept
  <2> QED BY <2>1, <2>2
<1>9. Fits(nav, s, H) /\ Len(nav.idles) = Len(w.idles)
  <2>1. CASE r.cur /\ r.ok /\ r.nav /\ pix.v.redirects < MaxRedirects
    <3>1. PICK o : o = [pix EXCEPT !.v.redirects = @ + 1] /\ nav = DoLoad(o)
      BY <1>4, <2>1
    <3>2. o = [pix EXCEPT !.v = [pix.v EXCEPT !["redirects"] = pix.v.redirects + 1]]
          /\ "redirects" \notin Kernel
      BY <3>1 DEF Kernel
    <3>3. Fits(o, s, H) /\ Kept(pix, o)
      BY <1>8, <3>2, FieldFits
    <3>4. Fits(DoLoad(o), s, H) /\ Len(DoLoad(o).idles) = Len(o.idles)
      BY <3>3, DoLoadFits
    <3> QED BY <1>8, <3>1, <3>3, <3>4 DEF Kept
  <2>2. CASE ~(r.cur /\ r.ok /\ r.nav /\ pix.v.redirects < MaxRedirects) BY <1>4, <1>8, <2>2
  <2> QED BY <2>1, <2>2
<1>10. Fits(end, s, H) /\ Len(end.idles) = Len(w.idles)
  <2>1. PICK o : o = [nav EXCEPT !.v.inflight = FALSE]
    OBVIOUS
  <2>2. o = [nav EXCEPT !.v = [nav.v EXCEPT !["inflight"] = FALSE]] /\ "inflight" \notin Kernel
    BY <2>1 DEF Kernel
  <2>3. Fits(o, s, H) /\ Kept(nav, o)
    BY <1>9, <2>2, FieldFits
  <2>4. {"v", "jobs", "idles", "refs"} \subseteq DOMAIN nav
    BY <1>9 DEF Fits, IsWorld
  <2>5. end = [o EXCEPT !.v = [o.v EXCEPT !["pending"] = FALSE]] /\ "pending" \notin Kernel
    BY <1>5, <2>1, <2>4 DEF Kernel
  <2>6. Fits(end, s, H) /\ Kept(o, end)
    BY <2>3, <2>5, FieldFits
  <2> QED BY <1>9, <2>3, <2>6 DEF Kept
<1>11. CASE nav.v.pending
  <2>1. OnFrame(w, r) = StartRender(end) BY <1>0, <1>11
  <2>2. Fits(StartRender(end), s, H) /\ Kept(end, StartRender(end)) BY <1>10, StartRenderFits
  <2> QED BY <1>10, <2>1, <2>2 DEF Kept
<1>12. CASE ~nav.v.pending /\ r.cur /\ ~r.ok
  <2>1. PICK o : o = [end EXCEPT !.v.loading = FALSE] /\ OnFrame(w, r) = o
    BY <1>0, <1>12
  <2>2. o = [end EXCEPT !.v = [end.v EXCEPT !["loading"] = FALSE]] /\ "loading" \notin Kernel
    BY <2>1 DEF Kernel
  <2>3. Fits(o, s, H) /\ Kept(end, o)
    BY <1>10, <2>2, FieldFits
  <2> QED BY <1>10, <2>1, <2>3 DEF Kept
<1>13. CASE ~nav.v.pending /\ ~(r.cur /\ ~r.ok)
  BY <1>0, <1>10, <1>13
<1> QED BY <1>11, <1>12, <1>13

\* The result of a change of the viewport.
LEMMA OnViewportFits ==
  ASSUME NEW w, NEW s, NEW H, Fits(w, s, H), NEW r
  PROVE  Fits(OnViewport(w, r), s, H) /\ Kept(w, OnViewport(w, r))
<1>1. CASE ~r.cur BY <1>1 DEF OnViewport, Kept
<1>2. CASE r.cur
  <2>1. PICK o : o = [w EXCEPT !.v.vpInflight = FALSE]
    OBVIOUS
  <2>2. o = [w EXCEPT !.v = [w.v EXCEPT !["vpInflight"] = FALSE]] /\ "vpInflight" \notin Kernel
    BY <2>1 DEF Kernel
  <2>3. Fits(o, s, H) /\ Kept(w, o)
    BY <2>2, FieldFits
  <2>4. PICK p : p = IF r.ok THEN RequestRender(o) ELSE o
    OBVIOUS
  <2>5. Fits(p, s, H) /\ Kept(w, p)
    <3>1. Fits(RequestRender(o), s, H) /\ Kept(o, RequestRender(o))
      BY <2>3, RequestRenderFits
    <3>2. Kept(w, RequestRender(o))
      BY <2>3, <3>1, KeptTwice
    <3> QED BY <2>3, <2>4, <3>1, <3>2
  <2>6. OnViewport(w, r) = IF p.v.vpPending
                           THEN StartViewport([p EXCEPT !.v.vpPending = FALSE], p.v.lastVp) ELSE p
    BY <1>2, <2>1, <2>4 DEF OnViewport
  <2>7. CASE p.v.vpPending
    <3>1. PICK q : q = [p EXCEPT !.v.vpPending = FALSE] /\ OnViewport(w, r) = StartViewport(q, p.v.lastVp)
      BY <2>6, <2>7
    <3>2. q = [p EXCEPT !.v = [p.v EXCEPT !["vpPending"] = FALSE]] /\ "vpPending" \notin Kernel
      BY <3>1 DEF Kernel
    <3>3. Fits(q, s, H) /\ Kept(p, q)
      BY <2>5, <3>2, FieldFits
    <3>4. Fits(StartViewport(q, p.v.lastVp), s, H) /\ Kept(q, StartViewport(q, p.v.lastVp))
      BY <3>3, StartViewportFits
    <3> QED BY <2>5, <3>1, <3>3, <3>4 DEF Kept
  <2>8. CASE ~p.v.vpPending BY <2>5, <2>6, <2>8
  <2> QED BY <2>7, <2>8
<1> QED BY <1>1, <1>2

\* A click's result that came after another navigation changes nothing.
LEMMA OnClickFits ==
  ASSUME NEW w, NEW s, NEW H, Fits(w, s, H), NEW r, r.kind = "click",
         ResultFits(r, w.v.load, s, H, w.jobs)
  PROVE  /\ Fits(OnClick(w, r), s, H) /\ Len(OnClick(w, r).idles) = Len(w.idles)
         /\ r.by # w.v.load => OnClick(w, r) = w
<1>1. r.by # w.v.load => ~r.cur
  BY DEF ResultFits, CurrentFits
<1> QED BY <1>1, DoLoadFits, RequestRenderFits DEF OnClick, Kept

\* A release's result is taken whenever it comes.
LEMMA OnReleaseFits ==
  ASSUME NEW w, NEW s, NEW H, Fits(w, s, H), NEW r
  PROVE  Fits(OnRelease(w, r), s, H) /\ Len(OnRelease(w, r).idles) = Len(w.idles)
BY DoLoadFits, RequestRenderFits DEF OnRelease, Kept

\* A wake starts the clock.
LEMMA OnWakeFits ==
  ASSUME NEW w, NEW s, NEW H, Fits(w, s, H)
  PROVE  Fits(OnWake(w), s, H) /\ Kept(w, OnWake(w))
<1>1. CASE ~w.v.opened BY <1>1 DEF OnWake, Kept
<1>2. CASE w.v.opened
  <2>1. PICK o : o = [w EXCEPT !.v.armed = TRUE] /\ OnWake(w) = o
    BY <1>2 DEF OnWake
  <2>2. o = [w EXCEPT !.v = [w.v EXCEPT !["armed"] = TRUE]] /\ "armed" \notin Kernel
    BY <2>1 DEF Kernel
  <2> QED BY <2>1, <2>2, FieldFits
<1> QED BY <1>1, <1>2

\* on_result, for an open view.
LEMMA OnResultFits ==
  ASSUME NEW w, NEW s, NEW H, Fits(w, s, H), NEW r, r.kind \in Results,
         ResultFits(r, w.v.load, s, H, w.jobs)
  PROVE  /\ Fits(OnResult(w, r), s, H) /\ Len(OnResult(w, r).idles) = Len(w.idles)
         /\ r.kind = "click" /\ r.by # w.v.load => OnResult(w, r) = w
<1>0. ~w.v.closed
  BY DEF Fits
<1>1. CASE r.kind = "load"
  <2>1. OnResult(w, r) = OnPage(w, r) BY <1>0, <1>1 DEF OnResult
  <2> QED BY <1>1, <2>1, OnPageFits
<1>2. CASE r.kind = "render"
  <2>1. OnResult(w, r) = OnFrame(w, r) BY <1>0, <1>2 DEF OnResult
  <2> QED BY <1>2, <2>1, OnFrameFits
<1>3. CASE r.kind = "viewport"
  <2>1. OnResult(w, r) = OnViewport(w, r) BY <1>0, <1>3 DEF OnResult
  <2> QED BY <1>3, <2>1, OnViewportFits DEF Kept
<1>4. CASE r.kind = "click"
  <2>1. OnResult(w, r) = OnClick(w, r) BY <1>0, <1>4 DEF OnResult
  <2> QED BY <1>4, <2>1, OnClickFits
<1>5. CASE r.kind = "release"
  <2>1. OnResult(w, r) = OnRelease(w, r) BY <1>0, <1>5 DEF OnResult
  <2> QED BY <1>5, <2>1, OnReleaseFits
<1>6. CASE r.kind = "wake"
  <2>1. OnResult(w, r) = OnWake(w) BY <1>0, <1>6 DEF OnResult
  <2> QED BY <1>6, <2>1, OnWakeFits DEF Kept
<1>7. CASE r.kind \in {"export", "unref"}
  <2>1. OnResult(w, r) = w BY <1>0, <1>7 DEF OnResult
  <2> QED BY <2>1
<1> QED BY <1>1, <1>2, <1>3, <1>4, <1>5, <1>6, <1>7 DEF Results
-----------------------------------------------------------------------------
(* What the engine thread draws *)

\* G is H, continued after generation g.
Continues(G, H, g) == \A n \in 0..g : G[n] = H[n]

\* The session may forget its frame, and change what the frame is not about.
LEMMA SessionKept ==
  ASSUME NEW s, NEW H, SessionFits(s, H), NEW t,
         {"page", "valid", "fb", "gen"} \subseteq DOMAIN t,
         t.fb = s.fb, t.gen = s.gen,
         t.valid => s.valid /\ t.page = s.page
  PROVE  SessionFits(t, H)
BY DEF SessionFits

\* A frame patched with the tiles of the patched frame is the same.
LEMMA PatchedTwice ==
  ASSUME NEW p, IsPicture(p), NEW d, NEW tiles
  PROVE  Patched(p, d, Patched(p, d, tiles).tiles) = Patched(p, d, tiles)
<1>1. PICK l, v, z, c, t : p = [load |-> l, vp |-> v, size |-> z, scroll |-> c, tiles |-> t]
  BY DEF IsPicture
<1>2. PICK a : a = [x \in Tiles |-> IF x \in d THEN tiles[x] ELSE t[x]]
  OBVIOUS
<1>3. PICK o : o = Patched(p, d, tiles)
  OBVIOUS
<1>4. o = [load |-> l, vp |-> v, size |-> z, scroll |-> c, tiles |-> a]
  BY <1>1, <1>2, <1>3 DEF Patched
<1>5. o.tiles = a
  BY <1>4
<1>6. [x \in Tiles |-> IF x \in d THEN a[x] ELSE t[x]] = a
  BY <1>2
<1>7. Patched(p, d, a) = [load |-> l, vp |-> v, size |-> z, scroll |-> c, tiles |-> a]
  BY <1>1, <1>6 DEF Patched
<1> QED BY <1>3, <1>4, <1>5, <1>7

\* What a patched or scrolled picture keeps.
LEMMA PatchedPicture ==
  ASSUME NEW p, IsPicture(p), NEW c, NEW d, NEW tiles
  PROVE  /\ IsPicture(Patched([p EXCEPT !.scroll = c], d, tiles))
         /\ Patched([p EXCEPT !.scroll = c], d, tiles).load = p.load
         /\ c = p.scroll => [p EXCEPT !.scroll = c] = p
<1>1. PICK l, v, z, e, t : p = [load |-> l, vp |-> v, size |-> z, scroll |-> e, tiles |-> t]
  BY DEF IsPicture
<1>2. PICK q : q = [p EXCEPT !.scroll = c]
  OBVIOUS
<1>3. q = [load |-> l, vp |-> v, size |-> z, scroll |-> c, tiles |-> t]
  BY <1>1, <1>2
<1>4. PICK a : a = [x \in Tiles |-> IF x \in d THEN tiles[x] ELSE t[x]]
  OBVIOUS
<1>5. PICK o : o = Patched(q, d, tiles)
  OBVIOUS
<1>6. o = [load |-> l, vp |-> v, size |-> z, scroll |-> c, tiles |-> a]
  BY <1>3, <1>4, <1>5 DEF Patched
<1>7. IsPicture(o) /\ o.load = p.load
  BY <1>1, <1>6 DEF IsPicture
<1>8. c = p.scroll => q = p
  BY <1>1, <1>3
<1> QED BY <1>2, <1>5, <1>7, <1>8

\* A tick leaves the frame alone.
LEMMA TickKeeps ==
  ASSUME NEW s
  PROVE  /\ DOMAIN AfterTick(s) = DOMAIN s
         /\ {"page", "valid", "fb", "gen"} \subseteq DOMAIN s =>
              /\ AfterTick(s).page = s.page /\ AfterTick(s).valid = s.valid
              /\ AfterTick(s).fb = s.fb /\ AfterTick(s).gen = s.gen
<1>1. CASE s.anim = 0
  BY <1>1 DEF AfterTick
<1>2. CASE s.anim # 0
  <2>1. PICK tiles, dirty, anim :
          AfterTick(s) = [s EXCEPT !.repaint = FALSE, !.anim = anim, !.tiles = tiles, !.dirty = dirty]
    BY <1>2 DEF AfterTick
  <2> QED BY <2>1
<1> QED BY <1>1, <1>2

\* ns_page_session_render: the history goes on with what was drawn, and the
\* result says how to get there.
LEMMA RenderOfFits ==
  ASSUME NEW s, NEW H, SessionFits(s, H), NEW j
  PROVE  \E G : /\ SessionFits(RenderOf(s, j).s, G) /\ Continues(G, H, s.gen)
                /\ RenderOf(s, j).s.gen >= s.gen /\ RenderOf(s, j).s.page = s.page
                /\ RenderFits(RenderOf(s, j).r, RenderOf(s, j).s.gen, G)
                /\ RenderOf(s, j).r.pic.load = s.page
                /\ RenderOf(s, j).r.kind = "render"
                /\ {"kind", "cur"} \subseteq DOMAIN RenderOf(s, j).r
                /\ RenderOf(s, j).r.cur = j.cur
<1> DEFINE ran      == s.valid
           t        == IF ran THEN AfterTick(s) ELSE s
           scroll   == IF s.wantScroll # None THEN s.wantScroll ELSE j.scroll
           scrolled == scroll # s.fb.scroll
           byDamage == ran /\ ~t.damageFull /\ s.fb.size = j.size
           same     == ran /\ ~scrolled /\ s.fb.size = j.size
           unchanged == \/ same /\ ~Ticked(s)
                        \/ byDamage /\ t.dirty = {} /\ ~scrolled
           pic      == IF unchanged THEN s.fb
                       ELSE IF byDamage THEN Patched([s.fb EXCEPT !.scroll = scroll], t.dirty, t.tiles)
                       ELSE Painted(t, scroll, j.size)
           gen      == IF unchanged THEN s.gen ELSE s.gen + 1
           has      == IF unchanged THEN "none"
                       ELSE IF byDamage /\ ~scrolled THEN "patch" ELSE "full"
           os == [t EXCEPT !.dirty = {}, !.damageFull = FALSE, !.wantScroll = None,
                           !.wantNav = FALSE, !.valid = TRUE, !.fb = pic, !.gen = gen,
                           !.wakePosted = FALSE]
           or == [kind |-> "render", cur |-> j.cur, ok |-> TRUE, has |-> has,
                  pic |-> pic, damage |-> t.dirty, base |-> s.gen, gen |-> gen,
                  scroll |-> s.wantScroll, nav |-> s.wantNav, animating |-> t.anim > 0]
<1>1. RenderOf(s, j) = [s |-> os, r |-> or]
  BY Zenon DEF RenderOf
<1>2. PICK o, r : o = os /\ r = or
  OBVIOUS
<1>3. RenderOf(s, j).s = o /\ RenderOf(s, j).r = r
  BY <1>1, <1>2
<1>4. /\ {"page", "valid", "fb", "gen"} \subseteq DOMAIN t
      /\ t.page = s.page /\ t.fb = s.fb /\ t.gen = s.gen
  <2>1. {"page", "valid", "fb", "gen"} \subseteq DOMAIN s
    BY DEF SessionFits
  <2>2. CASE ran BY <2>1, <2>2, TickKeeps
  <2>3. CASE ~ran BY <2>1, <2>3
  <2> QED BY <2>2, <2>3
<1>5. /\ unchanged => ran
      /\ byDamage => ran
  OBVIOUS
<1>6. ran => IsPicture(s.fb) /\ s.fb.load = s.page
  BY DEF SessionFits
<1>7. IsPicture(pic) /\ pic.load = s.page
  <2>1. CASE unchanged
    BY <1>5, <1>6, <2>1
  <2>2. CASE ~unchanged /\ byDamage
    <3>1. pic = Patched([s.fb EXCEPT !.scroll = scroll], t.dirty, t.tiles)
      BY <2>2
    <3>2. IsPicture(s.fb) /\ s.fb.load = s.page
      BY <1>5, <1>6, <2>2
    <3> HIDE DEF pic, scroll, t
    <3> QED BY <3>1, <3>2, PatchedPicture
  <2>3. CASE ~unchanged /\ ~byDamage
    <3>1. pic = Painted(t, scroll, j.size)
      BY <2>3
    <3> HIDE DEF pic, scroll, t
    <3> QED BY <1>4, <3>1 DEF Painted, IsPicture
  <2> QED BY <2>1, <2>2, <2>3
<1>8. has = "patch" => /\ gen = s.gen + 1
                       /\ pic = Patched(s.fb, t.dirty, pic.tiles)
  <2> SUFFICES ASSUME has = "patch"
               PROVE  gen = s.gen + 1 /\ pic = Patched(s.fb, t.dirty, pic.tiles)
    OBVIOUS
  <2>1. ~unchanged /\ byDamage /\ ~scrolled
    OBVIOUS
  <2>2. pic = Patched([s.fb EXCEPT !.scroll = scroll], t.dirty, t.tiles) /\ scroll = s.fb.scroll
    BY <2>1
  <2>3. gen = s.gen + 1
    BY <2>1
  <2>4. IsPicture(s.fb)
    BY <1>5, <1>6, <2>1
  <2> HIDE DEF pic, scroll, t, gen
  <2>5. [s.fb EXCEPT !.scroll = scroll] = s.fb
    BY <2>2, <2>4, PatchedPicture
  <2>6. pic = Patched(s.fb, t.dirty, t.tiles)
    BY <2>2, <2>5
  <2>7. Patched(s.fb, t.dirty, pic.tiles) = pic
    BY <2>4, <2>6, PatchedTwice
  <2> QED BY <2>3, <2>7
<1>9. /\ s.gen \in Nat /\ gen \in Nat /\ gen >= s.gen
      /\ H[s.gen] = s.fb
      /\ gen = s.gen => pic = s.fb
  <2>1. s.gen \in Nat /\ H[s.gen] = s.fb
    BY DEF SessionFits
  <2>2. CASE unchanged BY <2>1, <2>2
  <2>3. CASE ~unchanged
    <3>1. gen = s.gen + 1
      BY <2>3
    <3> HIDE DEF gen
    <3> QED BY <2>1, <3>1
  <2> QED BY <2>1, <2>2, <2>3
<1>10. PICK tdirty : tdirty = t.dirty
  OBVIOUS
<1>11. /\ {"page", "valid", "fb", "gen"} \subseteq DOMAIN o
       /\ o.page = s.page /\ o.valid = TRUE /\ o.fb = pic /\ o.gen = gen
  <2> HIDE DEF pic, gen, t
  <2> QED BY <1>2, <1>4
<1>12. /\ r.kind = "render" /\ r.cur = j.cur /\ r.ok = TRUE /\ r.has = has /\ r.pic = pic
       /\ r.damage = tdirty /\ r.base = s.gen /\ r.gen = gen
       /\ {"kind", "cur", "ok", "has", "pic", "damage", "base", "gen"} \subseteq DOMAIN r
  <2> HIDE DEF pic, gen, t, has
  <2> QED BY <1>2, <1>10
<1> HIDE DEF pic, gen, t, has, unchanged, byDamage, ran, scrolled, scroll, same, os, or
<1>13. PICK G : G = [n \in Nat |-> IF n = gen THEN pic ELSE H[n]]
  OBVIOUS
<1>14. G[gen] = pic /\ G[s.gen] = s.fb
  BY <1>9, <1>13
<1>15. Continues(G, H, s.gen)
  BY <1>9, <1>13 DEF Continues
<1>16. SessionFits(o, G)
  BY <1>7, <1>9, <1>11, <1>14 DEF SessionFits
<1>17. RenderFits(r, o.gen, G)
  <2>1. gen \in 0..gen /\ s.gen \in 0..gen
    BY <1>9
  <2>2. r.has = "patch" => r.base \in 0..gen /\ r.pic = Patched(G[r.base], r.damage, r.pic.tiles)
    BY <1>8, <1>10, <1>12, <1>14, <2>1
  <2> QED BY <1>7, <1>11, <1>12, <1>14, <2>1, <2>2 DEF RenderFits
<1>18. {"kind", "cur"} \subseteq DOMAIN r /\ r.pic.load = s.page /\ o.gen >= s.gen
  BY <1>7, <1>9, <1>11, <1>12
<1> QED BY <1>3, <1>11, <1>12, <1>15, <1>16, <1>17, <1>18
-----------------------------------------------------------------------------
(* Steps, on the frame *)

\* What holds of the picture on a view, open or closed.
Shown(v) ==
  v.frame = NoFrame \/ (v.frame.pic = v.frame.shot /\ v.frame.pic.load = v.load)

\* The inductive invariant: a closed view keeps what it showed.
Framed ==
  /\ Counted
  /\ {"load", "frame", "opened"} \subseteq DOMAIN view
  /\ Shown(view)
  /\ ~view.closed => \E H : Fits(World, session, H)

\* A world with other references, whose view is otherwise the same.
LEMMA HolderFits ==
  ASSUME NEW w, NEW s, NEW H, Fits(w, s, H), NEW o, IsWorld(o),
         o.jobs = w.jobs, o.idles = w.idles,
         {"load", "frame", "opened"} \subseteq DOMAIN o.v,
         o.v.closed = w.v.closed, o.v.load = w.v.load,
         o.v.frame = w.v.frame, o.v.opened = w.v.opened
  PROVE  Fits(o, s, H)
<1>1. FrameFits(o.v, s.gen, H)
  BY DEF Fits, FrameFits
<1> QED BY <1>1 DEF Fits

\* What fits shows what it should.
LEMMA FitsShown == ASSUME NEW w, NEW s, NEW H, Fits(w, s, H) PROVE Shown(w.v)
BY DEF Fits, FrameFits, Shown

\* The world that a step leaves.
LEMMA FitsFramed ==
  ASSUME Counted', NEW STATE o, NEW s, NEW H, Fits(o, s, H),
         view' = o.v, jobs' = o.jobs, idles' = o.idles, session' = s
  PROVE  Framed'
<1>1. PICK w : w = [v |-> view', jobs |-> jobs', idles |-> idles', refs |-> refs']
  OBVIOUS
<1>2. World' = w /\ w.v = view' /\ w.jobs = jobs' /\ w.idles = idles'
  BY <1>1 DEF World
<1>3. IsWorld(w)
  BY <1>2 DEF Counted
<1>4. Fits(w, s, H)
  <2>1. {"load", "frame", "opened"} \subseteq DOMAIN w.v
    BY <1>2 DEF Fits
  <2> QED BY <1>2, <1>3, <2>1, HolderFits
<1>5. Fits(World', session', H)
  BY <1>2, <1>4, Zenon
<1>6. {"load", "frame", "opened"} \subseteq DOMAIN view' /\ Shown(view')
  BY <1>2, <1>4, FitsShown DEF Fits
<1>7. Shown(view)' <=> Shown(view')
  BY DEF Shown
<1> QED BY <1>5, <1>6, <1>7, Zenon DEF Framed

\* A view that is closed, or closes, keeps its picture.
LEMMA ClosedFramed ==
  ASSUME Framed, Counted', view'.closed, DOMAIN view' = DOMAIN view,
         view'.load = view.load, view'.frame = view.frame
  PROVE  Framed'
<1>1. {"load", "frame", "opened"} \subseteq DOMAIN view /\ Shown(view)
  BY DEF Framed
<1>2. Shown(view)'
  BY <1>1 DEF Shown
<1> QED BY <1>1, <1>2 DEF Framed

\* A closed view sends nothing but its end.
LEMMA ClosedPush ==
  ASSUME NEW w, NEW req, w.v.closed, req.kind # "close"
  PROVE  PushReq(w, req) = w
BY DEF PushReq

\* What the handlers of an open view do.
LEMMA HandlerFramed ==
  ASSUME Framed,
         \/ Load \/ Stop
         \/ \E size \in Sizes : Resize(size)
         \/ \E pos \in Scrolls : ScrollView(pos)
         \/ \E kind \in {"click", "release"} : Press(kind)
  PROVE  Framed' /\ Len(idles') = Len(idles)
<1>c. Counted'
  BY HandlerCounted DEF Framed
<1>w. World.v = view /\ World.idles = idles
  BY DEF World
<1>1. ~view.closed /\ session' = session
  BY DEF Load, Stop, Resize, ScrollView, Press
<1>2. PICK H : Fits(World, session, H)
  BY <1>1 DEF Framed
<1>3. ASSUME NEW STATE o, Fits(o, session, H), Become(o), Len(o.idles) = Len(idles)
      PROVE  Framed' /\ Len(idles') = Len(idles)
  BY <1>c, <1>1, <1>3, FitsFramed DEF Become
<1>4. CASE Load
  <2>1. Fits(DoLoad(World), session, H) /\ Len(DoLoad(World).idles) = Len(idles)
    BY <1>2, <1>w, DoLoadFits
  <2>2. Become(DoLoad(World))
    BY <1>4 DEF Load
  <2> QED BY <1>3, <2>1, <2>2
<1>5. CASE Stop
  <2>1. PICK a : a = Outdate(World, {"render"}) /\ Fits(a, session, H) /\ Kept(World, a) /\ a.v = view
    <3>1. Outdate(World, {"render"}).v = view
      BY <1>2, <1>w, OutdateSame DEF Fits
    <3> QED BY <1>2, <3>1, OutdateFits
  <2>2. PICK o : o = [Outdate(World, {"render"}) EXCEPT !.v = Halted] /\ Become(o)
    BY <1>5, Zenon DEF Stop
  <2>3. o = [a EXCEPT !.v = Halted]
    BY <2>1, <2>2, Zenon
  <2>4. /\ {"v", "jobs", "idles", "refs"} \subseteq DOMAIN a
        /\ {"closed", "asking", "load", "frame", "opened"} \subseteq DOMAIN view
    BY <2>1 DEF Fits, IsWorld
  <2>5. /\ o.jobs = a.jobs /\ o.idles = a.idles /\ o.refs = a.refs /\ DOMAIN o = DOMAIN a
        /\ o.v = Halted
    BY <2>3, <2>4
  <2>6. /\ DOMAIN Halted = DOMAIN view /\ Halted.closed = view.closed /\ Halted.asking = view.asking
        /\ Halted.load = view.load /\ Halted.frame = view.frame /\ Halted.opened = view.opened
    BY <2>4 DEF Halted
  <2>7. Fits(o, session, H) /\ Kept(a, o)
    BY <2>1, <2>4, <2>5, <2>6, TweakFits
  <2>8. Len(o.idles) = Len(idles)
    BY <1>w, <2>1, <2>7 DEF Kept
  <2> QED BY <1>3, <2>2, <2>7, <2>8
<1>6. ASSUME NEW size \in Sizes, Resize(size) PROVE Framed' /\ Len(idles') = Len(idles)
  <2>1. PICK w : w = [World EXCEPT !.v.size = size]
    OBVIOUS
  <2>2. Fits(w, session, H) /\ Kept(World, w)
    <3>1. w = [World EXCEPT !.v = [World.v EXCEPT !["size"] = size]] /\ "size" \notin Kernel
      BY <2>1 DEF Kernel
    <3> QED BY <1>2, <3>1, FieldFits
  <2>3. Become(IF w.v.deferred /\ size > 0 THEN DoLoad([w EXCEPT !.v.deferred = FALSE])
               ELSE IF ~w.v.opened THEN w
               ELSE IF ViewportMoved(w.v) THEN MaybeUpdateViewport(w)
               ELSE RequestRender(w))
    BY <1>6, <2>1 DEF Resize
  <2>4. CASE w.v.deferred /\ size > 0
    <3>1. PICK o : o = [w EXCEPT !.v.deferred = FALSE] /\ Become(DoLoad(o))
      BY <2>3, <2>4
    <3>2. Fits(o, session, H) /\ Kept(w, o)
      <4>1. o = [w EXCEPT !.v = [w.v EXCEPT !["deferred"] = FALSE]] /\ "deferred" \notin Kernel
        BY <3>1 DEF Kernel
      <4> QED BY <2>2, <4>1, FieldFits
    <3>3. Fits(DoLoad(o), session, H) /\ Len(DoLoad(o).idles) = Len(idles)
      BY <1>w, <2>2, <3>2, DoLoadFits DEF Kept
    <3> QED BY <1>3, <3>1, <3>3
  <2>5. CASE ~(w.v.deferred /\ size > 0) /\ ~w.v.opened
    <3>1. Become(w) /\ Len(w.idles) = Len(idles)
      BY <1>w, <2>2, <2>3, <2>5 DEF Kept
    <3> QED BY <1>3, <2>2, <3>1
  <2>6. CASE ~(w.v.deferred /\ size > 0) /\ w.v.opened /\ ViewportMoved(w.v)
    <3>1. Become(MaybeUpdateViewport(w))
      BY <2>3, <2>6
    <3>2. Fits(MaybeUpdateViewport(w), session, H) /\ Len(MaybeUpdateViewport(w).idles) = Len(idles)
      BY <1>w, <2>2, MaybeUpdateViewportFits DEF Kept
    <3> QED BY <1>3, <3>1, <3>2
  <2>7. CASE ~(w.v.deferred /\ size > 0) /\ w.v.opened /\ ~ViewportMoved(w.v)
    <3>1. Become(RequestRender(w))
      BY <2>3, <2>7
    <3>2. Fits(RequestRender(w), session, H) /\ Len(RequestRender(w).idles) = Len(idles)
      BY <1>w, <2>2, RequestRenderFits DEF Kept
    <3> QED BY <1>3, <3>1, <3>2
  <2> QED BY <2>4, <2>5, <2>6, <2>7
<1>7. ASSUME NEW pos \in Scrolls, ScrollView(pos) PROVE Framed' /\ Len(idles') = Len(idles)
  <2>1. Fits(ScrollTo(World, pos), session, H) /\ Len(ScrollTo(World, pos).idles) = Len(idles)
    BY <1>2, <1>w, ScrollToFits DEF Kept
  <2>2. Become(ScrollTo(World, pos))
    BY <1>7 DEF ScrollView
  <2> QED BY <1>3, <2>1, <2>2
<1>8. ASSUME NEW kind \in {"click", "release"}, Press(kind) PROVE Framed' /\ Len(idles') = Len(idles)
  <2>1. PICK a : /\ a = IF kind = "click" THEN Outdate(World, {"click"}) ELSE World
                 /\ Fits(a, session, H) /\ Kept(World, a)
    <3>1. Kept(World, World) BY DEF Kept
    <3> QED BY <1>2, <3>1, OutdateFits
  <2>2. PICK req : /\ Become(PushReq(a, req))
                   /\ {"kind", "cur"} \subseteq DOMAIN req
                   /\ req.kind = kind /\ req.by = view.load
    <3> DEFINE req == [kind |-> kind, cur |-> TRUE, by |-> view.load]
    <3>1. Become(PushReq(a, req))
      BY <1>8, <2>1 DEF Press
    <3> QED BY <3>1
  <2>3. IsMessage(req, Requests) /\ JobFits(req, a.v.load, a.v.opened) /\ req.kind # "load"
    BY <1>8, <1>w, <2>1, <2>2 DEF IsMessage, Requests, JobFits, Kept
  <2>4. Fits(PushReq(a, req), session, H) /\ Kept(a, PushReq(a, req))
    BY <2>1, <2>3, PushReqFits
  <2>5. Len(PushReq(a, req).idles) = Len(idles)
    BY <1>w, <2>1, <2>4 DEF Kept
  <2> QED BY <1>3, <2>2, <2>4, <2>5
<1> QED BY <1>4, <1>5, <1>6, <1>7, <1>8

\* A tick of the frame clock; a closed view's clock only stops.
LEMMA TickFramed == ASSUME Framed, AnimTick PROVE Framed' /\ Len(idles') = Len(idles)
<1>c. Counted'
  BY HandlerCounted DEF Framed
<1>w. /\ World.v = view /\ World.idles = idles /\ IsWorld(World)
      /\ {"closed", "asking", "load", "frame", "opened"} \subseteq DOMAIN view
  BY DEF World, Framed, Counted, IsWorld
<1>s. session' = session
  BY DEF AnimTick
<1>1. CASE view.closed \/ ~view.opened
  <2>1. PICK o : o = [World EXCEPT !.v.armed = FALSE] /\ Become(o)
    BY <1>1 DEF AnimTick
  <2>2. /\ view' = [view EXCEPT !.armed = FALSE] /\ idles' = idles
        /\ o.v = view' /\ o.jobs = jobs' /\ o.idles = idles'
    BY <1>w, <2>1 DEF Become, IsWorld
  <2>3. /\ DOMAIN view' = DOMAIN view /\ view'.load = view.load /\ view'.frame = view.frame
        /\ view'.closed = view.closed
    BY <1>w, <2>2
  <2>4. CASE view.closed
    <3>1. view'.closed BY <2>3, <2>4
    <3> QED BY <1>c, <2>2, <2>3, <3>1, ClosedFramed
  <2>5. CASE ~view.closed
    <3>1. PICK H : Fits(World, session, H)
      BY <2>5 DEF Framed
    <3>2. o = [World EXCEPT !.v = [World.v EXCEPT !["armed"] = FALSE]] /\ "armed" \notin Kernel
      BY <2>1 DEF Kernel
    <3>3. Fits(o, session, H)
      BY <3>1, <3>2, FieldFits
    <3> QED BY <1>c, <1>s, <2>2, <3>3, FitsFramed
  <2> QED BY <2>4, <2>5
<1>2. CASE ~(view.closed \/ ~view.opened)
  <2>1. PICK H : Fits(World, session, H)
    BY <1>2 DEF Framed
  <2>2. PICK o : o = RequestRender(World) /\ Become(o) /\ Fits(o, session, H) /\ Kept(World, o)
    BY <1>2, <2>1, RequestRenderFits DEF AnimTick
  <2> QED BY <1>c, <1>s, <1>w, <2>2, FitsFramed DEF Become, Kept
<1> QED BY <1>1, <1>2
\* Steps that neither post nor take a message.
LEMMA HolderFramed ==
  ASSUME Framed, Counted', jobs' = jobs, idles' = idles, session' = session,
         DOMAIN view' = DOMAIN view, view'.closed = view.closed, view'.load = view.load,
         view'.frame = view.frame, view'.opened = view.opened
  PROVE  Framed'
<1>1. CASE view.closed
  <2>1. view'.closed BY <1>1
  <2> QED BY <2>1, ClosedFramed
<1>2. CASE ~view.closed
  <2>1. PICK H : Fits(World, session, H)
    BY <1>2 DEF Framed
  <2>2. PICK w : w = [v |-> view', jobs |-> jobs', idles |-> idles', refs |-> refs']
    OBVIOUS
  <2>3. World' = w /\ w.v = view' /\ w.jobs = jobs /\ w.idles = idles
    BY <2>2 DEF World
  <2>4. World.v = view /\ World.jobs = jobs /\ World.idles = idles
    BY DEF World
  <2>5. IsWorld(w)
    BY <2>3 DEF Counted
  <2>6. {"load", "frame", "opened"} \subseteq DOMAIN w.v
    BY <2>3 DEF Framed
  <2>7. Fits(w, session, H)
    BY <2>1, <2>3, <2>4, <2>5, <2>6, HolderFits
  <2>8. Fits(World', session', H)
    BY <2>3, <2>7, Zenon
  <2>9. Shown(view)' /\ {"load", "frame", "opened"} \subseteq DOMAIN view'
    BY DEF Framed, Shown
  <2> QED BY <2>8, <2>9, Zenon DEF Framed
<1> QED BY <1>1, <1>2

\* The file dialog of view_save.
LEMMA AskSaveFramed == ASSUME Framed, AskSave PROVE Framed' /\ Len(idles') = Len(idles)
<1>c. Counted'
  BY AskSaveCounted DEF Framed
<1>w. /\ World.v = view /\ World.jobs = jobs /\ World.idles = idles
      /\ {"v", "jobs", "idles", "refs"} \subseteq DOMAIN World
      /\ {"closed", "asking", "load", "frame", "opened"} \subseteq DOMAIN view
  BY DEF World, Framed, Counted, IsWorld
<1>1. PICK o : o = [World EXCEPT !.v.asking = TRUE, !.refs = @ + 1] /\ Become(o)
  BY DEF AskSave
<1>2. o.v = [view EXCEPT !.asking = TRUE] /\ o.jobs = jobs /\ o.idles = idles
  BY <1>w, <1>1
<1>3. view' = [view EXCEPT !.asking = TRUE] /\ jobs' = jobs /\ idles' = idles /\ session' = session
  BY <1>1, <1>2 DEF Become, AskSave
<1>4. /\ DOMAIN view' = DOMAIN view /\ view'.closed = view.closed /\ view'.load = view.load
      /\ view'.frame = view.frame /\ view'.opened = view.opened
  BY <1>w, <1>3
<1> QED BY <1>c, <1>3, <1>4, HolderFramed

\* Its answer, which may ask for an export.
LEMMA SaveAnsweredFramed ==
  ASSUME Framed, NEW chosen \in BOOLEAN, SaveAnswered(chosen)
  PROVE  Framed' /\ Len(idles') = Len(idles)
<1>c. Counted'
  BY SaveAnsweredCounted DEF Framed
<1>w. /\ World.v = view /\ World.jobs = jobs /\ World.idles = idles
      /\ {"v", "jobs", "idles", "refs"} \subseteq DOMAIN World /\ IsWorld(World)
      /\ {"closed", "asking", "load", "frame", "opened"} \subseteq DOMAIN view
  BY DEF World, Framed, Counted, IsWorld
<1>1. PICK w : w = [World EXCEPT !.v.asking = FALSE]
  OBVIOUS
<1>2. PICK o : /\ o = IF chosen /\ w.v.opened THEN PushReq(w, [kind |-> "export", cur |-> TRUE]) ELSE w
               /\ Become([o EXCEPT !.refs = @ - 1])
  BY <1>1 DEF SaveAnswered
<1>3. /\ w.v = [view EXCEPT !.asking = FALSE] /\ w.jobs = jobs /\ w.idles = idles
      /\ w.refs = World.refs /\ DOMAIN w = DOMAIN World
  BY <1>w, <1>1
<1>4. /\ DOMAIN w.v = DOMAIN view /\ w.v.closed = view.closed /\ w.v.load = view.load
      /\ w.v.frame = view.frame /\ w.v.opened = view.opened /\ w.v.asking = FALSE
  BY <1>w, <1>3
<1>5. IsWorld(w)
  BY <1>w, <1>3, <1>4 DEF IsWorld
<1>m. PICK m : m = [kind |-> "export", cur |-> TRUE]
  OBVIOUS
<1>6. m = [kind |-> "export", cur |-> TRUE] /\ {"kind", "cur"} \subseteq DOMAIN m /\ m.kind = "export"
  BY <1>m
<1>7. CASE o = w
  <2>1. PICK p : p = [w EXCEPT !.refs = @ - 1] /\ Become(p)
    BY <1>2, <1>7
  <2>2. p.v = w.v /\ p.jobs = w.jobs /\ p.idles = w.idles
    BY <2>1
  <2>3. view' = w.v /\ jobs' = jobs /\ idles' = idles /\ session' = session
    BY <1>3, <2>1, <2>2 DEF Become, SaveAnswered
  <2> QED BY <1>c, <1>4, <2>3, HolderFramed
<1>8. CASE o # w
  <2>1. o = PushReq(w, m) /\ w.v.opened /\ ~view.closed
    <3>1. o = PushReq(w, m) /\ w.v.opened
      BY <1>2, <1>6, <1>8
    <3>2. view.closed => o = w
      BY <1>4, <1>6, <3>1, ClosedPush
    <3> QED BY <1>8, <3>1, <3>2
  <2>2. PICK H : Fits(World, session, H)
    BY <2>1 DEF Framed
  <2>3. Fits(w, session, H)
    <3>1. {"load", "frame", "opened"} \subseteq DOMAIN w.v
      BY <1>w, <1>4
    <3> QED BY <1>w, <1>3, <1>4, <1>5, <2>2, <3>1, HolderFits
  <2>4. Fits(o, session, H) /\ Kept(w, o)
    BY <1>6, <2>1, <2>3, PostedFits
  <2>5. PICK p : p = [o EXCEPT !.refs = @ - 1] /\ Become(p)
    BY <1>2
  <2>6. p.v = o.v /\ p.jobs = o.jobs /\ p.idles = o.idles
    BY <2>5
  <2>7. view' = o.v /\ jobs' = o.jobs /\ idles' = o.idles /\ session' = session
    BY <2>5, <2>6 DEF Become, SaveAnswered
  <2>8. Len(idles') = Len(idles)
    BY <1>3, <2>4, <2>7 DEF Kept
  <2> QED BY <1>c, <2>4, <2>7, <2>8, FitsFramed
<1> QED BY <1>7, <1>8

\* The widget goes.
LEMMA DestroyFramed == ASSUME Framed, Destroy PROVE Framed' /\ Len(idles') = Len(idles)
<1>c. Counted'
  BY DestroyCounted DEF Framed
<1>w. /\ World.v = view /\ World.jobs = jobs /\ World.idles = idles
      /\ {"v", "jobs", "idles", "refs"} \subseteq DOMAIN World
      /\ {"closed", "asking", "load", "frame", "opened"} \subseteq DOMAIN view
  BY DEF World, Framed, Counted, IsWorld
<1>1. PICK w : w = [World EXCEPT !.v.closed = TRUE, !.v.armed = FALSE]
  OBVIOUS
<1>2. PICK req, o : /\ req = [kind |-> "close", cur |-> TRUE] /\ o = PushReq(w, req)
                    /\ Become([o EXCEPT !.refs = @ - 1])
  BY <1>1 DEF Destroy
<1>3. /\ DOMAIN w.v = DOMAIN view /\ w.v.closed = TRUE /\ w.v.load = view.load
      /\ w.v.frame = view.frame /\ w.idles = idles
      /\ {"v", "jobs", "idles", "refs"} \subseteq DOMAIN w
  BY <1>w, <1>1
<1>4. o.v = w.v /\ o.idles = w.idles
  BY <1>2, <1>3 DEF PushReq
<1>5. PICK p : p = [o EXCEPT !.refs = @ - 1] /\ Become(p)
  BY <1>2
<1>6. p.v = o.v /\ p.idles = o.idles
  BY <1>5
<1>7. view' = w.v /\ idles' = idles
  BY <1>3, <1>4, <1>5, <1>6 DEF Become
<1> QED BY <1>c, <1>3, <1>7, ClosedFramed

\* The first result leaves its queue.
LEMMA TailFits ==
  ASSUME NEW w, NEW s, NEW H, Fits(w, s, H), w.idles # <<>>,
         NEW o, o = [w EXCEPT !.idles = Tail(@)]
  PROVE  /\ Fits(o, s, H) /\ o.v = w.v /\ o.jobs = w.jobs
         /\ ResultFits(Head(w.idles), w.v.load, s, H, w.jobs)
         /\ Head(w.idles).kind \in Results
         /\ Len(o.idles) = Len(w.idles) - 1
<1>1. IsWorld(w)
  BY DEF Fits
<1>2. PICK q : q = w.idles /\ q # <<>> /\ IsQueue(q, Results)
  BY <1>1 DEF IsWorld
<1>3. IsQueue(Tail(q), Results) /\ Len(Tail(q)) = Len(q) - 1 /\ IsMessage(Head(q), Results)
  BY <1>2, TailQueue
<1>4. o.v = w.v /\ o.jobs = w.jobs /\ o.refs = w.refs /\ o.idles = Tail(q) /\ DOMAIN o = DOMAIN w
  BY <1>1, <1>2 DEF IsWorld
<1>5. IsWorld(o)
  BY <1>1, <1>3, <1>4 DEF IsWorld
<1>6. PICK S : q \in Seq(S)
  BY <1>2 DEF IsQueue
<1>7. /\ \A i \in 1..Len(Tail(q)) : Tail(q)[i] = q[i + 1] /\ i + 1 \in 1..Len(q)
      /\ Head(q) = q[1] /\ 1 \in 1..Len(q)
  BY <1>2, <1>3, <1>6
<1>8. \A i \in 1..Len(q) : ResultFits(q[i], w.v.load, s, H, w.jobs)
  BY <1>2 DEF Fits
<1>9. \A i \in 1..Len(o.idles) : ResultFits(o.idles[i], o.v.load, s, H, o.jobs)
  BY <1>4, <1>7, <1>8
<1>10. Fits(o, s, H)
  BY <1>4, <1>5, <1>9 DEF Fits
<1>11. ResultFits(Head(q), w.v.load, s, H, w.jobs)
  BY <1>7, <1>8
<1> QED BY <1>2, <1>3, <1>4, <1>10, <1>11 DEF IsMessage

\* The next idle.
LEMMA DeliverFramed == ASSUME Framed, Deliver PROVE Framed' /\ StaleIgnored({"click"})
<1>c. Counted'
  BY DeliverCounted DEF Framed
<1>w. /\ World.v = view /\ World.jobs = jobs /\ World.idles = idles
      /\ {"v", "jobs", "idles", "refs"} \subseteq DOMAIN World /\ idles # <<>>
  BY DEF World, Deliver
<1>1. PICK w, r, o : /\ w = [World EXCEPT !.idles = Tail(@)] /\ r = Head(idles)
                     /\ o = OnResult(w, r) /\ Become([o EXCEPT !.refs = @ - 1])
  BY DEF Deliver
<1>2. PICK p : p = [o EXCEPT !.refs = @ - 1] /\ Become(p)
  BY <1>1
<1>3. p.v = o.v /\ p.jobs = o.jobs /\ p.idles = o.idles
  BY <1>2
<1>4. view' = o.v /\ jobs' = o.jobs /\ idles' = o.idles /\ session' = session
  BY <1>2, <1>3 DEF Become, Deliver
<1>5. w.v = view
  BY <1>w, <1>1
<1>6. CASE view.closed
  <2>1. o = w
    BY <1>1, <1>5, <1>6 DEF OnResult
  <2>2. view' = view
    BY <1>4, <1>5, <2>1
  <2>3. Framed'
    BY <1>c, <1>6, <2>2, ClosedFramed
  <2> QED BY <2>2, <2>3 DEF StaleIgnored
<1>7. CASE ~view.closed
  <2>1. PICK H : Fits(World, session, H)
    BY <1>7 DEF Framed
  <2>2. /\ Fits(w, session, H) /\ w.jobs = jobs
        /\ ResultFits(r, view.load, session, H, jobs) /\ r.kind \in Results
    BY <1>w, <1>1, <2>1, TailFits
  <2>3. /\ Fits(o, session, H)
        /\ r.kind = "click" /\ r.by # view.load => o = w
    <3>1. ResultFits(r, w.v.load, session, H, w.jobs)
      BY <1>5, <2>2, Zenon
    <3>2. /\ Fits(OnResult(w, r), session, H)
          /\ r.kind = "click" /\ r.by # w.v.load => OnResult(w, r) = w
      BY <2>2, <3>1, OnResultFits
    <3> QED BY <1>1, <1>5, <3>2, Zenon
  <2>4. Framed'
    BY <1>c, <1>4, <2>3, FitsFramed
  <2>5. r.kind = "click" /\ r.by # view.load => view' = view
    BY <1>4, <1>5, <2>3
  <2> QED BY <1>1, <2>4, <2>5 DEF StaleIgnored
<1> QED BY <1>6, <1>7
-----------------------------------------------------------------------------
(* Steps of the engine thread, on the frame *)

\* Queues that a job leaves and results join, next to a session that goes on.
LEMMA GrowsFits ==
  ASSUME NEW w, NEW s, NEW H, Fits(w, s, H), NEW o, IsWorld(o), o.v = w.v,
         NEW t, NEW G, SessionFits(t, G), t.gen >= s.gen, Continues(G, H, s.gen),
         \A i \in 1..Len(o.jobs) : JobFits(o.jobs[i], w.v.load, w.v.opened),
         LastLoad(o.jobs),
         NoLoads(w.jobs) => NoLoads(o.jobs) /\ t.page = s.page,
         \A i \in 1..Len(o.idles) :
           \/ i \in 1..Len(w.idles) /\ o.idles[i] = w.idles[i]
           \/ ResultFits(o.idles[i], w.v.load, t, G, o.jobs)
  PROVE  Fits(o, t, G)
<1>1. PICK g, h : g = s.gen /\ h = t.gen
  OBVIOUS
<1>2. g \in Nat /\ h \in Nat /\ h >= g /\ \A n \in 0..g : n \in 0..h /\ G[n] = H[n]
  <2>1. g \in Nat /\ h \in Nat /\ h >= g
    BY <1>1 DEF Fits, SessionFits
  <2> QED BY <1>1, <2>1 DEF Continues
<1>3. FrameFits(o.v, h, G)
  <2>1. FrameFits(w.v, g, H)
    BY <1>1 DEF Fits
  <2>2. CASE w.v.frame = NoFrame BY <2>2 DEF FrameFits
  <2>3. CASE w.v.frame # NoFrame
    <3>1. w.v.frame.gen \in 0..g /\ w.v.frame.shot = H[w.v.frame.gen]
      BY <2>1, <2>3 DEF FrameFits
    <3>2. w.v.frame.gen \in 0..h /\ w.v.frame.shot = G[w.v.frame.gen]
      BY <1>2, <3>1
    <3> QED BY <2>1, <2>3, <3>2 DEF FrameFits
  <2> QED BY <2>2, <2>3
<1>4. ASSUME NEW m, RenderFits(m, g, H) PROVE RenderFits(m, h, G)
  <2>1. CASE m.ok
    <3>1. m.gen \in 0..g /\ m.pic = H[m.gen]
      BY <1>4, <2>1 DEF RenderFits
    <3>2. m.gen \in 0..h /\ m.pic = G[m.gen]
      BY <1>2, <3>1
    <3>3. m.has = "patch" => m.base \in 0..h /\ G[m.base] = H[m.base]
      BY <1>2, <1>4, <2>1 DEF RenderFits
    <3> QED BY <1>4, <2>1, <3>2, <3>3 DEF RenderFits
  <2>2. CASE ~m.ok BY <1>4, <2>2 DEF RenderFits
  <2> QED BY <2>1, <2>2
<1>5. ASSUME NEW i \in 1..Len(o.idles) PROVE ResultFits(o.idles[i], o.v.load, t, G, o.jobs)
  <2>1. CASE i \in 1..Len(w.idles) /\ o.idles[i] = w.idles[i]
    <3>1. PICK m : m = w.idles[i]
      OBVIOUS
    <3>2. ResultFits(m, w.v.load, s, H, w.jobs)
      BY <2>1, <3>1 DEF Fits
    <3>3. m.kind = "render" => RenderFits(m, t.gen, G)
      BY <1>1, <1>4, <3>2 DEF ResultFits
    <3>4. CurrentFits(m, w.v.load, t.page, o.jobs)
      BY <3>2 DEF ResultFits, CurrentFits
    <3>5. ResultFits(m, w.v.load, t, G, o.jobs)
      BY <3>2, <3>3, <3>4 DEF ResultFits
    <3> QED BY <2>1, <3>1, <3>5
  <2>2. CASE ResultFits(o.idles[i], w.v.load, t, G, o.jobs) BY <2>2
  <2> QED BY <2>1, <2>2
<1>6. /\ ~o.v.closed /\ {"load", "frame", "opened"} \subseteq DOMAIN o.v
      /\ o.v.opened => t.page = o.v.load /\ NoLoads(o.jobs)
  BY DEF Fits
<1> QED BY <1>1, <1>3, <1>5, <1>6 DEF Fits

\* Requests after the first.
LEMMA TailJobs ==
  ASSUME NEW q, IsQueue(q, Requests), q # <<>>, NEW load, NEW opened,
         \A i \in 1..Len(q) : JobFits(q[i], load, opened), LastLoad(q)
  PROVE  /\ \A i \in 1..Len(Tail(q)) : JobFits(Tail(q)[i], load, opened)
         /\ LastLoad(Tail(q))
         /\ NoLoads(q) => NoLoads(Tail(q)) /\ Head(q).kind # "load"
         /\ Head(q).kind = "load" /\ Head(q).cur => NoLoads(Tail(q))
         /\ JobFits(Head(q), load, opened)
<1>1. PICK S : q \in Seq(S)
  BY DEF IsQueue
<1>2. PICK o, n : o = Tail(q) /\ n = Len(q)
  OBVIOUS
<1>3. n \in Nat /\ Len(o) = n - 1 /\ n >= 1
  BY <1>1, <1>2, TailQueue, QueueLength
<1>4. /\ \A i \in 1..Len(o) : o[i] = q[i + 1]
      /\ Head(q) = q[1]
  BY <1>1, <1>2
<1>5. \A i \in 1..Len(o) : i + 1 \in 1..n /\ 1 < i + 1
  BY <1>3
<1>6. 1 \in 1..n
  BY <1>3
<1>7. \A i \in 1..Len(o) : JobFits(o[i], load, opened)
  BY <1>2, <1>4, <1>5
<1>8. LastLoad(o)
  <2> SUFFICES ASSUME NEW i \in 1..Len(o), NEW k \in 1..Len(o), i < k,
                      o[i].kind = "load", o[i].cur
               PROVE  o[k].kind # "load"
    BY DEF LastLoad
  <2>1. i + 1 \in 1..n /\ k + 1 \in 1..n /\ i + 1 < k + 1
    BY <1>3
  <2>2. q[i + 1].kind = "load" /\ q[i + 1].cur /\ o[k] = q[k + 1]
    BY <1>4
  <2> QED BY <1>2, <2>1, <2>2 DEF LastLoad
<1>9. NoLoads(q) => NoLoads(o) /\ Head(q).kind # "load"
  BY <1>2, <1>4, <1>5, <1>6 DEF NoLoads
<1>10. Head(q).kind = "load" /\ Head(q).cur => NoLoads(o)
  BY <1>2, <1>4, <1>5, <1>6 DEF NoLoads, LastLoad
<1>11. JobFits(Head(q), load, opened)
  BY <1>2, <1>4, <1>6
<1> QED BY <1>2, <1>7, <1>8, <1>9, <1>10, <1>11

\* The messages of a queue and one more.
LEMMA SnocElements ==
  ASSUME NEW q, NEW K, IsQueue(q, K), NEW m
  PROVE  \A i \in 1..Len(q \o <<m>>) :
           (i \in 1..Len(q) /\ (q \o <<m>>)[i] = q[i]) \/ (q \o <<m>>)[i] = m
<1>1. PICK S : q \in Seq(S) /\ m \in S
  <2> DEFINE S == {q[i] : i \in DOMAIN q} \cup {m}
  <2>1. q \in [1..Len(q) -> S] /\ Len(q) \in Nat
    BY QueueLength DEF IsQueue
  <2>2. q \in Seq(S) /\ m \in S BY <2>1, SeqDef
  <2> QED BY <2>2
<1>2. PICK n : n = Len(q) /\ n \in Nat
  BY <1>1
<1>3. q \o <<m>> = Append(q, m)
  BY <1>1, AppendIsConcat
<1>4. \A i \in 1..(n + 1) : Append(q, m)[i] = IF i <= n THEN q[i] ELSE m
  BY <1>1, <1>2
<1>5. Len(Append(q, m)) = n + 1
  BY <1>1, <1>2
<1> QED BY <1>2, <1>3, <1>4, <1>5

\* The end of a job of an open view.
LEMMA FinishFits ==
  ASSUME Framed, Counted', ~view.closed, jobs # <<>>, NEW H, Fits(World, session, H),
         NEW m, m.kind \in Results, "kind" \in DOMAIN m, Finish(<<m>>),
         NEW G, SessionFits(session', G), session'.gen >= session.gen,
         Continues(G, H, session.gen),
         session'.page = session.page \/ Head(jobs).kind = "load",
         ResultFits(m, view.load, session', G, Tail(jobs))
  PROVE  Framed'
<1>w. World.v = view /\ World.jobs = jobs /\ World.idles = idles
  BY DEF World
<1>1. /\ IsQueue(jobs, Requests) /\ IsQueue(idles, Results) /\ LastLoad(jobs)
      /\ \A i \in 1..Len(jobs) : JobFits(jobs[i], view.load, view.opened)
  BY <1>w DEF Fits, IsWorld
<1>2. /\ \A i \in 1..Len(Tail(jobs)) : JobFits(Tail(jobs)[i], view.load, view.opened)
      /\ LastLoad(Tail(jobs))
      /\ NoLoads(jobs) => NoLoads(Tail(jobs)) /\ Head(jobs).kind # "load"
  <2>1. PICK load, opened : load = view.load /\ opened = view.opened
    OBVIOUS
  <2>2. \A i \in 1..Len(jobs) : JobFits(jobs[i], load, opened)
    BY <1>1, <2>1
  <2>3. /\ \A i \in 1..Len(Tail(jobs)) : JobFits(Tail(jobs)[i], load, opened)
        /\ LastLoad(Tail(jobs))
        /\ NoLoads(jobs) => NoLoads(Tail(jobs)) /\ Head(jobs).kind # "load"
    BY <1>1, <2>2, TailJobs
  <2> QED BY <2>1, <2>3, Zenon
<1>3. PICK u : u = [kind |-> "unref", cur |-> TRUE]
  OBVIOUS
<1>4. u.kind = "unref" /\ {"kind", "cur"} \subseteq DOMAIN u
  BY <1>3
<1>5. ResultFits(u, view.load, session', G, Tail(jobs))
  BY <1>4 DEF ResultFits, CurrentFits
<1>6. PICK q : q = idles \o <<m>> /\ IsQueue(q, Results)
  BY <1>1, SnocQueue DEF IsMessage
<1>7. PICK p : p = q \o <<u>>
  OBVIOUS
<1>8. \A i \in 1..Len(q) : (i \in 1..Len(idles) /\ q[i] = idles[i]) \/ q[i] = m
  BY <1>1, <1>6, SnocElements
<1>9. \A i \in 1..Len(p) : (i \in 1..Len(q) /\ p[i] = q[i]) \/ p[i] = u
  BY <1>6, <1>7, SnocElements
<1>10. \A i \in 1..Len(p) : \/ i \in 1..Len(idles) /\ p[i] = idles[i]
                            \/ ResultFits(p[i], view.load, session', G, Tail(jobs))
  BY <1>5, <1>8, <1>9
<1>11. idles' = p /\ jobs' = Tail(jobs) /\ view' = view
  BY <1>3, <1>6, <1>7 DEF Finish
<1>12. PICK o : o = [v |-> view', jobs |-> jobs', idles |-> idles', refs |-> refs']
  OBVIOUS
<1>13. World' = o /\ o.v = view /\ o.jobs = Tail(jobs) /\ o.idles = p /\ o.v = view'
  BY <1>11, <1>12 DEF World
<1>14. IsWorld(o)
  BY <1>13 DEF Counted
<1>15. PICK t : t = session'
  OBVIOUS
<1>16. NoLoads(jobs) => NoLoads(Tail(jobs)) /\ t.page = session.page
  BY <1>2, <1>15
<1>17. Fits(o, t, G)
  <2>1. SessionFits(t, G) /\ t.gen >= session.gen
    BY <1>15
  <2>2. \A i \in 1..Len(o.jobs) : JobFits(o.jobs[i], World.v.load, World.v.opened)
    BY <1>2, <1>13, <1>w
  <2>3. LastLoad(o.jobs) /\ (NoLoads(World.jobs) => NoLoads(o.jobs) /\ t.page = session.page)
    BY <1>2, <1>13, <1>16, <1>w
  <2>4. \A i \in 1..Len(o.idles) :
           \/ i \in 1..Len(World.idles) /\ o.idles[i] = World.idles[i]
           \/ ResultFits(o.idles[i], World.v.load, t, G, o.jobs)
    BY <1>10, <1>13, <1>15, <1>w
  <2>5. o.v = World.v
    BY <1>13, <1>w
  <2> QED BY <1>14, <2>1, <2>2, <2>3, <2>4, <2>5, GrowsFits
<1>18. Fits(World', session', G)
  BY <1>13, <1>15, <1>17, Zenon
<1>19. Shown(view)' /\ {"load", "frame", "opened"} \subseteq DOMAIN view'
  BY <1>11 DEF Framed, Shown
<1> QED BY <1>18, <1>19, Zenon DEF Framed
\* The first requests of the session do not touch its frame.
LEMMA SessionStarts ==
  ASSUME NEW H, SessionFits(session, H)
  PROVE  /\ SessionFits(Session, H) /\ SessionFits(InvalidateFrame(Session), H)
         /\ Session.page = session.page /\ InvalidateFrame(Session).page = session.page
         /\ Session.gen = session.gen /\ InvalidateFrame(Session).gen = session.gen
<1>1. PICK s, t : s = Session /\ t = InvalidateFrame(Session)
  OBVIOUS
<1>2. /\ {"page", "valid", "fb", "gen"} \subseteq DOMAIN s
      /\ s.page = session.page /\ s.fb = session.fb /\ s.gen = session.gen /\ s.valid = session.valid
  BY <1>1 DEF SessionFits, Session
<1>3. /\ {"page", "valid", "fb", "gen"} \subseteq DOMAIN t
      /\ t.page = s.page /\ t.fb = s.fb /\ t.gen = s.gen /\ t.valid = FALSE
  BY <1>1, <1>2 DEF InvalidateFrame
<1>4. SessionFits(s, H)
  BY <1>2, SessionKept
<1>5. SessionFits(t, H)
  BY <1>3, <1>4, SessionKept
<1> QED BY <1>1, <1>2, <1>3, <1>4, <1>5

\* A session that drew no new generation.
LEMMA SameHistory ==
  ASSUME NEW s, NEW H, SessionFits(s, H), NEW t, t.gen = s.gen
  PROVE  t.gen >= s.gen /\ Continues(H, H, s.gen)
BY DEF SessionFits, Continues

\* What a job of an open view starts from.
LEMMA JobHead ==
  ASSUME ~view.closed, jobs # <<>>, NEW H, Fits(World, session, H)
  PROVE  /\ SessionFits(session, H)
         /\ JobFits(Head(jobs), view.load, view.opened)
         /\ view.opened => session.page = view.load
         /\ Head(jobs).kind = "load" /\ Head(jobs).cur => NoLoads(Tail(jobs))
<1>w. World.v = view /\ World.jobs = jobs
  BY DEF World
<1>1. /\ IsQueue(jobs, Requests) /\ LastLoad(jobs)
      /\ \A i \in 1..Len(jobs) : JobFits(jobs[i], view.load, view.opened)
  BY <1>w DEF Fits, IsWorld
<1>2. PICK load, opened : load = view.load /\ opened = view.opened
  OBVIOUS
<1>3. \A i \in 1..Len(jobs) : JobFits(jobs[i], load, opened)
  BY <1>1, <1>2
<1>4. JobFits(Head(jobs), load, opened) /\ (Head(jobs).kind = "load" /\ Head(jobs).cur => NoLoads(Tail(jobs)))
  BY <1>1, <1>3, TailJobs
<1>5. SessionFits(session, H) /\ (view.opened => session.page = view.load)
  BY <1>w DEF Fits
<1> QED BY <1>2, <1>4, <1>5, Zenon

\* run_load: a result that is current is the only load, and the page's.
LEMMA RunLoadFramed ==
  ASSUME Framed, Counted', ~view.closed, jobs # <<>>, NEW H, Fits(World, session, H),
         Head(jobs).kind = "load", NEW outcome, RunLoad(Head(jobs), outcome)
  PROVE  Framed'
<1>1. PICK j : j = Head(jobs) /\ j.kind = "load" /\ RunLoad(j, outcome)
  OBVIOUS
<1>2. /\ SessionFits(session, H) /\ JobFits(j, view.load, view.opened)
      /\ j.cur => NoLoads(Tail(jobs))
  BY <1>1, JobHead
<1>3. PICK s : s = InvalidateFrame(Session) /\ SessionFits(s, H) /\ s.gen = session.gen
  BY <1>2, SessionStarts
<1>4. PICK page : page = IF outcome = "fail" THEN None ELSE j.load
  OBVIOUS
<1>5. session' = [s EXCEPT !.page = page,
                   !.vp = j.size, !.tiles = Blank, !.dirty = {}, !.damageFull = FALSE,
                   !.repaint = FALSE, !.anim = 0, !.wantScroll = None, !.wantNav = FALSE,
                   !.wakePosted = FALSE]
  BY <1>1, <1>3, <1>4, Zenon DEF RunLoad
<1>6. s.valid = FALSE /\ {"page", "valid", "fb", "gen"} \subseteq DOMAIN s
  <2>1. {"page", "valid", "fb", "gen"} \subseteq DOMAIN s
    BY <1>3 DEF SessionFits
  <2>2. DOMAIN InvalidateFrame(Session) = DOMAIN Session
    BY DEF InvalidateFrame
  <2> QED BY <1>3, <2>1, <2>2 DEF InvalidateFrame
<1>7. PICK t : t = session'
  OBVIOUS
<1>8. /\ t.page = page /\ t.valid = FALSE /\ t.fb = s.fb /\ t.gen = s.gen
      /\ {"page", "valid", "fb", "gen"} \subseteq DOMAIN t
  BY <1>5, <1>6, <1>7
<1>9. SessionFits(t, H) /\ t.gen = session.gen
  BY <1>3, <1>8, SessionKept
<1>10. PICK m : m = [kind |-> "load", cur |-> j.cur, load |-> j.load, outcome |-> outcome]
  OBVIOUS
<1>11. /\ m.kind = "load" /\ m.cur = j.cur /\ m.outcome = outcome
       /\ {"kind", "cur"} \subseteq DOMAIN m
  BY <1>10
<1>12. Finish(<<m>>)
  BY <1>1, <1>10 DEF RunLoad
<1>13. CurrentFits(m, view.load, t.page, Tail(jobs))
  BY <1>1, <1>2, <1>4, <1>8, <1>11 DEF CurrentFits, JobFits
<1>14. ResultFits(m, view.load, t, H, Tail(jobs))
  BY <1>11, <1>13 DEF ResultFits
<1>15. t.gen >= session.gen /\ Continues(H, H, session.gen)
  BY <1>2, <1>9, SameHistory
<1>16. /\ SessionFits(session', H) /\ session'.gen >= session.gen
       /\ ResultFits(m, view.load, session', H, Tail(jobs))
  BY <1>7, <1>9, <1>14, <1>15, Zenon
<1>17. m.kind \in Results /\ "kind" \in DOMAIN m
  BY <1>11 DEF Results
<1> QED BY <1>12, <1>15, <1>16, <1>17, FinishFits

\* ns_page_session_render
LEMMA RunRenderFramed ==
  ASSUME Framed, Counted', ~view.closed, jobs # <<>>, NEW H, Fits(World, session, H),
         Head(jobs).kind = "render", RunRender(Head(jobs))
  PROVE  Framed'
<1>1. PICK j : j = Head(jobs) /\ j.kind = "render" /\ RunRender(j)
  OBVIOUS
<1>2. /\ SessionFits(session, H) /\ JobFits(j, view.load, view.opened)
      /\ view.opened => session.page = view.load
  BY <1>1, JobHead
<1>3. PICK s : /\ s = IF j.full THEN InvalidateFrame(Session) ELSE Session
               /\ SessionFits(s, H) /\ s.page = session.page /\ s.gen = session.gen
  BY <1>2, SessionStarts
<1>4. CASE s.page = None
  <2>1. PICK m : m = [kind |-> "render", cur |-> j.cur, ok |-> FALSE]
    OBVIOUS
  <2>2. session' = s /\ Finish(<<m>>)
    BY <1>1, <1>3, <1>4, <2>1 DEF RunRender
  <2>3. m.kind = "render" /\ m.ok = FALSE /\ {"kind", "cur", "ok"} \subseteq DOMAIN m
    BY <2>1
  <2>4. ResultFits(m, view.load, s, H, Tail(jobs))
    BY <2>3 DEF ResultFits, RenderFits, CurrentFits
  <2>5. s.gen >= session.gen /\ Continues(H, H, session.gen)
    BY <1>2, <1>3, SameHistory
  <2>6. /\ SessionFits(session', H) /\ session'.gen >= session.gen /\ session'.page = session.page
        /\ ResultFits(m, view.load, session', H, Tail(jobs))
    BY <1>3, <2>2, <2>4, <2>5, Zenon
  <2>7. m.kind \in Results /\ "kind" \in DOMAIN m
    BY <2>3 DEF Results
  <2> QED BY <2>2, <2>5, <2>6, <2>7, FinishFits
<1>5. CASE s.page # None
  <2>1. PICK t, m : t = RenderOf(s, j).s /\ m = RenderOf(s, j).r
    OBVIOUS
  <2>2. session' = t /\ Finish(<<m>>)
    BY <1>1, <1>3, <1>5, <2>1 DEF RunRender
  <2>3. PICK G : /\ SessionFits(t, G) /\ Continues(G, H, s.gen)
                 /\ t.gen >= s.gen /\ t.page = s.page
                 /\ RenderFits(m, t.gen, G) /\ m.pic.load = s.page
                 /\ m.kind = "render" /\ {"kind", "cur"} \subseteq DOMAIN m /\ m.cur = j.cur
    BY <1>3, <2>1, RenderOfFits
  <2>4. CurrentFits(m, view.load, t.page, Tail(jobs))
    BY <1>1, <1>2, <1>3, <2>3 DEF CurrentFits, JobFits
  <2>5. ResultFits(m, view.load, t, G, Tail(jobs))
    BY <2>3, <2>4 DEF ResultFits
  <2>6. /\ SessionFits(session', G) /\ session'.gen >= session.gen /\ session'.page = session.page
        /\ Continues(G, H, session.gen)
        /\ ResultFits(m, view.load, session', G, Tail(jobs))
    BY <1>3, <2>2, <2>3, <2>5, Zenon
  <2>7. m.kind \in Results /\ "kind" \in DOMAIN m
    BY <2>3 DEF Results
  <2> QED BY <2>2, <2>6, <2>7, FinishFits
<1> QED BY <1>4, <1>5

\* The jobs whose results carry no picture and that leave the page where it is.
LEMMA OtherJobFramed ==
  ASSUME Framed, Counted', ~view.closed, jobs # <<>>, NEW H, Fits(World, session, H),
         NEW t, session' = t, SessionFits(t, H), t.gen = session.gen, t.page = session.page,
         NEW m, {"kind", "cur"} \subseteq DOMAIN m, Finish(<<m>>),
         m.kind \in {"viewport", "click", "release", "export"},
         m.kind = "click" /\ m.cur => m.by = view.load
  PROVE  Framed'
<1>1. SessionFits(session, H)
  BY JobHead
<1>2. t.gen >= session.gen /\ Continues(H, H, session.gen)
  BY <1>1, SameHistory
<1>3. ResultFits(m, view.load, t, H, Tail(jobs))
  BY DEF ResultFits, CurrentFits
<1>4. m.kind \in Results /\ "kind" \in DOMAIN m
  BY DEF Results
<1>5. /\ SessionFits(session', H) /\ session'.gen >= session.gen /\ session'.page = session.page
      /\ ResultFits(m, view.load, session', H, Tail(jobs))
  BY <1>2, <1>3, Zenon
<1> QED BY <1>2, <1>4, <1>5, FinishFits

\* Script that changes the page's looks leaves the session's frame.
LEMMA DrawnKeeps ==
  ASSUME NEW s, NEW H, SessionFits(s, H), NEW tiles
  PROVE  /\ SessionFits(Drawn(s, tiles), H)
         /\ Drawn(s, tiles).page = s.page /\ Drawn(s, tiles).gen = s.gen
<1>1. PICK t : t = Drawn(s, tiles)
  OBVIOUS
<1>2. PICK looks : t = [s EXCEPT !.tiles = looks, !.dirty = s.dirty \cup tiles, !.repaint = TRUE]
  BY <1>1 DEF Drawn
<1>3. /\ {"page", "valid", "fb", "gen"} \subseteq DOMAIN t
      /\ t.page = s.page /\ t.fb = s.fb /\ t.gen = s.gen /\ t.valid = s.valid
  BY <1>2 DEF SessionFits
<1>4. SessionFits(t, H)
  BY <1>3, SessionKept
<1> QED BY <1>1, <1>3, <1>4

\* The engine thread's jobs.
LEMMA RunJobFramed == ASSUME Framed, RunJob PROVE Framed' /\ view' = view
<1>c. Counted'
  BY RunJobCounted DEF Framed
<1>0. jobs # <<>> /\ view' = view
  BY DEF RunJob, RunLoad, RunRender, RunViewport, RunPress, RunExport, RunClose, Finish
<1>1. CASE view.closed
  BY <1>c, <1>0, <1>1, ClosedFramed
<1>2. CASE ~view.closed
  <2>1. PICK H : Fits(World, session, H)
    BY <1>2 DEF Framed
  <2>2. PICK j : j = Head(jobs)
    OBVIOUS
  <2>3. SessionFits(session, H) /\ JobFits(j, view.load, view.opened)
    BY <1>0, <1>2, <2>1, <2>2, JobHead
  <2>4. /\ SessionFits(Session, H) /\ SessionFits(InvalidateFrame(Session), H)
        /\ Session.page = session.page /\ InvalidateFrame(Session).page = session.page
        /\ Session.gen = session.gen /\ InvalidateFrame(Session).gen = session.gen
    BY <2>3, SessionStarts
  <2>5. ASSUME NEW outcome \in {"ok", "fail", "redirect"}, j.kind = "load", RunLoad(j, outcome)
        PROVE  Framed'
    BY <1>c, <1>0, <1>2, <2>1, <2>2, <2>5, RunLoadFramed
  <2>6. ASSUME j.kind = "render", RunRender(j) PROVE Framed'
    BY <1>c, <1>0, <1>2, <2>1, <2>2, <2>6, RunRenderFramed
  <2>7. ASSUME j.kind = "viewport", RunViewport(j) PROVE Framed'
    <3>1. PICK m : m = [kind |-> "viewport", cur |-> j.cur, ok |-> Session.page # None]
      OBVIOUS
    <3>2. m.kind = "viewport" /\ {"kind", "cur"} \subseteq DOMAIN m /\ Finish(<<m>>)
      BY <2>7, <3>1 DEF RunViewport
    <3>3. PICK t : t = session' /\ SessionFits(t, H) /\ t.gen = session.gen /\ t.page = session.page
      <4>1. CASE Session.page = None
        BY <2>4, <2>7, <4>1 DEF RunViewport
      <4>2. CASE Session.page # None
        <5>1. PICK s, t : /\ s = InvalidateFrame(Session) /\ t = [s EXCEPT !.vp = j.size]
                          /\ session' = t
          BY <2>7, <4>2 DEF RunViewport
        <5>2. {"page", "valid", "fb", "gen"} \subseteq DOMAIN s /\ SessionFits(s, H)
          BY <2>4, <5>1 DEF SessionFits
        <5>3. /\ {"page", "valid", "fb", "gen"} \subseteq DOMAIN t
              /\ t.page = s.page /\ t.fb = s.fb /\ t.gen = s.gen /\ t.valid = s.valid
          BY <5>1, <5>2
        <5>4. SessionFits(t, H)
          BY <5>2, <5>3, SessionKept
        <5> QED BY <2>4, <5>1, <5>3, <5>4
      <4> QED BY <4>1, <4>2
    <3> QED BY <1>c, <1>0, <1>2, <2>1, <3>2, <3>3, OtherJobFramed
  <2>8. ASSUME NEW effect \in {"none", "draw", "nav"}, j.kind \in {"click", "release"},
               RunPress(j, effect)
        PROVE  Framed'
    <3>1. PICK m : m = [kind |-> j.kind, cur |-> j.cur, by |-> j.by, href |-> effect = "nav",
                        changed |-> effect = "draw"]
      OBVIOUS
    <3>2. /\ m.kind = j.kind /\ m.cur = j.cur /\ m.by = j.by
          /\ {"kind", "cur"} \subseteq DOMAIN m
      BY <3>1
    <3>3. Finish(<<m>>)
      BY <2>8, <3>1 DEF RunPress
    <3>4. m.kind \in {"viewport", "click", "release", "export"}
      BY <2>8, <3>2
    <3>5. m.kind = "click" /\ m.cur => m.by = view.load
      BY <2>3, <3>2 DEF JobFits
    <3>6. PICK s : /\ s = IF Session.page = None THEN Session ELSE InvalidateFrame(Session)
                   /\ SessionFits(s, H) /\ s.page = session.page /\ s.gen = session.gen
      BY <2>4
    <3>7. session' = IF effect = "draw" THEN Drawn(s, {AnimTile}) ELSE s
      BY <2>8, <3>6, Zenon DEF RunPress
    <3>8. PICK t : t = session' /\ SessionFits(t, H) /\ t.gen = session.gen /\ t.page = session.page
      BY <3>6, <3>7, DrawnKeeps
    <3> QED BY <1>c, <1>0, <1>2, <2>1, <3>2, <3>3, <3>4, <3>5, <3>8, OtherJobFramed
  <2>9. ASSUME j.kind = "export", RunExport PROVE Framed'
    <3>1. PICK m : m = [kind |-> "export", cur |-> TRUE]
      OBVIOUS
    <3>2. m.kind = "export" /\ {"kind", "cur"} \subseteq DOMAIN m /\ Finish(<<m>>)
      BY <2>9, <3>1 DEF RunExport
    <3>3. PICK t : t = session' /\ SessionFits(t, H) /\ t.gen = session.gen /\ t.page = session.page
      BY <2>4, <2>9 DEF RunExport
    <3> QED BY <1>c, <1>0, <1>2, <2>1, <3>2, <3>3, OtherJobFramed
  <2>10. j.kind # "close"
    BY <2>3 DEF JobFits
  <2> QED BY <1>0, <2>2, <2>5, <2>6, <2>7, <2>8, <2>9, <2>10 DEF RunJob
<1> QED BY <1>0, <1>1, <1>2
\* session_wake_dispatch
LEMMA SessionWakeFramed == ASSUME Framed, SessionWake PROVE Framed'
<1>c. Counted'
  BY SessionWakeCounted DEF Framed
<1>v. view' = view /\ jobs' = jobs
  BY DEF SessionWake
<1>1. CASE view.closed
  BY <1>c, <1>v, <1>1, ClosedFramed
<1>2. CASE ~view.closed
  <2>w. World.v = view /\ World.jobs = jobs /\ World.idles = idles
    BY DEF World
  <2>1. PICK H : Fits(World, session, H)
    BY <1>2 DEF Framed
  <2>2. PICK m : m = [kind |-> "wake", cur |-> TRUE] /\ idles' = Append(idles, m)
    BY DEF SessionWake
  <2>3. PICK t : t = [session EXCEPT !.wakePosted = TRUE] /\ session' = t
    BY DEF SessionWake
  <2>4. SessionFits(session, H) /\ IsQueue(idles, Results) /\ LastLoad(jobs)
        /\ \A i \in 1..Len(jobs) : JobFits(jobs[i], view.load, view.opened)
    BY <2>1, <2>w DEF Fits, IsWorld
  <2>5. /\ {"page", "valid", "fb", "gen"} \subseteq DOMAIN t
        /\ t.page = session.page /\ t.fb = session.fb /\ t.gen = session.gen /\ t.valid = session.valid
    BY <2>3, <2>4 DEF SessionFits
  <2>6. SessionFits(t, H) /\ t.gen >= session.gen /\ Continues(H, H, session.gen)
    <3>1. SessionFits(t, H) BY <2>4, <2>5, SessionKept
    <3> QED BY <2>4, <2>5, <3>1, SameHistory
  <2>7. idles' = idles \o <<m>>
    <3>1. PICK S : idles \in Seq(S) /\ m \in S
      <4> DEFINE S == {idles[i] : i \in DOMAIN idles} \cup {m}
      <4>1. idles \in [1..Len(idles) -> S] /\ Len(idles) \in Nat
        BY <2>4, QueueLength DEF IsQueue
      <4>2. idles \in Seq(S) /\ m \in S BY <4>1, SeqDef
      <4> QED BY <4>2
    <3> QED BY <2>2, <3>1, AppendIsConcat
  <2>8. \A i \in 1..Len(idles') : (i \in 1..Len(idles) /\ idles'[i] = idles[i]) \/ idles'[i] = m
    BY <2>4, <2>7, SnocElements
  <2>9. m.kind = "wake" /\ "cur" \in DOMAIN m
    BY <2>2
  <2>10. ResultFits(m, view.load, t, H, jobs)
    BY <2>9 DEF ResultFits, CurrentFits
  <2>11. PICK o : o = [v |-> view', jobs |-> jobs', idles |-> idles', refs |-> refs']
    OBVIOUS
  <2>12. World' = o /\ o.v = view /\ o.jobs = jobs /\ o.idles = idles'
    BY <1>v, <2>11 DEF World
  <2>13. IsWorld(o)
    BY <1>c, <2>12 DEF Counted
  <2>14. Fits(o, t, H)
    <3>1. \A i \in 1..Len(o.jobs) : JobFits(o.jobs[i], World.v.load, World.v.opened)
      BY <2>4, <2>12, <2>w
    <3>2. LastLoad(o.jobs) /\ (NoLoads(World.jobs) => NoLoads(o.jobs) /\ t.page = session.page)
      BY <2>4, <2>5, <2>12, <2>w
    <3>3. \A i \in 1..Len(o.idles) :
             \/ i \in 1..Len(World.idles) /\ o.idles[i] = World.idles[i]
             \/ ResultFits(o.idles[i], World.v.load, t, H, o.jobs)
      BY <2>8, <2>10, <2>12, <2>w
    <3>4. o.v = World.v
      BY <2>12, <2>w
    <3> QED BY <2>1, <2>6, <2>13, <3>1, <3>2, <3>3, <3>4, GrowsFits
  <2>15. Fits(World', session', H)
    BY <2>3, <2>12, <2>14, Zenon
  <2>16. Shown(view)' /\ {"load", "frame", "opened"} \subseteq DOMAIN view'
    BY <1>v DEF Framed, Shown
  <2> QED BY <2>15, <2>16, <1>c, Zenon DEF Framed
<1> QED BY <1>1, <1>2

\* A page at work changes its looks and its wishes, not the frame.
LEMMA PageWorkFramed == ASSUME Framed, PageWork PROVE Framed'
<1>v. view' = view /\ jobs' = jobs /\ idles' = idles /\ refs' = refs
  BY DEF PageWork, PageStep
<1>w. World' = World
  BY <1>v DEF World
<1>c. Counted'
  BY <1>v, <1>w DEF Framed, Counted
<1>1. CASE view.closed
  BY <1>c, <1>v, <1>1, ClosedFramed
<1>2. CASE ~view.closed
  <2>w. World.v = view /\ World.jobs = jobs /\ World.idles = idles
    BY DEF World
  <2>1. PICK H : Fits(World, session, H)
    BY <1>2 DEF Framed
  <2>2. SessionFits(session, H)
    BY <2>1 DEF Fits
  <2>d. {"page", "valid", "fb", "gen"} \subseteq DOMAIN session
    BY <2>2 DEF SessionFits
  <2>3. PICK t : t = session' /\ SessionFits(t, H) /\ t.gen = session.gen /\ t.page = session.page
    <3>1. ASSUME NEW t, t = session', {"page", "valid", "fb", "gen"} \subseteq DOMAIN t,
                 t.page = session.page, t.fb = session.fb, t.gen = session.gen,
                 t.valid = session.valid
          PROVE  SessionFits(session', H) /\ session'.gen = session.gen /\ session'.page = session.page
      BY <2>2, <3>1, SessionKept
    <3>2. CASE \E tile \in Tiles : PageStep("draw", Drawn(session, {tile}))
      BY <2>2, <3>2, DrawnKeeps DEF PageStep
    <3>3. CASE PageStep("relayout", [Drawn(session, Tiles) EXCEPT !.damageFull = TRUE])
      <4>1. PICK a : a = Drawn(session, Tiles)
        OBVIOUS
      <4>2. SessionFits(a, H) /\ a.page = session.page /\ a.gen = session.gen
        BY <2>2, <4>1, DrawnKeeps
      <4>3. PICK b : b = [a EXCEPT !.damageFull = TRUE] /\ session' = b
        BY <3>3, <4>1 DEF PageStep
      <4>4. /\ {"page", "valid", "fb", "gen"} \subseteq DOMAIN b
            /\ b.page = a.page /\ b.fb = a.fb /\ b.gen = a.gen /\ b.valid = a.valid
        BY <4>2, <4>3 DEF SessionFits
      <4>5. SessionFits(b, H)
        BY <4>2, <4>4, SessionKept
      <4> QED BY <4>2, <4>3, <4>4, <4>5
    <3>4. CASE PageStep("animate", [session EXCEPT !.anim = 2])
      <4>1. PICK b : b = [session EXCEPT !.anim = 2] /\ b = session'
        BY <3>4 DEF PageStep
      <4> QED BY <2>d, <3>1, <4>1
    <3>5. CASE \E pos \in Scrolls : PageStep("pagescroll", [session EXCEPT !.wantScroll = pos])
      <4>1. PICK pos, b : b = [session EXCEPT !.wantScroll = pos] /\ b = session'
        BY <3>5 DEF PageStep
      <4> QED BY <2>d, <3>1, <4>1
    <3>6. CASE PageStep("pagenav", [session EXCEPT !.wantNav = TRUE])
      <4>1. PICK b : b = [session EXCEPT !.wantNav = TRUE] /\ b = session'
        BY <3>6 DEF PageStep
      <4> QED BY <2>d, <3>1, <4>1
    <3> QED BY <3>2, <3>3, <3>4, <3>5, <3>6 DEF PageWork
  <2>4. t.gen >= session.gen /\ Continues(H, H, session.gen)
    BY <2>2, <2>3, SameHistory
  <2>5. PICK o : o = World
    OBVIOUS
  <2>6. /\ IsWorld(o) /\ LastLoad(o.jobs)
        /\ \A i \in 1..Len(o.jobs) : JobFits(o.jobs[i], o.v.load, o.v.opened)
    BY <2>1, <2>5 DEF Fits
  <2>7. Fits(o, session, H)
    BY <2>1, <2>5
  <2>8. Fits(o, t, H)
    <3>1. NoLoads(o.jobs) => NoLoads(o.jobs) /\ t.page = session.page
      BY <2>3
    <3>2. \A i \in 1..Len(o.idles) :
             \/ i \in 1..Len(o.idles) /\ o.idles[i] = o.idles[i]
             \/ ResultFits(o.idles[i], o.v.load, t, H, o.jobs)
      OBVIOUS
    <3> QED BY <2>3, <2>4, <2>6, <2>7, <3>1, <3>2, GrowsFits
  <2>9. Fits(World', session', H)
    BY <1>w, <2>3, <2>5, <2>8, Zenon
  <2>10. Shown(view)' /\ {"load", "frame", "opened"} \subseteq DOMAIN view'
    BY <1>v DEF Framed, Shown
  <2> QED BY <1>c, <2>9, <2>10, Zenon DEF Framed
<1> QED BY <1>1, <1>2

\* At the start there is no frame, no page and nothing under way.
LEMMA FramedInit == ASSUME ViewInit PROVE Framed
<1>c. Counted
  BY CountedInit
<1>1. PICK size \in Sizes :
        view = [opened |-> FALSE, loading |-> FALSE, closed |-> FALSE, load |-> 0,
                redirects |-> 0, deferred |-> FALSE, size |-> size, lastVp |-> 0,
                scroll |-> 0, frame |-> NoFrame, forceFull |-> FALSE,
                armed |-> FALSE, inflight |-> FALSE, pending |-> FALSE,
                vpInflight |-> FALSE, vpPending |-> FALSE, asking |-> FALSE,
                stopped |-> FALSE]
  BY DEF ViewInit
<1>2. /\ {"load", "frame", "opened"} \subseteq DOMAIN view
      /\ view.closed = FALSE /\ view.opened = FALSE /\ view.frame = NoFrame
  BY <1>1
<1>3. /\ {"page", "valid", "fb", "gen"} \subseteq DOMAIN session
      /\ session.valid = FALSE /\ session.gen = 0
  BY DEF ViewInit
<1>4. jobs = <<>> /\ idles = <<>>
  BY DEF ViewInit
<1>5. PICK H : H = [n \in Nat |-> session.fb]
  OBVIOUS
<1>6. SessionFits(session, H)
  BY <1>3, <1>5 DEF SessionFits
<1>7. PICK w : w = World /\ w.v = view /\ w.jobs = jobs /\ w.idles = idles /\ IsWorld(w)
  BY <1>c DEF World, Counted
<1>8. Len(w.jobs) = 0 /\ Len(w.idles) = 0
  BY <1>4, <1>7, EmptySeq
<1>9. \A i \in 1..0 : FALSE
  OBVIOUS
<1>10. Fits(w, session, H)
  <2>1. FrameFits(w.v, session.gen, H)
    BY <1>2, <1>7 DEF FrameFits
  <2>2. LastLoad(w.jobs)
    BY <1>8, <1>9 DEF LastLoad
  <2> QED BY <1>2, <1>6, <1>7, <1>8, <1>9, <2>1, <2>2 DEF Fits
<1>11. Fits(World, session, H)
  BY <1>7, <1>10, Zenon
<1> QED BY <1>c, <1>2, <1>11 DEF Framed, Shown

\* The invariant is inductive, and the results of old clicks are ignored on the way.
LEMMA FramedStep ==
  ASSUME Framed, [ViewNext]_vars PROVE Framed' /\ StaleIgnored({"click"})
<1>0. Len(idles) \in Nat
  BY QueueLength DEF Framed, Counted, IsWorld, World
<1>a. ASSUME Len(idles') = Len(idles) PROVE StaleIgnored({"click"})
  BY <1>0, <1>a DEF StaleIgnored
<1>b. ASSUME view' = view PROVE StaleIgnored({"click"})
  BY <1>b DEF StaleIgnored
<1>1. CASE User
  BY <1>1, <1>a, HandlerFramed, AskSaveFramed, SaveAnsweredFramed, DestroyFramed DEF User
<1>2. CASE AnimTick BY <1>2, <1>a, TickFramed
<1>3. CASE Deliver BY <1>3, DeliverFramed
<1>4. CASE RunJob BY <1>4, <1>b, RunJobFramed
<1>5. CASE SessionWake
  <2>1. view' = view BY <1>5 DEF SessionWake
  <2> QED BY <1>5, <1>b, <2>1, SessionWakeFramed
<1>6. CASE PageWork
  <2>1. view' = view BY <1>6 DEF PageWork, PageStep
  <2> QED BY <1>6, <1>b, <2>1, PageWorkFramed
<1>7. CASE UNCHANGED vars
  <2>1. view' = view /\ session' = session /\ World' = World
    BY <1>7 DEF vars, World
  <2>2. Framed'
    BY <2>1 DEF Framed, Counted, Shown
  <2> QED BY <1>b, <2>1, <2>2
<1> QED BY <1>1, <1>2, <1>3, <1>4, <1>5, <1>6, <1>7 DEF ViewNext

\* Whatever copies and patches the view has taken, dropped or asked for again,
\* its pixels are what the engine had in its frame of that generation
\* (apply_patch in procview.c, ns_page_session_render), for any tiles, sizes,
\* positions, redirects, navigations and events.
THEOREM FramesAreFaithful == ViewSpec => []FrameFaithful
<1>1. ViewInit => Framed
  BY FramedInit
<1>2. Framed /\ [ViewNext]_vars => Framed'
  BY FramedStep
<1>3. Framed => FrameFaithful
  BY DEF Framed, Shown, FrameFaithful, NoFrame
<1> QED BY <1>1, <1>2, <1>3, PTL DEF ViewSpec

\* A view shows nothing of a page it navigated away from: do_load outdates what
\* is under way, and a patch of the old page does not fit the new one's frame.
THEOREM FramesAreOfThisPage == ViewSpec => []FrameOfThisPage
<1>1. ViewInit => Framed
  BY FramedInit
<1>2. Framed /\ [ViewNext]_vars => Framed'
  BY FramedStep
<1>3. Framed => FrameOfThisPage
  BY DEF Framed, Shown, FrameOfThisPage, NoFrame
<1> QED BY <1>1, <1>2, <1>3, PTL DEF ViewSpec

\* The part of do_load's promise that holds: no click made on a page the user has
\* navigated away from starts another navigation.  (A release may: the run
\* view_release shows it.)
THEOREM StaleClicksIgnored == ViewSpec => [][StaleIgnored({"click"})]_vars
<1>1. ViewInit => Framed
  BY FramedInit
<1>2. Framed /\ [ViewNext]_vars => Framed'
  BY FramedStep
<1>3. Framed /\ [ViewNext]_vars => [StaleIgnored({"click"})]_vars
  BY FramedStep
<1> QED BY <1>1, <1>2, <1>3, PTL DEF ViewSpec

=============================================================================
