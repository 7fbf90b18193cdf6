-------------------------- MODULE ViewRestProofs --------------------------
(***************************************************************************)
(* What a view waits for comes, as far as safety goes, for any numbers of  *)
(* tiles, positions, sizes, redirects, navigations and events.             *)
(*                                                                         *)
(* Its rest: what came while a render or a viewport request was under way  *)
(* is not lost.  Each step keeps a world that is Fresh: the one render and *)
(* the one viewport change under way are Placed with the requests or with  *)
(* the results, and what the view will show once they have come is due.    *)
(* And its world Heeds the session: the one wake that the session posts    *)
(* until it renders again is still to come, or the frame clock is armed.   *)
(*                                                                         *)
(* Its requests: it Awaits nothing whose answer is not under way.          *)
(***************************************************************************)
EXTENDS ViewProtocolProofs

-----------------------------------------------------------------------------
(* At rest: that nothing which came while a request was under way is lost. *)
(*                                                                         *)
(* While a page is open and no frame was given up by a stop, at most one   *)
(* message in the two queues is about a render, and at most one about the  *)
(* viewport, both current.  So each is at one of three places: none, with  *)
(* the requests (job) or with the results (result).                        *)

\* No message of a kind; one only.
Nil(q, k) == \A i \in 1..Len(q) : q[i].kind # k
One(q, k, m) ==
  \E i \in 1..Len(q) : q[i] = m /\ \A x \in 1..Len(q) : x # i => q[x].kind # k

Placed(w, k, at, m) ==
  \/ at = "none" /\ Nil(w.jobs, k) /\ Nil(w.idles, k)
  \/ at = "job" /\ One(w.jobs, k, m) /\ Nil(w.idles, k) /\ m.kind = k /\ m.cur
  \/ at = "result" /\ Nil(w.jobs, k) /\ One(w.idles, k, m) /\ m.kind = k /\ m.cur

\* The engine's frame is of its page, but for what is damaged.
Depicts(s, z, c, t) ==
  /\ s.fb = [load |-> s.page, vp |-> s.vp, size |-> z, scroll |-> c, tiles |-> t]
  /\ t = [x \in Tiles |-> t[x]]
  /\ \A x \in Tiles \ s.dirty : t[x] = s.tiles[x]
Accurate(s) == \E z, c, t : Depicts(s, z, c, t)

SFields == {"alive", "page", "vp", "tiles", "dirty", "damageFull", "repaint", "anim",
            "wantScroll", "wantNav", "valid", "fb", "gen", "wakePosted"}

SessionFresh(s) ==
  /\ SFields \subseteq DOMAIN s
  /\ s.tiles = [t \in Tiles |-> s.tiles[t]]
  /\ s.dirty \subseteq Tiles
  /\ s.dirty # {} => s.repaint
  /\ s.anim \in Nat
  /\ s.valid => Accurate(s)

\* Before a page is open: the load that is current is the last to touch the
\* session, and its result comes behind what is left of the page before.
Heavy == {"load", "render", "viewport"}
Light(q) == \A i \in 1..Len(q) : q[i].kind \notin Heavy
LoadsAreLast(q, size) ==
  \A i \in 1..Len(q) : q[i].kind = "load" /\ q[i].cur =>
    /\ q[i].size = size
    /\ \A x \in 1..Len(q) : x > i => q[x].kind \notin Heavy
LoadsCome(p, q, laid) ==
  \A i \in 1..Len(p) : p[i].kind = "load" /\ p[i].cur =>
    /\ Light(q)
    /\ \A x \in 1..Len(p) : x > i => p[x].kind \notin {"render", "viewport"}
    /\ p[i].outcome # "fail" => laid

Laid(v, s) == ~s.valid /\ s.vp = v.lastVp

Waiting(w, s) ==
  /\ ~w.v.inflight /\ ~w.v.vpInflight
  /\ LoadsAreLast(w.jobs, w.v.lastVp)
  /\ LoadsCome(w.idles, w.jobs, Laid(w.v, s))

\* Once it is open: the view knows what is under way,
Have(v, s) == v.frame.gen = s.gen
Known(v, s, ra, rm) ==
  /\ ra = "none" => Have(v, s) \/ ~s.valid \/ v.forceFull
  /\ ra = "job" => Have(v, s) \/ ~s.valid \/ rm.full
  /\ ra = "result" => rm.ok /\ rm.gen = s.gen /\ (rm.has \in {"full", "patch"} \/ Have(v, s))
Flows(v, s, ra, rm, va, vm) ==
  /\ v.inflight = (ra # "none") /\ v.vpInflight = (va # "none")
  /\ va = "result" => vm.ok
  /\ Known(v, s, ra, rm)
Going(w, s, ra, rm, va, vm) ==
  /\ w.v.opened
  /\ Placed(w, "render", ra, rm) /\ Placed(w, "viewport", va, vm)
  /\ Flows(w.v, s, ra, rm, va, vm)

\* the page is laid out for the size it last asked for, or will be,
Arranged(v, s, va, vm) ==
  \/ v.vpPending /\ va # "none"
  \/ va = "job" /\ vm.size = v.lastVp
  \/ va # "job" /\ s.vp = v.lastVp
Sized(v) == v.size = 0 \/ v.lastVp = v.size

\* and what it shows is up to date, or will be once what is under way has come.
Settled(v, s, ra, rm) ==
  /\ ra = "none" => Have(v, s) /\ Accurate(s) /\ s.fb.scroll = v.scroll /\ s.fb.size = v.size
  /\ ra = "job" => rm.scroll = v.scroll /\ rm.size = v.size
  /\ ra = "result" => /\ Accurate(s) /\ s.fb.size = v.size
                      /\ s.fb.scroll = IF rm.scroll = None THEN v.scroll ELSE rm.scroll
AtPeace(v, s, ra, rm) ==
  (v.pending /\ ra # "none") \/ v.vpInflight \/ Settled(v, s, ra, rm)

Good(w, s, ra, rm, va, vm) ==
  /\ Going(w, s, ra, rm, va, vm)
  /\ Arranged(w.v, s, va, vm) /\ Sized(w.v) /\ AtPeace(w.v, s, ra, rm)

VFields == {"closed", "load", "opened", "stopped", "size", "lastVp", "scroll", "frame",
            "forceFull", "inflight", "pending", "vpInflight", "vpPending"}

Ready(w) ==
  /\ IsWorld(w) /\ ~w.v.closed
  /\ VFields \subseteq DOMAIN w.v
  /\ w.v.load \in Nat /\ w.v.size \in Nat

Fresh(w, s) ==
  /\ Ready(w) /\ SessionFresh(s)
  /\ ~w.v.opened => Waiting(w, s)
  /\ w.v.opened /\ ~w.v.stopped => \E ra, rm, va, vm : Good(w, s, ra, rm, va, vm)

-----------------------------------------------------------------------------
(* The one message of a kind *)

\* A queue and one more message.
LEMMA Appended ==
  ASSUME NEW q, NEW K, IsQueue(q, K), NEW m
  PROVE  /\ Len(q) \in Nat /\ Len(Append(q, m)) = Len(q) + 1
         /\ \A i \in 1..Len(q) : Append(q, m)[i] = q[i]
         /\ Append(q, m)[Len(q) + 1] = m
<1>1. PICK S : q \in Seq(S) /\ m \in S
  <2> DEFINE S == {q[i] : i \in DOMAIN q} \cup {m}
  <2>1. q \in [1..Len(q) -> S] /\ Len(q) \in Nat
    BY QueueLength DEF IsQueue
  <2>2. q \in Seq(S) /\ m \in S BY <2>1, SeqDef
  <2> QED BY <2>2
<1>2. Len(q) \in Nat /\ Len(Append(q, m)) = Len(q) + 1
  BY <1>1
<1>3. \A i \in 1..(Len(q) + 1) : Append(q, m)[i] = IF i <= Len(q) THEN q[i] ELSE m
  BY <1>1
<1> QED BY <1>2, <1>3

\* A queue without its first message.
LEMMA Tailed ==
  ASSUME NEW q, NEW K, IsQueue(q, K), q # <<>>
  PROVE  /\ Len(q) \in Nat \ {0} /\ Len(Tail(q)) = Len(q) - 1
         /\ \A i \in 1..Len(Tail(q)) : Tail(q)[i] = q[i + 1]
         /\ Head(q) = q[1]
<1>1. PICK S : q \in Seq(S)
  BY DEF IsQueue
<1>2. Len(q) \in Nat \ {0} /\ Len(Tail(q)) = Len(q) - 1
  BY <1>1
<1> QED BY <1>1, <1>2

\* A message is posted.
LEMMA AppendKind ==
  ASSUME NEW q, NEW K, IsQueue(q, K), NEW m, NEW k
  PROVE  /\ Nil(q, k) /\ m.kind # k => Nil(Append(q, m), k)
         /\ Nil(q, k) /\ m.kind = k => One(Append(q, m), k, m)
         /\ \A n : One(q, k, n) /\ m.kind # k => One(Append(q, m), k, n)
<1>1. PICK o, l : o = Append(q, m) /\ l = Len(q)
  OBVIOUS
<1>2. l \in Nat /\ Len(o) = l + 1 /\ (\A i \in 1..l : o[i] = q[i]) /\ o[l + 1] = m
  BY <1>1, Appended
<1>3. \A i \in 1..Len(o) : i \in 1..l \/ i = l + 1
  BY <1>2
<1>4. 1..l \subseteq 1..Len(o) /\ l + 1 \in 1..Len(o) /\ l + 1 \notin 1..l
  BY <1>2
<1>5. Nil(q, k) /\ m.kind # k => Nil(o, k)
  BY <1>1, <1>2, <1>3 DEF Nil
<1>6. Nil(q, k) /\ m.kind = k => One(o, k, m)
  BY <1>1, <1>2, <1>3, <1>4 DEF Nil, One
<1>7. ASSUME NEW n, One(q, k, n), m.kind # k PROVE One(o, k, n)
  <2>1. PICK i \in 1..l : q[i] = n /\ \A x \in 1..l : x # i => q[x].kind # k
    BY <1>1, <1>7 DEF One
  <2>2. \A x \in 1..Len(o) : x # i => o[x].kind # k
    BY <1>2, <1>3, <1>7, <2>1
  <2> QED BY <1>2, <1>4, <2>1, <2>2 DEF One
<1> QED BY <1>1, <1>5, <1>6, <1>7

\* The first message leaves.
LEMMA TailKind ==
  ASSUME NEW q, NEW K, IsQueue(q, K), q # <<>>, NEW k
  PROVE  /\ Nil(q, k) => Nil(Tail(q), k) /\ Head(q).kind # k
         /\ \A n : One(q, k, n) /\ n.kind = k =>
              \/ Head(q) = n /\ Nil(Tail(q), k)
              \/ Head(q).kind # k /\ One(Tail(q), k, n)
<1>1. PICK o, l : o = Tail(q) /\ l = Len(q)
  OBVIOUS
<1>2. l \in Nat \ {0} /\ Len(o) = l - 1 /\ (\A i \in 1..Len(o) : o[i] = q[i + 1]) /\ Head(q) = q[1]
  BY <1>1, Tailed
<1>3. \A i \in 1..Len(o) : i + 1 \in 1..l /\ i + 1 # 1
  BY <1>2
<1>4. 1 \in 1..l
  BY <1>2
<1>5. Nil(q, k) => Nil(o, k) /\ Head(q).kind # k
  BY <1>1, <1>2, <1>3, <1>4 DEF Nil
<1>6. ASSUME NEW n, One(q, k, n), n.kind = k
      PROVE  (Head(q) = n /\ Nil(o, k)) \/ (Head(q).kind # k /\ One(o, k, n))
  <2>1. PICK i \in 1..l : q[i] = n /\ \A x \in 1..l : x # i => q[x].kind # k
    BY <1>1, <1>6 DEF One
  <2>2. CASE i = 1
    <3>1. Nil(o, k)
      BY <1>2, <1>3, <2>1, <2>2 DEF Nil
    <3> QED BY <1>2, <2>1, <2>2, <3>1
  <2>3. CASE i # 1
    <3>1. PICK j : j = i - 1 /\ j \in 1..Len(o) /\ j + 1 = i
      BY <1>2, <2>3
    <3>2. o[j] = n
      BY <1>2, <2>1, <3>1
    <3>3. ASSUME NEW x \in 1..Len(o), x # j PROVE o[x].kind # k
      <4>1. x + 1 \in 1..l /\ x + 1 # i
        BY <1>3, <3>1, <3>3
      <4> QED BY <1>2, <2>1, <4>1
    <3>4. One(o, k, n)
      BY <3>1, <3>2, <3>3 DEF One
    <3> QED BY <1>2, <1>4, <2>1, <2>3, <3>4
  <2> QED BY <2>2, <2>3
<1> QED BY <1>1, <1>5, <1>6

\* Sequence numbers of other kinds are raised.
LEMMA OutdatedKind ==
  ASSUME NEW q, NEW K, IsQueue(q, K), NEW kinds, NEW k
  PROVE  /\ Nil(q, k) => Nil(Outdated(q, kinds), k)
         /\ k \notin kinds => \A n : One(q, k, n) /\ n.kind = k => One(Outdated(q, kinds), k, n)
<1>1. PICK o, l : o = Outdated(q, kinds) /\ l = Len(q)
  OBVIOUS
<1>2. Len(o) = l /\ IsQueue(o, K) /\ DOMAIN q = 1..l
  BY <1>1, OutdatedQueue, QueueLength
<1>3. \A i \in 1..l : o[i] = IF q[i].kind \in kinds THEN [q[i] EXCEPT !.cur = FALSE] ELSE q[i]
  BY <1>1, <1>2 DEF Outdated
<1>4. ASSUME NEW i \in 1..l PROVE o[i].kind = q[i].kind /\ (q[i].kind \notin kinds => o[i] = q[i])
  <2>1. PICK m : m = q[i] /\ "kind" \in DOMAIN m
    BY <1>1 DEF IsQueue
  <2>2. [m EXCEPT !.cur = FALSE].kind = m.kind
    BY <2>1
  <2> QED BY <1>3, <2>1, <2>2
<1>5. Nil(q, k) => Nil(o, k)
  BY <1>1, <1>2, <1>4 DEF Nil
<1>6. ASSUME k \notin kinds, NEW n, One(q, k, n), n.kind = k PROVE One(o, k, n)
  <2>1. PICK i \in 1..l : q[i] = n /\ \A x \in 1..l : x # i => q[x].kind # k
    BY <1>1, <1>6 DEF One
  <2>2. o[i] = n /\ \A x \in 1..l : x # i => o[x].kind # k
    BY <1>4, <1>6, <2>1
  <2> QED BY <1>2, <2>2 DEF One
<1> QED BY <1>1, <1>5, <1>6

-----------------------------------------------------------------------------
(* Worlds whose messages have their places *)

\* The same world but for some fields of the view.
SameBut(w, o, F) == \A f \in VFields \ F : o.v[f] = w.v[f]

Tweaked(w, o, F) ==
  Ready(o) /\ o.jobs = w.jobs /\ o.idles = w.idles /\ SameBut(w, o, F)

Firm == {"closed", "asking", "load", "size"}

\* Places depend on the queues only.
LEMMA SamePlaces ==
  ASSUME NEW w, NEW o, o.jobs = w.jobs, o.idles = w.idles,
         NEW k, NEW at, NEW m, Placed(w, k, at, m)
  PROVE  Placed(o, k, at, m)
BY DEF Placed

\* One field of the view.
LEMMA FieldReady ==
  ASSUME NEW w, Ready(w), NEW f, f \notin Firm, NEW e,
         NEW o, o = [w EXCEPT !.v = [w.v EXCEPT ![f] = e]]
  PROVE  Tweaked(w, o, {f})
<1>1. IsWorld(w) /\ {"v", "jobs", "idles", "refs"} \subseteq DOMAIN w /\ VFields \subseteq DOMAIN w.v
  BY DEF Ready, IsWorld
<1>2. /\ o.jobs = w.jobs /\ o.idles = w.idles /\ o.refs = w.refs /\ DOMAIN o = DOMAIN w
      /\ o.v = [w.v EXCEPT ![f] = e]
  BY <1>1
<1>3. PICK v, u : v = w.v /\ u = o.v
  OBVIOUS
<1>4. u = [v EXCEPT ![f] = e] /\ VFields \subseteq DOMAIN v /\ {"closed", "asking"} \subseteq DOMAIN v
  BY <1>1, <1>2, <1>3 DEF IsWorld
<1>5. DOMAIN u = DOMAIN v /\ (\A x \in DOMAIN v : x # f => u[x] = v[x]) /\ (f \in DOMAIN v => u[f] = e)
  BY <1>4
<1>6. u.closed = v.closed /\ u.asking = v.asking
  BY <1>4, <1>5 DEF Firm
<1>7. IsWorld(o)
  BY <1>1, <1>2, <1>3, <1>5, <1>6 DEF IsWorld
<1>8. \A x \in VFields \ {f} : u[x] = v[x]
  BY <1>4, <1>5
<1>9. u.load = v.load /\ u.size = v.size
  BY <1>8 DEF VFields, Firm
<1>10. Ready(o)
  BY <1>3, <1>4, <1>5, <1>6, <1>7, <1>9 DEF Ready
<1> QED BY <1>2, <1>3, <1>8, <1>10 DEF SameBut, Tweaked

\* SameBut is transitive.
LEMMA SameButTwice ==
  ASSUME NEW w, NEW o, NEW p, NEW F, NEW G, SameBut(w, o, F), SameBut(o, p, G)
  PROVE  SameBut(w, p, F \cup G)
BY DEF SameBut

\* Raising sequence numbers of other kinds, or of what is nowhere.
LEMMA OutdateReady ==
  ASSUME NEW w, Ready(w), NEW kinds
  PROVE  /\ Ready(Outdate(w, kinds)) /\ Outdate(w, kinds).v = w.v
         /\ \A k, at, m : Placed(w, k, at, m) /\ (k \notin kinds \/ at = "none") =>
              Placed(Outdate(w, kinds), k, at, m)
<1>1. PICK o : o = Outdate(w, kinds)
  OBVIOUS
<1>2. IsWorld(w)
  BY DEF Ready
<1>3. IsWorld(o) /\ o.v = w.v
  BY <1>1, <1>2, OutdateSame DEF Same
<1>4. o.jobs = Outdated(w.jobs, kinds) /\ o.idles = Outdated(w.idles, kinds)
  BY <1>1, <1>2 DEF Outdate, IsWorld
<1>5. Ready(o)
  BY <1>3 DEF Ready
<1>6. ASSUME NEW k, NEW at, NEW m, Placed(w, k, at, m), k \notin kinds \/ at = "none"
      PROVE  Placed(o, k, at, m)
  <2>1. PICK q, p : q = w.jobs /\ p = w.idles /\ IsQueue(q, Requests) /\ IsQueue(p, Results)
    BY <1>2 DEF IsWorld
  <2>2. /\ Nil(q, k) => Nil(Outdated(q, kinds), k)
        /\ k \notin kinds => \A n : One(q, k, n) /\ n.kind = k => One(Outdated(q, kinds), k, n)
    BY <2>1, OutdatedKind
  <2>3. /\ Nil(p, k) => Nil(Outdated(p, kinds), k)
        /\ k \notin kinds => \A n : One(p, k, n) /\ n.kind = k => One(Outdated(p, kinds), k, n)
    BY <2>1, OutdatedKind
  <2> QED BY <1>4, <1>6, <2>1, <2>2, <2>3 DEF Placed
<1> QED BY <1>1, <1>3, <1>5, <1>6

\* push_req on an open view.
LEMMA PushReady ==
  ASSUME NEW w, Ready(w), NEW m, IsMessage(m, Requests)
  PROVE  /\ Ready(PushReq(w, m)) /\ PushReq(w, m).v = w.v
         /\ PushReq(w, m).jobs = Append(w.jobs, m) /\ PushReq(w, m).idles = w.idles
         /\ \A k, at, n : Placed(w, k, at, n) /\ m.kind # k => Placed(PushReq(w, m), k, at, n)
         /\ \A n : Placed(w, m.kind, "none", n) /\ m.cur => Placed(PushReq(w, m), m.kind, "job", m)
<1>1. PICK o : o = PushReq(w, m)
  OBVIOUS
<1>2. IsWorld(w) /\ ~w.v.closed
  BY DEF Ready
<1>3. IsWorld(o) /\ o.v = w.v
  BY <1>1, <1>2, PushReqSame DEF Same
<1>4. o.jobs = Append(w.jobs, m) /\ o.idles = w.idles
  BY <1>1, <1>2 DEF PushReq, IsWorld
<1>5. Ready(o)
  BY <1>3 DEF Ready
<1>6. PICK q : q = w.jobs /\ IsQueue(q, Requests)
  BY <1>2 DEF IsWorld
<1>7. ASSUME NEW k, NEW at, NEW n, Placed(w, k, at, n), m.kind # k
      PROVE  Placed(o, k, at, n)
  <2>1. Nil(q, k) => Nil(Append(q, m), k)
    BY <1>6, <1>7, AppendKind
  <2>2. One(q, k, n) => One(Append(q, m), k, n)
    BY <1>6, <1>7, AppendKind
  <2> QED BY <1>4, <1>6, <1>7, <2>1, <2>2 DEF Placed
<1>8. ASSUME NEW n, Placed(w, m.kind, "none", n), m.cur
      PROVE  Placed(o, m.kind, "job", m)
  <2>1. PICK k : k = m.kind
    OBVIOUS
  <2>2. Nil(q, k) /\ Nil(w.idles, k)
    BY <1>6, <1>8, <2>1 DEF Placed
  <2>3. One(Append(q, m), k, m)
    BY <1>6, <2>1, <2>2, AppendKind
  <2> QED BY <1>4, <1>6, <1>8, <2>1, <2>2, <2>3 DEF Placed
<1> QED BY <1>1, <1>3, <1>4, <1>5, <1>7, <1>8

\* Fields that do not say what is under way.
LEMMA FieldGoes ==
  ASSUME NEW w, NEW s, NEW ra, NEW rm, NEW va, NEW vm, Ready(w),
         Going(w, s, ra, rm, va, vm),
         NEW o, NEW F, Tweaked(w, o, F),
         F \subseteq {"load", "stopped", "size", "lastVp", "scroll", "vpPending"}
  PROVE  Going(o, s, ra, rm, va, vm)
<1>1. /\ o.v.opened = w.v.opened /\ o.v.frame = w.v.frame /\ o.v.forceFull = w.v.forceFull
      /\ o.v.inflight = w.v.inflight /\ o.v.vpInflight = w.v.vpInflight
  BY DEF Tweaked, SameBut, VFields
<1>2. Placed(o, "render", ra, rm) /\ Placed(o, "viewport", va, vm)
  BY SamePlaces DEF Going, Tweaked
<1> QED BY <1>1, <1>2 DEF Going, Flows, Known, Have

\* What the places are right for stays so.
LEMMA ArrangedKept ==
  ASSUME NEW w, NEW o, NEW F, SameBut(w, o, F), NEW s, NEW va, NEW vm,
         F \cap {"lastVp", "size", "vpPending"} = {}
  PROVE  /\ Arranged(w.v, s, va, vm) => Arranged(o.v, s, va, vm)
         /\ Sized(w.v) => Sized(o.v)
<1>1. o.v.lastVp = w.v.lastVp /\ o.v.size = w.v.size /\ o.v.vpPending = w.v.vpPending
  BY DEF SameBut, VFields
<1> QED BY <1>1 DEF Arranged, Sized

-----------------------------------------------------------------------------
(* What the parts of a handler keep going *)

\* start_render, when none is under way.
LEMMA StartRenderGoes ==
  ASSUME NEW w, Ready(w)
  PROVE  /\ Ready(StartRender(w)) /\ SameBut(w, StartRender(w), {"inflight", "forceFull"})
         /\ ~w.v.opened => StartRender(w) = w
         /\ \A s, rm, va, vm : Going(w, s, "none", rm, va, vm) =>
              \E m : /\ Going(StartRender(w), s, "job", m, va, vm)
                     /\ AtPeace(StartRender(w).v, s, "job", m)
<1>0. CASE ~w.v.opened
  <2>1. StartRender(w) = w BY <1>0 DEF StartRender
  <2> QED BY <1>0, <2>1 DEF SameBut, Going
<1> SUFFICES ASSUME w.v.opened
             PROVE  /\ Ready(StartRender(w))
                    /\ SameBut(w, StartRender(w), {"inflight", "forceFull"})
                    /\ \A s, rm, va, vm : Going(w, s, "none", rm, va, vm) =>
                         \E m : /\ Going(StartRender(w), s, "job", m, va, vm)
                                /\ AtPeace(StartRender(w).v, s, "job", m)
  BY <1>0
<1>1. PICK a : a = Outdate(w, {"render"}) /\ Ready(a) /\ a.v = w.v
  BY OutdateReady
<1>2. PICK b : b = [a EXCEPT !.v = [a.v EXCEPT !["inflight"] = TRUE]]
  OBVIOUS
<1>f. "inflight" \notin Firm /\ "forceFull" \notin Firm
  BY DEF Firm
<1>3. Tweaked(a, b, {"inflight"}) /\ b.v.inflight = TRUE
  <2>1. b.v.inflight = TRUE
    BY <1>1, <1>2 DEF Ready, IsWorld, VFields
  <2>2. Tweaked(a, b, {"inflight"})
    BY <1>1, <1>2, <1>f, FieldReady
  <2> QED BY <2>1, <2>2
<1>4. PICK c : c = [b EXCEPT !.v = [b.v EXCEPT !["forceFull"] = FALSE]]
  OBVIOUS
<1>5. Tweaked(b, c, {"forceFull"})
  BY <1>3, <1>4, <1>f, FieldReady DEF Tweaked
<1>6. SameBut(w, c, {"inflight", "forceFull"}) /\ c.v.inflight = TRUE
  BY <1>1, <1>3, <1>5 DEF Tweaked, SameBut, VFields
<1>8. c = [a EXCEPT !.v.inflight = TRUE, !.v.forceFull = FALSE]
  BY <1>1, <1>2, <1>4 DEF Ready, IsWorld
<1>9. PICK m : m = [kind |-> "render", cur |-> TRUE, size |-> w.v.size,
                    scroll |-> w.v.scroll, full |-> w.v.forceFull]
  OBVIOUS
<1>10. /\ m.kind = "render" /\ m.cur /\ IsMessage(m, Requests)
       /\ m.size = w.v.size /\ m.scroll = w.v.scroll /\ m.full = w.v.forceFull
  BY <1>9 DEF IsMessage, Requests
<1>11. PICK o : o = PushReq(c, m) /\ o = StartRender(w)
  <2>1. StartRender(w) = PushReq([a EXCEPT !.v.inflight = TRUE, !.v.forceFull = FALSE], m)
    BY <1>1, <1>9 DEF StartRender
  <2> QED BY <1>8, <2>1
<1>12. Ready(o) /\ o.v = c.v
  <2>1. Ready(PushReq(c, m)) /\ PushReq(c, m).v = c.v
    BY <1>5, <1>10, PushReady DEF Tweaked
  <2> QED BY <1>11, <2>1
<1>13. SameBut(w, o, {"inflight", "forceFull"})
  BY <1>6, <1>12 DEF SameBut
<1>14. /\ o.v.opened = w.v.opened /\ o.v.frame = w.v.frame /\ o.v.inflight = TRUE
       /\ o.v.vpInflight = w.v.vpInflight /\ o.v.scroll = w.v.scroll /\ o.v.size = w.v.size
  BY <1>6, <1>12, <1>13 DEF SameBut, VFields
<1>15. ASSUME NEW s, NEW rm, NEW va, NEW vm, Going(w, s, "none", rm, va, vm)
       PROVE  Going(o, s, "job", m, va, vm) /\ AtPeace(o.v, s, "job", m)
  <2>1. Placed(w, "render", "none", rm) /\ Placed(w, "viewport", va, vm)
    BY <1>15 DEF Going
  <2>2. \A k, at, n : Placed(w, k, at, n) /\ (k \notin {"render"} \/ at = "none") =>
              Placed(Outdate(w, {"render"}), k, at, n)
    BY OutdateReady
  <2>3. Placed(a, "render", "none", rm)
    BY <1>1, <2>1, <2>2
  <2>4. Placed(a, "viewport", va, vm)
    BY <1>1, <2>1, <2>2
  <2>5. Placed(c, "render", "none", rm) /\ Placed(c, "viewport", va, vm)
    BY <1>3, <1>5, <2>3, <2>4, SamePlaces DEF Tweaked
  <2>6. Placed(o, "render", "job", m)
    BY <1>5, <1>10, <1>11, <2>5, PushReady DEF Tweaked
  <2>7. Placed(o, "viewport", va, vm)
    BY <1>5, <1>10, <1>11, <2>5, PushReady DEF Tweaked
  <2>8. Going(o, s, "job", m, va, vm)
    BY <1>10, <1>14, <1>15, <2>6, <2>7 DEF Going, Flows, Known, Have
  <2>9. AtPeace(o.v, s, "job", m)
    BY <1>10, <1>14 DEF AtPeace, Settled
  <2> QED BY <2>8, <2>9
<1> QED BY <1>11, <1>12, <1>13, <1>15

\* request_render: whatever the view now shows, a frame of it will be drawn.
LEMMA RequestRenderGoes ==
  ASSUME NEW w, Ready(w)
  PROVE  /\ Ready(RequestRender(w))
         /\ SameBut(w, RequestRender(w), {"inflight", "pending", "forceFull"})
         /\ ~w.v.opened => RequestRender(w) = w
         /\ \A s, ra, rm, va, vm : Going(w, s, ra, rm, va, vm) =>
              \E a, m : /\ Going(RequestRender(w), s, a, m, va, vm)
                        /\ AtPeace(RequestRender(w).v, s, a, m)
<1>0. CASE ~w.v.opened
  <2>1. RequestRender(w) = w BY <1>0 DEF RequestRender
  <2> QED BY <1>0, <2>1 DEF SameBut, Going
<1>1. CASE w.v.opened /\ w.v.inflight
  <2>1. PICK o : o = [w EXCEPT !.v = [w.v EXCEPT !["pending"] = TRUE]]
    OBVIOUS
  <2>2. Tweaked(w, o, {"pending"}) /\ o.v.pending = TRUE
    <3>1. o.v.pending = TRUE
      BY <2>1 DEF Ready, IsWorld, VFields
    <3>2. "pending" \notin Firm
      BY DEF Firm
    <3>3. Tweaked(w, o, {"pending"})
      BY <2>1, <3>2, FieldReady
    <3> QED BY <3>1, <3>3
  <2>3. RequestRender(w) = o
    BY <1>1, <2>1 DEF RequestRender
  <2>4. /\ o.v.opened = w.v.opened /\ o.v.frame = w.v.frame /\ o.v.forceFull = w.v.forceFull
        /\ o.v.inflight = w.v.inflight /\ o.v.vpInflight = w.v.vpInflight
    BY <2>2 DEF Tweaked, SameBut, VFields
  <2>5. ASSUME NEW s, NEW ra, NEW rm, NEW va, NEW vm, Going(w, s, ra, rm, va, vm)
        PROVE  Going(o, s, ra, rm, va, vm) /\ AtPeace(o.v, s, ra, rm)
    <3>1. Placed(o, "render", ra, rm) /\ Placed(o, "viewport", va, vm)
      BY <2>2, <2>5, SamePlaces DEF Going, Tweaked
    <3> QED BY <1>1, <2>2, <2>4, <2>5, <3>1 DEF Going, Flows, Known, Have, AtPeace
  <2>6. SameBut(w, o, {"inflight", "pending", "forceFull"})
    BY <2>2 DEF Tweaked, SameBut
  <2> QED BY <1>1, <2>2, <2>3, <2>5, <2>6 DEF Tweaked
<1>2. CASE w.v.opened /\ ~w.v.inflight
  <2>1. RequestRender(w) = StartRender(w)
    BY <1>2 DEF RequestRender
  <2>2. Ready(StartRender(w)) /\ SameBut(w, StartRender(w), {"inflight", "forceFull"})
    BY StartRenderGoes
  <2>3. ASSUME NEW s, NEW ra, NEW rm, NEW va, NEW vm, Going(w, s, ra, rm, va, vm)
        PROVE  \E m : /\ Going(StartRender(w), s, "job", m, va, vm)
                      /\ AtPeace(StartRender(w).v, s, "job", m)
    <3>1. ra = "none"
      BY <1>2, <2>3 DEF Going, Flows
    <3> QED BY <2>3, <3>1, StartRenderGoes
  <2>4. SameBut(w, StartRender(w), {"inflight", "pending", "forceFull"})
    BY <2>2 DEF SameBut
  <2> QED BY <1>2, <2>1, <2>2, <2>3, <2>4
<1> QED BY <1>0, <1>1, <1>2

\* start_viewport: the page will be laid out for what was asked for last.
LEMMA StartViewportGoes ==
  ASSUME NEW w, Ready(w), NEW size, size = w.v.lastVp
  PROVE  /\ Ready(StartViewport(w, size))
         /\ SameBut(w, StartViewport(w, size), {"vpInflight", "vpPending"})
         /\ ~w.v.opened => StartViewport(w, size) = w
         /\ \A s, ra, rm, va, vm : Going(w, s, ra, rm, va, vm) =>
              \E a, m : /\ Going(StartViewport(w, size), s, ra, rm, a, m)
                        /\ Arranged(StartViewport(w, size).v, s, a, m)
                        /\ AtPeace(StartViewport(w, size).v, s, ra, rm)
<1>0. CASE ~w.v.opened
  <2>1. StartViewport(w, size) = w BY <1>0 DEF StartViewport
  <2> QED BY <1>0, <2>1 DEF SameBut, Going
<1>1. CASE w.v.opened /\ w.v.vpInflight
  <2>1. PICK o : o = [w EXCEPT !.v = [w.v EXCEPT !["vpPending"] = TRUE]]
    OBVIOUS
  <2>2. Tweaked(w, o, {"vpPending"}) /\ o.v.vpPending = TRUE
    <3>1. o.v.vpPending = TRUE
      BY <2>1 DEF Ready, IsWorld, VFields
    <3>2. "vpPending" \notin Firm
      BY DEF Firm
    <3>3. Tweaked(w, o, {"vpPending"})
      BY <2>1, <3>2, FieldReady
    <3> QED BY <3>1, <3>3
  <2>3. StartViewport(w, size) = o
    BY <1>1, <2>1 DEF StartViewport
  <2>4. /\ o.v.opened = w.v.opened /\ o.v.frame = w.v.frame /\ o.v.forceFull = w.v.forceFull
        /\ o.v.inflight = w.v.inflight /\ o.v.vpInflight = w.v.vpInflight
    BY <2>2 DEF Tweaked, SameBut, VFields
  <2>5. ASSUME NEW s, NEW ra, NEW rm, NEW va, NEW vm, Going(w, s, ra, rm, va, vm)
        PROVE  Going(o, s, ra, rm, va, vm) /\ Arranged(o.v, s, va, vm) /\ AtPeace(o.v, s, ra, rm)
    <3>1. Placed(o, "render", ra, rm) /\ Placed(o, "viewport", va, vm)
      BY <2>2, <2>5, SamePlaces DEF Going, Tweaked
    <3> QED BY <1>1, <2>2, <2>4, <2>5, <3>1 DEF Going, Flows, Known, Have, AtPeace, Arranged
  <2>6. SameBut(w, o, {"vpInflight", "vpPending"})
    BY <2>2 DEF Tweaked, SameBut
  <2> QED BY <1>1, <2>2, <2>3, <2>5, <2>6 DEF Tweaked
<1>2. CASE w.v.opened /\ ~w.v.vpInflight
  <2>1. PICK a : a = Outdate(w, {"viewport"}) /\ Ready(a) /\ a.v = w.v
    BY OutdateReady
  <2>2. PICK b : b = [a EXCEPT !.v = [a.v EXCEPT !["vpInflight"] = TRUE]]
    OBVIOUS
  <2>3. Tweaked(a, b, {"vpInflight"}) /\ b.v.vpInflight = TRUE
    <3>1. b.v.vpInflight = TRUE
      BY <2>1, <2>2 DEF Ready, IsWorld, VFields
    <3>2. "vpInflight" \notin Firm
      BY DEF Firm
    <3>3. Tweaked(a, b, {"vpInflight"})
      BY <2>1, <2>2, <3>2, FieldReady
    <3> QED BY <3>1, <3>3
  <2>4. PICK m : m = [kind |-> "viewport", cur |-> TRUE, size |-> size]
    OBVIOUS
  <2>5. m.kind = "viewport" /\ m.cur /\ IsMessage(m, Requests) /\ m.size = size
    BY <2>4 DEF IsMessage, Requests
  <2>6. PICK o : o = PushReq(b, m) /\ o = StartViewport(w, size)
    <3>1. StartViewport(w, size) = PushReq([a EXCEPT !.v.vpInflight = TRUE], m)
      BY <1>2, <2>1, <2>4 DEF StartViewport
    <3>2. b = [a EXCEPT !.v.vpInflight = TRUE]
      BY <2>2
    <3> QED BY <3>1, <3>2
  <2>7. Ready(o) /\ o.v = b.v
    <3>1. Ready(PushReq(b, m)) /\ PushReq(b, m).v = b.v
      BY <2>3, <2>5, PushReady DEF Tweaked
    <3> QED BY <2>6, <3>1
  <2>8. SameBut(w, o, {"vpInflight", "vpPending"})
    BY <2>1, <2>3, <2>7 DEF Tweaked, SameBut
  <2>9. /\ o.v.opened = w.v.opened /\ o.v.frame = w.v.frame /\ o.v.forceFull = w.v.forceFull
        /\ o.v.inflight = w.v.inflight /\ o.v.lastVp = w.v.lastVp /\ o.v.vpInflight = TRUE
    BY <2>3, <2>7, <2>8 DEF SameBut, VFields
  <2>10. ASSUME NEW s, NEW ra, NEW rm, NEW va, NEW vm, Going(w, s, ra, rm, va, vm)
         PROVE  /\ Going(o, s, ra, rm, "job", m) /\ Arranged(o.v, s, "job", m)
                /\ AtPeace(o.v, s, ra, rm)
    <3>0. va = "none"
      BY <1>2, <2>10 DEF Going, Flows
    <3>1. Placed(w, "render", ra, rm) /\ Placed(w, "viewport", "none", vm)
      BY <2>10, <3>0 DEF Going
    <3>2. \A k, at, n : Placed(w, k, at, n) /\ (k \notin {"viewport"} \/ at = "none") =>
                Placed(Outdate(w, {"viewport"}), k, at, n)
      BY OutdateReady
    <3>3. Placed(a, "render", ra, rm)
      BY <2>1, <3>1, <3>2
    <3>4. Placed(a, "viewport", "none", vm)
      BY <2>1, <3>1, <3>2
    <3>5. Placed(b, "render", ra, rm) /\ Placed(b, "viewport", "none", vm)
      BY <2>3, <3>3, <3>4, SamePlaces DEF Tweaked
    <3>6. Placed(o, "viewport", "job", m)
      BY <2>3, <2>5, <2>6, <3>5, PushReady DEF Tweaked
    <3>7. Placed(o, "render", ra, rm)
      BY <2>3, <2>5, <2>6, <3>5, PushReady DEF Tweaked
    <3>8. Going(o, s, ra, rm, "job", m)
      BY <2>9, <2>10, <3>6, <3>7 DEF Going, Flows, Known, Have
    <3> QED BY <2>5, <2>9, <3>8 DEF AtPeace, Arranged
  <2> QED BY <1>2, <2>6, <2>7, <2>8, <2>10
<1> QED BY <1>0, <1>1, <1>2

\* maybe_update_viewport: what was up to date, or will be, stays so.
LEMMA MaybeUpdateViewportGoes ==
  ASSUME NEW w, Ready(w)
  PROVE  /\ Ready(MaybeUpdateViewport(w))
         /\ SameBut(w, MaybeUpdateViewport(w), {"lastVp", "vpInflight", "vpPending"})
         /\ ~w.v.opened => MaybeUpdateViewport(w) = w
         /\ \A s, ra, rm, va, vm : Going(w, s, ra, rm, va, vm) /\ Arranged(w.v, s, va, vm) =>
              \E a, m : /\ Going(MaybeUpdateViewport(w), s, ra, rm, a, m)
                        /\ Arranged(MaybeUpdateViewport(w).v, s, a, m)
                        /\ Sized(MaybeUpdateViewport(w).v)
                        /\ AtPeace(w.v, s, ra, rm) \/ ViewportMoved(w.v) =>
                             AtPeace(MaybeUpdateViewport(w).v, s, ra, rm)
<1>1. CASE ~ViewportMoved(w.v)
  <2>1. MaybeUpdateViewport(w) = w
    BY <1>1 DEF MaybeUpdateViewport
  <2>2. w.v.opened => Sized(w.v)
    BY <1>1 DEF ViewportMoved, Sized, Ready
  <2>3. SameBut(w, w, {"lastVp", "vpInflight", "vpPending"})
    BY DEF SameBut
  <2>4. ASSUME NEW s, NEW ra, NEW rm, NEW va, NEW vm,
               Going(w, s, ra, rm, va, vm) /\ Arranged(w.v, s, va, vm)
        PROVE  /\ Going(w, s, ra, rm, va, vm)
               /\ Arranged(w.v, s, va, vm) /\ Sized(w.v)
               /\ AtPeace(w.v, s, ra, rm) \/ ViewportMoved(w.v) => AtPeace(w.v, s, ra, rm)
    BY <1>1, <2>2, <2>4 DEF Going
  <2> QED BY <2>1, <2>3, <2>4
<1>2. CASE ViewportMoved(w.v)
  <2>1. PICK b : b = [w EXCEPT !.v = [w.v EXCEPT !["lastVp"] = w.v.size]]
    OBVIOUS
  <2>2. Tweaked(w, b, {"lastVp"}) /\ b.v.lastVp = w.v.size
    <3>1. b.v.lastVp = w.v.size
      BY <2>1 DEF Ready, IsWorld, VFields
    <3>2. "lastVp" \notin Firm
      BY DEF Firm
    <3>3. Tweaked(w, b, {"lastVp"})
      BY <2>1, <3>2, FieldReady
    <3> QED BY <3>1, <3>3
  <2>3. PICK o, size : /\ size = w.v.size /\ size = b.v.lastVp
                       /\ o = StartViewport(b, size) /\ o = MaybeUpdateViewport(w)
    <3>1. MaybeUpdateViewport(w) = StartViewport(b, w.v.size)
      BY <1>2, <2>1 DEF MaybeUpdateViewport
    <3> QED BY <2>2, <3>1
  <2>4. Ready(b)
    BY <2>2 DEF Tweaked
  <2>5. /\ Ready(StartViewport(b, size))
        /\ SameBut(b, StartViewport(b, size), {"vpInflight", "vpPending"})
        /\ ~b.v.opened => StartViewport(b, size) = b
        /\ \A s, ra, rm, va, vm : Going(b, s, ra, rm, va, vm) =>
             \E a, m : /\ Going(StartViewport(b, size), s, ra, rm, a, m)
                       /\ Arranged(StartViewport(b, size).v, s, a, m)
                       /\ AtPeace(StartViewport(b, size).v, s, ra, rm)
    BY <2>3, <2>4, StartViewportGoes
  <2>6. SameBut(w, o, {"lastVp", "vpInflight", "vpPending"})
    BY <2>2, <2>3, <2>5 DEF Tweaked, SameBut
  <2>7. Sized(o.v)
    <3>1. o.v.lastVp = b.v.lastVp /\ o.v.size = b.v.size /\ b.v.size = w.v.size
      BY <2>2, <2>3, <2>5 DEF Tweaked, SameBut, VFields
    <3> QED BY <2>2, <3>1 DEF Sized
  <2>8. ASSUME NEW s, NEW ra, NEW rm, NEW va, NEW vm, Going(w, s, ra, rm, va, vm)
        PROVE  \E a, m : /\ Going(o, s, ra, rm, a, m) /\ Arranged(o.v, s, a, m)
                         /\ Sized(o.v) /\ AtPeace(o.v, s, ra, rm)
    <3>1. Going(b, s, ra, rm, va, vm)
      BY <2>2, <2>8, FieldGoes
    <3>2. \E a, m : /\ Going(StartViewport(b, size), s, ra, rm, a, m)
                    /\ Arranged(StartViewport(b, size).v, s, a, m)
                    /\ AtPeace(StartViewport(b, size).v, s, ra, rm)
      BY <2>5, <3>1, Zenon
    <3> QED BY <2>3, <2>7, <3>2, Zenon
  <2>9. w.v.opened
    BY <1>2 DEF ViewportMoved
  <2>10. Ready(o)
    BY <2>3, <2>5
  <2>11. \A s, ra, rm, va, vm : Going(w, s, ra, rm, va, vm) /\ Arranged(w.v, s, va, vm) =>
           \E a, m : /\ Going(o, s, ra, rm, a, m) /\ Arranged(o.v, s, a, m) /\ Sized(o.v)
                     /\ AtPeace(w.v, s, ra, rm) \/ ViewportMoved(w.v) => AtPeace(o.v, s, ra, rm)
    BY <2>8, Zenon
  <2> QED BY <2>3, <2>6, <2>9, <2>10, <2>11
<1> QED BY <1>1, <1>2

\* A scroll.
LEMMA ScrollToGoes ==
  ASSUME NEW w, Ready(w), NEW pos
  PROVE  /\ Ready(ScrollTo(w, pos))
         /\ SameBut(w, ScrollTo(w, pos), {"scroll", "inflight", "pending", "forceFull"})
         /\ ~w.v.opened => /\ ScrollTo(w, pos).jobs = w.jobs /\ ScrollTo(w, pos).idles = w.idles
                           /\ SameBut(w, ScrollTo(w, pos), {"scroll"})
         /\ \A s, ra, rm, va, vm : Going(w, s, ra, rm, va, vm) =>
              \E a, m : /\ Going(ScrollTo(w, pos), s, a, m, va, vm)
                        /\ AtPeace(w.v, s, ra, rm) => AtPeace(ScrollTo(w, pos).v, s, a, m)
<1>1. CASE pos = w.v.scroll
  <2>1. ScrollTo(w, pos) = w
    BY <1>1 DEF ScrollTo
  <2>2. SameBut(w, w, {"scroll", "inflight", "pending", "forceFull"}) /\ SameBut(w, w, {"scroll"})
    BY DEF SameBut
  <2>3. ASSUME NEW s, NEW ra, NEW rm, NEW va, NEW vm, Going(w, s, ra, rm, va, vm)
        PROVE  \E a, m : /\ Going(w, s, a, m, va, vm)
                         /\ AtPeace(w.v, s, ra, rm) => AtPeace(w.v, s, a, m)
    BY <2>3, Zenon
  <2> QED BY <2>1, <2>2, <2>3
<1>2. CASE pos # w.v.scroll
  <2>1. PICK b : b = [w EXCEPT !.v = [w.v EXCEPT !["scroll"] = pos]]
    OBVIOUS
  <2>2. Tweaked(w, b, {"scroll"}) /\ Ready(b)
    <3>1. "scroll" \notin Firm
      BY DEF Firm
    <3>2. Tweaked(w, b, {"scroll"})
      BY <2>1, <3>1, FieldReady
    <3> QED BY <3>2 DEF Tweaked
  <2>3. PICK o : o = RequestRender(b) /\ o = ScrollTo(w, pos)
    BY <1>2, <2>1 DEF ScrollTo
  <2>4. /\ Ready(RequestRender(b))
        /\ SameBut(b, RequestRender(b), {"inflight", "pending", "forceFull"})
        /\ ~b.v.opened => RequestRender(b) = b
        /\ \A s, ra, rm, va, vm : Going(b, s, ra, rm, va, vm) =>
             \E a, m : /\ Going(RequestRender(b), s, a, m, va, vm)
                       /\ AtPeace(RequestRender(b).v, s, a, m)
    BY <2>2, RequestRenderGoes
  <2>5. SameBut(w, o, {"scroll", "inflight", "pending", "forceFull"})
    BY <2>2, <2>3, <2>4 DEF Tweaked, SameBut
  <2>6. b.v.opened = w.v.opened
    BY <2>2 DEF Tweaked, SameBut, VFields
  <2>7. ~w.v.opened => o.jobs = w.jobs /\ o.idles = w.idles /\ SameBut(w, o, {"scroll"})
    BY <2>2, <2>3, <2>4, <2>6 DEF Tweaked
  <2>8. ASSUME NEW s, NEW ra, NEW rm, NEW va, NEW vm, Going(w, s, ra, rm, va, vm)
        PROVE  \E a, m : Going(o, s, a, m, va, vm) /\ AtPeace(o.v, s, a, m)
    <3>1. Going(b, s, ra, rm, va, vm)
      BY <2>2, <2>8, FieldGoes
    <3>2. \E a, m : /\ Going(RequestRender(b), s, a, m, va, vm)
                    /\ AtPeace(RequestRender(b).v, s, a, m)
      BY <2>4, <3>1, Zenon
    <3> QED BY <2>3, <3>2
  <2>9. \A s, ra, rm, va, vm : Going(w, s, ra, rm, va, vm) =>
              \E a, m : /\ Going(o, s, a, m, va, vm)
                        /\ AtPeace(w.v, s, ra, rm) => AtPeace(o.v, s, a, m)
    BY <2>8, Zenon
  <2>10. Ready(o)
    BY <2>3, <2>4
  <2> QED BY <2>3, <2>5, <2>7, <2>9, <2>10
<1> QED BY <1>1, <1>2

-----------------------------------------------------------------------------
(* What the parts of a handler keep fresh *)

\* Fields that freshness does not depend on.
LEMMA SameFresh ==
  ASSUME NEW w, NEW s, Fresh(w, s), NEW o, Tweaked(w, o, {})
  PROVE  Fresh(o, s)
<1>1. /\ o.v.opened = w.v.opened /\ o.v.stopped = w.v.stopped /\ o.v.inflight = w.v.inflight
      /\ o.v.vpInflight = w.v.vpInflight /\ o.v.lastVp = w.v.lastVp /\ o.v.pending = w.v.pending
      /\ o.v.frame = w.v.frame /\ o.v.scroll = w.v.scroll /\ o.v.size = w.v.size
  BY DEF Tweaked, SameBut, VFields
<1>2. Ready(w) /\ Ready(o) /\ o.jobs = w.jobs /\ o.idles = w.idles /\ SameBut(w, o, {})
  BY DEF Tweaked, Fresh
<1>3. ASSUME Waiting(w, s) PROVE Waiting(o, s)
  BY <1>1, <1>2, <1>3 DEF Waiting, Laid
<1>4. ASSUME NEW ra, NEW rm, NEW va, NEW vm, Good(w, s, ra, rm, va, vm)
      PROVE  Good(o, s, ra, rm, va, vm)
  <2>1. Going(o, s, ra, rm, va, vm)
    BY <1>2, <1>4, FieldGoes DEF Good, Tweaked
  <2>2. Arranged(o.v, s, va, vm) /\ Sized(o.v)
    BY <1>2, <1>4, ArrangedKept DEF Good
  <2>3. AtPeace(o.v, s, ra, rm)
    BY <1>1, <1>4 DEF Good, AtPeace, Settled, Have
  <2> QED BY <2>1, <2>2, <2>3 DEF Good
<1> QED BY <1>1, <1>2, <1>3, <1>4 DEF Fresh

\* One of them.
LEMMA FieldFresh ==
  ASSUME NEW w, NEW s, Fresh(w, s), NEW f, f \notin VFields \cup {"asking"}, NEW e,
         NEW o, o = [w EXCEPT !.v = [w.v EXCEPT ![f] = e]]
  PROVE  Fresh(o, s) /\ Tweaked(w, o, {})
<1>1. f \notin Firm /\ Ready(w)
  BY DEF Firm, VFields, Fresh
<1>2. Tweaked(w, o, {f})
  BY <1>1, FieldReady
<1>3. Tweaked(w, o, {})
  BY <1>2 DEF Tweaked, SameBut
<1> QED BY <1>3, SameFresh

\* A part of a handler that keeps what is under way going, and gets what is
\* shown up to date, but neither opens nor stops anything.
LEMMA GoesFresh ==
  ASSUME NEW w, NEW s, Fresh(w, s), NEW o, Ready(o), NEW F, SameBut(w, o, F),
         F \cap {"opened", "stopped", "lastVp", "size", "vpPending"} = {},
         ~w.v.opened => Waiting(o, s),
         \A ra, rm, va, vm : Going(w, s, ra, rm, va, vm) =>
           \E a, m : /\ Going(o, s, a, m, va, vm)
                     /\ AtPeace(w.v, s, ra, rm) => AtPeace(o.v, s, a, m)
  PROVE  Fresh(o, s)
<1>1. o.v.opened = w.v.opened /\ o.v.stopped = w.v.stopped
  BY DEF SameBut, VFields
<1>2. ASSUME w.v.opened, ~w.v.stopped PROVE \E ra, rm, va, vm : Good(o, s, ra, rm, va, vm)
  <2>1. PICK ra, rm, va, vm : Good(w, s, ra, rm, va, vm)
    BY <1>2 DEF Fresh
  <2>2. PICK a, m : Going(o, s, a, m, va, vm) /\ AtPeace(o.v, s, a, m)
    BY <2>1 DEF Good
  <2>3. Arranged(o.v, s, va, vm) /\ Sized(o.v)
    <3>1. F \cap {"lastVp", "size", "vpPending"} = {}
      OBVIOUS
    <3> QED BY <2>1, <3>1, ArrangedKept DEF Good
  <2> QED BY <2>2, <2>3 DEF Good
<1> QED BY <1>1, <1>2 DEF Fresh

\* request_render
LEMMA RequestRenderFresh ==
  ASSUME NEW w, NEW s, Fresh(w, s)
  PROVE  Fresh(RequestRender(w), s)
<1>1. PICK o : o = RequestRender(w)
  OBVIOUS
<1>2. Ready(w)
  BY DEF Fresh
<1>3. /\ Ready(RequestRender(w))
      /\ SameBut(w, RequestRender(w), {"inflight", "pending", "forceFull"})
      /\ ~w.v.opened => RequestRender(w) = w
      /\ \A t, ra, rm, va, vm : Going(w, t, ra, rm, va, vm) =>
           \E a, m : /\ Going(RequestRender(w), t, a, m, va, vm)
                     /\ AtPeace(RequestRender(w).v, t, a, m)
  BY <1>2, RequestRenderGoes
<1>4. Ready(o) /\ SameBut(w, o, {"inflight", "pending", "forceFull"}) /\ (~w.v.opened => o = w)
  BY <1>1, <1>3
<1>5. \A ra, rm, va, vm : Going(w, s, ra, rm, va, vm) =>
           \E a, m : /\ Going(o, s, a, m, va, vm)
                     /\ AtPeace(w.v, s, ra, rm) => AtPeace(o.v, s, a, m)
  BY <1>1, <1>3, Zenon
<1>6. ~w.v.opened => Waiting(o, s)
  BY <1>4 DEF Fresh
<1> QED BY <1>1, <1>4, <1>5, <1>6, GoesFresh

\* on_adj_changed
LEMMA ScrollToFresh ==
  ASSUME NEW w, NEW s, Fresh(w, s), NEW pos
  PROVE  Fresh(ScrollTo(w, pos), s)
<1>1. PICK o : o = ScrollTo(w, pos)
  OBVIOUS
<1>2. Ready(w)
  BY DEF Fresh
<1>3. /\ Ready(ScrollTo(w, pos))
      /\ SameBut(w, ScrollTo(w, pos), {"scroll", "inflight", "pending", "forceFull"})
      /\ ~w.v.opened => /\ ScrollTo(w, pos).jobs = w.jobs /\ ScrollTo(w, pos).idles = w.idles
                        /\ SameBut(w, ScrollTo(w, pos), {"scroll"})
      /\ \A t, ra, rm, va, vm : Going(w, t, ra, rm, va, vm) =>
           \E a, m : /\ Going(ScrollTo(w, pos), t, a, m, va, vm)
                     /\ AtPeace(w.v, t, ra, rm) => AtPeace(ScrollTo(w, pos).v, t, a, m)
  BY <1>2, ScrollToGoes
<1>4. Ready(o) /\ SameBut(w, o, {"scroll", "inflight", "pending", "forceFull"})
  BY <1>1, <1>3
<1>5. \A ra, rm, va, vm : Going(w, s, ra, rm, va, vm) =>
           \E a, m : /\ Going(o, s, a, m, va, vm)
                     /\ AtPeace(w.v, s, ra, rm) => AtPeace(o.v, s, a, m)
  BY <1>1, <1>3, Zenon
<1>6. ASSUME ~w.v.opened PROVE Waiting(o, s)
  <2>1. o.jobs = w.jobs /\ o.idles = w.idles /\ SameBut(w, o, {"scroll"})
    BY <1>1, <1>3, <1>6
  <2>2. /\ o.v.inflight = w.v.inflight /\ o.v.vpInflight = w.v.vpInflight
        /\ o.v.lastVp = w.v.lastVp
    BY <2>1 DEF SameBut, VFields
  <2> QED BY <1>6, <2>1, <2>2 DEF Fresh, Waiting, Laid
<1> QED BY <1>1, <1>4, <1>5, <1>6, GoesFresh

\* do_load: what is under way is forgotten, and the new load is the last request.
LEMMA DoLoadFresh ==
  ASSUME NEW w, NEW s, NEW H, Fits(w, s, H), Ready(w), SessionFresh(s)
  PROVE  Fresh(DoLoad(w), s)
<1> DEFINE kinds == {"load", "render", "viewport", "click"}
<1>1. PICK a : a = Outdate(w, kinds) /\ Ready(a) /\ a.v = w.v
  BY OutdateReady
<1>2. /\ \A i \in 1..Len(a.jobs) : a.jobs[i].cur => a.jobs[i].kind \notin kinds
      /\ \A i \in 1..Len(a.idles) : a.idles[i].cur => a.idles[i].kind \notin kinds
  BY <1>1, OutdateFits
<1>3. PICK o : o = [a EXCEPT !.v = [@ EXCEPT !.load = w.v.load + 1, !.pending = FALSE,
                                    !.inflight = FALSE, !.vpInflight = FALSE,
                                    !.vpPending = FALSE, !.opened = FALSE, !.armed = FALSE,
                                    !.frame = NoFrame, !.loading = TRUE, !.stopped = FALSE]]
  OBVIOUS
<1>4. /\ {"v", "jobs", "idles", "refs"} \subseteq DOMAIN a /\ VFields \subseteq DOMAIN a.v
      /\ "asking" \in DOMAIN a.v /\ IsWorld(a)
  BY <1>1 DEF Ready, IsWorld
<1>5. o.jobs = a.jobs /\ o.idles = a.idles /\ o.refs = a.refs /\ DOMAIN o = DOMAIN a
  BY <1>3
<1>6. /\ DOMAIN o.v = DOMAIN a.v /\ o.v.closed = a.v.closed /\ o.v.asking = a.v.asking
      /\ o.v.load = w.v.load + 1 /\ o.v.opened = FALSE /\ o.v.inflight = FALSE
      /\ o.v.vpInflight = FALSE /\ o.v.size = a.v.size
  BY <1>3, <1>4 DEF VFields
<1>7. Ready(o)
  <2>1. IsWorld(o)
    BY <1>4, <1>5, <1>6 DEF IsWorld
  <2>2. o.v.load \in Nat
    BY <1>6 DEF Ready
  <2> QED BY <1>1, <1>4, <1>6, <2>1, <2>2 DEF Ready
<1>8. NoCurrentLoads(o.jobs) /\ NoCurrentLoads(o.idles)
  BY <1>2, <1>5 DEF NoCurrentLoads
<1>9. CASE w.v.size = 0
  <2>1. PICK p : p = [o EXCEPT !.v.deferred = TRUE] /\ DoLoad(w) = p
    BY <1>1, <1>3, <1>9 DEF DoLoad
  <2>2. p = [o EXCEPT !.v = [o.v EXCEPT !["deferred"] = TRUE]] /\ "deferred" \notin Firm
    BY <2>1 DEF Firm
  <2>3. Tweaked(o, p, {"deferred"})
    BY <1>7, <2>2, FieldReady
  <2>4. /\ Ready(p) /\ p.jobs = o.jobs /\ p.idles = o.idles
        /\ p.v.opened = FALSE /\ p.v.inflight = FALSE /\ p.v.vpInflight = FALSE
    BY <1>6, <2>3 DEF Tweaked, SameBut, VFields
  <2>5. Waiting(p, s)
    BY <1>8, <2>4 DEF Waiting, LoadsAreLast, LoadsCome, NoCurrentLoads
  <2> QED BY <2>1, <2>4, <2>5 DEF Fresh
<1>10. CASE w.v.size # 0
  <2>1. PICK p : p = [o EXCEPT !.v.lastVp = w.v.size]
    OBVIOUS
  <2>2. p = [o EXCEPT !.v = [o.v EXCEPT !["lastVp"] = w.v.size]] /\ "lastVp" \notin Firm
    BY <2>1 DEF Firm
  <2>3. Tweaked(o, p, {"lastVp"}) /\ p.v.lastVp = w.v.size
    <3>1. p.v.lastVp = w.v.size
      BY <1>7, <2>2 DEF Ready, IsWorld, VFields
    <3> QED BY <1>7, <2>2, <3>1, FieldReady
  <2>4. /\ Ready(p) /\ p.jobs = o.jobs /\ p.idles = o.idles
        /\ p.v.opened = FALSE /\ p.v.inflight = FALSE /\ p.v.vpInflight = FALSE
    BY <1>6, <2>3 DEF Tweaked, SameBut, VFields
  <2>5. PICK req : /\ DoLoad(w) = PushReq(p, req)
                   /\ req.kind = "load" /\ req.size = w.v.size /\ IsMessage(req, Requests)
    <3> DEFINE req == [kind |-> "load", cur |-> TRUE, load |-> w.v.load + 1, size |-> w.v.size]
    <3>1. DoLoad(w) = PushReq(p, req)
      BY <1>1, <1>3, <1>10, <2>1 DEF DoLoad
    <3> QED BY <3>1 DEF IsMessage, Requests
  <2>6. PICK u : u = PushReq(p, req)
    OBVIOUS
  <2>7. Ready(u) /\ u.v = p.v /\ u.jobs = Append(p.jobs, req) /\ u.idles = p.idles
    BY <2>4, <2>5, <2>6, PushReady
  <2>8. LoadsAreLast(u.jobs, u.v.lastVp)
    <3>1. PICK q, l : q = p.jobs /\ IsQueue(q, Requests) /\ l = Len(q)
      BY <2>4 DEF Ready, IsWorld
    <3>2. /\ l \in Nat /\ Len(Append(q, req)) = l + 1 /\ Append(q, req)[l + 1] = req
          /\ \A i \in 1..l : Append(q, req)[i] = q[i]
      BY <3>1, Appended
    <3>3. ASSUME NEW i \in 1..(l + 1), Append(q, req)[i].kind = "load", Append(q, req)[i].cur
          PROVE  i = l + 1
      <4>1. ASSUME i \in 1..l PROVE FALSE
        BY <1>8, <2>4, <3>1, <3>2, <3>3, <4>1 DEF NoCurrentLoads
      <4> QED BY <3>2, <4>1
    <3>4. \A x \in 1..(l + 1) : ~(x > l + 1)
      BY <3>2
    <3> QED BY <2>3, <2>5, <2>7, <3>1, <3>2, <3>3, <3>4 DEF LoadsAreLast
  <2>9. Waiting(u, s)
    BY <1>8, <2>4, <2>7, <2>8 DEF Waiting, LoadsCome, NoCurrentLoads
  <2> QED BY <2>4, <2>5, <2>6, <2>7, <2>9 DEF Fresh
<1> QED BY <1>9, <1>10

-----------------------------------------------------------------------------
(* A frame that has come *)

\* With a frame in hand, or before a page is open, nothing is posted.
Idle(w) == ~w.v.opened \/ w.v.inflight

\* request_render then leaves a note only.
LEMMA RequestRenderHeld ==
  ASSUME NEW w, Ready(w), Idle(w)
  PROVE  /\ Tweaked(w, RequestRender(w), {"pending"})
         /\ w.v.pending => RequestRender(w).v.pending
         /\ w.v.opened => RequestRender(w).v.pending
<1>1. CASE ~w.v.opened
  <2>1. RequestRender(w) = w
    BY <1>1 DEF RequestRender
  <2> QED BY <1>1, <2>1 DEF Tweaked, SameBut
<1>2. CASE w.v.opened
  <2>1. PICK o : o = [w EXCEPT !.v = [w.v EXCEPT !["pending"] = TRUE]]
    OBVIOUS
  <2>2. o.v.pending = TRUE
    BY <2>1 DEF Ready, IsWorld, VFields
  <2>3. "pending" \notin Firm
    BY DEF Firm
  <2>4. Tweaked(w, o, {"pending"})
    BY <2>1, <2>3, FieldReady
  <2>5. RequestRender(w) = o
    BY <1>2, <2>1 DEF RequestRender, Idle
  <2> QED BY <2>2, <2>4, <2>5
<1> QED BY <1>1, <1>2

\* Tweaked is transitive.
LEMMA TweakedTwice ==
  ASSUME NEW w, NEW o, NEW p, NEW F, NEW G, Tweaked(w, o, F), Tweaked(o, p, G)
  PROVE  Tweaked(w, p, F \cup G)
BY SameButTwice DEF Tweaked

\* What is under way stays idle.
LEMMA IdleKept ==
  ASSUME NEW w, NEW o, NEW F, Tweaked(w, o, F), Idle(w), F \cap {"opened", "inflight"} = {}
  PROVE  Idle(o) /\ Ready(o) /\ o.v.opened = w.v.opened
BY DEF Tweaked, SameBut, VFields, Idle

\* The scroll position that comes with a frame.
LEMMA ScrollToHeld ==
  ASSUME NEW w, Ready(w), Idle(w), NEW pos
  PROVE  /\ Tweaked(w, ScrollTo(w, pos), {"scroll", "pending"})
         /\ w.v.pending => ScrollTo(w, pos).v.pending
         /\ ScrollTo(w, pos).v.scroll = pos
<1>1. CASE pos = w.v.scroll
  <2>1. ScrollTo(w, pos) = w
    BY <1>1 DEF ScrollTo
  <2> QED BY <1>1, <2>1 DEF Tweaked, SameBut
<1>2. CASE pos # w.v.scroll
  <2>1. PICK b : b = [w EXCEPT !.v = [w.v EXCEPT !["scroll"] = pos]]
    OBVIOUS
  <2>2. b.v.scroll = pos
    BY <2>1 DEF Ready, IsWorld, VFields
  <2>3. "scroll" \notin Firm
    BY DEF Firm
  <2>4. Tweaked(w, b, {"scroll"})
    BY <2>1, <2>3, FieldReady
  <2>5. Ready(b) /\ Idle(b) /\ b.v.pending = w.v.pending
    BY <2>4 DEF Tweaked, SameBut, VFields, Idle
  <2>6. PICK o : o = RequestRender(b) /\ o = ScrollTo(w, pos)
    BY <1>2, <2>1 DEF ScrollTo
  <2>7. Tweaked(b, o, {"pending"}) /\ (b.v.pending => o.v.pending)
    BY <2>5, <2>6, RequestRenderHeld
  <2>8. o.v.scroll = pos
    BY <2>2, <2>7 DEF Tweaked, SameBut, VFields
  <2>9. Tweaked(w, o, {"scroll", "pending"})
    <3>1. {"scroll"} \cup {"pending"} = {"scroll", "pending"}
      OBVIOUS
    <3> QED BY <2>4, <2>7, <3>1, TweakedTwice
  <2> QED BY <2>5, <2>6, <2>7, <2>8, <2>9
<1> QED BY <1>1, <1>2

\* One field more, of a view that is idle.
LEMMA FrameReady ==
  ASSUME NEW w, Ready(w), NEW e, NEW o, o = [w EXCEPT !.v.frame = e]
  PROVE  Tweaked(w, o, {"frame"}) /\ o.v.frame = e
<1>1. o = [w EXCEPT !.v = [w.v EXCEPT !["frame"] = e]]
  OBVIOUS
<1>2. o.v.frame = e
  BY <1>1 DEF Ready, IsWorld, VFields
<1>3. "frame" \notin Firm
  BY DEF Firm
<1> QED BY <1>1, <1>2, <1>3, FieldReady

\* A patch: the view has the newest frame, or will ask for the whole of it.
LEMMA OnPatchHeld ==
  ASSUME NEW w, Ready(w), Idle(w), NEW r
  PROVE  /\ Tweaked(w, OnPatch(w, r), {"frame", "forceFull", "pending"})
         /\ w.v.pending => OnPatch(w, r).v.pending
         /\ w.v.opened => \/ OnPatch(w, r).v.frame.gen = r.gen
                          \/ OnPatch(w, r).v.forceFull /\ OnPatch(w, r).v.pending
<1>1. CASE w.v.frame.gen # None /\ w.v.frame.gen = r.base
  <2>1. PICK f : f = [gen |-> r.gen, shot |-> r.pic,
                      pic |-> Patched(w.v.frame.pic, r.damage, r.pic.tiles)]
    OBVIOUS
  <2>2. PICK o : o = [w EXCEPT !.v.frame = f] /\ OnPatch(w, r) = o
    BY <1>1, <2>1 DEF OnPatch
  <2>3. Tweaked(w, o, {"frame"}) /\ o.v.frame = f
    BY <2>2, FrameReady
  <2>4. o.v.frame.gen = r.gen
    BY <2>1, <2>3
  <2>5. o.v.pending = w.v.pending
    BY <2>3 DEF Tweaked, SameBut, VFields
  <2>6. Tweaked(w, o, {"frame", "forceFull", "pending"})
    BY <2>3 DEF Tweaked, SameBut
  <2> QED BY <2>2, <2>4, <2>5, <2>6
<1>2. CASE ~(w.v.frame.gen # None /\ w.v.frame.gen = r.base)
  <2>1. PICK b : b = [w EXCEPT !.v = [w.v EXCEPT !["forceFull"] = TRUE]]
    OBVIOUS
  <2>2. b.v.forceFull = TRUE
    BY <2>1 DEF Ready, IsWorld, VFields
  <2>3. "forceFull" \notin Firm
    BY DEF Firm
  <2>4. Tweaked(w, b, {"forceFull"})
    BY <2>1, <2>3, FieldReady
  <2>5. Ready(b) /\ Idle(b) /\ b.v.pending = w.v.pending /\ b.v.opened = w.v.opened
    BY <2>4 DEF Tweaked, SameBut, VFields, Idle
  <2>6. PICK o : o = RequestRender(b) /\ o = OnPatch(w, r)
    BY <1>2, <2>1 DEF OnPatch
  <2>7. /\ Tweaked(b, o, {"pending"}) /\ (b.v.pending => o.v.pending)
        /\ b.v.opened => o.v.pending
    BY <2>5, <2>6, RequestRenderHeld
  <2>8. o.v.forceFull = TRUE
    BY <2>2, <2>7 DEF Tweaked, SameBut, VFields
  <2>9. Tweaked(w, o, {"frame", "forceFull", "pending"})
    BY <2>4, <2>7 DEF Tweaked, SameBut
  <2> QED BY <2>5, <2>6, <2>7, <2>8, <2>9
<1> QED BY <1>1, <1>2

\* Its pixels, of either kind.
LEMMA OnPixelsHeld ==
  ASSUME NEW w, Ready(w), Idle(w), NEW r
  PROVE  /\ Tweaked(w, OnPixels(w, r), {"frame", "forceFull", "pending"})
         /\ w.v.pending => OnPixels(w, r).v.pending
         /\ \A s : w.v.opened /\ r.cur /\ r.gen = s.gen
                   /\ (r.has \in {"full", "patch"} \/ Have(w.v, s)) =>
              \/ Have(OnPixels(w, r).v, s)
              \/ OnPixels(w, r).v.forceFull /\ OnPixels(w, r).v.pending
<1>1. CASE r.has = "full" /\ r.cur
  <2>0. PICK f : f = [gen |-> r.gen, pic |-> r.pic, shot |-> r.pic]
    OBVIOUS
  <2>1. f.gen = r.gen
    BY <2>0
  <2>2. PICK o : o = [w EXCEPT !.v.frame = f] /\ OnPixels(w, r) = o
    BY <1>1, <2>0 DEF OnPixels
  <2>3. Tweaked(w, o, {"frame"}) /\ o.v.frame = f
    BY <2>2, FrameReady
  <2>4. o.v.pending = w.v.pending
    BY <2>3 DEF Tweaked, SameBut, VFields
  <2>5. Tweaked(w, o, {"frame", "forceFull", "pending"})
    BY <2>3 DEF Tweaked, SameBut
  <2>6. \A s : r.gen = s.gen => Have(o.v, s)
    BY <2>1, <2>3 DEF Have
  <2> QED BY <2>2, <2>4, <2>5, <2>6
<1>2. CASE ~(r.has = "full" /\ r.cur) /\ r.has = "patch"
  <2>1. PICK o : o = OnPatch(w, r) /\ OnPixels(w, r) = o
    BY <1>2 DEF OnPixels
  <2>2. /\ Tweaked(w, o, {"frame", "forceFull", "pending"})
        /\ w.v.pending => o.v.pending
        /\ w.v.opened => o.v.frame.gen = r.gen \/ (o.v.forceFull /\ o.v.pending)
    BY <2>1, OnPatchHeld
  <2> QED BY <2>1, <2>2 DEF Have
<1>3. CASE ~(r.has = "full" /\ r.cur) /\ r.has # "patch"
  <2>1. OnPixels(w, r) = w
    BY <1>3 DEF OnPixels
  <2>2. Tweaked(w, w, {"frame", "forceFull", "pending"})
    BY DEF Tweaked, SameBut
  <2> QED BY <1>3, <2>1, <2>2
<1> QED BY <1>1, <1>2, <1>3

\* A frame in hand, of a view that shows its page.
Handed(w, s, r, va, vm) ==
  /\ w.v.opened /\ w.v.inflight
  /\ Placed(w, "render", "none", r) /\ Placed(w, "viewport", va, vm)
  /\ w.v.vpInflight = (va # "none")
  /\ va = "result" => vm.ok
  /\ Arranged(w.v, s, va, vm) /\ Sized(w.v)
  /\ r.cur /\ r.ok /\ r.gen = s.gen
Promised(v, s, r) ==
  \/ v.pending \/ v.vpInflight
  \/ /\ Accurate(s) /\ s.fb.size = v.size
     /\ s.fb.scroll = IF r.scroll = None THEN v.scroll ELSE r.scroll
Taken(v, s) == v.pending \/ v.vpInflight \/ (Accurate(s) /\ s.fb.size = v.size /\ s.fb.scroll = v.scroll)

\* Taking it in leaves what it is for.
LEMMA HandedKept ==
  ASSUME NEW w, NEW o, NEW F, Tweaked(w, o, F),
         F \subseteq {"scroll", "frame", "forceFull", "pending"},
         NEW s, NEW r, NEW va, NEW vm, Handed(w, s, r, va, vm)
  PROVE  Handed(o, s, r, va, vm)
<1>1. /\ o.v.opened = w.v.opened /\ o.v.inflight = w.v.inflight
      /\ o.v.vpInflight = w.v.vpInflight
  BY DEF Tweaked, SameBut, VFields
<1>2. Placed(o, "render", "none", r) /\ Placed(o, "viewport", va, vm)
  BY SamePlaces DEF Handed, Tweaked
<1>3. Arranged(o.v, s, va, vm) /\ Sized(o.v)
  <2>1. F \cap {"lastVp", "size", "vpPending"} = {} /\ SameBut(w, o, F)
    BY DEF Tweaked
  <2> QED BY <2>1, ArrangedKept DEF Handed
<1> QED BY <1>1, <1>2, <1>3 DEF Handed

\* No frame is under way any more.
LEMMA HaltedTwice ==
  ASSUME NEW w, {"v", "jobs", "idles", "refs"} \subseteq DOMAIN w,
         NEW b, b = [w EXCEPT !.v = [w.v EXCEPT !["inflight"] = FALSE]]
  PROVE  [w EXCEPT !.v.inflight = FALSE, !.v.pending = FALSE] =
           [b EXCEPT !.v = [b.v EXCEPT !["pending"] = FALSE]]
OBVIOUS

\* What that leaves.
LEMMA HaltedReady ==
  ASSUME NEW w, Ready(w)
  PROVE  \E o : /\ o = [w EXCEPT !.v.inflight = FALSE, !.v.pending = FALSE]
                /\ Tweaked(w, o, {"inflight", "pending"}) /\ o.v.inflight = FALSE
<1>1. PICK b : b = [w EXCEPT !.v = [w.v EXCEPT !["inflight"] = FALSE]]
  OBVIOUS
<1>2. PICK p : p = [b EXCEPT !.v = [b.v EXCEPT !["pending"] = FALSE]]
  OBVIOUS
<1>3. p = [w EXCEPT !.v.inflight = FALSE, !.v.pending = FALSE]
  <2>1. {"v", "jobs", "idles", "refs"} \subseteq DOMAIN w
    BY DEF Ready, IsWorld
  <2>2. [w EXCEPT !.v.inflight = FALSE, !.v.pending = FALSE] =
           [b EXCEPT !.v = [b.v EXCEPT !["pending"] = FALSE]]
    BY <1>1, <2>1, HaltedTwice
  <2> QED BY <1>2, <2>2, Zenon
<1>4. b.v.inflight = FALSE
  BY <1>1 DEF Ready, IsWorld, VFields
<1>5. "inflight" \notin Firm /\ "pending" \notin Firm
  BY DEF Firm
<1>6. Tweaked(w, b, {"inflight"})
  BY <1>1, <1>5, FieldReady
<1>7. Tweaked(b, p, {"pending"})
  <2>1. Ready(b)
    BY <1>6 DEF Tweaked
  <2> QED BY <1>2, <1>5, <2>1, FieldReady
<1>8. p.v.inflight = FALSE
  BY <1>4, <1>7 DEF Tweaked, SameBut, VFields
<1>9. Tweaked(w, p, {"inflight", "pending"})
  BY <1>6, <1>7 DEF Tweaked, SameBut
<1> QED BY <1>3, <1>8, <1>9

\* The end of it: the frame is what was promised, or another is asked for.
LEMMA HandedEnds ==
  ASSUME NEW w, Ready(w), NEW s, SessionFresh(s), NEW r, NEW va, NEW vm,
         Handed(w, s, r, va, vm), Taken(w.v, s),
         Have(w.v, s) \/ (w.v.forceFull /\ w.v.pending),
         NEW o, Tweaked(w, o, {"inflight", "pending"}), o.v.inflight = FALSE
  PROVE  /\ w.v.pending => Fresh(StartRender(o), s)
         /\ ~w.v.pending => Fresh(o, s)
<1>9. /\ Ready(o) /\ o.v.opened = w.v.opened
      /\ o.v.vpInflight = w.v.vpInflight /\ o.v.frame = w.v.frame
      /\ o.v.forceFull = w.v.forceFull /\ o.v.scroll = w.v.scroll /\ o.v.size = w.v.size
      /\ o.v.stopped = w.v.stopped
  BY DEF Tweaked, SameBut, VFields
<1>11. Placed(o, "render", "none", r) /\ Placed(o, "viewport", va, vm)
  BY SamePlaces DEF Handed, Tweaked
<1>12. Arranged(o.v, s, va, vm) /\ Sized(o.v)
  <2>1. {"inflight", "pending"} \cap {"lastVp", "size", "vpPending"} = {}
    OBVIOUS
  <2> QED BY <2>1, ArrangedKept DEF Handed, Tweaked
<1>13. Going(o, s, "none", r, va, vm)
  BY <1>9, <1>11 DEF Going, Flows, Known, Have, Handed
<1>14. ASSUME w.v.pending PROVE Fresh(StartRender(o), s)
  <2>1. PICK p : p = StartRender(o)
    OBVIOUS
  <2>2. /\ Ready(p) /\ SameBut(o, p, {"inflight", "forceFull"})
    BY <1>9, <2>1, StartRenderGoes
  <2>3. PICK m : Going(p, s, "job", m, va, vm) /\ AtPeace(p.v, s, "job", m)
    <3>1. \A t, rm, a, n : Going(o, t, "none", rm, a, n) =>
              \E m : /\ Going(StartRender(o), t, "job", m, a, n)
                     /\ AtPeace(StartRender(o).v, t, "job", m)
      BY <1>9, StartRenderGoes
    <3>2. \E m : /\ Going(StartRender(o), s, "job", m, va, vm)
                 /\ AtPeace(StartRender(o).v, s, "job", m)
      BY <1>13, <3>1, Zenon
    <3> QED BY <2>1, <3>2
  <2>4. Arranged(p.v, s, va, vm) /\ Sized(p.v)
    <3>1. {"inflight", "forceFull"} \cap {"lastVp", "size", "vpPending"} = {}
      OBVIOUS
    <3> QED BY <1>12, <2>2, <3>1, ArrangedKept
  <2>5. p.v.opened
    BY <2>3 DEF Going
  <2> QED BY <2>1, <2>2, <2>3, <2>4, <2>5 DEF Fresh, Good
<1>15. ASSUME ~w.v.pending PROVE Fresh(o, s)
  <2>1. Have(o.v, s)
    BY <1>9, <1>15 DEF Have
  <2>2. AtPeace(o.v, s, "none", r)
    BY <1>9, <1>15, <2>1 DEF AtPeace, Settled, Taken
  <2>3. o.v.opened
    BY <1>9 DEF Handed
  <2> QED BY <1>9, <1>12, <1>13, <2>2, <2>3 DEF Fresh, Good
<1> QED BY <1>14, <1>15

\* The pixels of a frame that the view has given up.
LEMMA OnPixelsReady ==
  ASSUME NEW w, Ready(w), NEW r
  PROVE  /\ Ready(OnPixels(w, r))
         /\ SameBut(w, OnPixels(w, r), {"frame", "inflight", "pending", "forceFull"})
<1>1. CASE Idle(w)
  <2>1. Tweaked(w, OnPixels(w, r), {"frame", "forceFull", "pending"})
    BY <1>1, OnPixelsHeld
  <2> QED BY <2>1 DEF Tweaked, SameBut
<1>2. CASE OnPixels(w, r) = w
  BY <1>2 DEF SameBut
<1>3. CASE \E e : OnPixels(w, r) = [w EXCEPT !.v.frame = e]
  <2>1. PICK e, o : o = [w EXCEPT !.v.frame = e] /\ OnPixels(w, r) = o
    BY <1>3
  <2>2. Tweaked(w, o, {"frame"})
    BY <2>1, FrameReady
  <2> QED BY <2>1, <2>2 DEF Tweaked, SameBut
<1>4. CASE OnPixels(w, r) = RequestRender([w EXCEPT !.v.forceFull = TRUE])
  <2>1. PICK b : b = [w EXCEPT !.v = [w.v EXCEPT !["forceFull"] = TRUE]]
    OBVIOUS
  <2>2. "forceFull" \notin Firm
    BY DEF Firm
  <2>3. Tweaked(w, b, {"forceFull"})
    BY <2>1, <2>2, FieldReady
  <2>4. Ready(b)
    BY <2>3 DEF Tweaked
  <2>5. PICK o : o = RequestRender(b) /\ o = OnPixels(w, r)
    BY <1>4, <2>1
  <2>6. Ready(o) /\ SameBut(b, o, {"inflight", "pending", "forceFull"})
    BY <2>4, <2>5, RequestRenderGoes
  <2>7. SameBut(w, o, {"frame", "inflight", "pending", "forceFull"})
    BY <2>3, <2>6 DEF Tweaked, SameBut
  <2> QED BY <2>5, <2>6, <2>7
<1>5. \/ OnPixels(w, r) = w
      \/ \E e : OnPixels(w, r) = [w EXCEPT !.v.frame = e]
      \/ OnPixels(w, r) = RequestRender([w EXCEPT !.v.forceFull = TRUE])
  <2>1. CASE r.has = "full" /\ r.cur
    <3>1. OnPixels(w, r) = [w EXCEPT !.v.frame = [gen |-> r.gen, pic |-> r.pic, shot |-> r.pic]]
      BY <2>1 DEF OnPixels
    <3> QED BY <3>1
  <2>2. CASE ~(r.has = "full" /\ r.cur) /\ r.has = "patch"
    <3>1. OnPixels(w, r) = OnPatch(w, r)
      BY <2>2 DEF OnPixels
    <3>2. CASE w.v.frame.gen # None /\ w.v.frame.gen = r.base
      <4>1. PICK f : f = [gen |-> r.gen, shot |-> r.pic,
                          pic |-> Patched(w.v.frame.pic, r.damage, r.pic.tiles)]
        OBVIOUS
      <4>2. OnPatch(w, r) = [w EXCEPT !.v.frame = f]
        BY <3>2, <4>1 DEF OnPatch
      <4> QED BY <3>1, <4>2
    <3>3. CASE ~(w.v.frame.gen # None /\ w.v.frame.gen = r.base)
      BY <3>1, <3>3 DEF OnPatch
    <3> QED BY <3>2, <3>3
  <2>3. CASE ~(r.has = "full" /\ r.cur) /\ r.has # "patch"
    BY <2>3 DEF OnPixels
  <2> QED BY <2>1, <2>2, <2>3
<1> QED BY <1>2, <1>3, <1>4, <1>5

\* The frame that comes is for a view that is not open, for one that gave frames
\* up, or the one that the view waits for.
Expected(w, s, r) ==
  /\ Ready(w) /\ SessionFresh(s)
  /\ ~w.v.opened => Waiting(w, s)
  /\ w.v.opened /\ ~w.v.stopped =>
       \E va, vm : Handed(w, s, r, va, vm) /\ Promised(w.v, s, r)
                   /\ (r.has \in {"full", "patch"} \/ Have(w.v, s))

\* Its scroll position and its pixels.
LEMMA FrameTaken ==
  ASSUME NEW w, NEW s, NEW r, Expected(w, s, r),
         NEW a, a = w \/ a = [w EXCEPT !.v = [w.v EXCEPT !["armed"] = r.animating]],
         NEW p, p = IF r.cur /\ r.ok /\ r.scroll # None THEN ScrollTo(a, r.scroll) ELSE a,
         NEW o, o = IF r.ok THEN OnPixels(p, r) ELSE p
  PROVE  /\ Ready(o) /\ o.v.opened = w.v.opened /\ o.v.stopped = w.v.stopped
         /\ ~w.v.opened => Waiting(o, s)
         /\ w.v.opened /\ ~w.v.stopped =>
              \E va, vm : Handed(o, s, r, va, vm) /\ Taken(o.v, s)
                          /\ (Have(o.v, s) \/ (o.v.forceFull /\ o.v.pending))
<1>1. Tweaked(w, a, {}) /\ Ready(w)
  <2>1. Ready(w)
    BY DEF Expected
  <2>2. CASE a = w BY <2>1, <2>2 DEF Tweaked, SameBut
  <2>3. CASE a = [w EXCEPT !.v = [w.v EXCEPT !["armed"] = r.animating]]
    <3>1. "armed" \notin Firm
      BY DEF Firm
    <3>2. Tweaked(w, a, {"armed"})
      BY <2>1, <2>3, <3>1, FieldReady
    <3> QED BY <2>1, <3>2 DEF Tweaked, SameBut, VFields
  <2> QED BY <2>1, <2>2, <2>3
<1>2. Ready(a) /\ Idle(a) = Idle(w)
  BY <1>1 DEF Tweaked, SameBut, VFields, Idle
<1>3. Ready(p) /\ SameBut(a, p, {"scroll", "inflight", "pending", "forceFull"})
  <2>1. CASE p = a BY <1>2, <2>1 DEF SameBut
  <2>2. CASE p = ScrollTo(a, r.scroll) BY <1>2, <2>2, ScrollToGoes
  <2> QED BY <2>1, <2>2
<1>4. Ready(o) /\ SameBut(p, o, {"frame", "inflight", "pending", "forceFull"})
  <2>1. CASE o = p BY <1>3, <2>1 DEF SameBut
  <2>2. CASE o = OnPixels(p, r) BY <1>3, <2>2, OnPixelsReady
  <2> QED BY <2>1, <2>2
<1>5. o.v.opened = w.v.opened /\ o.v.stopped = w.v.stopped
  BY <1>1, <1>3, <1>4 DEF Tweaked, SameBut, VFields
<1>6. ASSUME Idle(w)
      PROVE  /\ Tweaked(a, p, {"scroll", "pending"}) /\ Tweaked(p, o, {"frame", "forceFull", "pending"})
             /\ a.v.pending => p.v.pending
             /\ p.v.pending => o.v.pending
             /\ r.cur /\ r.ok => p.v.scroll = IF r.scroll = None THEN a.v.scroll ELSE r.scroll
             /\ p.v.opened /\ r.ok /\ r.cur /\ r.gen = s.gen
                /\ (r.has \in {"full", "patch"} \/ Have(p.v, s)) =>
                  Have(o.v, s) \/ (o.v.forceFull /\ o.v.pending)
  <2>1. Idle(a)
    BY <1>2, <1>6
  <2>2. /\ Tweaked(a, p, {"scroll", "pending"}) /\ (a.v.pending => p.v.pending)
        /\ r.cur /\ r.ok => p.v.scroll = IF r.scroll = None THEN a.v.scroll ELSE r.scroll
    <3>1. CASE r.cur /\ r.ok /\ r.scroll # None
      <4>1. p = ScrollTo(a, r.scroll)
        BY <3>1
      <4>2. /\ Tweaked(a, p, {"scroll", "pending"}) /\ (a.v.pending => p.v.pending)
            /\ p.v.scroll = r.scroll
        BY <1>2, <2>1, <4>1, ScrollToHeld
      <4> QED BY <3>1, <4>2
    <3>2. CASE ~(r.cur /\ r.ok /\ r.scroll # None)
      <4>1. p = a
        BY <3>2
      <4> QED BY <1>2, <3>2, <4>1 DEF Tweaked, SameBut
    <3> QED BY <3>1, <3>2
  <2>3. Idle(p)
    BY <2>1, <2>2, IdleKept
  <2>4. CASE r.ok
    <3>1. o = OnPixels(p, r)
      BY <2>4
    <3>2. /\ Tweaked(p, o, {"frame", "forceFull", "pending"}) /\ (p.v.pending => o.v.pending)
          /\ \A t : p.v.opened /\ r.cur /\ r.gen = t.gen
                    /\ (r.has \in {"full", "patch"} \/ Have(p.v, t)) =>
                Have(o.v, t) \/ (o.v.forceFull /\ o.v.pending)
      BY <1>3, <2>3, <3>1, OnPixelsHeld
    <3> QED BY <2>2, <3>2
  <2>5. CASE ~r.ok
    <3>1. o = p
      BY <2>5
    <3> QED BY <1>3, <2>2, <2>5, <3>1 DEF Tweaked, SameBut
  <2> QED BY <2>4, <2>5
<1>7. ASSUME ~w.v.opened PROVE Waiting(o, s)
  <2>1. Idle(w)
    BY <1>7 DEF Idle
  <2>2. /\ o.jobs = w.jobs /\ o.idles = w.idles /\ o.v.inflight = w.v.inflight
        /\ o.v.vpInflight = w.v.vpInflight /\ o.v.lastVp = w.v.lastVp
    BY <1>1, <1>6, <2>1 DEF Tweaked, SameBut, VFields
  <2>3. Waiting(w, s)
    BY <1>7 DEF Expected
  <2> QED BY <2>2, <2>3 DEF Waiting, Laid
<1>8. ASSUME w.v.opened, ~w.v.stopped
      PROVE  \E va, vm : Handed(o, s, r, va, vm) /\ Taken(o.v, s)
                         /\ (Have(o.v, s) \/ (o.v.forceFull /\ o.v.pending))
  <2>1. PICK va, vm : /\ Handed(w, s, r, va, vm) /\ Promised(w.v, s, r)
                      /\ (r.has \in {"full", "patch"} \/ Have(w.v, s))
    BY <1>8 DEF Expected
  <2>2. Idle(w) /\ r.cur /\ r.ok /\ r.gen = s.gen
    BY <2>1 DEF Idle, Handed
  <2>3. Tweaked(w, o, {"scroll", "frame", "forceFull", "pending"})
    BY <1>1, <1>6, <2>2 DEF Tweaked, SameBut
  <2>4. Handed(o, s, r, va, vm)
    BY <2>1, <2>3, HandedKept
  <2>5. /\ a.v.scroll = w.v.scroll /\ a.v.pending = w.v.pending
        /\ p.v.opened = w.v.opened /\ p.v.frame = w.v.frame /\ o.v.scroll = p.v.scroll
        /\ o.v.vpInflight = w.v.vpInflight /\ o.v.size = w.v.size
    BY <1>1, <1>6, <2>2 DEF Tweaked, SameBut, VFields
  <2>6. Have(o.v, s) \/ (o.v.forceFull /\ o.v.pending)
    BY <1>6, <1>8, <2>1, <2>2, <2>5 DEF Have
  <2>7. Taken(o.v, s)
    BY <1>6, <2>1, <2>2, <2>5 DEF Taken, Promised
  <2> QED BY <2>4, <2>6, <2>7
<1> QED BY <1>4, <1>5, <1>7, <1>8

\* do_load closes the page.
LEMMA DoLoadCloses ==
  ASSUME NEW w, Ready(w)
  PROVE  ~DoLoad(w).v.opened
<1>1. PICK a : a = Outdate(w, {"load", "render", "viewport", "click"}) /\ Ready(a) /\ a.v = w.v
  BY OutdateReady
<1>2. PICK o : o = [a EXCEPT !.v = [@ EXCEPT !.load = w.v.load + 1, !.pending = FALSE,
                                    !.inflight = FALSE, !.vpInflight = FALSE,
                                    !.vpPending = FALSE, !.opened = FALSE, !.armed = FALSE,
                                    !.frame = NoFrame, !.loading = TRUE, !.stopped = FALSE]]
  OBVIOUS
<1>3. {"v", "jobs", "idles", "refs"} \subseteq DOMAIN a /\ VFields \subseteq DOMAIN a.v
  BY <1>1 DEF Ready, IsWorld
<1>4. /\ DOMAIN o.v = DOMAIN a.v /\ o.v.opened = FALSE /\ "v" \in DOMAIN o
      /\ "opened" \in DOMAIN o.v
  BY <1>2, <1>3 DEF VFields
<1>5. CASE w.v.size = 0
  <2>1. PICK p : p = [o EXCEPT !.v.deferred = TRUE] /\ DoLoad(w) = p
    BY <1>1, <1>2, <1>5 DEF DoLoad
  <2>2. p.v = [o.v EXCEPT !.deferred = TRUE]
    BY <1>4, <2>1
  <2>3. p.v.opened = o.v.opened
    BY <1>4, <2>2
  <2> QED BY <1>4, <2>1, <2>3
<1>6. CASE w.v.size # 0
  <2>1. PICK p, req : p = [o EXCEPT !.v.lastVp = w.v.size] /\ DoLoad(w) = PushReq(p, req)
    BY <1>1, <1>2, <1>6 DEF DoLoad
  <2>2. p.v = [o.v EXCEPT !.lastVp = w.v.size]
    BY <1>4, <2>1
  <2>3. p.v.opened = o.v.opened
    BY <1>4, <2>2
  <2>4. PushReq(p, req).v = p.v
    BY DEF PushReq
  <2> QED BY <1>4, <2>1, <2>3, <2>4
<1> QED BY <1>5, <1>6

\* What a frame that was taken ends in.
LEMMA FrameEnds ==
  ASSUME NEW w, Ready(w), NEW s, SessionFresh(s), NEW r,
         ~w.v.opened => Waiting(w, s),
         w.v.opened /\ ~w.v.stopped =>
           \E va, vm : Handed(w, s, r, va, vm) /\ Taken(w.v, s)
                       /\ (Have(w.v, s) \/ (w.v.forceFull /\ w.v.pending)),
         NEW o, o = [w EXCEPT !.v.inflight = FALSE, !.v.pending = FALSE]
  PROVE  /\ w.v.pending => Fresh(StartRender(o), s)
         /\ ~w.v.pending => Fresh(o, s)
<1>1. Tweaked(w, o, {"inflight", "pending"}) /\ o.v.inflight = FALSE
  BY HaltedReady
<1>2. /\ Ready(o) /\ o.v.opened = w.v.opened /\ o.v.stopped = w.v.stopped
      /\ o.jobs = w.jobs /\ o.idles = w.idles
      /\ o.v.vpInflight = w.v.vpInflight /\ o.v.lastVp = w.v.lastVp
  BY <1>1 DEF Tweaked, SameBut, VFields
<1>3. CASE ~w.v.opened
  <2>1. StartRender(o) = o
    BY <1>2, <1>3 DEF StartRender
  <2>2. Waiting(o, s)
    BY <1>1, <1>2, <1>3 DEF Waiting, Laid
  <2> QED BY <1>2, <1>3, <2>1, <2>2 DEF Fresh
<1>4. CASE w.v.opened /\ w.v.stopped
  <2>1. PICK p : p = StartRender(o) /\ Ready(p) /\ SameBut(o, p, {"inflight", "forceFull"})
    BY <1>2, StartRenderGoes
  <2>2. p.v.opened = o.v.opened /\ p.v.stopped = o.v.stopped
    BY <2>1 DEF SameBut, VFields
  <2> QED BY <1>2, <1>4, <2>1, <2>2 DEF Fresh
<1>5. CASE w.v.opened /\ ~w.v.stopped
  <2>1. PICK va, vm : /\ Handed(w, s, r, va, vm) /\ Taken(w.v, s)
                      /\ (Have(w.v, s) \/ (w.v.forceFull /\ w.v.pending))
    BY <1>5
  <2> QED BY <1>1, <2>1, HandedEnds
<1> QED BY <1>3, <1>4, <1>5

\* on_result, of a frame.
LEMMA OnFrameFresh ==
  ASSUME NEW w, NEW s, NEW H, Fits(w, s, H), NEW r, r.kind = "render",
         ResultFits(r, w.v.load, s, H, w.jobs), Expected(w, s, r)
  PROVE  Fresh(OnFrame(w, r), s)
<1> DEFINE arm == IF r.cur /\ r.ok THEN [w EXCEPT !.v.armed = r.animating] ELSE w
           pos == IF r.cur /\ r.ok /\ r.scroll # None THEN ScrollTo(arm, r.scroll) ELSE arm
           pix == IF r.ok THEN OnPixels(pos, r) ELSE pos
           nav == IF r.cur /\ r.ok /\ r.nav /\ pix.v.redirects < MaxRedirects
                  THEN DoLoad([pix EXCEPT !.v.redirects = @ + 1]) ELSE pix
           end == [nav EXCEPT !.v.inflight = FALSE, !.v.pending = FALSE]
<1>0. OnFrame(w, r) = IF nav.v.pending THEN StartRender(end)
                       ELSE IF r.cur /\ ~r.ok THEN [end EXCEPT !.v.loading = FALSE] ELSE end
  BY Zenon DEF OnFrame
<1>1. arm = IF r.cur /\ r.ok THEN [w EXCEPT !.v.armed = r.animating] ELSE w
  OBVIOUS
<1>2. pos = IF r.cur /\ r.ok /\ r.scroll # None THEN ScrollTo(arm, r.scroll) ELSE arm
  OBVIOUS
<1>3. pix = IF r.ok THEN OnPixels(pos, r) ELSE pos
  OBVIOUS
<1>4. nav = IF r.cur /\ r.ok /\ r.nav /\ pix.v.redirects < MaxRedirects
          THEN DoLoad([pix EXCEPT !.v.redirects = @ + 1]) ELSE pix
  OBVIOUS
<1>5. end = [nav EXCEPT !.v.inflight = FALSE, !.v.pending = FALSE]
  OBVIOUS
<1> HIDE DEF arm, pos, pix, nav, end
<1>6. Fits(arm, s, H) /\ Kept(w, arm)
  <2>1. CASE r.cur /\ r.ok
    <3>1. arm = [w EXCEPT !.v = [w.v EXCEPT !["armed"] = r.animating]] /\ "armed" \notin Kernel
      BY <1>1, <2>1 DEF Kernel
    <3> QED BY <3>1, FieldFits
  <2>2. CASE ~(r.cur /\ r.ok) BY <1>1, <2>2 DEF Kept
  <2> QED BY <2>1, <2>2
<1>7. Fits(pos, s, H) /\ Kept(w, pos)
  <2>1. CASE r.cur /\ r.ok /\ r.scroll # None
    <3>1. pos = ScrollTo(arm, r.scroll) BY <1>2, <2>1
    <3>2. Fits(pos, s, H) /\ Kept(arm, pos) BY <1>6, <3>1, ScrollToFits
    <3> QED BY <1>6, <3>2, KeptTwice
  <2>2. CASE ~(r.cur /\ r.ok /\ r.scroll # None) BY <1>2, <1>6, <2>2
  <2> QED BY <2>1, <2>2
<1>8. Fits(pix, s, H)
  <2>1. CASE r.ok
    <3>1. ResultFits(r, pos.v.load, s, H, pos.jobs)
      BY <1>7 DEF ResultFits, CurrentFits, Kept
    <3> QED BY <1>3, <1>7, <2>1, <3>1, OnPixelsFits
  <2>2. CASE ~r.ok BY <1>3, <1>7, <2>2
  <2> QED BY <2>1, <2>2
<1>9. arm = w \/ arm = [w EXCEPT !.v = [w.v EXCEPT !["armed"] = r.animating]]
  BY <1>1
<1>10. /\ Ready(pix) /\ pix.v.opened = w.v.opened /\ pix.v.stopped = w.v.stopped
       /\ ~w.v.opened => Waiting(pix, s)
       /\ w.v.opened /\ ~w.v.stopped =>
            \E va, vm : Handed(pix, s, r, va, vm) /\ Taken(pix.v, s)
                        /\ (Have(pix.v, s) \/ (pix.v.forceFull /\ pix.v.pending))
  BY <1>2, <1>3, <1>9, FrameTaken
<1>11. SessionFresh(s)
  BY DEF Expected
<1>12. /\ nav.v.pending => Fresh(StartRender(end), s)
       /\ ~nav.v.pending => Fresh(end, s)
  <2>1. CASE r.cur /\ r.ok /\ r.nav /\ pix.v.redirects < MaxRedirects
    <3>1. PICK o : o = [pix EXCEPT !.v.redirects = @ + 1] /\ nav = DoLoad(o)
      BY <1>4, <2>1
    <3>2. o = [pix EXCEPT !.v = [pix.v EXCEPT !["redirects"] = pix.v.redirects + 1]]
      BY <3>1
    <3>3. "redirects" \notin Kernel /\ "redirects" \notin Firm
      BY DEF Kernel, Firm
    <3>4. Fits(o, s, H)
      BY <1>8, <3>2, <3>3, FieldFits
    <3>5. Tweaked(pix, o, {"redirects"})
      BY <1>10, <3>2, <3>3, FieldReady
    <3>6. Ready(o)
      BY <3>5 DEF Tweaked
    <3>7. Fresh(nav, s)
      BY <1>11, <3>1, <3>4, <3>6, DoLoadFresh
    <3>8. ~nav.v.opened
      BY <3>1, <3>6, DoLoadCloses
    <3>9. Ready(nav) /\ Waiting(nav, s)
      BY <3>7, <3>8 DEF Fresh
    <3> QED BY <1>5, <1>11, <3>8, <3>9, FrameEnds
  <2>2. CASE ~(r.cur /\ r.ok /\ r.nav /\ pix.v.redirects < MaxRedirects)
    <3>1. nav = pix
      BY <1>4, <2>2
    <3>2. /\ Ready(nav) /\ (~nav.v.opened => Waiting(nav, s))
          /\ nav.v.opened /\ ~nav.v.stopped =>
               \E va, vm : Handed(nav, s, r, va, vm) /\ Taken(nav.v, s)
                           /\ (Have(nav.v, s) \/ (nav.v.forceFull /\ nav.v.pending))
      BY <1>10, <3>1
    <3> QED BY <1>5, <1>11, <3>2, FrameEnds
  <2> QED BY <2>1, <2>2
<1>13. CASE nav.v.pending
  BY <1>0, <1>12, <1>13
<1>14. CASE ~nav.v.pending /\ r.cur /\ ~r.ok
  <2>1. PICK o : o = [end EXCEPT !.v.loading = FALSE] /\ OnFrame(w, r) = o
    BY <1>0, <1>14
  <2>2. o = [end EXCEPT !.v = [end.v EXCEPT !["loading"] = FALSE]]
    BY <2>1
  <2>3. "loading" \notin VFields \cup {"asking"}
    BY DEF VFields
  <2>4. Fresh(end, s)
    BY <1>12, <1>14
  <2>5. Fresh(o, s)
    BY <2>2, <2>3, <2>4, FieldFresh
  <2> QED BY <2>1, <2>5
<1>15. CASE ~nav.v.pending /\ ~(r.cur /\ ~r.ok)
  BY <1>0, <1>12, <1>15
<1> QED BY <1>13, <1>14, <1>15

-----------------------------------------------------------------------------
(* The other results that have come *)

\* A viewport's result that the view, if it shows a page, waits for.
Awaited(w, s, r) ==
  /\ Ready(w) /\ SessionFresh(s)
  /\ ~w.v.opened => Waiting(w, s)
  /\ w.v.opened /\ ~w.v.stopped =>
       \E ra, rm : /\ Placed(w, "render", ra, rm) /\ Placed(w, "viewport", "none", r)
                   /\ w.v.inflight = (ra # "none") /\ Known(w.v, s, ra, rm)
                   /\ Arranged(w.v, s, "result", r) /\ Sized(w.v)
                   /\ r.cur /\ r.ok

\* on_result, of a viewport: the page is drawn again, and laid out once more if
\* the size has changed since.
LEMMA OnViewportFresh ==
  ASSUME NEW w, NEW s, NEW r, Awaited(w, s, r)
  PROVE  Fresh(OnViewport(w, r), s)
<1>0. Ready(w) /\ SessionFresh(s)
  BY DEF Awaited
<1>1. CASE ~r.cur
  <2>1. OnViewport(w, r) = w
    BY <1>1 DEF OnViewport
  <2> QED BY <1>0, <1>1, <2>1 DEF Awaited, Fresh
<1>2. CASE r.cur
  <2>1. PICK o : o = [w EXCEPT !.v = [w.v EXCEPT !["vpInflight"] = FALSE]]
    OBVIOUS
  <2>2. o.v.vpInflight = FALSE
    BY <1>0, <2>1 DEF Ready, IsWorld, VFields
  <2>3. "vpInflight" \notin Firm /\ "vpPending" \notin Firm
    BY DEF Firm
  <2>4. Tweaked(w, o, {"vpInflight"})
    BY <1>0, <2>1, <2>3, FieldReady
  <2>5. /\ Ready(o) /\ o.v.opened = w.v.opened /\ o.v.stopped = w.v.stopped
        /\ o.v.inflight = w.v.inflight /\ o.v.vpPending = w.v.vpPending
        /\ o.v.lastVp = w.v.lastVp /\ o.v.frame = w.v.frame /\ o.v.forceFull = w.v.forceFull
        /\ o.v.size = w.v.size /\ o.jobs = w.jobs /\ o.idles = w.idles
    BY <2>4 DEF Tweaked, SameBut, VFields
  <2>6. PICK p : p = IF r.ok THEN RequestRender(o) ELSE o
    OBVIOUS
  <2>7. /\ Ready(p) /\ SameBut(o, p, {"inflight", "pending", "forceFull"})
        /\ ~o.v.opened => p = o
    <3>1. CASE r.ok
      BY <2>5, <2>6, <3>1, RequestRenderGoes
    <3>2. CASE ~r.ok
      BY <2>5, <2>6, <3>2 DEF SameBut
    <3> QED BY <3>1, <3>2
  <2>8. /\ p.v.opened = o.v.opened /\ p.v.stopped = o.v.stopped /\ p.v.lastVp = o.v.lastVp
        /\ p.v.vpPending = o.v.vpPending /\ p.v.vpInflight = o.v.vpInflight
    BY <2>7 DEF SameBut, VFields
  <2>9. PICK q : q = [p EXCEPT !.v = [p.v EXCEPT !["vpPending"] = FALSE]]
    OBVIOUS
  <2>10. Tweaked(p, q, {"vpPending"})
    BY <2>3, <2>7, <2>9, FieldReady
  <2>11. /\ Ready(q) /\ q.v.opened = p.v.opened /\ q.v.stopped = p.v.stopped
         /\ q.v.lastVp = p.v.lastVp /\ q.v.vpInflight = p.v.vpInflight
         /\ q.v.inflight = p.v.inflight /\ q.jobs = p.jobs /\ q.idles = p.idles
         /\ q.v.size = p.v.size
    BY <2>10 DEF Tweaked, SameBut, VFields
  <2>12. PICK u, size : /\ size = p.v.lastVp /\ size = q.v.lastVp
                        /\ u = StartViewport(q, size)
    BY <2>11
  <2>13. OnViewport(w, r) = IF p.v.vpPending THEN u ELSE p
    <3>1. o = [w EXCEPT !.v.vpInflight = FALSE]
      BY <2>1
    <3>2. OnViewport(w, r) = IF p.v.vpPending
                             THEN StartViewport([p EXCEPT !.v.vpPending = FALSE], p.v.lastVp) ELSE p
      BY <1>2, <2>6, <3>1 DEF OnViewport
    <3>3. q = [p EXCEPT !.v.vpPending = FALSE]
      BY <2>9
    <3> QED BY <2>12, <3>2, <3>3
  <2>14. /\ Ready(u) /\ SameBut(q, u, {"vpInflight", "vpPending"})
         /\ ~q.v.opened => u = q
    BY <2>11, <2>12, StartViewportGoes
  <2>15. /\ u.v.opened = q.v.opened /\ u.v.stopped = q.v.stopped /\ u.v.size = q.v.size
         /\ u.v.lastVp = q.v.lastVp
    BY <2>14 DEF SameBut, VFields
  <2>16. CASE ~w.v.opened
    <3>1. Waiting(w, s)
      BY <2>16 DEF Awaited
    <3>2. Waiting(p, s)
      BY <2>2, <2>5, <2>7, <2>16, <3>1 DEF Waiting, Laid
    <3>3. Waiting(u, s)
      BY <2>5, <2>8, <2>11, <2>14, <2>16, <3>2 DEF Waiting, Laid
    <3> QED BY <1>0, <2>5, <2>7, <2>8, <2>11, <2>13, <2>14, <2>15, <2>16, <3>2, <3>3 DEF Fresh
  <2>17. CASE w.v.opened /\ w.v.stopped
    BY <1>0, <2>5, <2>7, <2>8, <2>11, <2>13, <2>14, <2>15, <2>17 DEF Fresh
  <2>18. CASE w.v.opened /\ ~w.v.stopped
    <3>1. PICK ra, rm : /\ Placed(w, "render", ra, rm) /\ Placed(w, "viewport", "none", r)
                        /\ w.v.inflight = (ra # "none") /\ Known(w.v, s, ra, rm)
                        /\ Arranged(w.v, s, "result", r) /\ Sized(w.v)
                        /\ r.cur /\ r.ok
      BY <2>18 DEF Awaited
    <3>2. Placed(o, "render", ra, rm) /\ Placed(o, "viewport", "none", r)
      BY <2>5, <3>1, SamePlaces
    <3>3. Going(o, s, ra, rm, "none", r)
      BY <2>2, <2>5, <2>18, <3>1, <3>2 DEF Going, Flows, Known, Have
    <3>4. p = RequestRender(o)
      BY <2>6, <3>1
    <3>5. \A t, a, m, b, n : Going(o, t, a, m, b, n) =>
            \E c, k : /\ Going(RequestRender(o), t, c, k, b, n)
                      /\ AtPeace(RequestRender(o).v, t, c, k)
      BY <2>5, RequestRenderGoes
    <3>6. PICK a, m : Going(p, s, a, m, "none", r) /\ AtPeace(p.v, s, a, m)
      <4>1. \E c, k : /\ Going(RequestRender(o), s, c, k, "none", r)
                      /\ AtPeace(RequestRender(o).v, s, c, k)
        BY <3>3, <3>5, Zenon
      <4> QED BY <3>4, <4>1
    <3>7. Sized(p.v) /\ p.v.size = w.v.size
      <4>1. p.v.lastVp = w.v.lastVp /\ p.v.size = w.v.size
        BY <2>5, <2>7 DEF SameBut, VFields
      <4> QED BY <3>1, <4>1 DEF Sized
    <3>8. CASE p.v.vpPending
      <4>1. Going(q, s, a, m, "none", r)
        BY <2>7, <2>10, <3>6, FieldGoes
      <4>2. \A t, c, k, b, n : Going(q, t, c, k, b, n) =>
              \E d, l : /\ Going(StartViewport(q, size), t, c, k, d, l)
                        /\ Arranged(StartViewport(q, size).v, t, d, l)
                        /\ AtPeace(StartViewport(q, size).v, t, c, k)
        BY <2>11, <2>12, StartViewportGoes
      <4>3. PICK d, l : /\ Going(u, s, a, m, d, l) /\ Arranged(u.v, s, d, l)
                        /\ AtPeace(u.v, s, a, m)
        <5>1. \E d, l : /\ Going(StartViewport(q, size), s, a, m, d, l)
                        /\ Arranged(StartViewport(q, size).v, s, d, l)
                        /\ AtPeace(StartViewport(q, size).v, s, a, m)
          BY <4>1, <4>2, Zenon
        <5> QED BY <2>12, <5>1
      <4>4. Sized(u.v)
        BY <2>11, <2>15, <3>7 DEF Sized
      <4>5. Good(u, s, a, m, d, l)
        BY <4>3, <4>4 DEF Good
      <4> QED BY <1>0, <2>5, <2>8, <2>11, <2>13, <2>14, <2>15, <2>18, <3>8, <4>5 DEF Fresh
    <3>9. CASE ~p.v.vpPending
      <4>1. Arranged(p.v, s, "none", r)
        BY <2>5, <2>8, <3>1, <3>9 DEF Arranged
      <4>2. Good(p, s, a, m, "none", r)
        BY <3>6, <3>7, <4>1 DEF Good
      <4> QED BY <1>0, <2>5, <2>7, <2>8, <2>13, <2>18, <3>9, <4>2 DEF Fresh
    <3> QED BY <3>8, <3>9
  <2> QED BY <2>16, <2>17, <2>18
<1> QED BY <1>1, <1>2

\* An open page is scrolled, laid out and drawn.
LEMMA OpenedGoes ==
  ASSUME NEW w, Ready(w), w.v.opened,
         NEW o, o = RequestRender(MaybeUpdateViewport(ScrollTo(w, 0)))
  PROVE  /\ Ready(o) /\ o.v.opened /\ o.v.stopped = w.v.stopped
         /\ \A s, ra, rm, va, vm : Going(w, s, ra, rm, va, vm) /\ Arranged(w.v, s, va, vm) =>
              \E a, m, b, n : Good(o, s, a, m, b, n)
<1>1. PICK p : p = ScrollTo(w, 0)
  OBVIOUS
<1>2. PICK q : q = MaybeUpdateViewport(p)
  OBVIOUS
<1>3. /\ Ready(p) /\ SameBut(w, p, {"scroll", "inflight", "pending", "forceFull"})
  BY <1>1, ScrollToGoes
<1>4. Ready(q) /\ SameBut(p, q, {"lastVp", "vpInflight", "vpPending"})
  BY <1>2, <1>3, MaybeUpdateViewportGoes
<1>5. o = RequestRender(q) /\ Ready(o) /\ SameBut(q, o, {"inflight", "pending", "forceFull"})
  BY <1>1, <1>2, <1>4, RequestRenderGoes
<1>6. o.v.opened = w.v.opened /\ o.v.stopped = w.v.stopped
  BY <1>3, <1>4, <1>5 DEF SameBut, VFields
<1>7. ASSUME NEW s, NEW ra, NEW rm, NEW va, NEW vm, Going(w, s, ra, rm, va, vm),
             Arranged(w.v, s, va, vm)
      PROVE  \E a, m, b, n : Good(o, s, a, m, b, n)
  <2>1. PICK c, k : Going(p, s, c, k, va, vm)
    <3>1. \A t, e, f, g, h : Going(w, t, e, f, g, h) =>
            \E i, j : /\ Going(ScrollTo(w, 0), t, i, j, g, h)
                      /\ AtPeace(w.v, t, e, f) => AtPeace(ScrollTo(w, 0).v, t, i, j)
      BY ScrollToGoes
    <3> QED BY <1>1, <1>7, <3>1, Zenon
  <2>2. Arranged(p.v, s, va, vm)
    <3>1. {"scroll", "inflight", "pending", "forceFull"} \cap {"lastVp", "size", "vpPending"} = {}
      OBVIOUS
    <3> QED BY <1>3, <1>7, <3>1, ArrangedKept
  <2>3. PICK b, n : /\ Going(q, s, c, k, b, n) /\ Arranged(q.v, s, b, n) /\ Sized(q.v)
    <3>1. \A t, e, f, g, h : Going(p, t, e, f, g, h) /\ Arranged(p.v, t, g, h) =>
            \E i, j : /\ Going(MaybeUpdateViewport(p), t, e, f, i, j)
                      /\ Arranged(MaybeUpdateViewport(p).v, t, i, j)
                      /\ Sized(MaybeUpdateViewport(p).v)
                      /\ AtPeace(p.v, t, e, f) \/ ViewportMoved(p.v) =>
                           AtPeace(MaybeUpdateViewport(p).v, t, e, f)
      BY <1>3, MaybeUpdateViewportGoes
    <3> QED BY <1>2, <2>1, <2>2, <3>1, Zenon
  <2>4. PICK a, m : Going(o, s, a, m, b, n) /\ AtPeace(o.v, s, a, m)
    <3>1. \A t, e, f, g, h : Going(q, t, e, f, g, h) =>
            \E i, j : /\ Going(RequestRender(q), t, i, j, g, h)
                      /\ AtPeace(RequestRender(q).v, t, i, j)
      BY <1>4, RequestRenderGoes
    <3>2. \E i, j : /\ Going(RequestRender(q), s, i, j, b, n)
                    /\ AtPeace(RequestRender(q).v, s, i, j)
      BY <2>3, <3>1, Zenon
    <3> QED BY <1>5, <3>2
  <2>5. Arranged(o.v, s, b, n) /\ Sized(o.v)
    <3>1. {"inflight", "pending", "forceFull"} \cap {"lastVp", "size", "vpPending"} = {}
      OBVIOUS
    <3> QED BY <1>5, <2>3, <3>1, ArrangedKept
  <2> QED BY <2>4, <2>5 DEF Good
<1> QED BY <1>5, <1>6, <1>7

\* The first of the results of loads, and those behind it.
LEMMA TailLoads ==
  ASSUME NEW p, NEW K, IsQueue(p, K), p # <<>>, NEW q, NEW laid, LoadsCome(p, q, laid)
  PROVE  /\ LoadsCome(Tail(p), q, laid)
         /\ Head(p).kind = "load" /\ Head(p).cur =>
              /\ Light(q) /\ Nil(Tail(p), "render") /\ Nil(Tail(p), "viewport")
              /\ Head(p).outcome # "fail" => laid
<1>1. PICK o, l : o = Tail(p) /\ l = Len(p)
  OBVIOUS
<1>2. l \in Nat \ {0} /\ Len(o) = l - 1 /\ (\A i \in 1..Len(o) : o[i] = p[i + 1]) /\ Head(p) = p[1]
  BY <1>1, Tailed
<1>3. \A i \in 1..Len(o) : i + 1 \in 1..l /\ i + 1 > 1
  BY <1>2
<1>4. 1 \in 1..l
  BY <1>2
<1>5. ASSUME NEW i \in 1..Len(o), o[i].kind = "load", o[i].cur
      PROVE  /\ Light(q)
             /\ \A x \in 1..Len(o) : x > i => o[x].kind \notin {"render", "viewport"}
             /\ o[i].outcome # "fail" => laid
  <2>1. PICK m : m = o[i] /\ m = p[i + 1] /\ m.kind = "load" /\ m.cur
    BY <1>2, <1>5
  <2>2. i + 1 \in 1..l
    BY <1>3
  <2>3. /\ Light(q) /\ (m.outcome # "fail" => laid)
        /\ \A x \in 1..l : x > i + 1 => p[x].kind \notin {"render", "viewport"}
    BY <1>1, <2>1, <2>2 DEF LoadsCome
  <2>4. ASSUME NEW x \in 1..Len(o), x > i PROVE o[x].kind \notin {"render", "viewport"}
    <3>1. x + 1 \in 1..l /\ x + 1 > i + 1
      BY <1>2, <1>3, <2>4
    <3> QED BY <1>2, <2>3, <3>1
  <2> QED BY <2>1, <2>3, <2>4
<1>6. LoadsCome(o, q, laid)
  BY <1>5 DEF LoadsCome
<1>7. ASSUME Head(p).kind = "load", Head(p).cur
      PROVE  /\ Light(q) /\ Nil(o, "render") /\ Nil(o, "viewport")
             /\ Head(p).outcome # "fail" => laid
  <2>1. PICK m : m = Head(p) /\ m = p[1] /\ m.kind = "load" /\ m.cur
    BY <1>2, <1>7
  <2>2. /\ Light(q) /\ (m.outcome # "fail" => laid)
        /\ \A x \in 1..l : x > 1 => p[x].kind \notin {"render", "viewport"}
    BY <1>1, <1>4, <2>1 DEF LoadsCome
  <2>3. \A x \in 1..Len(o) : o[x].kind \notin {"render", "viewport"}
    BY <1>2, <1>3, <2>2
  <2> QED BY <2>1, <2>2, <2>3 DEF Nil
<1> QED BY <1>1, <1>6, <1>7

\* The result of a load that the view, if it has no page open, waits for.
Coming(w, s, r) ==
  r.cur /\ ~w.v.opened =>
    /\ Light(w.jobs) /\ Nil(w.idles, "render") /\ Nil(w.idles, "viewport")
    /\ r.outcome # "fail" => Laid(w.v, s)

\* The next result is in hand.
LEMMA Popped ==
  ASSUME NEW x, NEW s, Fresh(x, s), x.idles # <<>>,
         NEW w, w = [x EXCEPT !.idles = Tail(@)], NEW r, r = Head(x.idles)
  PROVE  /\ r.kind \notin {"render", "viewport"} => Fresh(w, s)
         /\ r.kind = "load" => Coming(w, s, r)
         /\ r.kind = "render" => Expected(w, s, r)
         /\ r.kind = "viewport" => Awaited(w, s, r)
<1>1. Ready(x) /\ SessionFresh(s) /\ IsWorld(x)
  BY DEF Fresh, Ready
<1>2. PICK p : p = x.idles /\ p # <<>> /\ IsQueue(p, Results)
  BY <1>1 DEF IsWorld
<1>3. w.v = x.v /\ w.jobs = x.jobs /\ w.refs = x.refs /\ w.idles = Tail(p) /\ DOMAIN w = DOMAIN x
  BY <1>1, <1>2 DEF IsWorld
<1>4. Ready(w)
  <2>1. IsQueue(Tail(p), Results)
    BY <1>2, TailQueue
  <2>2. IsWorld(w)
    BY <1>1, <1>3, <2>1 DEF IsWorld
  <2> QED BY <1>1, <1>3, <2>2 DEF Ready
<1>5. r = Head(p)
  BY <1>2
<1>6. CASE ~x.v.opened
  <2>1. PICK laid : laid = Laid(x.v, s)
    OBVIOUS
  <2>2. LoadsCome(p, x.jobs, laid)
    BY <1>2, <1>6, <2>1 DEF Fresh, Waiting, LoadsCome
  <2>3. /\ LoadsCome(Tail(p), x.jobs, laid)
        /\ r.kind = "load" /\ r.cur =>
             /\ Light(x.jobs) /\ Nil(Tail(p), "render") /\ Nil(Tail(p), "viewport")
             /\ r.outcome # "fail" => laid
    BY <1>2, <1>5, <2>2, TailLoads
  <2>4. Waiting(w, s)
    <3>1. LoadsCome(w.idles, w.jobs, Laid(w.v, s))
      BY <1>3, <2>1, <2>3 DEF LoadsCome
    <3> QED BY <1>3, <1>6, <3>1 DEF Fresh, Waiting
  <2>5. r.kind = "load" => Coming(w, s, r)
    BY <1>3, <2>1, <2>3 DEF Coming
  <2>6. Fresh(w, s) /\ Expected(w, s, r) /\ Awaited(w, s, r)
    BY <1>1, <1>3, <1>4, <1>6, <2>4 DEF Fresh, Expected, Awaited
  <2> QED BY <2>5, <2>6
<1>7. CASE x.v.opened /\ x.v.stopped
  BY <1>1, <1>3, <1>4, <1>7 DEF Fresh, Expected, Awaited, Coming
<1>8. CASE x.v.opened /\ ~x.v.stopped
  <2>1. PICK ra, rm, va, vm : Good(x, s, ra, rm, va, vm)
    BY <1>8 DEF Fresh
  <2>2. /\ Placed(x, "render", ra, rm) /\ Placed(x, "viewport", va, vm)
        /\ Flows(x.v, s, ra, rm, va, vm)
    BY <2>1 DEF Good, Going
  <2>3. Arranged(x.v, s, va, vm) /\ Sized(x.v) /\ AtPeace(x.v, s, ra, rm)
    BY <2>1 DEF Good
  <2>4. ASSUME NEW k, NEW at, NEW m, Placed(x, k, at, m)
        PROVE  /\ r.kind # k => Placed(w, k, at, m)
               /\ r.kind = k => at = "result" /\ r = m /\ m.cur /\ \A n : Placed(w, k, "none", n)
    <3>1. /\ Nil(p, k) => Nil(Tail(p), k) /\ r.kind # k
          /\ \A n : One(p, k, n) /\ n.kind = k =>
               \/ r = n /\ Nil(Tail(p), k)
               \/ r.kind # k /\ One(Tail(p), k, n)
      BY <1>2, <1>5, TailKind
    <3>2. CASE at = "none" /\ Nil(x.jobs, k) /\ Nil(p, k)
      BY <1>3, <3>1, <3>2 DEF Placed
    <3>3. CASE at = "job" /\ One(x.jobs, k, m) /\ Nil(p, k) /\ m.kind = k /\ m.cur
      BY <1>3, <3>1, <3>3 DEF Placed
    <3>4. CASE at = "result" /\ Nil(x.jobs, k) /\ One(p, k, m) /\ m.kind = k /\ m.cur
      <4>1. CASE r = m /\ Nil(Tail(p), k)
        BY <1>3, <3>4, <4>1 DEF Placed
      <4>2. CASE r.kind # k /\ One(Tail(p), k, m)
        BY <1>3, <3>4, <4>2 DEF Placed
      <4> QED BY <3>1, <3>4, <4>1, <4>2
    <3> QED BY <1>2, <2>4, <3>2, <3>3, <3>4 DEF Placed
  <2>5. CASE r.kind \notin {"render", "viewport"}
    <3>1. Placed(w, "render", ra, rm) /\ Placed(w, "viewport", va, vm)
      BY <2>2, <2>4, <2>5
    <3>2. Good(w, s, ra, rm, va, vm)
      BY <1>3, <1>8, <2>2, <2>3, <3>1 DEF Good, Going
    <3>3. Fresh(w, s)
      BY <1>1, <1>3, <1>4, <1>8, <3>2 DEF Fresh
    <3> QED BY <1>3, <1>8, <2>5, <3>3 DEF Coming
  <2>6. CASE r.kind = "render"
    <3>1. ra = "result" /\ r = rm /\ r.cur /\ Placed(w, "render", "none", r)
      BY <2>2, <2>4, <2>6
    <3>2. Placed(w, "viewport", va, vm)
      BY <2>2, <2>4, <2>6
    <3>3. /\ w.v.inflight = TRUE /\ w.v.vpInflight = (va # "none") /\ (va = "result" => vm.ok)
          /\ r.ok /\ r.gen = s.gen /\ (r.has \in {"full", "patch"} \/ Have(w.v, s))
      BY <1>3, <2>2, <3>1 DEF Flows, Known
    <3>4. Promised(w.v, s, r)
      BY <1>3, <2>3, <3>1 DEF AtPeace, Settled, Promised
    <3>5. Handed(w, s, r, va, vm)
      BY <1>3, <1>8, <2>3, <3>1, <3>2, <3>3 DEF Handed
    <3> QED BY <1>1, <1>3, <1>4, <1>8, <2>6, <3>3, <3>4, <3>5 DEF Expected
  <2>7. CASE r.kind = "viewport"
    <3>1. va = "result" /\ r = vm /\ r.cur /\ Placed(w, "viewport", "none", r)
      BY <2>2, <2>4, <2>7
    <3>2. Placed(w, "render", ra, rm)
      BY <2>2, <2>4, <2>7
    <3>3. /\ w.v.inflight = (ra # "none") /\ Known(w.v, s, ra, rm) /\ r.ok
          /\ Arranged(w.v, s, "result", r) /\ Sized(w.v)
      BY <1>3, <2>2, <2>3, <3>1 DEF Flows
    <3> QED BY <1>1, <1>3, <1>4, <1>8, <2>7, <3>1, <3>2, <3>3 DEF Awaited
  <2> QED BY <2>5, <2>6, <2>7
<1> QED BY <1>6, <1>7, <1>8

\* A page that is now open.
LEMMA OpenedReady ==
  ASSUME NEW w, Ready(w),
         NEW o, o = [w EXCEPT !.v = [@ EXCEPT !.redirects = 0, !.opened = TRUE, !.loading = FALSE]]
  PROVE  /\ Ready(o) /\ SameBut(w, o, {"opened"}) /\ o.v.opened = TRUE
         /\ o.jobs = w.jobs /\ o.idles = w.idles
<1>1. /\ IsWorld(w) /\ {"v", "jobs", "idles", "refs"} \subseteq DOMAIN w
      /\ VFields \subseteq DOMAIN w.v /\ "asking" \in DOMAIN w.v
  BY DEF Ready, IsWorld
<1>2. /\ o.jobs = w.jobs /\ o.idles = w.idles /\ o.refs = w.refs /\ DOMAIN o = DOMAIN w
      /\ o.v = [w.v EXCEPT !.redirects = 0, !.opened = TRUE, !.loading = FALSE]
  BY <1>1
<1>3. PICK v, u : v = w.v /\ u = o.v
  OBVIOUS
<1>4. /\ u = [v EXCEPT !.redirects = 0, !.opened = TRUE, !.loading = FALSE]
      /\ VFields \subseteq DOMAIN v /\ "asking" \in DOMAIN v
  BY <1>1, <1>2, <1>3
<1>5. /\ DOMAIN u = DOMAIN v /\ u.opened = TRUE /\ u.asking = v.asking
      /\ \A f \in VFields \ {"opened"} : u[f] = v[f]
  BY <1>4 DEF VFields
<1>6. u.closed = v.closed /\ u.load = v.load /\ u.size = v.size
  BY <1>5 DEF VFields
<1>7. IsWorld(o)
  BY <1>1, <1>2, <1>3, <1>5, <1>6 DEF IsWorld
<1>8. Ready(o)
  BY <1>3, <1>4, <1>5, <1>6, <1>7 DEF Ready
<1> QED BY <1>2, <1>3, <1>5, <1>8 DEF SameBut

\* on_result, of a load.
LEMMA OnPageFresh ==
  ASSUME NEW w, NEW s, NEW H, Fits(w, s, H), Fresh(w, s), NEW r, Coming(w, s, r)
  PROVE  Fresh(OnPage(w, r), s)
<1>0. Ready(w) /\ SessionFresh(s)
  BY DEF Fresh
<1>1. CASE ~r.cur BY <1>1 DEF OnPage
<1>2. CASE r.cur /\ r.outcome = "fail"
  <2>1. PICK o : o = [w EXCEPT !.v.loading = FALSE] /\ OnPage(w, r) = o
    BY <1>2 DEF OnPage
  <2>2. o = [w EXCEPT !.v = [w.v EXCEPT !["loading"] = FALSE]]
    BY <2>1
  <2>3. "loading" \notin VFields \cup {"asking"}
    BY DEF VFields
  <2>4. Fresh(o, s)
    BY <2>2, <2>3, FieldFresh
  <2> QED BY <2>1, <2>4
<1>3. CASE r.cur /\ r.outcome # "fail" /\ r.outcome = "redirect" /\ w.v.redirects < MaxRedirects
  <2>1. PICK o : o = [w EXCEPT !.v.redirects = @ + 1] /\ OnPage(w, r) = DoLoad(o)
    BY <1>3 DEF OnPage
  <2>2. o = [w EXCEPT !.v = [w.v EXCEPT !["redirects"] = w.v.redirects + 1]]
    BY <2>1
  <2>3. "redirects" \notin Kernel /\ "redirects" \notin VFields \cup {"asking"}
    BY DEF Kernel, VFields
  <2>4. Fits(o, s, H)
    BY <2>2, <2>3, FieldFits
  <2>5. Fresh(o, s)
    BY <2>2, <2>3, FieldFresh
  <2>6. Ready(o)
    BY <2>5 DEF Fresh
  <2> QED BY <1>0, <2>1, <2>4, <2>6, DoLoadFresh
<1>4. CASE r.cur /\ r.outcome # "fail" /\ ~(r.outcome = "redirect" /\ w.v.redirects < MaxRedirects)
  <2>1. PICK o : /\ o = [w EXCEPT !.v = [@ EXCEPT !.redirects = 0, !.opened = TRUE, !.loading = FALSE]]
                 /\ OnPage(w, r) = RequestRender(MaybeUpdateViewport(ScrollTo(o, 0)))
    BY <1>4 DEF OnPage
  <2>2. Ready(o) /\ SameBut(w, o, {"opened"}) /\ o.v.opened = TRUE
        /\ o.jobs = w.jobs /\ o.idles = w.idles
    BY <1>0, <2>1, OpenedReady
  <2>3. PICK p : /\ p = OnPage(w, r) /\ Ready(p) /\ p.v.opened /\ p.v.stopped = o.v.stopped
                 /\ \A t, ra, rm, va, vm : Going(o, t, ra, rm, va, vm) /\ Arranged(o.v, t, va, vm) =>
                      \E a, m, b, n : Good(p, t, a, m, b, n)
    BY <2>1, <2>2, OpenedGoes
  <2>4. /\ o.v.stopped = w.v.stopped /\ o.v.inflight = w.v.inflight /\ o.v.frame = w.v.frame
        /\ o.v.vpInflight = w.v.vpInflight /\ o.v.forceFull = w.v.forceFull
        /\ o.v.vpPending = w.v.vpPending /\ o.v.lastVp = w.v.lastVp
    BY <2>2 DEF SameBut, VFields
  <2>5. CASE ~w.v.opened
    <3>1. /\ Light(w.jobs) /\ Nil(w.idles, "render") /\ Nil(w.idles, "viewport")
          /\ Laid(w.v, s)
      BY <1>4, <2>5 DEF Coming
    <3>2. Nil(w.jobs, "render") /\ Nil(w.jobs, "viewport")
      BY <3>1 DEF Light, Nil, Heavy
    <3>3. Placed(o, "render", "none", r) /\ Placed(o, "viewport", "none", r)
      BY <2>2, <3>1, <3>2 DEF Placed
    <3>4. w.v.inflight = FALSE /\ w.v.vpInflight = FALSE
      BY <2>5 DEF Fresh, Waiting
    <3>5. Going(o, s, "none", r, "none", r)
      BY <2>2, <2>4, <3>1, <3>3, <3>4 DEF Going, Flows, Known, Laid
    <3>6. Arranged(o.v, s, "none", r)
      BY <2>4, <3>1 DEF Arranged, Laid
    <3> QED BY <1>0, <2>3, <3>5, <3>6 DEF Fresh
  <2>6. CASE w.v.opened /\ w.v.stopped
    BY <1>0, <2>3, <2>4, <2>6 DEF Fresh
  <2>7. CASE w.v.opened /\ ~w.v.stopped
    <3>1. PICK ra, rm, va, vm : Good(w, s, ra, rm, va, vm)
      BY <2>7 DEF Fresh
    <3>2. Placed(o, "render", ra, rm) /\ Placed(o, "viewport", va, vm)
      BY <2>2, <3>1, SamePlaces DEF Good, Going
    <3>3. Going(o, s, ra, rm, va, vm)
      BY <2>2, <2>4, <3>1, <3>2 DEF Good, Going, Flows, Known, Have
    <3>4. Arranged(o.v, s, va, vm)
      BY <2>4, <3>1 DEF Good, Arranged
    <3> QED BY <1>0, <2>3, <3>3, <3>4 DEF Fresh
  <2> QED BY <2>5, <2>6, <2>7
<1> QED BY <1>1, <1>2, <1>3, <1>4


-----------------------------------------------------------------------------
(* Steps of the main loop, on freshness *)

\* on_result, for an open view.
LEMMA OnResultFresh ==
  ASSUME NEW w, NEW s, NEW H, Fits(w, s, H), NEW r, r.kind \in Results,
         ResultFits(r, w.v.load, s, H, w.jobs),
         r.kind \notin {"render", "viewport"} => Fresh(w, s),
         r.kind = "load" => Coming(w, s, r),
         r.kind = "render" => Expected(w, s, r),
         r.kind = "viewport" => Awaited(w, s, r)
  PROVE  Fresh(OnResult(w, r), s)
<1>0. ~w.v.closed
  BY DEF Fits
<1>1. CASE r.kind = "load"
  <2>1. OnResult(w, r) = OnPage(w, r) BY <1>0, <1>1 DEF OnResult
  <2> QED BY <1>1, <2>1, OnPageFresh
<1>2. CASE r.kind = "render"
  <2>1. OnResult(w, r) = OnFrame(w, r) BY <1>0, <1>2 DEF OnResult
  <2> QED BY <1>2, <2>1, OnFrameFresh
<1>3. CASE r.kind = "viewport"
  <2>1. OnResult(w, r) = OnViewport(w, r) BY <1>0, <1>3 DEF OnResult
  <2> QED BY <1>3, <2>1, OnViewportFresh
<1>4. CASE r.kind \in {"click", "release"}
  <2>1. OnResult(w, r) = DoLoad(w) \/ OnResult(w, r) = RequestRender(w) \/ OnResult(w, r) = w
    BY <1>0, <1>4 DEF OnResult, OnClick, OnRelease
  <2>2. Fresh(w, s)
    BY <1>4
  <2>3. Fresh(DoLoad(w), s)
    BY <2>2, DoLoadFresh DEF Fresh
  <2>4. Fresh(RequestRender(w), s)
    BY <2>2, RequestRenderFresh
  <2> QED BY <2>1, <2>2, <2>3, <2>4
<1>5. CASE r.kind = "wake"
  <2>1. OnResult(w, r) = OnWake(w) BY <1>0, <1>5 DEF OnResult
  <2>2. Fresh(w, s)
    BY <1>5
  <2>3. CASE w.v.opened
    <3>1. PICK o : o = [w EXCEPT !.v.armed = TRUE] /\ OnWake(w) = o
      BY <2>3 DEF OnWake
    <3>2. o = [w EXCEPT !.v = [w.v EXCEPT !["armed"] = TRUE]]
      BY <3>1
    <3>3. "armed" \notin VFields \cup {"asking"}
      BY DEF VFields
    <3>4. Fresh(o, s)
      BY <2>2, <3>2, <3>3, FieldFresh
    <3> QED BY <2>1, <3>1, <3>4
  <2>4. CASE ~w.v.opened
    BY <2>1, <2>2, <2>4 DEF OnWake
  <2> QED BY <2>3, <2>4
<1>6. CASE r.kind \in {"export", "unref"}
  <2>1. OnResult(w, r) = w BY <1>0, <1>6 DEF OnResult
  <2> QED BY <1>6, <2>1
<1> QED BY <1>1, <1>2, <1>3, <1>4, <1>5, <1>6 DEF Results

\* A world with other references, whose view is otherwise the same.
LEMMA HolderFresh ==
  ASSUME NEW w, NEW s, Fresh(w, s), NEW o, IsWorld(o),
         o.jobs = w.jobs, o.idles = w.idles,
         VFields \subseteq DOMAIN o.v, SameBut(w, o, {})
  PROVE  Fresh(o, s)
<1>1. Ready(w)
  BY DEF Fresh
<1>2. o.v.closed = w.v.closed /\ o.v.load = w.v.load /\ o.v.size = w.v.size
  BY DEF SameBut, VFields
<1>3. Ready(o)
  BY <1>1, <1>2 DEF Ready
<1>4. Tweaked(w, o, {})
  BY <1>3 DEF Tweaked
<1> QED BY <1>4, SameFresh

\* The part of the invariant that is about an open view.
Rested == ~view.closed => Fresh(World, session)

\* The world that a step leaves.
LEMMA FreshBecomes ==
  ASSUME Counted', NEW STATE o, NEW s, Fresh(o, s),
         view' = o.v, jobs' = o.jobs, idles' = o.idles, session' = s
  PROVE  Rested'
<1>1. PICK w : w = [v |-> view', jobs |-> jobs', idles |-> idles', refs |-> refs']
  OBVIOUS
<1>2. World' = w /\ w.v = view' /\ w.jobs = jobs' /\ w.idles = idles'
  BY <1>1 DEF World
<1>3. IsWorld(w)
  BY <1>2 DEF Counted
<1>4. VFields \subseteq DOMAIN w.v
  BY <1>2 DEF Fresh, Ready
<1>5. SameBut(o, w, {})
  BY <1>2 DEF SameBut
<1>6. Fresh(w, s)
  BY <1>2, <1>3, <1>4, <1>5, HolderFresh
<1>7. Fresh(World', session')
  BY <1>2, <1>6, Zenon
<1> QED BY <1>7, Zenon DEF Rested

\* The next idle.
LEMMA DeliverFresh == ASSUME Framed, Rested, Deliver PROVE Rested'
<1>c. Counted'
  BY DeliverCounted DEF Framed
<1>w. /\ World.v = view /\ World.jobs = jobs /\ World.idles = idles
      /\ {"v", "jobs", "idles", "refs"} \subseteq DOMAIN World /\ idles # <<>>
  BY DEF World, Deliver
<1>1. PICK w, r, o : /\ w = [World EXCEPT !.idles = Tail(@)] /\ r = Head(idles)
                     /\ o = OnResult(w, r) /\ Become([o EXCEPT !.refs = @ - 1])
  BY DEF Deliver
<1>2. PICK p : p = [o EXCEPT !.refs = @ - 1] /\ Become(p)
  BY <1>1
<1>3. p.v = o.v /\ p.jobs = o.jobs /\ p.idles = o.idles
  BY <1>2
<1>4. view' = o.v /\ jobs' = o.jobs /\ idles' = o.idles /\ session' = session
  BY <1>2, <1>3 DEF Become, Deliver
<1>5. w.v = view
  BY <1>w, <1>1
<1>6. CASE view.closed
  <2>1. o = w
    BY <1>1, <1>5, <1>6 DEF OnResult
  <2>2. view'.closed
    BY <1>4, <1>5, <1>6, <2>1
  <2> QED BY <2>2 DEF Rested
<1>7. CASE ~view.closed
  <2>1. PICK H : Fits(World, session, H)
    BY <1>7 DEF Framed
  <2>2. /\ Fits(w, session, H) /\ w.jobs = jobs
        /\ ResultFits(r, view.load, session, H, jobs) /\ r.kind \in Results
    BY <1>w, <1>1, <2>1, TailFits
  <2>3. ResultFits(r, w.v.load, session, H, w.jobs)
    BY <1>5, <2>2, Zenon
  <2>4. PICK x : x = World /\ x.idles = idles
    BY <1>w
  <2>5. Fresh(x, session)
    BY <1>7, <2>4 DEF Rested
  <2>6. w = [x EXCEPT !.idles = Tail(@)] /\ r = Head(x.idles) /\ x.idles # <<>>
    BY <1>w, <1>1, <2>4
  <2>7. /\ r.kind \notin {"render", "viewport"} => Fresh(w, session)
        /\ r.kind = "load" => Coming(w, session, r)
        /\ r.kind = "render" => Expected(w, session, r)
        /\ r.kind = "viewport" => Awaited(w, session, r)
    BY <2>5, <2>6, Popped
  <2>8. Fresh(OnResult(w, r), session)
    BY <2>2, <2>3, <2>7, OnResultFresh
  <2>9. Fresh(o, session)
    BY <1>1, <2>8
  <2> QED BY <1>c, <1>4, <2>9, FreshBecomes
<1> QED BY <1>6, <1>7


\* A message about something else is posted, or outdated, next to an open page.
LEMMA PlacesFresh ==
  ASSUME NEW w, NEW s, Fresh(w, s), w.v.opened, NEW o, Ready(o), o.v = w.v,
         \A k, at, m : Placed(w, k, at, m) /\ k \in {"render", "viewport"} => Placed(o, k, at, m)
  PROVE  Fresh(o, s)
<1>1. ASSUME NEW ra, NEW rm, NEW va, NEW vm, Good(w, s, ra, rm, va, vm)
      PROVE  Good(o, s, ra, rm, va, vm)
  <2>1. Placed(w, "render", ra, rm) /\ Placed(w, "viewport", va, vm)
    BY <1>1 DEF Good, Going
  <2>2. Placed(o, "render", ra, rm) /\ Placed(o, "viewport", va, vm)
    BY <2>1
  <2> QED BY <1>1, <2>2 DEF Good, Going
<1> QED BY <1>1 DEF Fresh

\* Another size.
LEMMA SizeReady ==
  ASSUME NEW w, Ready(w), NEW size \in Nat, NEW o, o = [w EXCEPT !.v.size = size]
  PROVE  Tweaked(w, o, {"size"}) /\ o.v.size = size
<1>1. /\ IsWorld(w) /\ {"v", "jobs", "idles", "refs"} \subseteq DOMAIN w
      /\ VFields \subseteq DOMAIN w.v /\ "asking" \in DOMAIN w.v
  BY DEF Ready, IsWorld
<1>2. /\ o.jobs = w.jobs /\ o.idles = w.idles /\ o.refs = w.refs /\ DOMAIN o = DOMAIN w
      /\ o.v = [w.v EXCEPT !.size = size]
  BY <1>1
<1>3. PICK v, u : v = w.v /\ u = o.v
  OBVIOUS
<1>4. u = [v EXCEPT !.size = size] /\ VFields \subseteq DOMAIN v /\ "asking" \in DOMAIN v
  BY <1>1, <1>2, <1>3
<1>5. /\ DOMAIN u = DOMAIN v /\ u.size = size /\ u.asking = v.asking
      /\ \A f \in VFields \ {"size"} : u[f] = v[f]
  BY <1>4 DEF VFields
<1>6. u.closed = v.closed /\ u.load = v.load
  BY <1>5 DEF VFields
<1>7. IsWorld(o)
  BY <1>1, <1>2, <1>3, <1>5, <1>6 DEF IsWorld
<1>8. Ready(o)
  BY <1>3, <1>4, <1>5, <1>6, <1>7 DEF Ready
<1> QED BY <1>2, <1>3, <1>5, <1>8 DEF SameBut, Tweaked

\* on_resize: an open page is laid out again for the size, or drawn again when
\* there is nothing to lay out.
LEMMA ResizedFresh ==
  ASSUME NEW w, NEW s, Fresh(w, s), NEW b, Tweaked(w, b, {"size"}), NEW o,
         o = IF ~b.v.opened THEN b
             ELSE IF ViewportMoved(b.v) THEN MaybeUpdateViewport(b) ELSE RequestRender(b)
  PROVE  Fresh(o, s)
<1>1. /\ Ready(w) /\ Ready(b) /\ SessionFresh(s) /\ b.jobs = w.jobs /\ b.idles = w.idles
      /\ b.v.opened = w.v.opened /\ b.v.stopped = w.v.stopped /\ b.v.inflight = w.v.inflight
      /\ b.v.vpInflight = w.v.vpInflight /\ b.v.lastVp = w.v.lastVp
      /\ b.v.vpPending = w.v.vpPending
  BY DEF Tweaked, SameBut, VFields, Fresh
<1>2. CASE ~b.v.opened
  <2>1. Waiting(b, s)
    BY <1>1, <1>2 DEF Fresh, Waiting, Laid
  <2> QED BY <1>1, <1>2, <2>1 DEF Fresh
<1>3. CASE b.v.opened
  <2>1. /\ Ready(o) /\ o.v.opened /\ o.v.stopped = b.v.stopped
    <3>1. CASE ViewportMoved(b.v)
      <4>1. o = MaybeUpdateViewport(b)
        BY <1>3, <3>1
      <4>2. Ready(o) /\ SameBut(b, o, {"lastVp", "vpInflight", "vpPending"})
        BY <1>1, <4>1, MaybeUpdateViewportGoes
      <4> QED BY <1>3, <4>2 DEF SameBut, VFields
    <3>2. CASE ~ViewportMoved(b.v)
      <4>1. o = RequestRender(b)
        BY <1>3, <3>2
      <4>2. Ready(o) /\ SameBut(b, o, {"inflight", "pending", "forceFull"})
        BY <1>1, <4>1, RequestRenderGoes
      <4> QED BY <1>3, <4>2 DEF SameBut, VFields
    <3> QED BY <3>1, <3>2
  <2>2. ASSUME NEW ra, NEW rm, NEW va, NEW vm, Good(w, s, ra, rm, va, vm)
        PROVE  \E a, m, c, n : Good(o, s, a, m, c, n)
    <3>1. Going(b, s, ra, rm, va, vm)
      BY <1>1, <2>2, FieldGoes DEF Good
    <3>2. Arranged(b.v, s, va, vm)
      BY <1>1, <2>2 DEF Good, Arranged
    <3>3. CASE ViewportMoved(b.v)
      <4>1. \A t, e, f, g, h : Going(b, t, e, f, g, h) /\ Arranged(b.v, t, g, h) =>
              \E i, j : /\ Going(MaybeUpdateViewport(b), t, e, f, i, j)
                        /\ Arranged(MaybeUpdateViewport(b).v, t, i, j)
                        /\ Sized(MaybeUpdateViewport(b).v)
                        /\ AtPeace(b.v, t, e, f) \/ ViewportMoved(b.v) =>
                             AtPeace(MaybeUpdateViewport(b).v, t, e, f)
        BY <1>1, MaybeUpdateViewportGoes
      <4>2. \E i, j : /\ Going(MaybeUpdateViewport(b), s, ra, rm, i, j)
                      /\ Arranged(MaybeUpdateViewport(b).v, s, i, j)
                      /\ Sized(MaybeUpdateViewport(b).v)
                      /\ AtPeace(MaybeUpdateViewport(b).v, s, ra, rm)
        BY <3>1, <3>2, <3>3, <4>1, Zenon
      <4>3. o = MaybeUpdateViewport(b)
        BY <1>3, <3>3
      <4>4. PICK i, j : /\ Going(o, s, ra, rm, i, j) /\ Arranged(o.v, s, i, j)
                        /\ Sized(o.v) /\ AtPeace(o.v, s, ra, rm)
        BY <4>2, <4>3
      <4>5. Good(o, s, ra, rm, i, j)
        BY <4>4 DEF Good
      <4> QED BY <4>5
    <3>4. CASE ~ViewportMoved(b.v)
      <4>1. \A t, e, f, g, h : Going(b, t, e, f, g, h) =>
              \E i, j : /\ Going(RequestRender(b), t, i, j, g, h)
                        /\ AtPeace(RequestRender(b).v, t, i, j)
        BY <1>1, RequestRenderGoes
      <4>2. \E i, j : /\ Going(RequestRender(b), s, i, j, va, vm)
                      /\ AtPeace(RequestRender(b).v, s, i, j)
        BY <3>1, <4>1, Zenon
      <4>3. o = RequestRender(b)
        BY <1>3, <3>4
      <4>4. PICK i, j : Going(o, s, i, j, va, vm) /\ AtPeace(o.v, s, i, j)
        BY <4>2, <4>3
      <4>5. Sized(b.v)
        BY <1>1, <1>3, <3>4 DEF ViewportMoved, Sized, Ready
      <4>6. SameBut(b, o, {"inflight", "pending", "forceFull"})
        BY <1>1, <4>3, RequestRenderGoes
      <4>7. Arranged(o.v, s, va, vm) /\ Sized(o.v)
        <5>1. {"inflight", "pending", "forceFull"} \cap {"lastVp", "size", "vpPending"} = {}
          OBVIOUS
        <5> QED BY <3>2, <4>5, <4>6, <5>1, ArrangedKept
      <4>8. Good(o, s, i, j, va, vm)
        BY <4>4, <4>7 DEF Good
      <4> QED BY <4>8
    <3> QED BY <3>3, <3>4
  <2> QED BY <1>1, <1>3, <2>1, <2>2 DEF Fresh
<1> QED BY <1>2, <1>3

\* Requests and results that wait for the page, when renders are outdated.
LEMMA OutdatedLoads ==
  ASSUME NEW q, NEW K, IsQueue(q, K), NEW o, o = Outdated(q, {"render"})
  PROVE  /\ \A size : LoadsAreLast(q, size) => LoadsAreLast(o, size)
         /\ Light(q) => Light(o)
         /\ \A p, laid : LoadsCome(q, p, laid) => LoadsCome(o, p, laid)
<1>1. PICK l : l = Len(q)
  OBVIOUS
<1>2. Len(o) = l /\ DOMAIN q = 1..l
  BY <1>1, OutdatedQueue, QueueLength
<1>3. \A i \in 1..l : o[i] = IF q[i].kind \in {"render"} THEN [q[i] EXCEPT !.cur = FALSE] ELSE q[i]
  BY <1>1, <1>2 DEF Outdated
<1>4. ASSUME NEW i \in 1..l
      PROVE  o[i].kind = q[i].kind /\ (q[i].kind # "render" => o[i] = q[i])
  <2>1. PICK m : m = q[i] /\ "kind" \in DOMAIN m
    BY <1>1 DEF IsQueue
  <2>2. [m EXCEPT !.cur = FALSE].kind = m.kind
    BY <2>1
  <2> QED BY <1>3, <2>1, <2>2
<1>5. \A i \in 1..l : o[i].kind = "load" => o[i] = q[i] /\ q[i].kind = "load"
  BY <1>4
<1>6. ASSUME NEW size, LoadsAreLast(q, size) PROVE LoadsAreLast(o, size)
  BY <1>1, <1>2, <1>4, <1>5, <1>6 DEF LoadsAreLast
<1>7. Light(q) => Light(o)
  BY <1>1, <1>2, <1>4 DEF Light
<1>8. ASSUME NEW p, NEW laid, LoadsCome(q, p, laid) PROVE LoadsCome(o, p, laid)
  <2>1. ASSUME NEW i \in 1..l, o[i].kind = "load", o[i].cur
        PROVE  /\ Light(p) /\ (o[i].outcome # "fail" => laid)
               /\ \A x \in 1..l : x > i => o[x].kind \notin {"render", "viewport"}
    <3>1. PICK m : m = o[i] /\ m = q[i] /\ m.kind = "load" /\ m.cur
      BY <1>5, <2>1
    <3>2. /\ Light(p) /\ (m.outcome # "fail" => laid)
          /\ \A x \in 1..l : x > i => q[x].kind \notin {"render", "viewport"}
      BY <1>1, <1>8, <3>1 DEF LoadsCome
    <3> QED BY <1>4, <3>1, <3>2
  <2> QED BY <1>2, <2>1 DEF LoadsCome
<1> QED BY <1>6, <1>7, <1>8

\* ns_proc_view_stop: a render under way is given up, the rest goes on.
LEMMA StopFresh ==
  ASSUME NEW w, NEW s, Fresh(w, s),
         NEW o, IsWorld(o), VFields \subseteq DOMAIN o.v,
         o.jobs = Outdate(w, {"render"}).jobs, o.idles = Outdate(w, {"render"}).idles,
         SameBut(w, o, {"inflight", "pending", "stopped"}),
         o.v.inflight = FALSE, o.v.stopped <=> w.v.stopped \/ w.v.inflight
  PROVE  Fresh(o, s)
<1>1. Ready(w) /\ SessionFresh(s)
  BY DEF Fresh
<1>2. /\ o.v.closed = w.v.closed /\ o.v.load = w.v.load /\ o.v.size = w.v.size
      /\ o.v.opened = w.v.opened /\ o.v.vpInflight = w.v.vpInflight /\ o.v.lastVp = w.v.lastVp
      /\ o.v.frame = w.v.frame /\ o.v.forceFull = w.v.forceFull /\ o.v.scroll = w.v.scroll
      /\ o.v.vpPending = w.v.vpPending
  BY DEF SameBut, VFields
<1>3. Ready(o)
  BY <1>1, <1>2 DEF Ready
<1>4. o.jobs = Outdated(w.jobs, {"render"}) /\ o.idles = Outdated(w.idles, {"render"})
  BY <1>1 DEF Outdate, Ready, IsWorld
<1>5. CASE ~w.v.opened
  <2>1. PICK q, p, laid : /\ q = w.jobs /\ p = w.idles /\ laid = Laid(w.v, s)
                          /\ IsQueue(q, Requests) /\ IsQueue(p, Results)
    BY <1>1 DEF Ready, IsWorld
  <2>2. LoadsAreLast(q, w.v.lastVp) /\ LoadsCome(p, q, laid) /\ ~w.v.vpInflight
    BY <1>5, <2>1 DEF Fresh, Waiting, LoadsCome
  <2>3. PICK a : a = o.jobs /\ a = Outdated(q, {"render"})
    BY <1>4, <2>1
  <2>4. LoadsAreLast(a, w.v.lastVp) /\ (Light(q) => Light(a))
    BY <2>1, <2>2, <2>3, OutdatedLoads
  <2>5. LoadsCome(o.idles, q, laid)
    BY <1>4, <2>1, <2>2, OutdatedLoads
  <2>6. LoadsCome(o.idles, a, laid)
    BY <2>4, <2>5 DEF LoadsCome
  <2>7. laid = Laid(o.v, s)
    BY <1>2, <2>1 DEF Laid
  <2>8. LoadsCome(o.idles, o.jobs, Laid(o.v, s))
    BY <2>3, <2>6, <2>7 DEF LoadsCome
  <2>9. Waiting(o, s)
    BY <1>2, <2>2, <2>3, <2>4, <2>8 DEF Waiting
  <2> QED BY <1>1, <1>2, <1>3, <1>5, <2>9 DEF Fresh
<1>6. CASE w.v.opened /\ (w.v.stopped \/ w.v.inflight)
  BY <1>1, <1>2, <1>3, <1>6 DEF Fresh
<1>7. CASE w.v.opened /\ ~(w.v.stopped \/ w.v.inflight)
  <2>1. PICK ra, rm, va, vm : Good(w, s, ra, rm, va, vm)
    BY <1>7 DEF Fresh
  <2>2. /\ ra = "none" /\ Placed(w, "render", ra, rm) /\ Placed(w, "viewport", va, vm)
    BY <1>7, <2>1 DEF Good, Going, Flows
  <2>3. PICK a : a = Outdate(w, {"render"})
    OBVIOUS
  <2>4. \A k, at, m : Placed(w, k, at, m) /\ (k \notin {"render"} \/ at = "none") => Placed(a, k, at, m)
    BY <1>1, <2>3, OutdateReady
  <2>5. "viewport" \notin {"render"}
    OBVIOUS
  <2>6. Placed(a, "render", ra, rm) /\ Placed(a, "viewport", va, vm)
    BY <2>2, <2>4, <2>5, Zenon
  <2>7. Placed(o, "render", ra, rm) /\ Placed(o, "viewport", va, vm)
    BY <2>3, <2>6, SamePlaces
  <2>8. Going(o, s, ra, rm, va, vm)
    BY <1>2, <1>7, <2>1, <2>2, <2>7 DEF Good, Going, Flows, Known, Have
  <2>9. Arranged(o.v, s, va, vm) /\ Sized(o.v)
    BY <1>2, <2>1 DEF Good, Arranged, Sized
  <2>10. AtPeace(o.v, s, ra, rm)
    BY <1>2, <2>1, <2>2 DEF Good, AtPeace, Settled, Have
  <2>11. Good(o, s, ra, rm, va, vm)
    BY <2>8, <2>9, <2>10 DEF Good
  <2> QED BY <1>1, <1>3, <2>11, <1>2, <1>7 DEF Fresh
<1> QED BY <1>5, <1>6, <1>7


\* Steps that touch neither a queue nor what freshness depends on.
LEMMA HolderRested ==
  ASSUME Rested, Counted', jobs' = jobs, idles' = idles, session' = session,
         VFields \subseteq DOMAIN view', \A f \in VFields : view'[f] = view[f]
  PROVE  Rested'
<1>1. CASE view.closed
  <2>1. view'.closed BY <1>1 DEF VFields
  <2> QED BY <2>1 DEF Rested
<1>2. CASE ~view.closed
  <2>0. World.v = view /\ World.jobs = jobs /\ World.idles = idles
    BY DEF World
  <2>1. PICK x : x = World /\ x.v = view /\ x.jobs = jobs /\ x.idles = idles
    BY <2>0
  <2>2. Fresh(x, session)
    BY <1>2, <2>1 DEF Rested
  <2>3. PICK w : w = [v |-> view', jobs |-> jobs', idles |-> idles', refs |-> refs']
    OBVIOUS
  <2>4. World' = w /\ w.v = view' /\ w.jobs = jobs /\ w.idles = idles
    BY <2>3 DEF World
  <2>5. IsWorld(w)
    BY <2>4 DEF Counted
  <2>6. SameBut(x, w, {})
    BY <2>1, <2>4 DEF SameBut
  <2>7. Fresh(w, session)
    BY <2>1, <2>2, <2>4, <2>5, <2>6, HolderFresh
  <2>8. Fresh(World', session')
    BY <2>4, <2>7, Zenon
  <2> QED BY <2>8, Zenon DEF Rested
<1> QED BY <1>1, <1>2

\* What the handlers of an open view do.
LEMMA HandlerFresh ==
  ASSUME Framed, Rested,
         \/ Load \/ Stop
         \/ \E size \in Sizes : Resize(size)
         \/ \E pos \in Scrolls : ScrollView(pos)
         \/ \E kind \in {"click", "release"} : Press(kind)
  PROVE  Rested'
<1>c. Counted'
  BY HandlerCounted DEF Framed
<1>w. World.v = view /\ World.idles = idles /\ World.jobs = jobs
  BY DEF World
<1>1. ~view.closed /\ session' = session
  BY DEF Load, Stop, Resize, ScrollView, Press
<1>2. PICK H : Fits(World, session, H)
  BY <1>1 DEF Framed
<1>3. Fresh(World, session) /\ Ready(World) /\ SessionFresh(session)
  BY <1>1 DEF Rested, Fresh
<1>4. ASSUME NEW STATE o, Fresh(o, session), Become(o) PROVE Rested'
  BY <1>c, <1>1, <1>4, FreshBecomes DEF Become
<1>5. CASE Load
  <2>1. Fresh(DoLoad(World), session)
    BY <1>2, <1>3, DoLoadFresh
  <2>2. Become(DoLoad(World))
    BY <1>5 DEF Load
  <2> QED BY <1>4, <2>1, <2>2
<1>6. CASE Stop
  <2>1. PICK a : a = Outdate(World, {"render"}) /\ IsWorld(a) /\ a.v = view
    <3>1. IsWorld(Outdate(World, {"render"})) /\ Outdate(World, {"render"}).v = view
      BY <1>2, <1>w, OutdateSame DEF Fits, Same
    <3> QED BY <3>1
  <2>2. PICK o : o = [Outdate(World, {"render"}) EXCEPT !.v = Halted] /\ Become(o)
    BY <1>6, Zenon DEF Stop
  <2>3. o = [a EXCEPT !.v = Halted]
    BY <2>1, <2>2, Zenon
  <2>4. {"v", "jobs", "idles", "refs"} \subseteq DOMAIN a /\ VFields \subseteq DOMAIN view
        /\ "asking" \in DOMAIN view
    BY <1>3, <1>w, <2>1 DEF Ready, IsWorld
  <2>5. /\ o.jobs = a.jobs /\ o.idles = a.idles /\ o.refs = a.refs /\ DOMAIN o = DOMAIN a
        /\ o.v = Halted
    BY <2>3, <2>4
  <2>6. /\ DOMAIN Halted = DOMAIN view /\ Halted.asking = view.asking /\ Halted.closed = view.closed
        /\ \A f \in VFields \ {"inflight", "pending", "stopped"} : Halted[f] = view[f]
        /\ Halted.inflight = FALSE /\ (Halted.stopped <=> view.stopped \/ view.inflight)
    BY <2>4 DEF Halted, VFields
  <2>7. IsWorld(o)
    BY <2>1, <2>4, <2>5, <2>6 DEF IsWorld
  <2>8. SameBut(World, o, {"inflight", "pending", "stopped"})
    BY <1>w, <2>5, <2>6 DEF SameBut
  <2>9. PICK x : x = World
    OBVIOUS
  <2>10. /\ Fresh(x, session) /\ VFields \subseteq DOMAIN o.v
         /\ o.jobs = Outdate(x, {"render"}).jobs /\ o.idles = Outdate(x, {"render"}).idles
         /\ SameBut(x, o, {"inflight", "pending", "stopped"}) /\ o.v.inflight = FALSE
         /\ o.v.stopped <=> x.v.stopped \/ x.v.inflight
    BY <1>3, <1>w, <2>1, <2>4, <2>5, <2>6, <2>8, <2>9
  <2>11. Fresh(o, session)
    BY <2>7, <2>10, StopFresh
  <2> QED BY <1>4, <2>2, <2>11
<1>7. ASSUME NEW size \in Sizes, Resize(size) PROVE Rested'
  <2>1. PICK w : w = [World EXCEPT !.v.size = size]
    OBVIOUS
  <2>2. size \in Nat
    BY ViewAssumption
  <2>3. Tweaked(World, w, {"size"})
    BY <1>3, <2>1, <2>2, SizeReady
  <2>4. Ready(w)
    BY <2>3 DEF Tweaked
  <2>5. PICK o : /\ Become(o)
                 /\ o = IF w.v.deferred /\ size > 0 THEN DoLoad([w EXCEPT !.v.deferred = FALSE])
                        ELSE IF ~w.v.opened THEN w
                        ELSE IF ViewportMoved(w.v) THEN MaybeUpdateViewport(w)
                        ELSE RequestRender(w)
    <3>1. Become(IF w.v.deferred /\ size > 0 THEN DoLoad([w EXCEPT !.v.deferred = FALSE])
                 ELSE IF ~w.v.opened THEN w
                 ELSE IF ViewportMoved(w.v) THEN MaybeUpdateViewport(w)
                 ELSE RequestRender(w))
      BY <1>7, <2>1 DEF Resize
    <3> QED BY <3>1, Zenon
  <2>6. CASE w.v.deferred /\ size > 0
    <3>1. PICK b : b = [w EXCEPT !.v.deferred = FALSE] /\ o = DoLoad(b)
      BY <2>5, <2>6
    <3>2. b = [w EXCEPT !.v = [w.v EXCEPT !["deferred"] = FALSE]]
      BY <3>1
    <3>3. Fits(w, session, H)
      <4>1. w = [World EXCEPT !.v = [World.v EXCEPT !["size"] = size]] /\ "size" \notin Kernel
        BY <2>1 DEF Kernel
      <4> QED BY <1>2, <4>1, FieldFits
    <3>4. "deferred" \notin Kernel /\ "deferred" \notin Firm
      BY DEF Kernel, Firm
    <3>5. Fits(b, session, H)
      BY <3>2, <3>3, <3>4, FieldFits
    <3>6. Tweaked(w, b, {"deferred"})
      BY <2>4, <3>2, <3>4, FieldReady
    <3>7. Ready(b)
      BY <3>6 DEF Tweaked
    <3>8. Fresh(DoLoad(b), session)
      BY <1>3, <3>5, <3>7, DoLoadFresh
    <3> QED BY <1>4, <2>5, <3>1, <3>8
  <2>7. CASE ~(w.v.deferred /\ size > 0)
    <3>1. o = IF ~w.v.opened THEN w
              ELSE IF ViewportMoved(w.v) THEN MaybeUpdateViewport(w) ELSE RequestRender(w)
      BY <2>5, <2>7
    <3>2. Fresh(o, session)
      BY <1>3, <2>3, <3>1, ResizedFresh
    <3> QED BY <1>4, <2>5, <3>2
  <2> QED BY <2>6, <2>7
<1>8. ASSUME NEW pos \in Scrolls, ScrollView(pos) PROVE Rested'
  <2>1. Fresh(ScrollTo(World, pos), session)
    BY <1>3, ScrollToFresh
  <2>2. Become(ScrollTo(World, pos))
    BY <1>8 DEF ScrollView
  <2> QED BY <1>4, <2>1, <2>2
<1>9. ASSUME NEW kind \in {"click", "release"}, Press(kind) PROVE Rested'
  <2>1. PICK x : x = World /\ Fresh(x, session) /\ Ready(x) /\ x.v.opened
    BY <1>3, <1>9, <1>w DEF Press
  <2>2. PICK a : a = IF kind = "click" THEN Outdate(x, {"click"}) ELSE x
    OBVIOUS
  <2>3. /\ Ready(a) /\ a.v = x.v
        /\ \A k, at, m : Placed(x, k, at, m) /\ k \in {"render", "viewport"} => Placed(a, k, at, m)
    <3>1. CASE kind = "click"
      <4>1. a = Outdate(x, {"click"})
        BY <2>2, <3>1
      <4>2. /\ Ready(a) /\ a.v = x.v
            /\ \A k, at, m : Placed(x, k, at, m) /\ (k \notin {"click"} \/ at = "none") => Placed(a, k, at, m)
        BY <2>1, <4>1, OutdateReady
      <4>3. \A k \in {"render", "viewport"} : k \notin {"click"}
        OBVIOUS
      <4> QED BY <4>2, <4>3, Zenon
    <3>2. CASE kind # "click"
      BY <2>1, <2>2, <3>2
    <3> QED BY <3>1, <3>2
  <2>4. PICK req, o : /\ Become(o) /\ o = PushReq(a, req)
                      /\ {"kind", "cur"} \subseteq DOMAIN req /\ req.kind = kind
    <3> DEFINE req == [kind |-> kind, cur |-> TRUE, by |-> view.load]
    <3>1. Become(PushReq(a, req))
      BY <1>9, <2>1, <2>2 DEF Press
    <3> QED BY <3>1
  <2>5. IsMessage(req, Requests) /\ req.kind \notin {"render", "viewport"}
    BY <1>9, <2>4 DEF IsMessage, Requests
  <2>6. /\ Ready(o) /\ o.v = a.v
        /\ \A k, at, n : Placed(a, k, at, n) /\ req.kind # k => Placed(o, k, at, n)
    BY <2>3, <2>4, <2>5, PushReady
  <2>7. \A k, at, m : Placed(x, k, at, m) /\ k \in {"render", "viewport"} => Placed(o, k, at, m)
    <3>1. \A k \in {"render", "viewport"} : req.kind # k
      BY <2>5
    <3> QED BY <2>3, <2>6, <3>1, Zenon
  <2>8. Fresh(o, session)
    BY <2>1, <2>3, <2>6, <2>7, PlacesFresh
  <2> QED BY <1>4, <2>4, <2>8
<1> QED BY <1>5, <1>6, <1>7, <1>8, <1>9

\* A tick of the frame clock.
LEMMA TickFresh == ASSUME Framed, Rested, AnimTick PROVE Rested'
<1>c. Counted'
  BY HandlerCounted DEF Framed
<1>w. /\ World.v = view /\ World.jobs = jobs /\ World.idles = idles /\ IsWorld(World)
      /\ {"closed", "asking"} \subseteq DOMAIN view
  BY DEF World, Framed, Counted, IsWorld
<1>s. session' = session
  BY DEF AnimTick
<1>1. PICK o : /\ Become(o)
               /\ o = IF view.closed \/ ~view.opened THEN [World EXCEPT !.v.armed = FALSE]
                      ELSE RequestRender(World)
  BY DEF AnimTick
<1>2. CASE view.closed
  <2>1. o.v = [view EXCEPT !.armed = FALSE]
    BY <1>w, <1>1, <1>2 DEF IsWorld
  <2>2. view'.closed
    BY <1>w, <1>1, <1>2, <2>1 DEF Become
  <2> QED BY <2>2 DEF Rested
<1>3. CASE ~view.closed
  <2>1. Fresh(World, session)
    BY <1>3 DEF Rested
  <2>2. Fresh(o, session)
    <3>1. CASE view.opened
      BY <1>1, <1>3, <2>1, <3>1, RequestRenderFresh
    <3>2. CASE ~view.opened
      <4>1. o = [World EXCEPT !.v = [World.v EXCEPT !["armed"] = FALSE]]
        BY <1>1, <3>2
      <4>2. "armed" \notin VFields \cup {"asking"}
        BY DEF VFields
      <4> QED BY <2>1, <4>1, <4>2, FieldFresh
    <3> QED BY <3>1, <3>2
  <2> QED BY <1>c, <1>s, <1>1, <2>2, FreshBecomes DEF Become
<1> QED BY <1>2, <1>3

\* The file dialog of view_save.
LEMMA AskSaveFresh == ASSUME Framed, Rested, AskSave PROVE Rested'
<1>c. Counted'
  BY AskSaveCounted DEF Framed
<1>0. ~view.closed
  BY DEF AskSave
<1>w. /\ World.v = view /\ World.jobs = jobs /\ World.idles = idles
      /\ {"v", "jobs", "idles", "refs"} \subseteq DOMAIN World
      /\ VFields \subseteq DOMAIN view
  BY <1>0 DEF World, Rested, Fresh, Ready, IsWorld
<1>1. PICK o : o = [World EXCEPT !.v.asking = TRUE, !.refs = @ + 1] /\ Become(o)
  BY DEF AskSave
<1>2. o.v = [view EXCEPT !.asking = TRUE] /\ o.jobs = jobs /\ o.idles = idles
  BY <1>w, <1>1
<1>3. view' = [view EXCEPT !.asking = TRUE] /\ jobs' = jobs /\ idles' = idles /\ session' = session
  BY <1>1, <1>2 DEF Become, AskSave
<1>4. VFields \subseteq DOMAIN view' /\ \A f \in VFields : view'[f] = view[f]
  BY <1>w, <1>3 DEF VFields
<1> QED BY <1>c, <1>3, <1>4, HolderRested

\* Its answer, which may ask for an export.
LEMMA SaveAnsweredFresh ==
  ASSUME Framed, Rested, NEW chosen \in BOOLEAN, SaveAnswered(chosen)
  PROVE  Rested'
<1>c. Counted'
  BY SaveAnsweredCounted DEF Framed
<1>w. /\ World.v = view /\ World.jobs = jobs /\ World.idles = idles
      /\ {"v", "jobs", "idles", "refs"} \subseteq DOMAIN World /\ IsWorld(World)
      /\ {"closed", "asking"} \subseteq DOMAIN view
  BY DEF World, Framed, Counted, IsWorld
<1>1. PICK w : w = [World EXCEPT !.v.asking = FALSE]
  OBVIOUS
<1>2. PICK o : /\ o = IF chosen /\ w.v.opened THEN PushReq(w, [kind |-> "export", cur |-> TRUE]) ELSE w
               /\ Become([o EXCEPT !.refs = @ - 1])
  BY <1>1 DEF SaveAnswered
<1>3. /\ w.v = [view EXCEPT !.asking = FALSE] /\ w.jobs = jobs /\ w.idles = idles
      /\ w.refs = World.refs /\ DOMAIN w = DOMAIN World
  BY <1>w, <1>1
<1>4. w.v.closed = view.closed /\ DOMAIN w.v = DOMAIN view /\ w.v.asking = FALSE
  BY <1>w, <1>3
<1>5. IsWorld(w)
  BY <1>w, <1>3, <1>4 DEF IsWorld
<1>6. PICK p : p = [o EXCEPT !.refs = @ - 1] /\ Become(p)
  BY <1>2
<1>7. p.v = o.v /\ p.jobs = o.jobs /\ p.idles = o.idles
  BY <1>6
<1>8. view' = o.v /\ jobs' = o.jobs /\ idles' = o.idles /\ session' = session
  BY <1>6, <1>7 DEF Become, SaveAnswered
<1>m. PICK m : m = [kind |-> "export", cur |-> TRUE]
  OBVIOUS
<1>n. m = [kind |-> "export", cur |-> TRUE] /\ {"kind", "cur"} \subseteq DOMAIN m /\ m.kind = "export"
  BY <1>m
<1>9. CASE view.closed
  <2>1. PushReq(w, m) = w
    BY <1>4, <1>n, <1>9, ClosedPush
  <2>2. o = w
    BY <1>2, <1>n, <2>1
  <2>3. view'.closed
    BY <1>4, <1>8, <1>9, <2>2
  <2> QED BY <2>3 DEF Rested
<1>10. CASE ~view.closed
  <2>1. PICK x : x = World /\ x.v = view /\ x.jobs = jobs /\ x.idles = idles
    BY <1>w
  <2>2. Fresh(x, session)
    BY <1>10, <2>1 DEF Rested
  <2>3. VFields \subseteq DOMAIN w.v /\ SameBut(x, w, {})
    <3>1. VFields \subseteq DOMAIN view
      BY <2>1, <2>2 DEF Fresh, Ready
    <3>2. \A f \in VFields : w.v[f] = view[f]
      BY <1>3, <3>1 DEF VFields
    <3> QED BY <1>4, <2>1, <3>1, <3>2 DEF SameBut
  <2>4. Fresh(w, session)
    BY <1>3, <1>5, <2>1, <2>2, <2>3, HolderFresh
  <2>5. CASE chosen /\ w.v.opened
    <3>1. o = PushReq(w, m) /\ Ready(w) /\ IsMessage(m, Requests)
      BY <1>2, <1>n, <2>4, <2>5 DEF Fresh, IsMessage, Requests
    <3>2. /\ Ready(o) /\ o.v = w.v
          /\ \A k, at, n : Placed(w, k, at, n) /\ m.kind # k => Placed(o, k, at, n)
      BY <3>1, PushReady
    <3>3. \A k \in {"render", "viewport"} : m.kind # k
      BY <1>n
    <3>4. \A k, at, n : Placed(w, k, at, n) /\ k \in {"render", "viewport"} => Placed(o, k, at, n)
      BY <3>2, <3>3, Zenon
    <3>5. Fresh(o, session)
      BY <2>4, <2>5, <3>2, <3>4, PlacesFresh
    <3> QED BY <1>c, <1>8, <3>5, FreshBecomes
  <2>6. CASE ~(chosen /\ w.v.opened)
    <3>1. Fresh(o, session)
      BY <1>2, <2>4, <2>6
    <3> QED BY <1>c, <1>8, <3>1, FreshBecomes
  <2> QED BY <2>5, <2>6
<1> QED BY <1>9, <1>10

\* The widget goes.
LEMMA DestroyFresh == ASSUME Framed, Destroy PROVE Rested'
<1>w. /\ World.v = view /\ {"v", "jobs", "idles", "refs"} \subseteq DOMAIN World
      /\ {"closed", "asking"} \subseteq DOMAIN view
  BY DEF World, Framed, Counted, IsWorld
<1>1. PICK w : w = [World EXCEPT !.v.closed = TRUE, !.v.armed = FALSE]
  OBVIOUS
<1>2. PICK req, o : /\ req = [kind |-> "close", cur |-> TRUE] /\ o = PushReq(w, req)
                    /\ Become([o EXCEPT !.refs = @ - 1])
  BY <1>1 DEF Destroy
<1>3. w.v.closed = TRUE /\ {"v", "jobs", "idles", "refs"} \subseteq DOMAIN w
  BY <1>w, <1>1
<1>4. o.v = w.v
  BY <1>2, <1>3 DEF PushReq
<1>5. PICK p : p = [o EXCEPT !.refs = @ - 1] /\ Become(p)
  BY <1>2
<1>6. view'.closed
  BY <1>3, <1>4, <1>5 DEF Become
<1> QED BY <1>6 DEF Rested


-----------------------------------------------------------------------------
(* What a job leaves of the places *)

\* A result is added to those that have come.
LEMMA AppendLoads ==
  ASSUME NEW p, NEW K, IsQueue(p, K), NEW q, NEW laid, LoadsCome(p, q, laid), NEW m,
         m.kind \in {"render", "viewport"} => NoCurrentLoads(p),
         m.kind = "load" /\ m.cur => Light(q) /\ (m.outcome # "fail" => laid)
  PROVE  LoadsCome(Append(p, m), q, laid)
<1>1. PICK o, l : o = Append(p, m) /\ l = Len(p)
  OBVIOUS
<1>2. l \in Nat /\ Len(o) = l + 1 /\ (\A i \in 1..l : o[i] = p[i]) /\ o[l + 1] = m
  BY <1>1, Appended
<1>3. \A i \in 1..Len(o) : i \in 1..l \/ i = l + 1
  BY <1>2
<1>4. \A x \in 1..(l + 1) : ~(x > l + 1)
  BY <1>2
<1>5. ASSUME NEW i \in 1..Len(o), o[i].kind = "load", o[i].cur
      PROVE  /\ Light(q) /\ (o[i].outcome # "fail" => laid)
             /\ \A x \in 1..Len(o) : x > i => o[x].kind \notin {"render", "viewport"}
  <2>1. CASE i \in 1..l
    <3>1. PICK n : n = o[i] /\ n = p[i] /\ n.kind = "load" /\ n.cur
      BY <1>2, <1>5, <2>1
    <3>2. /\ Light(q) /\ (n.outcome # "fail" => laid)
          /\ \A x \in 1..l : x > i => p[x].kind \notin {"render", "viewport"}
      BY <1>1, <2>1, <3>1 DEF LoadsCome
    <3>3. m.kind \notin {"render", "viewport"}
      BY <1>1, <2>1, <3>1 DEF NoCurrentLoads
    <3> QED BY <1>2, <1>3, <3>1, <3>2, <3>3
  <2>2. CASE i = l + 1
    <3>1. Light(q) /\ (m.outcome # "fail" => laid) /\ o[i] = m
      BY <1>2, <1>5, <2>2
    <3> QED BY <1>2, <1>4, <2>2, <3>1
  <2> QED BY <1>3, <2>1, <2>2
<1> QED BY <1>1, <1>5 DEF LoadsCome

\* The first request leaves.
LEMMA TailWaits ==
  ASSUME NEW q, NEW K, IsQueue(q, K), q # <<>>, NEW size, LoadsAreLast(q, size)
  PROVE  /\ LoadsAreLast(Tail(q), size)
         /\ Light(q) => Light(Tail(q)) /\ Head(q).kind \notin Heavy
         /\ Head(q).kind = "load" /\ Head(q).cur => Light(Tail(q)) /\ Head(q).size = size
<1>1. PICK o, l : o = Tail(q) /\ l = Len(q)
  OBVIOUS
<1>2. l \in Nat \ {0} /\ Len(o) = l - 1 /\ (\A i \in 1..Len(o) : o[i] = q[i + 1]) /\ Head(q) = q[1]
  BY <1>1, Tailed
<1>3. \A i \in 1..Len(o) : i + 1 \in 1..l /\ i + 1 > 1
  BY <1>2
<1>4. 1 \in 1..l
  BY <1>2
<1>5. ASSUME NEW i \in 1..Len(o), o[i].kind = "load", o[i].cur
      PROVE  o[i].size = size /\ \A x \in 1..Len(o) : x > i => o[x].kind \notin Heavy
  <2>1. PICK m : m = o[i] /\ m = q[i + 1] /\ m.kind = "load" /\ m.cur
    BY <1>2, <1>5
  <2>2. i + 1 \in 1..l
    BY <1>3
  <2>3. m.size = size /\ \A x \in 1..l : x > i + 1 => q[x].kind \notin Heavy
    BY <1>1, <2>1, <2>2 DEF LoadsAreLast
  <2>4. ASSUME NEW x \in 1..Len(o), x > i PROVE o[x].kind \notin Heavy
    <3>1. x + 1 \in 1..l /\ x + 1 > i + 1
      BY <1>2, <1>3, <2>4
    <3> QED BY <1>2, <2>3, <3>1
  <2> QED BY <2>1, <2>3, <2>4
<1>6. Light(q) => Light(o) /\ Head(q).kind \notin Heavy
  BY <1>1, <1>2, <1>3, <1>4 DEF Light
<1>7. ASSUME Head(q).kind = "load", Head(q).cur PROVE Light(o) /\ Head(q).size = size
  <2>1. PICK m : m = Head(q) /\ m = q[1] /\ m.kind = "load" /\ m.cur
    BY <1>2, <1>7
  <2>2. m.size = size /\ \A x \in 1..l : x > 1 => q[x].kind \notin Heavy
    BY <1>1, <1>4, <2>1 DEF LoadsAreLast
  <2> QED BY <1>2, <1>3, <2>1, <2>2 DEF Light
<1> QED BY <1>1, <1>5, <1>6, <1>7 DEF LoadsAreLast


-----------------------------------------------------------------------------
(* Sessions *)

\* A picture is as accurate as it was when what has changed since is damaged.
LEMMA AccurateKept ==
  ASSUME NEW s, Accurate(s), NEW t, t.fb = s.fb, t.page = s.page, t.vp = s.vp,
         s.dirty \subseteq t.dirty, \A x \in Tiles \ t.dirty : t.tiles[x] = s.tiles[x]
  PROVE  Accurate(t)
<1>1. PICK z, c, a : Depicts(s, z, c, a)
  BY DEF Accurate
<1>2. Depicts(t, z, c, a)
  BY <1>1 DEF Depicts
<1> QED BY <1>2 DEF Accurate

\* The page goes on; the frame is the same, though it may be invalid now.
Moves(s, t) ==
  /\ SessionFresh(t)
  /\ t.gen = s.gen /\ t.fb = s.fb /\ t.vp = s.vp /\ t.page = s.page
  /\ t.valid => s.valid
  /\ Accurate(s) => Accurate(t)

\* What the page may do.
LEMMA PageMoves ==
  ASSUME NEW s, SessionFresh(s), NEW t, SFields \subseteq DOMAIN t,
         t.gen = s.gen, t.fb = s.fb, t.vp = s.vp, t.page = s.page, t.valid => s.valid,
         t.tiles = [x \in Tiles |-> t.tiles[x]], t.anim \in Nat,
         s.dirty \subseteq t.dirty, t.dirty \subseteq Tiles, t.dirty # {} => t.repaint,
         \A x \in Tiles \ t.dirty : t.tiles[x] = s.tiles[x]
  PROVE  Moves(s, t)
<1>1. Accurate(s) => Accurate(t)
  BY AccurateKept
<1>2. SessionFresh(t)
  BY <1>1 DEF SessionFresh
<1> QED BY <1>1, <1>2 DEF Moves

\* A session that only forgets its frame, or wishes for something else.
LEMMA WishMoves ==
  ASSUME NEW s, SessionFresh(s), NEW t, SFields \subseteq DOMAIN t,
         \A f \in SFields \ {"alive", "valid", "wakePosted", "wantScroll", "wantNav",
                             "damageFull", "anim"} : t[f] = s[f],
         t.valid => s.valid, t.anim \in Nat
  PROVE  Moves(s, t)
<1>1. /\ t.gen = s.gen /\ t.fb = s.fb /\ t.vp = s.vp /\ t.page = s.page
      /\ t.tiles = s.tiles /\ t.dirty = s.dirty /\ t.repaint = s.repaint
  BY DEF SFields
<1>2. /\ s.tiles = [x \in Tiles |-> s.tiles[x]] /\ s.dirty \subseteq Tiles
      /\ s.dirty # {} => s.repaint
  BY DEF SessionFresh
<1> QED BY <1>1, <1>2, PageMoves

\* Moves is transitive.
LEMMA MovesTwice ==
  ASSUME NEW r, NEW s, NEW t, Moves(r, s), Moves(s, t)
  PROVE  Moves(r, t)
BY DEF Moves

\* The first requests of a session.
LEMMA StartMoves ==
  ASSUME NEW s, SessionFresh(s)
  PROVE  /\ Moves(s, [s EXCEPT !.alive = TRUE])
         /\ Moves(s, InvalidateFrame([s EXCEPT !.alive = TRUE]))
<1>1. PICK a, b : a = [s EXCEPT !.alive = TRUE] /\ b = InvalidateFrame(a)
  OBVIOUS
<1>2. SFields \subseteq DOMAIN s /\ s.anim \in Nat
  BY DEF SessionFresh
<1>3. DOMAIN a = DOMAIN s /\ \A f \in SFields \ {"alive"} : a[f] = s[f]
  BY <1>1, <1>2
<1>4. b = [a EXCEPT !.valid = FALSE]
  BY <1>1 DEF InvalidateFrame
<1>5. DOMAIN b = DOMAIN a /\ b.valid = FALSE /\ \A f \in SFields \ {"valid"} : b[f] = a[f]
  BY <1>2, <1>3, <1>4 DEF SFields
<1>6. a.valid = s.valid /\ a.anim = s.anim /\ b.anim = s.anim
  BY <1>3, <1>5 DEF SFields
<1>7. Moves(s, a)
  <2>1. \A f \in SFields \ {"alive", "valid", "wakePosted", "wantScroll", "wantNav",
                             "damageFull", "anim"} : a[f] = s[f]
    BY <1>3
  <2> QED BY <1>2, <1>3, <1>6, <2>1, WishMoves
<1>8. Moves(s, b)
  <2>1. \A f \in SFields \ {"alive", "valid", "wakePosted", "wantScroll", "wantNav",
                             "damageFull", "anim"} : b[f] = s[f]
    BY <1>3, <1>5
  <2> QED BY <1>2, <1>3, <1>5, <1>6, <2>1, WishMoves
<1> QED BY <1>1, <1>7, <1>8

\* Script draws.
LEMMA DrawnMoves ==
  ASSUME NEW s, SessionFresh(s), NEW tiles, tiles \subseteq Tiles
  PROVE  Moves(s, Drawn(s, tiles))
<1>1. PICK a, d : /\ a = [x \in Tiles |-> IF x \in tiles THEN s.tiles[x] + 1 ELSE s.tiles[x]]
                  /\ d = s.dirty \cup tiles
  OBVIOUS
<1>2. PICK t : t = Drawn(s, tiles)
  OBVIOUS
<1>3. t = [s EXCEPT !.tiles = a, !.dirty = d, !.repaint = TRUE]
  BY <1>1, <1>2 DEF Drawn
<1>4. SFields \subseteq DOMAIN s /\ s.dirty \subseteq Tiles /\ s.anim \in Nat
  BY DEF SessionFresh
<1>5. /\ DOMAIN t = DOMAIN s /\ t.tiles = a /\ t.dirty = d /\ t.repaint = TRUE
      /\ t.gen = s.gen /\ t.fb = s.fb /\ t.vp = s.vp /\ t.page = s.page /\ t.valid = s.valid
      /\ t.anim = s.anim
  BY <1>3, <1>4 DEF SFields
<1>6. a = [x \in Tiles |-> a[x]] /\ d \subseteq Tiles /\ s.dirty \subseteq d
      /\ \A x \in Tiles \ d : a[x] = s.tiles[x]
  BY <1>1, <1>4
<1>7. t.tiles = [x \in Tiles |-> t.tiles[x]] /\ \A x \in Tiles \ t.dirty : t.tiles[x] = s.tiles[x]
  BY <1>5, <1>6
<1>8. Moves(s, t)
  BY <1>4, <1>5, <1>6, <1>7, PageMoves
<1> QED BY <1>2, <1>8

\* ns_browser_tick: what it moves is damaged.
Ticks(s, t) ==
  /\ SFields \subseteq DOMAIN t
  /\ t.gen = s.gen /\ t.fb = s.fb /\ t.vp = s.vp /\ t.page = s.page
  /\ t.anim \in Nat
  /\ t.tiles = [x \in Tiles |-> t.tiles[x]] /\ t.dirty \subseteq Tiles
  /\ s.dirty \subseteq t.dirty /\ \A x \in Tiles \ t.dirty : t.tiles[x] = s.tiles[x]
  /\ s.anim = 0 \/ t.dirty = {} => t.dirty = s.dirty /\ t.tiles = s.tiles

\* A tick.
LEMMA TickTicks ==
  ASSUME NEW s, SessionFresh(s)
  PROVE  Ticks(s, s) /\ Ticks(s, AfterTick(s))
<1>1. /\ SFields \subseteq DOMAIN s /\ s.tiles = [x \in Tiles |-> s.tiles[x]]
      /\ s.dirty \subseteq Tiles /\ s.anim \in Nat
  BY DEF SessionFresh
<1>2. Ticks(s, s)
  BY <1>1 DEF Ticks
<1>3. PICK t : t = AfterTick(s)
  OBVIOUS
<1>4. CASE s.anim = 0
  <2>1. t = [s EXCEPT !.repaint = FALSE]
    BY <1>3, <1>4 DEF AfterTick
  <2>2. /\ DOMAIN t = DOMAIN s /\ t.tiles = s.tiles /\ t.dirty = s.dirty
        /\ t.gen = s.gen /\ t.fb = s.fb /\ t.vp = s.vp /\ t.page = s.page /\ t.anim = s.anim
    BY <1>1, <2>1 DEF SFields
  <2>3. Ticks(s, t)
    BY <1>1, <2>2 DEF Ticks
  <2> QED BY <1>2, <1>3, <2>3
<1>5. CASE s.anim # 0
  <2>1. PICK a, d, n : /\ a = [s.tiles EXCEPT ![AnimTile] = @ + 1] /\ d = s.dirty \cup {AnimTile}
                       /\ n = s.anim - 1
    OBVIOUS
  <2>2. t = [s EXCEPT !.repaint = FALSE, !.anim = n, !.tiles = a, !.dirty = d]
    BY <1>3, <1>5, <2>1 DEF AfterTick
  <2>3. AnimTile \in Tiles
    BY ViewAssumption DEF AnimTile
  <2>4. a = [x \in Tiles |-> a[x]] /\ \A x \in Tiles \ d : a[x] = s.tiles[x]
    <3>1. DOMAIN s.tiles = Tiles
      BY <1>1
    <3> QED BY <2>1, <2>3, <3>1
  <2>5. n \in Nat /\ d \subseteq Tiles /\ s.dirty \subseteq d /\ d # {}
    BY <1>1, <1>5, <2>1, <2>3
  <2>6. /\ DOMAIN t = DOMAIN s /\ t.tiles = a /\ t.dirty = d
        /\ t.gen = s.gen /\ t.fb = s.fb /\ t.vp = s.vp /\ t.page = s.page /\ t.anim = n
    BY <1>1, <2>2 DEF SFields
  <2>7. t.tiles = [x \in Tiles |-> t.tiles[x]] /\ \A x \in Tiles \ t.dirty : t.tiles[x] = s.tiles[x]
    BY <2>4, <2>6
  <2>8. Ticks(s, t)
    BY <1>1, <1>5, <2>5, <2>6, <2>7 DEF Ticks
  <2> QED BY <1>2, <1>3, <2>8
<1> QED BY <1>1, <1>4, <1>5


\* A frame patched with all that is damaged.
LEMMA PatchedDepicts ==
  ASSUME NEW s, NEW z, NEW c, NEW a, Depicts(s, z, c, a), NEW t, Ticks(s, t), NEW scroll,
         NEW o, o.fb = Patched([s.fb EXCEPT !.scroll = scroll], t.dirty, t.tiles),
         o.page = s.page, o.vp = s.vp, o.tiles = t.tiles
  PROVE  \E b : Depicts(o, z, scroll, b)
<1>1. PICK b : b = [x \in Tiles |-> IF x \in t.dirty THEN t.tiles[x] ELSE a[x]]
  OBVIOUS
<1>2. PICK q : q = [s.fb EXCEPT !.scroll = scroll]
  OBVIOUS
<1>3. s.fb = [load |-> s.page, vp |-> s.vp, size |-> z, scroll |-> c, tiles |-> a]
  BY DEF Depicts
<1>4. q = [load |-> s.page, vp |-> s.vp, size |-> z, scroll |-> scroll, tiles |-> a]
  BY <1>2, <1>3
<1>5. Patched(q, t.dirty, t.tiles) = [load |-> s.page, vp |-> s.vp, size |-> z, scroll |-> scroll, tiles |-> b]
  BY <1>1, <1>4 DEF Patched
<1>6. b = [x \in Tiles |-> b[x]]
  BY <1>1
<1>7. \A x \in Tiles : b[x] = t.tiles[x]
  <2>1. \A x \in Tiles \ s.dirty : a[x] = s.tiles[x]
    BY DEF Depicts
  <2>2. s.dirty \subseteq t.dirty /\ \A x \in Tiles \ t.dirty : t.tiles[x] = s.tiles[x]
    BY DEF Ticks
  <2> QED BY <1>1, <2>1, <2>2
<1>8. o.fb = [load |-> o.page, vp |-> o.vp, size |-> z, scroll |-> scroll, tiles |-> b]
  BY <1>2, <1>5
<1>9. \A x \in Tiles \ o.dirty : b[x] = o.tiles[x]
  BY <1>7
<1>10. Depicts(o, z, scroll, b)
  BY <1>6, <1>8, <1>9, Zenon DEF Depicts
<1> QED BY <1>10

\* A frame painted anew.
LEMMA PaintedDepicts ==
  ASSUME NEW s, NEW t, Ticks(s, t), NEW scroll, NEW size,
         NEW o, o.fb = Painted(t, scroll, size), o.page = s.page, o.vp = s.vp, o.tiles = t.tiles
  PROVE  \E b : Depicts(o, size, scroll, b)
<1>1. PICK b : b = t.tiles
  OBVIOUS
<1>2. b = [x \in Tiles |-> b[x]] /\ t.page = s.page /\ t.vp = s.vp
  BY <1>1 DEF Ticks
<1>3. o.fb = [load |-> o.page, vp |-> o.vp, size |-> size, scroll |-> scroll, tiles |-> b]
  BY <1>1, <1>2 DEF Painted
<1>4. \A x \in Tiles : b[x] = o.tiles[x]
  BY <1>1
<1> QED BY <1>2, <1>3, <1>4 DEF Depicts

\* The frame is what it was, and nothing is damaged.
LEMMA SameDepicts ==
  ASSUME NEW s, NEW z, NEW c, NEW a, Depicts(s, z, c, a), NEW t,
         t.dirty = {}, t.dirty = s.dirty, t.tiles = s.tiles,
         NEW o, o.fb = s.fb, o.page = s.page, o.vp = s.vp, o.tiles = t.tiles
  PROVE  Depicts(o, z, c, a)
BY DEF Depicts

\* What a picture of the page says of its size and position.
LEMMA DepictsWhat ==
  ASSUME NEW s, NEW z, NEW c, NEW a, Depicts(s, z, c, a)
  PROVE  s.fb.size = z /\ s.fb.scroll = c
BY DEF Depicts

\* The outcome of a render: the frame is of the page as it is, for the size the
\* view asked for, at the position the page or else the view asked for.
Draws(s, j, t, r) ==
  /\ SessionFresh(t) /\ Accurate(t)
  /\ t.vp = s.vp /\ t.page = s.page
  /\ t.fb.size = j.size
  /\ t.fb.scroll = IF s.wantScroll = None THEN j.scroll ELSE s.wantScroll
  /\ r.kind = "render" /\ IsMessage(r, Results) /\ r.cur = j.cur /\ r.ok
  /\ r.scroll = s.wantScroll /\ r.gen = t.gen
  /\ r.has \in {"full", "patch"} \/ (s.valid /\ t.gen = s.gen)

\* ns_page_session_render
LEMMA RenderOfFresh ==
  ASSUME NEW s, SessionFresh(s), NEW j
  PROVE  Draws(s, j, RenderOf(s, j).s, RenderOf(s, j).r)
<1> DEFINE ran      == s.valid
           t        == IF ran THEN AfterTick(s) ELSE s
           scroll   == IF s.wantScroll # None THEN s.wantScroll ELSE j.scroll
           scrolled == scroll # s.fb.scroll
           byDamage == ran /\ ~t.damageFull /\ s.fb.size = j.size
           same     == ran /\ ~scrolled /\ s.fb.size = j.size
           unchanged == \/ same /\ ~Ticked(s)
                        \/ byDamage /\ t.dirty = {} /\ ~scrolled
           pic      == IF unchanged THEN s.fb
                       ELSE IF byDamage THEN Patched([s.fb EXCEPT !.scroll = scroll], t.dirty, t.tiles)
                       ELSE Painted(t, scroll, j.size)
           gen      == IF unchanged THEN s.gen ELSE s.gen + 1
           has      == IF unchanged THEN "none"
                       ELSE IF byDamage /\ ~scrolled THEN "patch" ELSE "full"
           os == [t EXCEPT !.dirty = {}, !.damageFull = FALSE, !.wantScroll = None,
                           !.wantNav = FALSE, !.valid = TRUE, !.fb = pic, !.gen = gen,
                           !.wakePosted = FALSE]
           or == [kind |-> "render", cur |-> j.cur, ok |-> TRUE, has |-> has,
                  pic |-> pic, damage |-> t.dirty, base |-> s.gen, gen |-> gen,
                  scroll |-> s.wantScroll, nav |-> s.wantNav, animating |-> t.anim > 0]
<1>1. RenderOf(s, j) = [s |-> os, r |-> or]
  BY Zenon DEF RenderOf
<1>2. PICK o, r : o = os /\ r = or
  OBVIOUS
<1>3. RenderOf(s, j).s = o /\ RenderOf(s, j).r = r
  BY <1>1, <1>2
<1>4. Ticks(s, t)
  BY TickTicks
<1>5. PICK d, tiles : d = t.dirty /\ tiles = t.tiles
  OBVIOUS
<1>6. /\ SFields \subseteq DOMAIN o /\ o.page = s.page /\ o.vp = s.vp /\ o.tiles = tiles
      /\ o.dirty = {} /\ o.anim \in Nat /\ o.valid = TRUE /\ o.fb = pic /\ o.gen = gen
  <2>1. /\ SFields \subseteq DOMAIN t /\ t.page = s.page /\ t.vp = s.vp /\ t.anim \in Nat
    BY <1>4 DEF Ticks
  <2> HIDE DEF pic, gen, t
  <2> QED BY <1>2, <1>5, <2>1 DEF SFields
<1>7. /\ r.kind = "render" /\ IsMessage(r, Results) /\ r.cur = j.cur /\ r.ok = TRUE
      /\ r.has = has /\ r.gen = gen /\ r.scroll = s.wantScroll
  <2> HIDE DEF pic, gen, t, has
  <2> QED BY <1>2 DEF IsMessage, Results
<1>8. ran => \E z, c, a : Depicts(s, z, c, a)
  BY DEF SessionFresh, Accurate
<1>9. \E a : Depicts(o, j.size, scroll, a)
  <2>1. CASE unchanged
    <3>1. ran /\ ~scrolled /\ s.fb.size = j.size
      BY <2>1
    <3>2. PICK z, c, a : Depicts(s, z, c, a)
      BY <1>8, <3>1
    <3>3. z = j.size /\ c = scroll
      <4>1. s.fb.size = z /\ s.fb.scroll = c
        BY <3>2, DepictsWhat
      <4> QED BY <3>1, <4>1
    <3>4. t.dirty = {} /\ t.dirty = s.dirty /\ t.tiles = s.tiles
      <4>1. CASE same /\ ~Ticked(s)
        <5>1. s.dirty = {} /\ s.anim = 0
          BY <4>1 DEF SessionFresh, Ticked
        <5> HIDE DEF t
        <5> QED BY <1>4, <5>1 DEF Ticks
      <4>2. CASE byDamage /\ t.dirty = {} /\ ~scrolled
        <5>1. t.dirty = {}
          BY <4>2
        <5> HIDE DEF t
        <5> QED BY <1>4, <5>1 DEF Ticks
      <4> QED BY <2>1, <4>1, <4>2
    <3>5. o.fb = s.fb /\ o.tiles = t.tiles
      BY <1>5, <1>6, <2>1
    <3> HIDE DEF t, pic, scroll
    <3>6. Depicts(o, z, c, a)
      BY <1>6, <3>2, <3>4, <3>5, SameDepicts
    <3> QED BY <3>3, <3>6
  <2>2. CASE ~unchanged /\ byDamage
    <3>1. ran /\ s.fb.size = j.size
      BY <2>2
    <3>2. PICK z, c, a : Depicts(s, z, c, a)
      BY <1>8, <3>1
    <3>3. z = j.size
      <4>1. s.fb.size = z
        BY <3>2, DepictsWhat
      <4> QED BY <3>1, <4>1
    <3>4. o.fb = Patched([s.fb EXCEPT !.scroll = scroll], t.dirty, t.tiles)
      BY <1>6, <2>2
    <3> HIDE DEF t, pic, scroll
    <3>5. \E b : Depicts(o, z, scroll, b)
      BY <1>4, <1>5, <1>6, <3>2, <3>4, PatchedDepicts
    <3> QED BY <3>3, <3>5
  <2>3. CASE ~unchanged /\ ~byDamage
    <3>1. o.fb = Painted(t, scroll, j.size)
      BY <1>6, <2>3
    <3> HIDE DEF t, pic, scroll
    <3> QED BY <1>4, <1>5, <1>6, <3>1, PaintedDepicts
  <2> QED BY <2>1, <2>2, <2>3
<1>10. has \in {"full", "patch"} \/ (s.valid /\ gen = s.gen)
  OBVIOUS
<1>11. tiles = [x \in Tiles |-> tiles[x]]
  <2> HIDE DEF t
  <2> QED BY <1>4, <1>5 DEF Ticks
<1>12. scroll = IF s.wantScroll = None THEN j.scroll ELSE s.wantScroll
  OBVIOUS
<1> HIDE DEF pic, gen, t, has, unchanged, byDamage, ran, scrolled, scroll, same, os, or
<1>13. Accurate(o) /\ o.fb.size = j.size /\ o.fb.scroll = scroll
  <2>1. PICK a : Depicts(o, j.size, scroll, a)
    BY <1>9
  <2>2. o.fb.size = j.size /\ o.fb.scroll = scroll
    BY <2>1, DepictsWhat
  <2> QED BY <2>1, <2>2 DEF Accurate
<1>14. SessionFresh(o)
  BY <1>6, <1>11, <1>13 DEF SessionFresh
<1>15. Draws(s, j, o, r)
  BY <1>6, <1>7, <1>10, <1>12, <1>13, <1>14 DEF Draws
<1> QED BY <1>3, <1>15


-----------------------------------------------------------------------------
(* Jobs, on freshness *)

\* A job is done: its result m and the end of its reference are posted.
Finished(w, o, j, m) ==
  /\ Ready(w) /\ Ready(o) /\ o.v = w.v
  /\ w.jobs # <<>> /\ j = Head(w.jobs)
  /\ m.kind = j.kind /\ (j.kind \in Heavy => m.cur = j.cur) /\ IsMessage(m, Results)
  /\ o.jobs = Tail(w.jobs)
  /\ \E u : u.kind = "unref" /\ o.idles = Append(Append(w.idles, m), u)

\* Before a page is open.
LEMMA WaitingDone ==
  ASSUME NEW w, NEW o, NEW j, NEW m, Finished(w, o, j, m), NEW s, Waiting(w, s), NEW t,
         Laid(w.v, s) /\ j.kind \notin Heavy => Laid(w.v, t),
         j.kind = "load" /\ j.cur /\ j.size = w.v.lastVp /\ m.outcome # "fail" => Laid(w.v, t)
  PROVE  Waiting(o, t)
<1>1. PICK u : u.kind = "unref" /\ o.idles = Append(Append(w.idles, m), u)
  BY DEF Finished
<1>2. PICK q, p, size, laid, due :
        /\ q = w.jobs /\ p = w.idles /\ size = w.v.lastVp
        /\ laid = Laid(w.v, s) /\ due = Laid(w.v, t)
  OBVIOUS
<1>3. IsQueue(q, Requests) /\ IsQueue(p, Results) /\ q # <<>> /\ j = Head(q)
  BY <1>2 DEF Finished, Ready, IsWorld
<1>4. LoadsAreLast(q, size) /\ LoadsCome(p, q, laid)
  BY <1>2 DEF Waiting, LoadsCome
<1>5. m.kind = j.kind /\ (j.kind = "load" => m.cur = j.cur) /\ IsMessage(m, Results)
  BY DEF Finished, Heavy
<1>6. /\ laid /\ j.kind \notin Heavy => due
      /\ j.kind = "load" /\ j.cur /\ j.size = size /\ m.outcome # "fail" => due
  BY <1>2
<1>7. LoadsAreLast(Tail(q), size) /\ LoadsCome(Append(Append(p, m), u), Tail(q), due)
  <2>1. /\ LoadsAreLast(Tail(q), size)
        /\ Light(q) => Light(Tail(q)) /\ j.kind \notin Heavy
        /\ j.kind = "load" /\ j.cur => Light(Tail(q)) /\ j.size = size
    BY <1>3, <1>4, TailWaits
  <2>2. LoadsCome(p, Tail(q), due)
    BY <1>4, <1>6, <2>1 DEF LoadsCome
  <2>3. j.kind \in Heavy => NoCurrentLoads(p)
    BY <1>4, <2>1 DEF LoadsCome, NoCurrentLoads
  <2>4. m.kind \in {"render", "viewport"} => NoCurrentLoads(p)
    BY <1>5, <2>3 DEF Heavy
  <2>5. m.kind = "load" /\ m.cur => Light(Tail(q)) /\ (m.outcome # "fail" => due)
    BY <1>5, <1>6, <2>1
  <2>6. PICK a : a = Append(p, m)
    OBVIOUS
  <2>7. LoadsCome(a, Tail(q), due)
    BY <1>3, <2>2, <2>4, <2>5, <2>6, AppendLoads
  <2>8. IsQueue(a, Results)
    BY <1>3, <1>5, <2>6, AppendQueue
  <2>9. u.kind \notin {"render", "viewport", "load"}
    BY <1>1
  <2>10. LoadsCome(Append(a, u), Tail(q), due)
    BY <2>7, <2>8, <2>9, AppendLoads
  <2> QED BY <2>1, <2>6, <2>10
<1>8. o.v = w.v /\ o.jobs = Tail(q) /\ o.idles = Append(Append(p, m), u)
  BY <1>1, <1>2 DEF Finished
<1>9. LoadsCome(o.idles, o.jobs, Laid(o.v, t))
  BY <1>2, <1>7, <1>8 DEF LoadsCome
<1> QED BY <1>2, <1>7, <1>8, <1>9 DEF Waiting

\* Once a page is open.
LEMMA PlacesDone ==
  ASSUME NEW w, NEW o, NEW j, NEW m, Finished(w, o, j, m),
         NEW k \in {"render", "viewport"}, NEW at, NEW n, Placed(w, k, at, n)
  PROVE  /\ j.kind # k => Placed(o, k, at, n)
         /\ j.kind = k => at = "job" /\ j = n /\ Placed(o, k, "result", m)
<1>1. PICK u : u.kind = "unref" /\ o.idles = Append(Append(w.idles, m), u)
  BY DEF Finished
<1>2. /\ Ready(w) /\ w.jobs # <<>> /\ j = Head(w.jobs)
      /\ m.kind = j.kind /\ (j.kind = k => m.cur = j.cur) /\ IsMessage(m, Results)
      /\ o.jobs = Tail(w.jobs)
  BY DEF Finished, Heavy
<1>3. PICK q, p : q = w.jobs /\ p = w.idles /\ IsQueue(q, Requests) /\ IsQueue(p, Results)
  BY <1>2 DEF Ready, IsWorld
<1>4. PICK a : a = Append(p, m)
  OBVIOUS
<1>5. IsQueue(a, Results)
  BY <1>2, <1>3, <1>4, AppendQueue
<1>6. o.jobs = Tail(q) /\ o.idles = Append(a, u)
  BY <1>1, <1>2, <1>3, <1>4
<1>7. /\ Nil(q, k) => Nil(Tail(q), k) /\ j.kind # k
      /\ \A x : One(q, k, x) /\ x.kind = k =>
           \/ j = x /\ Nil(Tail(q), k)
           \/ j.kind # k /\ One(Tail(q), k, x)
  BY <1>2, <1>3, TailKind
<1>8. /\ Nil(p, k) /\ m.kind # k => Nil(a, k)
      /\ Nil(p, k) /\ m.kind = k => One(a, k, m)
      /\ \A x : One(p, k, x) /\ m.kind # k => One(a, k, x)
  BY <1>3, <1>4, AppendKind
<1>9. /\ Nil(a, k) => Nil(Append(a, u), k)
      /\ \A x : One(a, k, x) => One(Append(a, u), k, x)
  BY <1>1, <1>5, AppendKind
<1>10. CASE at = "none" /\ Nil(q, k) /\ Nil(p, k)
  BY <1>2, <1>6, <1>7, <1>8, <1>9, <1>10 DEF Placed
<1>11. CASE at = "job" /\ One(q, k, n) /\ Nil(p, k) /\ n.kind = k /\ n.cur
  <2>1. CASE j = n /\ Nil(Tail(q), k)
    BY <1>2, <1>6, <1>8, <1>9, <1>11, <2>1 DEF Placed
  <2>2. CASE j.kind # k /\ One(Tail(q), k, n)
    BY <1>2, <1>6, <1>8, <1>9, <1>11, <2>2 DEF Placed
  <2> QED BY <1>7, <1>11, <2>1, <2>2
<1>12. CASE at = "result" /\ Nil(q, k) /\ One(p, k, n) /\ n.kind = k /\ n.cur
  BY <1>2, <1>6, <1>7, <1>8, <1>9, <1>12 DEF Placed
<1> QED BY <1>3, <1>10, <1>11, <1>12 DEF Placed

\* The page goes on while what is under way keeps its place.
LEMMA GoodMoves ==
  ASSUME NEW w, NEW s, NEW ra, NEW rm, NEW va, NEW vm, Good(w, s, ra, rm, va, vm),
         NEW t, Moves(s, t), NEW o, o.v = w.v,
         Placed(o, "render", ra, rm), Placed(o, "viewport", va, vm)
  PROVE  Good(o, t, ra, rm, va, vm)
<1>1. /\ t.gen = s.gen /\ t.fb = s.fb /\ t.vp = s.vp /\ (t.valid => s.valid)
      /\ Accurate(s) => Accurate(t)
  BY DEF Moves
<1>2. w.v.opened /\ Flows(w.v, s, ra, rm, va, vm)
  BY DEF Good, Going
<1>3. Flows(o.v, t, ra, rm, va, vm)
  BY <1>1, <1>2 DEF Flows, Known, Have
<1>4. Arranged(o.v, t, va, vm) /\ Sized(o.v)
  BY <1>1 DEF Good, Arranged, Sized
<1>5. AtPeace(o.v, t, ra, rm)
  BY <1>1 DEF Good, AtPeace, Settled, Have
<1> QED BY <1>2, <1>3, <1>4, <1>5 DEF Good, Going

\* A job about something else.
LEMMA LightJobFresh ==
  ASSUME NEW w, NEW s, Fresh(w, s), NEW o, NEW j, NEW m, Finished(w, o, j, m),
         j.kind \notin Heavy, NEW t, Moves(s, t)
  PROVE  Fresh(o, t)
<1>1. Ready(o) /\ o.v = w.v /\ SessionFresh(t)
  BY DEF Finished, Moves
<1>2. ASSUME ~w.v.opened PROVE Waiting(o, t)
  <2>1. Waiting(w, s)
    BY <1>2 DEF Fresh
  <2>2. Laid(w.v, s) => Laid(w.v, t)
    BY DEF Laid, Moves
  <2>3. j.kind # "load"
    BY DEF Heavy
  <2> QED BY <2>1, <2>2, <2>3, WaitingDone
<1>3. ASSUME w.v.opened, ~w.v.stopped PROVE \E ra, rm, va, vm : Good(o, t, ra, rm, va, vm)
  <2>1. PICK ra, rm, va, vm : Good(w, s, ra, rm, va, vm)
    BY <1>3 DEF Fresh
  <2>2. j.kind # "render" /\ j.kind # "viewport"
    BY DEF Heavy
  <2>3. Placed(w, "render", ra, rm) /\ Placed(w, "viewport", va, vm)
    BY <2>1 DEF Good, Going
  <2>4. Placed(o, "render", ra, rm)
    BY <2>2, <2>3, PlacesDone
  <2>5. Placed(o, "viewport", va, vm)
    BY <2>2, <2>3, PlacesDone
  <2>6. Good(o, t, ra, rm, va, vm)
    BY <1>1, <2>1, <2>4, <2>5, GoodMoves
  <2> QED BY <2>6
<1> QED BY <1>1, <1>2, <1>3 DEF Fresh

\* run_load, of a view that has no page open.
LEMMA LoadJobFresh ==
  ASSUME NEW w, NEW s, Fresh(w, s), ~w.v.opened, NEW o, NEW j, NEW m, Finished(w, o, j, m),
         j.kind = "load", NEW t, SessionFresh(t), ~t.valid, t.vp = j.size
  PROVE  Fresh(o, t)
<1>1. Ready(o) /\ o.v = w.v
  BY DEF Finished
<1>2. Waiting(w, s)
  BY DEF Fresh
<1>3. Waiting(o, t)
  <2>1. j.kind \in Heavy
    BY DEF Heavy
  <2>2. j.size = w.v.lastVp => Laid(w.v, t)
    BY DEF Laid
  <2> QED BY <1>2, <2>1, <2>2, WaitingDone
<1> QED BY <1>1, <1>3 DEF Fresh

\* A render or viewport job, before the page that is loading is open.
LEMMA OldJobFresh ==
  ASSUME NEW w, NEW s, Fresh(w, s), ~w.v.opened, NEW o, NEW j, NEW m, Finished(w, o, j, m),
         j.kind \in {"render", "viewport"}, NEW t, SessionFresh(t)
  PROVE  Fresh(o, t)
<1>1. Ready(o) /\ o.v = w.v
  BY DEF Finished
<1>2. Waiting(w, s)
  BY DEF Fresh
<1>3. Waiting(o, t)
  <2>1. j.kind \in Heavy /\ j.kind # "load"
    BY DEF Heavy
  <2> QED BY <1>2, <2>1, WaitingDone
<1> QED BY <1>1, <1>3 DEF Fresh

\* ns_page_session_set_viewport, on an open page.
LEMMA ViewportJobFresh ==
  ASSUME NEW w, NEW s, Fresh(w, s), w.v.opened, NEW o, NEW j, NEW m, Finished(w, o, j, m),
         j.kind = "viewport", m.ok,
         NEW t, SessionFresh(t), ~t.valid, t.vp = j.size, t.gen = s.gen
  PROVE  Fresh(o, t)
<1>1. Ready(o) /\ o.v = w.v
  BY DEF Finished
<1>2. ASSUME ~w.v.stopped PROVE \E ra, rm, va, vm : Good(o, t, ra, rm, va, vm)
  <2>1. PICK ra, rm, va, vm : Good(w, s, ra, rm, va, vm)
    BY <1>2 DEF Fresh
  <2>2. /\ Placed(w, "render", ra, rm) /\ Placed(w, "viewport", va, vm)
        /\ Flows(w.v, s, ra, rm, va, vm)
    BY <2>1 DEF Good, Going
  <2>3. Placed(o, "render", ra, rm)
    BY <2>2, PlacesDone
  <2>4. va = "job" /\ j = vm /\ Placed(o, "viewport", "result", m)
    BY <2>2, PlacesDone
  <2>5. Flows(o.v, t, ra, rm, "result", m)
    BY <1>1, <2>2, <2>4 DEF Flows, Known, Have
  <2>6. Arranged(o.v, t, "result", m) /\ Sized(o.v)
    BY <1>1, <2>1, <2>4 DEF Good, Arranged
  <2>7. AtPeace(o.v, t, ra, rm)
    BY <2>5 DEF AtPeace, Flows
  <2>8. Good(o, t, ra, rm, "result", m)
    BY <1>1, <2>3, <2>4, <2>5, <2>6, <2>7 DEF Good, Going
  <2> QED BY <2>8
<1> QED BY <1>1, <1>2 DEF Fresh

\* ns_page_session_render, on an open page.
LEMMA RenderJobFresh ==
  ASSUME NEW w, NEW s, Fresh(w, s), w.v.opened, NEW o, NEW j, NEW m, Finished(w, o, j, m),
         j.kind = "render", NEW b, Moves(s, b), j.full => ~b.valid,
         NEW t, Draws(b, j, t, m)
  PROVE  Fresh(o, t)
<1>1. Ready(o) /\ o.v = w.v
  BY DEF Finished
<1>2. /\ SessionFresh(t) /\ Accurate(t)
      /\ t.vp = s.vp /\ t.fb.size = j.size
      /\ t.fb.scroll = IF m.scroll = None THEN j.scroll ELSE m.scroll
      /\ m.ok /\ m.gen = t.gen
      /\ m.has \in {"full", "patch"} \/ (s.valid /\ ~j.full /\ t.gen = s.gen)
  BY DEF Draws, Moves
<1>3. ASSUME ~w.v.stopped PROVE \E ra, rm, va, vm : Good(o, t, ra, rm, va, vm)
  <2>1. PICK ra, rm, va, vm : Good(w, s, ra, rm, va, vm)
    BY <1>3 DEF Fresh
  <2>2. /\ Placed(w, "render", ra, rm) /\ Placed(w, "viewport", va, vm)
        /\ Flows(w.v, s, ra, rm, va, vm)
    BY <2>1 DEF Good, Going
  <2>3. Placed(o, "viewport", va, vm)
    BY <2>2, PlacesDone
  <2>4. ra = "job" /\ j = rm /\ Placed(o, "render", "result", m)
    BY <2>2, PlacesDone
  <2>5. m.has \in {"full", "patch"} \/ Have(w.v, t)
    BY <1>2, <2>2, <2>4 DEF Flows, Known, Have
  <2>6. Flows(o.v, t, "result", m, va, vm)
    BY <1>1, <1>2, <2>2, <2>4, <2>5 DEF Flows, Known
  <2>7. Arranged(o.v, t, va, vm) /\ Sized(o.v)
    BY <1>1, <1>2, <2>1 DEF Good, Arranged
  <2>8. AtPeace(o.v, t, "result", m)
    <3>1. CASE w.v.pending /\ ra # "none" BY <1>1, <3>1 DEF AtPeace
    <3>2. CASE w.v.vpInflight BY <1>1, <3>2 DEF AtPeace
    <3>3. CASE Settled(w.v, s, ra, rm)
      <4>1. j.scroll = w.v.scroll /\ j.size = w.v.size
        BY <2>4, <3>3 DEF Settled
      <4>2. Settled(o.v, t, "result", m)
        BY <1>1, <1>2, <4>1 DEF Settled
      <4> QED BY <4>2 DEF AtPeace
    <3> QED BY <2>1, <3>1, <3>2, <3>3 DEF Good, AtPeace
  <2>9. Good(o, t, "result", m, va, vm)
    BY <1>1, <2>3, <2>4, <2>6, <2>7, <2>8 DEF Good, Going
  <2> QED BY <2>9
<1> QED BY <1>1, <1>2, <1>3 DEF Fresh


-----------------------------------------------------------------------------
(* Steps of the engine thread, on freshness *)

\* The worlds before and after a job.
LEMMA FinishWorld ==
  ASSUME Rested, Counted', ~view.closed, jobs # <<>>, NEW j, j = Head(jobs),
         NEW m, IsMessage(m, Results), m.kind = j.kind, j.kind \in Heavy => m.cur = j.cur,
         Finish(<<m>>)
  PROVE  \E w, o : /\ Fresh(w, session) /\ w.v = view /\ Finished(w, o, j, m)
                   /\ Fresh(o, session') => Rested'
<1>w. World.v = view /\ World.jobs = jobs /\ World.idles = idles
  BY DEF World
<1>1. PICK w : w = World /\ w.v = view /\ w.jobs = jobs /\ w.idles = idles
  BY <1>w
<1>2. Fresh(w, session)
  BY <1>1 DEF Rested
<1>3. PICK o : o = [v |-> view', jobs |-> jobs', idles |-> idles', refs |-> refs']
  OBVIOUS
<1>4. World' = o /\ o.v = view' /\ o.jobs = jobs' /\ o.idles = idles'
  BY <1>3 DEF World
<1>5. PICK u : u = [kind |-> "unref", cur |-> TRUE] /\ u.kind = "unref"
  <2>1. [kind |-> "unref", cur |-> TRUE].kind = "unref"
    OBVIOUS
  <2> QED BY <2>1, Zenon
<1>6. view' = view /\ jobs' = Tail(jobs) /\ idles' = idles \o <<m>> \o <<u>>
  BY <1>5 DEF Finish
<1>7. idles' = Append(Append(idles, m), u)
  <2>1. PICK S : idles \in Seq(S) /\ m \in S /\ u \in S
    <3> DEFINE S == {idles[i] : i \in DOMAIN idles} \cup {m, u}
    <3>1. IsQueue(idles, Results)
      BY <1>1, <1>2 DEF Fresh, Ready, IsWorld
    <3>2. idles \in [1..Len(idles) -> S] /\ Len(idles) \in Nat
      BY <3>1, QueueLength DEF IsQueue
    <3>3. idles \in Seq(S) /\ m \in S /\ u \in S BY <3>2, SeqDef
    <3> QED BY <3>3
  <2>2. PICK a : a = Append(idles, m) /\ a \in Seq(S)
    <3>1. Append(idles, m) \in Seq(S)
      BY <2>1, AppendProperties
    <3> QED BY <3>1, Zenon
  <2>3. idles \o <<m>> = a
    BY <2>1, <2>2, AppendIsConcat
  <2>4. a \o <<u>> = Append(a, u)
    BY <2>1, <2>2, AppendIsConcat
  <2> QED BY <1>6, <2>2, <2>3, <2>4
<1>8. Ready(w)
  BY <1>2 DEF Fresh
<1>9. Ready(o)
  <2>1. IsWorld(o)
    BY <1>4 DEF Counted
  <2> QED BY <1>1, <1>4, <1>6, <1>8, <2>1 DEF Ready
<1>10. Finished(w, o, j, m)
  BY <1>1, <1>4, <1>5, <1>6, <1>7, <1>8, <1>9 DEF Finished
<1>11. Fresh(o, session') => Rested'
  BY <1>4, Zenon DEF Rested
<1> QED BY <1>1, <1>2, <1>10, <1>11

\* run_load
LEMMA RunLoadFresh ==
  ASSUME Framed, Rested, Counted', ~view.closed, jobs # <<>>, NEW outcome,
         Head(jobs).kind = "load", RunLoad(Head(jobs), outcome)
  PROVE  Rested'
<1>1. PICK j : j = Head(jobs) /\ j.kind = "load" /\ RunLoad(j, outcome)
  OBVIOUS
<1>2. PICK m : m = [kind |-> "load", cur |-> j.cur, load |-> j.load, outcome |-> outcome]
  OBVIOUS
<1>3. m.kind = j.kind /\ m.cur = j.cur /\ IsMessage(m, Results)
  BY <1>1, <1>2 DEF IsMessage, Results
<1>4. Finish(<<m>>)
  BY <1>1, <1>2 DEF RunLoad
<1>5. PICK w, o : /\ Fresh(w, session) /\ w.v = view /\ Finished(w, o, j, m)
                  /\ Fresh(o, session') => Rested'
  BY <1>1, <1>3, <1>4, FinishWorld
<1>6. ~w.v.opened
  <2>1. PICK H : Fits(World, session, H)
    BY DEF Framed
  <2>2. World.v = view /\ World.jobs = jobs
    BY DEF World
  <2>3. IsQueue(jobs, Requests) /\ (view.opened => NoLoads(jobs))
    BY <2>1, <2>2 DEF Fits, IsWorld
  <2>4. Head(jobs) = jobs[1] /\ 1 \in 1..Len(jobs)
    BY <2>3, Tailed
  <2> QED BY <1>1, <1>5, <2>3, <2>4 DEF NoLoads
<1>7. PICK s : s = InvalidateFrame(Session) /\ Moves(session, s)
  BY <1>5, StartMoves DEF Fresh, Session
<1>8. PICK page, blank : /\ page = IF outcome = "fail" THEN None ELSE j.load
                        /\ blank = [x \in Tiles |-> 0]
  OBVIOUS
<1>a. session' = [s EXCEPT !.page = page,
                   !.vp = j.size, !.tiles = blank, !.dirty = {}, !.damageFull = FALSE,
                   !.repaint = FALSE, !.anim = 0, !.wantScroll = None, !.wantNav = FALSE,
                   !.wakePosted = FALSE]
  <2>1. blank = Blank
    BY <1>8 DEF Blank
  <2> QED BY <1>1, <1>7, <1>8, <2>1, Zenon DEF RunLoad
<1>9. PICK t : /\ t = session'
               /\ t = [s EXCEPT !.page = page,
                   !.vp = j.size, !.tiles = blank, !.dirty = {}, !.damageFull = FALSE,
                   !.repaint = FALSE, !.anim = 0, !.wantScroll = None, !.wantNav = FALSE,
                   !.wakePosted = FALSE]
  BY <1>a, Zenon
<1>10. SFields \subseteq DOMAIN s
  BY <1>7 DEF Moves, SessionFresh
<1>11. s.valid = FALSE
  <2>1. PICK a : a = Session
    OBVIOUS
  <2>2. s = [a EXCEPT !.valid = FALSE]
    BY <1>7, <2>1 DEF InvalidateFrame
  <2>3. DOMAIN s = DOMAIN a
    BY <2>2
  <2> QED BY <1>10, <2>2, <2>3 DEF SFields
<1>12. /\ SFields \subseteq DOMAIN t /\ t.valid = FALSE /\ t.vp = j.size /\ t.tiles = blank
       /\ t.dirty = {} /\ t.anim = 0
  BY <1>9, <1>10, <1>11 DEF SFields
<1>13. SessionFresh(t)
  <2>1. blank = [x \in Tiles |-> blank[x]]
    BY <1>8
  <2> QED BY <1>12, <2>1 DEF SessionFresh
<1>14. Fresh(o, t)
  BY <1>1, <1>5, <1>6, <1>12, <1>13, LoadJobFresh
<1>15. Fresh(o, session')
  BY <1>9, <1>14
<1> QED BY <1>5, <1>15

\* While a page is open, it is the session's.
LEMMA OpenPage ==
  ASSUME Framed, Rested, ~view.closed, view.opened
  PROVE  session.page = view.load /\ session.page # None
<1>1. PICK H : Fits(World, session, H)
  BY DEF Framed
<1>2. World.v = view
  BY DEF World
<1>3. session.page = view.load
  BY <1>1, <1>2 DEF Fits
<1>4. view.load \in Nat
  BY <1>2 DEF Rested, Fresh, Ready
<1>5. view.load # -1
  BY <1>4
<1> QED BY <1>3, <1>5 DEF None

\* What a job starts from.
LEMMA JobStarts ==
  ASSUME Rested, ~view.closed
  PROVE  /\ SessionFresh(session)
         /\ Moves(session, Session) /\ Session.page = session.page
         /\ Moves(session, InvalidateFrame(Session)) /\ InvalidateFrame(Session).page = session.page
         /\ ~InvalidateFrame(Session).valid
<1>1. SessionFresh(session)
  BY DEF Rested, Fresh
<1>2. Moves(session, Session) /\ Moves(session, InvalidateFrame(Session))
  BY <1>1, StartMoves DEF Session
<1>3. PICK a, b : a = Session /\ b = InvalidateFrame(Session)
  OBVIOUS
<1>4. b = [a EXCEPT !.valid = FALSE] /\ "valid" \in DOMAIN a
  BY <1>2, <1>3 DEF InvalidateFrame, Moves, SessionFresh, SFields
<1>5. ~b.valid
  BY <1>4
<1> QED BY <1>1, <1>2, <1>3, <1>5 DEF Moves

\* ns_page_session_render
LEMMA RunRenderFresh ==
  ASSUME Framed, Rested, Counted', ~view.closed, jobs # <<>>,
         Head(jobs).kind = "render", RunRender(Head(jobs))
  PROVE  Rested'
<1>1. PICK j : j = Head(jobs) /\ j.kind = "render" /\ RunRender(j)
  OBVIOUS
<1>2. PICK b : /\ b = IF j.full THEN InvalidateFrame(Session) ELSE Session
               /\ Moves(session, b) /\ b.page = session.page /\ (j.full => ~b.valid)
  BY JobStarts
<1>3. SessionFresh(b)
  BY <1>2 DEF Moves
<1>4. CASE b.page = None
  <2>1. PICK m : m = [kind |-> "render", cur |-> j.cur, ok |-> FALSE]
    OBVIOUS
  <2>2. session' = b /\ Finish(<<m>>)
    BY <1>1, <1>2, <1>4, <2>1 DEF RunRender
  <2>3. m.kind = j.kind /\ m.cur = j.cur /\ IsMessage(m, Results)
    BY <1>1, <2>1 DEF IsMessage, Results
  <2>4. PICK w, o : /\ Fresh(w, session) /\ w.v = view /\ Finished(w, o, j, m)
                    /\ Fresh(o, session') => Rested'
    BY <1>1, <2>2, <2>3, FinishWorld
  <2>5. ~w.v.opened
    BY <1>2, <1>4, <2>4, OpenPage
  <2>6. Fresh(o, b)
    BY <1>1, <1>3, <2>4, <2>5, OldJobFresh
  <2>7. Fresh(o, session')
    BY <2>2, <2>6
  <2> QED BY <2>4, <2>7
<1>5. CASE b.page # None
  <2>1. PICK t, m : t = RenderOf(b, j).s /\ m = RenderOf(b, j).r
    OBVIOUS
  <2>2. session' = t /\ Finish(<<m>>)
    BY <1>1, <1>2, <1>5, <2>1 DEF RunRender
  <2>3. Draws(b, j, t, m)
    BY <1>3, <2>1, RenderOfFresh
  <2>4. m.kind = j.kind /\ m.cur = j.cur /\ IsMessage(m, Results) /\ SessionFresh(t)
    BY <1>1, <2>3 DEF Draws
  <2>5. PICK w, o : /\ Fresh(w, session) /\ w.v = view /\ Finished(w, o, j, m)
                    /\ Fresh(o, session') => Rested'
    BY <1>1, <2>2, <2>4, FinishWorld
  <2>6. Fresh(o, t)
    <3>1. CASE w.v.opened
      BY <1>1, <1>2, <2>3, <2>5, <3>1, RenderJobFresh
    <3>2. CASE ~w.v.opened
      BY <1>1, <2>4, <2>5, <3>2, OldJobFresh
    <3> QED BY <3>1, <3>2
  <2>7. Fresh(o, session')
    BY <2>2, <2>6
  <2> QED BY <2>5, <2>7
<1> QED BY <1>4, <1>5


\* ns_page_session_set_viewport
LEMMA RunViewportFresh ==
  ASSUME Framed, Rested, Counted', ~view.closed, jobs # <<>>,
         Head(jobs).kind = "viewport", RunViewport(Head(jobs))
  PROVE  Rested'
<1>1. PICK j : j = Head(jobs) /\ j.kind = "viewport" /\ RunViewport(j)
  OBVIOUS
<1>2. PICK m : m = [kind |-> "viewport", cur |-> j.cur, ok |-> Session.page # None]
  OBVIOUS
<1>3. m.kind = j.kind /\ m.cur = j.cur /\ IsMessage(m, Results) /\ m.ok = (Session.page # None)
  BY <1>1, <1>2 DEF IsMessage, Results
<1>4. Finish(<<m>>)
  BY <1>1, <1>2 DEF RunViewport
<1>5. PICK w, o : /\ Fresh(w, session) /\ w.v = view /\ Finished(w, o, j, m)
                  /\ Fresh(o, session') => Rested'
  BY <1>1, <1>3, <1>4, FinishWorld
<1>6. CASE Session.page = None
  <2>1. PICK t : t = Session /\ t = session' /\ SessionFresh(t)
    <3>1. session' = Session
      BY <1>1, <1>6 DEF RunViewport
    <3>2. SessionFresh(Session)
      BY JobStarts DEF Moves
    <3> QED BY <3>1, <3>2, Zenon
  <2>2. ~w.v.opened
    BY <1>5, <1>6, OpenPage, JobStarts
  <2>3. Fresh(o, t)
    BY <1>1, <1>5, <2>1, <2>2, OldJobFresh
  <2>4. Fresh(o, session')
    BY <2>1, <2>3
  <2> QED BY <1>5, <2>4
<1>7. CASE Session.page # None
  <2>1. PICK s, t : /\ s = InvalidateFrame(Session) /\ t = [s EXCEPT !.vp = j.size]
                    /\ session' = t
    BY <1>1, <1>7 DEF RunViewport
  <2>2. Moves(session, s) /\ ~s.valid
    BY <2>1, JobStarts
  <2>3. SFields \subseteq DOMAIN s
    BY <2>2 DEF Moves, SessionFresh
  <2>4. /\ SFields \subseteq DOMAIN t /\ t.vp = j.size
        /\ \A f \in SFields \ {"vp"} : t[f] = s[f]
    BY <2>1, <2>3 DEF SFields
  <2>5. /\ t.gen = s.gen /\ t.valid = s.valid /\ t.tiles = s.tiles /\ t.dirty = s.dirty
        /\ t.repaint = s.repaint /\ t.anim = s.anim
    BY <2>4 DEF SFields
  <2>6. SessionFresh(t) /\ t.gen = session.gen /\ ~t.valid
    BY <2>2, <2>4, <2>5 DEF Moves, SessionFresh
  <2>7. Fresh(o, t)
    <3>1. CASE w.v.opened
      BY <1>1, <1>3, <1>5, <1>7, <2>4, <2>6, <3>1, ViewportJobFresh
    <3>2. CASE ~w.v.opened
      BY <1>1, <1>5, <2>6, <3>2, OldJobFresh
    <3> QED BY <3>1, <3>2
  <2>8. Fresh(o, session')
    BY <2>1, <2>7
  <2> QED BY <1>5, <2>8
<1> QED BY <1>6, <1>7

\* Jobs that only move the page.
LEMMA MovingJobFresh ==
  ASSUME Rested, Counted', ~view.closed, jobs # <<>>, NEW j, j = Head(jobs),
         j.kind \notin Heavy, NEW t, session' = t, Moves(session, t),
         NEW m, IsMessage(m, Results), m.kind = j.kind, Finish(<<m>>)
  PROVE  Rested'
<1>1. PICK w, o : /\ Fresh(w, session) /\ w.v = view /\ Finished(w, o, j, m)
                  /\ Fresh(o, session') => Rested'
  BY FinishWorld
<1>2. Fresh(o, t)
  BY <1>1, LightJobFresh
<1>3. Fresh(o, session')
  BY <1>2
<1> QED BY <1>1, <1>3

\* The engine thread's jobs.
LEMMA RunJobFresh == ASSUME Framed, Rested, RunJob PROVE Rested'
<1>c. Counted'
  BY RunJobCounted DEF Framed
<1>0. jobs # <<>> /\ view' = view
  BY DEF RunJob, RunLoad, RunRender, RunViewport, RunPress, RunExport, RunClose, Finish
<1>1. CASE view.closed
  BY <1>0, <1>1 DEF Rested
<1>2. CASE ~view.closed
  <2>1. PICK j : j = Head(jobs)
    OBVIOUS
  <2>2. PICK H : Fits(World, session, H)
    BY <1>2 DEF Framed
  <2>3. JobFits(j, view.load, view.opened)
    BY <1>0, <1>2, <2>1, <2>2, JobHead
  <2>4. ASSUME NEW outcome \in {"ok", "fail", "redirect"}, j.kind = "load", RunLoad(j, outcome)
        PROVE  Rested'
    BY <1>c, <1>0, <1>2, <2>1, <2>4, RunLoadFresh
  <2>5. ASSUME j.kind = "render", RunRender(j) PROVE Rested'
    BY <1>c, <1>0, <1>2, <2>1, <2>5, RunRenderFresh
  <2>6. ASSUME j.kind = "viewport", RunViewport(j) PROVE Rested'
    BY <1>c, <1>0, <1>2, <2>1, <2>6, RunViewportFresh
  <2>7. ASSUME NEW effect \in {"none", "draw", "nav"}, j.kind \in {"click", "release"},
               RunPress(j, effect)
        PROVE  Rested'
    <3>1. PICK m : m = [kind |-> j.kind, cur |-> j.cur, by |-> j.by, href |-> effect = "nav",
                        changed |-> effect = "draw"]
      OBVIOUS
    <3>2. m.kind = j.kind /\ m.cur = j.cur /\ IsMessage(m, Results)
      BY <2>7, <3>1 DEF IsMessage, Results
    <3>3. Finish(<<m>>)
      BY <2>7, <3>1 DEF RunPress
    <3>4. PICK s : /\ s = IF Session.page = None THEN Session ELSE InvalidateFrame(Session)
                   /\ Moves(session, s)
      BY <1>2, JobStarts
    <3>5. session' = IF effect = "draw" THEN Drawn(s, {AnimTile}) ELSE s
      BY <2>7, <3>4, Zenon DEF RunPress
    <3>6. Moves(s, Drawn(s, {AnimTile}))
      <4>1. {AnimTile} \subseteq Tiles
        BY ViewAssumption DEF AnimTile
      <4> QED BY <3>4, <4>1, DrawnMoves DEF Moves
    <3>7. PICK t : t = session' /\ Moves(session, t)
      BY <3>4, <3>5, <3>6, MovesTwice
    <3>8. j.kind \notin Heavy
      BY <2>7 DEF Heavy
    <3> QED BY <1>c, <1>0, <1>2, <2>1, <3>2, <3>3, <3>7, <3>8, MovingJobFresh
  <2>8. ASSUME j.kind = "export", RunExport PROVE Rested'
    <3>1. PICK m : m = [kind |-> "export", cur |-> TRUE]
      OBVIOUS
    <3>2. Finish(<<m>>)
      BY <2>8, <3>1 DEF RunExport
    <3>3. PICK t : t = session' /\ Moves(session, t)
      BY <1>2, <2>8, JobStarts DEF RunExport
    <3>4. m.kind = j.kind /\ IsMessage(m, Results) /\ j.kind \notin Heavy
      BY <2>8, <3>1 DEF IsMessage, Results, Heavy
    <3> QED BY <1>c, <1>0, <1>2, <2>1, <3>2, <3>3, <3>4, MovingJobFresh
  <2>9. j.kind # "close"
    BY <2>3 DEF JobFits
  <2> QED BY <1>0, <2>1, <2>4, <2>5, <2>6, <2>7, <2>8, <2>9 DEF RunJob
<1> QED BY <1>1, <1>2


\* The page goes on, and may wake the view.
LEMMA MovesFresh ==
  ASSUME NEW w, NEW s, Fresh(w, s), NEW t, Moves(s, t),
         NEW o, Ready(o), o.v = w.v, o.jobs = w.jobs,
         o.idles = w.idles \/ \E m : m.kind = "wake" /\ o.idles = Append(w.idles, m)
  PROVE  Fresh(o, t)
<1>1. IsQueue(w.idles, Results)
  BY DEF Fresh, Ready, IsWorld
<1>2. ASSUME ~w.v.opened PROVE Waiting(o, t)
  <2>1. PICK q, p, laid, due : q = w.jobs /\ p = w.idles /\ laid = Laid(w.v, s) /\ due = Laid(w.v, t)
    OBVIOUS
  <2>2. LoadsCome(p, q, laid) /\ LoadsAreLast(q, w.v.lastVp) /\ ~w.v.inflight /\ ~w.v.vpInflight
    BY <1>2, <2>1 DEF Fresh, Waiting, LoadsCome
  <2>3. laid => due
    BY <2>1 DEF Laid, Moves
  <2>4. LoadsCome(p, q, due)
    BY <2>2, <2>3 DEF LoadsCome
  <2>5. LoadsCome(o.idles, q, due)
    <3>1. CASE o.idles = w.idles
      BY <2>1, <2>4, <3>1
    <3>2. ASSUME NEW m, m.kind = "wake", o.idles = Append(w.idles, m) PROVE LoadsCome(o.idles, q, due)
      <4>1. m.kind \notin {"render", "viewport", "load"}
        BY <3>2
      <4>2. LoadsCome(Append(p, m), q, due)
        BY <1>1, <2>1, <2>4, <4>1, AppendLoads
      <4> QED BY <2>1, <3>2, <4>2
    <3> QED BY <3>1, <3>2
  <2>6. LoadsCome(o.idles, o.jobs, Laid(o.v, t))
    BY <2>1, <2>5 DEF LoadsCome
  <2> QED BY <2>1, <2>2, <2>6 DEF Waiting
<1>3. ASSUME NEW k, k \in {"render", "viewport"}, NEW at, NEW n, Placed(w, k, at, n)
      PROVE  Placed(o, k, at, n)
  <2>1. CASE o.idles = w.idles
    BY <1>3, <2>1 DEF Placed
  <2>2. ASSUME NEW m, m.kind = "wake", o.idles = Append(w.idles, m) PROVE Placed(o, k, at, n)
    <3>1. m.kind # k
      BY <1>3, <2>2
    <3>2. PICK p : p = w.idles /\ IsQueue(p, Results) /\ o.idles = Append(p, m)
      BY <1>1, <2>2
    <3>3. /\ Nil(p, k) => Nil(Append(p, m), k)
          /\ One(p, k, n) => One(Append(p, m), k, n)
      BY <3>1, <3>2, AppendKind
    <3> QED BY <1>3, <3>2, <3>3 DEF Placed
  <2> QED BY <2>1, <2>2
<1>4. ASSUME w.v.opened, ~w.v.stopped PROVE \E ra, rm, va, vm : Good(o, t, ra, rm, va, vm)
  <2>1. PICK ra, rm, va, vm : Good(w, s, ra, rm, va, vm)
    BY <1>4 DEF Fresh
  <2>2. Placed(w, "render", ra, rm) /\ Placed(w, "viewport", va, vm)
    BY <2>1 DEF Good, Going
  <2>3. Placed(o, "render", ra, rm) /\ Placed(o, "viewport", va, vm)
    BY <1>3, <2>2
  <2>4. Good(o, t, ra, rm, va, vm)
    BY <2>1, <2>3, GoodMoves
  <2> QED BY <2>4
<1> QED BY <1>2, <1>4 DEF Fresh, Moves

\* The same, of a step.
LEMMA MovesRested ==
  ASSUME Rested, Counted', ~view.closed, view' = view, jobs' = jobs,
         NEW t, session' = t, Moves(session, t),
         idles' = idles \/ \E m : m.kind = "wake" /\ idles' = Append(idles, m)
  PROVE  Rested'
<1>1. PICK w : w = World /\ w.v = view /\ w.jobs = jobs /\ w.idles = idles
  <2>1. World.v = view /\ World.jobs = jobs /\ World.idles = idles
    BY DEF World
  <2> QED BY <2>1
<1>2. Fresh(w, session)
  BY <1>1 DEF Rested
<1>3. PICK o : o = [v |-> view', jobs |-> jobs', idles |-> idles', refs |-> refs']
  OBVIOUS
<1>4. World' = o /\ o.v = view' /\ o.jobs = jobs' /\ o.idles = idles'
  BY <1>3 DEF World
<1>5. Ready(o)
  <2>1. IsWorld(o)
    BY <1>4 DEF Counted
  <2> QED BY <1>1, <1>2, <1>4, <2>1 DEF Ready, Fresh
<1>6. o.idles = w.idles \/ \E m : m.kind = "wake" /\ o.idles = Append(w.idles, m)
  BY <1>1, <1>4
<1>7. Fresh(o, t)
  BY <1>1, <1>2, <1>4, <1>5, <1>6, MovesFresh
<1>8. Fresh(World', session')
  BY <1>4, <1>7, Zenon
<1> QED BY <1>8, Zenon DEF Rested

\* session_wake_dispatch
LEMMA SessionWakeFresh == ASSUME Framed, Rested, SessionWake PROVE Rested'
<1>c. Counted'
  BY SessionWakeCounted DEF Framed
<1>v. view' = view /\ jobs' = jobs
  BY DEF SessionWake
<1>1. CASE view.closed
  BY <1>v, <1>1 DEF Rested
<1>2. CASE ~view.closed
  <2>1. PICK m : m = [kind |-> "wake", cur |-> TRUE] /\ idles' = Append(idles, m)
    BY DEF SessionWake
  <2>2. m.kind = "wake"
    BY <2>1
  <2>3. PICK t : t = [session EXCEPT !.wakePosted = TRUE] /\ session' = t
    BY DEF SessionWake
  <2>4. SessionFresh(session)
    BY <1>2, JobStarts
  <2>5. SFields \subseteq DOMAIN session /\ session.anim \in Nat
    BY <2>4 DEF SessionFresh
  <2>6. SFields \subseteq DOMAIN t /\ \A f \in SFields \ {"wakePosted"} : t[f] = session[f]
    BY <2>3, <2>5
  <2>7. t.valid = session.valid /\ t.anim \in Nat
    BY <2>5, <2>6 DEF SFields
  <2>8. Moves(session, t)
    <3>1. \A f \in SFields \ {"alive", "valid", "wakePosted", "wantScroll", "wantNav",
                               "damageFull", "anim"} : t[f] = session[f]
      BY <2>6
    <3> QED BY <2>4, <2>6, <2>7, <3>1, WishMoves
  <2> QED BY <1>c, <1>v, <1>2, <2>1, <2>2, <2>3, <2>8, MovesRested
<1> QED BY <1>1, <1>2

\* The page at work.
LEMMA PageWorkFresh == ASSUME Framed, Rested, PageWork PROVE Rested'
<1>v. view' = view /\ jobs' = jobs /\ idles' = idles /\ refs' = refs
  BY DEF PageWork, PageStep
<1>c. Counted'
  <2>1. World' = World
    BY <1>v DEF World
  <2> QED BY <1>v, <2>1 DEF Framed, Counted
<1>1. CASE view.closed
  BY <1>v, <1>1 DEF Rested
<1>2. CASE ~view.closed
  <2>1. SessionFresh(session)
    BY <1>2, JobStarts
  <2>d. SFields \subseteq DOMAIN session /\ session.anim \in Nat
    BY <2>1 DEF SessionFresh
  <2>w. ASSUME NEW s, SessionFresh(s), NEW t, SFields \subseteq DOMAIN t,
               \A f \in SFields \ {"anim", "wantScroll", "wantNav", "damageFull"} : t[f] = s[f],
               t.anim \in Nat
        PROVE  Moves(s, t)
    <3>1. \A f \in SFields \ {"alive", "valid", "wakePosted", "wantScroll", "wantNav",
                               "damageFull", "anim"} : t[f] = s[f]
      BY <2>w
    <3>2. t.valid = s.valid
      BY <2>w DEF SFields
    <3> QED BY <2>w, <3>1, <3>2, WishMoves
  <2>2. PICK t : t = session' /\ Moves(session, t)
    <3>1. ASSUME NEW tile \in Tiles, PageStep("draw", Drawn(session, {tile}))
          PROVE  Moves(session, session')
      <4>1. {tile} \subseteq Tiles /\ session' = Drawn(session, {tile})
        BY <3>1 DEF PageStep
      <4> QED BY <2>1, <4>1, DrawnMoves
    <3>2. ASSUME PageStep("relayout", [Drawn(session, Tiles) EXCEPT !.damageFull = TRUE])
          PROVE  Moves(session, session')
      <4>1. PICK a : a = Drawn(session, Tiles) /\ Moves(session, a)
        BY <2>1, DrawnMoves
      <4>2. PICK b : b = [a EXCEPT !.damageFull = TRUE] /\ session' = b
        BY <3>2, <4>1 DEF PageStep
      <4>3. SessionFresh(a) /\ SFields \subseteq DOMAIN a /\ a.anim \in Nat
        BY <4>1 DEF Moves, SessionFresh
      <4>4. /\ SFields \subseteq DOMAIN b /\ b.anim = a.anim
            /\ \A f \in SFields \ {"damageFull"} : b[f] = a[f]
        BY <4>2, <4>3 DEF SFields
      <4>5. Moves(a, b)
        BY <2>w, <4>3, <4>4
      <4> QED BY <4>1, <4>2, <4>5, MovesTwice
    <3>3. ASSUME PageStep("animate", [session EXCEPT !.anim = 2]) PROVE Moves(session, session')
      <4>1. PICK b : b = [session EXCEPT !.anim = 2] /\ b = session'
        BY <3>3 DEF PageStep
      <4>2. /\ SFields \subseteq DOMAIN b /\ b.anim = 2
            /\ \A f \in SFields \ {"anim"} : b[f] = session[f]
        BY <2>d, <4>1 DEF SFields
      <4>3. b.anim \in Nat /\ SFields \ {"anim", "wantScroll", "wantNav", "damageFull"}
                               \subseteq SFields \ {"anim"}
        BY <4>2
      <4> QED BY <2>1, <2>w, <4>1, <4>2, <4>3
    <3>4. ASSUME NEW pos \in Scrolls, PageStep("pagescroll", [session EXCEPT !.wantScroll = pos])
          PROVE  Moves(session, session')
      <4>1. PICK b : b = [session EXCEPT !.wantScroll = pos] /\ b = session'
        BY <3>4 DEF PageStep
      <4>2. /\ SFields \subseteq DOMAIN b /\ b.anim = session.anim
            /\ \A f \in SFields \ {"wantScroll"} : b[f] = session[f]
        BY <2>d, <4>1 DEF SFields
      <4> QED BY <2>1, <2>d, <2>w, <4>1, <4>2
    <3>5. ASSUME PageStep("pagenav", [session EXCEPT !.wantNav = TRUE])
          PROVE  Moves(session, session')
      <4>1. PICK b : b = [session EXCEPT !.wantNav = TRUE] /\ b = session'
        BY <3>5 DEF PageStep
      <4>2. /\ SFields \subseteq DOMAIN b /\ b.anim = session.anim
            /\ \A f \in SFields \ {"wantNav"} : b[f] = session[f]
        BY <2>d, <4>1 DEF SFields
      <4> QED BY <2>1, <2>d, <2>w, <4>1, <4>2
    <3>6. Moves(session, session')
      BY <3>1, <3>2, <3>3, <3>4, <3>5 DEF PageWork
    <3> QED BY <3>6, Zenon
  <2> QED BY <1>c, <1>v, <1>2, <2>2, MovesRested
<1> QED BY <1>1, <1>2


-----------------------------------------------------------------------------
(* The rest of an open view, all in all *)

\* At the start no page is open and nothing is under way.
LEMMA RestedInit == ASSUME ViewInit PROVE Rested
<1>c. Counted
  BY CountedInit
<1>1. PICK size \in Sizes :
        view = [opened |-> FALSE, loading |-> FALSE, closed |-> FALSE, load |-> 0,
                redirects |-> 0, deferred |-> FALSE, size |-> size, lastVp |-> 0,
                scroll |-> 0, frame |-> NoFrame, forceFull |-> FALSE,
                armed |-> FALSE, inflight |-> FALSE, pending |-> FALSE,
                vpInflight |-> FALSE, vpPending |-> FALSE, asking |-> FALSE,
                stopped |-> FALSE]
  BY DEF ViewInit
<1>2. /\ VFields \subseteq DOMAIN view
      /\ view.closed = FALSE /\ view.opened = FALSE /\ view.size = size /\ view.load = 0
      /\ view.inflight = FALSE /\ view.vpInflight = FALSE
  BY <1>1 DEF VFields
<1>3. SessionFresh(session)
  <2>1. PICK b : b = [t \in Tiles |-> 0]
    OBVIOUS
  <2>2. session = [alive |-> FALSE, page |-> None, vp |-> 0, tiles |-> b,
                   dirty |-> {}, damageFull |-> FALSE, repaint |-> FALSE,
                   anim |-> 0, wantScroll |-> None, wantNav |-> FALSE,
                   valid |-> FALSE, fb |-> NoPicture, gen |-> 0, wakePosted |-> FALSE]
    BY <2>1 DEF ViewInit, Blank
  <2>3. /\ SFields \subseteq DOMAIN session /\ session.tiles = b /\ session.dirty = {}
        /\ session.anim = 0 /\ session.valid = FALSE
    BY <2>2 DEF SFields
  <2>4. b = [x \in Tiles |-> b[x]]
    BY <2>1
  <2> QED BY <2>3, <2>4 DEF SessionFresh
<1>4. PICK w : w = World /\ w.v = view /\ w.jobs = jobs /\ w.idles = idles /\ IsWorld(w)
  BY <1>c DEF World, Counted
<1>5. Len(w.jobs) = 0 /\ Len(w.idles) = 0
  BY <1>4, EmptySeq DEF ViewInit
<1>6. \A i \in 1..0 : FALSE
  OBVIOUS
<1>7. Waiting(w, session)
  <2>1. LoadsAreLast(w.jobs, w.v.lastVp)
    BY <1>5, <1>6 DEF LoadsAreLast
  <2>2. LoadsCome(w.idles, w.jobs, Laid(w.v, session))
    BY <1>5, <1>6 DEF LoadsCome
  <2> QED BY <1>2, <1>4, <2>1, <2>2 DEF Waiting
<1>8. Ready(w)
  BY <1>2, <1>4, ViewAssumption DEF Ready
<1>9. Fresh(w, session)
  BY <1>2, <1>3, <1>4, <1>7, <1>8 DEF Fresh
<1> QED BY <1>4, <1>9, Zenon DEF Rested

\* The invariant is inductive.
LEMMA RestedStep == ASSUME Framed, Rested, [ViewNext]_vars PROVE Rested'
<1>1. CASE User
  BY <1>1, HandlerFresh, AskSaveFresh, SaveAnsweredFresh, DestroyFresh DEF User
<1>2. CASE AnimTick BY <1>2, TickFresh
<1>3. CASE Deliver BY <1>3, DeliverFresh
<1>4. CASE RunJob BY <1>4, RunJobFresh
<1>5. CASE SessionWake BY <1>5, SessionWakeFresh
<1>6. CASE PageWork BY <1>6, PageWorkFresh
<1>7. CASE UNCHANGED vars
  <2>1. view' = view /\ session' = session /\ World' = World
    BY <1>7 DEF vars, World
  <2> QED BY <2>1 DEF Rested
<1> QED BY <1>1, <1>2, <1>3, <1>4, <1>5, <1>6, <1>7 DEF ViewNext

-----------------------------------------------------------------------------
(* Wakes: that a wake which the session has posted is still to be served.  *)
(*                                                                         *)
(* The session posts one wake and no other until it renders.  While a page *)
(* is open that wake is with the results, behind every render result that  *)
(* could still disarm the frame clock, or the clock is armed and none can. *)
(* Before it is open, the wake comes behind the result that opens it.      *)

Disarms(m) == m.kind = "render" /\ m.cur
Opens(m) == m.kind = "load" /\ m.cur

WakeLast(q) ==
  \E i \in 1..Len(q) : q[i].kind = "wake" /\ \A x \in 1..Len(q) : x > i => ~Disarms(q[x])
Disarmers(q) == \E i \in 1..Len(q) : Disarms(q[i])
Woken(armed, q) == (armed /\ ~Disarmers(q)) \/ WakeLast(q)
Heard(q) ==
  \A i \in 1..Len(q) : Opens(q[i]) /\ q[i].outcome # "fail" =>
    \E x \in 1..Len(q) : x > i /\ q[x].kind = "wake"

Aware(w) ==
  /\ IsWorld(w) /\ {"opened", "armed"} \subseteq DOMAIN w.v
  /\ \A i \in 1..Len(w.idles) : "cur" \in DOMAIN w.idles[i]

Heeds(w, s) ==
  /\ Aware(w)
  /\ w.v.opened /\ s.wakePosted => Woken(w.v.armed, w.idles)
  /\ ~w.v.opened /\ s.wakePosted => Heard(w.idles)

\* The same messages, of which fewer are current.
Echoes(p, q) ==
  /\ Len(q) = Len(p)
  /\ \A i \in 1..Len(p) : q[i].kind = p[i].kind /\ (q[i].cur => q[i] = p[i])

\* The wake among fewer current messages.
LEMMA EchoWoken ==
  ASSUME NEW p, NEW q, Echoes(p, q)
  PROVE  /\ \A armed : Woken(armed, p) => Woken(armed, q)
         /\ Heard(p) => Heard(q)
<1>1. \A i \in 1..Len(p) : Disarms(q[i]) => Disarms(p[i])
  BY DEF Echoes, Disarms
<1>2. Disarmers(q) => Disarmers(p)
  BY <1>1 DEF Disarmers, Echoes
<1>3. WakeLast(p) => WakeLast(q)
  BY <1>1 DEF WakeLast, Echoes
<1>4. ASSUME Heard(p), NEW i \in 1..Len(q), Opens(q[i]), q[i].outcome # "fail"
      PROVE  \E x \in 1..Len(q) : x > i /\ q[x].kind = "wake"
  <2>1. i \in 1..Len(p) /\ q[i] = p[i]
    BY <1>4 DEF Echoes, Opens
  <2>2. PICK x \in 1..Len(p) : x > i /\ p[x].kind = "wake"
    BY <1>4, <2>1 DEF Heard
  <2> QED BY <2>2 DEF Echoes
<1> QED BY <1>2, <1>3, <1>4 DEF Woken, Heard

\* Other fields of the view, and results of which fewer are current.
LEMMA EchoHeeds ==
  ASSUME NEW w, NEW s, Heeds(w, s), NEW o, Aware(o),
         o.v.opened = w.v.opened, o.v.armed = w.v.armed, Echoes(w.idles, o.idles)
  PROVE  Heeds(o, s)
BY EchoWoken DEF Heeds

\* A queue echoes itself.
LEMMA EchoSame == ASSUME NEW q PROVE Echoes(q, q)
BY DEF Echoes

\* The fields that the wake depends on.
Alarm == {"closed", "asking", "opened", "armed"}

\* One other field of the view.
LEMMA FieldHeeds ==
  ASSUME NEW w, NEW s, Heeds(w, s), NEW f, f \notin Alarm, NEW e,
         NEW o, o = [w EXCEPT !.v = [w.v EXCEPT ![f] = e]]
  PROVE  Heeds(o, s)
<1>1. IsWorld(w) /\ {"v", "jobs", "idles", "refs"} \subseteq DOMAIN w /\ Alarm \subseteq DOMAIN w.v
  BY DEF Heeds, Aware, IsWorld, Alarm
<1>2. /\ o.jobs = w.jobs /\ o.idles = w.idles /\ o.refs = w.refs /\ DOMAIN o = DOMAIN w
      /\ o.v = [w.v EXCEPT ![f] = e]
  BY <1>1
<1>3. PICK v, u : v = w.v /\ u = o.v
  OBVIOUS
<1>4. u = [v EXCEPT ![f] = e] /\ Alarm \subseteq DOMAIN v
  BY <1>1, <1>2, <1>3
<1>5. DOMAIN u = DOMAIN v /\ \A x \in Alarm : u[x] = v[x]
  BY <1>4
<1>6. u.closed = v.closed /\ u.asking = v.asking /\ u.opened = v.opened /\ u.armed = v.armed
  BY <1>5 DEF Alarm
<1>7. IsWorld(o)
  BY <1>1, <1>2, <1>3, <1>4, <1>5, <1>6 DEF IsWorld, Alarm
<1>8. Aware(o)
  BY <1>2, <1>3, <1>5, <1>7 DEF Heeds, Aware
<1>9. Echoes(w.idles, o.idles)
  BY <1>2, EchoSame
<1> QED BY <1>3, <1>6, <1>8, <1>9, EchoHeeds

\* Raising sequence numbers.
LEMMA OutdateHeeds ==
  ASSUME NEW w, NEW s, Heeds(w, s), NEW kinds
  PROVE  /\ Heeds(Outdate(w, kinds), s) /\ Outdate(w, kinds).v = w.v
         /\ \A i \in 1..Len(Outdate(w, kinds).idles) :
              Outdate(w, kinds).idles[i].cur => Outdate(w, kinds).idles[i].kind \notin kinds
<1>1. PICK o : o = Outdate(w, kinds)
  OBVIOUS
<1>2. IsWorld(w)
  BY DEF Heeds, Aware
<1>3. IsWorld(o) /\ o.v = w.v
  BY <1>1, <1>2, OutdateSame DEF Same
<1>4. o.idles = Outdated(w.idles, kinds)
  BY <1>1, <1>2 DEF Outdate, IsWorld
<1>5. PICK p, q : p = w.idles /\ q = o.idles /\ q = Outdated(p, kinds)
  BY <1>4
<1>6. IsQueue(p, Results) /\ \A i \in 1..Len(p) : "cur" \in DOMAIN p[i]
  BY <1>2, <1>5 DEF Heeds, Aware, IsWorld
<1>7. Len(Outdated(p, kinds)) = Len(p)
  BY <1>6, OutdatedQueue
<1>8. \A i \in 1..Len(p) :
        /\ Outdated(p, kinds)[i].kind = p[i].kind /\ "cur" \in DOMAIN Outdated(p, kinds)[i]
        /\ Outdated(p, kinds)[i].cur => Outdated(p, kinds)[i] = p[i] /\ p[i].kind \notin kinds
  BY <1>6, OutdatedMessages
<1>9. /\ Len(q) = Len(p)
      /\ \A i \in 1..Len(p) : /\ q[i].kind = p[i].kind /\ "cur" \in DOMAIN q[i]
                              /\ q[i].cur => q[i] = p[i] /\ p[i].kind \notin kinds
  BY <1>5, <1>7, <1>8
<1>10. Echoes(p, q)
  BY <1>9 DEF Echoes
<1>11. Aware(o)
  BY <1>3, <1>5, <1>9 DEF Heeds, Aware
<1>12. Heeds(o, s)
  BY <1>3, <1>5, <1>10, <1>11, EchoHeeds
<1>13. \A i \in 1..Len(o.idles) : o.idles[i].cur => o.idles[i].kind \notin kinds
  BY <1>5, <1>9
<1> QED BY <1>1, <1>3, <1>12, <1>13

\* A request.
LEMMA PushReqHeeds ==
  ASSUME NEW w, NEW s, Heeds(w, s), NEW req, IsMessage(req, Requests)
  PROVE  Heeds(PushReq(w, req), s) /\ PushReq(w, req).v = w.v
<1>1. PICK o : o = PushReq(w, req)
  OBVIOUS
<1>2. IsWorld(w)
  BY DEF Heeds, Aware
<1>3. IsWorld(o) /\ o.v = w.v
  BY <1>1, <1>2, PushReqSame DEF Same
<1>4. o.idles = w.idles
  BY <1>1, <1>2 DEF PushReq, IsWorld
<1>5. Aware(o) /\ Echoes(w.idles, o.idles)
  BY <1>3, <1>4, EchoSame DEF Heeds, Aware
<1>6. Heeds(o, s)
  BY <1>3, <1>5, EchoHeeds
<1> QED BY <1>1, <1>3, <1>6

\* start_render
LEMMA StartRenderHeeds == ASSUME NEW w, NEW s, Heeds(w, s) PROVE Heeds(StartRender(w), s)
<1>1. CASE ~w.v.opened BY <1>1 DEF StartRender
<1>2. CASE w.v.opened
  <2>1. PICK a : a = Outdate(w, {"render"}) /\ Heeds(a, s)
    BY OutdateHeeds
  <2>2. PICK b, o : /\ b = [a EXCEPT !.v = [a.v EXCEPT !["inflight"] = TRUE]]
                    /\ o = [b EXCEPT !.v = [b.v EXCEPT !["forceFull"] = FALSE]]
    OBVIOUS
  <2>3. Heeds(o, s)
    <3>1. "inflight" \notin Alarm /\ "forceFull" \notin Alarm
      BY DEF Alarm
    <3>2. Heeds(b, s)
      BY <2>1, <2>2, <3>1, FieldHeeds
    <3> QED BY <2>2, <3>1, <3>2, FieldHeeds
  <2>4. o = [a EXCEPT !.v.inflight = TRUE, !.v.forceFull = FALSE]
    BY <2>2
  <2>5. PICK req : StartRender(w) = PushReq(o, req) /\ IsMessage(req, Requests)
    <3> DEFINE req == [kind |-> "render", cur |-> TRUE, size |-> w.v.size,
                       scroll |-> w.v.scroll, full |-> w.v.forceFull]
    <3>1. StartRender(w) = PushReq(o, req)
      BY <1>2, <2>1, <2>4 DEF StartRender
    <3>2. IsMessage(req, Requests)
      BY DEF IsMessage, Requests
    <3> QED BY <3>1, <3>2
  <2> QED BY <2>3, <2>5, PushReqHeeds
<1> QED BY <1>1, <1>2

\* request_render
LEMMA RequestRenderHeeds == ASSUME NEW w, NEW s, Heeds(w, s) PROVE Heeds(RequestRender(w), s)
<1>1. CASE ~w.v.opened BY <1>1 DEF RequestRender
<1>2. CASE w.v.opened /\ w.v.inflight
  <2>1. PICK o : o = [w EXCEPT !.v.pending = TRUE] /\ RequestRender(w) = o
    BY <1>2 DEF RequestRender
  <2>2. o = [w EXCEPT !.v = [w.v EXCEPT !["pending"] = TRUE]]
    BY <2>1
  <2>3. "pending" \notin Alarm
    BY DEF Alarm
  <2>4. Heeds(o, s)
    BY <2>2, <2>3, FieldHeeds
  <2> QED BY <2>1, <2>4
<1>3. CASE w.v.opened /\ ~w.v.inflight
  BY <1>3, StartRenderHeeds DEF RequestRender
<1> QED BY <1>1, <1>2, <1>3

\* on_adj_changed, as ScrollTo runs it.
LEMMA ScrollToHeeds == ASSUME NEW w, NEW s, Heeds(w, s), NEW pos PROVE Heeds(ScrollTo(w, pos), s)
<1>1. CASE pos = w.v.scroll BY <1>1 DEF ScrollTo
<1>2. CASE pos # w.v.scroll
  <2>1. PICK o : o = [w EXCEPT !.v.scroll = pos] /\ ScrollTo(w, pos) = RequestRender(o)
    BY <1>2 DEF ScrollTo
  <2>2. o = [w EXCEPT !.v = [w.v EXCEPT !["scroll"] = pos]] /\ "scroll" \notin Alarm
    BY <2>1 DEF Alarm
  <2>3. Heeds(o, s)
    BY <2>2, FieldHeeds
  <2> QED BY <2>1, <2>3, RequestRenderHeeds
<1> QED BY <1>1, <1>2

\* start_viewport
LEMMA StartViewportHeeds ==
  ASSUME NEW w, NEW s, Heeds(w, s), NEW size PROVE Heeds(StartViewport(w, size), s)
<1>1. CASE ~w.v.opened BY <1>1 DEF StartViewport
<1>2. CASE w.v.opened /\ w.v.vpInflight
  <2>1. PICK o : o = [w EXCEPT !.v.vpPending = TRUE] /\ StartViewport(w, size) = o
    BY <1>2 DEF StartViewport
  <2>2. o = [w EXCEPT !.v = [w.v EXCEPT !["vpPending"] = TRUE]] /\ "vpPending" \notin Alarm
    BY <2>1 DEF Alarm
  <2>3. Heeds(o, s)
    BY <2>2, FieldHeeds
  <2> QED BY <2>1, <2>3
<1>3. CASE w.v.opened /\ ~w.v.vpInflight
  <2>1. PICK a : a = Outdate(w, {"viewport"}) /\ Heeds(a, s)
    BY OutdateHeeds
  <2>2. PICK o : o = [a EXCEPT !.v.vpInflight = TRUE]
    OBVIOUS
  <2>3. o = [a EXCEPT !.v = [a.v EXCEPT !["vpInflight"] = TRUE]] /\ "vpInflight" \notin Alarm
    BY <2>2 DEF Alarm
  <2>4. Heeds(o, s)
    BY <2>1, <2>3, FieldHeeds
  <2>5. PICK req : StartViewport(w, size) = PushReq(o, req) /\ IsMessage(req, Requests)
    <3> DEFINE req == [kind |-> "viewport", cur |-> TRUE, size |-> size]
    <3>1. StartViewport(w, size) = PushReq(o, req)
      BY <1>3, <2>1, <2>2 DEF StartViewport
    <3>2. IsMessage(req, Requests)
      BY DEF IsMessage, Requests
    <3> QED BY <3>1, <3>2
  <2> QED BY <2>4, <2>5, PushReqHeeds
<1> QED BY <1>1, <1>2, <1>3

\* maybe_update_viewport
LEMMA MaybeUpdateViewportHeeds ==
  ASSUME NEW w, NEW s, Heeds(w, s) PROVE Heeds(MaybeUpdateViewport(w), s)
<1>1. CASE ~ViewportMoved(w.v) BY <1>1 DEF MaybeUpdateViewport
<1>2. CASE ViewportMoved(w.v)
  <2>1. PICK o : /\ o = [w EXCEPT !.v.lastVp = w.v.size]
                 /\ MaybeUpdateViewport(w) = StartViewport(o, w.v.size)
    BY <1>2 DEF MaybeUpdateViewport
  <2>2. o = [w EXCEPT !.v = [w.v EXCEPT !["lastVp"] = w.v.size]] /\ "lastVp" \notin Alarm
    BY <2>1 DEF Alarm
  <2>3. Heeds(o, s)
    BY <2>2, FieldHeeds
  <2> QED BY <2>1, <2>3, StartViewportHeeds
<1> QED BY <1>1, <1>2

\* The wake is last: then the clock may be set either way.
LEMMA WakeLastWakes == ASSUME NEW q, WakeLast(q), NEW armed PROVE Woken(armed, q)
BY DEF Woken

\* The clock is set.
LEMMA ArmHeeds ==
  ASSUME NEW w, NEW s, Aware(w), NEW e,
         w.v.opened /\ s.wakePosted => Woken(e, w.idles),
         ~w.v.opened /\ s.wakePosted => Heard(w.idles),
         NEW o, o = [w EXCEPT !.v.armed = e]
  PROVE  Heeds(o, s)
<1>1. /\ IsWorld(w) /\ {"v", "jobs", "idles", "refs"} \subseteq DOMAIN w
      /\ {"closed", "asking", "opened", "armed"} \subseteq DOMAIN w.v
  BY DEF Aware, IsWorld
<1>2. /\ o.jobs = w.jobs /\ o.idles = w.idles /\ o.refs = w.refs /\ DOMAIN o = DOMAIN w
      /\ o.v = [w.v EXCEPT !.armed = e]
  BY <1>1
<1>3. PICK v, u : v = w.v /\ u = o.v
  OBVIOUS
<1>4. u = [v EXCEPT !.armed = e] /\ {"closed", "asking", "opened", "armed"} \subseteq DOMAIN v
  BY <1>1, <1>2, <1>3
<1>5. /\ DOMAIN u = DOMAIN v /\ u.closed = v.closed /\ u.asking = v.asking
      /\ u.opened = v.opened /\ u.armed = e
  BY <1>4
<1>6. IsWorld(o)
  BY <1>1, <1>2, <1>3, <1>4, <1>5 DEF IsWorld
<1>7. Aware(o)
  BY <1>2, <1>3, <1>4, <1>5, <1>6 DEF Aware
<1> QED BY <1>2, <1>3, <1>5, <1>7 DEF Heeds

\* The page is open.
LEMMA OpenHeeds ==
  ASSUME NEW w, NEW s, Aware(w), s.wakePosted => Woken(w.v.armed, w.idles),
         NEW o, o = [w EXCEPT !.v = [@ EXCEPT !.redirects = 0, !.opened = TRUE, !.loading = FALSE]]
  PROVE  Heeds(o, s)
<1>1. /\ IsWorld(w) /\ {"v", "jobs", "idles", "refs"} \subseteq DOMAIN w
      /\ {"closed", "asking", "opened", "armed"} \subseteq DOMAIN w.v
  BY DEF Aware, IsWorld
<1>2. /\ o.jobs = w.jobs /\ o.idles = w.idles /\ o.refs = w.refs /\ DOMAIN o = DOMAIN w
      /\ o.v = [w.v EXCEPT !.redirects = 0, !.opened = TRUE, !.loading = FALSE]
  BY <1>1
<1>3. PICK v, u : v = w.v /\ u = o.v
  OBVIOUS
<1>4. /\ u = [v EXCEPT !.redirects = 0, !.opened = TRUE, !.loading = FALSE]
      /\ {"closed", "asking", "opened", "armed"} \subseteq DOMAIN v
  BY <1>1, <1>2, <1>3
<1>5. /\ DOMAIN u = DOMAIN v /\ u.closed = v.closed /\ u.asking = v.asking
      /\ u.opened = TRUE /\ u.armed = v.armed
  BY <1>4
<1>6. IsWorld(o)
  BY <1>1, <1>2, <1>3, <1>4, <1>5 DEF IsWorld
<1>7. Aware(o)
  BY <1>2, <1>3, <1>4, <1>5, <1>6 DEF Aware
<1> QED BY <1>2, <1>3, <1>5, <1>7 DEF Heeds

\* do_load: no result that is left opens a page.
LEMMA DoLoadHeeds == ASSUME NEW w, NEW s, Heeds(w, s) PROVE Heeds(DoLoad(w), s)
<1> DEFINE a == Outdate(w, {"load", "render", "viewport", "click"})
<1>1. /\ Heeds(a, s) /\ a.v = w.v
      /\ \A i \in 1..Len(a.idles) :
           a.idles[i].cur => a.idles[i].kind \notin {"load", "render", "viewport", "click"}
  BY OutdateHeeds
<1>2. PICK o : o = [a EXCEPT !.v = [@ EXCEPT !.load = w.v.load + 1, !.pending = FALSE,
                                    !.inflight = FALSE, !.vpInflight = FALSE,
                                    !.vpPending = FALSE, !.opened = FALSE, !.armed = FALSE,
                                    !.frame = NoFrame, !.loading = TRUE, !.stopped = FALSE]]
  OBVIOUS
<1>3. PICK b : b = a /\ o = [b EXCEPT !.v = [@ EXCEPT !.load = w.v.load + 1, !.pending = FALSE,
                                    !.inflight = FALSE, !.vpInflight = FALSE,
                                    !.vpPending = FALSE, !.opened = FALSE, !.armed = FALSE,
                                    !.frame = NoFrame, !.loading = TRUE, !.stopped = FALSE]]
  BY <1>2
<1>4. Aware(b) /\ IsWorld(b) /\ {"v", "jobs", "idles", "refs"} \subseteq DOMAIN b
      /\ {"closed", "asking", "opened", "armed"} \subseteq DOMAIN b.v
  BY <1>1, <1>3 DEF Heeds, Aware, IsWorld
<1>5. /\ o.jobs = b.jobs /\ o.idles = b.idles /\ o.refs = b.refs /\ DOMAIN o = DOMAIN b
      /\ o.v = [b.v EXCEPT !.load = w.v.load + 1, !.pending = FALSE,
                           !.inflight = FALSE, !.vpInflight = FALSE,
                           !.vpPending = FALSE, !.opened = FALSE, !.armed = FALSE,
                           !.frame = NoFrame, !.loading = TRUE, !.stopped = FALSE]
  BY <1>3, <1>4
<1>6. PICK v, u : v = b.v /\ u = o.v
  OBVIOUS
<1>7. /\ DOMAIN u = DOMAIN v /\ u.closed = v.closed /\ u.asking = v.asking /\ u.opened = FALSE
  BY <1>4, <1>5, <1>6
<1>8. IsWorld(o)
  BY <1>4, <1>5, <1>6, <1>7 DEF IsWorld
<1>9. Aware(o)
  BY <1>4, <1>5, <1>6, <1>7, <1>8 DEF Aware
<1>10. Heard(o.idles)
  BY <1>1, <1>3, <1>5 DEF Heard, Opens
<1>11. Heeds(o, s)
  BY <1>6, <1>7, <1>9, <1>10 DEF Heeds
<1>12. CASE w.v.size = 0
  <2>1. PICK p : p = [o EXCEPT !.v.deferred = TRUE] /\ DoLoad(w) = p
    BY <1>2, <1>12 DEF DoLoad
  <2>2. p = [o EXCEPT !.v = [o.v EXCEPT !["deferred"] = TRUE]] /\ "deferred" \notin Alarm
    BY <2>1 DEF Alarm
  <2>3. Heeds(p, s)
    BY <1>11, <2>2, FieldHeeds
  <2> QED BY <2>1, <2>3
<1>13. CASE w.v.size # 0
  <2>1. PICK p : p = [o EXCEPT !.v.lastVp = w.v.size]
    OBVIOUS
  <2>2. p = [o EXCEPT !.v = [o.v EXCEPT !["lastVp"] = w.v.size]] /\ "lastVp" \notin Alarm
    BY <2>1 DEF Alarm
  <2>3. Heeds(p, s)
    BY <1>11, <2>2, FieldHeeds
  <2>4. PICK req : DoLoad(w) = PushReq(p, req) /\ IsMessage(req, Requests)
    <3> DEFINE req == [kind |-> "load", cur |-> TRUE, load |-> w.v.load + 1, size |-> w.v.size]
    <3>1. DoLoad(w) = PushReq(p, req)
      BY <1>2, <1>13, <2>1 DEF DoLoad
    <3>2. IsMessage(req, Requests)
      BY DEF IsMessage, Requests
    <3> QED BY <3>1, <3>2
  <2> QED BY <2>3, <2>4, PushReqHeeds
<1> QED BY <1>12, <1>13

\* apply_patch, or asking for the whole frame.
LEMMA OnPatchHeeds == ASSUME NEW w, NEW s, Heeds(w, s), NEW r PROVE Heeds(OnPatch(w, r), s)
<1>1. CASE w.v.frame.gen # None /\ w.v.frame.gen = r.base
  <2>1. PICK f, o : o = [w EXCEPT !.v.frame = f] /\ OnPatch(w, r) = o
    BY <1>1 DEF OnPatch
  <2>2. o = [w EXCEPT !.v = [w.v EXCEPT !["frame"] = f]] /\ "frame" \notin Alarm
    BY <2>1 DEF Alarm
  <2>3. Heeds(o, s)
    BY <2>2, FieldHeeds
  <2> QED BY <2>1, <2>3
<1>2. CASE ~(w.v.frame.gen # None /\ w.v.frame.gen = r.base)
  <2>1. PICK o : o = [w EXCEPT !.v.forceFull = TRUE] /\ OnPatch(w, r) = RequestRender(o)
    BY <1>2 DEF OnPatch
  <2>2. o = [w EXCEPT !.v = [w.v EXCEPT !["forceFull"] = TRUE]] /\ "forceFull" \notin Alarm
    BY <2>1 DEF Alarm
  <2>3. Heeds(o, s)
    BY <2>2, FieldHeeds
  <2> QED BY <2>1, <2>3, RequestRenderHeeds
<1> QED BY <1>1, <1>2

\* The pixels of a result.
LEMMA OnPixelsHeeds == ASSUME NEW w, NEW s, Heeds(w, s), NEW r PROVE Heeds(OnPixels(w, r), s)
<1>1. CASE r.has = "full" /\ r.cur
  <2>1. PICK f, o : o = [w EXCEPT !.v.frame = f] /\ OnPixels(w, r) = o
    BY <1>1 DEF OnPixels
  <2>2. o = [w EXCEPT !.v = [w.v EXCEPT !["frame"] = f]] /\ "frame" \notin Alarm
    BY <2>1 DEF Alarm
  <2>3. Heeds(o, s)
    BY <2>2, FieldHeeds
  <2> QED BY <2>1, <2>3
<1>2. CASE ~(r.has = "full" /\ r.cur) /\ r.has = "patch"
  <2>1. OnPixels(w, r) = OnPatch(w, r)
    BY <1>2 DEF OnPixels
  <2> QED BY <2>1, OnPatchHeeds
<1>3. CASE ~(r.has = "full" /\ r.cur) /\ r.has # "patch"
  <2>1. OnPixels(w, r) = w
    BY <1>3 DEF OnPixels
  <2> QED BY <2>1
<1> QED BY <1>1, <1>2, <1>3

\* What is known of the wake when the next result is in hand.
Roused(w, s, r) ==
  /\ Aware(w)
  /\ w.v.opened /\ s.wakePosted =>
       /\ Disarms(r) => WakeLast(w.idles)
       /\ r.kind = "wake" => Woken(TRUE, w.idles)
       /\ ~Disarms(r) /\ r.kind # "wake" => Woken(w.v.armed, w.idles)
  /\ ~w.v.opened /\ s.wakePosted =>
       /\ Heard(w.idles)
       /\ Opens(r) /\ r.outcome # "fail" =>
            \E i \in 1..Len(w.idles) : w.idles[i].kind = "wake"

\* on_result, of a render.
LEMMA OnFrameHeeds ==
  ASSUME NEW w, NEW s, NEW r, r.kind = "render", Roused(w, s, r) PROVE Heeds(OnFrame(w, r), s)
<1> DEFINE arm == IF r.cur /\ r.ok THEN [w EXCEPT !.v.armed = r.animating] ELSE w
           pos == IF r.cur /\ r.ok /\ r.scroll # None THEN ScrollTo(arm, r.scroll) ELSE arm
           pix == IF r.ok THEN OnPixels(pos, r) ELSE pos
           nav == IF r.cur /\ r.ok /\ r.nav /\ pix.v.redirects < MaxRedirects
                  THEN DoLoad([pix EXCEPT !.v.redirects = @ + 1]) ELSE pix
           end == [nav EXCEPT !.v.inflight = FALSE, !.v.pending = FALSE]
<1>0. OnFrame(w, r) = IF nav.v.pending THEN StartRender(end)
                       ELSE IF r.cur /\ ~r.ok THEN [end EXCEPT !.v.loading = FALSE] ELSE end
  BY Zenon DEF OnFrame
<1>1. arm = IF r.cur /\ r.ok THEN [w EXCEPT !.v.armed = r.animating] ELSE w
  OBVIOUS
<1>3. pos = IF r.cur /\ r.ok /\ r.scroll # None THEN ScrollTo(arm, r.scroll) ELSE arm
  OBVIOUS
<1>5. pix = IF r.ok THEN OnPixels(pos, r) ELSE pos
  OBVIOUS
<1>7. nav = IF r.cur /\ r.ok /\ r.nav /\ pix.v.redirects < MaxRedirects
          THEN DoLoad([pix EXCEPT !.v.redirects = @ + 1]) ELSE pix
  OBVIOUS
<1>9. end = [nav EXCEPT !.v.inflight = FALSE, !.v.pending = FALSE]
  OBVIOUS
<1> HIDE DEF arm, pos, pix, nav, end
<1>k. r.kind # "wake"
  OBVIOUS
<1>2. Heeds(arm, s)
  <2>1. CASE r.cur /\ r.ok
    <3>1. PICK e : e = r.animating
      OBVIOUS
    <3>2. arm = [w EXCEPT !.v.armed = e]
      BY <1>1, <2>1, <3>1
    <3>3. Disarms(r)
      BY <2>1 DEF Disarms
    <3>4. w.v.opened /\ s.wakePosted => Woken(e, w.idles)
      BY <3>3, WakeLastWakes DEF Roused
    <3>5. Aware(w) /\ (~w.v.opened /\ s.wakePosted => Heard(w.idles))
      BY DEF Roused
    <3> QED BY <3>2, <3>4, <3>5, ArmHeeds
  <2>2. CASE ~(r.cur /\ r.ok)
    <3>1. arm = w
      BY <1>1, <2>2
    <3>2. w.v.opened /\ s.wakePosted => Woken(w.v.armed, w.idles)
      BY <1>k, WakeLastWakes DEF Roused
    <3>3. Heeds(w, s)
      BY <3>2 DEF Roused, Heeds
    <3> QED BY <3>1, <3>3
  <2> QED BY <2>1, <2>2
<1>4. Heeds(pos, s)
  BY <1>2, <1>3, ScrollToHeeds
<1>6. Heeds(pix, s)
  BY <1>4, <1>5, OnPixelsHeeds
<1>8. Heeds(nav, s)
  <2>1. CASE r.cur /\ r.ok /\ r.nav /\ pix.v.redirects < MaxRedirects
    <3>1. PICK o : o = [pix EXCEPT !.v.redirects = @ + 1] /\ nav = DoLoad(o)
      BY <1>7, <2>1
    <3>2. o = [pix EXCEPT !.v = [pix.v EXCEPT !["redirects"] = pix.v.redirects + 1]]
      BY <3>1
    <3>3. "redirects" \notin Alarm
      BY DEF Alarm
    <3>4. Heeds(o, s)
      BY <1>6, <3>2, <3>3, FieldHeeds
    <3> QED BY <3>1, <3>4, DoLoadHeeds
  <2>2. CASE ~(r.cur /\ r.ok /\ r.nav /\ pix.v.redirects < MaxRedirects) BY <1>6, <1>7, <2>2
  <2> QED BY <2>1, <2>2
<1>10. Heeds(end, s)
  <2>1. PICK b, o : /\ b = [nav EXCEPT !.v = [nav.v EXCEPT !["inflight"] = FALSE]]
                    /\ o = [b EXCEPT !.v = [b.v EXCEPT !["pending"] = FALSE]]
    OBVIOUS
  <2>2. "inflight" \notin Alarm /\ "pending" \notin Alarm
    BY DEF Alarm
  <2>3. Heeds(b, s)
    BY <1>8, <2>1, <2>2, FieldHeeds
  <2>4. Heeds(o, s)
    BY <2>1, <2>2, <2>3, FieldHeeds
  <2>5. end = o
    BY <1>9, <2>1
  <2> QED BY <2>4, <2>5
<1>15. CASE nav.v.pending
  <2>1. OnFrame(w, r) = StartRender(end) BY <1>0, <1>15
  <2> QED BY <1>10, <2>1, StartRenderHeeds
<1>16. CASE ~nav.v.pending /\ r.cur /\ ~r.ok
  <2>1. PICK o : o = [end EXCEPT !.v.loading = FALSE] /\ OnFrame(w, r) = o
    BY <1>0, <1>16
  <2>2. o = [end EXCEPT !.v = [end.v EXCEPT !["loading"] = FALSE]] /\ "loading" \notin Alarm
    BY <2>1 DEF Alarm
  <2>3. Heeds(o, s)
    BY <1>10, <2>2, FieldHeeds
  <2> QED BY <2>1, <2>3
<1>17. CASE ~nav.v.pending /\ ~(r.cur /\ ~r.ok)
  BY <1>10, <1>0, <1>17
<1> QED BY <1>15, <1>16, <1>17

\* on_result, of a change of the viewport.
LEMMA OnViewportHeeds == ASSUME NEW w, NEW s, Heeds(w, s), NEW r PROVE Heeds(OnViewport(w, r), s)
<1>1. CASE ~r.cur BY <1>1 DEF OnViewport
<1>2. CASE r.cur
  <2>1. PICK o : o = [w EXCEPT !.v.vpInflight = FALSE]
    OBVIOUS
  <2>2. o = [w EXCEPT !.v = [w.v EXCEPT !["vpInflight"] = FALSE]]
        /\ "vpInflight" \notin Alarm /\ "vpPending" \notin Alarm
    BY <2>1 DEF Alarm
  <2>3. Heeds(o, s)
    BY <2>2, FieldHeeds
  <2>4. PICK p : p = IF r.ok THEN RequestRender(o) ELSE o
    OBVIOUS
  <2>5. Heeds(p, s)
    BY <2>3, <2>4, RequestRenderHeeds
  <2>6. OnViewport(w, r) = IF p.v.vpPending
                           THEN StartViewport([p EXCEPT !.v.vpPending = FALSE], p.v.lastVp) ELSE p
    BY <1>2, <2>1, <2>4 DEF OnViewport
  <2>7. CASE p.v.vpPending
    <3>1. PICK q : q = [p EXCEPT !.v.vpPending = FALSE] /\ OnViewport(w, r) = StartViewport(q, p.v.lastVp)
      BY <2>6, <2>7
    <3>2. q = [p EXCEPT !.v = [p.v EXCEPT !["vpPending"] = FALSE]]
      BY <3>1
    <3>3. Heeds(q, s)
      BY <2>2, <2>5, <3>2, FieldHeeds
    <3> QED BY <3>1, <3>3, StartViewportHeeds
  <2>8. CASE ~p.v.vpPending BY <2>5, <2>6, <2>8
  <2> QED BY <2>7, <2>8
<1> QED BY <1>1, <1>2

\* on_result, of a load: the wake of the new page comes behind it.
LEMMA OnPageHeeds ==
  ASSUME NEW w, NEW s, NEW r, r.kind = "load", Roused(w, s, r), Coming(w, s, r)
  PROVE  Heeds(OnPage(w, r), s)
<1>0. Heeds(w, s)
  <2>1. ~Disarms(r) /\ r.kind # "wake"
    BY DEF Disarms
  <2> QED BY <2>1 DEF Roused, Heeds
<1>1. CASE ~r.cur BY <1>0, <1>1 DEF OnPage
<1>2. CASE r.cur /\ r.outcome = "fail"
  <2>1. PICK o : o = [w EXCEPT !.v.loading = FALSE] /\ OnPage(w, r) = o
    BY <1>2 DEF OnPage
  <2>2. o = [w EXCEPT !.v = [w.v EXCEPT !["loading"] = FALSE]] /\ "loading" \notin Alarm
    BY <2>1 DEF Alarm
  <2>3. Heeds(o, s)
    BY <1>0, <2>2, FieldHeeds
  <2> QED BY <2>1, <2>3
<1>3. CASE r.cur /\ r.outcome # "fail" /\ r.outcome = "redirect" /\ w.v.redirects < MaxRedirects
  <2>1. PICK o : o = [w EXCEPT !.v.redirects = @ + 1] /\ OnPage(w, r) = DoLoad(o)
    BY <1>3 DEF OnPage
  <2>2. o = [w EXCEPT !.v = [w.v EXCEPT !["redirects"] = w.v.redirects + 1]]
        /\ "redirects" \notin Alarm
    BY <2>1 DEF Alarm
  <2>3. Heeds(o, s)
    BY <1>0, <2>2, FieldHeeds
  <2> QED BY <2>1, <2>3, DoLoadHeeds
<1>4. CASE r.cur /\ r.outcome # "fail" /\ ~(r.outcome = "redirect" /\ w.v.redirects < MaxRedirects)
  <2>1. PICK o : /\ o = [w EXCEPT !.v = [@ EXCEPT !.redirects = 0, !.opened = TRUE, !.loading = FALSE]]
                 /\ OnPage(w, r) = RequestRender(MaybeUpdateViewport(ScrollTo(o, 0)))
    BY <1>4 DEF OnPage
  <2>2. s.wakePosted => Woken(w.v.armed, w.idles)
    <3>1. CASE w.v.opened BY <1>0, <3>1 DEF Heeds
    <3>2. CASE ~w.v.opened /\ s.wakePosted
      <4>1. Opens(r) /\ r.outcome # "fail"
        BY <1>4 DEF Opens
      <4>2. PICK i \in 1..Len(w.idles) : w.idles[i].kind = "wake"
        BY <3>2, <4>1 DEF Roused
      <4>3. Nil(w.idles, "render")
        BY <1>4, <3>2 DEF Coming
      <4>4. WakeLast(w.idles)
        BY <4>2, <4>3 DEF WakeLast, Nil, Disarms
      <4> QED BY <4>4, WakeLastWakes
    <3> QED BY <3>1, <3>2
  <2>3. Aware(w)
    BY DEF Roused
  <2>4. Heeds(o, s)
    BY <2>1, <2>2, <2>3, OpenHeeds
  <2> QED BY <2>1, <2>4, ScrollToHeeds, MaybeUpdateViewportHeeds, RequestRenderHeeds
<1> QED BY <1>1, <1>2, <1>3, <1>4

\* pv_wake_idle.
LEMMA OnWakeHeeds ==
  ASSUME NEW w, NEW s, NEW r, r.kind = "wake", Roused(w, s, r) PROVE Heeds(OnWake(w), s)
<1>1. CASE ~w.v.opened
  BY <1>1 DEF OnWake, Roused, Heeds
<1>2. CASE w.v.opened
  <2>1. PICK o : o = [w EXCEPT !.v.armed = TRUE] /\ OnWake(w) = o
    BY <1>2 DEF OnWake
  <2>2. Aware(w) /\ (w.v.opened /\ s.wakePosted => Woken(TRUE, w.idles))
        /\ (~w.v.opened /\ s.wakePosted => Heard(w.idles))
    BY DEF Roused
  <2>3. Heeds(o, s)
    BY <2>1, <2>2, ArmHeeds
  <2> QED BY <2>1, <2>3
<1> QED BY <1>1, <1>2

\* on_result, for an open view.
LEMMA OnResultHeeds ==
  ASSUME NEW w, NEW s, ~w.v.closed, NEW r, r.kind \in Results, Roused(w, s, r),
         r.kind = "load" => Coming(w, s, r)
  PROVE  Heeds(OnResult(w, r), s)
<1>1. CASE r.kind = "load"
  <2>1. OnResult(w, r) = OnPage(w, r) BY <1>1 DEF OnResult
  <2> QED BY <1>1, <2>1, OnPageHeeds
<1>2. CASE r.kind = "render"
  <2>1. OnResult(w, r) = OnFrame(w, r) BY <1>2 DEF OnResult
  <2> QED BY <1>2, <2>1, OnFrameHeeds
<1>3. CASE r.kind = "wake"
  <2>1. OnResult(w, r) = OnWake(w) BY <1>3 DEF OnResult
  <2> QED BY <1>3, <2>1, OnWakeHeeds
<1>4. CASE r.kind \in {"viewport", "click", "release", "export", "unref"}
  <2>1. ~Disarms(r) /\ r.kind # "wake"
    BY <1>4 DEF Disarms
  <2>2. Heeds(w, s)
    BY <2>1 DEF Roused, Heeds
  <2>3. \/ OnResult(w, r) = OnViewport(w, r) \/ OnResult(w, r) = DoLoad(w)
        \/ OnResult(w, r) = RequestRender(w) \/ OnResult(w, r) = w
    BY <1>4 DEF OnResult, OnClick, OnRelease
  <2> QED BY <2>2, <2>3, OnViewportHeeds, DoLoadHeeds, RequestRenderHeeds
<1> QED BY <1>1, <1>2, <1>3, <1>4 DEF Results

\* The next result is in hand.
LEMMA PoppedRouses ==
  ASSUME NEW x, NEW s, Heeds(x, s), x.idles # <<>>,
         NEW w, w = [x EXCEPT !.idles = Tail(@)], NEW r, r = Head(x.idles)
  PROVE  Roused(w, s, r)
<1>1. IsWorld(x) /\ {"v", "jobs", "idles", "refs"} \subseteq DOMAIN x
  BY DEF Heeds, Aware, IsWorld
<1>2. PICK p, q : p = x.idles /\ p # <<>> /\ IsQueue(p, Results) /\ q = Tail(p)
  BY <1>1 DEF IsWorld
<1>3. w.v = x.v /\ w.jobs = x.jobs /\ w.refs = x.refs /\ w.idles = q /\ DOMAIN w = DOMAIN x
  BY <1>1, <1>2
<1>l. PICK l : l = Len(p)
  OBVIOUS
<1>4. /\ l = Len(p) /\ l \in Nat \ {0} /\ Len(q) = l - 1 /\ r = p[1]
      /\ \A i \in 1..(l - 1) : q[i] = p[i + 1]
  <2>1. /\ Len(p) \in Nat \ {0} /\ Len(Tail(p)) = Len(p) - 1 /\ Head(p) = p[1]
        /\ \A i \in 1..Len(Tail(p)) : Tail(p)[i] = p[i + 1]
    BY <1>2, Tailed
  <2>2. r = Head(p)
    BY <1>2
  <2> QED BY <1>2, <1>l, <2>1, <2>2
<1>5. \A i \in 1..l : i = 1 \/ (i - 1 \in 1..(l - 1) /\ q[i - 1] = p[i])
  BY <1>4
<1>6. \A i \in 1..(l - 1) : i + 1 \in 1..l /\ q[i] = p[i + 1]
  BY <1>4
<1>7. Aware(w)
  <2>1. IsQueue(q, Results)
    BY <1>2, TailQueue
  <2>2. IsWorld(w)
    BY <1>1, <1>3, <2>1 DEF IsWorld
  <2>3. \A i \in 1..l : "cur" \in DOMAIN p[i]
    BY <1>2, <1>4 DEF Heeds, Aware
  <2>4. \A i \in 1..(l - 1) : "cur" \in DOMAIN q[i]
    BY <1>6, <2>3
  <2> QED BY <1>3, <1>4, <2>2, <2>4 DEF Heeds, Aware
<1>8. Disarmers(q) => Disarmers(p)
  BY <1>4, <1>6 DEF Disarmers
<1>9. Disarms(r) => Disarmers(p)
  BY <1>4 DEF Disarmers
<1>10. ASSUME WakeLast(p)
       PROVE  WakeLast(q) \/ (r.kind = "wake" /\ ~Disarmers(q))
  <2>1. PICK i \in 1..l : p[i].kind = "wake" /\ \A y \in 1..l : y > i => ~Disarms(p[y])
    BY <1>4, <1>10 DEF WakeLast
  <2>2. CASE i = 1
    <3>1. \A y \in 1..(l - 1) : ~Disarms(q[y])
      BY <1>4, <1>6, <2>1, <2>2
    <3> QED BY <1>4, <2>1, <2>2, <3>1 DEF Disarmers
  <2>3. CASE i # 1
    <3>1. i - 1 \in 1..(l - 1) /\ q[i - 1].kind = "wake"
      BY <1>5, <2>1, <2>3
    <3>2. \A y \in 1..(l - 1) : y > i - 1 => ~Disarms(q[y])
      BY <1>4, <1>6, <2>1
    <3> QED BY <1>4, <3>1, <3>2 DEF WakeLast
  <2> QED BY <2>2, <2>3
<1>11. ASSUME w.v.opened, s.wakePosted
       PROVE  /\ Disarms(r) => WakeLast(q)
              /\ r.kind = "wake" => Woken(TRUE, q)
              /\ ~Disarms(r) /\ r.kind # "wake" => Woken(w.v.armed, q)
  <2>1. Woken(w.v.armed, p)
    BY <1>2, <1>3, <1>11 DEF Heeds
  <2>2. Disarms(r) => r.kind # "wake"
    BY DEF Disarms
  <2> QED BY <1>8, <1>9, <1>10, <2>1, <2>2 DEF Woken
<1>12. ASSUME ~w.v.opened, s.wakePosted
       PROVE  /\ Heard(q)
              /\ Opens(r) /\ r.outcome # "fail" => \E i \in 1..Len(q) : q[i].kind = "wake"
  <2>1. \A i \in 1..l : Opens(p[i]) /\ p[i].outcome # "fail" =>
          \E y \in 1..l : y > i /\ p[y].kind = "wake"
    BY <1>2, <1>3, <1>4, <1>12 DEF Heeds, Heard
  <2>2. \A i \in 1..(l - 1) : Opens(q[i]) /\ q[i].outcome # "fail" =>
          \E y \in 1..(l - 1) : y > i /\ q[y].kind = "wake"
    <3> TAKE i \in 1..(l - 1)
    <3> HAVE Opens(q[i]) /\ q[i].outcome # "fail"
    <3>1. i + 1 \in 1..l /\ Opens(p[i + 1]) /\ p[i + 1].outcome # "fail"
      BY <1>6
    <3>2. PICK y \in 1..l : y > i + 1 /\ p[y].kind = "wake"
      BY <2>1, <3>1
    <3>3. y - 1 \in 1..(l - 1) /\ q[y - 1].kind = "wake" /\ y - 1 > i
      BY <1>5, <3>2
    <3> QED BY <3>3
  <2>3. ASSUME Opens(r), r.outcome # "fail"
        PROVE  \E i \in 1..(l - 1) : q[i].kind = "wake"
    <3>1. PICK y \in 1..l : y > 1 /\ p[y].kind = "wake"
      BY <1>4, <2>1, <2>3
    <3> QED BY <1>5, <3>1
  <2> QED BY <1>4, <2>2, <2>3 DEF Heard
<1> QED BY <1>3, <1>7, <1>11, <1>12 DEF Roused

-----------------------------------------------------------------------------
(* Steps, on wakes *)

\* The part of the invariant that is about the wake of an open view.
Awake ==
  ~view.closed =>
    /\ "armed" \in DOMAIN view
    /\ view.opened /\ session.wakePosted => Woken(view.armed, idles)
    /\ ~view.opened /\ session.wakePosted => Heard(idles)
    /\ session.page # None => session.alive

\* As a world.
LEMMA AwakeHeeds ==
  ASSUME Framed, Awake, ~view.closed
  PROVE  \E w : w = World /\ w.v = view /\ w.jobs = jobs /\ w.idles = idles /\ Heeds(w, session)
<1>1. PICK H : Fits(World, session, H)
  BY DEF Framed
<1>2. World.v = view /\ World.jobs = jobs /\ World.idles = idles
  BY DEF World
<1>3. PICK w : w = World /\ w.v = view /\ w.jobs = jobs /\ w.idles = idles
  BY <1>2
<1>4. Fits(w, session, H)
  BY <1>1, <1>3
<1>5. \A i \in 1..Len(w.idles) : "cur" \in DOMAIN w.idles[i]
  BY <1>4 DEF Fits, ResultFits
<1>6. Aware(w)
  BY <1>3, <1>4, <1>5 DEF Fits, Aware, Awake
<1>7. Heeds(w, session)
  BY <1>3, <1>6 DEF Heeds, Awake
<1> QED BY <1>3, <1>7

\* What a handler leaves.
LEMMA AwakeBecomes ==
  ASSUME Framed, Awake, ~view.closed, session' = session,
         NEW STATE o, Heeds(o, session), view' = o.v, idles' = o.idles
  PROVE  Awake'
<1>1. "armed" \in DOMAIN view'
  BY DEF Heeds, Aware
<1>2. /\ view'.opened /\ session'.wakePosted => Woken(view'.armed, idles')
      /\ ~view'.opened /\ session'.wakePosted => Heard(idles')
  BY DEF Heeds
<1> QED BY <1>1, <1>2 DEF Awake

\* Nothing that the wake depends on.
LEMMA AwakeSame ==
  ASSUME Awake, ~view.closed, session' = session, idles' = idles,
         "armed" \in DOMAIN view', view'.opened = view.opened, view'.armed = view.armed
  PROVE  Awake'
BY DEF Awake

\* The next idle.
LEMMA DeliverAwake == ASSUME Framed, Rested, Awake, Deliver PROVE Awake'
<1>w. /\ World.v = view /\ World.jobs = jobs /\ World.idles = idles
      /\ {"v", "jobs", "idles", "refs"} \subseteq DOMAIN World /\ idles # <<>>
  BY DEF World, Deliver
<1>1. PICK w, r, o : /\ w = [World EXCEPT !.idles = Tail(@)] /\ r = Head(idles)
                     /\ o = OnResult(w, r) /\ Become([o EXCEPT !.refs = @ - 1])
  BY DEF Deliver
<1>2. PICK p : p = [o EXCEPT !.refs = @ - 1] /\ Become(p)
  BY <1>1
<1>3. p.v = o.v /\ p.jobs = o.jobs /\ p.idles = o.idles
  BY <1>2
<1>4. view' = o.v /\ jobs' = o.jobs /\ idles' = o.idles /\ session' = session
  BY <1>2, <1>3 DEF Become, Deliver
<1>5. w.v = view
  BY <1>w, <1>1
<1>6. CASE view.closed
  <2>1. o = w
    BY <1>1, <1>5, <1>6 DEF OnResult
  <2>2. view'.closed
    BY <1>4, <1>5, <1>6, <2>1
  <2> QED BY <2>2 DEF Awake
<1>7. CASE ~view.closed
  <2>1. PICK H : Fits(World, session, H)
    BY <1>7 DEF Framed
  <2>2. r.kind \in Results
    BY <1>w, <1>1, <2>1, TailFits
  <2>3. PICK x : x = World /\ x.idles = idles /\ Heeds(x, session)
    BY <1>7, AwakeHeeds
  <2>4. Fresh(x, session)
    BY <1>7, <2>3 DEF Rested
  <2>5. w = [x EXCEPT !.idles = Tail(@)] /\ r = Head(x.idles) /\ x.idles # <<>>
    BY <1>w, <1>1, <2>3
  <2>6. r.kind = "load" => Coming(w, session, r)
    BY <2>4, <2>5, Popped
  <2>7. Roused(w, session, r)
    BY <2>3, <2>5, PoppedRouses
  <2>8. Heeds(OnResult(w, r), session)
    BY <1>5, <1>7, <2>2, <2>6, <2>7, OnResultHeeds
  <2>9. Heeds(o, session)
    BY <1>1, <2>8
  <2> QED BY <1>4, <1>7, <2>9, AwakeBecomes
<1> QED BY <1>6, <1>7

\* What the handlers of an open view do.
LEMMA HandlerAwake ==
  ASSUME Framed, Awake,
         \/ Load \/ Stop
         \/ \E size \in Sizes : Resize(size)
         \/ \E pos \in Scrolls : ScrollView(pos)
         \/ \E kind \in {"click", "release"} : Press(kind)
  PROVE  Awake'
<1>1. ~view.closed /\ session' = session
  BY DEF Load, Stop, Resize, ScrollView, Press
<1>2. PICK x : x = World /\ x.v = view /\ x.jobs = jobs /\ x.idles = idles /\ Heeds(x, session)
  BY <1>1, AwakeHeeds
<1>3. ASSUME NEW STATE o, Heeds(o, session), Become(o) PROVE Awake'
  BY <1>1, <1>3, AwakeBecomes DEF Become
<1>4. CASE Load
  <2>1. Heeds(DoLoad(World), session)
    BY <1>2, DoLoadHeeds
  <2>2. Become(DoLoad(World))
    BY <1>4 DEF Load
  <2> QED BY <1>3, <2>1, <2>2
<1>5. CASE Stop
  <2>1. PICK a : a = Outdate(x, {"render"}) /\ Heeds(a, session) /\ a.v = view
    BY <1>2, OutdateHeeds
  <2>2. PICK o : o = [a EXCEPT !.v = Halted] /\ Become(o)
    <3>1. Become([a EXCEPT !.v = Halted])
      BY <1>2, <1>5, <2>1, Zenon DEF Stop
    <3> QED BY <3>1, Zenon
  <2>3. {"v", "jobs", "idles", "refs"} \subseteq DOMAIN a /\ {"opened", "armed"} \subseteq DOMAIN view
    BY <2>1 DEF Heeds, Aware, IsWorld
  <2>4. o.v = Halted /\ o.idles = a.idles
    BY <2>2, <2>3
  <2>5. "armed" \in DOMAIN Halted /\ Halted.opened = view.opened /\ Halted.armed = view.armed
    BY <2>3 DEF Halted
  <2>6. view' = Halted /\ idles' = a.idles
    BY <2>2, <2>4 DEF Become
  <2>7. /\ view'.opened /\ session'.wakePosted => Woken(view'.armed, idles')
        /\ ~view'.opened /\ session'.wakePosted => Heard(idles')
    BY <1>1, <2>1, <2>5, <2>6 DEF Heeds
  <2> QED BY <1>1, <2>5, <2>6, <2>7 DEF Awake
<1>6. ASSUME NEW size \in Sizes, Resize(size) PROVE Awake'
  <2>1. PICK w : w = [World EXCEPT !.v.size = size]
    OBVIOUS
  <2>2. w = [x EXCEPT !.v = [x.v EXCEPT !["size"] = size]] /\ "size" \notin Alarm
        /\ "deferred" \notin Alarm
    BY <1>2, <2>1 DEF Alarm
  <2>3. Heeds(w, session)
    BY <1>2, <2>2, FieldHeeds
  <2>4. PICK o : /\ Become(o)
                 /\ o = IF w.v.deferred /\ size > 0 THEN DoLoad([w EXCEPT !.v.deferred = FALSE])
                        ELSE IF ~w.v.opened THEN w
                        ELSE IF ViewportMoved(w.v) THEN MaybeUpdateViewport(w)
                        ELSE RequestRender(w)
    <3>1. Become(IF w.v.deferred /\ size > 0 THEN DoLoad([w EXCEPT !.v.deferred = FALSE])
                 ELSE IF ~w.v.opened THEN w
                 ELSE IF ViewportMoved(w.v) THEN MaybeUpdateViewport(w)
                 ELSE RequestRender(w))
      BY <1>6, <2>1 DEF Resize
    <3> QED BY <3>1, Zenon
  <2>5. CASE w.v.deferred /\ size > 0
    <3>1. PICK b : b = [w EXCEPT !.v.deferred = FALSE] /\ o = DoLoad(b)
      BY <2>4, <2>5
    <3>2. b = [w EXCEPT !.v = [w.v EXCEPT !["deferred"] = FALSE]]
      BY <3>1
    <3>3. Heeds(b, session)
      BY <2>2, <2>3, <3>2, FieldHeeds
    <3>4. Heeds(o, session)
      BY <3>1, <3>3, DoLoadHeeds
    <3> QED BY <1>3, <2>4, <3>4
  <2>6. CASE ~(w.v.deferred /\ size > 0)
    <3>1. o = w \/ o = MaybeUpdateViewport(w) \/ o = RequestRender(w)
      BY <2>4, <2>6
    <3>2. Heeds(o, session)
      BY <2>3, <3>1, MaybeUpdateViewportHeeds, RequestRenderHeeds
    <3> QED BY <1>3, <2>4, <3>2
  <2> QED BY <2>5, <2>6
<1>7. ASSUME NEW pos \in Scrolls, ScrollView(pos) PROVE Awake'
  <2>1. Heeds(ScrollTo(World, pos), session)
    BY <1>2, ScrollToHeeds
  <2>2. Become(ScrollTo(World, pos))
    BY <1>7 DEF ScrollView
  <2> QED BY <1>3, <2>1, <2>2
<1>8. ASSUME NEW kind \in {"click", "release"}, Press(kind) PROVE Awake'
  <2>1. PICK a : a = IF kind = "click" THEN Outdate(x, {"click"}) ELSE x
    OBVIOUS
  <2>2. Heeds(a, session)
    BY <1>2, <2>1, OutdateHeeds
  <2>3. PICK req, o : Become(o) /\ o = PushReq(a, req) /\ IsMessage(req, Requests)
    <3> DEFINE req == [kind |-> kind, cur |-> TRUE, by |-> view.load]
    <3>1. Become(PushReq(a, req))
      BY <1>2, <1>8, <2>1 DEF Press
    <3>2. IsMessage(req, Requests)
      BY <1>8 DEF IsMessage, Requests
    <3> QED BY <3>1, <3>2
  <2>4. Heeds(o, session)
    BY <2>2, <2>3, PushReqHeeds
  <2> QED BY <1>3, <2>3, <2>4
<1> QED BY <1>4, <1>5, <1>6, <1>7, <1>8

\* A tick of the frame clock.
LEMMA TickAwake == ASSUME Framed, Awake, AnimTick PROVE Awake'
<1>s. session' = session
  BY DEF AnimTick
<1>w. /\ World.v = view /\ World.jobs = jobs /\ World.idles = idles /\ IsWorld(World)
      /\ {"closed", "asking"} \subseteq DOMAIN view
  BY DEF World, Framed, Counted, IsWorld
<1>1. PICK o : /\ Become(o)
               /\ o = IF view.closed \/ ~view.opened THEN [World EXCEPT !.v.armed = FALSE]
                      ELSE RequestRender(World)
  BY DEF AnimTick
<1>2. CASE view.closed
  <2>1. o.v = [view EXCEPT !.armed = FALSE]
    BY <1>w, <1>1, <1>2 DEF IsWorld
  <2>2. view'.closed
    BY <1>w, <1>1, <1>2, <2>1 DEF Become
  <2> QED BY <2>2 DEF Awake
<1>3. CASE ~view.closed
  <2>1. PICK x : x = World /\ x.v = view /\ x.idles = idles /\ Heeds(x, session)
    BY <1>3, AwakeHeeds
  <2>2. Heeds(o, session)
    <3>1. CASE view.opened
      <4>1. o = RequestRender(x)
        BY <1>1, <1>3, <2>1, <3>1
      <4> QED BY <2>1, <4>1, RequestRenderHeeds
    <3>2. CASE ~view.opened
      <4>1. o = [x EXCEPT !.v.armed = FALSE]
        BY <1>1, <2>1, <3>2
      <4>2. Aware(x) /\ (~x.v.opened /\ session.wakePosted => Heard(x.idles))
            /\ (x.v.opened /\ session.wakePosted => Woken(FALSE, x.idles))
        BY <2>1, <3>2 DEF Heeds
      <4> QED BY <4>1, <4>2, ArmHeeds
    <3> QED BY <3>1, <3>2
  <2> QED BY <1>s, <1>1, <1>3, <2>2, AwakeBecomes DEF Become
<1> QED BY <1>2, <1>3

\* The file dialog of view_save.
LEMMA AskSaveAwake == ASSUME Framed, Awake, AskSave PROVE Awake'
<1>0. ~view.closed /\ session' = session
  BY DEF AskSave
<1>1. PICK x : x = World /\ x.v = view /\ x.idles = idles /\ Heeds(x, session)
  BY <1>0, AwakeHeeds
<1>2. {"v", "jobs", "idles", "refs"} \subseteq DOMAIN x /\ {"opened", "armed"} \subseteq DOMAIN view
  BY <1>1 DEF Heeds, Aware, IsWorld
<1>3. PICK o : o = [x EXCEPT !.v.asking = TRUE, !.refs = @ + 1] /\ Become(o)
  BY <1>1 DEF AskSave
<1>4. o.v = [view EXCEPT !.asking = TRUE] /\ o.idles = idles
  BY <1>1, <1>2, <1>3
<1>5. view' = [view EXCEPT !.asking = TRUE] /\ idles' = idles
  BY <1>3, <1>4 DEF Become
<1>6. "armed" \in DOMAIN view' /\ view'.opened = view.opened /\ view'.armed = view.armed
  BY <1>2, <1>5
<1> QED BY <1>0, <1>5, <1>6, AwakeSame

\* Its answer, which may ask for an export.
LEMMA SaveAnsweredAwake ==
  ASSUME Framed, Awake, NEW chosen \in BOOLEAN, SaveAnswered(chosen)
  PROVE  Awake'
<1>w. /\ World.v = view /\ World.jobs = jobs /\ World.idles = idles
      /\ {"v", "jobs", "idles", "refs"} \subseteq DOMAIN World /\ IsWorld(World)
      /\ {"closed", "asking"} \subseteq DOMAIN view
  BY DEF World, Framed, Counted, IsWorld
<1>1. PICK w : w = [World EXCEPT !.v.asking = FALSE]
  OBVIOUS
<1>2. PICK o : /\ o = IF chosen /\ w.v.opened THEN PushReq(w, [kind |-> "export", cur |-> TRUE]) ELSE w
               /\ Become([o EXCEPT !.refs = @ - 1])
  BY <1>1 DEF SaveAnswered
<1>3. /\ w.v = [view EXCEPT !.asking = FALSE] /\ w.jobs = jobs /\ w.idles = idles
      /\ w.refs = World.refs /\ DOMAIN w = DOMAIN World
  BY <1>w, <1>1
<1>4. o.v = w.v /\ o.idles = w.idles
  BY <1>w, <1>2, <1>3 DEF PushReq
<1>5. PICK p : p = [o EXCEPT !.refs = @ - 1] /\ Become(p)
  BY <1>2
<1>6. p.v = o.v /\ p.idles = o.idles
  BY <1>5
<1>7. view' = [view EXCEPT !.asking = FALSE] /\ idles' = idles /\ session' = session
  BY <1>3, <1>4, <1>5, <1>6 DEF Become, SaveAnswered
<1>8. CASE view.closed
  <2>1. view'.closed
    BY <1>w, <1>7, <1>8
  <2> QED BY <2>1 DEF Awake
<1>9. CASE ~view.closed
  <2>1. {"opened", "armed"} \subseteq DOMAIN view
    <3>1. PICK x : x.v = view /\ Heeds(x, session)
      BY <1>9, AwakeHeeds
    <3> QED BY <3>1 DEF Heeds, Aware
  <2>2. "armed" \in DOMAIN view' /\ view'.opened = view.opened /\ view'.armed = view.armed
    BY <1>7, <2>1
  <2> QED BY <1>7, <1>9, <2>2, AwakeSame
<1> QED BY <1>8, <1>9

\* The widget goes.
LEMMA DestroyAwake == ASSUME Framed, Destroy PROVE Awake'
<1>w. /\ World.v = view /\ {"v", "jobs", "idles", "refs"} \subseteq DOMAIN World
      /\ {"closed", "asking"} \subseteq DOMAIN view
  BY DEF World, Framed, Counted, IsWorld
<1>1. PICK w : w = [World EXCEPT !.v.closed = TRUE, !.v.armed = FALSE]
  OBVIOUS
<1>2. PICK req, o : /\ req = [kind |-> "close", cur |-> TRUE] /\ o = PushReq(w, req)
                    /\ Become([o EXCEPT !.refs = @ - 1])
  BY <1>1 DEF Destroy
<1>3. w.v.closed = TRUE /\ {"v", "jobs", "idles", "refs"} \subseteq DOMAIN w
  BY <1>w, <1>1
<1>4. o.v = w.v
  BY <1>2, <1>3 DEF PushReq
<1>5. PICK p : p = [o EXCEPT !.refs = @ - 1] /\ Become(p)
  BY <1>2
<1>6. view'.closed
  BY <1>3, <1>4, <1>5 DEF Become
<1> QED BY <1>6 DEF Awake

-----------------------------------------------------------------------------
(* The engine thread, on wakes *)

\* A result that disarms nothing, or opens nothing, behind the others.
LEMMA AppendWakes ==
  ASSUME NEW q, NEW K, IsQueue(q, K), NEW m
  PROVE  /\ \A armed : Woken(armed, q) /\ ~Disarms(m) => Woken(armed, Append(q, m))
         /\ Heard(q) /\ ~Opens(m) => Heard(Append(q, m))
<1>1. PICK o, l : o = Append(q, m) /\ l = Len(q)
  OBVIOUS
<1>2. l \in Nat /\ Len(o) = l + 1 /\ (\A i \in 1..l : o[i] = q[i]) /\ o[l + 1] = m
  BY <1>1, Appended
<1>3. \A i \in 1..(l + 1) : i \in 1..l \/ i = l + 1
  BY <1>2
<1>4. \A i \in 1..l : i \in 1..(l + 1)
  BY <1>2
<1>5. ASSUME NEW armed, Woken(armed, q), ~Disarms(m) PROVE Woken(armed, o)
  <2>1. ~Disarmers(q) => ~Disarmers(o)
    BY <1>1, <1>2, <1>3, <1>5 DEF Disarmers
  <2>2. ASSUME WakeLast(q) PROVE WakeLast(o)
    <3>1. PICK i \in 1..l : q[i].kind = "wake" /\ \A x \in 1..l : x > i => ~Disarms(q[x])
      BY <1>1, <2>2 DEF WakeLast
    <3>2. \A x \in 1..(l + 1) : x > i => ~Disarms(o[x])
      BY <1>2, <1>3, <1>5, <3>1
    <3> QED BY <1>2, <1>4, <3>1, <3>2 DEF WakeLast
  <2> QED BY <1>5, <2>1, <2>2 DEF Woken
<1>6. ASSUME Heard(q), ~Opens(m) PROVE Heard(o)
  <2>1. ASSUME NEW i \in 1..(l + 1), Opens(o[i]), o[i].outcome # "fail"
        PROVE  \E x \in 1..(l + 1) : x > i /\ o[x].kind = "wake"
    <3>1. i \in 1..l /\ Opens(q[i]) /\ q[i].outcome # "fail"
      BY <1>2, <1>3, <1>6, <2>1
    <3>2. PICK x \in 1..l : x > i /\ q[x].kind = "wake"
      BY <1>1, <1>6, <3>1 DEF Heard
    <3> QED BY <1>2, <1>4, <3>2
  <2> QED BY <1>2, <2>1 DEF Heard
<1> QED BY <1>1, <1>5, <1>6

\* A wake behind the others.
LEMMA AppendWake ==
  ASSUME NEW q, NEW K, IsQueue(q, K), NEW m, m.kind = "wake"
  PROVE  Heard(Append(q, m)) /\ \A armed : Woken(armed, Append(q, m))
<1>1. PICK o, l : o = Append(q, m) /\ l = Len(q)
  OBVIOUS
<1>2. l \in Nat /\ Len(o) = l + 1 /\ (\A i \in 1..l : o[i] = q[i]) /\ o[l + 1] = m
  BY <1>1, Appended
<1>3. l + 1 \in 1..(l + 1) /\ \A i \in 1..(l + 1) : ~(i > l + 1)
  BY <1>2
<1>4. \A i \in 1..(l + 1) : i = l + 1 \/ l + 1 > i
  BY <1>2
<1>5. WakeLast(o)
  BY <1>2, <1>3 DEF WakeLast
<1>6. ~Opens(m)
  BY DEF Opens
<1>7. Heard(o)
  BY <1>2, <1>3, <1>4, <1>6 DEF Heard
<1> QED BY <1>1, <1>5, <1>7, WakeLastWakes

\* What a job that posts one result leaves of the results.
LEMMA FinishAppends ==
  ASSUME IsQueue(idles, Results), NEW m, IsMessage(m, Results), Finish(<<m>>)
  PROVE  \E a, u : /\ a = Append(idles, m) /\ IsQueue(a, Results)
                   /\ u.kind = "unref" /\ idles' = Append(a, u)
<1>1. PICK u : u = [kind |-> "unref", cur |-> TRUE] /\ u.kind = "unref"
  <2>1. [kind |-> "unref", cur |-> TRUE].kind = "unref"
    OBVIOUS
  <2> QED BY <2>1, Zenon
<1>2. idles' = idles \o <<m>> \o <<u>>
  BY <1>1 DEF Finish
<1>3. PICK S : idles \in Seq(S) /\ m \in S /\ u \in S
  <2> DEFINE S == {idles[i] : i \in DOMAIN idles} \cup {m, u}
  <2>1. idles \in [1..Len(idles) -> S] /\ Len(idles) \in Nat
    BY QueueLength DEF IsQueue
  <2>2. idles \in Seq(S) /\ m \in S /\ u \in S BY <2>1, SeqDef
  <2> QED BY <2>2
<1>4. PICK a : a = Append(idles, m) /\ a \in Seq(S)
  <2>1. Append(idles, m) \in Seq(S)
    BY <1>3, AppendProperties
  <2> QED BY <2>1, Zenon
<1>5. idles \o <<m>> = a
  BY <1>3, <1>4, AppendIsConcat
<1>6. a \o <<u>> = Append(a, u)
  BY <1>3, <1>4, AppendIsConcat
<1>7. IsQueue(a, Results)
  BY <1>4, AppendQueue
<1> QED BY <1>1, <1>2, <1>4, <1>5, <1>6, <1>7

\* A job that posts no page, and no frame to an open view, or forgets the wake.
LEMMA JobAwake ==
  ASSUME Framed, Awake, ~view.closed, NEW m, IsMessage(m, Results), Finish(<<m>>),
         session'.page # None => session'.alive,
         session'.wakePosted => session.wakePosted /\ m.kind # "load"
                                /\ (m.kind = "render" => ~view.opened)
  PROVE  Awake'
<1>1. view' = view
  BY DEF Finish
<1>2. IsQueue(idles, Results)
  <2>1. World.idles = idles /\ IsWorld(World)
    BY DEF World, Framed, Counted
  <2> QED BY <2>1 DEF IsWorld
<1>3. PICK a, u : /\ a = Append(idles, m) /\ IsQueue(a, Results)
                  /\ u.kind = "unref" /\ idles' = Append(a, u)
  BY <1>2, FinishAppends
<1>4. ~Disarms(u) /\ ~Opens(u)
  BY <1>3 DEF Disarms, Opens
<1>5. ASSUME session'.wakePosted, view.opened PROVE Woken(view.armed, idles')
  <2>1. ~Disarms(m) /\ Woken(view.armed, idles)
    BY <1>5 DEF Disarms, Awake
  <2>2. Woken(view.armed, a)
    BY <1>2, <1>3, <2>1, AppendWakes
  <2>3. Woken(view.armed, Append(a, u))
    BY <1>3, <1>4, <2>2, AppendWakes
  <2> QED BY <1>3, <2>3
<1>6. ASSUME session'.wakePosted, ~view.opened PROVE Heard(idles')
  <2>1. ~Opens(m) /\ Heard(idles)
    BY <1>6 DEF Opens, Awake
  <2>2. Heard(a)
    BY <1>2, <1>3, <2>1, AppendWakes
  <2>3. Heard(Append(a, u))
    BY <1>3, <1>4, <2>2, AppendWakes
  <2> QED BY <1>3, <2>3
<1> QED BY <1>1, <1>5, <1>6 DEF Awake

\* What a job starts from.
LEMMA StartAwake ==
  ASSUME Rested, ~view.closed, NEW s, s = Session \/ s = InvalidateFrame(Session)
  PROVE  /\ SFields \subseteq DOMAIN s /\ s.alive = TRUE
         /\ s.wakePosted = session.wakePosted /\ s.page = session.page
<1>1. SFields \subseteq DOMAIN session
  BY DEF Rested, Fresh, SessionFresh
<1>2. PICK a : a = Session /\ a = [session EXCEPT !.alive = TRUE]
  BY DEF Session
<1>3. /\ DOMAIN a = DOMAIN session /\ a.alive = TRUE
      /\ a.wakePosted = session.wakePosted /\ a.page = session.page
  BY <1>1, <1>2 DEF SFields
<1>4. PICK b : b = InvalidateFrame(Session) /\ b = [a EXCEPT !.valid = FALSE]
  BY <1>2 DEF InvalidateFrame
<1>5. /\ DOMAIN b = DOMAIN a /\ b.alive = a.alive
      /\ b.wakePosted = a.wakePosted /\ b.page = a.page
  BY <1>1, <1>3, <1>4 DEF SFields
<1> QED BY <1>1, <1>2, <1>3, <1>4, <1>5

\* Script draws.
LEMMA DrawnAwake ==
  ASSUME NEW s, SFields \subseteq DOMAIN s, NEW tiles
  PROVE  /\ SFields \subseteq DOMAIN Drawn(s, tiles) /\ Drawn(s, tiles).alive = s.alive
         /\ Drawn(s, tiles).wakePosted = s.wakePosted /\ Drawn(s, tiles).page = s.page
<1>1. PICK a, d : /\ a = [t \in Tiles |-> IF t \in tiles THEN s.tiles[t] + 1 ELSE s.tiles[t]]
                  /\ d = s.dirty \cup tiles
  OBVIOUS
<1>2. PICK t : t = Drawn(s, tiles)
  OBVIOUS
<1>3. t = [s EXCEPT !.tiles = a, !.dirty = d, !.repaint = TRUE]
  BY <1>1, <1>2 DEF Drawn
<1>4. DOMAIN t = DOMAIN s /\ t.alive = s.alive /\ t.wakePosted = s.wakePosted /\ t.page = s.page
  BY <1>3 DEF SFields
<1> QED BY <1>2, <1>4

\* A rendered page is woken anew.
LEMMA RenderOfAwake ==
  ASSUME NEW s, SFields \subseteq DOMAIN s, NEW j
  PROVE  /\ RenderOf(s, j).s.wakePosted = FALSE /\ RenderOf(s, j).s.alive = s.alive
         /\ RenderOf(s, j).r.kind = "render"
<1>1. PICK t : t = IF s.valid THEN AfterTick(s) ELSE s
  OBVIOUS
<1>2. DOMAIN t = DOMAIN s /\ t.alive = s.alive
  <2>1. CASE s.valid /\ s.anim = 0
    <3>1. t = [s EXCEPT !.repaint = FALSE]
      BY <1>1, <2>1 DEF AfterTick
    <3> QED BY <3>1 DEF SFields
  <2>2. CASE s.valid /\ s.anim # 0
    <3>1. t = [s EXCEPT !.repaint = FALSE, !.anim = @ - 1,
                        !.tiles[AnimTile] = @ + 1, !.dirty = @ \cup {AnimTile}]
      BY <1>1, <2>2 DEF AfterTick
    <3> QED BY <3>1 DEF SFields
  <2>3. CASE ~s.valid
    BY <1>1, <2>3
  <2> QED BY <2>1, <2>2, <2>3
<1>3. PICK pic, gen : RenderOf(s, j).s =
        [t EXCEPT !.dirty = {}, !.damageFull = FALSE, !.wantScroll = None, !.wantNav = FALSE,
                  !.valid = TRUE, !.fb = pic, !.gen = gen, !.wakePosted = FALSE]
  BY <1>1, Zenon DEF RenderOf
<1>4. PICK o : /\ o = RenderOf(s, j).s
               /\ o = [t EXCEPT !.dirty = {}, !.damageFull = FALSE, !.wantScroll = None,
                                !.wantNav = FALSE, !.valid = TRUE, !.fb = pic, !.gen = gen,
                                !.wakePosted = FALSE]
  BY <1>3, Zenon
<1>5. o.wakePosted = FALSE /\ o.alive = t.alive
  BY <1>2, <1>4 DEF SFields
<1>6. RenderOf(s, j).r.kind = "render"
  BY DEF RenderOf
<1> QED BY <1>2, <1>4, <1>5, <1>6

\* The engine thread's jobs.
LEMMA RunJobAwake == ASSUME Framed, Rested, Awake, RunJob PROVE Awake'
<1>0. jobs # <<>> /\ view' = view
  BY DEF RunJob, RunLoad, RunRender, RunViewport, RunPress, RunExport, RunClose, Finish
<1>1. CASE view.closed
  BY <1>0, <1>1 DEF Awake
<1>2. CASE ~view.closed
  <2>1. PICK j : j = Head(jobs)
    OBVIOUS
  <2>2. PICK H : Fits(World, session, H)
    BY <1>2 DEF Framed
  <2>3. JobFits(j, view.load, view.opened)
    BY <1>0, <1>2, <2>1, <2>2, JobHead
  <2>4. PICK a, b : /\ a = Session /\ b = InvalidateFrame(Session)
                    /\ SFields \subseteq DOMAIN a /\ a.alive = TRUE
                    /\ a.wakePosted = session.wakePosted /\ a.page = session.page
                    /\ SFields \subseteq DOMAIN b /\ b.alive = TRUE
                    /\ b.wakePosted = session.wakePosted /\ b.page = session.page
    BY <1>2, StartAwake
  <2>5. ASSUME NEW outcome \in {"ok", "fail", "redirect"}, j.kind = "load", RunLoad(j, outcome)
        PROVE  Awake'
    <3>1. PICK m : m = [kind |-> "load", cur |-> j.cur, load |-> j.load, outcome |-> outcome]
      OBVIOUS
    <3>2. IsMessage(m, Results) /\ Finish(<<m>>)
      BY <2>5, <3>1 DEF IsMessage, Results, RunLoad
    <3>3. PICK page, vp, tiles : session' = [b EXCEPT !.page = page,
                   !.vp = vp, !.tiles = tiles, !.dirty = {}, !.damageFull = FALSE,
                   !.repaint = FALSE, !.anim = 0, !.wantScroll = None, !.wantNav = FALSE,
                   !.wakePosted = FALSE]
      BY <2>4, <2>5, Zenon DEF RunLoad
    <3>4. PICK t : t = session' /\ t = [b EXCEPT !.page = page,
                   !.vp = vp, !.tiles = tiles, !.dirty = {}, !.damageFull = FALSE,
                   !.repaint = FALSE, !.anim = 0, !.wantScroll = None, !.wantNav = FALSE,
                   !.wakePosted = FALSE]
      BY <3>3, Zenon
    <3>5. t.wakePosted = FALSE /\ t.alive = TRUE
      BY <2>4, <3>4 DEF SFields
    <3> QED BY <1>2, <3>2, <3>4, <3>5, JobAwake
  <2>6. ASSUME j.kind = "render", RunRender(j) PROVE Awake'
    <3>1. PICK s : /\ s = IF j.full THEN InvalidateFrame(Session) ELSE Session
                   /\ SFields \subseteq DOMAIN s /\ s.alive = TRUE
                   /\ s.wakePosted = session.wakePosted /\ s.page = session.page
      BY <2>4
    <3>2. CASE s.page = None
      <4>1. PICK m : m = [kind |-> "render", cur |-> j.cur, ok |-> FALSE]
        OBVIOUS
      <4>2. session' = s /\ Finish(<<m>>)
        BY <2>6, <3>1, <3>2, <4>1 DEF RunRender
      <4>3. m.kind = "render" /\ IsMessage(m, Results)
        BY <4>1 DEF IsMessage, Results
      <4>4. ~view.opened
        BY <1>2, <3>1, <3>2, OpenPage
      <4> QED BY <1>2, <3>1, <4>2, <4>3, <4>4, JobAwake
    <3>3. CASE s.page # None
      <4>1. PICK t, m : /\ t = RenderOf(s, j).s /\ m = RenderOf(s, j).r
                        /\ t.wakePosted = FALSE /\ t.alive = TRUE /\ m.kind = "render"
        BY <3>1, RenderOfAwake
      <4>2. session' = t /\ Finish(<<m>>)
        BY <2>6, <3>1, <3>3, <4>1 DEF RunRender
      <4>3. IsMessage(m, Results)
        <5>1. SessionFresh(s)
          BY <1>2, <3>1, JobStarts DEF Moves
        <5>2. Draws(s, j, t, m)
          BY <4>1, <5>1, RenderOfFresh
        <5> QED BY <4>1, <5>2 DEF Draws, IsMessage, Results
      <4> QED BY <1>2, <4>1, <4>2, <4>3, JobAwake
    <3> QED BY <3>2, <3>3
  <2>7. ASSUME j.kind = "viewport", RunViewport(j) PROVE Awake'
    <3>1. PICK m : m = [kind |-> "viewport", cur |-> j.cur, ok |-> Session.page # None]
      OBVIOUS
    <3>2. Finish(<<m>>) /\ m.kind = "viewport" /\ IsMessage(m, Results)
      BY <2>7, <3>1 DEF RunViewport, IsMessage, Results
    <3>3. PICK t : t = session' /\ (t = a \/ t = [b EXCEPT !.vp = j.size])
      BY <2>4, <2>7 DEF RunViewport
    <3>4. t.alive = TRUE /\ t.wakePosted = session.wakePosted
      <4>1. CASE t = a BY <2>4, <4>1
      <4>2. CASE t = [b EXCEPT !.vp = j.size]
        BY <2>4, <4>2 DEF SFields
      <4> QED BY <3>3, <4>1, <4>2
    <3> QED BY <1>2, <3>2, <3>3, <3>4, JobAwake
  <2>8. ASSUME NEW effect \in {"none", "draw", "nav"}, j.kind \in {"click", "release"},
               RunPress(j, effect)
        PROVE  Awake'
    <3>1. PICK m : m = [kind |-> j.kind, cur |-> j.cur, by |-> j.by, href |-> effect = "nav",
                        changed |-> effect = "draw"]
      OBVIOUS
    <3>2. Finish(<<m>>) /\ m.kind \in {"click", "release"} /\ IsMessage(m, Results)
      BY <2>8, <3>1 DEF RunPress, IsMessage, Results
    <3>3. PICK s : /\ s = IF Session.page = None THEN Session ELSE InvalidateFrame(Session)
                   /\ SFields \subseteq DOMAIN s /\ s.alive = TRUE
                   /\ s.wakePosted = session.wakePosted
      BY <2>4
    <3>4. session' = IF effect = "draw" THEN Drawn(s, {AnimTile}) ELSE s
      BY <2>8, <3>3, Zenon DEF RunPress
    <3>5. session'.alive = TRUE /\ session'.wakePosted = session.wakePosted
      BY <3>3, <3>4, DrawnAwake
    <3> QED BY <1>2, <3>2, <3>5, JobAwake
  <2>9. ASSUME j.kind = "export", RunExport PROVE Awake'
    <3>1. PICK m : m = [kind |-> "export", cur |-> TRUE]
      OBVIOUS
    <3>2. Finish(<<m>>) /\ m.kind = "export" /\ IsMessage(m, Results)
      BY <2>9, <3>1 DEF RunExport, IsMessage, Results
    <3>3. session' = a \/ session' = b
      BY <2>4, <2>9 DEF RunExport
    <3> QED BY <1>2, <2>4, <3>2, <3>3, JobAwake
  <2>10. j.kind # "close"
    BY <2>3 DEF JobFits
  <2> QED BY <1>0, <2>1, <2>5, <2>6, <2>7, <2>8, <2>9, <2>10 DEF RunJob
<1> QED BY <1>1, <1>2

\* session_wake_dispatch
LEMMA SessionWakeAwake == ASSUME Framed, Rested, Awake, SessionWake PROVE Awake'
<1>v. view' = view
  BY DEF SessionWake
<1>1. CASE view.closed
  BY <1>v, <1>1 DEF Awake
<1>2. CASE ~view.closed
  <2>1. PICK m : m = [kind |-> "wake", cur |-> TRUE] /\ idles' = Append(idles, m)
    BY DEF SessionWake
  <2>2. m.kind = "wake"
    BY <2>1
  <2>3. IsQueue(idles, Results)
    <3>1. World.idles = idles /\ IsWorld(World)
      BY DEF World, Framed, Counted
    <3> QED BY <3>1 DEF IsWorld
  <2>4. Heard(Append(idles, m)) /\ \A armed : Woken(armed, Append(idles, m))
    BY <2>2, <2>3, AppendWake
  <2>5. Heard(idles') /\ Woken(view.armed, idles')
    BY <2>1, <2>4
  <2>6. SFields \subseteq DOMAIN session
    BY <1>2 DEF Rested, Fresh, SessionFresh
  <2>7. PICK t : t = session' /\ t = [session EXCEPT !.wakePosted = TRUE]
    BY DEF SessionWake
  <2>8. t.page = session.page /\ t.alive = session.alive
    BY <2>6, <2>7 DEF SFields
  <2> QED BY <1>v, <1>2, <2>5, <2>7, <2>8 DEF Awake
<1> QED BY <1>1, <1>2

\* The page at work.
LEMMA PageWorkAwake == ASSUME Rested, Awake, PageWork PROVE Awake'
<1>v. view' = view /\ idles' = idles
  BY DEF PageWork, PageStep
<1>1. CASE view.closed
  BY <1>v, <1>1 DEF Awake
<1>2. CASE ~view.closed
  <2>1. SFields \subseteq DOMAIN session
    BY <1>2 DEF Rested, Fresh, SessionFresh
  <2>2. /\ session'.page = session.page /\ session'.alive = session.alive
        /\ session'.wakePosted = session.wakePosted
    <3>1. ASSUME NEW tile \in Tiles, PageStep("draw", Drawn(session, {tile}))
          PROVE  /\ session'.page = session.page /\ session'.alive = session.alive
                 /\ session'.wakePosted = session.wakePosted
      BY <2>1, <3>1, DrawnAwake DEF PageStep
    <3>2. ASSUME PageStep("relayout", [Drawn(session, Tiles) EXCEPT !.damageFull = TRUE])
          PROVE  /\ session'.page = session.page /\ session'.alive = session.alive
                 /\ session'.wakePosted = session.wakePosted
      <4>1. PICK a : /\ a = Drawn(session, Tiles) /\ SFields \subseteq DOMAIN a
                     /\ a.page = session.page /\ a.alive = session.alive
                     /\ a.wakePosted = session.wakePosted
        BY <2>1, DrawnAwake
      <4>2. session' = [a EXCEPT !.damageFull = TRUE]
        BY <3>2, <4>1 DEF PageStep
      <4> QED BY <4>1, <4>2 DEF SFields
    <3>3. ASSUME NEW f, f \notin {"page", "alive", "wakePosted"}, NEW e,
                 session' = [session EXCEPT ![f] = e]
          PROVE  /\ session'.page = session.page /\ session'.alive = session.alive
                 /\ session'.wakePosted = session.wakePosted
      BY <2>1, <3>3 DEF SFields
    <3>4. ASSUME NEW e, \/ session' = [session EXCEPT !.anim = e]
                        \/ session' = [session EXCEPT !.wantScroll = e]
                        \/ session' = [session EXCEPT !.wantNav = e]
          PROVE  /\ session'.page = session.page /\ session'.alive = session.alive
                 /\ session'.wakePosted = session.wakePosted
      BY <3>3, <3>4
    <3> QED BY <3>1, <3>2, <3>4 DEF PageWork, PageStep
  <2> QED BY <1>v, <1>2, <2>2 DEF Awake
<1> QED BY <1>1, <1>2

\* At the start no wake is posted.
LEMMA AwakeInit == ASSUME ViewInit PROVE Awake
<1>1. PICK size \in Sizes :
        view = [opened |-> FALSE, loading |-> FALSE, closed |-> FALSE, load |-> 0,
                redirects |-> 0, deferred |-> FALSE, size |-> size, lastVp |-> 0,
                scroll |-> 0, frame |-> NoFrame, forceFull |-> FALSE,
                armed |-> FALSE, inflight |-> FALSE, pending |-> FALSE,
                vpInflight |-> FALSE, vpPending |-> FALSE, asking |-> FALSE,
                stopped |-> FALSE]
  BY DEF ViewInit
<1>2. "armed" \in DOMAIN view
  BY <1>1
<1>3. session.wakePosted = FALSE /\ session.page = None
  BY DEF ViewInit
<1> QED BY <1>2, <1>3 DEF Awake

\* The invariant is inductive.
LEMMA AwakeStep == ASSUME Framed, Rested, Awake, [ViewNext]_vars PROVE Awake'
<1>1. CASE User
  BY <1>1, HandlerAwake, AskSaveAwake, SaveAnsweredAwake, DestroyAwake DEF User
<1>2. CASE AnimTick BY <1>2, TickAwake
<1>3. CASE Deliver BY <1>3, DeliverAwake
<1>4. CASE RunJob BY <1>4, RunJobAwake
<1>5. CASE SessionWake BY <1>5, SessionWakeAwake
<1>6. CASE PageWork BY <1>6, PageWorkAwake
<1>7. CASE UNCHANGED vars
  BY <1>7 DEF vars, Awake
<1> QED BY <1>1, <1>2, <1>3, <1>4, <1>5, <1>6, <1>7 DEF ViewNext

-----------------------------------------------------------------------------
(* What the view shows at rest *)

\* A message that is placed in a queue is there.
LEMMA PlacedNone ==
  ASSUME NEW w, Len(w.jobs) = 0, Len(w.idles) = 0, NEW k, NEW at, NEW m, Placed(w, k, at, m)
  PROVE  at = "none"
<1>1. \A i \in 1..0 : FALSE
  OBVIOUS
<1> QED BY <1>1 DEF Placed, One

\* A picture with nothing damaged is of the page as it is.
LEMMA AccurateShows ==
  ASSUME NEW s, SessionFresh(s), Accurate(s), s.dirty = {}
  PROVE  s.fb = Painted(s, s.fb.scroll, s.fb.size)
<1>1. PICK z, c, t : Depicts(s, z, c, t)
  BY DEF Accurate
<1>2. PICK tiles : tiles = s.tiles /\ tiles = [x \in Tiles |-> tiles[x]]
  BY DEF SessionFresh
<1>3. /\ t = [x \in Tiles |-> t[x]]
      /\ \A x \in Tiles : t[x] = tiles[x]
  BY <1>1, <1>2 DEF Depicts
<1>4. t = tiles
  BY <1>2, <1>3
<1>5. s.fb = [load |-> s.page, vp |-> s.vp, size |-> z, scroll |-> c, tiles |-> s.tiles]
  BY <1>1, <1>2, <1>4 DEF Depicts
<1>6. s.fb.size = z /\ s.fb.scroll = c
  BY <1>1, DepictsWhat
<1> QED BY <1>5, <1>6 DEF Painted

\* At rest nothing is under way, so that the view shows the page as it is.
LEMMA RestedUpToDate == ASSUME Framed, Rested, Awake PROVE RestUpToDate
<1> SUFFICES ASSUME Quiet, view.opened, ~view.closed, ~view.stopped
             PROVE  /\ view.frame.gen # None
                    /\ view.frame.pic = Painted(session, view.scroll, view.size)
                    /\ view.size > 0 => session.vp = view.size
  BY DEF RestUpToDate
<1>1. PICK w : w = World /\ w.v = view /\ w.jobs = jobs /\ w.idles = idles
  <2>1. World.v = view /\ World.jobs = jobs /\ World.idles = idles
    BY DEF World
  <2> QED BY <2>1
<1>2. Fresh(w, session)
  BY <1>1 DEF Rested
<1>3. PICK ra, rm, va, vm : Good(w, session, ra, rm, va, vm)
  BY <1>1, <1>2 DEF Fresh
<1>4. ra = "none" /\ va = "none"
  <2>1. Len(w.jobs) = 0 /\ Len(w.idles) = 0
    BY <1>1, EmptySeq DEF Quiet
  <2>2. Placed(w, "render", ra, rm) /\ Placed(w, "viewport", va, vm)
    BY <1>3 DEF Good, Going
  <2> QED BY <2>1, <2>2, PlacedNone
<1>5. ~view.vpInflight
  BY <1>1, <1>3, <1>4 DEF Good, Going, Flows
<1>6. Settled(view, session, ra, rm)
  BY <1>1, <1>3, <1>4, <1>5 DEF Good, AtPeace
<1>7. /\ view.frame.gen = session.gen /\ Accurate(session)
      /\ session.fb.scroll = view.scroll /\ session.fb.size = view.size
  BY <1>4, <1>6 DEF Settled, Have
<1>8. session.dirty = {}
  <2>1. session.page # None /\ session.alive
    BY OpenPage DEF Awake
  <2>2. ~session.wakePosted
    <3>1. Len(idles) = 0 /\ ~view.armed
      BY EmptySeq DEF Quiet
    <3>2. \A i \in 1..0 : FALSE
      OBVIOUS
    <3>3. ~Woken(view.armed, idles)
      BY <3>1, <3>2 DEF Woken, WakeLast
    <3> QED BY <3>3 DEF Awake
  <2>3. ~session.repaint
    BY <2>1, <2>2 DEF Quiet, WakeDue, NeedsFrame
  <2> QED BY <1>2, <2>3 DEF Fresh, SessionFresh
<1>9. session.fb = Painted(session, view.scroll, view.size)
  BY <1>2, <1>7, <1>8, AccurateShows DEF Fresh
<1>10. PICK H : Fits(w, session, H)
  BY <1>1 DEF Framed
<1>11. session.gen \in Nat /\ H[session.gen] = session.fb /\ FrameFits(view, session.gen, H)
  BY <1>1, <1>10 DEF Fits, SessionFits
<1>12. session.gen # None
  BY <1>11 DEF None
<1>13. view.frame # NoFrame
  BY <1>7, <1>12 DEF NoFrame
<1>14. view.frame.pic = session.fb
  BY <1>7, <1>11, <1>13 DEF FrameFits
<1>15. session.vp = view.lastVp /\ (view.size = 0 \/ view.lastVp = view.size)
  BY <1>1, <1>3, <1>4 DEF Good, Arranged, Sized
<1>16. view.size \in Nat
  BY <1>1, <1>2 DEF Fresh, Ready
<1> QED BY <1>7, <1>9, <1>12, <1>14, <1>15, <1>16

\* When both sides have nothing left to do, an open view shows its page as it
\* looks, at the view's scroll position and size and laid out for that size:
\* no change of the page, scroll or resize that came while a render or a
\* viewport request was in flight is forgotten, and no change is left waiting
\* for a wake that will not come (request_render, on_frame,
\* maybe_update_viewport, on_viewport and pv_wake_idle in procview.c,
\* session_wake_dispatch in page_session.c), for any tiles, sizes, positions,
\* redirects, navigations and events.
THEOREM RestIsUpToDate == ViewSpec => []RestUpToDate
<1>1. ViewInit => Framed /\ Rested /\ Awake
  BY FramedInit, RestedInit, AwakeInit
<1>2. Framed /\ Rested /\ Awake /\ [ViewNext]_vars => Framed' /\ Rested' /\ Awake'
  BY FramedStep, RestedStep, AwakeStep
<1>3. Framed /\ Rested /\ Awake => RestUpToDate
  BY RestedUpToDate
<1> QED BY <1>1, <1>2, <1>3, PTL DEF ViewSpec


-----------------------------------------------------------------------------
(* Answers: that a view never waits for what is no longer under way.       *)
(*                                                                         *)
(* A view waits for a render, for a change of the viewport, for a load.    *)
(* It then has a request with the engine thread, or a result on its way    *)
(* back, that carries its sequence number of the moment.                   *)

UnderWay(q, k) == \E i \in 1..Len(q) : q[i].kind = k /\ q[i].cur
Answered(w, k) == UnderWay(w.jobs, k) \/ UnderWay(w.idles, k)

Waits(v, k) ==
  \/ k = "render" /\ v.inflight
  \/ k = "viewport" /\ v.vpInflight
  \/ k = "load" /\ v.loading /\ ~v.deferred

\* The fields a view waits by, and by which it waits for a kind.
Waitings == {"loading", "deferred", "inflight", "vpInflight"}
Stake(f, k) ==
  \/ f = "inflight" /\ k = "render"
  \/ f = "vpInflight" /\ k = "viewport"
  \/ f \in {"loading", "deferred"} /\ k = "load"

Dated(q) == \A i \in 1..Len(q) : "cur" \in DOMAIN q[i]
Attends(w) ==
  /\ IsWorld(w) /\ ~w.v.closed /\ Waitings \subseteq DOMAIN w.v
  /\ Dated(w.jobs) /\ Dated(w.idles)

\* Of a kind that no view waits for, it says that the world attends.
Awaits(w, k) == Attends(w) /\ (Waits(w.v, k) => Answered(w, k))

\* A kind that no view waits for.
LEMMA AwaitsNone == ASSUME NEW w PROVE Attends(w) <=> Awaits(w, "none")
BY DEF Awaits, Waits

\* One other field of the view, by which it does not wait for the kind.
LEMMA FieldAwaits ==
  ASSUME NEW w, NEW k, Awaits(w, k), NEW f, f \notin {"closed", "asking"}, ~Stake(f, k),
         NEW e, NEW o, o = [w EXCEPT !.v = [w.v EXCEPT ![f] = e]]
  PROVE  Awaits(o, k)
<1>1. /\ IsWorld(w) /\ {"v", "jobs", "idles", "refs"} \subseteq DOMAIN w
      /\ Waitings \subseteq DOMAIN w.v /\ {"closed", "asking"} \subseteq DOMAIN w.v
  BY DEF Awaits, Attends, IsWorld
<1>2. /\ o.jobs = w.jobs /\ o.idles = w.idles /\ o.refs = w.refs /\ DOMAIN o = DOMAIN w
      /\ o.v = [w.v EXCEPT ![f] = e]
  BY <1>1
<1>3. PICK v, u : v = w.v /\ u = o.v
  OBVIOUS
<1>4. /\ u = [v EXCEPT ![f] = e]
      /\ Waitings \subseteq DOMAIN v /\ {"closed", "asking"} \subseteq DOMAIN v
  BY <1>1, <1>2, <1>3
<1>5. DOMAIN u = DOMAIN v /\ \A x \in DOMAIN v : x # f => u[x] = v[x]
  BY <1>4
<1>6. u.closed = v.closed /\ u.asking = v.asking
  BY <1>4, <1>5
<1>7. IsWorld(o)
  BY <1>1, <1>2, <1>3, <1>4, <1>5, <1>6 DEF IsWorld
<1>8. Attends(o)
  BY <1>2, <1>3, <1>4, <1>5, <1>6, <1>7 DEF Awaits, Attends
<1>9. Waits(u, k) => Waits(v, k)
  <2>1. /\ f # "inflight" => u.inflight = v.inflight
        /\ f # "vpInflight" => u.vpInflight = v.vpInflight
        /\ f # "loading" => u.loading = v.loading
        /\ f # "deferred" => u.deferred = v.deferred
    BY <1>4, <1>5 DEF Waitings
  <2> QED BY <2>1 DEF Waits, Stake
<1> QED BY <1>2, <1>3, <1>8, <1>9 DEF Awaits, Answered

\* The view waits no longer.
LEMMA LowerAwaits ==
  ASSUME NEW w, Attends(w), NEW f, NEW k, f \in {"inflight", "vpInflight", "loading"}, Stake(f, k),
         NEW o, o = [w EXCEPT !.v = [w.v EXCEPT ![f] = FALSE]]
  PROVE  Awaits(o, k)
<1>1. Awaits(w, "none")
  BY AwaitsNone
<1>2. f \notin {"closed", "asking"} /\ ~Stake(f, "none")
  BY DEF Stake
<1>3. Awaits(o, "none")
  BY <1>1, <1>2, FieldAwaits
<1>4. Attends(o)
  BY <1>3, AwaitsNone
<1>5. PICK v, u : v = w.v /\ u = o.v /\ u = [v EXCEPT ![f] = FALSE] /\ f \in DOMAIN v
  <2>1. {"v"} \subseteq DOMAIN w /\ f \in DOMAIN w.v
    BY DEF Attends, IsWorld, Waitings
  <2>2. o.v = [w.v EXCEPT ![f] = FALSE]
    BY <2>1
  <2> QED BY <2>1, <2>2
<1>6. u[f] = FALSE
  BY <1>5
<1>7. ~Waits(u, k)
  <2>1. CASE f = "inflight" BY <1>6, <2>1 DEF Waits, Stake
  <2>2. CASE f = "vpInflight" BY <1>6, <2>2 DEF Waits, Stake
  <2>3. CASE f = "loading" BY <1>6, <2>3 DEF Waits, Stake
  <2> QED BY <2>1, <2>2, <2>3
<1> QED BY <1>4, <1>5, <1>7 DEF Awaits

\* Raising the sequence numbers of other kinds leaves what is under way.
LEMMA OutdatedUnderWay ==
  ASSUME NEW q, NEW K, NEW kinds, IsQueue(q, K), Dated(q)
  PROVE  /\ Dated(Outdated(q, kinds))
         /\ \A k : UnderWay(q, k) /\ k \notin kinds => UnderWay(Outdated(q, kinds), k)
<1>1. PICK o : o = Outdated(q, kinds)
  OBVIOUS
<1>2. Len(o) = Len(q) /\ Len(q) \in Nat /\ DOMAIN q = 1..Len(q)
  BY <1>1, OutdatedQueue, QueueLength
<1>3. \A i \in 1..Len(q) : "cur" \in DOMAIN o[i]
  <2>1. \A i \in 1..Len(q) : "cur" \in DOMAIN q[i]
    BY DEF Dated
  <2> QED BY <1>1, <2>1, OutdatedMessages
<1>4. \A i \in 1..Len(q) : q[i].kind \notin kinds => o[i] = q[i]
  BY <1>1, <1>2 DEF Outdated
<1> QED BY <1>1, <1>2, <1>3, <1>4 DEF Dated, UnderWay

\* The same, of a world.
LEMMA OutdateAwaits ==
  ASSUME NEW w, NEW k, Awaits(w, k), NEW kinds, k \notin kinds
  PROVE  Awaits(Outdate(w, kinds), k) /\ Outdate(w, kinds).v = w.v
<1>1. PICK o : o = Outdate(w, kinds)
  OBVIOUS
<1>2. IsWorld(w) /\ Dated(w.jobs) /\ Dated(w.idles) /\ ~w.v.closed /\ Waitings \subseteq DOMAIN w.v
  BY DEF Awaits, Attends
<1>3. IsWorld(o) /\ o.v = w.v
  BY <1>1, <1>2, OutdateSame DEF Same
<1>4. o.jobs = Outdated(w.jobs, kinds) /\ o.idles = Outdated(w.idles, kinds)
  BY <1>1, <1>2 DEF Outdate, IsWorld
<1>5. IsQueue(w.jobs, Requests) /\ IsQueue(w.idles, Results)
  BY <1>2 DEF IsWorld
<1>6. /\ Dated(o.jobs) /\ Dated(o.idles)
      /\ UnderWay(w.jobs, k) => UnderWay(o.jobs, k)
      /\ UnderWay(w.idles, k) => UnderWay(o.idles, k)
  BY <1>2, <1>4, <1>5, OutdatedUnderWay
<1>7. Attends(o)
  BY <1>2, <1>3, <1>6 DEF Attends
<1> QED BY <1>1, <1>3, <1>6, <1>7 DEF Awaits, Answered

\* A message put behind the others.
LEMMA AppendUnderWay ==
  ASSUME NEW q, NEW K, IsQueue(q, K), NEW m
  PROVE  /\ Dated(q) /\ "cur" \in DOMAIN m => Dated(Append(q, m))
         /\ \A k : UnderWay(q, k) \/ (m.kind = k /\ m.cur) => UnderWay(Append(q, m), k)
<1>1. PICK o, l : o = Append(q, m) /\ l = Len(q)
  OBVIOUS
<1>2. l \in Nat /\ Len(o) = l + 1 /\ (\A i \in 1..l : o[i] = q[i]) /\ o[l + 1] = m
  BY <1>1, Appended
<1>3. \A i \in 1..(l + 1) : i \in 1..l \/ i = l + 1
  BY <1>2
<1>4. l + 1 \in 1..(l + 1) /\ \A i \in 1..l : i \in 1..(l + 1)
  BY <1>2
<1>5. Dated(q) /\ "cur" \in DOMAIN m => Dated(o)
  BY <1>1, <1>2, <1>3 DEF Dated
<1>6. \A k : UnderWay(q, k) \/ (m.kind = k /\ m.cur) => UnderWay(o, k)
  BY <1>1, <1>2, <1>4 DEF UnderWay
<1> QED BY <1>1, <1>5, <1>6

\* A request, which the view may be waiting for.
LEMMA PushReqAwaits ==
  ASSUME NEW w, NEW k, NEW req, IsMessage(req, Requests), "cur" \in DOMAIN req,
         Attends(w), Awaits(w, k) \/ (req.kind = k /\ req.cur)
  PROVE  Awaits(PushReq(w, req), k) /\ PushReq(w, req).v = w.v
<1>1. PICK o : o = PushReq(w, req)
  OBVIOUS
<1>2. IsWorld(w) /\ Dated(w.jobs) /\ Dated(w.idles) /\ ~w.v.closed /\ Waitings \subseteq DOMAIN w.v
  BY DEF Attends
<1>3. IsWorld(o) /\ o.v = w.v
  BY <1>1, <1>2, PushReqSame DEF Same
<1>4. o.idles = w.idles /\ o.jobs = Append(w.jobs, req)
  BY <1>1, <1>2 DEF PushReq, IsWorld
<1>5. IsQueue(w.jobs, Requests)
  BY <1>2 DEF IsWorld
<1>6. /\ Dated(o.jobs)
      /\ UnderWay(w.jobs, k) \/ (req.kind = k /\ req.cur) => UnderWay(o.jobs, k)
  BY <1>2, <1>4, <1>5, AppendUnderWay
<1>7. Attends(o)
  BY <1>2, <1>3, <1>4, <1>6 DEF Attends
<1>8. Waits(o.v, k) => Answered(o, k)
  BY <1>3, <1>4, <1>6 DEF Awaits, Answered
<1> QED BY <1>1, <1>3, <1>7, <1>8 DEF Awaits


\* A field of the view by which it waits for nothing.
LEMMA IdleAwaits ==
  ASSUME NEW w, NEW k, Awaits(w, k), NEW f, f \notin Waitings \cup {"closed", "asking"},
         NEW e, NEW o, o = [w EXCEPT !.v = [w.v EXCEPT ![f] = e]]
  PROVE  Awaits(o, k)
<1>1. f \notin {"closed", "asking"} /\ ~Stake(f, k)
  BY DEF Waitings, Stake
<1> QED BY <1>1, FieldAwaits

\* start_render: the view waits for the render that it asks for.
LEMMA StartRenderAwaits ==
  ASSUME NEW w, NEW k, Awaits(w, k) PROVE Awaits(StartRender(w), k)
<1>1. CASE ~w.v.opened BY <1>1 DEF StartRender
<1>2. CASE w.v.opened
  <2>1. PICK a : a = Outdate(w, {"render"})
    OBVIOUS
  <2>2. Awaits(a, "none")
    <3>1. Awaits(w, "none")
      BY AwaitsNone DEF Awaits
    <3> QED BY <2>1, <3>1, OutdateAwaits
  <2>3. k # "render" => Awaits(a, k)
    BY <2>1, OutdateAwaits
  <2>4. PICK b, o : /\ b = [a EXCEPT !.v = [a.v EXCEPT !["inflight"] = TRUE]]
                    /\ o = [b EXCEPT !.v = [b.v EXCEPT !["forceFull"] = FALSE]]
    OBVIOUS
  <2>5. ASSUME NEW x, Awaits(a, x), x # "render" PROVE Awaits(o, x)
    <3>1. ~Stake("inflight", x) /\ ~Stake("forceFull", x)
      BY <2>5 DEF Stake
    <3>2. Awaits(b, x)
      BY <2>4, <2>5, <3>1, FieldAwaits
    <3> QED BY <2>4, <3>1, <3>2, FieldAwaits
  <2>6. o = [a EXCEPT !.v.inflight = TRUE, !.v.forceFull = FALSE]
    BY <2>4
  <2>7. PICK req : /\ StartRender(w) = PushReq(o, req) /\ IsMessage(req, Requests)
                   /\ "cur" \in DOMAIN req /\ req.cur /\ req.kind = "render"
    <3> DEFINE req == [kind |-> "render", cur |-> TRUE, size |-> w.v.size,
                       scroll |-> w.v.scroll, full |-> w.v.forceFull]
    <3>1. StartRender(w) = PushReq(o, req)
      BY <1>2, <2>1, <2>6 DEF StartRender
    <3>2. IsMessage(req, Requests) /\ "cur" \in DOMAIN req /\ req.cur /\ req.kind = "render"
      BY DEF IsMessage, Requests
    <3> QED BY <3>1, <3>2
  <2>8. Attends(o)
    BY <2>2, <2>5, AwaitsNone
  <2>9. Awaits(o, k) \/ (req.kind = k /\ req.cur)
    BY <2>3, <2>5, <2>7
  <2> QED BY <2>7, <2>8, <2>9, PushReqAwaits
<1> QED BY <1>1, <1>2

\* request_render
LEMMA RequestRenderAwaits ==
  ASSUME NEW w, NEW k, Awaits(w, k) PROVE Awaits(RequestRender(w), k)
<1>1. CASE ~w.v.opened BY <1>1 DEF RequestRender
<1>2. CASE w.v.opened /\ w.v.inflight
  <2>1. PICK o : o = [w EXCEPT !.v.pending = TRUE] /\ RequestRender(w) = o
    BY <1>2 DEF RequestRender
  <2>2. o = [w EXCEPT !.v = [w.v EXCEPT !["pending"] = TRUE]]
    BY <2>1
  <2>3. "pending" \notin Waitings \cup {"closed", "asking"}
    BY DEF Waitings
  <2>4. Awaits(o, k)
    BY <2>2, <2>3, IdleAwaits
  <2> QED BY <2>1, <2>4
<1>3. CASE w.v.opened /\ ~w.v.inflight
  BY <1>3, StartRenderAwaits DEF RequestRender
<1> QED BY <1>1, <1>2, <1>3

\* on_adj_changed, as ScrollTo runs it.
LEMMA ScrollToAwaits ==
  ASSUME NEW w, NEW k, Awaits(w, k), NEW pos PROVE Awaits(ScrollTo(w, pos), k)
<1>1. CASE pos = w.v.scroll BY <1>1 DEF ScrollTo
<1>2. CASE pos # w.v.scroll
  <2>1. PICK o : o = [w EXCEPT !.v.scroll = pos] /\ ScrollTo(w, pos) = RequestRender(o)
    BY <1>2 DEF ScrollTo
  <2>2. o = [w EXCEPT !.v = [w.v EXCEPT !["scroll"] = pos]]
        /\ "scroll" \notin Waitings \cup {"closed", "asking"}
    BY <2>1 DEF Waitings
  <2>3. Awaits(o, k)
    BY <2>2, IdleAwaits
  <2> QED BY <2>1, <2>3, RequestRenderAwaits
<1> QED BY <1>1, <1>2

\* start_viewport: the view waits for the change that it asks for.
LEMMA StartViewportAwaits ==
  ASSUME NEW w, NEW k, Awaits(w, k), NEW size PROVE Awaits(StartViewport(w, size), k)
<1>1. CASE ~w.v.opened BY <1>1 DEF StartViewport
<1>2. CASE w.v.opened /\ w.v.vpInflight
  <2>1. PICK o : o = [w EXCEPT !.v.vpPending = TRUE] /\ StartViewport(w, size) = o
    BY <1>2 DEF StartViewport
  <2>2. o = [w EXCEPT !.v = [w.v EXCEPT !["vpPending"] = TRUE]]
        /\ "vpPending" \notin Waitings \cup {"closed", "asking"}
    BY <2>1 DEF Waitings
  <2>3. Awaits(o, k)
    BY <2>2, IdleAwaits
  <2> QED BY <2>1, <2>3
<1>3. CASE w.v.opened /\ ~w.v.vpInflight
  <2>1. PICK a : a = Outdate(w, {"viewport"})
    OBVIOUS
  <2>2. Awaits(a, "none")
    <3>1. Awaits(w, "none")
      BY AwaitsNone DEF Awaits
    <3> QED BY <2>1, <3>1, OutdateAwaits
  <2>3. k # "viewport" => Awaits(a, k)
    BY <2>1, OutdateAwaits
  <2>4. PICK o : o = [a EXCEPT !.v.vpInflight = TRUE]
    OBVIOUS
  <2>5. ASSUME NEW x, Awaits(a, x), x # "viewport" PROVE Awaits(o, x)
    <3>1. ~Stake("vpInflight", x) /\ "vpInflight" \notin {"closed", "asking"}
      BY <2>5 DEF Stake
    <3>2. o = [a EXCEPT !.v = [a.v EXCEPT !["vpInflight"] = TRUE]]
      BY <2>4
    <3> QED BY <2>5, <3>1, <3>2, FieldAwaits
  <2>7. PICK req : /\ StartViewport(w, size) = PushReq(o, req) /\ IsMessage(req, Requests)
                   /\ "cur" \in DOMAIN req /\ req.cur /\ req.kind = "viewport"
    <3> DEFINE req == [kind |-> "viewport", cur |-> TRUE, size |-> size]
    <3>1. StartViewport(w, size) = PushReq(o, req)
      BY <1>3, <2>1, <2>4 DEF StartViewport
    <3>2. IsMessage(req, Requests) /\ "cur" \in DOMAIN req /\ req.cur /\ req.kind = "viewport"
      BY DEF IsMessage, Requests
    <3> QED BY <3>1, <3>2
  <2>8. Attends(o)
    BY <2>2, <2>5, AwaitsNone
  <2>9. Awaits(o, k) \/ (req.kind = k /\ req.cur)
    BY <2>3, <2>5, <2>7
  <2> QED BY <2>7, <2>8, <2>9, PushReqAwaits
<1> QED BY <1>1, <1>2, <1>3

\* maybe_update_viewport
LEMMA MaybeUpdateViewportAwaits ==
  ASSUME NEW w, NEW k, Awaits(w, k) PROVE Awaits(MaybeUpdateViewport(w), k)
<1>1. CASE ~ViewportMoved(w.v) BY <1>1 DEF MaybeUpdateViewport
<1>2. CASE ViewportMoved(w.v)
  <2>1. PICK o : /\ o = [w EXCEPT !.v.lastVp = w.v.size]
                 /\ MaybeUpdateViewport(w) = StartViewport(o, w.v.size)
    BY <1>2 DEF MaybeUpdateViewport
  <2>2. o = [w EXCEPT !.v = [w.v EXCEPT !["lastVp"] = w.v.size]]
        /\ "lastVp" \notin Waitings \cup {"closed", "asking"}
    BY <2>1 DEF Waitings
  <2>3. Awaits(o, k)
    BY <2>2, IdleAwaits
  <2> QED BY <2>1, <2>3, StartViewportAwaits
<1> QED BY <1>1, <1>2

\* do_load: whatever the view waited for, it now waits for the load, which is
\* under way unless it is deferred.
LEMMA DoLoadAwaits ==
  ASSUME NEW w, Attends(w), NEW k PROVE Awaits(DoLoad(w), k)
<1>1. PICK a : a = Outdate(w, {"load", "render", "viewport", "click"})
  OBVIOUS
<1>2. Attends(a)
  <2>1. Awaits(w, "none")
    BY AwaitsNone
  <2>2. Awaits(a, "none")
    BY <1>1, <2>1, OutdateAwaits
  <2> QED BY <2>2, AwaitsNone
<1>3. PICK n, o : o = [a EXCEPT !.v = [@ EXCEPT !.load = n, !.pending = FALSE,
                                    !.inflight = FALSE, !.vpInflight = FALSE,
                                    !.vpPending = FALSE, !.opened = FALSE, !.armed = FALSE,
                                    !.frame = NoFrame, !.loading = TRUE, !.stopped = FALSE]]
                  /\ n = w.v.load + 1
  OBVIOUS
<1>4. /\ IsWorld(a) /\ {"v", "jobs", "idles", "refs"} \subseteq DOMAIN a /\ ~a.v.closed
      /\ Waitings \subseteq DOMAIN a.v /\ {"closed", "asking"} \subseteq DOMAIN a.v
  BY <1>2 DEF Attends, IsWorld
<1>5. /\ o.jobs = a.jobs /\ o.idles = a.idles /\ o.refs = a.refs /\ DOMAIN o = DOMAIN a
      /\ o.v = [a.v EXCEPT !.load = n, !.pending = FALSE,
                           !.inflight = FALSE, !.vpInflight = FALSE,
                           !.vpPending = FALSE, !.opened = FALSE, !.armed = FALSE,
                           !.frame = NoFrame, !.loading = TRUE, !.stopped = FALSE]
  BY <1>3, <1>4
<1>6. PICK v, u : v = a.v /\ u = o.v
  OBVIOUS
<1>7. /\ DOMAIN u = DOMAIN v /\ u.closed = v.closed /\ u.asking = v.asking
      /\ u.inflight = FALSE /\ u.vpInflight = FALSE
  BY <1>4, <1>5, <1>6 DEF Waitings
<1>8. IsWorld(o)
  BY <1>4, <1>5, <1>6, <1>7 DEF IsWorld
<1>9. Attends(o)
  BY <1>2, <1>5, <1>6, <1>7, <1>8 DEF Attends
<1>10. k # "load" => Awaits(o, k)
  BY <1>6, <1>7, <1>9 DEF Awaits, Waits
<1>11. CASE w.v.size = 0
  <2>1. PICK p : p = [o EXCEPT !.v.deferred = TRUE] /\ DoLoad(w) = p
    BY <1>1, <1>3, <1>11 DEF DoLoad
  <2>2. p = [o EXCEPT !.v = [o.v EXCEPT !["deferred"] = TRUE]] /\ "deferred" \notin {"closed", "asking"}
    BY <2>1
  <2>3. ASSUME NEW x, x # "load", Awaits(o, x) PROVE Awaits(p, x)
    <3>1. ~Stake("deferred", x)
      BY <2>3 DEF Stake
    <3> QED BY <2>2, <2>3, <3>1, FieldAwaits
  <2>4. Attends(p)
    BY <1>9, <2>3, AwaitsNone
  <2>5. "v" \in DOMAIN o /\ "deferred" \in DOMAIN o.v
    BY <1>9 DEF Attends, IsWorld, Waitings
  <2>6. p.v = [o.v EXCEPT !["deferred"] = TRUE]
    BY <2>2, <2>5
  <2>7. p.v.deferred = TRUE
    BY <2>5, <2>6
  <2>8. Awaits(p, "load")
    BY <2>4, <2>7 DEF Awaits, Waits
  <2> QED BY <1>10, <2>1, <2>3, <2>8
<1>12. CASE w.v.size # 0
  <2>1. PICK p : p = [o EXCEPT !.v.lastVp = w.v.size]
    OBVIOUS
  <2>2. p = [o EXCEPT !.v = [o.v EXCEPT !["lastVp"] = w.v.size]]
        /\ "lastVp" \notin Waitings \cup {"closed", "asking"}
    BY <2>1 DEF Waitings
  <2>3. \A x : Awaits(o, x) => Awaits(p, x)
    BY <2>2, IdleAwaits
  <2>4. PICK req : /\ DoLoad(w) = PushReq(p, req) /\ IsMessage(req, Requests)
                   /\ "cur" \in DOMAIN req /\ req.cur /\ req.kind = "load"
    <3> DEFINE req == [kind |-> "load", cur |-> TRUE, load |-> w.v.load + 1, size |-> w.v.size]
    <3>1. DoLoad(w) = PushReq(p, req)
      BY <1>1, <1>3, <1>12, <2>1 DEF DoLoad
    <3>2. IsMessage(req, Requests) /\ "cur" \in DOMAIN req /\ req.cur /\ req.kind = "load"
      BY DEF IsMessage, Requests
    <3> QED BY <3>1, <3>2
  <2>5. Attends(p)
    BY <1>9, <2>3, AwaitsNone
  <2>6. Awaits(p, k) \/ (req.kind = k /\ req.cur)
    BY <1>10, <2>3, <2>4
  <2> QED BY <2>4, <2>5, <2>6, PushReqAwaits
<1> QED BY <1>11, <1>12


\* apply_patch, or asking for the whole frame.
LEMMA OnPatchAwaits ==
  ASSUME NEW w, NEW k, Awaits(w, k), NEW r PROVE Awaits(OnPatch(w, r), k)
<1>0. {"frame", "forceFull"} \cap (Waitings \cup {"closed", "asking"}) = {}
  BY DEF Waitings
<1>1. CASE w.v.frame.gen # None /\ w.v.frame.gen = r.base
  <2>1. PICK f, o : o = [w EXCEPT !.v.frame = f] /\ OnPatch(w, r) = o
    BY <1>1 DEF OnPatch
  <2>2. o = [w EXCEPT !.v = [w.v EXCEPT !["frame"] = f]]
    BY <2>1
  <2>3. Awaits(o, k)
    BY <1>0, <2>2, IdleAwaits
  <2> QED BY <2>1, <2>3
<1>2. CASE ~(w.v.frame.gen # None /\ w.v.frame.gen = r.base)
  <2>1. PICK o : o = [w EXCEPT !.v.forceFull = TRUE] /\ OnPatch(w, r) = RequestRender(o)
    BY <1>2 DEF OnPatch
  <2>2. o = [w EXCEPT !.v = [w.v EXCEPT !["forceFull"] = TRUE]]
    BY <2>1
  <2>3. Awaits(o, k)
    BY <1>0, <2>2, IdleAwaits
  <2> QED BY <2>1, <2>3, RequestRenderAwaits
<1> QED BY <1>1, <1>2

\* The pixels of a result.
LEMMA OnPixelsAwaits ==
  ASSUME NEW w, NEW k, Awaits(w, k), NEW r PROVE Awaits(OnPixels(w, r), k)
<1>1. CASE r.has = "full" /\ r.cur
  <2>1. PICK f, o : o = [w EXCEPT !.v.frame = f] /\ OnPixels(w, r) = o
    BY <1>1 DEF OnPixels
  <2>2. o = [w EXCEPT !.v = [w.v EXCEPT !["frame"] = f]]
        /\ "frame" \notin Waitings \cup {"closed", "asking"}
    BY <2>1 DEF Waitings
  <2>3. Awaits(o, k)
    BY <2>2, IdleAwaits
  <2> QED BY <2>1, <2>3
<1>2. CASE ~(r.has = "full" /\ r.cur) /\ r.has = "patch"
  <2>1. OnPixels(w, r) = OnPatch(w, r)
    BY <1>2 DEF OnPixels
  <2> QED BY <2>1, OnPatchAwaits
<1>3. CASE ~(r.has = "full" /\ r.cur) /\ r.has # "patch"
  <2>1. OnPixels(w, r) = w
    BY <1>3 DEF OnPixels
  <2> QED BY <2>1
<1> QED BY <1>1, <1>2, <1>3

\* What is known of a kind when the next result is in hand: if the view waits for
\* it, its answer is still under way or is that result.
InHand(w, r, k) == Attends(w) /\ (Awaits(w, k) \/ (r.kind = k /\ r.cur))

\* A result of another kind, or one that is outdated.
LEMMA InHandAwaits ==
  ASSUME NEW w, NEW r, NEW k, InHand(w, r, k), r.kind # k \/ ~r.cur
  PROVE  Awaits(w, k)
BY DEF InHand

\* on_result, of a render: the view waits for no other, but for one it asks for.
LEMMA OnFrameAwaits ==
  ASSUME NEW w, NEW k, NEW r, r.kind = "render", InHand(w, r, k) PROVE Awaits(OnFrame(w, r), k)
<1> DEFINE arm == IF r.cur /\ r.ok THEN [w EXCEPT !.v.armed = r.animating] ELSE w
           pos == IF r.cur /\ r.ok /\ r.scroll # None THEN ScrollTo(arm, r.scroll) ELSE arm
           pix == IF r.ok THEN OnPixels(pos, r) ELSE pos
           nav == IF r.cur /\ r.ok /\ r.nav /\ pix.v.redirects < MaxRedirects
                  THEN DoLoad([pix EXCEPT !.v.redirects = @ + 1]) ELSE pix
           end == [nav EXCEPT !.v.inflight = FALSE, !.v.pending = FALSE]
<1>0. OnFrame(w, r) = IF nav.v.pending THEN StartRender(end)
                       ELSE IF r.cur /\ ~r.ok THEN [end EXCEPT !.v.loading = FALSE] ELSE end
  BY Zenon DEF OnFrame
<1>1. arm = IF r.cur /\ r.ok THEN [w EXCEPT !.v.armed = r.animating] ELSE w
  OBVIOUS
<1>3. pos = IF r.cur /\ r.ok /\ r.scroll # None THEN ScrollTo(arm, r.scroll) ELSE arm
  OBVIOUS
<1>5. pix = IF r.ok THEN OnPixels(pos, r) ELSE pos
  OBVIOUS
<1>7. nav = IF r.cur /\ r.ok /\ r.nav /\ pix.v.redirects < MaxRedirects
          THEN DoLoad([pix EXCEPT !.v.redirects = @ + 1]) ELSE pix
  OBVIOUS
<1>9. end = [nav EXCEPT !.v.inflight = FALSE, !.v.pending = FALSE]
  OBVIOUS
<1> HIDE DEF arm, pos, pix, nav, end
<1>f. {"armed", "redirects", "pending"} \cap (Waitings \cup {"closed", "asking"}) = {}
  BY DEF Waitings
<1>n. ASSUME NEW x, Awaits(w, x) PROVE Awaits(nav, x)
  <2>1. Awaits(arm, x)
    <3>1. CASE r.cur /\ r.ok
      <4>1. arm = [w EXCEPT !.v = [w.v EXCEPT !["armed"] = r.animating]]
        BY <1>1, <3>1
      <4> QED BY <1>f, <1>n, <4>1, IdleAwaits
    <3>2. CASE ~(r.cur /\ r.ok)
      BY <1>1, <1>n, <3>2
    <3> QED BY <3>1, <3>2
  <2>2. Awaits(pos, x)
    BY <1>3, <2>1, ScrollToAwaits
  <2>3. Awaits(pix, x)
    BY <1>5, <2>2, OnPixelsAwaits
  <2>4. CASE r.cur /\ r.ok /\ r.nav /\ pix.v.redirects < MaxRedirects
    <3>1. PICK o : o = [pix EXCEPT !.v.redirects = @ + 1] /\ nav = DoLoad(o)
      BY <1>7, <2>4
    <3>2. o = [pix EXCEPT !.v = [pix.v EXCEPT !["redirects"] = pix.v.redirects + 1]]
      BY <3>1
    <3>3. Awaits(o, x)
      BY <1>f, <2>3, <3>2, IdleAwaits
    <3>4. Attends(o)
      BY <3>3 DEF Awaits
    <3> QED BY <3>1, <3>4, DoLoadAwaits
  <2>5. CASE ~(r.cur /\ r.ok /\ r.nav /\ pix.v.redirects < MaxRedirects)
    BY <1>7, <2>3, <2>5
  <2> QED BY <2>4, <2>5
<1>10. Awaits(end, k)
  <2>1. PICK b, o : /\ b = [nav EXCEPT !.v = [nav.v EXCEPT !["inflight"] = FALSE]]
                    /\ o = [b EXCEPT !.v = [b.v EXCEPT !["pending"] = FALSE]]
    OBVIOUS
  <2>2. Awaits(b, k)
    <3>1. CASE k = "render"
      <4>1. Awaits(w, "none")
        BY AwaitsNone DEF InHand
      <4>2. Attends(nav)
        BY <1>n, <4>1, AwaitsNone
      <4>3. Stake("inflight", k)
        BY <3>1 DEF Stake
      <4> QED BY <2>1, <4>2, <4>3, LowerAwaits
    <3>2. CASE k # "render"
      <4>1. Awaits(nav, k)
        BY <1>n, <3>2, InHandAwaits
      <4>2. ~Stake("inflight", k) /\ "inflight" \notin {"closed", "asking"}
        BY <3>2 DEF Stake
      <4> QED BY <2>1, <4>1, <4>2, FieldAwaits
    <3> QED BY <3>1, <3>2
  <2>3. Awaits(o, k)
    BY <1>f, <2>1, <2>2, IdleAwaits
  <2>4. end = o
    BY <1>9, <2>1
  <2> QED BY <2>3, <2>4
<1>15. CASE nav.v.pending
  <2>1. OnFrame(w, r) = StartRender(end) BY <1>0, <1>15
  <2> QED BY <1>10, <2>1, StartRenderAwaits
<1>16. CASE ~nav.v.pending /\ r.cur /\ ~r.ok
  <2>1. PICK o : o = [end EXCEPT !.v.loading = FALSE] /\ OnFrame(w, r) = o
    BY <1>0, <1>16
  <2>2. o = [end EXCEPT !.v = [end.v EXCEPT !["loading"] = FALSE]]
    BY <2>1
  <2>3. Awaits(o, k)
    <3>1. CASE Stake("loading", k)
      <4>1. Attends(end)
        BY <1>10 DEF Awaits
      <4> QED BY <2>2, <3>1, <4>1, LowerAwaits
    <3>2. CASE ~Stake("loading", k)
      <4>1. "loading" \notin {"closed", "asking"}
        OBVIOUS
      <4> QED BY <1>10, <2>2, <3>2, <4>1, FieldAwaits
    <3> QED BY <3>1, <3>2
  <2> QED BY <2>1, <2>3
<1>17. CASE ~nav.v.pending /\ ~(r.cur /\ ~r.ok)
  BY <1>10, <1>0, <1>17
<1> QED BY <1>15, <1>16, <1>17

\* on_result, of a change of the viewport.
LEMMA OnViewportAwaits ==
  ASSUME NEW w, NEW k, NEW r, r.kind = "viewport", InHand(w, r, k)
  PROVE  Awaits(OnViewport(w, r), k)
<1>1. CASE ~r.cur BY <1>1, InHandAwaits DEF OnViewport
<1>2. CASE r.cur
  <2>1. PICK o : o = [w EXCEPT !.v.vpInflight = FALSE]
    OBVIOUS
  <2>2. o = [w EXCEPT !.v = [w.v EXCEPT !["vpInflight"] = FALSE]]
    BY <2>1
  <2>3. Awaits(o, k)
    <3>1. CASE k = "viewport"
      <4>1. Stake("vpInflight", k) /\ Attends(w)
        BY <3>1 DEF Stake, InHand
      <4> QED BY <2>2, <4>1, LowerAwaits
    <3>2. CASE k # "viewport"
      <4>1. ~Stake("vpInflight", k) /\ "vpInflight" \notin {"closed", "asking"}
        BY <3>2 DEF Stake
      <4>2. Awaits(w, k)
        BY <3>2, InHandAwaits
      <4> QED BY <2>2, <4>1, <4>2, FieldAwaits
    <3> QED BY <3>1, <3>2
  <2>4. PICK p : p = IF r.ok THEN RequestRender(o) ELSE o
    OBVIOUS
  <2>5. Awaits(p, k)
    BY <2>3, <2>4, RequestRenderAwaits
  <2>6. OnViewport(w, r) = IF p.v.vpPending
                           THEN StartViewport([p EXCEPT !.v.vpPending = FALSE], p.v.lastVp) ELSE p
    BY <1>2, <2>1, <2>4 DEF OnViewport
  <2>7. CASE p.v.vpPending
    <3>1. PICK q : q = [p EXCEPT !.v.vpPending = FALSE] /\ OnViewport(w, r) = StartViewport(q, p.v.lastVp)
      BY <2>6, <2>7
    <3>2. q = [p EXCEPT !.v = [p.v EXCEPT !["vpPending"] = FALSE]]
          /\ "vpPending" \notin Waitings \cup {"closed", "asking"}
      BY <3>1 DEF Waitings
    <3>3. Awaits(q, k)
      BY <2>5, <3>2, IdleAwaits
    <3> QED BY <3>1, <3>3, StartViewportAwaits
  <2>8. CASE ~p.v.vpPending BY <2>5, <2>6, <2>8
  <2> QED BY <2>7, <2>8
<1> QED BY <1>1, <1>2

\* on_result, of a load: the load has ended, or another one has begun.
LEMMA OnPageAwaits ==
  ASSUME NEW w, NEW k, NEW r, r.kind = "load", InHand(w, r, k) PROVE Awaits(OnPage(w, r), k)
<1>0. "redirects" \notin Waitings \cup {"closed", "asking"}
      /\ "opened" \notin Waitings \cup {"closed", "asking"}
  BY DEF Waitings
<1>1. CASE ~r.cur BY <1>1, InHandAwaits DEF OnPage
<1>2. ASSUME NEW x, Attends(x), k # "load" => Awaits(x, k),
             NEW o, o = [x EXCEPT !.v = [x.v EXCEPT !["loading"] = FALSE]]
      PROVE  Awaits(o, k)
  <2>1. CASE k = "load"
    <3>1. Stake("loading", k)
      BY <2>1 DEF Stake
    <3> QED BY <1>2, <3>1, LowerAwaits
  <2>2. CASE k # "load"
    <3>1. ~Stake("loading", k) /\ "loading" \notin {"closed", "asking"}
      BY <2>2 DEF Stake
    <3> QED BY <1>2, <2>2, <3>1, FieldAwaits
  <2> QED BY <2>1, <2>2
<1>3. Attends(w) /\ (k # "load" => Awaits(w, k))
  BY InHandAwaits DEF InHand
<1>4. CASE r.cur /\ r.outcome = "fail"
  <2>1. PICK o : o = [w EXCEPT !.v.loading = FALSE] /\ OnPage(w, r) = o
    BY <1>4 DEF OnPage
  <2>2. o = [w EXCEPT !.v = [w.v EXCEPT !["loading"] = FALSE]]
    BY <2>1
  <2> QED BY <1>2, <1>3, <2>1, <2>2
<1>5. CASE r.cur /\ r.outcome # "fail" /\ r.outcome = "redirect" /\ w.v.redirects < MaxRedirects
  <2>1. PICK o : o = [w EXCEPT !.v.redirects = @ + 1] /\ OnPage(w, r) = DoLoad(o)
    BY <1>5 DEF OnPage
  <2>2. o = [w EXCEPT !.v = [w.v EXCEPT !["redirects"] = w.v.redirects + 1]]
    BY <2>1
  <2>3. Awaits(w, "none")
    BY <1>3, AwaitsNone
  <2>4. Awaits(o, "none")
    BY <1>0, <2>2, <2>3, IdleAwaits
  <2>5. Attends(o)
    BY <2>4, AwaitsNone
  <2> QED BY <2>1, <2>5, DoLoadAwaits
<1>6. CASE r.cur /\ r.outcome # "fail" /\ ~(r.outcome = "redirect" /\ w.v.redirects < MaxRedirects)
  <2>1. PICK o : /\ o = [w EXCEPT !.v = [@ EXCEPT !.redirects = 0, !.opened = TRUE, !.loading = FALSE]]
                 /\ OnPage(w, r) = RequestRender(MaybeUpdateViewport(ScrollTo(o, 0)))
    BY <1>6 DEF OnPage
  <2>2. PICK a, b : /\ a = [w EXCEPT !.v = [w.v EXCEPT !["redirects"] = 0]]
                    /\ b = [a EXCEPT !.v = [a.v EXCEPT !["opened"] = TRUE]]
    OBVIOUS
  <2>3. ASSUME NEW x, Awaits(w, x) PROVE Awaits(b, x)
    <3>1. Awaits(a, x)
      BY <1>0, <2>2, <2>3, IdleAwaits
    <3> QED BY <1>0, <2>2, <3>1, IdleAwaits
  <2>4. Attends(b) /\ (k # "load" => Awaits(b, k))
    BY <1>3, <2>3, AwaitsNone
  <2>5. o = [b EXCEPT !.v = [b.v EXCEPT !["loading"] = FALSE]]
    <3>1. "v" \in DOMAIN w
      BY <1>3 DEF Attends, IsWorld
    <3> QED BY <2>1, <2>2, <3>1
  <2>6. Awaits(o, k)
    BY <1>2, <2>4, <2>5
  <2>7. Awaits(ScrollTo(o, 0), k)
    BY <2>6, ScrollToAwaits
  <2>8. Awaits(MaybeUpdateViewport(ScrollTo(o, 0)), k)
    BY <2>7, MaybeUpdateViewportAwaits
  <2> QED BY <2>1, <2>8, RequestRenderAwaits
<1> QED BY <1>1, <1>4, <1>5, <1>6

\* on_result, for an open view.
LEMMA OnResultAwaits ==
  ASSUME NEW w, NEW k, ~w.v.closed, NEW r, r.kind \in Results, k \notin Results \ Heavy,
         InHand(w, r, k)
  PROVE  Awaits(OnResult(w, r), k)
<1>1. CASE r.kind = "load"
  <2>1. OnResult(w, r) = OnPage(w, r) BY <1>1 DEF OnResult
  <2> QED BY <1>1, <2>1, OnPageAwaits
<1>2. CASE r.kind = "render"
  <2>1. OnResult(w, r) = OnFrame(w, r) BY <1>2 DEF OnResult
  <2> QED BY <1>2, <2>1, OnFrameAwaits
<1>3. CASE r.kind = "viewport"
  <2>1. OnResult(w, r) = OnViewport(w, r) BY <1>3 DEF OnResult
  <2> QED BY <1>3, <2>1, OnViewportAwaits
<1>4. CASE r.kind \in Results \ Heavy
  <2>1. Awaits(w, k)
    BY <1>4, InHandAwaits
  <2>2. Attends(w)
    BY <2>1 DEF Awaits
  <2>3. \/ OnResult(w, r) = OnWake(w) \/ OnResult(w, r) = DoLoad(w)
        \/ OnResult(w, r) = RequestRender(w) \/ OnResult(w, r) = w
    BY <1>4 DEF OnResult, OnClick, OnRelease, Results, Heavy
  <2>4. Awaits(OnWake(w), k)
    <3>1. CASE ~w.v.opened BY <2>1, <3>1 DEF OnWake
    <3>2. CASE w.v.opened
      <4>1. PICK o : o = [w EXCEPT !.v.armed = TRUE] /\ OnWake(w) = o
        BY <3>2 DEF OnWake
      <4>2. o = [w EXCEPT !.v = [w.v EXCEPT !["armed"] = TRUE]]
            /\ "armed" \notin Waitings \cup {"closed", "asking"}
        BY <4>1 DEF Waitings
      <4>3. Awaits(o, k)
        BY <2>1, <4>2, IdleAwaits
      <4> QED BY <4>1, <4>3
    <3> QED BY <3>1, <3>2
  <2> QED BY <2>1, <2>2, <2>3, <2>4, DoLoadAwaits, RequestRenderAwaits
<1> QED BY <1>1, <1>2, <1>3, <1>4 DEF Results, Heavy

\* The next result is in hand.
LEMMA PoppedInHand ==
  ASSUME NEW x, NEW k, Awaits(x, k), x.idles # <<>>,
         NEW w, w = [x EXCEPT !.idles = Tail(@)], NEW r, r = Head(x.idles)
  PROVE  InHand(w, r, k)
<1>1. IsWorld(x) /\ {"v", "jobs", "idles", "refs"} \subseteq DOMAIN x
      /\ ~x.v.closed /\ Waitings \subseteq DOMAIN x.v
  BY DEF Awaits, Attends, IsWorld
<1>2. PICK p, q : p = x.idles /\ p # <<>> /\ IsQueue(p, Results) /\ q = Tail(p) /\ Dated(p)
  BY <1>1 DEF IsWorld, Awaits, Attends
<1>3. w.v = x.v /\ w.jobs = x.jobs /\ w.refs = x.refs /\ w.idles = q /\ DOMAIN w = DOMAIN x
  BY <1>1, <1>2
<1>l. PICK l : l = Len(p)
  OBVIOUS
<1>4. /\ l = Len(p) /\ l \in Nat \ {0} /\ Len(q) = l - 1 /\ r = p[1]
      /\ \A i \in 1..(l - 1) : q[i] = p[i + 1]
  <2>1. /\ Len(p) \in Nat \ {0} /\ Len(Tail(p)) = Len(p) - 1 /\ Head(p) = p[1]
        /\ \A i \in 1..Len(Tail(p)) : Tail(p)[i] = p[i + 1]
    BY <1>2, Tailed
  <2>2. r = Head(p)
    BY <1>2
  <2> QED BY <1>2, <1>l, <2>1, <2>2
<1>5. \A i \in 1..l : i = 1 \/ (i - 1 \in 1..(l - 1) /\ q[i - 1] = p[i])
  BY <1>4
<1>6. \A i \in 1..(l - 1) : i + 1 \in 1..l /\ q[i] = p[i + 1]
  BY <1>4
<1>7. Attends(w)
  <2>1. IsQueue(q, Results)
    BY <1>2, TailQueue
  <2>2. IsWorld(w)
    BY <1>1, <1>3, <2>1 DEF IsWorld
  <2>3. Dated(q)
    BY <1>2, <1>4, <1>6 DEF Dated
  <2> QED BY <1>1, <1>3, <2>2, <2>3 DEF Awaits, Attends
<1>8. UnderWay(p, k) => UnderWay(q, k) \/ (r.kind = k /\ r.cur)
  BY <1>4, <1>5 DEF UnderWay
<1> QED BY <1>2, <1>3, <1>7, <1>8 DEF InHand, Awaits, Answered


-----------------------------------------------------------------------------
(* Steps, on answers *)

\* What the main loop and the engine thread owe an open view.
Promises ==
  ~view.closed =>
    /\ Waitings \subseteq DOMAIN view
    /\ \A k \in Heavy : Waits(view, k) => UnderWay(jobs, k) \/ UnderWay(idles, k)

\* As a world.
LEMMA PromisesAwait ==
  ASSUME Framed, Promises, ~view.closed
  PROVE  \E w : /\ w = World /\ w.v = view /\ w.jobs = jobs /\ w.idles = idles
                /\ Attends(w) /\ \A k \in Heavy : Awaits(w, k)
<1>1. PICK H : Fits(World, session, H)
  BY DEF Framed
<1>2. World.v = view /\ World.jobs = jobs /\ World.idles = idles
  BY DEF World
<1>3. PICK w : w = World /\ w.v = view /\ w.jobs = jobs /\ w.idles = idles
  BY <1>2
<1>4. Fits(w, session, H)
  BY <1>1, <1>3
<1>5. Dated(w.jobs) /\ Dated(w.idles)
  BY <1>4 DEF Fits, JobFits, ResultFits, Dated
<1>6. Attends(w)
  BY <1>3, <1>4, <1>5 DEF Fits, Attends, Promises
<1>7. \A k \in Heavy : Awaits(w, k)
  BY <1>3, <1>6 DEF Awaits, Answered, Promises
<1> QED BY <1>3, <1>6, <1>7

\* What a handler leaves.
LEMMA AwaitsPromises ==
  ASSUME NEW o, Attends(o), \A k \in Heavy : Awaits(o, k),
         view' = o.v, jobs' = o.jobs, idles' = o.idles
  PROVE  Promises'
BY DEF Promises, Attends, Awaits, Answered

\* No other fields that a view waits by, and no fewer messages.
LEMMA PromisesSame ==
  ASSUME Promises, ~view.closed, Waitings \subseteq DOMAIN view',
         \A f \in Waitings : view'[f] = view[f],
         \A k \in Heavy : UnderWay(jobs, k) \/ UnderWay(idles, k)
                          => UnderWay(jobs', k) \/ UnderWay(idles', k)
  PROVE  Promises'
<1>1. /\ view'.inflight = view.inflight /\ view'.vpInflight = view.vpInflight
      /\ view'.loading = view.loading /\ view'.deferred = view.deferred
  BY DEF Waitings
<1>2. \A k \in Heavy : Waits(view', k) => Waits(view, k)
  BY <1>1 DEF Waits
<1> QED BY <1>2 DEF Promises

\* The next idle.
LEMMA DeliverPromises == ASSUME Framed, Promises, Deliver PROVE Promises'
<1>w. /\ World.v = view /\ World.jobs = jobs /\ World.idles = idles
      /\ {"v", "jobs", "idles", "refs"} \subseteq DOMAIN World /\ idles # <<>>
  BY DEF World, Deliver
<1>1. PICK w, r, o : /\ w = [World EXCEPT !.idles = Tail(@)] /\ r = Head(idles)
                     /\ o = OnResult(w, r) /\ Become([o EXCEPT !.refs = @ - 1])
  BY DEF Deliver
<1>2. PICK p : p = [o EXCEPT !.refs = @ - 1] /\ Become(p)
  BY <1>1
<1>3. p.v = o.v /\ p.jobs = o.jobs /\ p.idles = o.idles
  BY <1>2
<1>4. view' = o.v /\ jobs' = o.jobs /\ idles' = o.idles
  BY <1>2, <1>3 DEF Become
<1>5. w.v = view
  BY <1>w, <1>1
<1>6. CASE view.closed
  <2>1. o = w
    BY <1>1, <1>5, <1>6 DEF OnResult
  <2>2. view'.closed
    BY <1>4, <1>5, <1>6, <2>1
  <2> QED BY <2>2 DEF Promises
<1>7. CASE ~view.closed
  <2>1. PICK H : Fits(World, session, H)
    BY <1>7 DEF Framed
  <2>2. r.kind \in Results
    BY <1>w, <1>1, <2>1, TailFits
  <2>3. PICK x : x = World /\ x.idles = idles /\ Attends(x) /\ \A k \in Heavy : Awaits(x, k)
    BY <1>7, PromisesAwait
  <2>4. w = [x EXCEPT !.idles = Tail(@)] /\ r = Head(x.idles) /\ x.idles # <<>>
    BY <1>w, <1>1, <2>3
  <2>5. ASSUME NEW k, Awaits(x, k), k \notin Results \ Heavy PROVE Awaits(o, k)
    <3>1. InHand(w, r, k)
      BY <2>4, <2>5, PoppedInHand
    <3>2. Awaits(OnResult(w, r), k)
      BY <1>5, <1>7, <2>2, <2>5, <3>1, OnResultAwaits
    <3> QED BY <1>1, <3>2
  <2>6. Attends(o)
    <3>1. "none" \notin Results \ Heavy
      BY DEF Results
    <3> QED BY <2>3, <2>5, <3>1, AwaitsNone
  <2>7. \A k \in Heavy : Awaits(o, k)
    BY <2>3, <2>5
  <2> QED BY <1>4, <2>6, <2>7, AwaitsPromises
<1> QED BY <1>6, <1>7

\* What the handlers of an open view do.
LEMMA HandlerPromises ==
  ASSUME Framed, Promises,
         \/ Load \/ Stop
         \/ \E size \in Sizes : Resize(size)
         \/ \E pos \in Scrolls : ScrollView(pos)
         \/ \E kind \in {"click", "release"} : Press(kind)
  PROVE  Promises'
<1>1. ~view.closed
  BY DEF Load, Stop, Resize, ScrollView, Press
<1>2. PICK x : /\ x = World /\ x.v = view /\ x.jobs = jobs /\ x.idles = idles
               /\ Attends(x) /\ \A k \in Heavy : Awaits(x, k)
  BY <1>1, PromisesAwait
<1>k. \A k \in Heavy \cup {"none"} : Awaits(x, k)
  BY <1>2, AwaitsNone
<1>3. ASSUME NEW STATE o, \A k \in Heavy \cup {"none"} : Awaits(o, k), Become(o) PROVE Promises'
  <2>1. Attends(o)
    BY <1>3, AwaitsNone
  <2> QED BY <1>3, <2>1, AwaitsPromises DEF Become
<1>4. CASE Load
  <2>1. \A k : Awaits(DoLoad(World), k)
    BY <1>2, DoLoadAwaits
  <2>2. Become(DoLoad(World))
    BY <1>4 DEF Load
  <2> QED BY <1>3, <2>1, <2>2
<1>5. CASE Stop
  <2>1. PICK a : a = Outdate(x, {"render"}) /\ a.v = view
    <3>1. Outdate(x, {"render"}).v = view
      BY <1>k, <1>2, OutdateAwaits
    <3> QED BY <3>1, Zenon
  <2>2. \A k \in {"none", "viewport", "load"} : Awaits(a, k)
    BY <1>k, <2>1, OutdateAwaits DEF Heavy
  <2>3. PICK o : o = [a EXCEPT !.v = Halted] /\ Become(o)
    <3>1. Become([a EXCEPT !.v = Halted])
      BY <1>2, <1>5, <2>1, Zenon DEF Stop
    <3> QED BY <3>1, Zenon
  <2>4. {"v", "jobs", "idles", "refs"} \subseteq DOMAIN a /\ Waitings \subseteq DOMAIN view
    BY <2>1, <2>2 DEF Awaits, Attends, IsWorld
  <2>5. o.v = Halted /\ o.idles = a.idles /\ o.jobs = a.jobs
    BY <2>3, <2>4
  <2>6. /\ Waitings \subseteq DOMAIN Halted /\ Halted.inflight = FALSE /\ Halted.loading = FALSE
        /\ Halted.vpInflight = view.vpInflight
    BY <2>4 DEF Halted, Waitings
  <2>7. view' = Halted /\ jobs' = a.jobs /\ idles' = a.idles
    BY <2>3, <2>5 DEF Become
  <2>8. \A k \in Heavy : Waits(view', k) => UnderWay(jobs', k) \/ UnderWay(idles', k)
    BY <2>1, <2>2, <2>6, <2>7 DEF Waits, Awaits, Answered
  <2> QED BY <2>6, <2>7, <2>8 DEF Promises
<1>6. ASSUME NEW size \in Sizes, Resize(size) PROVE Promises'
  <2>1. PICK w : w = [World EXCEPT !.v.size = size]
    OBVIOUS
  <2>2. w = [x EXCEPT !.v = [x.v EXCEPT !["size"] = size]]
        /\ "size" \notin Waitings \cup {"closed", "asking"}
    BY <1>2, <2>1 DEF Waitings
  <2>3. \A k \in Heavy \cup {"none"} : Awaits(w, k)
    BY <1>k, <2>2, IdleAwaits
  <2>4. PICK o : /\ Become(o)
                 /\ o = IF w.v.deferred /\ size > 0 THEN DoLoad([w EXCEPT !.v.deferred = FALSE])
                        ELSE IF ~w.v.opened THEN w
                        ELSE IF ViewportMoved(w.v) THEN MaybeUpdateViewport(w)
                        ELSE RequestRender(w)
    <3>1. Become(IF w.v.deferred /\ size > 0 THEN DoLoad([w EXCEPT !.v.deferred = FALSE])
                 ELSE IF ~w.v.opened THEN w
                 ELSE IF ViewportMoved(w.v) THEN MaybeUpdateViewport(w)
                 ELSE RequestRender(w))
      BY <1>6, <2>1 DEF Resize
    <3> QED BY <3>1, Zenon
  <2>5. CASE w.v.deferred /\ size > 0
    <3>1. PICK b : b = [w EXCEPT !.v.deferred = FALSE] /\ o = DoLoad(b)
      BY <2>4, <2>5
    <3>2. b = [w EXCEPT !.v = [w.v EXCEPT !["deferred"] = FALSE]]
          /\ "deferred" \notin {"closed", "asking"} /\ ~Stake("deferred", "none")
      BY <3>1 DEF Stake
    <3>3. Awaits(b, "none")
      BY <2>3, <3>2, FieldAwaits
    <3>4. Attends(b)
      BY <3>3, AwaitsNone
    <3>5. \A k : Awaits(o, k)
      BY <3>1, <3>4, DoLoadAwaits
    <3> QED BY <1>3, <2>4, <3>5
  <2>6. CASE ~(w.v.deferred /\ size > 0)
    <3>1. o = w \/ o = MaybeUpdateViewport(w) \/ o = RequestRender(w)
      BY <2>4, <2>6
    <3>2. \A k \in Heavy \cup {"none"} : Awaits(o, k)
      BY <2>3, <3>1, MaybeUpdateViewportAwaits, RequestRenderAwaits
    <3> QED BY <1>3, <2>4, <3>2
  <2> QED BY <2>5, <2>6
<1>7. ASSUME NEW pos \in Scrolls, ScrollView(pos) PROVE Promises'
  <2>1. \A k \in Heavy \cup {"none"} : Awaits(ScrollTo(World, pos), k)
    BY <1>k, <1>2, ScrollToAwaits
  <2>2. Become(ScrollTo(World, pos))
    BY <1>7 DEF ScrollView
  <2> QED BY <1>3, <2>1, <2>2
<1>8. ASSUME NEW kind \in {"click", "release"}, Press(kind) PROVE Promises'
  <2>1. PICK a : a = IF kind = "click" THEN Outdate(x, {"click"}) ELSE x
    OBVIOUS
  <2>2. \A k \in Heavy \cup {"none"} : Awaits(a, k) /\ k # "click"
    BY <1>k, <2>1, OutdateAwaits DEF Heavy
  <2>3. PICK req, o : /\ Become(o) /\ o = PushReq(a, req) /\ IsMessage(req, Requests)
                      /\ "cur" \in DOMAIN req
    <3> DEFINE req == [kind |-> kind, cur |-> TRUE, by |-> view.load]
    <3>1. Become(PushReq(a, req))
      BY <1>2, <1>8, <2>1 DEF Press
    <3>2. IsMessage(req, Requests) /\ "cur" \in DOMAIN req
      BY <1>8 DEF IsMessage, Requests
    <3> QED BY <3>1, <3>2
  <2>4. \A k \in Heavy \cup {"none"} : Awaits(o, k)
    <3>1. Attends(a)
      BY <2>2, AwaitsNone
    <3> QED BY <2>2, <2>3, <3>1, PushReqAwaits
  <2> QED BY <1>3, <2>3, <2>4
<1> QED BY <1>4, <1>5, <1>6, <1>7, <1>8

\* A tick of the frame clock.
LEMMA TickPromises == ASSUME Framed, Promises, AnimTick PROVE Promises'
<1>w. /\ World.v = view /\ World.jobs = jobs /\ World.idles = idles /\ IsWorld(World)
      /\ {"closed", "asking"} \subseteq DOMAIN view
  BY DEF World, Framed, Counted, IsWorld
<1>1. PICK o : /\ Become(o)
               /\ o = IF view.closed \/ ~view.opened THEN [World EXCEPT !.v.armed = FALSE]
                      ELSE RequestRender(World)
  BY DEF AnimTick
<1>2. CASE view.closed
  <2>1. o.v = [view EXCEPT !.armed = FALSE]
    BY <1>w, <1>1, <1>2 DEF IsWorld
  <2>2. view'.closed
    BY <1>w, <1>1, <1>2, <2>1 DEF Become
  <2> QED BY <2>2 DEF Promises
<1>3. CASE ~view.closed
  <2>1. PICK x : x = World /\ x.v = view /\ Attends(x) /\ \A k \in Heavy : Awaits(x, k)
    BY <1>3, PromisesAwait
  <2>2. ASSUME NEW k, Awaits(x, k) PROVE Awaits(o, k)
    <3>1. CASE view.opened
      <4>1. o = RequestRender(x)
        BY <1>1, <1>3, <2>1, <3>1
      <4> QED BY <2>2, <4>1, RequestRenderAwaits
    <3>2. CASE ~view.opened
      <4>1. o = [x EXCEPT !.v = [x.v EXCEPT !["armed"] = FALSE]]
            /\ "armed" \notin Waitings \cup {"closed", "asking"}
        BY <1>1, <2>1, <3>2 DEF Waitings
      <4> QED BY <2>2, <4>1, IdleAwaits
    <3> QED BY <3>1, <3>2
  <2>3. Attends(o) /\ \A k \in Heavy : Awaits(o, k)
    BY <2>1, <2>2, AwaitsNone
  <2> QED BY <1>1, <2>3, AwaitsPromises DEF Become
<1> QED BY <1>2, <1>3

\* The file dialog of view_save.
LEMMA AskSavePromises == ASSUME Framed, Promises, AskSave PROVE Promises'
<1>0. ~view.closed
  BY DEF AskSave
<1>1. PICK x : x = World /\ x.v = view /\ x.jobs = jobs /\ x.idles = idles /\ Attends(x)
  BY <1>0, PromisesAwait
<1>2. {"v", "jobs", "idles", "refs"} \subseteq DOMAIN x /\ Waitings \subseteq DOMAIN view
  BY <1>1 DEF Attends, IsWorld
<1>3. PICK o : o = [x EXCEPT !.v.asking = TRUE, !.refs = @ + 1] /\ Become(o)
  BY <1>1 DEF AskSave
<1>4. o.v = [view EXCEPT !.asking = TRUE] /\ o.jobs = jobs /\ o.idles = idles
  BY <1>1, <1>2, <1>3
<1>5. view' = [view EXCEPT !.asking = TRUE] /\ jobs' = jobs /\ idles' = idles
  BY <1>3, <1>4 DEF Become
<1>6. Waitings \subseteq DOMAIN view' /\ \A f \in Waitings : view'[f] = view[f]
  BY <1>2, <1>5 DEF Waitings
<1> QED BY <1>0, <1>5, <1>6, PromisesSame

\* Its answer, which may ask for an export.
LEMMA SaveAnsweredPromises ==
  ASSUME Framed, Promises, NEW chosen \in BOOLEAN, SaveAnswered(chosen)
  PROVE  Promises'
<1>w. /\ World.v = view /\ World.jobs = jobs /\ World.idles = idles
      /\ {"v", "jobs", "idles", "refs"} \subseteq DOMAIN World /\ IsWorld(World)
      /\ {"closed", "asking"} \subseteq DOMAIN view
  BY DEF World, Framed, Counted, IsWorld
<1>1. PICK w : w = [World EXCEPT !.v.asking = FALSE]
  OBVIOUS
<1>2. PICK req, o : /\ o = IF chosen /\ w.v.opened THEN PushReq(w, req) ELSE w
                    /\ Become([o EXCEPT !.refs = @ - 1])
  BY <1>1 DEF SaveAnswered
<1>3. /\ w.v = [view EXCEPT !.asking = FALSE] /\ w.jobs = jobs /\ w.idles = idles
      /\ w.refs = World.refs /\ DOMAIN w = DOMAIN World
  BY <1>w, <1>1
<1>4. o.v = w.v /\ o.idles = w.idles /\ (o.jobs = w.jobs \/ o.jobs = Append(w.jobs, req))
  BY <1>w, <1>2, <1>3 DEF PushReq
<1>5. PICK p : p = [o EXCEPT !.refs = @ - 1] /\ Become(p)
  BY <1>2
<1>6. p.v = o.v /\ p.jobs = o.jobs /\ p.idles = o.idles
  BY <1>5
<1>7. /\ view' = [view EXCEPT !.asking = FALSE] /\ idles' = idles
      /\ jobs' = jobs \/ jobs' = Append(jobs, req)
  BY <1>3, <1>4, <1>5, <1>6 DEF Become
<1>8. CASE view.closed
  <2>1. view'.closed
    BY <1>w, <1>7, <1>8
  <2> QED BY <2>1 DEF Promises
<1>9. CASE ~view.closed
  <2>1. Waitings \subseteq DOMAIN view
    BY <1>9 DEF Promises
  <2>2. Waitings \subseteq DOMAIN view' /\ \A f \in Waitings : view'[f] = view[f]
    BY <1>7, <2>1 DEF Waitings
  <2>3. IsQueue(jobs, Requests)
    BY <1>w DEF IsWorld
  <2>4. \A k \in Heavy : UnderWay(jobs, k) => UnderWay(jobs', k)
    BY <1>7, <2>3, AppendUnderWay
  <2> QED BY <1>7, <1>9, <2>2, <2>4, PromisesSame
<1> QED BY <1>8, <1>9

\* The widget goes.
LEMMA DestroyPromises == ASSUME Framed, Destroy PROVE Promises'
<1>w. /\ World.v = view /\ {"v", "jobs", "idles", "refs"} \subseteq DOMAIN World
      /\ {"closed", "asking"} \subseteq DOMAIN view
  BY DEF World, Framed, Counted, IsWorld
<1>1. PICK w : w = [World EXCEPT !.v.closed = TRUE, !.v.armed = FALSE]
  OBVIOUS
<1>2. PICK req, o : /\ req = [kind |-> "close", cur |-> TRUE] /\ o = PushReq(w, req)
                    /\ Become([o EXCEPT !.refs = @ - 1])
  BY <1>1 DEF Destroy
<1>3. w.v.closed = TRUE /\ {"v", "jobs", "idles", "refs"} \subseteq DOMAIN w
  BY <1>w, <1>1
<1>4. o.v = w.v
  BY <1>2, <1>3 DEF PushReq
<1>5. PICK p : p = [o EXCEPT !.refs = @ - 1] /\ Become(p)
  BY <1>2
<1>6. view'.closed
  BY <1>3, <1>4, <1>5 DEF Become
<1> QED BY <1>6 DEF Promises


\* A job leaves its answer with the results.
LEMMA JobPromises ==
  ASSUME Framed, Promises, jobs # <<>>, NEW m, IsMessage(m, Results), Finish(<<m>>),
         Head(jobs).kind \in Heavy => m.kind = Head(jobs).kind /\ m.cur = Head(jobs).cur
  PROVE  Promises'
<1>1. view' = view /\ jobs' = Tail(jobs)
  BY DEF Finish
<1>2. IsQueue(jobs, Requests) /\ IsQueue(idles, Results)
  <2>1. World.jobs = jobs /\ World.idles = idles /\ IsWorld(World)
    BY DEF World, Framed, Counted
  <2> QED BY <2>1 DEF IsWorld
<1>3. PICK a, u : /\ a = Append(idles, m) /\ IsQueue(a, Results)
                  /\ u.kind = "unref" /\ idles' = Append(a, u)
  BY <1>2, FinishAppends
<1>4. \A k : UnderWay(idles, k) \/ (m.kind = k /\ m.cur) => UnderWay(idles', k)
  <2>1. \A k : UnderWay(idles, k) \/ (m.kind = k /\ m.cur) => UnderWay(a, k)
    BY <1>2, <1>3, AppendUnderWay
  <2>2. \A k : UnderWay(a, k) => UnderWay(idles', k)
    BY <1>3, AppendUnderWay
  <2> QED BY <2>1, <2>2
<1>5. ASSUME NEW k \in Heavy, UnderWay(jobs, k)
      PROVE  UnderWay(jobs', k) \/ (m.kind = k /\ m.cur)
  <2>1. PICK i \in 1..Len(jobs) : jobs[i].kind = k /\ jobs[i].cur
    BY <1>5 DEF UnderWay
  <2>2. /\ Len(jobs) \in Nat \ {0} /\ Len(Tail(jobs)) = Len(jobs) - 1
        /\ \A x \in 1..Len(Tail(jobs)) : Tail(jobs)[x] = jobs[x + 1]
        /\ Head(jobs) = jobs[1]
    BY <1>2, Tailed
  <2>3. CASE i = 1
    BY <1>5, <2>1, <2>2, <2>3
  <2>4. CASE i # 1
    <3>1. i - 1 \in 1..Len(Tail(jobs)) /\ Tail(jobs)[i - 1] = jobs[i]
      BY <2>2, <2>4
    <3> QED BY <1>1, <2>1, <3>1 DEF UnderWay
  <2> QED BY <2>3, <2>4
<1>6. CASE view.closed
  BY <1>1, <1>6 DEF Promises
<1>7. CASE ~view.closed
  <2>1. Waitings \subseteq DOMAIN view
    BY <1>7 DEF Promises
  <2> QED BY <1>1, <1>4, <1>5, <1>7, <2>1, PromisesSame
<1> QED BY <1>6, <1>7

\* The engine thread's jobs: the answer of a request is as current as it is.
LEMMA RunJobPromises == ASSUME Framed, Rested, Promises, RunJob PROVE Promises'
<1>0. jobs # <<>> /\ view' = view
  BY DEF RunJob, RunLoad, RunRender, RunViewport, RunPress, RunExport, RunClose, Finish
<1>1. CASE view.closed
  BY <1>0, <1>1 DEF Promises
<1>2. CASE ~view.closed
  <2>1. PICK j : j = Head(jobs)
    OBVIOUS
  <2>2. PICK H : Fits(World, session, H)
    BY <1>2 DEF Framed
  <2>3. JobFits(j, view.load, view.opened)
    BY <1>0, <1>2, <2>1, <2>2, JobHead
  <2>4. ASSUME NEW m, IsMessage(m, Results), Finish(<<m>>),
               j.kind \in Heavy => m.kind = j.kind /\ m.cur = j.cur
        PROVE  Promises'
    BY <1>0, <2>1, <2>4, JobPromises
  <2>5. ASSUME NEW outcome \in {"ok", "fail", "redirect"}, j.kind = "load", RunLoad(j, outcome)
        PROVE  Promises'
    <3>1. PICK m : m = [kind |-> "load", cur |-> j.cur, load |-> j.load, outcome |-> outcome]
      OBVIOUS
    <3>2. IsMessage(m, Results) /\ Finish(<<m>>) /\ m.kind = "load" /\ m.cur = j.cur
      BY <2>5, <3>1 DEF IsMessage, Results, RunLoad
    <3> QED BY <2>4, <2>5, <3>2
  <2>6. ASSUME j.kind = "render", RunRender(j) PROVE Promises'
    <3>1. PICK s : s = IF j.full THEN InvalidateFrame(Session) ELSE Session
      OBVIOUS
    <3>2. CASE s.page = None
      <4>1. PICK m : m = [kind |-> "render", cur |-> j.cur, ok |-> FALSE]
        OBVIOUS
      <4>2. Finish(<<m>>)
        BY <2>6, <3>1, <3>2, <4>1 DEF RunRender
      <4>3. m.kind = "render" /\ m.cur = j.cur /\ IsMessage(m, Results)
        BY <4>1 DEF IsMessage, Results
      <4> QED BY <2>4, <2>6, <4>2, <4>3
    <3>3. CASE s.page # None
      <4>1. RenderOf(s, j).r.kind = "render" /\ RenderOf(s, j).r.cur = j.cur
        BY DEF RenderOf
      <4>2. PICK t, m : t = RenderOf(s, j).s /\ m = RenderOf(s, j).r
        OBVIOUS
      <4>3. Finish(<<m>>)
        BY <2>6, <3>1, <3>3, <4>2 DEF RunRender
      <4>4. IsMessage(m, Results)
        <5>1. SessionFresh(s)
          BY <1>2, <3>1, JobStarts DEF Moves
        <5>2. Draws(s, j, t, m)
          BY <4>2, <5>1, RenderOfFresh
        <5> QED BY <4>1, <4>2, <5>2 DEF Draws, IsMessage, Results
      <4> QED BY <2>4, <2>6, <4>1, <4>2, <4>3, <4>4
    <3> QED BY <3>2, <3>3
  <2>7. ASSUME j.kind = "viewport", RunViewport(j) PROVE Promises'
    <3>1. PICK m : m = [kind |-> "viewport", cur |-> j.cur, ok |-> Session.page # None]
      OBVIOUS
    <3>2. Finish(<<m>>) /\ m.kind = "viewport" /\ m.cur = j.cur /\ IsMessage(m, Results)
      BY <2>7, <3>1 DEF RunViewport, IsMessage, Results
    <3> QED BY <2>4, <2>7, <3>2
  <2>8. ASSUME NEW effect \in {"none", "draw", "nav"}, j.kind \in {"click", "release"},
               RunPress(j, effect)
        PROVE  Promises'
    <3>1. PICK m : m = [kind |-> j.kind, cur |-> j.cur, by |-> j.by, href |-> effect = "nav",
                        changed |-> effect = "draw"]
      OBVIOUS
    <3>2. Finish(<<m>>) /\ IsMessage(m, Results) /\ j.kind \notin Heavy
      BY <2>8, <3>1 DEF RunPress, IsMessage, Results, Heavy
    <3> QED BY <2>4, <3>2
  <2>9. ASSUME j.kind = "export", RunExport PROVE Promises'
    <3>1. PICK m : m = [kind |-> "export", cur |-> TRUE]
      OBVIOUS
    <3>2. Finish(<<m>>) /\ IsMessage(m, Results) /\ j.kind \notin Heavy
      BY <2>9, <3>1 DEF RunExport, IsMessage, Results, Heavy
    <3> QED BY <2>4, <3>2
  <2>10. j.kind # "close"
    BY <2>3 DEF JobFits
  <2> QED BY <1>0, <2>1, <2>5, <2>6, <2>7, <2>8, <2>9, <2>10 DEF RunJob
<1> QED BY <1>1, <1>2

\* session_wake_dispatch
LEMMA SessionWakePromises == ASSUME Framed, Promises, SessionWake PROVE Promises'
<1>1. view' = view /\ jobs' = jobs
  BY DEF SessionWake
<1>2. PICK m : idles' = Append(idles, m)
  BY DEF SessionWake
<1>3. IsQueue(idles, Results)
  <2>1. World.idles = idles /\ IsWorld(World)
    BY DEF World, Framed, Counted
  <2> QED BY <2>1 DEF IsWorld
<1>4. \A k : UnderWay(idles, k) => UnderWay(idles', k)
  BY <1>2, <1>3, AppendUnderWay
<1> QED BY <1>1, <1>4 DEF Promises

\* At the start the view waits for nothing.
LEMMA PromisesInit == ASSUME ViewInit PROVE Promises
<1>1. PICK size \in Sizes :
        view = [opened |-> FALSE, loading |-> FALSE, closed |-> FALSE, load |-> 0,
                redirects |-> 0, deferred |-> FALSE, size |-> size, lastVp |-> 0,
                scroll |-> 0, frame |-> NoFrame, forceFull |-> FALSE,
                armed |-> FALSE, inflight |-> FALSE, pending |-> FALSE,
                vpInflight |-> FALSE, vpPending |-> FALSE, asking |-> FALSE,
                stopped |-> FALSE]
  BY DEF ViewInit
<1>2. Waitings \subseteq DOMAIN view /\ ~view.inflight /\ ~view.vpInflight /\ ~view.loading
  BY <1>1 DEF Waitings
<1> QED BY <1>2 DEF Promises, Waits

\* The invariant is inductive.
LEMMA PromisesStep == ASSUME Framed, Rested, Promises, [ViewNext]_vars PROVE Promises'
<1>1. CASE User
  BY <1>1, HandlerPromises, AskSavePromises, SaveAnsweredPromises, DestroyPromises DEF User
<1>2. CASE AnimTick BY <1>2, TickPromises
<1>3. CASE Deliver BY <1>3, DeliverPromises
<1>4. CASE RunJob BY <1>4, RunJobPromises
<1>5. CASE SessionWake BY <1>5, SessionWakePromises
<1>6. CASE PageWork
  BY <1>6 DEF PageWork, PageStep, Promises
<1>7. CASE UNCHANGED vars
  BY <1>7 DEF vars, Promises
<1> QED BY <1>1, <1>2, <1>3, <1>4, <1>5, <1>6, <1>7 DEF ViewNext

\* No view waits in vain: while one that is not closed has a render or a change of
\* the viewport in flight, or loads a page it did not have to put off, a request
\* or a result that carries its number of the moment is under way, so that the
\* handler which ends the waiting is still to run.  Without it a lost or outdated
\* answer would leave the page frozen, or its throbber spinning, for good.
NothingAwaitedInVain ==
  ~view.closed =>
    /\ view.inflight => Answered(World, "render")
    /\ view.vpInflight => Answered(World, "viewport")
    /\ view.loading /\ ~view.deferred => Answered(World, "load")

\* push_req and on_result keep the flags of the view and what is under way in step.
THEOREM AnswersAreUnderWay == ViewSpec => []NothingAwaitedInVain
<1>1. ViewInit => Framed /\ Rested /\ Promises
  BY FramedInit, RestedInit, PromisesInit
<1>2. Framed /\ Rested /\ Promises /\ [ViewNext]_vars => (Framed /\ Rested /\ Promises)'
  BY FramedStep, RestedStep, PromisesStep
<1>3. Promises => NothingAwaitedInVain
  BY DEF Promises, NothingAwaitedInVain, Waits, Heavy, Answered, World
<1> QED BY <1>1, <1>2, <1>3, PTL DEF ViewSpec

=============================================================================
