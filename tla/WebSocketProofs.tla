-------------------------- MODULE WebSocketProofs --------------------------
(***************************************************************************)
(* What holds of a WebSocket for any limit of the backlog and any number   *)
(* of messages: its references and its backlog are counted right, script   *)
(* learns of the close, and the wire has what was accepted, in order.  The *)
(* worker that is waited for gets nearer to its end with each step.        *)
(***************************************************************************)
EXTENDS WebSocket, TLAPS

WorkerPcs == {"connect", "opening", "loop", "drain", "recv", "ending",
              "closing", "closed", "done"}
WorkerRec == [pc : WorkerPcs, clean : BOOLEAN]

IsSeq(q) == \E S : q \in Seq(S)
IsConn(c) ==
  /\ c = [state |-> c.state, out |-> c.out, refs |-> c.refs, pending |-> c.pending,
          exit |-> c.exit, detached |-> c.detached]
  /\ c.refs \in Int /\ c.pending \in Int
IsPage(p) ==
  p = [pc |-> p.pc, readyState |-> p.readyState, pinned |-> p.pinned, busy |-> p.busy,
       pumps |-> p.pumps]

\* The records have their fields, and the counts are integers.
Shape ==
  /\ IsConn(conn) /\ worker \in WorkerRec /\ IsPage(page)
  /\ IsSeq(idles) /\ IsSeq(timers)

\* How far the events that are never dropped can take the backlog over its
\* limit depends on how many of them the worker has posted.
Backlog ==
  /\ conn.pending = Len(idles) + Len(timers)
  /\ conn.pending <= MaxPending + 2
  /\ worker.pc \in {"connect", "opening"} => conn.pending = 0
  /\ worker.pc \in {"loop", "drain", "recv"} => conn.pending <= MaxPending
  /\ worker.pc \in {"ending", "closing"} => conn.pending <= MaxPending + 1

SocketInv == Shape /\ SocketRefs /\ Backlog

-----------------------------------------------------------------------------
\* What the queues need to know about sequences of anything.
LEMMA SeqAppend ==
  ASSUME NEW q, IsSeq(q), NEW e
  PROVE  IsSeq(Append(q, e)) /\ Len(Append(q, e)) = Len(q) + 1 /\ Len(q) \in Nat
<1>1. PICK S : q \in Seq(S)
  BY DEF IsSeq
<1>2. q \in Seq(S \cup {e}) /\ e \in S \cup {e}
  BY <1>1
<1>3. Append(q, e) \in Seq(S \cup {e}) /\ Len(Append(q, e)) = Len(q) + 1
  BY <1>2
<1> QED BY <1>1, <1>3 DEF IsSeq

LEMMA SeqTail ==
  ASSUME NEW q, IsSeq(q), q # <<>>
  PROVE  IsSeq(Tail(q)) /\ Len(Tail(q)) = Len(q) - 1 /\ Len(q) \in Nat
<1>1. PICK S : q \in Seq(S)
  BY DEF IsSeq
<1>2. Tail(q) \in Seq(S) /\ Len(Tail(q)) = Len(q) - 1 /\ Len(q) \in Nat
  BY <1>1
<1> QED BY <1>2 DEF IsSeq

LEMMA SeqLen == ASSUME NEW q, IsSeq(q) PROVE Len(q) \in Nat
BY DEF IsSeq

\* Giving a connection another field leaves it one, and its counts as they are.
Keeps(c, d) == IsConn(d) /\ d.refs = c.refs /\ d.pending = c.pending
LEMMA ConnField ==
  ASSUME NEW c, IsConn(c), NEW v
  PROVE  /\ Keeps(c, [c EXCEPT !.state = v])
         /\ Keeps(c, [c EXCEPT !.out = v])
         /\ Keeps(c, [c EXCEPT !.detached = v])
         /\ Keeps(c, [c EXCEPT !.exit = v])
<1>1. Keeps(c, [c EXCEPT !.state = v])
  BY DEF IsConn, Keeps
<1>2. Keeps(c, [c EXCEPT !.out = v])
  BY DEF IsConn, Keeps
<1>3. Keeps(c, [c EXCEPT !.detached = v])
  BY DEF IsConn, Keeps
<1>4. Keeps(c, [c EXCEPT !.exit = v])
  BY DEF IsConn, Keeps
<1> QED BY <1>1, <1>2, <1>3, <1>4

\* So do two fields at once.
LEMMA ConnFields ==
  ASSUME NEW c, IsConn(c), NEW v, NEW w
  PROVE  /\ Keeps(c, [c EXCEPT !.out = v, !.state = w])
         /\ Keeps(c, [c EXCEPT !.detached = v, !.exit = w])
<1>1. Keeps(c, [c EXCEPT !.out = v, !.state = w])
  <2>1. PICK d : d = [c EXCEPT !.out = v] /\ Keeps(c, d)
    BY ConnField
  <2>2. IsConn(d)
    BY <2>1 DEF Keeps
  <2>3. Keeps(d, [d EXCEPT !.state = w])
    BY <2>2, ConnField
  <2> QED BY <2>1, <2>3 DEF Keeps
<1>2. Keeps(c, [c EXCEPT !.detached = v, !.exit = w])
  <2>1. PICK d : d = [c EXCEPT !.detached = v] /\ Keeps(c, d)
    BY ConnField
  <2>2. IsConn(d)
    BY <2>1 DEF Keeps
  <2>3. Keeps(d, [d EXCEPT !.exit = w])
    BY <2>2, ConnField
  <2> QED BY <2>1, <2>3 DEF Keeps
<1> QED BY <1>1, <1>2

\* Counting references and posts changes the counts and nothing else.
LEMMA CountRefs ==
  ASSUME NEW c, IsConn(c), NEW d, NEW r \in Int, d = [c EXCEPT !.refs = r]
  PROVE  IsConn(d) /\ d.refs = r /\ d.pending = c.pending
BY DEF IsConn
-----------------------------------------------------------------------------
\* A post of e changes nothing, or adds one reference and one to the backlog.
Outcome(e, droppable) ==
  \/ conn' = conn /\ idles' = idles
  \/ /\ IsConn(conn') /\ conn'.refs = conn.refs + 1 /\ conn'.pending = conn.pending + 1
     /\ idles' = Append(idles, e)
     /\ droppable => conn.pending < MaxPending

\* ns_ws_post has one of these outcomes.
LEMMA PostEffect ==
  ASSUME Shape, NEW STATE n, NEW STATE e, NEW droppable \in BOOLEAN,
         Posted(conn, n, e, droppable)
  PROVE  Outcome(e, droppable)
<1>1. CASE conn.detached \/ (droppable /\ conn.pending >= MaxPending)
  BY <1>1 DEF Posted, Post, Outcome
<1>2. CASE ~(conn.detached \/ (droppable /\ conn.pending >= MaxPending))
  <2>1. PICK b : b = [conn EXCEPT !.refs = conn.refs + 1]
    OBVIOUS
  <2>2. IsConn(b) /\ b.refs = conn.refs + 1
    BY <2>1, CountRefs DEF Shape, IsConn
  <2>3. PICK c, q : /\ Post(conn, idles, e, droppable) = <<c, q>>
                    /\ c = [b EXCEPT !.pending = conn.pending + 1]
                    /\ q = Append(idles, e)
    BY <1>2, <2>1 DEF Post
  <2>4. conn' = c /\ idles' = q
    BY <2>3 DEF Posted
  <2>5. conn.pending \in Int /\ (droppable => conn.pending < MaxPending)
    BY <1>2, SocketAssumption DEF Shape, IsConn
  <2>6. IsConn(c) /\ c.refs = conn.refs + 1 /\ c.pending = conn.pending + 1
    BY <2>2, <2>3, <2>5 DEF IsConn
  <2> QED BY <2>3, <2>4, <2>5, <2>6 DEF Outcome
<1> QED
  BY <1>1, <1>2

\* At the start the page and the worker hold the socket, and nothing is posted.
LEMMA InitInv == SocketInit => SocketInv
<1> SUFFICES ASSUME SocketInit PROVE SocketInv
  OBVIOUS
<1>1. IsSeq(<<>>)
  <2>1. <<>> \in Seq({})
    OBVIOUS
  <2> QED BY <2>1 DEF IsSeq
<1>2. IsConn(conn)
  BY DEF SocketInit, IsConn
<1>3. worker \in WorkerRec /\ IsPage(page)
  BY DEF SocketInit, WorkerRec, WorkerPcs, IsPage
<1>4. Shape
  BY <1>1, <1>2, <1>3 DEF SocketInit, Shape
<1>5. Len(idles) = 0 /\ Len(timers) = 0
  BY DEF SocketInit
<1>6. SocketRefs
  BY <1>5 DEF SocketInit, SocketRefs, Held
<1>7. Backlog
  BY <1>5, SocketAssumption DEF SocketInit, Backlog
<1> QED BY <1>4, <1>6, <1>7 DEF SocketInv

-----------------------------------------------------------------------------
\* The worker moves on without a post, and keeps its reference.
LEMMA WorkerMoves ==
  ASSUME SocketInv,
         timers' = timers, page' = page, idles' = idles,
         IsConn(conn'),
         worker' \in WorkerRec,
         conn'.pending = conn.pending,
         conn'.refs = conn.refs + Held(worker'.pc # "done") - Held(worker.pc # "done"),
         worker'.pc \in {"connect", "opening"} => conn.pending = 0,
         worker'.pc \in {"loop", "drain", "recv"} => conn.pending <= MaxPending,
         worker'.pc \in {"ending", "closing"} => conn.pending <= MaxPending + 1
  PROVE  SocketInv'
BY DEF SocketInv, Shape, SocketRefs, Backlog, Held

\* The worker moves on with a post.
LEMMA WorkerPosts ==
  ASSUME SocketInv, NEW STATE e, NEW droppable \in BOOLEAN,
         NEW pc \in WorkerPcs \ {"done"},
         Outcome(e, droppable), worker' = [worker EXCEPT !.pc = pc],
         timers' = timers, page' = page,
         worker.pc # "done",
         pc \in {"connect", "opening"} => FALSE,
         pc \in {"loop", "drain", "recv"} =>
           worker.pc \in {"connect", "opening"} \/ (droppable /\ worker.pc = "recv"),
         pc \in {"ending", "closing"} => worker.pc \in {"connect", "opening", "loop", "drain", "recv"},
         pc = "closed" => worker.pc \in {"ending", "closing"}
  PROVE  SocketInv'
<1>1. worker' \in WorkerRec /\ worker'.pc = pc
  BY DEF SocketInv, Shape, WorkerRec
<1>0. IsConn(conn) /\ IsSeq(idles) /\ IsSeq(timers) /\ conn.refs \in Int /\ conn.pending \in Int
  BY DEF SocketInv, Shape, IsConn
<1>c. worker.pc \in WorkerPcs
  BY DEF SocketInv, Shape, WorkerRec
<1>2. CASE conn' = conn /\ idles' = idles
  <2> SUFFICES /\ pc \in {"loop", "drain", "recv"} => conn.pending <= MaxPending
               /\ pc \in {"ending", "closing"} => conn.pending <= MaxPending + 1
    <3>1. Held(worker'.pc # "done") - Held(worker.pc # "done") = 0
      BY <1>1 DEF Held
    <3>2. IsConn(conn') /\ conn'.pending = conn.pending
          /\ conn'.refs = conn.refs + Held(worker'.pc # "done") - Held(worker.pc # "done")
      <4>1. Held(worker'.pc # "done") \in Int /\ Held(worker.pc # "done") \in Int
        BY DEF Held
      <4> QED BY <1>2, <1>0, <3>1, <4>1
    <3> QED BY <1>1, <1>2, <3>2, WorkerMoves
  <2>1. conn.pending \in Int /\ MaxPending \in Nat
    BY SocketAssumption, <1>0
  <2>2. pc \in {"loop", "drain", "recv"} => worker.pc \in {"connect", "opening", "recv"}
    OBVIOUS
  <2> QED BY <2>1, <2>2 DEF SocketInv, Backlog
<1>3. CASE /\ IsConn(conn') /\ conn'.refs = conn.refs + 1 /\ conn'.pending = conn.pending + 1
           /\ idles' = Append(idles, e)
           /\ droppable => conn.pending < MaxPending
  <2>1. /\ conn'.refs = conn.refs + 1 /\ conn'.pending = conn.pending + 1
        /\ IsConn(conn') /\ IsSeq(idles')
        /\ Len(idles') = Len(idles) + 1 /\ Len(idles) \in Nat /\ Len(timers) \in Nat
    BY <1>3, <1>0, SeqAppend, SeqLen
  <2>2. Shape'
    BY <1>1, <2>1 DEF SocketInv, Shape
  <2>3. SocketRefs'
    <3>1. Held(worker'.pc # "done") = 1 /\ Held(worker.pc # "done") = 1
      BY <1>1 DEF Held
    <3>2. Held(page.pc # "freed") \in Int
      BY DEF Held
    <3>3. Len(idles) \in Nat /\ Len(timers) \in Nat /\ conn.refs \in Int
      BY <2>1, <1>0
    <3>4. conn.refs = Held(page.pc # "freed") + 1 + Len(idles) + Len(timers)
      BY <3>1 DEF SocketInv, SocketRefs
    <3>5. conn'.refs = Held(page'.pc # "freed") + Held(worker'.pc # "done") + Len(idles') + Len(timers')
      BY <2>1, <3>1, <3>2, <3>3, <3>4
    <3> QED BY <3>5 DEF SocketRefs
  <2>4. Backlog'
    <3>1. /\ Len(idles) \in Nat /\ Len(timers) \in Nat /\ conn.pending \in Int
          /\ MaxPending \in Nat \ {0}
      BY SocketAssumption, <2>1, <1>0
    <3>2. conn'.pending = Len(idles') + Len(timers')
      BY <2>1, <3>1 DEF SocketInv, Backlog
    <3>3. worker.pc \in {"connect", "opening", "loop", "drain", "recv"} => conn.pending <= MaxPending
      BY <3>1 DEF SocketInv, Backlog
    <3>4. pc \in {"loop", "drain", "recv"} => conn.pending < MaxPending
      <4>1. CASE worker.pc \in {"connect", "opening"}
        BY <3>1, <4>1 DEF SocketInv, Backlog
      <4>2. CASE droppable
        BY <1>3, <4>2
      <4> QED BY <4>1, <4>2
    <3>5. worker.pc \in {"ending", "closing"} => conn.pending <= MaxPending + 1
      BY DEF SocketInv, Backlog
    <3>6. pc \in {"loop", "drain", "recv", "ending", "closing", "closed"}
      BY DEF WorkerPcs
    <3>7. conn'.pending <= MaxPending + 2
      BY <2>1, <3>1, <3>3, <3>4, <3>5, <3>6
    <3>8. pc \in {"loop", "drain", "recv"} => conn'.pending <= MaxPending
      BY <2>1, <3>1, <3>4
    <3>9. pc \in {"ending", "closing"} => conn'.pending <= MaxPending + 1
      BY <2>1, <3>1, <3>3
    <3> QED BY <1>1, <3>2, <3>7, <3>8, <3>9 DEF Backlog
  <2> QED BY <2>2, <2>3, <2>4 DEF SocketInv
<1> QED
  BY <1>2, <1>3 DEF Outcome

\* The worker moves on to pc without a post and without giving up its reference.
LEMMA WorkerGoes ==
  ASSUME SocketInv, NEW pc \in WorkerPcs \ {"done"},
         worker' \in WorkerRec, worker'.pc = pc,
         IsConn(conn'),
         conn'.refs = conn.refs, conn'.pending = conn.pending,
         timers' = timers, page' = page, idles' = idles,
         worker.pc # "done",
         pc \in {"connect", "opening"} => worker.pc = "connect",
         pc \in {"loop", "drain", "recv"} =>
           worker.pc \in {"connect", "opening", "loop", "drain", "recv"},
         pc \in {"ending", "closing"} => worker.pc # "closed"
  PROVE  SocketInv'
<1>1. conn.pending \in Int /\ conn.refs \in Int /\ MaxPending \in Nat
  BY SocketAssumption DEF SocketInv, Shape, IsConn
<1>2. worker.pc \in WorkerPcs \ {"done"}
  BY DEF SocketInv, Shape, WorkerRec
<1>3. worker.pc \in {"connect", "opening", "loop", "drain", "recv"} => conn.pending <= MaxPending
  BY <1>1 DEF SocketInv, Backlog
<1>4. worker.pc # "closed" => conn.pending <= MaxPending + 1
  BY <1>1, <1>2, <1>3 DEF SocketInv, Backlog, WorkerPcs
<1>5. worker.pc = "connect" => conn.pending = 0
  BY DEF SocketInv, Backlog
<1>6. Held(worker'.pc # "done") - Held(worker.pc # "done") = 0
  BY DEF Held
<1> QED BY <1>1, <1>3, <1>4, <1>5, <1>6, WorkerMoves

\* What the steps of the worker start from.
LEMMA WorkerFacts ==
  ASSUME SocketInv
  PROVE  /\ IsConn(conn)
         /\ worker \in WorkerRec
         /\ Shape
BY DEF SocketInv, Shape

\* Every step of the worker keeps the invariant.
LEMMA WorkerStep ==
  ASSUME SocketInv, Worker
  PROVE  SocketInv'
<1>a. \A pc \in WorkerPcs : Goto(pc) =>
        /\ worker' = [worker EXCEPT !.pc = pc]
        /\ worker' \in WorkerRec /\ worker'.pc = pc
  BY WorkerFacts DEF Goto, WorkerRec
<1>b. {"opening", "loop", "drain", "recv", "ending", "closing", "closed"} = WorkerPcs \ {"connect", "done"}
  BY DEF WorkerPcs
<1>d. ASSUME Keeps(conn, conn') PROVE IsConn(conn') /\ conn'.refs = conn.refs /\ conn'.pending = conn.pending
  BY <1>d DEF Keeps
<1>c. ASSUME UNCHANGED conn PROVE IsConn(conn') /\ conn'.refs = conn.refs /\ conn'.pending = conn.pending
  BY <1>c, WorkerFacts
<1>1. CASE ConnectError
  <2>1. Goto("ending") /\ worker.pc = "connect" /\ timers' = timers /\ page' = page
        /\ Posted(conn, notes, Error, FALSE)
    BY <1>1 DEF ConnectError, WorkerAt
  <2>2. Outcome(-2, FALSE)
    BY <2>1, PostEffect, WorkerFacts DEF Error
  <2> QED BY <2>1, <2>2, <1>a, <1>b, WorkerPosts
<1>2. CASE ConnectAborted
  <2>1. Goto("ending") /\ worker.pc = "connect" /\ timers' = timers /\ page' = page
        /\ idles' = idles /\ UNCHANGED conn
    BY <1>2 DEF ConnectAborted, WorkerAt
  <2> QED BY <2>1, <1>a, <1>b, <1>c, WorkerGoes
<1>3. CASE ConnectOk
  <2>1. Goto("opening") /\ worker.pc = "connect" /\ timers' = timers /\ page' = page
        /\ idles' = idles /\ conn' = [conn EXCEPT !.state = OPEN]
    BY <1>3 DEF ConnectOk, WorkerAt
  <2>2. Keeps(conn, conn')
    BY <2>1, WorkerFacts, ConnField
  <2> QED BY <2>1, <2>2, <1>a, <1>b, <1>d, WorkerGoes
<1>4. CASE OpenPost
  <2>1. Goto("loop") /\ worker.pc = "opening" /\ timers' = timers /\ page' = page
        /\ Posted(conn, notes, Open, FALSE)
    BY <1>4 DEF OpenPost, WorkerAt
  <2>2. Outcome(-1, FALSE)
    BY <2>1, PostEffect, WorkerFacts DEF Open
  <2> QED BY <2>1, <2>2, <1>a, <1>b, WorkerPosts
<1>5. CASE LoopHead
  <2>1. (Goto("ending") \/ Goto("drain")) /\ worker.pc = "loop" /\ timers' = timers /\ page' = page
        /\ idles' = idles /\ UNCHANGED conn
    BY <1>5 DEF LoopHead, WorkerAt
  <2> QED BY <2>1, <1>a, <1>b, <1>c, WorkerGoes
<1>6. CASE DrainMessage
  <2>1. /\ worker.pc = "drain" /\ timers' = timers /\ page' = page
        /\ idles' = idles /\ worker' = worker /\ conn.out # <<>>
        /\ conn' = [conn EXCEPT !.out = Tail(conn.out)]
    BY <1>6 DEF DrainMessage, WorkerAt, Taken
  <2>2. Keeps(conn, conn')
    BY <2>1, WorkerFacts, ConnField
  <2>3. worker' \in WorkerRec /\ worker'.pc = "drain"
    BY <2>1, WorkerFacts
  <2> QED BY <2>1, <2>2, <2>3, <1>b, <1>d, WorkerGoes
<1>7. CASE DrainClose
  <2>1. /\ worker.pc = "drain" /\ timers' = timers /\ page' = page
        /\ idles' = idles /\ worker' = [pc |-> "ending", clean |-> TRUE] /\ conn.out # <<>>
        /\ conn' = [conn EXCEPT !.out = Tail(conn.out), !.state = CLOSING]
    BY <1>7 DEF DrainClose, WorkerAt, Taken
  <2>2. Keeps(conn, conn')
    BY <2>1, WorkerFacts, ConnFields
  <2>3. worker' \in WorkerRec /\ worker'.pc = "ending"
    BY <2>1 DEF WorkerRec, WorkerPcs
  <2> QED BY <2>1, <2>2, <2>3, <1>b, <1>d, WorkerGoes
<1>8. CASE DrainEnd
  <2>1. Goto("recv") /\ worker.pc = "drain" /\ timers' = timers /\ page' = page
        /\ idles' = idles /\ UNCHANGED conn
    BY <1>8 DEF DrainEnd, WorkerAt
  <2> QED BY <2>1, <1>a, <1>b, <1>c, WorkerGoes
<1>9. CASE RecvNothing
  <2>1. Goto("loop") /\ worker.pc = "recv" /\ timers' = timers /\ page' = page
        /\ idles' = idles /\ UNCHANGED conn
    BY <1>9 DEF RecvNothing, WorkerAt
  <2> QED BY <2>1, <1>a, <1>b, <1>c, WorkerGoes
<1>10. CASE RecvMessage
  <2>1. Goto("loop") /\ worker.pc = "recv" /\ timers' = timers /\ page' = page
        /\ Posted(conn, [notes EXCEPT !.recvs = @ + 1], notes.recvs + 1, TRUE)
    BY <1>10 DEF RecvMessage, WorkerAt
  <2>2. Outcome(notes.recvs + 1, TRUE)
    BY <2>1, PostEffect, WorkerFacts
  <2> QED BY <2>1, <2>2, <1>a, <1>b, WorkerPosts
<1>11. CASE RecvError
  <2>1. Goto("ending") /\ worker.pc = "recv" /\ timers' = timers /\ page' = page
        /\ Posted(conn, notes, Error, FALSE)
    BY <1>11 DEF RecvError, WorkerAt
  <2>2. Outcome(-2, FALSE)
    BY <2>1, PostEffect, WorkerFacts DEF Error
  <2> QED BY <2>1, <2>2, <1>a, <1>b, WorkerPosts
<1>12. CASE RecvClose
  <2>1. PICK clean \in BOOLEAN :
          /\ worker.pc = "recv" /\ timers' = timers /\ page' = page /\ idles' = idles
          /\ conn' = [conn EXCEPT !.state = CLOSING]
          /\ worker' = [pc |-> "ending", clean |-> clean]
    BY <1>12 DEF RecvClose, WorkerAt
  <2>2. Keeps(conn, conn')
    BY <2>1, WorkerFacts, ConnField
  <2>3. worker' \in WorkerRec /\ worker'.pc = "ending"
    BY <2>1 DEF WorkerRec, WorkerPcs
  <2> QED BY <2>1, <2>2, <2>3, <1>b, <1>d, WorkerGoes
<1>13. CASE EndState
  <2>1. Goto("closing") /\ worker.pc = "ending" /\ timers' = timers /\ page' = page
        /\ idles' = idles /\ conn' = [conn EXCEPT !.state = CLOSED]
    BY <1>13 DEF EndState, WorkerAt
  <2>2. Keeps(conn, conn')
    BY <2>1, WorkerFacts, ConnField
  <2> QED BY <2>1, <2>2, <1>a, <1>b, <1>d, WorkerGoes
<1>14. CASE EndPost
  <2>1. Goto("closed") /\ worker.pc = "closing" /\ timers' = timers /\ page' = page
        /\ Posted(conn, notes, Close, FALSE)
    BY <1>14 DEF EndPost, WorkerAt
  <2>2. Outcome(0, FALSE)
    BY <2>1, PostEffect, WorkerFacts DEF Close
  <2> QED BY <2>1, <2>2, <1>a, <1>b, WorkerPosts
<1>15. CASE EndUnref
  <2>1. Goto("done") /\ worker.pc = "closed" /\ timers' = timers /\ page' = page
        /\ idles' = idles /\ conn' = [conn EXCEPT !.refs = conn.refs - 1]
    BY <1>15 DEF EndUnref, WorkerAt
  <2>2. IsConn(conn') /\ conn'.refs = conn.refs - 1 /\ conn'.pending = conn.pending
    <3>1. conn.refs - 1 \in Int
      BY WorkerFacts DEF IsConn
    <3> QED BY <2>1, <3>1, WorkerFacts, CountRefs
  <2>3. worker' \in WorkerRec /\ worker'.pc = "done"
    BY <2>1, <1>a DEF WorkerPcs
  <2>4. Held(worker'.pc # "done") - Held(worker.pc # "done") = -1
    BY <2>1, <2>3 DEF Held
  <2> QED BY <2>1, <2>2, <2>3, <2>4, WorkerMoves DEF IsConn
<1> QED
  BY <1>1, <1>2, <1>3, <1>4, <1>5, <1>6, <1>7, <1>8, <1>9, <1>10, <1>11, <1>12,
     <1>13, <1>14, <1>15 DEF Worker

-----------------------------------------------------------------------------
\* ns_ws_dispatch_run puts the post e off, or runs it and gives up its reference.
RunOutcome(e, q) ==
  \/ timers' = Append(q, e) /\ conn' = conn /\ page' = page
  \/ /\ timers' = q /\ IsPage(page') /\ page'.pc = page.pc
     /\ IsConn(conn') /\ conn'.refs = conn.refs - 1 /\ conn'.pending = conn.pending - 1

\* Releasing a post takes one from both counts.
LEMMA ReleaseEffect ==
  ASSUME Shape, Released
  PROVE  IsConn(conn') /\ conn'.refs = conn.refs - 1 /\ conn'.pending = conn.pending - 1
<1>0. conn.refs \in Int /\ conn.pending \in Int
  BY DEF Shape, IsConn
<1>1. PICK b : b = [conn EXCEPT !.refs = conn.refs - 1]
  OBVIOUS
<1>2. IsConn(b) /\ b.refs = conn.refs - 1
  BY <1>0, <1>1, CountRefs DEF Shape
<1>3. conn' = [b EXCEPT !.pending = conn.pending - 1]
  BY <1>1 DEF Released
<1> QED BY <1>0, <1>2, <1>3 DEF IsConn

\* A field of the page changes nothing else of it.
LEMMA PageField ==
  ASSUME NEW p, IsPage(p), NEW v
  PROVE  /\ IsPage([p EXCEPT !.pc = v]) /\ [p EXCEPT !.pc = v].pc = v
         /\ IsPage([p EXCEPT !.readyState = v]) /\ [p EXCEPT !.readyState = v].pc = p.pc
         /\ IsPage([p EXCEPT !.pinned = v]) /\ [p EXCEPT !.pinned = v].pc = p.pc
         /\ IsPage([p EXCEPT !.busy = v]) /\ [p EXCEPT !.busy = v].pc = p.pc
         /\ IsPage([p EXCEPT !.pumps = v]) /\ [p EXCEPT !.pumps = v].pc = p.pc
<1>1. IsPage([p EXCEPT !.pc = v]) /\ [p EXCEPT !.pc = v].pc = v
  BY DEF IsPage
<1>2. IsPage([p EXCEPT !.readyState = v]) /\ [p EXCEPT !.readyState = v].pc = p.pc
  BY DEF IsPage
<1>3. IsPage([p EXCEPT !.pinned = v]) /\ [p EXCEPT !.pinned = v].pc = p.pc
  BY DEF IsPage
<1>4. IsPage([p EXCEPT !.busy = v]) /\ [p EXCEPT !.busy = v].pc = p.pc
  BY DEF IsPage
<1>5. IsPage([p EXCEPT !.pumps = v]) /\ [p EXCEPT !.pumps = v].pc = p.pc
  BY DEF IsPage
<1> QED BY <1>1, <1>2, <1>3, <1>4, <1>5

\* An event changes what script sees of the socket, not what the page is doing.
LEMMA InvokedEffect ==
  ASSUME Shape, NEW STATE e, Invoked(e)
  PROVE  IsPage(page') /\ page'.pc = page.pc
<1>1. CASE page' = [page EXCEPT !.readyState = OPEN]
  BY <1>1, PageField DEF Shape
<1>2. CASE page' = [page EXCEPT !.readyState = CLOSED, !.pinned = FALSE]
  <2>1. PICK b : b = [page EXCEPT !.readyState = CLOSED]
    OBVIOUS
  <2>2. IsPage(b) /\ b.pc = page.pc
    BY <2>1, PageField DEF Shape
  <2>3. page' = [b EXCEPT !.pinned = FALSE]
    BY <1>2, <2>1
  <2> QED BY <2>2, <2>3, PageField
<1>3. CASE page' = page
  BY <1>3 DEF Shape
<1> QED BY <1>1, <1>2, <1>3 DEF Invoked

LEMMA RunEffect ==
  ASSUME Shape, NEW STATE e, NEW STATE q, Run(e, q)
  PROVE  RunOutcome(e, q)
<1>1. CASE page.busy /\ ~conn.detached
  BY <1>1 DEF Run, RunOutcome
<1>2. CASE ~(page.busy /\ ~conn.detached)
  <2>1. timers' = q /\ Released /\ (page' = page \/ Invoked(e))
    BY <1>2 DEF Run
  <2>2. IsPage(page') /\ page'.pc = page.pc
    <3>1. CASE page' = page
      BY <3>1 DEF Shape
    <3>2. CASE Invoked(e)
      BY <3>2, InvokedEffect
    <3> QED BY <2>1, <3>1, <3>2
  <2>3. IsConn(conn') /\ conn'.refs = conn.refs - 1 /\ conn'.pending = conn.pending - 1
    BY <2>1, ReleaseEffect
  <2> QED BY <2>1, <2>2, <2>3 DEF RunOutcome
<1> QED BY <1>1, <1>2

\* The sum of four holders when the last two change places.
LEMMA SumsAgree ==
  ASSUME NEW r \in Int, NEW x \in Int, NEW y \in Int, NEW a \in Nat, NEW b \in Nat,
         NEW c \in Nat, NEW d \in Nat, r = x + y + a + b, c + d = a + b
  PROVE  r = x + y + c + d
OBVIOUS

\* Taking one post, and putting it off or running it, keeps the invariant.
LEMMA RunKeeps ==
  ASSUME SocketInv, NEW STATE e, NEW STATE q, RunOutcome(e, q), worker' = worker,
         IsSeq(q), IsSeq(idles'),
         Len(idles') + Len(q) = Len(idles) + Len(timers) - 1
  PROVE  SocketInv'
<1>1. /\ IsConn(conn) /\ IsPage(page) /\ worker \in WorkerRec
      /\ Len(idles) \in Nat /\ Len(timers) \in Nat /\ Len(idles') \in Nat /\ Len(q) \in Nat
  BY SeqLen DEF SocketInv, Shape
<1>2. conn.refs \in Int /\ conn.pending \in Int /\ MaxPending \in Nat
  BY <1>1, SocketAssumption DEF IsConn
<1>3. CASE timers' = Append(q, e) /\ conn' = conn /\ page' = page
  <2>1. IsSeq(timers') /\ Len(timers') = Len(q) + 1
    BY <1>3, SeqAppend
  <2>2. Len(idles') + Len(timers') = Len(idles) + Len(timers) /\ Len(timers') \in Nat
    BY <1>1, <2>1
  <2>3. Shape'
    BY <1>1, <1>3, <2>1 DEF Shape
  <2>4. SocketRefs'
    <3>1. Held(page.pc # "freed") \in Int /\ Held(worker.pc # "done") \in Int
      BY DEF Held
    <3>2. Held(page'.pc # "freed") = Held(page.pc # "freed")
          /\ Held(worker'.pc # "done") = Held(worker.pc # "done") /\ conn'.refs = conn.refs
      BY <1>3
    <3>3. conn.refs = Held(page.pc # "freed") + Held(worker.pc # "done") + Len(idles) + Len(timers)
      BY DEF SocketInv, SocketRefs
    <3>4. conn.refs = Held(page.pc # "freed") + Held(worker.pc # "done")
                      + Len(idles') + Len(timers')
      <4>1. PICK x, y : x = Held(page.pc # "freed") /\ y = Held(worker.pc # "done")
        OBVIOUS
      <4>2. x \in Int /\ y \in Int /\ conn.refs = x + y + Len(idles) + Len(timers)
        BY <3>1, <3>3, <4>1, Zenon
      <4>3. conn.refs = x + y + Len(idles') + Len(timers')
        BY <1>1, <1>2, <2>2, <4>2, SumsAgree
      <4> QED BY <4>1, <4>3, Zenon
    <3>5. conn'.refs = Held(page'.pc # "freed") + Held(worker'.pc # "done")
                       + Len(idles') + Len(timers')
      BY <3>2, <3>4, Zenon
    <3> QED BY <3>5 DEF SocketRefs
  <2>5. Backlog'
    BY <1>1, <1>3, <2>2 DEF SocketInv, Backlog
  <2> QED BY <2>3, <2>4, <2>5 DEF SocketInv
<1>4. CASE /\ timers' = q /\ IsPage(page') /\ page'.pc = page.pc
           /\ IsConn(conn') /\ conn'.refs = conn.refs - 1 /\ conn'.pending = conn.pending - 1
  <2>1. Len(idles') + Len(timers') = Len(idles) + Len(timers) - 1
    BY <1>4
  <2>2. Shape'
    BY <1>1, <1>4 DEF Shape
  <2>3. SocketRefs'
    <3>1. Held(page.pc # "freed") \in Int /\ Held(worker.pc # "done") \in Int
      BY DEF Held
    <3>2. Held(page'.pc # "freed") = Held(page.pc # "freed")
          /\ Held(worker'.pc # "done") = Held(worker.pc # "done")
      BY <1>4
    <3>3. conn.refs = Held(page.pc # "freed") + Held(worker.pc # "done") + Len(idles) + Len(timers)
      BY DEF SocketInv, SocketRefs
    <3>4. conn'.refs = Held(page'.pc # "freed") + Held(worker'.pc # "done")
                       + Len(idles') + Len(timers')
      BY <1>1, <1>2, <1>4, <2>1, <3>1, <3>2, <3>3
    <3> QED BY <3>4 DEF SocketRefs
  <2>4. Backlog'
    <3>1. conn.pending = Len(idles) + Len(timers) /\ conn.pending # 0
      BY <1>1 DEF SocketInv, Backlog
    <3>2. conn'.pending = Len(idles') + Len(timers') /\ conn'.pending < conn.pending
      BY <1>1, <1>2, <1>4, <2>1, <3>1
    <3>3. /\ conn'.pending <= MaxPending + 2
          /\ worker.pc \in {"loop", "drain", "recv"} => conn'.pending <= MaxPending
          /\ worker.pc \in {"ending", "closing"} => conn'.pending <= MaxPending + 1
      BY <1>2, <1>4, <3>2 DEF SocketInv, Backlog
    <3>4. worker.pc \notin {"connect", "opening"}
      BY <3>1 DEF SocketInv, Backlog
    <3> QED BY <3>2, <3>3, <3>4 DEF Backlog
  <2> QED BY <2>2, <2>3, <2>4 DEF SocketInv
<1> QED BY <1>3, <1>4 DEF RunOutcome

\* The engine thread's dispatches keep the invariant.
LEMMA DispatchStep ==
  ASSUME SocketInv, DispatchIdle \/ DispatchTimer
  PROVE  SocketInv'
<1>1. Shape /\ IsSeq(idles) /\ IsSeq(timers)
  BY DEF SocketInv, Shape
<1>2. CASE DispatchIdle
  <2>1. idles # <<>> /\ idles' = Tail(idles) /\ Run(Head(idles), timers) /\ worker' = worker
    BY <1>2 DEF DispatchIdle
  <2>2. IsSeq(idles') /\ Len(idles') = Len(idles) - 1 /\ Len(idles) \in Nat /\ Len(timers) \in Nat
    BY <1>1, <2>1, SeqTail, SeqLen
  <2>3. Len(idles') + Len(timers) = Len(idles) + Len(timers) - 1
    BY <2>2
  <2>4. RunOutcome(Head(idles), timers)
    BY <1>1, <2>1, RunEffect
  <2> QED BY <1>1, <2>1, <2>2, <2>3, <2>4, RunKeeps
<1>3. CASE DispatchTimer
  <2>1. timers # <<>> /\ idles' = idles /\ Run(Head(timers), Tail(timers)) /\ worker' = worker
    BY <1>3 DEF DispatchTimer
  <2>2. IsSeq(Tail(timers)) /\ Len(Tail(timers)) = Len(timers) - 1
        /\ Len(idles) \in Nat /\ Len(timers) \in Nat
    BY <1>1, <2>1, SeqTail, SeqLen
  <2>3. Len(idles') + Len(Tail(timers)) = Len(idles) + Len(timers) - 1 /\ IsSeq(idles')
    BY <1>1, <2>1, <2>2
  <2>4. RunOutcome(Head(timers), Tail(timers))
    BY <1>1, <2>1, RunEffect
  <2> QED BY <2>1, <2>2, <2>3, <2>4, RunKeeps
<1> QED BY <1>2, <1>3

-----------------------------------------------------------------------------
\* A step of the page that counts nothing, or the one that gives up its
\* reference, keeps the invariant.
LEMMA PageMoves ==
  ASSUME SocketInv, IsPage(page'), IsConn(conn'),
         worker' = worker, idles' = idles, timers' = timers,
         conn'.pending = conn.pending,
         conn'.refs = conn.refs + Held(page'.pc # "freed") - Held(page.pc # "freed")
  PROVE  SocketInv'
<1>1. Shape'
  BY DEF SocketInv, Shape
<1>2. Backlog'
  BY DEF SocketInv, Backlog
<1>3. SocketRefs'
  <2>1. Held(page.pc # "freed") \in Int /\ Held(worker.pc # "done") \in Int
        /\ Held(page'.pc # "freed") \in Int
    BY DEF Held
  <2>2. Len(idles) \in Nat /\ Len(timers) \in Nat /\ conn.refs \in Int
    BY SeqLen DEF SocketInv, Shape, IsConn
  <2>3. conn.refs = Held(page.pc # "freed") + Held(worker.pc # "done") + Len(idles) + Len(timers)
    BY DEF SocketInv, SocketRefs
  <2>4. conn'.refs = Held(page'.pc # "freed") + Held(worker.pc # "done") + Len(idles) + Len(timers)
    BY <2>1, <2>2, <2>3
  <2> QED BY <2>4 DEF SocketRefs
<1> QED BY <1>1, <1>2, <1>3 DEF SocketInv

\* A step of the page that does not free the socket.
LEMMA PageWorks ==
  ASSUME SocketInv, IsPage(page'), Keeps(conn, conn'),
         worker' = worker, idles' = idles, timers' = timers,
         page'.pc # "freed" <=> page.pc # "freed"
  PROVE  SocketInv'
<1>1. IsConn(conn') /\ conn'.refs = conn.refs /\ conn'.pending = conn.pending /\ conn.refs \in Int
  BY DEF Keeps, SocketInv, Shape, IsConn
<1>2. Held(page'.pc # "freed") = Held(page.pc # "freed") /\ Held(page.pc # "freed") \in Int
  BY DEF Held
<1>3. conn'.refs = conn.refs + Held(page'.pc # "freed") - Held(page.pc # "freed")
  BY <1>1, <1>2
<1> QED BY <1>1, <1>3, PageMoves

\* Every step of the page keeps the invariant; only the last gives up a reference.
LEMMA PageStep ==
  ASSUME SocketInv, Page
  PROVE  SocketInv'
<1>0. IsPage(page) /\ IsConn(conn) /\ Keeps(conn, conn)
  BY DEF SocketInv, Shape, Keeps
<1>a. ASSUME page' = [page EXCEPT !.pc = "idle"] PROVE IsPage(page') /\ page'.pc = "idle"
  BY <1>0, <1>a, PageField
<1>1. CASE SendBegin
  <2>1. /\ worker' = worker /\ idles' = idles /\ timers' = timers /\ conn' = conn
        /\ page.pc = "idle" /\ page' = [page EXCEPT !.pc = "sending"]
    BY <1>1 DEF SendBegin, Script
  <2>2. IsPage(page') /\ page'.pc = "sending"
    BY <2>1, <1>0, PageField
  <2> QED BY <2>1, <2>2, <1>0, PageWorks
<1>2. CASE SendQueue
  <2>1. PICK m : conn' = [conn EXCEPT !.out = m]
    BY <1>2 DEF SendQueue
  <2>2. /\ worker' = worker /\ idles' = idles /\ timers' = timers
        /\ page.pc = "sending" /\ page' = [page EXCEPT !.pc = "idle"]
    BY <1>2 DEF SendQueue
  <2>3. Keeps(conn, conn')
    BY <2>1, <1>0, ConnField
  <2> QED BY <2>2, <2>3, <1>a, PageWorks
<1>3. CASE CloseBegin
  <2>1. /\ worker' = worker /\ idles' = idles /\ timers' = timers /\ conn' = conn
        /\ page.pc = "idle" /\ page' = [page EXCEPT !.readyState = CLOSING, !.pc = "closing"]
    BY <1>3 DEF CloseBegin, Script
  <2>2. PICK b : b = [page EXCEPT !.readyState = CLOSING]
    OBVIOUS
  <2>3. IsPage(b) /\ page' = [b EXCEPT !.pc = "closing"]
    BY <2>1, <2>2, <1>0, PageField
  <2>4. IsPage(page') /\ page'.pc = "closing"
    BY <2>3, PageField
  <2> QED BY <2>1, <2>4, <1>0, PageWorks
<1>4. CASE CloseQueue
  <2>1. /\ worker' = worker /\ idles' = idles /\ timers' = timers /\ page.pc = "closing"
        /\ \/ page' = [page EXCEPT !.pc = "idle"] /\ conn' = conn
           \/ page' = [page EXCEPT !.pc = "closed"] /\ \E m : conn' = [conn EXCEPT !.out = m]
    BY <1>4 DEF CloseQueue
  <2>2. CASE page' = [page EXCEPT !.pc = "idle"] /\ conn' = conn
    BY <2>1, <2>2, <1>0, <1>a, PageWorks
  <2>3. CASE page' = [page EXCEPT !.pc = "closed"] /\ \E m : conn' = [conn EXCEPT !.out = m]
    <3>a. PICK m : conn' = [conn EXCEPT !.out = m]
      BY <2>3
    <3>1. Keeps(conn, conn')
      <4>1. Keeps(conn, [conn EXCEPT !.out = m]) BY <1>0, ConnField
      <4> QED BY <3>a, <4>1, Zenon
    <3>2. IsPage(page') /\ page'.pc = "closed"
      BY <2>3, <1>0, PageField
    <3>3. page'.pc # "freed" <=> page.pc # "freed"
      BY <2>1, <3>2
    <3>4. worker' = worker /\ idles' = idles /\ timers' = timers
      BY <2>1
    <3> QED BY <3>1, <3>2, <3>3, <3>4, PageWorks
  <2> QED BY <2>1, <2>2, <2>3
<1>5. CASE CloseState
  <2>1. /\ worker' = worker /\ idles' = idles /\ timers' = timers /\ page.pc = "closed"
        /\ page' = [page EXCEPT !.pc = "idle"] /\ conn' = [conn EXCEPT !.state = CLOSING]
    BY <1>5 DEF CloseState
  <2>2. Keeps(conn, conn')
    BY <2>1, <1>0, ConnField
  <2> QED BY <2>1, <2>2, <1>a, PageWorks
<1>6. CASE PumpBegin
  <2>1. /\ worker' = worker /\ idles' = idles /\ timers' = timers /\ conn' = conn
        /\ page' = [page EXCEPT !.busy = TRUE, !.pumps = page.pumps + 1]
    BY <1>6 DEF PumpBegin, Script
  <2>2. PICK b : b = [page EXCEPT !.busy = TRUE]
    OBVIOUS
  <2>3. IsPage(b) /\ b.pc = page.pc /\ page' = [b EXCEPT !.pumps = page.pumps + 1]
    BY <2>1, <2>2, <1>0, PageField
  <2>4. IsPage(page') /\ page'.pc = page.pc
    BY <2>3, PageField
  <2> QED BY <2>1, <2>4, <1>0, PageWorks
<1>7. CASE PumpEnd
  <2>1. /\ worker' = worker /\ idles' = idles /\ timers' = timers /\ conn' = conn
        /\ page' = [page EXCEPT !.busy = FALSE]
    BY <1>7 DEF PumpEnd
  <2>2. IsPage(page') /\ page'.pc = page.pc
    BY <2>1, <1>0, PageField
  <2> QED BY <2>1, <2>2, <1>0, PageWorks
<1>8. CASE FreeBegin
  <2>1. /\ worker' = worker /\ idles' = idles /\ timers' = timers /\ page.pc = "idle"
        /\ page' = [page EXCEPT !.pc = "joining"]
        /\ conn' = [conn EXCEPT !.detached = TRUE, !.exit = TRUE]
    BY <1>8 DEF FreeBegin, Script
  <2>2. IsPage(page') /\ page'.pc = "joining"
    BY <2>1, <1>0, PageField
  <2>3. Keeps(conn, conn')
    BY <2>1, <1>0, ConnFields
  <2> QED BY <2>1, <2>2, <2>3, PageWorks
<1>9. CASE FreeJoin
  <2>1. /\ worker' = worker /\ idles' = idles /\ timers' = timers /\ page.pc = "joining"
        /\ page' = [page EXCEPT !.pc = "freed"]
        /\ conn' = [conn EXCEPT !.refs = conn.refs - 1]
    BY <1>9 DEF FreeJoin
  <2>2. IsPage(page') /\ page'.pc = "freed"
    BY <2>1, <1>0, PageField
  <2>3. conn.refs - 1 \in Int
    BY <1>0 DEF IsConn
  <2>4. IsConn(conn') /\ conn'.refs = conn.refs - 1 /\ conn'.pending = conn.pending
    BY <2>1, <2>3, <1>0, CountRefs
  <2>5. Held(page.pc # "freed") = 1 /\ Held(page'.pc # "freed") = 0
    BY <2>1, <2>2 DEF Held
  <2>6. conn'.refs = conn.refs + Held(page'.pc # "freed") - Held(page.pc # "freed")
    BY <2>3, <2>4, <2>5, <1>0 DEF IsConn
  <2> QED BY <2>1, <2>2, <2>4, <2>6, PageMoves
<1> QED
  BY <1>1, <1>2, <1>3, <1>4, <1>5, <1>6, <1>7, <1>8, <1>9 DEF Page

-----------------------------------------------------------------------------
\* The invariant is inductive.
LEMMA SocketStep == SocketInv /\ [SocketNext]_vars => SocketInv'
<1> SUFFICES ASSUME SocketInv, [SocketNext]_vars PROVE SocketInv'
  OBVIOUS
<1>1. CASE Worker
  BY <1>1, WorkerStep
<1>2. CASE DispatchIdle \/ DispatchTimer
  BY <1>2, DispatchStep
<1>3. CASE Page
  BY <1>3, PageStep
<1>4. CASE UNCHANGED vars
  BY <1>4 DEF vars, SocketInv, Shape, SocketRefs, Backlog
<1> QED
  BY <1>1, <1>2, <1>3, <1>4 DEF SocketNext

\* What the counts of a socket are made of, always.
THEOREM SocketCounts == SocketSpec => []SocketInv
<1> QED
  BY InitInv, SocketStep, PTL DEF SocketSpec

\* ns_ws is freed (ns_ws_unref) when its object, its worker and the last of its
\* posts are gone, and not before: the reference count is exactly what holds it.
THEOREM RefsCounted == SocketSpec => []SocketRefs
<1>1. SocketInv => SocketRefs
  BY DEF SocketInv
<1> QED
  BY <1>1, SocketCounts, PTL

\* The backlog of ns_ws_post is what is under way, and passes NS_WS_MAX_PENDING by
\* no more than the two events that end a connection, which are never dropped.
THEOREM BacklogLimit == SocketSpec => []BacklogBounded
<1>1. SocketInv => BacklogBounded
  BY DEF SocketInv, Backlog, BacklogBounded
<1> QED
  BY <1>1, SocketCounts, PTL
-----------------------------------------------------------------------------
(* Script learns of the close *)

IsNotes(n) ==
  /\ n = [accepted |-> n.accepted, wire |-> n.wire, sendFailed |-> n.sendFailed,
          recvs |-> n.recvs, delivered |-> n.delivered, deferred |-> n.deferred]
  /\ IsSeq(n.delivered)

\* Where the worker is once its state is final, and once it posts no more.
Final == {"closing", "closed", "done"}
Silent == {"closed", "done"}

Among(e, q) == \E i \in DOMAIN q : q[i] = e

\* The close is the last of the posts; or it was put off; or script was told.
Coming ==
  \/ idles # <<>> /\ idles[Len(idles)] = Close
  \/ idles = <<>> /\ Among(Close, timers)
  \/ /\ idles = <<>> /\ Among(Close, notes.delivered)
     /\ page.readyState = CLOSED \/ notes.deferred

\* What is put off is noted, the page asks for no close after the end, and the
\* close is on its way from the moment the worker posts no more.
CloseInv ==
  /\ IsNotes(notes)
  /\ timers # <<>> => notes.deferred
  /\ worker.pc \in Final => conn.state \in {CLOSING, CLOSED}
  /\ worker.pc \in Silent /\ ~conn.detached => Coming

\* A field of the notes changes no other.
SameTold(n, m) == IsNotes(m) /\ m.delivered = n.delivered /\ m.deferred = n.deferred
LEMMA NoteField ==
  ASSUME NEW n, IsNotes(n), NEW v
  PROVE  /\ SameTold(n, [n EXCEPT !.wire = v])
         /\ SameTold(n, [n EXCEPT !.accepted = v])
         /\ SameTold(n, [n EXCEPT !.sendFailed = v])
         /\ SameTold(n, [n EXCEPT !.recvs = v])
<1>1. SameTold(n, [n EXCEPT !.wire = v])
  BY DEF IsNotes, SameTold
<1>2. SameTold(n, [n EXCEPT !.accepted = v])
  BY DEF IsNotes, SameTold
<1>3. SameTold(n, [n EXCEPT !.sendFailed = v])
  BY DEF IsNotes, SameTold
<1>4. SameTold(n, [n EXCEPT !.recvs = v])
  BY DEF IsNotes, SameTold
<1> QED BY <1>1, <1>2, <1>3, <1>4

\* What was in a sequence, or was added to it, is in it with one more at its end.
LEMMA AmongAppend ==
  ASSUME NEW q, IsSeq(q), NEW e
  PROVE  /\ Among(e, Append(q, e))
         /\ \A x : Among(x, q) => Among(x, Append(q, e))
         /\ Append(q, e) # <<>> /\ Append(q, e)[Len(Append(q, e))] = e
<1>1. PICK S : q \in Seq(S)
  BY DEF IsSeq
<1>2. q \in Seq(S \cup {e}) /\ e \in S \cup {e}
  BY <1>1
<1>3. PICK r : r = Append(q, e)
  OBVIOUS
<1>4. /\ Len(q) \in Nat /\ Len(r) = Len(q) + 1 /\ DOMAIN q = 1..Len(q) /\ DOMAIN r = 1..Len(r)
      /\ r[Len(q) + 1] = e /\ \A i \in 1..Len(q) : r[i] = q[i]
  BY <1>2, <1>3
<1>5. r # <<>> /\ Len(q) + 1 \in DOMAIN r /\ \A i \in DOMAIN q : i \in DOMAIN r
  BY <1>4
<1>6. Among(e, r)
  BY <1>4, <1>5 DEF Among
<1>7. \A x : Among(x, q) => Among(x, r)
  BY <1>4, <1>5 DEF Among
<1> QED BY <1>3, <1>4, <1>5, <1>6, <1>7

\* What is in a sequence is its head or in its tail, and its last is its head or
\* the last of its tail.
LEMMA AmongTail ==
  ASSUME NEW q, IsSeq(q), q # <<>>
  PROVE  /\ \A x : Among(x, q) => x = Head(q) \/ Among(x, Tail(q))
         /\ Tail(q) = <<>> => q[Len(q)] = Head(q)
         /\ Tail(q) # <<>> => Tail(q)[Len(Tail(q))] = q[Len(q)]
<1>1. PICK S : q \in Seq(S)
  BY DEF IsSeq
<1>2. PICK t : t = Tail(q)
  OBVIOUS
<1>3. /\ Len(q) \in Nat \ {0} /\ t \in Seq(S) /\ Len(t) = Len(q) - 1 /\ Head(q) = q[1]
      /\ DOMAIN q = 1..Len(q) /\ DOMAIN t = 1..Len(t) /\ Len(t) \in Nat
      /\ \A i \in 1..Len(t) : t[i] = q[i + 1]
  BY <1>1, <1>2
<1>4. ASSUME NEW x, Among(x, q) PROVE x = Head(q) \/ Among(x, t)
  <2>1. PICK i \in 1..Len(q) : q[i] = x
    BY <1>3, <1>4 DEF Among
  <2>2. CASE i = 1
    BY <1>3, <2>1, <2>2
  <2>3. CASE i # 1
    <3>1. i - 1 \in 1..Len(t) /\ (i - 1) + 1 = i
      BY <1>3, <2>1, <2>3
    <3>2. t[i - 1] = x
      BY <1>3, <2>1, <3>1
    <3> QED BY <1>3, <3>1, <3>2 DEF Among
  <2> QED BY <2>2, <2>3
<1>5. ASSUME t = <<>> PROVE q[Len(q)] = Head(q)
  <2>1. Len(t) = 0
    BY <1>5
  <2>2. Len(q) = 1
    BY <1>3, <2>1
  <2> QED BY <1>3, <2>2
<1>6. ASSUME t # <<>> PROVE t[Len(t)] = q[Len(q)]
  <2>1. Len(t) \in 1..Len(t)
    BY <1>3, <1>6
  <2>2. t[Len(t)] = q[Len(t) + 1] /\ Len(t) + 1 = Len(q)
    BY <1>3, <2>1
  <2> QED BY <2>2
<1> QED BY <1>2, <1>4, <1>5, <1>6

\* At the start nothing is put off and nothing has ended.
LEMMA CloseInit == SocketInit => CloseInv
<1> SUFFICES ASSUME SocketInit PROVE CloseInv
  OBVIOUS
<1>1. IsSeq(<<>>)
  <2>1. <<>> \in Seq({})
    OBVIOUS
  <2> QED BY <2>1 DEF IsSeq
<1>2. IsNotes(notes)
  BY <1>1 DEF SocketInit, IsNotes
<1>3. worker.pc = "connect" /\ timers = <<>>
  BY DEF SocketInit
<1> QED BY <1>2, <1>3 DEF CloseInv, Final, Silent

\* A step that leaves the queues and what script was told keeps the invariant if it
\* starts no end, and script sees another state only before the end.
LEMMA ToldNothing ==
  ASSUME CloseInv, idles' = idles, timers' = timers, SameTold(notes, notes'),
         worker'.pc \in Final => worker.pc \in Final,
         worker'.pc \in Silent => worker.pc \in Silent,
         conn'.state = conn.state \/ conn'.state \in {CLOSING, CLOSED} \/ worker.pc \notin Final,
         ~conn'.detached => ~conn.detached,
         page'.readyState = page.readyState \/ worker.pc \notin Final
  PROVE  CloseInv'
<1>1. IsNotes(notes') /\ notes'.delivered = notes.delivered /\ notes'.deferred = notes.deferred
  BY DEF SameTold
<1>2. timers' # <<>> => notes'.deferred
  BY <1>1 DEF CloseInv
<1>3. worker'.pc \in Final => conn'.state \in {CLOSING, CLOSED}
  BY DEF CloseInv
<1>4. ASSUME worker'.pc \in Silent, ~conn'.detached PROVE Coming'
  <2>1. Coming
    BY <1>4 DEF CloseInv
  <2>2. page'.readyState = page.readyState
    BY <1>4 DEF Final, Silent
  <2> QED BY <1>1, <2>1, <2>2 DEF Coming
<1> QED BY <1>1, <1>2, <1>3, <1>4 DEF CloseInv
\* Before the end only the notes and what was put off matter.
LEMMA BeforeEnd ==
  ASSUME CloseInv, worker'.pc \notin Final, timers' = timers, SameTold(notes, notes')
  PROVE  CloseInv'
BY DEF CloseInv, SameTold, Final, Silent

\* A post that may not be dropped is the last of the posts unless nobody listens.
LEMMA PostArrives ==
  ASSUME Shape, NEW STATE e, Posted(conn, notes, e, FALSE)
  PROVE  /\ conn'.state = conn.state /\ conn'.detached = conn.detached /\ notes' = notes
         /\ ~conn.detached => idles' = Append(idles, e)
<1>1. CASE conn.detached
  BY <1>1 DEF Posted, Post
<1>2. CASE ~conn.detached
  <2>1. PICK b : b = [conn EXCEPT !.refs = conn.refs + 1]
    OBVIOUS
  <2>2. IsConn(b) /\ b.state = conn.state /\ b.detached = conn.detached
    BY <2>1 DEF Shape, IsConn
  <2>3. PICK c : c = [b EXCEPT !.pending = conn.pending + 1]
    OBVIOUS
  <2>4. c.state = conn.state /\ c.detached = conn.detached
    BY <2>2, <2>3 DEF IsConn
  <2>5. conn' = c /\ idles' = Append(idles, e) /\ notes' = notes
    BY <1>2, <2>1, <2>3 DEF Posted, Post
  <2> QED BY <2>4, <2>5
<1> QED BY <1>1, <1>2

\* The worker posts the close when its state is final, and nothing after it.
LEMMA WorkerTells ==
  ASSUME SocketInv, CloseInv, Worker
  PROVE  CloseInv'
<1>a. \A pc : Goto(pc) => worker'.pc = pc
  BY WorkerFacts DEF Goto, WorkerRec
<1>b. SameTold(notes, notes)
  BY DEF CloseInv, SameTold
<1>c. {"opening", "loop", "drain", "recv", "ending"} \cap Final = {}
  BY DEF Final
<1>d. IsNotes(notes)
  BY DEF CloseInv
<1>1. CASE ConnectError
  BY <1>1, <1>a, <1>b, <1>c, BeforeEnd DEF ConnectError, WorkerAt, Posted
<1>2. CASE ConnectAborted
  BY <1>2, <1>a, <1>b, <1>c, BeforeEnd DEF ConnectAborted, WorkerAt
<1>3. CASE ConnectOk
  BY <1>3, <1>a, <1>b, <1>c, BeforeEnd DEF ConnectOk, WorkerAt
<1>4. CASE OpenPost
  BY <1>4, <1>a, <1>b, <1>c, BeforeEnd DEF OpenPost, WorkerAt, Posted
<1>5. CASE LoopHead
  BY <1>5, <1>a, <1>b, <1>c, BeforeEnd DEF LoopHead, WorkerAt
<1>6. CASE DrainMessage
  <2>1. /\ timers' = timers /\ worker'.pc = "drain"
        /\ \/ notes' = [notes EXCEPT !.wire = Append(notes.wire, Taken(conn.out)[1])]
           \/ notes' = [notes EXCEPT !.sendFailed = TRUE]
    BY <1>6 DEF DrainMessage, WorkerAt
  <2>2. SameTold(notes, notes')
    <3>1. CASE notes' = [notes EXCEPT !.wire = Append(notes.wire, Taken(conn.out)[1])]
      BY <3>1, <1>d, NoteField
    <3>2. CASE notes' = [notes EXCEPT !.sendFailed = TRUE]
      BY <3>2, <1>d, NoteField
    <3> QED BY <2>1, <3>1, <3>2
  <2> QED BY <2>1, <2>2, <1>c, BeforeEnd
<1>7. CASE DrainClose
  <2>1. timers' = timers /\ worker'.pc = "ending"
        /\ notes' = [notes EXCEPT !.wire = Append(notes.wire, Close)]
    BY <1>7 DEF DrainClose, WorkerAt
  <2>2. SameTold(notes, notes')
    BY <2>1, <1>d, NoteField
  <2> QED BY <2>1, <2>2, <1>c, BeforeEnd
<1>8. CASE DrainEnd
  BY <1>8, <1>a, <1>b, <1>c, BeforeEnd DEF DrainEnd, WorkerAt
<1>9. CASE RecvNothing
  BY <1>9, <1>a, <1>b, <1>c, BeforeEnd DEF RecvNothing, WorkerAt
<1>10. CASE RecvMessage
  <2>1. timers' = timers /\ worker'.pc = "loop"
        /\ notes' = [notes EXCEPT !.recvs = notes.recvs + 1]
    BY <1>10, <1>a DEF RecvMessage, WorkerAt, Posted
  <2>2. SameTold(notes, notes')
    BY <2>1, <1>d, NoteField
  <2> QED BY <2>1, <2>2, <1>c, BeforeEnd
<1>11. CASE RecvError
  BY <1>11, <1>a, <1>b, <1>c, BeforeEnd DEF RecvError, WorkerAt, Posted
<1>12. CASE RecvClose
  <2>1. timers' = timers /\ worker'.pc = "ending"
        /\ notes' = [notes EXCEPT !.wire = Append(notes.wire, Close)]
    BY <1>12 DEF RecvClose, WorkerAt
  <2>2. SameTold(notes, notes')
    BY <2>1, <1>d, NoteField
  <2> QED BY <2>1, <2>2, <1>c, BeforeEnd
<1>13. CASE EndState
  <2>1. worker'.pc = "closing" /\ timers' = timers /\ notes' = notes
        /\ conn' = [conn EXCEPT !.state = CLOSED]
    BY <1>13, <1>a DEF EndState, WorkerAt
  <2>2. conn'.state = CLOSED
    BY <2>1, WorkerFacts DEF IsConn
  <2>3. worker'.pc \notin Silent
    BY <2>1 DEF Silent
  <2> QED BY <2>1, <2>2, <2>3 DEF CloseInv
<1>14. CASE EndPost
  <2>1. /\ worker.pc = "closing" /\ timers' = timers
        /\ Posted(conn, notes, Close, FALSE)
    BY <1>14 DEF EndPost, WorkerAt
  <2>3. /\ conn'.state = conn.state /\ conn'.detached = conn.detached /\ notes' = notes
        /\ ~conn.detached => idles' = Append(idles, Close)
    BY <2>1, PostArrives, WorkerFacts DEF Close
  <2>4. ~conn.detached => idles' # <<>> /\ idles'[Len(idles')] = Close
    BY <2>3, AmongAppend DEF SocketInv, Shape
  <2>5. conn'.state \in {CLOSING, CLOSED}
    BY <2>1, <2>3 DEF CloseInv, Final
  <2> QED BY <2>1, <2>3, <2>4, <2>5 DEF CloseInv, Coming
<1>15. CASE EndUnref
  <2>1. /\ worker'.pc = "done" /\ worker.pc = "closed" /\ timers' = timers /\ page' = page
        /\ idles' = idles /\ notes' = notes /\ conn' = [conn EXCEPT !.refs = conn.refs - 1]
    BY <1>15, <1>a DEF EndUnref, WorkerAt
  <2>2. conn'.state = conn.state /\ conn'.detached = conn.detached
    BY <2>1, WorkerFacts DEF IsConn
  <2>3. worker.pc \in Final /\ worker.pc \in Silent
    BY <2>1 DEF Final, Silent
  <2> QED BY <2>1, <2>2, <2>3, <1>b, ToldNothing
<1> QED
  BY <1>1, <1>2, <1>3, <1>4, <1>5, <1>6, <1>7, <1>8, <1>9, <1>10, <1>11, <1>12,
     <1>13, <1>14, <1>15 DEF Worker
\* The page only ever takes the state of the connection on to CLOSING, and asks for a
\* close only while the worker has not ended.
LEMMA PageTells ==
  ASSUME SocketInv, CloseInv, Page
  PROVE  CloseInv'
<1>0. IsNotes(notes) /\ IsConn(conn) /\ IsPage(page) /\ SameTold(notes, notes)
  BY DEF CloseInv, SocketInv, Shape, SameTold
<1>a. \A v : [page EXCEPT !.pc = v].readyState = page.readyState
  BY <1>0 DEF IsPage
<1>b. \A v : [conn EXCEPT !.out = v].state = conn.state /\ [conn EXCEPT !.out = v].detached = conn.detached
  BY <1>0 DEF IsConn
<1>1. CASE SendBegin
  BY <1>1, <1>0, <1>a, ToldNothing DEF SendBegin, Script
<1>2. CASE SendQueue
  <2>1. PICK m : /\ worker' = worker /\ idles' = idles /\ timers' = timers
                 /\ page' = [page EXCEPT !.pc = "idle"]
                 /\ conn' = [conn EXCEPT !.out = Append(conn.out, m)]
                 /\ notes' = [notes EXCEPT !.accepted = Append(notes.accepted, m)]
    BY <1>2 DEF SendQueue
  <2>2. SameTold(notes, notes')
    BY <2>1, <1>0, NoteField
  <2>3. conn'.state = conn.state /\ conn'.detached = conn.detached
        /\ page'.readyState = page.readyState
    BY <2>1, <1>a, <1>b
  <2> QED BY <2>1, <2>2, <2>3, ToldNothing
<1>3. CASE CloseBegin
  <2>1. /\ worker' = worker /\ idles' = idles /\ timers' = timers /\ conn' = conn
        /\ notes' = notes /\ conn.state \notin {CLOSING, CLOSED}
    BY <1>3 DEF CloseBegin, Script
  <2>2. worker.pc \notin Final
    BY <2>1 DEF CloseInv
  <2> QED BY <2>1, <2>2, <1>0, ToldNothing
<1>4. CASE CloseQueue
  <2>1. CASE conn.state \in {CLOSING, CLOSED}
    BY <1>4, <2>1, <1>0, <1>a, ToldNothing DEF CloseQueue
  <2>2. CASE conn.state \notin {CLOSING, CLOSED}
    <3>1. /\ worker' = worker /\ idles' = idles /\ timers' = timers
          /\ page' = [page EXCEPT !.pc = "closed"]
          /\ conn' = [conn EXCEPT !.out = Append(conn.out, Close)]
          /\ notes' = [notes EXCEPT !.accepted = Append(notes.accepted, Close)]
      BY <1>4, <2>2 DEF CloseQueue
    <3>2. SameTold(notes, notes')
      BY <3>1, <1>0, NoteField
    <3>3. conn'.state = conn.state /\ conn'.detached = conn.detached
          /\ page'.readyState = page.readyState
      BY <3>1, <1>a, <1>b
    <3> QED BY <3>1, <3>2, <3>3, ToldNothing
  <2> QED BY <2>1, <2>2
<1>5. CASE CloseState
  <2>1. /\ worker' = worker /\ idles' = idles /\ timers' = timers /\ notes' = notes
        /\ page' = [page EXCEPT !.pc = "idle"] /\ conn' = [conn EXCEPT !.state = CLOSING]
    BY <1>5 DEF CloseState
  <2>2. conn'.state = CLOSING /\ conn'.detached = conn.detached
    BY <2>1, <1>0 DEF IsConn
  <2> QED BY <2>1, <2>2, <1>0, <1>a, ToldNothing
<1>6. CASE PumpBegin
  <2>1. /\ worker' = worker /\ idles' = idles /\ timers' = timers /\ conn' = conn
        /\ notes' = notes /\ page' = [page EXCEPT !.busy = TRUE, !.pumps = page.pumps + 1]
    BY <1>6 DEF PumpBegin, Script
  <2>2. page'.readyState = page.readyState
    BY <2>1, <1>0 DEF IsPage
  <2> QED BY <2>1, <2>2, <1>0, ToldNothing
<1>7. CASE PumpEnd
  <2>1. /\ worker' = worker /\ idles' = idles /\ timers' = timers /\ conn' = conn
        /\ notes' = notes /\ page' = [page EXCEPT !.busy = FALSE]
    BY <1>7 DEF PumpEnd
  <2>2. page'.readyState = page.readyState
    BY <2>1, <1>0 DEF IsPage
  <2> QED BY <2>1, <2>2, <1>0, ToldNothing
<1>8. CASE FreeBegin
  <2>1. /\ worker' = worker /\ idles' = idles /\ timers' = timers /\ notes' = notes
        /\ page' = [page EXCEPT !.pc = "joining"]
        /\ conn' = [conn EXCEPT !.detached = TRUE, !.exit = TRUE]
    BY <1>8 DEF FreeBegin, Script
  <2>2. conn'.state = conn.state /\ conn'.detached
    BY <2>1, <1>0 DEF IsConn
  <2> QED BY <2>1, <2>2, <1>0, <1>a, ToldNothing
<1>9. CASE FreeJoin
  <2>1. /\ worker' = worker /\ idles' = idles /\ timers' = timers /\ notes' = notes
        /\ page' = [page EXCEPT !.pc = "freed"] /\ conn' = [conn EXCEPT !.refs = conn.refs - 1]
    BY <1>9 DEF FreeJoin
  <2>2. conn'.state = conn.state /\ conn'.detached = conn.detached
    BY <2>1, <1>0 DEF IsConn
  <2> QED BY <2>1, <2>2, <1>0, <1>a, ToldNothing
<1> QED
  BY <1>1, <1>2, <1>3, <1>4, <1>5, <1>6, <1>7, <1>8, <1>9 DEF Page

\* A dispatch puts the post off, tells script of it, or drops it if nobody listens.
Dispatched(e, q) ==
  \/ /\ timers' = Append(q, e) /\ notes'.delivered = notes.delivered /\ notes'.deferred
     /\ page'.readyState = page.readyState
  \/ /\ timers' = q /\ notes'.deferred = notes.deferred
     /\ notes'.delivered = Append(notes.delivered, e)
     /\ e = Close => page'.readyState = CLOSED
  \/ conn.detached /\ timers' = q /\ notes' = notes

\* ns_ws_dispatch_run does one of these, and leaves the state of the connection.
LEMMA DispatchedOne ==
  ASSUME Shape, IsNotes(notes), NEW STATE e, NEW STATE q, Run(e, q)
  PROVE  /\ Dispatched(e, q) /\ IsNotes(notes')
         /\ conn'.state = conn.state /\ conn'.detached = conn.detached
<1>1. CASE page.busy /\ ~conn.detached
  <2>1. /\ timers' = Append(q, e) /\ notes' = [notes EXCEPT !.deferred = TRUE]
        /\ conn' = conn /\ page' = page
    BY <1>1 DEF Run
  <2>2. notes'.delivered = notes.delivered /\ notes'.deferred /\ IsNotes(notes')
    BY <2>1 DEF IsNotes
  <2> QED BY <2>1, <2>2 DEF Dispatched
<1>2. CASE ~(page.busy /\ ~conn.detached)
  <2>1. timers' = q /\ Released
        /\ IF conn.detached THEN page' = page /\ notes' = notes ELSE Invoked(e)
    BY <1>2 DEF Run
  <2>2. conn'.state = conn.state /\ conn'.detached = conn.detached
    <3>1. PICK b : b = [conn EXCEPT !.refs = conn.refs - 1]
      OBVIOUS
    <3>2. IsConn(b) /\ b.state = conn.state /\ b.detached = conn.detached
      BY <3>1 DEF Shape, IsConn
    <3>3. conn' = [b EXCEPT !.pending = conn.pending - 1]
      BY <2>1, <3>1 DEF Released
    <3> QED BY <3>2, <3>3 DEF IsConn
  <2>3. CASE conn.detached
    BY <2>1, <2>2, <2>3 DEF Dispatched
  <2>4. CASE ~conn.detached
    <3>1. Invoked(e)
      BY <2>1, <2>4
    <3>2. PICK d : d = Append(notes.delivered, e)
      OBVIOUS
    <3>3. IsSeq(d)
      BY <3>2, SeqAppend DEF IsNotes
    <3>4. notes' = [notes EXCEPT !.delivered = d]
      BY <3>1, <3>2 DEF Invoked
    <3>5. notes'.delivered = d /\ notes'.deferred = notes.deferred /\ IsNotes(notes')
      BY <3>3, <3>4 DEF IsNotes
    <3>6. ASSUME e = Close PROVE page'.readyState = CLOSED
      <4>1. page' = [page EXCEPT !.readyState = CLOSED, !.pinned = FALSE]
        BY <3>1, <3>6 DEF Invoked, Open, Close
      <4> QED BY <4>1 DEF Shape, IsPage
    <3> QED BY <2>1, <2>2, <3>2, <3>5, <3>6 DEF Dispatched
  <2> QED BY <2>3, <2>4
<1> QED BY <1>1, <1>2
\* A dispatch of the last post, or of one that was put off, takes the close along.
LEMMA EngineTells ==
  ASSUME SocketInv, CloseInv, DispatchIdle \/ DispatchTimer
  PROVE  CloseInv'
<1>0. Shape /\ IsSeq(idles) /\ IsSeq(timers) /\ IsNotes(notes) /\ IsSeq(notes.delivered)
  BY DEF SocketInv, CloseInv, Shape, IsNotes
<1>1. PICK e, q :
        /\ Dispatched(e, q) /\ IsNotes(notes') /\ IsSeq(q)
        /\ conn'.state = conn.state /\ conn'.detached = conn.detached /\ worker' = worker
        /\ \/ idles # <<>> /\ idles' = Tail(idles) /\ e = Head(idles) /\ q = timers
           \/ timers # <<>> /\ idles' = idles /\ e = Head(timers) /\ q = Tail(timers)
  <2>1. CASE DispatchIdle
    <3>1. idles # <<>> /\ idles' = Tail(idles) /\ Run(Head(idles), timers) /\ worker' = worker
      BY <2>1 DEF DispatchIdle
    <3>2. /\ Dispatched(Head(idles), timers) /\ IsNotes(notes')
          /\ conn'.state = conn.state /\ conn'.detached = conn.detached
      BY <1>0, <3>1, DispatchedOne
    <3> QED BY <1>0, <3>1, <3>2
  <2>2. CASE DispatchTimer
    <3>1. timers # <<>> /\ idles' = idles /\ Run(Head(timers), Tail(timers)) /\ worker' = worker
      BY <2>2 DEF DispatchTimer
    <3>2. /\ Dispatched(Head(timers), Tail(timers)) /\ IsNotes(notes')
          /\ conn'.state = conn.state /\ conn'.detached = conn.detached
      BY <1>0, <3>1, DispatchedOne
    <3>3. IsSeq(Tail(timers))
      BY <1>0, <3>1, SeqTail
    <3> QED BY <3>1, <3>2, <3>3
  <2> QED BY <2>1, <2>2
<1>2. q # <<>> => notes.deferred
  <2>1. q # <<>> => timers # <<>>
    BY <1>1
  <2> QED BY <2>1 DEF CloseInv
<1>3. timers' # <<>> => notes'.deferred
  BY <1>1, <1>2 DEF Dispatched
<1>4. worker'.pc \in Final => conn'.state \in {CLOSING, CLOSED}
  BY <1>1 DEF CloseInv
<1>5. ASSUME worker'.pc \in Silent, ~conn'.detached PROVE Coming'
  <2>0. Coming /\ ~conn.detached
    BY <1>1, <1>5 DEF CloseInv
  <2>a. \A x : Among(x, q) => Among(x, timers')
    BY <1>1, <2>0, AmongAppend DEF Dispatched
  <2>b. ASSUME e = Close, idles' = <<>> PROVE Coming'
    <3>1. CASE timers' = Append(q, e)
      <4>1. Among(e, timers')
        BY <1>1, <3>1, AmongAppend
      <4> QED BY <2>b, <4>1 DEF Coming
    <3>2. CASE notes'.delivered = Append(notes.delivered, e) /\ page'.readyState = CLOSED
      <4>1. Among(e, notes'.delivered)
        BY <1>0, <3>2, AmongAppend
      <4> QED BY <2>b, <3>2, <4>1 DEF Coming
    <3> QED BY <1>1, <2>0, <2>b, <3>1, <3>2 DEF Dispatched
  <2>1. CASE idles # <<>> /\ idles' = Tail(idles) /\ e = Head(idles) /\ q = timers
    <3>1. idles[Len(idles)] = Close
      BY <2>0, <2>1 DEF Coming
    <3>2. CASE Tail(idles) = <<>>
      <4>1. e = Close
        BY <1>0, <2>1, <3>1, <3>2, AmongTail
      <4> QED BY <2>1, <2>b, <3>2, <4>1
    <3>3. CASE Tail(idles) # <<>>
      <4>1. idles'[Len(idles')] = Close /\ idles' # <<>>
        BY <1>0, <2>1, <3>1, <3>3, AmongTail
      <4> QED BY <4>1 DEF Coming
    <3> QED BY <3>2, <3>3
  <2>2. CASE timers # <<>> /\ idles' = idles /\ e = Head(timers) /\ q = Tail(timers)
    <3>1. CASE idles # <<>>
      <4>1. idles'[Len(idles')] = Close /\ idles' # <<>>
        BY <2>0, <2>2, <3>1 DEF Coming
      <4> QED BY <4>1 DEF Coming
    <3>2. CASE idles = <<>> /\ Among(Close, timers)
      <4>1. Close = e \/ Among(Close, q)
        BY <1>0, <2>2, <3>2, AmongTail
      <4>2. CASE Among(Close, q)
        BY <2>2, <2>a, <3>2, <4>2 DEF Coming
      <4> QED BY <2>2, <2>b, <3>2, <4>1, <4>2
    <3>3. CASE idles = <<>> /\ Among(Close, notes.delivered)
      <4>1. notes.deferred
        BY <2>2 DEF CloseInv
      <4>2. \A x : Among(x, notes.delivered) => Among(x, Append(notes.delivered, e))
        BY <1>0, AmongAppend
      <4>3. Among(Close, notes'.delivered) /\ notes'.deferred
        BY <1>1, <2>0, <3>3, <4>1, <4>2 DEF Dispatched
      <4> QED BY <2>2, <3>3, <4>3 DEF Coming
    <3> QED BY <2>0, <3>1, <3>2, <3>3 DEF Coming
  <2> QED BY <1>1, <2>1, <2>2
<1> QED BY <1>1, <1>3, <1>4, <1>5 DEF CloseInv

\* CloseInv is inductive with SocketInv.
LEMMA CloseKept == SocketSpec => []CloseInv
<1>1. SocketInit => CloseInv
  BY CloseInit
<1>2. SocketInv /\ CloseInv /\ [SocketNext]_vars => CloseInv'
  <2> SUFFICES ASSUME SocketInv, CloseInv, [SocketNext]_vars PROVE CloseInv'
    OBVIOUS
  <2>1. CASE Worker
    BY <2>1, WorkerTells
  <2>2. CASE DispatchIdle \/ DispatchTimer
    BY <2>2, EngineTells
  <2>3. CASE Page
    BY <2>3, PageTells
  <2>4. CASE UNCHANGED vars
    <3>1. SameTold(notes, notes)
      BY DEF CloseInv, SameTold
    <3> QED BY <2>4, <3>1, ToldNothing DEF vars
  <2> QED BY <2>1, <2>2, <2>3, <2>4 DEF SocketNext
<1> QED BY <1>1, <1>2, SocketCounts, PTL DEF SocketSpec

\* When the worker is done and nothing is under way script has been told of the close,
\* for any limit of the backlog: ns_ws_dispatch_close, ns_ws_post, ns_ws_dispatch_run
\* and the callbacks of js.c.
THEOREM CloseToldAtRest == SocketSpec => []ClosedAtRest
<1>1. CloseInv => ClosedAtRest
  <2> SUFFICES ASSUME CloseInv, worker.pc = "done", idles = <<>>, timers = <<>>, ~conn.detached
               PROVE  Among(Close, notes.delivered) /\ (page.readyState = CLOSED \/ notes.deferred)
    BY DEF ClosedAtRest, Among
  <2>1. Coming
    BY DEF CloseInv, Silent
  <2>2. ~Among(Close, <<>>)
    BY DEF Among
  <2> QED BY <2>1, <2>2 DEF Coming
<1> QED BY <1>1, CloseKept, PTL

-----------------------------------------------------------------------------
(* What goes on the wire *)

\* Once the worker sends no more.
Ended == {"ending", "closing", "closed", "done"}

\* a is w followed by o; w is the beginning of a.
Joins(w, o, a) ==
  /\ Len(a) = Len(w) + Len(o)
  /\ \A i \in 1..Len(w) : a[i] = w[i]
  /\ \A i \in 1..Len(o) : a[Len(w) + i] = o[i]
Begins(w, a) ==
  /\ Len(w) <= Len(a)
  /\ \A i \in 1..Len(w) : a[i] = w[i]

\* Everything accepted was sent or waits, until the worker ends, perhaps with a
\* close frame of its own.
ThenClosed(w, a) ==
  /\ Len(w) > 0 /\ w[Len(w)] = Close
  /\ Len(w) - 1 <= Len(a)
  /\ \A i \in 1..(Len(w) - 1) : a[i] = w[i]
Queues == IsSeq(conn.out) /\ IsSeq(notes.wire) /\ IsSeq(notes.accepted)
WireInv ==
  /\ Queues
  /\ worker.pc \notin Ended => \A i \in 1..Len(notes.wire) : notes.wire[i] # Close
  /\ \A i \in 1..(Len(notes.wire) - 1) : notes.wire[i] # Close
  /\ ~notes.sendFailed =>
       IF worker.pc \notin Ended THEN Joins(notes.wire, conn.out, notes.accepted)
       ELSE Begins(notes.wire, notes.accepted) \/ ThenClosed(notes.wire, notes.accepted)

\* What Append does to the places of a sequence.
LEMMA AppendPlaces ==
  ASSUME NEW q, IsSeq(q), NEW e
  PROVE  /\ IsSeq(Append(q, e)) /\ Len(Append(q, e)) = Len(q) + 1 /\ Len(q) \in Nat
         /\ Append(q, e)[Len(q) + 1] = e
         /\ \A i \in 1..Len(q) : Append(q, e)[i] = q[i]
<1>1. PICK S : q \in Seq(S)
  BY DEF IsSeq
<1>2. q \in Seq(S \cup {e}) /\ e \in S \cup {e}
  BY <1>1
<1>3. /\ Append(q, e)[Len(q) + 1] = e
      /\ \A i \in 1..Len(q) : Append(q, e)[i] = q[i]
  BY <1>2
<1> QED BY <1>3, SeqAppend

\* What Tail does to them.
LEMMA TailPlaces ==
  ASSUME NEW q, IsSeq(q), q # <<>>
  PROVE  /\ IsSeq(Tail(q)) /\ Len(Tail(q)) = Len(q) - 1 /\ Len(q) \in Nat \ {0}
         /\ Head(q) = q[1]
         /\ \A i \in 1..Len(Tail(q)) : Tail(q)[i] = q[i + 1]
<1>1. PICK S : q \in Seq(S)
  BY DEF IsSeq
<1>2. /\ Len(q) \in Nat \ {0} /\ Head(q) = q[1]
      /\ \A i \in 1..Len(Tail(q)) : Tail(q)[i] = q[i + 1]
  BY <1>1
<1> QED BY <1>2, SeqTail

\* Accepting a message appends it to what is accepted and to what waits.
LEMMA JoinsAccept ==
  ASSUME NEW w, NEW o, NEW a, IsSeq(w), IsSeq(o), IsSeq(a), Joins(w, o, a), NEW e
  PROVE  Joins(w, Append(o, e), Append(a, e))
<1>1. PICK p, b : p = Append(o, e) /\ b = Append(a, e)
  OBVIOUS
<1>2. /\ Len(p) = Len(o) + 1 /\ Len(o) \in Nat /\ p[Len(o) + 1] = e
      /\ \A i \in 1..Len(o) : p[i] = o[i]
  BY <1>1, AppendPlaces
<1>3. /\ Len(b) = Len(a) + 1 /\ Len(a) \in Nat /\ b[Len(a) + 1] = e
      /\ \A i \in 1..Len(a) : b[i] = a[i]
  BY <1>1, AppendPlaces
<1>4. Len(w) \in Nat /\ Len(a) = Len(w) + Len(o)
  BY SeqLen DEF Joins
<1>5. Len(b) = Len(w) + Len(p)
  BY <1>2, <1>3, <1>4
<1>6. \A i \in 1..Len(w) : b[i] = w[i]
  BY <1>2, <1>3, <1>4 DEF Joins
<1>7. ASSUME NEW i \in 1..Len(p) PROVE b[Len(w) + i] = p[i]
  <2>1. CASE i \in 1..Len(o)
    <3>1. a[Len(w) + i] = o[i] /\ p[i] = o[i]
      BY <1>2, <2>1 DEF Joins
    <3>2. Len(w) + i \in 1..Len(a)
      BY <1>2, <1>4, <2>1
    <3> QED BY <1>3, <3>1, <3>2
  <2>2. CASE i = Len(o) + 1
    <3>1. Len(w) + i = Len(a) + 1
      BY <1>2, <1>4, <2>2
    <3> QED BY <1>2, <1>3, <2>2, <3>1
  <2> QED BY <1>2, <2>1, <2>2
<1> QED BY <1>1, <1>5, <1>6, <1>7 DEF Joins

\* Sending takes the first that waits to the end of the wire.
LEMMA JoinsSend ==
  ASSUME NEW w, NEW o, NEW a, IsSeq(w), IsSeq(o), IsSeq(a), Joins(w, o, a), o # <<>>
  PROVE  Joins(Append(w, Head(o)), Tail(o), a)
<1>1. PICK v, t, e : v = Append(w, e) /\ t = Tail(o) /\ e = Head(o)
  OBVIOUS
<1>2. /\ Len(v) = Len(w) + 1 /\ Len(w) \in Nat /\ v[Len(w) + 1] = e
      /\ \A i \in 1..Len(w) : v[i] = w[i]
  BY <1>1, AppendPlaces
<1>3. /\ Len(t) = Len(o) - 1 /\ Len(o) \in Nat \ {0} /\ e = o[1]
      /\ \A i \in 1..Len(t) : t[i] = o[i + 1]
  BY <1>1, TailPlaces
<1>4. Len(a) = Len(v) + Len(t)
  BY <1>2, <1>3 DEF Joins
<1>5. ASSUME NEW i \in 1..Len(v) PROVE a[i] = v[i]
  <2>1. CASE i \in 1..Len(w)
    BY <1>2, <2>1 DEF Joins
  <2>2. CASE i = Len(w) + 1
    <3>1. 1 \in 1..Len(o)
      BY <1>3
    <3>2. a[Len(w) + 1] = o[1]
      BY <3>1 DEF Joins
    <3> QED BY <1>2, <1>3, <2>2, <3>2
  <2> QED BY <1>2, <2>1, <2>2
<1>6. ASSUME NEW i \in 1..Len(t) PROVE a[Len(v) + i] = t[i]
  <2>1. i + 1 \in 1..Len(o) /\ Len(v) + i = Len(w) + (i + 1)
    BY <1>2, <1>3
  <2>2. a[Len(w) + (i + 1)] = o[i + 1]
    BY <2>1 DEF Joins
  <2> QED BY <1>3, <2>1, <2>2
<1> QED BY <1>1, <1>4, <1>5, <1>6 DEF Joins

\* What was sent begins what was accepted.
LEMMA JoinsBegins ==
  ASSUME NEW w, NEW o, NEW a, IsSeq(w), IsSeq(o), Joins(w, o, a)
  PROVE  Begins(w, a)
<1>1. Len(w) \in Nat /\ Len(o) \in Nat
  BY SeqLen
<1> QED BY <1>1 DEF Joins, Begins

\* A frame that closes, sent out of turn.
LEMMA ClosesBegins ==
  ASSUME NEW w, NEW a, IsSeq(w), Begins(w, a)
  PROVE  ThenClosed(Append(w, Close), a)
<1>0. PICK e : e = Close
  OBVIOUS
<1>1. PICK v : v = Append(w, e)
  OBVIOUS
<1>2. /\ Len(v) = Len(w) + 1 /\ Len(w) \in Nat /\ v[Len(w) + 1] = e
      /\ \A i \in 1..Len(w) : v[i] = w[i]
  BY <1>1, AppendPlaces
<1>3. Len(v) > 0 /\ Len(v) - 1 = Len(w) /\ v[Len(v)] = e
  BY <1>2
<1>4. \A i \in 1..(Len(v) - 1) : a[i] = v[i]
  BY <1>2, <1>3 DEF Begins
<1>5. ThenClosed(v, a)
  BY <1>0, <1>3, <1>4 DEF ThenClosed, Begins
<1> QED BY <1>0, <1>1, <1>5

\* Once the worker has ended, accepting more changes nothing of it.
LEMMA AcceptLate ==
  ASSUME NEW w, NEW a, IsSeq(w), IsSeq(a), NEW e, Begins(w, a) \/ ThenClosed(w, a)
  PROVE  Begins(w, Append(a, e)) \/ ThenClosed(w, Append(a, e))
<1>1. PICK b : b = Append(a, e)
  OBVIOUS
<1>2. /\ Len(b) = Len(a) + 1 /\ Len(a) \in Nat /\ Len(w) \in Nat
      /\ \A i \in 1..Len(a) : b[i] = a[i]
  BY <1>1, AppendPlaces, SeqLen
<1>3. CASE Begins(w, a)
  BY <1>1, <1>2, <1>3 DEF Begins
<1>4. CASE ThenClosed(w, a)
  BY <1>1, <1>2, <1>4 DEF ThenClosed
<1> QED BY <1>3, <1>4
\* What begins a sequence place by place is a prefix of it.
LEMMA PrefixByPlaces ==
  ASSUME NEW s, NEW t, IsSeq(s), IsSeq(t), Begins(s, t)
  PROVE  IsPrefix(s, t)
<1>1. PICK S, T : s \in Seq(S) /\ t \in Seq(T)
  BY DEF IsSeq
<1>2. s \in Seq(S \cup T) /\ t \in Seq(S \cup T)
  BY <1>1
<1>3. PICK n \in Nat : n = Len(s)
  BY <1>1
<1>4. n <= Len(t) /\ Len(t) \in Nat /\ 1..n \subseteq 1..Len(t)
  BY <1>1, <1>3 DEF Begins
<1>5. PICK x, y : x = SubSeq(s, 1, n) /\ y = SubSeq(t, 1, n)
  OBVIOUS
<1>6. x \in Seq(S \cup T) /\ Len(x) = n /\ \A i \in 1..n : x[i] = s[i]
  BY <1>2, <1>3, <1>5
<1>7. y \in Seq(S \cup T) /\ Len(y) = n /\ \A i \in 1..n : y[i] = t[i]
  BY <1>2, <1>4, <1>5
<1>8. \A i \in 1..n : x[i] = y[i]
  BY <1>3, <1>6, <1>7 DEF Begins
<1>9. x = y
  BY <1>6, <1>7, <1>8
<1> QED BY <1>3, <1>4, <1>5, <1>9 DEF IsPrefix

\* All but the last of a sequence.
LEMMA FrontPlaces ==
  ASSUME NEW s, IsSeq(s), Len(s) > 0
  PROVE  /\ IsSeq(SubSeq(s, 1, Len(s) - 1)) /\ Len(SubSeq(s, 1, Len(s) - 1)) = Len(s) - 1
         /\ \A i \in 1..(Len(s) - 1) : SubSeq(s, 1, Len(s) - 1)[i] = s[i]
<1>1. PICK S : s \in Seq(S)
  BY DEF IsSeq
<1>2. Len(s) \in Nat \ {0}
  BY <1>1
<1>3. PICK m \in Nat : m = Len(s) - 1
  BY <1>2
<1>4. PICK x : x = SubSeq(s, 1, m)
  OBVIOUS
<1>5. m <= Len(s) /\ 1..m \subseteq 1..Len(s)
  BY <1>2, <1>3
<1>6. x \in Seq(S) /\ Len(x) = m /\ \A i \in 1..m : x[i] = s[i]
  BY <1>1, <1>4, <1>5
<1> QED BY <1>3, <1>4, <1>6 DEF IsSeq

\* The invariant is strong enough.
LEMMA WireIsInOrder == WireInv => WireInOrder
<1> SUFFICES ASSUME WireInv PROVE WireInOrder
  OBVIOUS
<1>1. PICK w, a : w = notes.wire /\ a = notes.accepted
  OBVIOUS
<1>2. IsSeq(w) /\ IsSeq(a) /\ \A i \in 1..(Len(w) - 1) : w[i] # Close
  BY <1>1 DEF WireInv, Queues
<1>3. ASSUME ~notes.sendFailed, Len(w) > 0
      PROVE  \/ IsPrefix(w, a)
             \/ w[Len(w)] = Close /\ IsPrefix(SubSeq(w, 1, Len(w) - 1), a)
  <2>1. Begins(w, a) \/ ThenClosed(w, a)
    <3>1. CASE worker.pc \notin Ended
      BY <1>1, <1>3, <3>1, JoinsBegins DEF WireInv, Queues
    <3>2. CASE worker.pc \in Ended
      BY <1>1, <1>3, <3>2 DEF WireInv
    <3> QED BY <3>1, <3>2
  <2>2. CASE Begins(w, a)
    BY <1>2, <2>2, PrefixByPlaces
  <2>3. CASE ThenClosed(w, a)
    <3>1. PICK f : f = SubSeq(w, 1, Len(w) - 1)
      OBVIOUS
    <3>2. IsSeq(f) /\ Len(f) = Len(w) - 1 /\ \A i \in 1..(Len(w) - 1) : f[i] = w[i]
      BY <1>2, <1>3, <3>1, FrontPlaces
    <3>3. Begins(f, a)
      BY <2>3, <3>2 DEF ThenClosed, Begins
    <3>4. IsPrefix(f, a)
      BY <1>2, <3>2, <3>3, PrefixByPlaces
    <3> QED BY <2>3, <3>1, <3>4 DEF ThenClosed
  <2> QED BY <2>1, <2>2, <2>3
<1> QED BY <1>1, <1>2, <1>3 DEF WireInOrder

-----------------------------------------------------------------------------
\* At the start nothing was accepted.
LEMMA WireInit == SocketInit => WireInv
<1> SUFFICES ASSUME SocketInit PROVE WireInv
  OBVIOUS
<1>1. IsSeq(<<>>) /\ Len(<<>>) = 0
  <2>1. <<>> \in Seq({})
    OBVIOUS
  <2> QED BY <2>1 DEF IsSeq
<1>2. conn.out = <<>> /\ notes.wire = <<>> /\ notes.accepted = <<>> /\ worker.pc = "connect"
  BY DEF SocketInit
<1>3. Joins(notes.wire, conn.out, notes.accepted)
  BY <1>1, <1>2 DEF Joins
<1> QED BY <1>1, <1>2, <1>3 DEF WireInv, Queues, Ended

\* A step that queues and sends nothing, and that ends the worker for good if it does.
SameWire ==
  /\ conn'.out = conn.out /\ notes'.wire = notes.wire
  /\ notes'.accepted = notes.accepted /\ notes'.sendFailed = notes.sendFailed
LEMMA SentNothing ==
  ASSUME WireInv, SameWire, worker.pc \in Ended => worker'.pc \in Ended
  PROVE  WireInv'
<1>1. Queues' /\ \A i \in 1..(Len(notes'.wire) - 1) : notes'.wire[i] # Close
  BY DEF WireInv, Queues, SameWire
<1>2. worker'.pc \notin Ended => \A i \in 1..Len(notes'.wire) : notes'.wire[i] # Close
  BY DEF WireInv, SameWire
<1>3. ASSUME ~notes'.sendFailed
      PROVE  IF worker'.pc \notin Ended THEN Joins(notes'.wire, conn'.out, notes'.accepted)
             ELSE Begins(notes'.wire, notes'.accepted) \/ ThenClosed(notes'.wire, notes'.accepted)
  <2>1. CASE worker.pc \notin Ended
    <3>1. Joins(notes.wire, conn.out, notes.accepted)
      BY <1>3, <2>1 DEF WireInv, SameWire
    <3>2. Begins(notes.wire, notes.accepted)
      BY <3>1, JoinsBegins DEF WireInv, Queues
    <3> QED BY <3>1, <3>2 DEF SameWire
  <2>2. CASE worker.pc \in Ended
    BY <1>3, <2>2 DEF WireInv, SameWire
  <2> QED BY <2>1, <2>2
<1> QED BY <1>1, <1>2, <1>3 DEF WireInv
\* The message at the head of the queue goes on the wire.
LEMMA SentHead ==
  ASSUME WireInv, worker.pc \notin Ended, conn.out # <<>>, NEW e, e = Head(conn.out),
         conn'.out = Tail(conn.out), notes'.wire = Append(notes.wire, e),
         notes'.accepted = notes.accepted, notes'.sendFailed = notes.sendFailed,
         e = Close => worker'.pc \in Ended
  PROVE  WireInv'
<1>1. PICK w, o, a, v, t : /\ w = notes.wire /\ o = conn.out /\ a = notes.accepted
                           /\ v = notes'.wire /\ t = conn'.out
  OBVIOUS
<1>2. IsSeq(w) /\ IsSeq(o) /\ IsSeq(a) /\ \A i \in 1..Len(w) : w[i] # Close
  BY <1>1 DEF WireInv, Queues
<1>3. /\ IsSeq(v) /\ Len(v) = Len(w) + 1 /\ Len(w) \in Nat /\ v[Len(w) + 1] = e
      /\ \A i \in 1..Len(w) : v[i] = w[i]
  BY <1>1, <1>2, AppendPlaces
<1>4. IsSeq(t) /\ Queues'
  BY <1>1, <1>2, <1>3, TailPlaces DEF Queues
<1>5. \A i \in 1..(Len(v) - 1) : v[i] # Close
  BY <1>2, <1>3
<1>6. worker'.pc \notin Ended => \A i \in 1..Len(v) : v[i] # Close
  BY <1>2, <1>3
<1>7. ASSUME ~notes.sendFailed PROVE Joins(v, t, a) /\ Begins(v, a)
  <2>1. Joins(w, o, a)
    BY <1>1, <1>7 DEF WireInv
  <2>2. Joins(v, t, a)
    BY <1>1, <1>2, <2>1, JoinsSend
  <2> QED BY <1>3, <1>4, <2>2, JoinsBegins
<1> QED BY <1>1, <1>4, <1>5, <1>6, <1>7 DEF WireInv

\* A close frame of the worker's own goes on the wire, and it ends.
LEMMA SentClose ==
  ASSUME WireInv, worker.pc \notin Ended, worker'.pc \in Ended,
         conn'.out = conn.out, notes'.wire = Append(notes.wire, Close),
         notes'.accepted = notes.accepted, notes'.sendFailed = notes.sendFailed
  PROVE  WireInv'
<1>0. PICK e : e = Close
  OBVIOUS
<1>1. PICK w, o, a, v : /\ w = notes.wire /\ o = conn.out /\ a = notes.accepted
                        /\ v = Append(w, e) /\ v = notes'.wire
  BY <1>0
<1>2. IsSeq(w) /\ IsSeq(o) /\ IsSeq(a) /\ \A i \in 1..Len(w) : w[i] # Close
  BY <1>1 DEF WireInv, Queues
<1>3. /\ IsSeq(v) /\ Len(v) = Len(w) + 1 /\ Len(w) \in Nat
      /\ \A i \in 1..Len(w) : v[i] = w[i]
  BY <1>1, <1>2, AppendPlaces
<1>4. \A i \in 1..(Len(v) - 1) : v[i] # Close
  BY <1>2, <1>3
<1>5. ASSUME ~notes.sendFailed PROVE ThenClosed(v, a)
  <2>1. Joins(w, o, a)
    BY <1>1, <1>5 DEF WireInv
  <2>2. Begins(w, a)
    BY <1>2, <2>1, JoinsBegins
  <2> QED BY <1>0, <1>1, <1>2, <2>2, ClosesBegins
<1>6. Queues'
  BY <1>1, <1>2, <1>3 DEF Queues
<1> QED BY <1>1, <1>4, <1>5, <1>6 DEF WireInv

\* The page queues a message or a close.
LEMMA Accepts ==
  ASSUME WireInv, worker' = worker, NEW e,
         conn'.out = Append(conn.out, e), notes'.accepted = Append(notes.accepted, e),
         notes'.wire = notes.wire, notes'.sendFailed = notes.sendFailed
  PROVE  WireInv'
<1>1. PICK w, o, a : w = notes.wire /\ o = conn.out /\ a = notes.accepted
  OBVIOUS
<1>2. IsSeq(w) /\ IsSeq(o) /\ IsSeq(a)
  BY <1>1 DEF WireInv, Queues
<1>3. Queues'
  BY <1>1, <1>2, SeqAppend DEF Queues
<1>4. ASSUME ~notes.sendFailed
      PROVE  IF worker.pc \notin Ended THEN Joins(w, Append(o, e), Append(a, e))
             ELSE Begins(w, Append(a, e)) \/ ThenClosed(w, Append(a, e))
  <2>1. CASE worker.pc \notin Ended
    <3>1. Joins(w, o, a)
      BY <1>1, <1>4, <2>1 DEF WireInv
    <3> QED BY <1>2, <2>1, <3>1, JoinsAccept
  <2>2. CASE worker.pc \in Ended
    <3>1. Begins(w, a) \/ ThenClosed(w, a)
      BY <1>1, <1>4, <2>2 DEF WireInv
    <3>2. Begins(w, Append(a, e)) \/ ThenClosed(w, Append(a, e))
      BY <1>2, <3>1, AcceptLate
    <3> QED BY <2>2, <3>2
  <2> QED BY <2>1, <2>2
<1> QED BY <1>1, <1>3, <1>4 DEF WireInv

\* A message that could not be sent is gone, and noted.
LEMMA SendFails ==
  ASSUME WireInv, worker' = worker, conn.out # <<>>, conn'.out = Tail(conn.out),
         notes'.accepted = notes.accepted, notes'.wire = notes.wire, notes'.sendFailed
  PROVE  WireInv'
<1>1. Queues'
  BY SeqTail DEF WireInv, Queues
<1> QED BY <1>1 DEF WireInv

\* Which fields a post leaves.
LEMMA PostOut ==
  ASSUME Shape, NEW n, NEW STATE e, NEW droppable, Posted(conn, n, e, droppable)
  PROVE  conn'.out = conn.out /\ notes' = n
<1>1. CASE conn.detached \/ (droppable /\ conn.pending >= MaxPending)
  BY <1>1 DEF Posted, Post
<1>2. CASE ~(conn.detached \/ (droppable /\ conn.pending >= MaxPending))
  <2>1. PICK b : b = [conn EXCEPT !.refs = conn.refs + 1]
    OBVIOUS
  <2>2. IsConn(b) /\ b.out = conn.out
    BY <2>1 DEF Shape, IsConn
  <2>3. PICK c : c = [b EXCEPT !.pending = conn.pending + 1]
    OBVIOUS
  <2>4. c.out = conn.out
    BY <2>2, <2>3 DEF IsConn
  <2>5. conn' = c /\ notes' = n
    BY <1>2, <2>1, <2>3 DEF Posted, Post
  <2> QED BY <2>4, <2>5
<1> QED BY <1>1, <1>2
\* The worker sends from the head of the queue, and a close ends it.
LEMMA WorkerSends ==
  ASSUME SocketInv, IsNotes(notes), WireInv, Worker
  PROVE  WireInv'
<1>0. IsConn(conn) /\ Shape
  BY WorkerFacts
<1>a. \A pc : Goto(pc) => worker'.pc = pc
  BY WorkerFacts DEF Goto, WorkerRec
<1>b. {"connect", "opening", "loop", "drain", "recv"} \cap Ended = {}
      /\ {"ending", "closing", "closed", "done"} \subseteq Ended
  BY DEF Ended
<1>c. ASSUME conn'.out = conn.out, notes' = notes PROVE SameWire
  BY <1>c DEF SameWire
<1>1. CASE ConnectError
  <2>1. worker.pc = "connect" /\ Posted(conn, notes, Error, FALSE)
    BY <1>1 DEF ConnectError, WorkerAt
  <2>2. conn'.out = conn.out /\ notes' = notes
    BY <1>0, <2>1, PostOut DEF Error
  <2> QED BY <2>1, <2>2, <1>b, <1>c, SentNothing
<1>2. CASE ConnectAborted
  BY <1>2, <1>b, <1>c, SentNothing DEF ConnectAborted, WorkerAt
<1>3. CASE ConnectOk
  <2>1. worker.pc = "connect" /\ notes' = notes /\ conn' = [conn EXCEPT !.state = OPEN]
    BY <1>3 DEF ConnectOk, WorkerAt
  <2>2. conn'.out = conn.out
    BY <1>0, <2>1 DEF IsConn
  <2> QED BY <2>1, <2>2, <1>b, <1>c, SentNothing
<1>4. CASE OpenPost
  <2>1. worker.pc = "opening" /\ Posted(conn, notes, Open, FALSE)
    BY <1>4 DEF OpenPost, WorkerAt
  <2>2. conn'.out = conn.out /\ notes' = notes
    BY <1>0, <2>1, PostOut DEF Open
  <2> QED BY <2>1, <2>2, <1>b, <1>c, SentNothing
<1>5. CASE LoopHead
  BY <1>5, <1>b, <1>c, SentNothing DEF LoopHead, WorkerAt
<1>6. CASE DrainMessage
  <2>1. /\ worker.pc = "drain" /\ worker' = worker /\ conn.out # <<>>
        /\ conn' = [conn EXCEPT !.out = Tail(conn.out)] /\ Head(conn.out) # Close
        /\ \/ notes' = [notes EXCEPT !.wire = Append(notes.wire, Head(conn.out))]
           \/ notes' = [notes EXCEPT !.sendFailed = TRUE]
    BY <1>6 DEF DrainMessage, WorkerAt, Taken
  <2>2. conn'.out = Tail(conn.out)
    BY <1>0, <2>1 DEF IsConn
  <2>3. CASE notes' = [notes EXCEPT !.wire = Append(notes.wire, Head(conn.out))]
    <3>1. /\ notes'.wire = Append(notes.wire, Head(conn.out))
          /\ notes'.accepted = notes.accepted /\ notes'.sendFailed = notes.sendFailed
      BY <2>3 DEF IsNotes
    <3> QED BY <2>1, <2>2, <3>1, <1>b, SentHead
  <2>4. CASE notes' = [notes EXCEPT !.sendFailed = TRUE]
    <3>1. notes'.accepted = notes.accepted /\ notes'.wire = notes.wire /\ notes'.sendFailed
      BY <2>4 DEF IsNotes
    <3> QED BY <2>1, <2>2, <3>1, SendFails
  <2> QED BY <2>1, <2>3, <2>4
<1>7. CASE DrainClose
  <2>1. /\ worker.pc = "drain" /\ worker' = [pc |-> "ending", clean |-> TRUE] /\ conn.out # <<>>
        /\ conn' = [conn EXCEPT !.out = Tail(conn.out), !.state = CLOSING] /\ Head(conn.out) = Close
        /\ notes' = [notes EXCEPT !.wire = Append(notes.wire, Close)]
    BY <1>7 DEF DrainClose, WorkerAt, Taken
  <2>2. conn'.out = Tail(conn.out) /\ worker'.pc \in Ended
    BY <1>0, <1>b, <2>1 DEF IsConn
  <2>3. /\ notes'.wire = Append(notes.wire, Head(conn.out))
        /\ notes'.accepted = notes.accepted /\ notes'.sendFailed = notes.sendFailed
    BY <2>1 DEF IsNotes
  <2> QED BY <2>1, <2>2, <2>3, <1>b, SentHead
<1>8. CASE DrainEnd
  BY <1>8, <1>b, <1>c, SentNothing DEF DrainEnd, WorkerAt
<1>9. CASE RecvNothing
  BY <1>9, <1>b, <1>c, SentNothing DEF RecvNothing, WorkerAt
<1>10. CASE RecvMessage
  <2>1. PICK n : n = [notes EXCEPT !.recvs = notes.recvs + 1]
    OBVIOUS
  <2>2. worker.pc = "recv" /\ Posted(conn, n, notes.recvs + 1, TRUE)
    BY <1>10, <2>1 DEF RecvMessage, WorkerAt
  <2>3. conn'.out = conn.out /\ notes' = n
    BY <1>0, <2>2, PostOut
  <2>4. SameWire
    BY <2>1, <2>3 DEF IsNotes, SameWire
  <2> QED BY <2>2, <2>4, <1>b, SentNothing
<1>11. CASE RecvError
  <2>1. worker.pc = "recv" /\ Posted(conn, notes, Error, FALSE)
    BY <1>11 DEF RecvError, WorkerAt
  <2>2. conn'.out = conn.out /\ notes' = notes
    BY <1>0, <2>1, PostOut DEF Error
  <2> QED BY <2>1, <2>2, <1>b, <1>c, SentNothing
<1>12. CASE RecvClose
  <2>1. /\ worker.pc = "recv" /\ worker'.pc = "ending"
        /\ conn' = [conn EXCEPT !.state = CLOSING]
        /\ notes' = [notes EXCEPT !.wire = Append(notes.wire, Close)]
    BY <1>12 DEF RecvClose, WorkerAt
  <2>2. conn'.out = conn.out
    BY <1>0, <2>1 DEF IsConn
  <2>3. /\ notes'.wire = Append(notes.wire, Close)
        /\ notes'.accepted = notes.accepted /\ notes'.sendFailed = notes.sendFailed
    BY <2>1 DEF IsNotes
  <2> QED BY <2>1, <2>2, <2>3, <1>b, SentClose
<1>13. CASE EndState
  <2>1. worker'.pc = "closing" /\ notes' = notes /\ conn' = [conn EXCEPT !.state = CLOSED]
    BY <1>13, <1>a DEF EndState, WorkerAt
  <2>2. conn'.out = conn.out
    BY <1>0, <2>1 DEF IsConn
  <2> QED BY <2>1, <2>2, <1>b, <1>c, SentNothing
<1>14. CASE EndPost
  <2>1. worker'.pc = "closed" /\ Posted(conn, notes, Close, FALSE)
    BY <1>14, <1>a DEF EndPost, WorkerAt
  <2>2. conn'.out = conn.out /\ notes' = notes
    BY <1>0, <2>1, PostOut DEF Close
  <2> QED BY <2>1, <2>2, <1>b, <1>c, SentNothing
<1>15. CASE EndUnref
  <2>1. worker'.pc = "done" /\ notes' = notes /\ conn' = [conn EXCEPT !.refs = conn.refs - 1]
    BY <1>15, <1>a DEF EndUnref, WorkerAt
  <2>2. conn'.out = conn.out
    BY <1>0, <2>1 DEF IsConn
  <2> QED BY <2>1, <2>2, <1>b, <1>c, SentNothing
<1> QED
  BY <1>1, <1>2, <1>3, <1>4, <1>5, <1>6, <1>7, <1>8, <1>9, <1>10, <1>11, <1>12,
     <1>13, <1>14, <1>15 DEF Worker

\* The engine's loop neither sends nor queues.
LEMMA EngineSends ==
  ASSUME SocketInv, IsNotes(notes), WireInv, NEW STATE e, NEW STATE q, Run(e, q),
         worker' = worker
  PROVE  WireInv'
<1>1. conn' = conn \/ Released
  BY DEF Run
<1>2. conn'.out = conn.out
  <2>1. CASE Released
    <3>1. PICK b : b = [conn EXCEPT !.refs = conn.refs - 1]
      OBVIOUS
    <3>2. IsConn(b) /\ b.out = conn.out
      BY <3>1 DEF SocketInv, Shape, IsConn
    <3>3. conn' = [b EXCEPT !.pending = conn.pending - 1]
      BY <2>1, <3>1 DEF Released
    <3> QED BY <3>2, <3>3 DEF IsConn
  <2> QED BY <1>1, <2>1
<1>3. /\ notes'.wire = notes.wire /\ notes'.accepted = notes.accepted
      /\ notes'.sendFailed = notes.sendFailed
  <2>1. CASE notes' = [notes EXCEPT !.deferred = TRUE]
    BY <2>1 DEF IsNotes
  <2>2. CASE notes' = notes
    BY <2>2
  <2>3. CASE Invoked(e)
    <3>1. notes' = [notes EXCEPT !.delivered = Append(notes.delivered, e)]
      BY <2>3 DEF Invoked
    <3> QED BY <3>1 DEF IsNotes
  <2> QED BY <2>1, <2>2, <2>3 DEF Run
<1> QED BY <1>2, <1>3, SentNothing DEF SameWire

\* The page queues what it is allowed to send.
LEMMA PageSends ==
  ASSUME SocketInv, IsNotes(notes), WireInv, Page
  PROVE  WireInv'
<1>0. IsConn(conn)
  BY WorkerFacts
<1>a. ASSUME conn'.out = conn.out, notes' = notes, worker' = worker PROVE WireInv'
  BY <1>a, SentNothing DEF SameWire
<1>b. ASSUME NEW e, worker' = worker, conn' = [conn EXCEPT !.out = Append(conn.out, e)],
             notes' = [notes EXCEPT !.accepted = Append(notes.accepted, e)]
      PROVE  WireInv'
  <2>1. conn'.out = Append(conn.out, e)
    BY <1>0, <1>b DEF IsConn
  <2>2. /\ notes'.accepted = Append(notes.accepted, e)
        /\ notes'.wire = notes.wire /\ notes'.sendFailed = notes.sendFailed
    BY <1>b DEF IsNotes
  <2> QED BY <1>b, <2>1, <2>2, Accepts
<1>1. CASE SendBegin \/ CloseBegin \/ PumpBegin \/ PumpEnd
  BY <1>1, <1>a DEF SendBegin, CloseBegin, PumpBegin, PumpEnd, Script
<1>2. CASE SendQueue
  BY <1>2, <1>b DEF SendQueue
<1>3. CASE CloseQueue
  <2>1. CASE conn.state \in {CLOSING, CLOSED}
    BY <1>3, <2>1, <1>a DEF CloseQueue
  <2>2. CASE conn.state \notin {CLOSING, CLOSED}
    <3>1. PICK e : e = Close
      OBVIOUS
    <3>2. /\ worker' = worker /\ conn' = [conn EXCEPT !.out = Append(conn.out, e)]
          /\ notes' = [notes EXCEPT !.accepted = Append(notes.accepted, e)]
      BY <1>3, <2>2, <3>1 DEF CloseQueue
    <3> QED BY <3>2, <1>b
  <2> QED BY <2>1, <2>2
<1>4. CASE CloseState
  <2>1. worker' = worker /\ notes' = notes /\ conn' = [conn EXCEPT !.state = CLOSING]
    BY <1>4 DEF CloseState
  <2>2. conn'.out = conn.out
    BY <1>0, <2>1 DEF IsConn
  <2> QED BY <2>1, <2>2, <1>a
<1>5. CASE FreeBegin
  <2>1. worker' = worker /\ notes' = notes /\ conn' = [conn EXCEPT !.detached = TRUE, !.exit = TRUE]
    BY <1>5 DEF FreeBegin, Script
  <2>2. conn'.out = conn.out
    BY <1>0, <2>1 DEF IsConn
  <2> QED BY <2>1, <2>2, <1>a
<1>6. CASE FreeJoin
  <2>1. worker' = worker /\ notes' = notes /\ conn' = [conn EXCEPT !.refs = conn.refs - 1]
    BY <1>6 DEF FreeJoin
  <2>2. conn'.out = conn.out
    BY <1>0, <2>1 DEF IsConn
  <2> QED BY <2>1, <2>2, <1>a
<1> QED
  BY <1>1, <1>2, <1>3, <1>4, <1>5, <1>6 DEF Page

\* At every moment.
LEMMA WireKept == SocketSpec => []WireInv
<1>1. SocketInit => WireInv
  BY WireInit
<1>2. SocketInv /\ CloseInv /\ WireInv /\ [SocketNext]_vars => WireInv'
  <2> SUFFICES ASSUME SocketInv, CloseInv, WireInv, [SocketNext]_vars PROVE WireInv'
    OBVIOUS
  <2>0. IsNotes(notes)
    BY DEF CloseInv
  <2>1. CASE Worker
    BY <2>0, <2>1, WorkerSends
  <2>2. CASE DispatchIdle
    <3>1. Run(Head(idles), timers) /\ worker' = worker
      BY <2>2 DEF DispatchIdle
    <3> QED BY <2>0, <3>1, EngineSends
  <2>3. CASE DispatchTimer
    <3>1. Run(Head(timers), Tail(timers)) /\ worker' = worker
      BY <2>3 DEF DispatchTimer
    <3> QED BY <2>0, <3>1, EngineSends
  <2>4. CASE Page
    BY <2>0, <2>4, PageSends
  <2>5. CASE UNCHANGED vars
    BY <2>5, SentNothing DEF vars, SameWire
  <2> QED BY <2>1, <2>2, <2>3, <2>4, <2>5 DEF SocketNext
<1> QED BY <1>1, <1>2, SocketCounts, CloseKept, PTL DEF SocketSpec

\* What goes on the wire is what the page was allowed to send, in that order, and nothing
\* follows a close frame, for any number of messages: ns_ws_enqueue, ns_ws_close,
\* ns_ws_drain_outgoing and the worker's answers to what it receives.
THEOREM WireOrdered == SocketSpec => []WireInOrder
<1>1. WireInv => WireInOrder
  BY WireIsInOrder
<1> QED BY <1>1, WireKept, PTL


-----------------------------------------------------------------------------
(* The join: that the worker which ns_ws_free waits for goes to its end.   *)
(*                                                                         *)
(* An exit was requested and the page queues nothing more.  The worker may *)
(* be in the middle of its loop, with messages left to give up.            *)

\* The most steps the worker is from its end once an exit was requested, but for
\* the messages in its queue.
StepsFrom ==
  [drain |-> 6, recv |-> 5, opening |-> 5, loop |-> 4, connect |-> 4,
   ending |-> 3, closing |-> 2, closed |-> 1, done |-> 0]
StepsLeft == StepsFrom[worker.pc] + Len(conn.out)

\* It is a number.
LEMMA StepsNumber == Shape /\ Queues => StepsLeft \in Nat
<1> SUFFICES ASSUME Shape, Queues PROVE StepsLeft \in Nat
  OBVIOUS
<1>1. Len(conn.out) \in Nat
  BY SeqLen DEF Queues
<1>2. StepsFrom[worker.pc] \in Nat
  BY DEF Shape, WorkerRec, WorkerPcs, StepsFrom
<1> QED BY <1>1, <1>2 DEF StepsLeft

\* The worker goes on with the queue as it is.
LEMMA GoesNearer ==
  ASSUME Queues, conn'.out = conn.out, StepsFrom[worker.pc] \in Nat, StepsFrom[worker'.pc] \in Nat,
         StepsFrom[worker'.pc] < StepsFrom[worker.pc]
  PROVE  StepsLeft' < StepsLeft
<1>1. Len(conn.out) \in Nat
  BY SeqLen DEF Queues
<1> QED BY <1>1 DEF StepsLeft

\* A post leaves the request for an exit.
LEMMA PostExit ==
  ASSUME Shape, NEW n, NEW STATE e, NEW droppable, Posted(conn, n, e, droppable)
  PROVE  conn'.exit = conn.exit
<1>1. CASE conn.detached \/ (droppable /\ conn.pending >= MaxPending)
  BY <1>1 DEF Posted, Post
<1>2. CASE ~(conn.detached \/ (droppable /\ conn.pending >= MaxPending))
  <2>1. PICK b : b = [conn EXCEPT !.refs = conn.refs + 1]
    OBVIOUS
  <2>2. IsConn(b) /\ b.exit = conn.exit
    BY <2>1 DEF Shape, IsConn
  <2>3. PICK c : c = [b EXCEPT !.pending = conn.pending + 1]
    OBVIOUS
  <2>4. c.exit = conn.exit
    BY <2>2, <2>3 DEF IsConn
  <2>5. conn' = c
    BY <1>2, <2>1, <2>3 DEF Posted, Post
  <2> QED BY <2>4, <2>5
<1> QED BY <1>1, <1>2

\* A step of the worker after an exit was requested.
LEMMA WorkerNearer ==
  ASSUME Shape, Queues, conn.exit, Worker
  PROVE  conn'.exit /\ StepsLeft' < StepsLeft
<1>0. worker \in WorkerRec /\ IsConn(conn)
  BY DEF Shape
<1>1. CASE ConnectError \/ RecvError
  <2>1. Posted(conn, notes, Error, FALSE) /\ worker.pc \in {"connect", "recv"} /\ worker'.pc = "ending"
    BY <1>0, <1>1 DEF ConnectError, RecvError, WorkerAt, Goto, WorkerRec
  <2>2. conn'.out = conn.out /\ conn'.exit
    BY <2>1, PostOut, PostExit DEF Error
  <2> QED BY <2>1, <2>2, GoesNearer DEF StepsFrom
<1>2. CASE ConnectAborted
  BY <1>0, <1>2, GoesNearer DEF ConnectAborted, WorkerAt, Goto, WorkerRec, StepsFrom
<1>3. CASE ConnectOk
  BY <1>3 DEF ConnectOk
<1>4. CASE OpenPost
  <2>1. Posted(conn, notes, Open, FALSE) /\ worker.pc = "opening" /\ worker'.pc = "loop"
    BY <1>0, <1>4 DEF OpenPost, WorkerAt, Goto, WorkerRec
  <2>2. conn'.out = conn.out /\ conn'.exit
    BY <2>1, PostOut, PostExit DEF Open
  <2> QED BY <2>1, <2>2, GoesNearer DEF StepsFrom
<1>5. CASE LoopHead
  BY <1>0, <1>5, GoesNearer DEF LoopHead, WorkerAt, Goto, WorkerRec, StepsFrom
<1>6. CASE DrainMessage
  <2>1. worker' = worker /\ conn.out # <<>> /\ conn' = [conn EXCEPT !.out = Tail(conn.out)]
    BY <1>6 DEF DrainMessage, Taken
  <2>2. conn'.out = Tail(conn.out) /\ conn'.exit = conn.exit
    BY <1>0, <2>1 DEF IsConn
  <2>3. Len(conn'.out) = Len(conn.out) - 1 /\ Len(conn.out) \in Nat
    BY <2>1, <2>2, SeqTail DEF Queues
  <2>4. StepsFrom[worker.pc] \in Nat
    BY <1>0 DEF WorkerRec, WorkerPcs, StepsFrom
  <2> QED BY <2>1, <2>2, <2>3, <2>4 DEF StepsLeft
<1>7. CASE DrainClose
  <2>1. /\ worker.pc = "drain" /\ worker'.pc = "ending" /\ conn.out # <<>>
        /\ conn' = [conn EXCEPT !.out = Tail(conn.out), !.state = CLOSING]
    BY <1>7 DEF DrainClose, WorkerAt, Taken
  <2>2. conn'.out = Tail(conn.out) /\ conn'.exit = conn.exit
    BY <1>0, <2>1 DEF IsConn
  <2>3. Len(conn'.out) = Len(conn.out) - 1 /\ Len(conn.out) \in Nat
    BY <2>1, <2>2, SeqTail DEF Queues
  <2> QED BY <2>1, <2>2, <2>3 DEF StepsLeft, StepsFrom
<1>8. CASE DrainEnd \/ RecvNothing
  BY <1>0, <1>8, GoesNearer DEF DrainEnd, RecvNothing, WorkerAt, Goto, WorkerRec, StepsFrom
<1>9. CASE RecvMessage
  <2>1. /\ Posted(conn, [notes EXCEPT !.recvs = notes.recvs + 1], notes.recvs + 1, TRUE)
        /\ worker.pc = "recv" /\ worker'.pc = "loop"
    BY <1>0, <1>9 DEF RecvMessage, WorkerAt, Goto, WorkerRec
  <2>2. conn'.out = conn.out /\ conn'.exit
    BY <2>1, PostOut, PostExit
  <2> QED BY <2>1, <2>2, GoesNearer DEF StepsFrom
<1>10. CASE RecvClose
  <2>1. worker.pc = "recv" /\ worker'.pc = "ending" /\ conn' = [conn EXCEPT !.state = CLOSING]
    BY <1>10 DEF RecvClose, WorkerAt
  <2>2. conn'.out = conn.out /\ conn'.exit = conn.exit
    BY <1>0, <2>1 DEF IsConn
  <2> QED BY <2>1, <2>2, GoesNearer DEF StepsFrom
<1>11. CASE EndState
  <2>1. worker.pc = "ending" /\ worker'.pc = "closing" /\ conn' = [conn EXCEPT !.state = CLOSED]
    BY <1>0, <1>11 DEF EndState, WorkerAt, Goto, WorkerRec
  <2>2. conn'.out = conn.out /\ conn'.exit = conn.exit
    BY <1>0, <2>1 DEF IsConn
  <2> QED BY <2>1, <2>2, GoesNearer DEF StepsFrom
<1>12. CASE EndPost
  <2>1. Posted(conn, notes, Close, FALSE) /\ worker.pc = "closing" /\ worker'.pc = "closed"
    BY <1>0, <1>12 DEF EndPost, WorkerAt, Goto, WorkerRec
  <2>2. conn'.out = conn.out /\ conn'.exit
    BY <2>1, PostOut, PostExit DEF Close
  <2> QED BY <2>1, <2>2, GoesNearer DEF StepsFrom
<1>13. CASE EndUnref
  <2>1. worker.pc = "closed" /\ worker'.pc = "done" /\ conn' = [conn EXCEPT !.refs = conn.refs - 1]
    BY <1>0, <1>13 DEF EndUnref, WorkerAt, Goto, WorkerRec
  <2>2. conn'.out = conn.out /\ conn'.exit = conn.exit
    BY <1>0, <2>1 DEF IsConn
  <2> QED BY <2>1, <2>2, GoesNearer DEF StepsFrom
<1> QED BY <1>1, <1>2, <1>3, <1>4, <1>5, <1>6, <1>7, <1>8, <1>9, <1>10, <1>11, <1>12, <1>13 DEF Worker

\* ns_ws_free asks for the exit before it waits, and nothing lets the request go.
Asked == page.pc = "joining" => conn.exit

\* While ns_ws_free waits, each step of the worker takes it nearer to its end, and no
\* other step takes it away; the wait is over only when the worker is at its end.
Nearer ==
  page.pc = "joining" =>
    /\ page'.pc \in {"joining", "freed"}
    /\ page'.pc = "freed" => worker.pc = "done"
    /\ StepsLeft' < StepsLeft \/ (StepsLeft' = StepsLeft /\ ~Worker)

\* The pages of the steps of the worker and of the engine's loop.
LEMMA AskedStep ==
  ASSUME Shape, Queues, Asked, [SocketNext]_vars
  PROVE  Asked'
<1>1. CASE Worker
  <2>1. page' = page
    BY <1>1 DEF Worker, ConnectError, ConnectAborted, ConnectOk, OpenPost, LoopHead, DrainMessage,
       DrainClose, DrainEnd, RecvNothing, RecvMessage, RecvError, RecvClose, EndState, EndPost,
       EndUnref, WorkerAt
  <2>2. page.pc = "joining" => conn'.exit
    BY <1>1, WorkerNearer DEF Asked
  <2> QED BY <2>1, <2>2 DEF Asked
<1>2. CASE DispatchIdle \/ DispatchTimer
  <2>1. PICK e, q : Run(e, q) /\ page.pc # "joining"
    BY <1>2 DEF DispatchIdle, DispatchTimer, EngineFree
  <2>2. page'.pc = page.pc
    BY <2>1 DEF Run, Invoked, Shape, IsPage
  <2> QED BY <2>1, <2>2 DEF Asked
<1>3. CASE FreeBegin
  <2>1. conn' = [conn EXCEPT !.detached = TRUE, !.exit = TRUE]
    BY <1>3 DEF FreeBegin
  <2> QED BY <2>1 DEF Asked, Shape, IsConn
<1>4. CASE SendBegin \/ SendQueue \/ CloseBegin \/ CloseQueue \/ CloseState \/ PumpBegin \/ FreeJoin
  <2>1. page'.pc # "joining"
    BY <1>4 DEF SendBegin, SendQueue, CloseBegin, CloseQueue, CloseState, PumpBegin, FreeJoin, Script,
       Shape, IsPage
  <2> QED BY <2>1 DEF Asked
<1>5. CASE PumpEnd
  <2>1. conn' = conn /\ page'.pc = page.pc
    BY <1>5 DEF PumpEnd, Shape, IsPage
  <2> QED BY <2>1 DEF Asked
<1>6. CASE UNCHANGED vars
  BY <1>6 DEF vars, Asked
<1> QED BY <1>1, <1>2, <1>3, <1>4, <1>5, <1>6 DEF SocketNext, Page

\* Every step, while ns_ws_free waits.
LEMMA NearerStep ==
  ASSUME Shape, Queues, Asked, SocketNext
  PROVE  Nearer
<1> SUFFICES ASSUME page.pc = "joining"
             PROVE  /\ page'.pc \in {"joining", "freed"}
                    /\ page'.pc = "freed" => worker.pc = "done"
                    /\ StepsLeft' < StepsLeft \/ (StepsLeft' = StepsLeft /\ ~Worker)
  BY DEF Nearer
<1>1. CASE Worker
  <2>1. page' = page
    BY <1>1 DEF Worker, ConnectError, ConnectAborted, ConnectOk, OpenPost, LoopHead, DrainMessage,
       DrainClose, DrainEnd, RecvNothing, RecvMessage, RecvError, RecvClose, EndState, EndPost,
       EndUnref, WorkerAt
  <2>2. StepsLeft' < StepsLeft
    BY <1>1, WorkerNearer DEF Asked
  <2> QED BY <2>1, <2>2
<1>2. CASE ~Worker /\ FreeJoin
  <2>1. worker.pc = "done" /\ worker' = worker /\ page'.pc = "freed" /\ conn' = [conn EXCEPT !.refs = conn.refs - 1]
    BY <1>2 DEF FreeJoin, Shape, IsPage
  <2>2. conn'.out = conn.out
    BY <2>1 DEF Shape, IsConn
  <2> QED BY <1>2, <2>1, <2>2 DEF StepsLeft
<1>3. CASE ~Worker /\ PumpEnd
  <2>1. conn' = conn /\ worker' = worker /\ page'.pc = page.pc
    BY <1>3 DEF PumpEnd, Shape, IsPage
  <2> QED BY <1>3, <2>1 DEF StepsLeft
<1>4. ~(DispatchIdle \/ DispatchTimer \/ SendBegin \/ SendQueue \/ CloseBegin \/ CloseQueue
        \/ CloseState \/ PumpBegin \/ FreeBegin)
  BY DEF DispatchIdle, DispatchTimer, EngineFree, SendBegin, SendQueue, CloseBegin, CloseQueue,
     CloseState, PumpBegin, FreeBegin, Script
<1> QED BY <1>1, <1>2, <1>3, <1>4 DEF SocketNext, Page

\* ns_ws_free waits for a worker that was told to exit: every step of it, in the
\* handshake, in the loop with messages left to send, or at its end, takes it nearer to
\* the end, and nothing moves it away.  So the wait ends if the worker runs, for any
\* number of messages in its queue.
THEOREM FreeDescends ==
  SocketSpec => /\ [](page.pc = "joining" => conn.exit /\ StepsLeft \in Nat)
                /\ [][Nearer]_vars
<1>1. SocketInit => Asked
  BY DEF SocketInit, Asked
<1>2. SocketInv /\ WireInv /\ Asked /\ [SocketNext]_vars => Asked'
  BY AskedStep DEF SocketInv, WireInv
<1>3. SocketInv /\ WireInv /\ Asked => (page.pc = "joining" => conn.exit /\ StepsLeft \in Nat)
  BY StepsNumber DEF SocketInv, WireInv, Asked
<1>4. SocketInv /\ WireInv /\ Asked /\ [SocketNext]_vars => [Nearer]_vars
  BY NearerStep DEF SocketInv, WireInv
<1> QED BY <1>1, <1>2, <1>3, <1>4, SocketCounts, WireKept, PTL DEF SocketSpec

=============================================================================
