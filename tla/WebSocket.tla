----------------------------- MODULE WebSocket -----------------------------
(***************************************************************************)
(* One WebSocket of a page: the object script sees (src/src/js.c), and the *)
(* connection and its worker thread (src/src/ws.c).                        *)
(*                                                                         *)
(* The page queues outgoing messages, and a close, for the worker, which   *)
(* sends them and posts what happens back to the engine thread.  A post    *)
(* that finds the page inside a nested main loop (busy) is put off with a  *)
(* timer.  ws->state is written by both threads without the lock; a call   *)
(* of the page reads it in one step and acts on it in a later one.         *)
(*                                                                         *)
(* The contents of messages, and their split into frames, are left out:    *)
(* a message is its number.  So is the worker's wait for more to do, which *)
(* ends by itself after NS_WS_POLL_MSEC.                                   *)
(***************************************************************************)
EXTENDS Integers, Sequences, SequencesExt

CONSTANTS MaxPending,  \* NS_WS_MAX_PENDING
          MaxSends,    \* bound of the model: messages the page sends
          MaxRecvs,    \* bound of the model: messages the server sends
          MaxPumps     \* bound of the model: nested main loops of the page

ASSUME SocketAssumption ==
  MaxPending \in Nat \ {0} /\ MaxSends \in Nat /\ MaxRecvs \in Nat /\ MaxPumps \in Nat

CONNECTING == 0
OPEN       == 1
CLOSING    == 2
CLOSED     == 3

\* What is posted, besides messages by their number; a close is also queued.
Close == 0
Open  == -1
Error == -2

VARIABLES conn,    \* ns_ws: [state, out, refs, pending, exit, detached]
          worker,  \* [pc, clean]: where ns_ws_worker_curl is
          idles,   \* its posts to the engine thread, in order
          timers,  \* those put off, in order
          page,    \* [pc, readyState, pinned, busy, pumps]
          notes    \* for the properties: accepted, what the worker was given
                   \* to send; wire, what it sent; sendFailed, a send failed;
                   \* recvs, messages received; delivered, what script was
                   \* told; deferred, a post was put off
vars == <<conn, worker, idles, timers, page, notes>>

SocketInit ==
  /\ conn = [state |-> CONNECTING, out |-> <<>>, refs |-> 2, pending |-> 0,
             exit |-> FALSE, detached |-> FALSE]
  /\ worker = [pc |-> "connect", clean |-> FALSE]
  /\ idles = <<>> /\ timers = <<>>
  /\ page = [pc |-> "idle", readyState |-> CONNECTING, pinned |-> TRUE,
             busy |-> FALSE, pumps |-> 0]
  /\ notes = [accepted |-> <<>>, wire |-> <<>>, sendFailed |-> FALSE, recvs |-> 0,
              delivered |-> <<>>, deferred |-> FALSE]

-----------------------------------------------------------------------------
(* The worker thread *)

\* Mutant of ns_ws_post: the news of a close can be dropped like a message.
PostAllDroppable(c, q, e, droppable) ==
  IF c.detached \/ c.pending >= MaxPending THEN <<c, q>>
  ELSE <<[c EXCEPT !.refs = @ + 1, !.pending = @ + 1], Append(q, e)>>

\* ns_ws_post, on the connection and the idles.
Post(c, q, e, droppable) ==
  IF c.detached \/ (droppable /\ c.pending >= MaxPending) THEN <<c, q>>
  ELSE <<[c EXCEPT !.refs = @ + 1, !.pending = @ + 1], Append(q, e)>>

\* The worker posts e, and the notes become n.
Posted(c, n, e, droppable) ==
  LET p == Post(c, idles, e, droppable)
  IN  conn' = p[1] /\ idles' = p[2] /\ notes' = n

WorkerAt(pc) == worker.pc = pc /\ UNCHANGED <<timers, page>>
Goto(pc) == worker' = [worker EXCEPT !.pc = pc]

\* The handshake failed, and not because it was called off.
ConnectError ==
  /\ WorkerAt("connect")
  /\ Goto("ending")
  /\ Posted(conn, notes, Error, FALSE)

\* The handshake is over but an exit was requested.
ConnectAborted ==
  /\ WorkerAt("connect") /\ conn.exit
  /\ Goto("ending")
  /\ UNCHANGED <<conn, idles, notes>>

\* ns_ws_dispatch_open sets the state, whatever it has become by now, and posts.
ConnectOk ==
  /\ WorkerAt("connect") /\ ~conn.exit
  /\ Goto("opening")
  /\ conn' = [conn EXCEPT !.state = OPEN]
  /\ UNCHANGED <<idles, notes>>
OpenPost ==
  /\ WorkerAt("opening")
  /\ Goto("loop")
  /\ Posted(conn, notes, Open, FALSE)

\* Mutant of LoopHead: an exit request is not looked at once the socket is open.
LoopForever ==
  /\ WorkerAt("loop")
  /\ Goto("drain")
  /\ UNCHANGED <<conn, idles, notes>>

\* The head of the worker's loop.
LoopHead ==
  /\ WorkerAt("loop")
  /\ Goto(IF conn.exit THEN "ending" ELSE "drain")
  /\ UNCHANGED <<conn, idles, notes>>

\* Mutant of ns_ws_drain_outgoing: newest first.
TakenNewest(q) == <<q[Len(q)], SubSeq(q, 1, Len(q) - 1)>>

\* g_queue_pop_head
Taken(q) == <<Head(q), Tail(q)>>

\* ns_ws_drain_outgoing: the next message, which ns_ws_send_curl sends or,
\* after an exit request, an error or too many stalls, gives up.
DrainMessage ==
  /\ WorkerAt("drain") /\ conn.out # <<>>
  /\ LET t == Taken(conn.out)
     IN  /\ t[1] # Close
         /\ conn' = [conn EXCEPT !.out = t[2]]
         /\ \/ notes' = [notes EXCEPT !.wire = Append(@, t[1])] /\ ~conn.exit
            \/ notes' = [notes EXCEPT !.sendFailed = TRUE]
  /\ UNCHANGED <<worker, idles>>

\* A queued close: the close frame is sent, and its answer not waited for.
DrainClose ==
  /\ WorkerAt("drain") /\ conn.out # <<>>
  /\ LET t == Taken(conn.out)
     IN  /\ t[1] = Close
         /\ conn' = [conn EXCEPT !.out = t[2], !.state = CLOSING]
  /\ worker' = [pc |-> "ending", clean |-> TRUE]
  /\ notes' = [notes EXCEPT !.wire = Append(@, Close)]
  /\ UNCHANGED idles
DrainEnd ==
  /\ WorkerAt("drain") /\ conn.out = <<>>
  /\ Goto("recv")
  /\ UNCHANGED <<conn, idles, notes>>

\* curl_ws_recv has nothing, or a ping or an incomplete message.
RecvNothing == WorkerAt("recv") /\ Goto("loop") /\ UNCHANGED <<conn, idles, notes>>
RecvMessage ==
  /\ WorkerAt("recv") /\ notes.recvs < MaxRecvs
  /\ Goto("loop")
  /\ Posted(conn, [notes EXCEPT !.recvs = @ + 1], notes.recvs + 1, TRUE)
RecvError ==
  /\ WorkerAt("recv")
  /\ Goto("ending")
  /\ Posted(conn, notes, Error, FALSE)
\* A close frame of the server, or a message that is too big or no UTF-8.
RecvClose ==
  /\ WorkerAt("recv")
  /\ conn' = [conn EXCEPT !.state = CLOSING]
  /\ notes' = [notes EXCEPT !.wire = Append(@, Close)]
  /\ \E clean \in BOOLEAN : worker' = [pc |-> "ending", clean |-> clean]
  /\ UNCHANGED idles

\* ns_ws_dispatch_close, then the end of the thread.
EndState ==
  /\ WorkerAt("ending")
  /\ Goto("closing")
  /\ conn' = [conn EXCEPT !.state = CLOSED]
  /\ UNCHANGED <<idles, notes>>

\* Mutant of ns_ws_worker_curl: no close event if an exit was requested or
\* the handshake failed.
EndPostIfClean ==
  /\ WorkerAt("closing")
  /\ Goto("closed")
  /\ IF worker.clean THEN Posted(conn, notes, Close, FALSE)
                     ELSE UNCHANGED <<conn, idles, notes>>

\* The event of the close.
EndPost ==
  /\ WorkerAt("closing")
  /\ Goto("closed")
  /\ Posted(conn, notes, Close, FALSE)
EndUnref ==
  /\ WorkerAt("closed")
  /\ Goto("done")
  /\ conn' = [conn EXCEPT !.refs = @ - 1]
  /\ UNCHANGED <<idles, notes>>

Worker ==
  \/ ConnectError \/ ConnectAborted \/ ConnectOk \/ OpenPost
  \/ LoopHead \/ DrainMessage \/ DrainClose \/ DrainEnd
  \/ RecvNothing \/ RecvMessage \/ RecvError \/ RecvClose
  \/ EndState \/ EndPost \/ EndUnref

-----------------------------------------------------------------------------
(* The engine thread: ns_ws_dispatch_run and the callbacks of js.c *)

Invoked(e) ==
  /\ page' = CASE e = Open -> [page EXCEPT !.readyState = OPEN]
               [] e = Close  -> [page EXCEPT !.readyState = CLOSED, !.pinned = FALSE]
               [] OTHER      -> page
  /\ notes' = [notes EXCEPT !.delivered = Append(@, e)]

Released == conn' = [conn EXCEPT !.refs = @ - 1, !.pending = @ - 1]

\* Mutant of ns_ws_dispatch_run: a detached post keeps its reference.
RunLeaking(e, q) ==
  IF conn.detached THEN timers' = q /\ UNCHANGED <<conn, page, notes>>
  ELSE IF page.busy
  THEN /\ timers' = Append(q, e)
       /\ notes' = [notes EXCEPT !.deferred = TRUE]
       /\ UNCHANGED <<conn, page>>
  ELSE timers' = q /\ Released /\ Invoked(e)

\* ns_ws_dispatch_run for post e, with q the timers that are left.
Run(e, q) ==
  IF page.busy /\ ~conn.detached
  THEN /\ timers' = Append(q, e)
       /\ notes' = [notes EXCEPT !.deferred = TRUE]
       /\ UNCHANGED <<conn, page>>
  ELSE /\ timers' = q
       /\ Released
       /\ IF conn.detached THEN UNCHANGED <<page, notes>> ELSE Invoked(e)

\* The engine's main loop runs while the page is in no call of its own.
EngineFree == page.pc \in {"idle", "freed"}

DispatchIdle ==
  /\ EngineFree /\ idles # <<>>
  /\ idles' = Tail(idles)
  /\ Run(Head(idles), timers)
  /\ UNCHANGED worker

\* Timers of one interval end in the order they were started; those that are
\* due go before the idles.
DispatchTimer ==
  /\ EngineFree /\ timers # <<>>
  /\ Run(Head(timers), Tail(timers))
  /\ UNCHANGED <<worker, idles>>

-----------------------------------------------------------------------------
(* Script, on the engine thread, outside a nested main loop *)

Script == page.pc = "idle" /\ ~page.busy /\ UNCHANGED <<worker, idles, timers>>

\* How many messages the page has queued, of what was accepted from it.
Messages(accepted) == Len(SelectSeq(accepted, LAMBDA m : m # Close))

\* ns_js_ws_send and ns_ws_enqueue: the state is looked at, then the message
\* is queued.  (Of a second look in between only the answer matters.)
SendBegin ==
  /\ Script
  /\ conn.state = OPEN
  /\ Messages(notes.accepted) < MaxSends
  /\ page' = [page EXCEPT !.pc = "sending"]
  /\ UNCHANGED <<conn, notes>>
SendQueue ==
  /\ page.pc = "sending"
  /\ LET m == Messages(notes.accepted) + 1
     IN  /\ conn' = [conn EXCEPT !.out = Append(@, m)]
         /\ notes' = [notes EXCEPT !.accepted = Append(@, m)]
  /\ page' = [page EXCEPT !.pc = "idle"]
  /\ UNCHANGED <<worker, idles, timers>>

\* ns_js_ws_close_method
CloseBegin ==
  /\ Script
  /\ conn.state \notin {CLOSING, CLOSED}
  /\ page' = [page EXCEPT !.readyState = CLOSING, !.pc = "closing"]
  /\ UNCHANGED <<conn, notes>>

\* ns_ws_close: look again, queue the close, set the state.
CloseQueue ==
  /\ page.pc = "closing"
  /\ IF conn.state \in {CLOSING, CLOSED}
     THEN page' = [page EXCEPT !.pc = "idle"] /\ UNCHANGED <<conn, notes>>
     ELSE /\ conn' = [conn EXCEPT !.out = Append(@, Close)]
          /\ notes' = [notes EXCEPT !.accepted = Append(@, Close)]
          /\ page' = [page EXCEPT !.pc = "closed"]
  /\ UNCHANGED <<worker, idles, timers>>
CloseState ==
  /\ page.pc = "closed"
  /\ conn' = [conn EXCEPT !.state = CLOSING]
  /\ page' = [page EXCEPT !.pc = "idle"]
  /\ UNCHANGED <<worker, idles, timers, notes>>

\* ns_js_fetch_resource runs a nested main loop until its answer is there.
PumpBegin ==
  /\ Script /\ page.pumps < MaxPumps
  /\ page' = [page EXCEPT !.busy = TRUE, !.pumps = @ + 1]
  /\ UNCHANGED <<conn, notes>>
PumpEnd ==
  /\ page.busy
  /\ page' = [page EXCEPT !.busy = FALSE]
  /\ UNCHANGED <<conn, worker, idles, timers, notes>>

\* ns_ws_free, when the page goes or the collector finds an object that is not
\* pinned any more.
FreeBegin ==
  /\ Script
  /\ conn' = [conn EXCEPT !.detached = TRUE, !.exit = TRUE]
  /\ page' = [page EXCEPT !.pc = "joining"]
  /\ UNCHANGED notes
FreeJoin ==
  /\ page.pc = "joining" /\ worker.pc = "done"
  /\ conn' = [conn EXCEPT !.refs = @ - 1]
  /\ page' = [page EXCEPT !.pc = "freed"]
  /\ UNCHANGED <<worker, idles, timers, notes>>

Page ==
  \/ SendBegin \/ SendQueue \/ CloseBegin \/ CloseQueue \/ CloseState
  \/ PumpBegin \/ PumpEnd \/ FreeBegin \/ FreeJoin

SocketNext == Worker \/ DispatchIdle \/ DispatchTimer \/ Page

\* The worker runs, and its handshake has a time limit; the engine's loop runs
\* what is due, a nested loop ends, and a call of the page returns.
SocketFairness ==
  /\ WF_vars(Worker)
  /\ WF_vars(DispatchIdle) /\ WF_vars(DispatchTimer)
  /\ WF_vars(PumpEnd)
  /\ WF_vars(SendQueue) /\ WF_vars(CloseQueue) /\ WF_vars(CloseState)
  /\ WF_vars(FreeJoin)

SocketSpec == SocketInit /\ [][SocketNext]_vars /\ SocketFairness

-----------------------------------------------------------------------------
(* Properties *)

\* ns_ws is held by the page's object, by the worker and by each post under way,
\* put off or not, so that it is freed neither before the last nor never.
Held(b) == IF b THEN 1 ELSE 0
SocketRefs ==
  conn.refs = Held(page.pc # "freed") + Held(worker.pc # "done")
              + Len(idles) + Len(timers)

\* The posts under way are counted right however they are put off, and bounded,
\* although the open, error and close events are never dropped.
BacklogBounded ==
  /\ conn.pending = Len(idles) + Len(timers)
  /\ conn.pending <= MaxPending + 2

\* What goes on the wire is what the page was allowed to send, in that order and
\* without gaps unless a send failed, and nothing follows a close frame.
WireInOrder ==
  LET wire == notes.wire
      n    == Len(wire)
  IN  /\ \A i \in 1..(n - 1) : wire[i] # Close
      /\ ~notes.sendFailed /\ n > 0 =>
           \/ IsPrefix(wire, notes.accepted)
           \/ wire[n] = Close /\ IsPrefix(SubSeq(wire, 1, n - 1), notes.accepted)

\* When the worker is done and nothing is under way, script has been told of the
\* close, whatever the backlog and whoever closed, and sees CLOSED unless an
\* event that was put off came after.
ClosedAtRest ==
  worker.pc = "done" /\ idles = <<>> /\ timers = <<>> /\ ~conn.detached =>
    /\ \E i \in DOMAIN notes.delivered : notes.delivered[i] = Close
    /\ page.readyState = CLOSED \/ notes.deferred

\* Script learns of the end of a connection.
CloseTold ==
  worker.pc = "ending" ~> (~page.pinned \/ conn.detached)

\* ns_ws_free, which the engine thread waits in, returns.
FreeEnds == page.pc = "joining" ~> page.pc = "freed"

=============================================================================
