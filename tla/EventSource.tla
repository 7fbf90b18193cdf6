---------------------------- MODULE EventSource ----------------------------
(***************************************************************************)
(* One EventSource of a page: the object script sees (src/src/js.c), and   *)
(* the thread that reads the stream (src/src/eventsource.c).               *)
(*                                                                         *)
(* The thread connects, parses what comes, posts it to the engine thread,  *)
(* and connects again after a while when the stream breaks, with the id    *)
(* of the last event.  A post that finds the page inside a nested main     *)
(* loop is put off with a timer; a handler of script may run such a loop.  *)
(*                                                                         *)
(* The server numbers its events, and goes on behind the id it is told.    *)
(* An event is an id line and a data line, in either order, and a blank.   *)
(***************************************************************************)
EXTENDS Integers, Sequences, FiniteSets

CONSTANTS MaxPending, \* NS_ES_MAX_PENDING
          MaxEvents,  \* bound of the model: events of the server
          MaxPumps    \* bound of the model: nested main loops of the page

ASSUME SourceAssumption ==
  MaxPending \in Nat \ {0} /\ MaxEvents \in Nat /\ MaxPumps \in Nat

CONNECTING == 0
OPEN       == 1
CLOSED     == 2

\* What is posted, besides events by their number; an error may be the last.
None  == 0
Open  == -1
Error == -2
Fatal == -3

VARIABLES refs, pending, exit, detached, lastId, \* ns_es; lastId is last_event_id
          worker,     \* where ns_es_worker is
          next, got,  \* the event that is next in the stream; which of its lines came
          idles,      \* the posts to the engine thread, in order
          timers,     \* those put off, in order
          readyState, pinned, \* ns_js_es and its wrapper
          page,       \* the page's call: "none", "joining" in ns_es_free, or "freed"
          handling,   \* the post whose handlers run, or None
          busy, pumps,
          delivered,  \* for the properties: events script was given
          lost,       \* posts dropped at the limit, events cut behind their id
          deferred,   \* a post was put off
          closed      \* script has called close()
source == <<refs, pending, exit, detached, lastId>>
stream == <<worker, next, got>>
script == <<readyState, pinned, page, handling, busy, pumps>>
notes  == <<delivered, lost, deferred, closed>>
vars   == <<source, stream, idles, timers, script, notes>>

SourceInit ==
  /\ refs = 2 /\ pending = 0 /\ exit = FALSE /\ detached = FALSE /\ lastId = 0
  /\ worker = "loop" /\ next = 1 /\ got = {}
  /\ idles = <<>> /\ timers = <<>>
  /\ readyState = CONNECTING /\ pinned = TRUE /\ page = "none" /\ handling = None
  /\ busy = FALSE /\ pumps = 0
  /\ delivered = <<>> /\ lost = {} /\ deferred = FALSE /\ closed = FALSE

-----------------------------------------------------------------------------
(* The thread *)

\* Mutant of Post: no reference is held for the post.
PostBorrowed(e) ==
  /\ IF detached THEN UNCHANGED <<idles, refs, pending, lost>>
     ELSE IF pending >= MaxPending
     THEN lost' = lost \cup {e} /\ UNCHANGED <<idles, refs, pending>>
     ELSE idles' = Append(idles, e) /\ pending' = pending + 1 /\ UNCHANGED <<lost, refs>>
  /\ UNCHANGED <<exit, detached, timers, script, delivered, deferred, closed>>

\* ns_es_post
Post(e) ==
  /\ IF detached THEN UNCHANGED <<idles, refs, pending, lost>>
     ELSE IF pending >= MaxPending
     THEN lost' = lost \cup {e} /\ UNCHANGED <<idles, refs, pending>>
     ELSE idles' = Append(idles, e) /\ pending' = pending + 1 /\ refs' = refs + 1 /\ UNCHANGED lost
  /\ UNCHANGED <<exit, detached, timers, script, delivered, deferred, closed>>

NothingPosted == UNCHANGED <<source, idles, timers, script, notes>>

\* Mutant of Resume: the connection does not tell the server the id.
ResumeAnew == next' = 1

\* The server goes on behind Last-Event-ID.
Resume == next' = lastId + 1

\* The head of ns_es_worker's loop, and ns_es_connect_once up to the transfer.
LoopHead ==
  /\ worker = "loop"
  /\ IF exit THEN worker' = "ending" /\ UNCHANGED <<next, got>>
             ELSE worker' = "connect" /\ got' = {} /\ Resume
  /\ NothingPosted

\* ns_es_header_cb: a stream that may be read.
Answered ==
  /\ worker = "connect"
  /\ worker' = "stream"
  /\ UNCHANGED <<next, got, lastId>>
  /\ Post(Open)

\* A redirect that is not allowed, or no curl handle, ends the connection.
Refused ==
  /\ worker = "connect"
  /\ worker' = "failed"
  /\ UNCHANGED <<next, got>> /\ NothingPosted

\* Any other answer is fatal, but nothing is done about it: "fatal" is a transfer
\* that goes on, for as long as the server likes.
Unreadable ==
  /\ worker = "connect"
  /\ worker' = "fatal"
  /\ UNCHANGED <<next, got>> /\ NothingPosted

\* What came of an event is forgotten, but not its id.
Forget ==
  /\ got' = {} /\ lost' = IF "id" \in got THEN lost \cup {next} ELSE lost
  /\ UNCHANGED <<next, source, idles, timers, script, delivered, deferred, closed>>

\* ns_es_feed: a line that is too long is fatal, and the rest of the buffer is
\* not read; an event that is too long is too, but the rest of the buffer is.
LineTooLong ==
  /\ worker \in {"stream", "failing"}
  /\ worker' = "fatal"
  /\ UNCHANGED <<next, got>> /\ NothingPosted
EventTooLong ==
  /\ worker = "stream"
  /\ worker' = "failing"
  /\ UNCHANGED <<next, got>> /\ NothingPosted
BufferRead ==
  /\ worker = "failing"
  /\ worker' = "fatal"
  /\ UNCHANGED <<next, got>> /\ NothingPosted

\* ns_es_write_cb ends a fatal transfer when the server sends more; it ends as
\* well if the connection does, or when an exit was requested.
Aborted ==
  /\ worker = "fatal"
  /\ worker' = "failed" /\ Forget

\* The connection fails or breaks, or ends because an exit was requested.
Break ==
  /\ worker \in {"connect", "stream"}
  /\ worker' = "broken" /\ Forget

\* ns_es_process_line: an id is kept at once.
Reading == worker \in {"stream", "failing"}
IdLine ==
  /\ Reading /\ next <= MaxEvents /\ "id" \notin got
  /\ got' = got \cup {"id"} /\ lastId' = next
  /\ UNCHANGED <<worker, next, refs, pending, exit, detached, idles, timers, script, notes>>
DataLine ==
  /\ Reading /\ next <= MaxEvents /\ "data" \notin got
  /\ got' = got \cup {"data"}
  /\ UNCHANGED <<worker, next>> /\ NothingPosted

\* ns_es_dispatch_event, for a blank line.
Dispatch ==
  /\ Reading /\ got = {"id", "data"}
  /\ got' = {} /\ next' = next + 1
  /\ UNCHANGED <<worker, lastId>>
  /\ Post(next)

\* Mutant of Ended: only the end of the source is told.
EndedQuietly ==
  /\ worker \in {"broken", "failed"}
  /\ UNCHANGED <<next, got, lastId>>
  /\ IF exit THEN worker' = "ending" /\ NothingPosted
     ELSE IF worker = "failed" THEN worker' = "ending" /\ Post(Fatal)
                               ELSE worker' = "waiting" /\ NothingPosted

\* ns_es_worker after a connection.
Ended ==
  /\ worker \in {"broken", "failed"}
  /\ UNCHANGED <<next, got, lastId>>
  /\ IF exit THEN worker' = "ending" /\ NothingPosted
     ELSE IF worker = "failed" THEN worker' = "ending" /\ Post(Fatal)
                               ELSE worker' = "waiting" /\ Post(Error)

\* The wait before the next connection.
Waited ==
  /\ worker = "waiting"
  /\ worker' = "loop"
  /\ UNCHANGED <<next, got>> /\ NothingPosted
Unref ==
  /\ worker = "ending"
  /\ worker' = "done" /\ refs' = refs - 1
  /\ UNCHANGED <<next, got, pending, exit, detached, lastId, idles, timers, script, notes>>

\* Mutant of WorkerRuns: curl is not told to stop a connection.
WorkerRunsDeaf == LoopHead \/ BufferRead \/ Ended \/ Waited \/ Unref

\* What the thread does whatever the server says.
WorkerRuns ==
  LoopHead \/ BufferRead \/ Ended \/ Waited \/ Unref \/ (exit /\ (Break \/ Aborted))

-----------------------------------------------------------------------------
(* The engine thread: ns_es_dispatch_run and the callbacks of js.c *)

\* The post is done with: one reference and one of the backlog less.
Release == refs' = refs - 1 /\ pending' = pending - 1

\* The callbacks, up to the handlers of script.
Invoke(e) ==
  /\ readyState' = CASE e = Open -> OPEN [] e = Error -> CONNECTING [] e = Fatal -> CLOSED
                     [] OTHER -> readyState
  /\ delivered' = IF e \in 1..MaxEvents THEN Append(delivered, e) ELSE delivered

\* ns_es_dispatch_run for post e, with q the timers that are left.
Run(e, q) ==
  /\ IF busy /\ ~detached
     THEN /\ timers' = Append(q, e) /\ deferred' = TRUE
          /\ UNCHANGED <<refs, pending, readyState, delivered, handling>>
     ELSE /\ timers' = q /\ UNCHANGED deferred
          /\ IF detached THEN Release /\ UNCHANGED <<readyState, delivered, handling>>
             ELSE Invoke(e) /\ handling' = e /\ UNCHANGED <<refs, pending>>
  /\ UNCHANGED <<stream, exit, detached, lastId, pinned, page, busy, pumps, lost, closed>>

\* A main loop runs: the engine's, or a nested one.
LoopRuns == page # "joining" /\ (handling = None \/ busy)
DispatchIdle  == LoopRuns /\ idles # <<>> /\ idles' = Tail(idles) /\ Run(Head(idles), timers)
DispatchTimer == LoopRuns /\ timers # <<>> /\ Run(Head(timers), Tail(timers)) /\ UNCHANGED idles

\* Mutant of HandlerEnd: the last error does not release the object.
HandlerEndPinned ==
  /\ handling # None /\ ~busy /\ page # "joining"
  /\ handling' = None /\ Release
  /\ UNCHANGED <<stream, idles, timers, exit, detached, lastId, readyState, pinned, page, busy, pumps, notes>>

\* The handlers return; the last error releases the object.
HandlerEnd ==
  /\ handling # None /\ ~busy /\ page # "joining"
  /\ handling' = None /\ Release
  /\ pinned' = (pinned /\ handling # Fatal)
  /\ UNCHANGED <<stream, idles, timers, exit, detached, lastId, readyState, page, busy, pumps, notes>>

-----------------------------------------------------------------------------
(* Script, in a handler or not, outside a nested main loop *)

Script == page = "none" /\ ~busy

\* ns_js_es_close_method, which calls ns_es_close.
CloseMethod ==
  /\ Script /\ ~closed
  /\ readyState' = CLOSED /\ exit' = TRUE /\ pinned' = FALSE /\ closed' = TRUE
  /\ UNCHANGED <<refs, pending, detached, lastId, stream, idles, timers, page, handling, busy, pumps,
                 delivered, lost, deferred>>

\* ns_js_fetch_resource runs a nested main loop until its answer is there.
PumpBegin ==
  /\ Script /\ pumps < MaxPumps
  /\ busy' = TRUE /\ pumps' = pumps + 1
  /\ UNCHANGED <<source, stream, idles, timers, readyState, pinned, page, handling, notes>>
PumpEnd ==
  /\ busy /\ busy' = FALSE
  /\ UNCHANGED <<source, stream, idles, timers, readyState, pinned, page, handling, pumps, notes>>

\* ns_es_free, when the page goes, or the collector finds an object that is not
\* pinned: in a handler, only such a one.
FreeBegin ==
  /\ Script /\ (handling # None => ~pinned \/ handling = Fatal)
  /\ detached' = TRUE /\ exit' = TRUE /\ page' = "joining"
  /\ UNCHANGED <<refs, pending, lastId, stream, idles, timers, readyState, pinned, handling, busy, pumps,
                 notes>>
FreeJoin ==
  /\ page = "joining" /\ worker = "done"
  /\ page' = "freed" /\ refs' = refs - 1
  /\ UNCHANGED <<pending, exit, detached, lastId, stream, idles, timers, readyState, pinned, handling,
                 busy, pumps, notes>>

SourceNext ==
  \/ LoopHead \/ Answered \/ Refused \/ Unreadable \/ LineTooLong \/ EventTooLong \/ BufferRead
  \/ Aborted \/ Break
  \/ IdLine \/ DataLine \/ Dispatch
  \/ Ended \/ Waited \/ Unref
  \/ DispatchIdle \/ DispatchTimer \/ HandlerEnd
  \/ CloseMethod \/ PumpBegin \/ PumpEnd \/ FreeBegin \/ FreeJoin

\* The thread runs, whatever the server does; curl asks whether to go on; the
\* engine's loop runs what is due, handlers return and nested loops end.
SourceFairness ==
  /\ WF_vars(WorkerRuns)
  /\ WF_vars(DispatchIdle) /\ WF_vars(DispatchTimer) /\ WF_vars(HandlerEnd)
  /\ WF_vars(PumpEnd) /\ WF_vars(FreeJoin)

SourceSpec == SourceInit /\ [][SourceNext]_vars /\ SourceFairness

-----------------------------------------------------------------------------
(* Properties *)

\* Type invariant.
SourceTypeOK ==
  /\ refs \in Nat /\ pending \in 0..MaxPending /\ lastId \in 0..MaxEvents /\ next \in 1..(MaxEvents + 1)
  /\ worker \in {"loop", "connect", "stream", "failing", "fatal", "broken", "failed", "waiting", "ending",
                "done"}
  /\ readyState \in {CONNECTING, OPEN, CLOSED} /\ page \in {"none", "joining", "freed"}
  /\ handling \in Fatal..MaxEvents

\* ns_es is held by its object, by its thread, by each post that is queued or put
\* off, and by the one whose handlers run, even if they free the object; and the
\* posts under way are counted right and bounded, however they are put off.
Held(b) == IF b THEN 1 ELSE 0
SourceRefs ==
  LET posts == Len(idles) + Len(timers) + Held(handling # None) IN
  /\ refs = Held(page # "freed") + Held(worker # "done") + posts
  /\ pending = posts /\ pending <= MaxPending

\* Each event up to the id that the server will be told is in one place and no
\* other: given to script, under way, being read, or lost at the limit or by a
\* break behind its id.  So no event comes twice, however often the stream
\* breaks; and they come in their order unless a post was put off.
Count(q, n) == Cardinality({i \in DOMAIN q : q[i] = n})
Places(n) ==
  Count(delivered, n) + Count(idles, n) + Count(timers, n)
  + Held(n \in lost) + Held(n = next /\ "id" \in got)
EventsOnce ==
  /\ ~detached => \A n \in 1..MaxEvents : Places(n) = Held(n <= lastId)
  /\ ~deferred => \A i \in 1..(Len(delivered) - 1) : delivered[i] < delivered[i + 1]

\* When nothing is under way, readyState says what the thread does and the object
\* is pinned as long as it does something, unless what would have said so was lost
\* at the limit, or overtaken by what was put off, or the page has closed it.
StateAtRest ==
  /\ idles = <<>> /\ timers = <<>> /\ handling = None /\ ~closed /\ ~detached
  /\ ~deferred /\ lost \cap {Open, Error, Fatal} = {}
  => CASE worker = "stream" -> readyState = OPEN /\ pinned
       [] worker \in {"loop", "connect", "waiting"} -> readyState = CONNECTING /\ pinned
       [] worker \in {"failing", "fatal", "broken", "failed"} -> readyState # CLOSED /\ pinned
       [] OTHER -> readyState = CLOSED /\ ~pinned

\* Script learns that a source has failed for good, from what was fatal on, unless
\* the news were lost: provided that the server does not fall silent, with the
\* connection open, in every such transfer.  Nothing in the code ends one that it
\* does.
ServerGoesOn == []<>(worker # "fatal")
EndTold ==
  ServerGoesOn =>
    (worker \in {"failing", "fatal", "failed"} ~> ~pinned \/ detached \/ Fatal \in lost)

\* ns_es_free, in which the engine thread waits, returns.
JoinReturns == page = "joining" ~> page = "freed"

=============================================================================
