# Verification of Northstar

TLA+ models of the concurrent and stateful parts of the Northstar browser (a C
program over GLib, GTK, libcurl, SQLite and QuickJS), model-checked with TLC and
in part proved with TLAPS.  Paths below are relative to the repository's `src/`
directory unless they begin with `docs/`.

1. [The system](#1-the-system)
2. [The modules](#2-the-modules)
3. [The runs](#3-the-runs)
4. [The proofs](#4-the-proofs)
5. [Findings](#5-findings)
6. [What is not modelled](#6-what-is-not-modelled)
7. [What is left](#7-what-is-left)

## 1. The system

A browser window holds page views; each view talks to a page session that lives
on one engine thread, which owns every document, style, layout and script.  Round
the two stand threads that do one thing each: a decoder per video stream, a worker
per WebSocket and EventSource, fetch threads, two background compilers.

```
 GTK main loop                        engine thread                  others
 ------------------------            -----------------------        -------------------
 procview.c  view      --- jobs -->  page_session.c  session
             frame     <-- idles --  engine.c, js.c  page   ------> net.c    fetches -> cache.c (disk)
 frame clock   |                     video.c  stream  -- push --->  videoworker.c  decode thread
               +-- present ----------> videolayer.c <--- take ----/
                                     js.c  WebSocket  -- queue -->  ws.c     socket thread
                                                      <-- idles --
 watchdog.c (parent process)  --- spawns, restarts the whole of the above
```

| Component | State | Operations | What is hard | What makes it right |
|---|---|---|---|---|
| Page view (`gtk/procview.c`) | sequence numbers per kind of request, in-flight and pending flags, the frame on the screen, reference count, history | load, stop, resize, scroll, press, save, close; the results, wakes and animation ticks that come back | everything is asynchronous: results of old pages, a stop between request and result, dialogs that outlive the widget | the pixels are the engine's, of this page, and up to date at rest; nothing old navigates; freed once |
| Engine thread (`gtk/enginethread.c`) | a queue of jobs | post, dispatch in order | order is all it gives | part of the protocol |
| Page session (`page_session.c`) | current page, frame buffer, damage, wake source, parked pages | open, tick and render, viewport, input, export, free | decides from its own memory that "nothing changed" | an unchanged answer is true of the view; a needed frame gets rendered |
| Video worker (`videoworker.c`) | jobs, pictures, epoch, limit | push, restart, take, limit, free; the thread's pick, decode, queue | the lock is dropped while the decoder runs; one condition variable for five reasons to wake | no picture of an old epoch, decoder fed in order, memory bounded, no lost wake-up |
| Video stream and layer (`video.c`, `videolayer.c`, `image.c`) | coded frames fed, picture adopted, picture shown, media clock | show, present, seek, pause, shift, append, paint, free | two threads take pictures for one layer under different clocks; each looks at the other under another lock | the target is on the screen at rest; no needless restart; no use after free |
| WebSocket (`ws.c`, `js.c`) | state, outgoing queue, reference and backlog counts | connect, send, receive, close, post, put off, free | both threads write the state without the lock; posts are put off while a nested main loop runs | script hears things in order and always of the end; the wire has what was accepted; freed once, silent afterwards |
| HTTP cache (`cache.c`, `net.c`) | SQLite rows, body files | get, put, 304, evict, clear, init | the mutex is not held across the request; the disk is written in two steps; the process can die between them | row and body agree, every body is counted, a 304 shows what was confirmed, Vary is honoured |
| EventSource (`eventsource.c`, `js.c`) | last event id, backlog, reference count, what has come of an event | connect, parse, post, retry, put off, close, free | the stream breaks inside an event; a handler closes or loses the source it runs for, or runs a nested main loop; posts are dropped at 256 | no event twice, none silently lost but at the limit; script hears of the end; freed once |
| Bytecode cache (`bytecode_cache.c`) | bytecode in memory, a file per script, marks of scripts that the pool is to compile | get, put, precompile, the pool's job, shutdown | a reader waits for a compile; files are written and renamed without the lock; the process can die between | each mark has one job and wakes its readers; what is on the disk is whole or known to be torn |
| Watchdog (`watchdog.c`) | child, burst, streak of recoveries, timers; in the child the beat | spawn, child exit, signal, backoff, forced kill; guard, beat, hang thread | exits race signals; the parent dies before the child asks to be told; a hang is inferred from two clocks | retries bounded, one recovery per streak, no orphan but of a subreaper, only a hung child is ended as hung, a stop ends everything |
| Session history (`gtk/procview.c`, `page_session.c`) | list and index on the view; current page, four cached pages, the body of a form on the session | load, back, forward, reload, stop; redirects, pushState, replaceState, navigations and forms of pages | the two sides hear of each other late; traversals are overtaken by loads; a body waits for its load | the entry is the page shown; each page has one owner; a form is sent once |
| Fetches (`net.c`) | in-flight table, slots per origin, preload map, cookie jars | fetch, coalesce, cancel | followers of a failed leader, slots and redirects | planned |
| Media elements, MSE, audio (`js_media.c`, `mse.c`, `audio/audio.c`) | element state, byte budget, ring buffer | play, seek, append, evict, device callback | event order, eviction under a seek | planned |
| Indexed DB (`idb.c`) | transactions | open, request, commit, abort | order of transactions | planned |
| Everything else | documents, styles, layout trees, fonts, settings | parse, lay out, paint, decode, convert | size, not order | section 6 |

## 2. The modules

| Module | Models | Composition |
|---|---|---|
| `PictureFeed` | the abstract promise of a video worker: wanted samples of the current epoch are owed, become ready in push order, and are delivered once, newest due first | refined by `VideoWorker` |
| `VideoWorker` | `videoworker.c` | |
| `VideoPipeline` | `video.c` (`mse_show` and its helpers), `videolayer.c`, the video part of `image.c`; what of `procview.c`, `page_session.c` and `libnorthstar.c` has a video shown | EXTENDS `VideoWorker`: engine thread, view frame clock and decode thread together |
| `ViewProtocol` | `gtk/procview.c` against `page_session.c` over `gtk/enginethread.c` | |
| `WebSocket` | `ws.c` and the script object of `js.c` | |
| `HttpCache` | `cache.c` and its three uses in `net.c` | |
| `EventSource` | `eventsource.c` and the script object of `js.c` | |
| `BytecodeCache` | `bytecode_cache.c` | |
| `Watchdog` | `watchdog.c`, parent and child | |
| `SessionHistory` | the history of `gtk/procview.c` with the pages and form bodies of `page_session.c` and `libnorthstar.c` | takes the order of requests and results from the same code as `ViewProtocol`, without pixels |
| `VideoProofs` | theorems about `VideoWorker` and `VideoPipeline` | EXTENDS `VideoPipeline` |
| `CacheProofs` | theorems about `HttpCache` and `BytecodeCache`, which share no name | EXTENDS both |
| `ViewProtocolProofs`, `WebSocketProofs`, `EventSourceProofs`, `WatchdogProofs`, `SessionHistoryProofs` | theorems about the module they are named after | EXTEND it |
| `ViewRestProofs` | more theorems about `ViewProtocol`: what a view at rest or waiting can rely on | EXTENDS `ViewProtocolProofs` |
| `MC*` | the finite instances | |

**VideoWorker.** Variables are the fields of `ns_video_worker` and the locals of
`worker_main`.  A call of the owner holds the lock throughout and is one action
(`Push`, `Restart`, `Take`, `SetMaxPictures`, `FreeBegin`); the thread drops it
while it decodes, so it has `Pick`, `Decode` and `Finish`, and `Wait` with
`SpuriousWakeup` for the condition variable.  `g_cond_signal` is `Signal`, which
only wakes a thread that is asleep.  `fed` records what the external decoder was
given; `taken` is the last answer.

**VideoPipeline.** `mse_show` takes the layer's or the worker's lock several times;
each such section is an action (`ShowBegin`, `ShowSync`, `ShowPresent`,
`ShowResync`, `ShowExpects`, `ShowShownPts`, `ShowRestart`, `ShowLimit`,
`ShowFeed`, `ShowEnd`), with `engine` its program counter, and the view's frame clock
(`AnimTick`) and the decoder may come between any two.  Times are whole frames.
What else the engine thread does to a video (`Seek`, `SetPaused`, `Shift`,
`AppendFrames`, `Detach`) happens when `mse_show` is not running: between renders, or in
the `"tick"` of a render, which calls `mse_show` any number of times.  `EndTick` is the
end of the tick (which forgets a repaint requested in it), the painting and the answer;
`RenderUnticked` a render of a session whose last frame is not valid, which has no tick.

A video is shown only while something has the page rendered, and that is part of the
module: `view.asked` is a render under way or asked for, `view.armed` the frame clock.  A
render's answer arms the clock if the page is `Animating` (its clock runs and is not at
its end, or `mse_show` waits for a picture) or for something `other` on the page, and
disarms it else; only an armed clock presents the layer (`AnimTick`), which also makes it
`fresh`; a requested repaint arms it (`Wake`); and the view may ask on its own (`ViewAsks`).
Answers and wakes come at once here: how they are delayed, lost and repeated is what
`ViewProtocol` is about.  A layer that is out of the window, and so not listed, is one that
is not composited.  `call.misled`, `stale`, `behind` and `late` are notes of the properties;
no guard reads them.

**ViewProtocol.** `view` is `NsProcView`, `session` is `ns_page_session` with its
page, `jobs` the queue of the engine thread and `idles` that of the main loop.  A
handler of the main loop is written as a function of a record `w` of the view and
the queues, because the handlers of `procview.c` call each other.  A sequence
number is only ever compared with the view's present one, so each request carries
`cur`, its being equal, which raising the number clears.  A picture is the version
of each tile, so that a patch and a whole copy differ, together with page, size,
scroll position and the viewport of its layout.

**WebSocket.** `worker.pc` goes through `ns_ws_worker_curl`; a post is an element of
`idles`, one put off by `ns_ws_dispatch_run` an element of `timers`.  A call of
script is two or three actions, because `ws->state` is read before the lock is
taken and written after it is given back.  A message is its number.

**HttpCache.** One action per call under `g_cache_mutex`, except that each write to
the disk is its own: `PutRow` then `PutBody`, the two halves of `delete_key`
(`DeleteStep`), `ClearRows` then `ClearBodies`; `busy` is the call that holds the
mutex.  `Crash` may come anywhere, `StartAgain` runs the eviction of `ns_cache_init`.
A response is its version and the header value it was chosen by; it is its own
validator.

**EventSource.** `worker` goes through `ns_es_worker` and `ns_es_connect_once`; the
lines of an event arrive one at a time (`IdLine`, `DataLine`, `Dispatch` for the blank
line), and the stream may break between any two.  What the code calls fatal ends nothing by
itself: after an answer that cannot be read (`Unreadable`) or a line or an event that is too
long, the thread stays in the transfer (`worker = "fatal"`) until the server sends more or
closes, or an exit is requested (`Aborted`); only a redirect that is not allowed ends it
at once (`Refused`).  The server numbers its
events and goes on behind the id it is told (`Resume`), which is what the standard asks
of it and what makes "twice" mean something.  `Run` is `ns_es_dispatch_run`; `handling`
is the post whose handlers are running, during which the page may close, free or start
a nested loop.  `ns_es_process_line` stores an id as soon as it has read it, so an
event that is cut or dropped behind its id is not sent again: `lost` records it.

**BytecodeCache.** `thr` says for each thread where it is, its key and the file it has
open.  A call under `g_lock` is one action; opening, each half of a write, the rename
and the pruning are one each, because none of them holds the lock, and a kill
(`Restart`) may come between.  `Renamed` and `Unlinked` follow an open file when another writer
renames or deletes it.  `rename` and the `unlink` after one that fails are one step.

**Watchdog.** Time passes in ticks, and every timestamp is kept as an age that stops
growing one past the limit it is compared with.  A timer is dispatched at or after its
time.  The supervisor's handlers (`RespawnCb`, `ChildExited`, `SignalCb`,
`ForceKillCb`) run to completion, as in a GLib main loop; `LoopEnds` is what follows
it.  In the child, the main loop may be blocked for any time (`Block`, `Unblock`), a
beat is due every `Beat` ticks, and the hang thread looks when it likes (`SeesBeat`,
`HangExit`); its two reads of the beat and the clock are one step.

**SessionHistory.** `history` and `index` are the view's; `jobs` and `results` the two
queues.  A page may at any time change its url (`SoftNavigate`), ask to be left
(`Navigate`) or submit a form (`Submit`); the view hears of it with the next frame
(`FrameResult`).  `RunLoad` is the whole of a load on the engine thread: take from the
cache or open, park or close the page before, send the body that waits.  `strayed`,
`sent` and `closed` are notes of the properties.

Abstractions that hold everywhere: texts, pixels, bytes, durations and statistics
are left out; allocations succeed; what a library or a server answers is a choice
over everything it may answer.  The map in `PROJECT.json` names the lines of each
definition.

## 3. The runs

| Run | Question | Distinct states (about) |
|---|---|---|
| `worker` | Is the decode worker right under any calls of its owner? | 76 k |
| `pipeline` | Does the picture for the clock get to the screen, whoever of three threads acts? | 510 k |
| `view` | Is what is shown right with everything that can happen, are needed frames rendered, and do loads end? | 330 k |
| `socket` | Is the WebSocket right under any order of page, worker and server? | 920 k |
| `source` | Is the EventSource right, whatever breaks and whoever closes it? | 360 k |
| `cache` | Do rows, bodies and answers agree under two fetches, eviction, clears and kills? | 3.9 M |
| `bytecode` | Do marks, jobs, sleepers and files agree under three threads, failures and kills? | 130 k |
| `watchdog` | Is the browser restarted, ended and given up as it should be? | 410 k |
| `history` | Do list, pages and form bodies agree when view and engine overtake each other? | 530 k |
| `watchdog_orphan` | Can a child outlive a supervisor that died as it started? (Yes) | stops at the first |
| `view_release` | Can the result of an old mouse release navigate? (Yes) | stops at the first |
| `history_post` | Can the body of a form go elsewhere than its action? (Yes) | stops at the first |

What each property says stands above its definition.  In short:

* `worker`: `CurrentEpochOnly` (nothing of before a restart survives it),
  `DecoderCoherent` (consecutive samples of one epoch since the last flush),
  `NoLostWakeup`, `ImplementsFeed` (refinement of `PictureFeed`) and `HeadJobHandled`.
* `pipeline`: `NoUseAfterFree`, `NoNeedlessRestart`, and
  `RestShowsTarget`: once the clock and the way the video is painted come to rest, the
  picture for the clock's position is shown and stays, but for the cases named in its
  comment.
* `view`: `RefsBalanced`, `FrameFaithful` (patches on top of copies, some dropped, still
  give the engine's pixels), `FrameOfThisPage` (its pixels; links are `StaleInputIgnored`
  and `StaleClicksIgnored`), `RestUpToDate` (no change, scroll or
  resize made while a request was in flight is forgotten, nor left waiting for a wake
  that was posted and lost), `NeedsServed`, `LoadEnds`.
* `socket`: `SocketRefs`, `WireInOrder`, `ClosedAtRest`, `CloseTold`, `FreeEnds`.
* `source`: `SourceRefs`, `EventsOnce` (each event up to the id that will be told is in
  one place), `StateAtRest`, `JoinReturns`, and `EndTold`: script is told of a failed source,
  if each fatal transfer comes to an end (`ServerGoesOn`).  The code has no time limit for
  it: a server that falls silent after an answer that cannot be read, and keeps the
  connection, leaves script waiting.
* `cache`: `DiskAgrees` (each row and its body are of one response, each body has a row),
  `VaryHonoured`, `ConfirmedIsCurrent`.
* `bytecode`: `MarksKept` (a mark has one job, a sleeper has its mark),
  `TornIsOpenOrCut`, `SleepEnds`.
* `watchdog`: `RetriesBounded`, `RecoversOnce`, `OnlyHungExits`, `StopEnds`, `HangEnds`.
* `history`: `EntryShown`, `PagesOwned`, `BodiesOnce`.

Type invariants, and the bounds of memory that follow from them, are not run but
proved: `TypeCorrect`, `PictureMemoryBounded`, `BacklogLimit`, `SourceTypes`,
`WatchdogTypes` (section 4).

### Bounds

* *worker*: three samples with three times, two restarts, up to two pictures.  A
  restart between any two steps of a decode needs one of each; two restarts give a
  decode that is two epochs late; a limit of two can be lowered below what is queued.
* *pipeline*: two frames that are keyframes both, one seek or shift, appends, any pauses.
  With a picture on the screen, one that is due and a decoder to restart at either, every
  exception of `RestShowsTarget` is needed: without it TLC finds the case.  A track with
  frames that need others, over which the renders make the instance too large, is left to
  the proofs of the two safety properties and to the run `worker`.  `MaxPushes` and
  `MaxRestarts` are never reached, so they cut nothing off.
* *view*: two navigations (a page and the one before it), two events of fourteen
  kinds in any order and a stop of a render after them (a frame that is dropped and a
  patch that follows it need that), two tiles, two scroll positions, three sizes of which
  one is too small to load a page at (the other two are interchangeable, so a view that
  has a size at the start has the first of them).  Queues are not bounded.  The four safety
  properties are proved for any number of events; the bound is for the liveness.
* *socket*: two messages out, three in, a backlog of two, so that it overflows while
  open, error and close still pass; one nested main loop.
* *source*: two events and a backlog of two, so that it overflows with an opening
  and an event under way; one nested main loop; any number of breaks.
* *cache*: two threads, one resource with two versions and a header with two
  values (three keys), a cap that holds some rows but not all, a clock of three
  seconds of which an unused row survives one, one kill and one clear.
* *bytecode*: the engine thread and two workers of the pool, two scripts that do not
  fit into memory together, one of them long enough to have the disk pruned; any
  number of kills.  A second reader makes the instance too large; the proof covers any
  number.
* *watchdog*: a burst of two failures in three ticks, a backoff of one, a run of five
  ticks is stable, a hang of two with a beat each tick.  `2 * BurstMax` failures within
  a burst's length do occur, so the bound of `RetriesBounded` is tight.  Time does not
  stop and nothing is cut off.  Orphans are adopted by init or by a subreaper, as it
  happens (`Adopters`), here and in `watchdog_orphan`.
* *history*: two interchangeable urls, a cache of one page, one redirect by script in a
  row, four events of users and pages in any order.

### Fairness

Weak fairness, for what the operating system or GLib schedules: each thread's
next step, the idles, timers and frame clock of a main loop, a nested loop that ends
(its fetch has a time limit), handlers that return, a join once the thread is gone.  In
the watchdog time passes, SIGKILL kills, and the hang thread goes on looking; SIGTERM need
not do anything.  In the bytecode cache the limit of twenty seconds is not counted on.  In
the EventSource curl asks the thread whether to go on, as its progress callback does, but
the server need not send anything.  Nothing the user, a page or a server does is fair,
nor is a spurious wake-up, a kill or the end of a child.

In the pipeline an armed frame clock goes on ticking until it is time to ask for a render
(`AnimTick(TRUE)`; a tick that only presents owes nothing, and a clock that is not armed
none at all), and a repaint that was requested arms it.  Two actions are strongly fair.
`EndTick`, because the tick goes round only within a budget of time while its loop has
something to run, but `mse_show` makes it impossible for a while in each round.
`ShowBegin`, because a render that was asked for may find a frame that is not valid and
skip the tick (`RenderUnticked`), but the session has a valid frame after it, so that not
all renders do.

The runs `cache` and `history` state safety only.

Deadlock is checked for the two caches and the watchdog: the other systems end by
being freed, closed or idle.

### Mutants

Every property of a passing run is shown to fail for a plausible bug of a mapped
definition (a dropped guard, a missing reference, the wrong end of a queue, one of
two writes in the other order).  The mutated forms stand before the definitions they
mutate and are used nowhere else.

## 4. The proofs

Each theorem holds for every value of the constants that the named assumption of its
module allows: any number of threads, keys, messages and events, any limit.

`VideoProofs`, of `WorkerSpec` and `PipelineSpec`, from `WorkerAssumption` and
`PipelineAssumption` (the track starts with a keyframe, no two of its frames have one
time, and every time the clock can show is one of the times a sample may have):

| Theorem | Says |
|---|---|
| `TypeCorrect` | `WorkerTypeOK`; the thread has a job between its pick and its end; pictures stay finite |
| `EpochSafety` | `CurrentEpochOnly` |
| `PictureMemoryBounded` | `PicturesBounded`: limit plus the one in flight |
| `WakeupSafety` | `NoLostWakeup` |
| `DecoderSafety` | `DecoderCoherent` |
| `WorkerIsFeed` | `ImplementsFeed`: the worker refines `PictureFeed` |
| `LayerSafety` | `NoUseAfterFree`, of the whole pipeline |
| `PipelineHasFeed` | `ImplementsFeed`, of the whole pipeline |
| `RestartIsNeeded` | `NoNeedlessRestart` |

`TypeInv`, `CurrentEpochOnly` and the bound are inductive given `TypeInv`.  Picking a
job leaves the lock before the picture is queued, so the bound needs the strengthened
statement that a picked job still has its room: nobody but the thread adds pictures.
`DecoderCoherent` is not inductive: what makes the next sample the successor of the
last is the order of the queue (`JobsInOrder`: the jobs are the consecutive samples
up to the last push), that the picked job was its head (`PickedIsNext`), and that the
decoder stands just before it or is due for a flush (`FedUpToNext`,
`FedUpToPicked`); `FeedInv` is their conjunction and `FeedStep` its preservation, one
step per action.

`WorkerIsFeed` maps every step to one step of `PictureFeed` or to a stutter
(`FeedSimulates`).  What the feed calls owed is in three places of the worker, the
pictures, the thread's hands and the queue; `IdsInOrder` says that the numbers of the
samples increase along them, so that a picture taken is later than all taken before and
the ones skipped are earlier.  The lemmas `PushAsks`, `FinishMayBlank`, `TakeDelivers`
and `RestartResets` are the steps that do not stutter.

`LayerSafety` is by `Detached`: the layer is attached only while the worker is live and
the engine thread is not in `ns_video_stream_free`, which detaches before it frees.

The other theorems of the pipeline rest on `PipelineInv`, that is `TypeInv`, `Detached`
and `Placed` (where the stream stands in the track, and that everything shown or asked
for is a frame of it).  `CallsAreLegal` concludes that each step of the pipeline is, for
the worker, a step of `WorkerNext` or none, so that what was proved of the worker holds
in the pipeline.  The searches of the code for the frame at a time need that a greatest
element exists, which is `LeastOf` from the well-foundedness of the naturals.
`RestartIsNeeded` spans two questions, one to the worker and one to the layer, with
other threads between them: `NothingMissed` says that what the worker answered for
cannot come back before the layer is asked, because only the engine thread pushes.

`WebSocketProofs`, of `SocketSpec`, from `SocketAssumption`:

| Theorem | Says |
|---|---|
| `SocketCounts` | `SocketInv`, the inductive invariant of the next two |
| `RefsCounted` | `SocketRefs` |
| `BacklogLimit` | `BacklogBounded` |
| `CloseToldAtRest` | `ClosedAtRest` |
| `WireOrdered` | `WireInOrder` |
| `FreeDescends` | while `ns_ws_free` waits, each step of the worker takes it nearer to its end |

`SocketRefs` is inductive with the shape of the records and queues.  The bound is not:
the error and close events are posted whatever the backlog, so `Backlog` says how far
over the limit it can be from where the worker is: not at all in its loop, by one
(an error) between the loop and the close, by two after it.  It needs a limit of at
least one, since the open event is not droppable either (NS_WS_MAX_PENDING is 256).
`PostEffect` and `RunEffect` say what `ns_ws_post` and `ns_ws_dispatch_run` do to
the counts; one step per action rests on them.

For the close, `Coming` says that once the worker posts no more the close is its last post,
or was put off, or script was told; that needs that the page asks for no close once the
state is final.  For the wire, `Joins` says that what was sent followed by what waits is
what was accepted, until the worker ends or a send fails; from then on only the beginning
(`Begins`), perhaps followed by a close frame of the worker's own (`ThenClosed`), stays.

`FreeDescends` here and `JoinDescends` of `EventSourceProofs` are the safety half of
`FreeEnds` and `JoinReturns`: what is left to these is that the thread runs, which fairness
says.  Once an exit was requested the place of the thread (and the length of its queue)
gives a number that each step of the thread lowers from wherever it is, and no other step
raises; and the page, which waits, takes no step that withdraws the request (`Asked`) or
gives the thread more to send (`Nearer`).  Only the lines of a stream leave the number as
it is, until the break that curl is asked for lowers it.

`ViewProtocolProofs`, of `ViewSpec`, from `ViewAssumption`:

| Theorem | Says |
|---|---|
| `RefsAreBalanced` | `RefsBalanced` |
| `FramesAreFaithful` | `FrameFaithful` |
| `FramesAreOfThisPage` | `FrameOfThisPage` |
| `StaleClicksIgnored` | the half of `StaleInputIgnored` that holds: clicks |

The handlers of the main loop call each other, so they are functions of a world `w` of
view, queues and count, and each has a lemma for each thing it keeps.  For the references
that is what is `Due`: the count less what is queued.  `Counted` says that what is due is
the widget and the dialog; `IsWorld` what the lemmas need to know of the fields.

The frame is about messages that are dropped, so what the view has cannot be read off the
queues.  `Framed` says that there is a history `H`, the engine's frame at each generation,
that everything `Fits`: the session stands at the last of it, the view and each result hold
the frame of their own generation, and a patch holds the difference of two.  A patch then
gives the right frame wherever its base is the view's generation, whatever was dropped
between, and no order of copies and patches matters.  Only `RenderOfFits` adds to the
history; every handler has a lemma that it fits the old one.  For the page, `Fits` says too
that a current result or request is of the last load, and that what an engine frame shows
after that load has run is of its page.

`ViewRestProofs`, of `ViewSpec` too, from `ViewAssumption` and with the invariants above:

| Theorem | Says |
|---|---|
| `RestIsUpToDate` | `RestUpToDate` |
| `AnswersAreUnderWay` | `NothingAwaitedInVain`: what the view waits for is under way |

What the view shows at rest is the sum of everything that was under way, so `RestUpToDate`
needs a statement about each moment before.  `Rested` says that the world of an open view
is `Fresh`: the one render and the one viewport change under way are `Placed` with the
requests or with the results; the view's flags say so and it knows whether it has the
engine's frame (`Going`); the page is laid out for the size last asked for, or will be
(`Arranged`); and once what is under way has come, either more is asked for or the frame
is `Accurate`, of the view's size and scroll position (`AtPeace`).  Until a page is open,
`Waiting` says that the load that counts is the last to touch the session.  The result in
hand is the hard case: the lemmas about `on_result` start from what it promises
(`Handed`, `Awaited`, `Coming`).  `Awake` is about the wake, which the session posts once
and no more until it renders: while a page is open it is behind every result that could
still disarm the frame clock, or the clock is armed and none can (`Woken`); before, it
comes behind the result that opens the page (`Heard`).  So with empty queues and the clock
not armed no wake is posted, and a page that needs a frame would have one due.

`AnswersAreUnderWay` is what the liveness properties of the view rest on: while the view
waits for a render, a viewport change or a load, a message of that kind with its sequence
number of the moment is in one of the queues, so the handler that ends the waiting is
still to run.  `Promises` is inductive given `Framed` and `Rested`.  A handler outdates
and asks again, lowers one flag and calls another, so the lemmas are about one kind at a
time (`Awaits`): changing a field by which the view does not wait for that kind keeps it
(`FieldAwaits`), lowering a flag establishes it (`LowerAwaits`), and so does a request of
the kind (`PushReqAwaits`).  The statement covers stopped views, which `Rested` leaves out.

`CacheProofs`, of `CacheSpec`:

| Theorem | Says |
|---|---|
| `DiskConsistent` | `DiskAgrees` |
| `VaryIsHonoured` | `VaryHonoured` |
| `ConfirmedCurrent` | `ConfirmedIsCurrent` |

`DiskAgrees` speaks of the moments at which no call is at work.  `AtWork` says what a call
that is has done, and `Matched` and `Indexed` except the keys it has in hand.
`FetchInv` says the same of a fetch: what it holds suits its request.

`EventSourceProofs`, of `SourceSpec`: `SourceCounts` (`SourceRefs`) and `SourceTypes`
(`SourceTypeOK`).  A post is counted until its handlers return, even if they free the
object; the types need that an event is read only while the server has one.  `StateTold`
(`StateAtRest`): `Said` is what `readyState` will be once the queued posts have run, and
`Foretold` that it fits where the thread is, that the end is the last post and that the pin
goes with it.  `EventsComeOnce` (`EventsOnce`): `Follows` says that the stream goes on behind
the last id, `InPlace` counts the places of each event (`CountAppend`, `CountTail`), and
`Ordered` says that those given and those on their way are in order.  `JoinDescends`: see `FreeDescends`.

`CacheProofs` also holds, of `BytecodeSpec`, `BytecodeMarks` (`MarksKept`) and
`FilesWholeOrCut` (`TornIsOpenOrCut`).  `Roles` says which threads can be where, and
`MarkFree` that what the engine thread found unmarked stays so until it marks it, because
nobody else marks.  The lemmas `QuietReader` and `QuietWriter` deal with all steps that
leave the marks alone.

For the files the property is too weak to be inductive.  `Hands` says that what a thread
has open is there, under the name it goes by; `TmpTorn`, that a temporary file some thread
is about to rename is whole or open; `Begun`, that who writes the second half of a file
finds the first, unless another has begun that file again.  The steps that take names away
(a write that fails, pruning) share the lemma `NamesTaken`; a rename gives the threads at
the temporary file the final name (`RenamedIs`), so that `TmpTorn` of the one becomes the
property of the other.

`WatchdogProofs`, of `WatchdogSpec`:

| Theorem | Says |
|---|---|
| `OnlyHungExit` | `OnlyHungExits` |
| `RecoverOnce` | `RecoversOnce` |
| `OrphansSlipPast` | the one way in which `NoOrphan` fails: a subreaper adopts a child that has not asked for the signal yet |
| `WatchdogTypes` | `WatchdogTypeOK`, with the count of a burst at most one past its limit |
| `RetriesLimit` | `RetriesBounded` |

That a child hangs is concluded from the time of the last change of the beat that was
seen; `Quiet` bounds this by the time since the last beat, and by the time for which the
main loop was blocked.  `Restarts` says that a restart is never due beside a child.
For the failures, `InBurst` divides those noted, oldest first (`Sorted`), into the last
`burstCount`, which are of this burst, and those before, at most `BurstMax`, which are
older than it; a tick drops a first part of them (`RecentLeft`), and none of this burst
before it is over.

`SessionHistoryProofs`, of `HistorySpec`, from `HistoryAssumption` and `NoneAssumption`:

| Theorem | Says |
|---|---|
| `PagesHaveOwners` | `PagesOwned` |
| `EntryIsShown` | `EntryShown` |
| `BodiesSentOnce` | `BodiesOnce` |

Within a load one or two pages are out of the cache, so `Held` is stated for a set of
pages that are; lemmas about `RemoveAt` and `Append` move pages between cache, hand and
grave.  `EntryShown` needs that there is an entry when a page or a frame arrives that is
not recorded: `Entered` says that before the first entry no such load is under way or put
off, and no frame, which takes the kinds of the messages in both queues (`Kinds`, `Typed`).
For the bodies, `Split` says that each is in one place only (an input that waits, a page,
the stash, or sent) and that no two are equal; a step moves a form from one to the next
(`SplitStashed`, `SplitSent`), brings a new one (`SplitMore`) or forgets some (`SplitLess`).
`Stashed` and `Own` say that the stash and each page have forms of the page itself, so a
load that sends one leaves that page.

Model-checked only: all liveness properties, which are out of the prover's reach
(`RestShowsTarget` among them); `AnswersAreUnderWay`, `FreeDescends` and `JoinDescends` are
what of them can be said without fairness.  Every safety property of a passing run is proved.

## 5. Findings

Runs that TLC refutes; `PROJECT.json` quotes the lines.

* `view_release`: the result of a mouse release carries no sequence number; its link
  is followed although another navigation has begun.
* `history_post`: the body of a form is kept apart from the navigation it belongs to and is
  filed under whatever url is taken next; script that submits a form and sets `location`
  before the next frame has the body sent to the other url.
* `watchdog_orphan`: the guard of a child takes itself for an orphan only if `getppid()` is 1.
  If a subreaper (on a desktop often `systemd --user`) adopts it, a child that starts just
  as its supervisor dies goes on without one.  `OrphansSlipPast` says that this is the only
  way, for any limits.

Seen while modelling, and allowed for by an exception in a property:

* A kill between the row and the body of `ns_cache_put` leaves a new validator over an
  old body, and a later 304 confirms it (`notes.torn` in `RowsMatchBodies`,
  `ConfirmedIsCurrent`).  A kill inside `ns_cache_clear` leaves bodies that no row
  counts (`notes.orphans` in `BodiesIndexed`).
* A 304 that sets a cookie, or comes with a certificate warning, is passed on without
  a body (`net.c`, before `ns_cache_promote_304`).
* `is_cacheable_status` admits 301 and 410, but its caller stores below 300 only.
* An event put off during a nested main loop may reach script after a later one
  (`notes.deferred` in `ClosedAtRest`; `deferred` in `EventsOnce`, `StateAtRest`).
* `ns_video_worker_expects` counts a decode whose epoch has ended (`call.misled` in
  `RestShowsTarget`).
* A picture that the view presents just before a seek is adopted with the seek's
  generation; if its time is the target's, the seek ends with the old picture on the
  screen (`call.stale` in `RestShowsTarget`; `video.c`, `mse_sync_texture`).
* A tick of the page that is over its budget ends by forgetting that a repaint was
  requested, also one that script asked for by a seek in that tick: the seek is then shown
  by whatever renders the page next (`call.behind` in `RestShowsTarget`;
  `libnorthstar.c`, end of `ns_browser_tick`).
* A paused video whose picture the view takes between `mse_show`'s look at the layer and its
  end is not waited for any more; if the same render moves the video from its layer to
  the page, the page is painted with the picture before, until its next render
  (`call.behind` in `RestShowsTarget`).
* A paused video that waits at a gap is not looked at again when the missing frame is
  appended (`call.late`; `mse_show` clears `waiting`).
* After a stop, the frame dropped by the view counts as shown for the session, which
  then answers "unchanged" (`view.stopped` in `RestUpToDate`).
* The end of a connection's opening overwrites `CLOSING`, so that `send()` after `close()`
  may be accepted and never sent (`ws.c`).
* A 304 extends the expiry of whatever row its key has by then (`ns_cache_promote_304`).
* Two threads that store the same script write the same temporary file; the rename of
  one can expose the half-written file of the other under its final name until the
  other is done (`HasOpen` in `TornIsOpenOrCut`).  Bytecode that is torn is rejected and the
  script compiled, but `ns_bytecode_cache_put` sees it as stored and does not repair it.
* The windows of the watchdog's burst follow one another, so that up to twice the limit
  of failures may fall into one minute without its giving up (`RetriesBounded`).
* An opening or an error that is under way when script closes its EventSource sets
  `readyState` back from `CLOSED` (`closed` in `StateAtRest`).
* A stop that drops the frame with a pushState makes the next url a replacement of the
  entry before; several pushStates between two frames record one entry; `history.back()`
  by script comes to the view as a replacement, which may leave an entry twice; a load
  that is not recorded and is redirected leaves the entry with the old url (`strayed` in
  `EntryShown`).  A page restored from the cache with a navigation still pending leaves
  again at once.

## 6. What is not modelled

Style, layout, paint, parsers and decoders are large pure functions of unbounded
data: no state machine, and no bounded domain on which agreement with a reference
would say much.  The script bindings are mostly conversions of values.  Settings,
bookmarks and the list of visited pages are single SQL statements.  The window, headless
mode, tracing and dumps are input and output.  WAMR, wuffs, plmpeg, web-text-lib and
QuickJS are third-party code.  These parts are most of the repository's lines, and the
modules cover little of it by lines: they cover where threads, processes, queues and
files meet.

In the modules that exist: the text and fragments of messages, decode-rate statistics,
preference changes while running, a clock that goes backwards, SQLite statements that
fail, the MPEG-1 path and looping of videos, evicted coded frames; redirects and headers
of an EventSource, which are choices; the header and hash of a bytecode file, private
mode, and which files pruning picks; the command line, the Windows launch and the
session file of the watchdog; the stack of entries that script keeps of its own
(`js.c`) and scroll restoration.

## 7. What is left

In order of what the user would notice:

1. `FetchCoalescer` (`net.c`): leader and followers of one request, cancellation, slots of
   an origin.  Abstract specification: each caller gets one answer.
2. `MediaController`, `MseBuffer`, `AudioRing`: the events of an element against its
   backend, the byte budget under seeks, the ring buffer between two threads.
3. `IdbTransactions`: order of transactions and their events.
4. `InputQueries`: link, hover, find, selection, key and wheel requests with their
   coalescing, as more handlers of `ViewProtocol`.
5. The composition of `SessionHistory` with the loads of `ViewProtocol`: both abstract the
   same requests, and a shared module of the request's life would show that they agree.

Theorem worth proving next: with the composition of point 5, that a page of the history is
bound to the load whose result shows it.
