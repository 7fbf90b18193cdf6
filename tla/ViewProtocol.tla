---------------------------- MODULE ViewProtocol ----------------------------
(***************************************************************************)
(* The protocol between the page view on the GTK main loop                 *)
(* (src/src/gtk/procview.c) and the page session on the engine thread      *)
(* (src/src/page_session.c), over the job queue of gtk/enginethread.c.     *)
(*                                                                         *)
(* The view posts requests, which the engine thread runs in order; each    *)
(* posts its result back as an idle of the main loop.  A request carries   *)
(* the view's sequence number for its kind, which is only ever compared    *)
(* with the view's number of the moment: cur stands for their equality,    *)
(* and raising a number clears cur in what is on its way.                  *)
(*                                                                         *)
(* A page's looks are the versions of its Tiles, so that a patch of the    *)
(* damaged tiles and a copy of the whole frame are different things.       *)
(***************************************************************************)
EXTENDS Integers, Sequences, FiniteSets

CONSTANTS Tiles,          \* parts of a page that damage can name
          Scrolls,        \* scroll positions, 0 the top
          Sizes,          \* sizes of the drawing area, 0 one too small to load
          MaxRedirects,   \* NS_PROC_MAX_JS_REDIRECTS
          Events,         \* what may happen from outside, see EventKinds
          MaxLoads,       \* bound of the model: navigations
          MaxEvents       \* bound of the model: other events

EventKinds == {"stop", "close", "resize", "scroll", "click", "release",
               "save", "draw", "relayout", "animate", "pagescroll", "pagenav",
               "redirect", "fail"}

ASSUME ViewAssumption ==
  /\ IsFiniteSet(Tiles) /\ Tiles # {}
  /\ Scrolls \subseteq Nat /\ 0 \in Scrolls
  /\ Sizes \subseteq Nat
  /\ MaxRedirects \in Nat
  /\ Events \subseteq EventKinds
  /\ MaxLoads \in Nat /\ MaxEvents \in Nat

VARIABLES view,      \* NsProcView
          session,   \* ns_page_session and its current page
          jobs,      \* g_jobs: requests to the engine thread
          idles,     \* results, wakes and unrefs on their way to the main loop
          refs,      \* NsProcView.rc
          events     \* events so far
vars == <<view, session, jobs, idles, refs, events>>

-----------------------------------------------------------------------------
(* Pictures *)

None == -1

\* What a page looks like, laid out for a viewport of size vp, at a scroll
\* position in a frame of a size.
Pictures == [load : Nat, vp : Sizes, size : Sizes, scroll : Scrolls,
             tiles : [Tiles -> Nat]]

Painted(s, scroll, size) ==
  [load |-> s.page, vp |-> s.vp, size |-> size, scroll |-> scroll, tiles |-> s.tiles]

\* The damaged tiles of a picture taken over from a newer one.
Patched(pic, tiles, new) ==
  [pic EXCEPT !.tiles = [t \in Tiles |-> IF t \in tiles THEN new[t] ELSE pic.tiles[t]]]

NoFrame == [gen |-> None]
NoPicture == [load |-> None]

Blank == [t \in Tiles |-> 0]

\* ns_browser_needs_frame
NeedsFrame(s) == s.page # None /\ (s.repaint \/ s.anim > 0 \/ s.wantScroll # None \/ s.wantNav)

-----------------------------------------------------------------------------
(* Initially the widget exists, laid out or not yet; nothing was posted. *)

ViewInit ==
  /\ \E size \in Sizes :
       view = [opened |-> FALSE, loading |-> FALSE, closed |-> FALSE, load |-> 0,
               redirects |-> 0, deferred |-> FALSE, size |-> size, lastVp |-> 0,
               scroll |-> 0, frame |-> NoFrame, forceFull |-> FALSE,
               armed |-> FALSE, inflight |-> FALSE, pending |-> FALSE,
               vpInflight |-> FALSE, vpPending |-> FALSE, asking |-> FALSE,
               stopped |-> FALSE]
  /\ session = [alive |-> FALSE, page |-> None, vp |-> 0, tiles |-> Blank,
                dirty |-> {}, damageFull |-> FALSE, repaint |-> FALSE,
                anim |-> 0, wantScroll |-> None, wantNav |-> FALSE,
                valid |-> FALSE, fb |-> NoPicture, gen |-> 0, wakePosted |-> FALSE]
  /\ jobs = <<>> /\ idles = <<>>
  /\ refs = 1
  /\ events = 0

-----------------------------------------------------------------------------
(* What a handler of the main loop does, as a function of the view and the *)
(* two queues: w = [v, jobs, idles, refs].                                 *)

World == [v |-> view, jobs |-> jobs, idles |-> idles, refs |-> refs]

\* Raising the sequence numbers of some kinds.
Outdated(q, kinds) ==
  [i \in DOMAIN q |-> IF q[i].kind \in kinds THEN [q[i] EXCEPT !.cur = FALSE] ELSE q[i]]

Outdate(w, kinds) ==
  [w EXCEPT !.jobs = Outdated(@, kinds), !.idles = Outdated(@, kinds)]

\* push_req: a closed view posts nothing but its REQ_CLOSE.
PushReq(w, req) ==
  IF w.v.closed /\ req.kind # "close" THEN w
  ELSE [w EXCEPT !.jobs = Append(@, req), !.refs = @ + 1]

StartRender(w) ==
  IF ~w.v.opened THEN w
  ELSE PushReq([Outdate(w, {"render"}) EXCEPT !.v.inflight = TRUE, !.v.forceFull = FALSE],
               [kind |-> "render", cur |-> TRUE, size |-> w.v.size,
                scroll |-> w.v.scroll, full |-> w.v.forceFull])

RequestRender(w) ==
  IF ~w.v.opened THEN w
  ELSE IF w.v.inflight THEN [w EXCEPT !.v.pending = TRUE]
  ELSE StartRender(w)

\* gtk_adjustment_set_value, whose value-changed runs on_adj_changed.
ScrollTo(w, pos) ==
  IF pos = w.v.scroll THEN w
  ELSE RequestRender([w EXCEPT !.v.scroll = pos])

StartViewport(w, size) ==
  IF ~w.v.opened THEN w
  ELSE IF w.v.vpInflight THEN [w EXCEPT !.v.vpPending = TRUE]
  ELSE PushReq([Outdate(w, {"viewport"}) EXCEPT !.v.vpInflight = TRUE],
               [kind |-> "viewport", cur |-> TRUE, size |-> size])

\* maybe_update_viewport, and whether it sent anything.
ViewportMoved(v) == v.opened /\ v.size > 0 /\ v.size # v.lastVp
MaybeUpdateViewport(w) ==
  IF ViewportMoved(w.v) THEN StartViewport([w EXCEPT !.v.lastVp = w.v.size], w.v.size) ELSE w

\* do_load
DoLoad(w) ==
  LET n == w.v.load + 1
      o == [Outdate(w, {"load", "render", "viewport", "click"}) EXCEPT
              !.v = [@ EXCEPT !.load = n, !.pending = FALSE, !.inflight = FALSE,
                              !.vpInflight = FALSE, !.vpPending = FALSE,
                              !.opened = FALSE, !.armed = FALSE,
                              !.frame = NoFrame, !.loading = TRUE,
                              !.stopped = FALSE]]
  IN  IF w.v.size = 0 THEN [o EXCEPT !.v.deferred = TRUE]
      ELSE PushReq([o EXCEPT !.v.lastVp = w.v.size],
                   [kind |-> "load", cur |-> TRUE, load |-> n, size |-> w.v.size])

Become(w) ==
  /\ view' = w.v /\ jobs' = w.jobs /\ idles' = w.idles /\ refs' = w.refs

-----------------------------------------------------------------------------
(* The user and the toolkit, on the main loop *)

May(e) == e \in Events /\ events < MaxEvents /\ events' = events + 1

\* After the last of them, a render that is still under way may be stopped.
MayStop == /\ "stop" \in Events /\ events' = events + 1
           /\ events < MaxEvents \/ (events = MaxEvents /\ view.inflight)

\* ns_proc_view_load, and the navigations of the back, forward and reload
\* buttons, which end in do_load just the same.
Load ==
  /\ ~view.closed /\ view.load < MaxLoads
  /\ Become(DoLoad(World))
  /\ UNCHANGED <<session, events>>

\* on_resize
Resize(size) ==
  /\ ~view.closed /\ size # view.size /\ May("resize")
  /\ LET w == [World EXCEPT !.v.size = size]
     IN  Become(IF w.v.deferred /\ size > 0 THEN DoLoad([w EXCEPT !.v.deferred = FALSE])
                ELSE IF ~w.v.opened THEN w
                ELSE IF ViewportMoved(w.v) THEN MaybeUpdateViewport(w)
                ELSE RequestRender(w))
  /\ UNCHANGED session

\* on_adj_changed, from the scrollbar, a key or the wheel.
ScrollView(pos) ==
  /\ ~view.closed /\ view.opened /\ pos # view.scroll /\ May("scroll")
  /\ Become(ScrollTo(World, pos))
  /\ UNCHANGED session

\* ns_proc_view_stop.  stopped is a note for the properties: a frame on its way
\* was given up and will be dropped, since the last navigation.
Halted == [view EXCEPT !.inflight = FALSE, !.pending = FALSE, !.loading = FALSE,
                       !.stopped = view.stopped \/ view.inflight]
Stop ==
  /\ ~view.closed /\ MayStop
  /\ Become([Outdate(World, {"render"}) EXCEPT !.v = Halted])
  /\ UNCHANGED session

\* start_click; start_release, whose requests carry no sequence number.
\* by is a note for the properties: the navigation the user saw the page of.
Press(kind) ==
  /\ ~view.closed /\ view.opened /\ May(kind)
  /\ Become(PushReq(IF kind = "click" THEN Outdate(World, {"click"}) ELSE World,
                    [kind |-> kind, cur |-> TRUE, by |-> view.load]))
  /\ UNCHANGED session

\* view_save: the file dialog holds the view, and may outlive its widget.
AskSave ==
  /\ ~view.closed /\ view.opened /\ ~view.asking /\ May("save")
  /\ Become([World EXCEPT !.v.asking = TRUE, !.refs = @ + 1])
  /\ UNCHANGED session

\* on_save_dialog_done
SaveAnswered(chosen) ==
  /\ view.asking
  /\ LET w == [World EXCEPT !.v.asking = FALSE]
         o == IF chosen /\ w.v.opened THEN PushReq(w, [kind |-> "export", cur |-> TRUE]) ELSE w
     IN  Become([o EXCEPT !.refs = @ - 1])
  /\ UNCHANGED <<session, events>>

\* anim_tick, at a tick of the frame clock that is due a frame.  The interval
\* since the last one is time, which the model leaves open.
AnimTick ==
  /\ view.armed
  /\ Become(IF view.closed \/ ~view.opened THEN [World EXCEPT !.v.armed = FALSE]
            ELSE RequestRender(World))
  /\ UNCHANGED <<session, events>>

\* on_area_destroy
Destroy ==
  /\ ~view.closed /\ May("close")
  /\ LET w == PushReq([World EXCEPT !.v.closed = TRUE, !.v.armed = FALSE],
                      [kind |-> "close", cur |-> TRUE])
     IN  Become([w EXCEPT !.refs = @ - 1])
  /\ UNCHANGED session

-----------------------------------------------------------------------------
(* on_result, pv_wake_idle and pv_unref_idle: the next idle of the main loop *)

\* Mutant of on_result: a failed load that does not end the loading state.
OnPageFailing(w, r) ==
  IF ~r.cur \/ r.outcome = "fail" THEN w
  ELSE IF r.outcome = "redirect" /\ w.v.redirects < MaxRedirects
  THEN DoLoad([w EXCEPT !.v.redirects = @ + 1])
  ELSE LET o == [w EXCEPT !.v = [@ EXCEPT !.redirects = 0, !.opened = TRUE, !.loading = FALSE]]
       IN  RequestRender(MaybeUpdateViewport(ScrollTo(o, 0)))

OnPage(w, r) ==
  IF ~r.cur THEN w
  ELSE IF r.outcome = "fail" THEN [w EXCEPT !.v.loading = FALSE]
  ELSE IF r.outcome = "redirect" /\ w.v.redirects < MaxRedirects
  THEN DoLoad([w EXCEPT !.v.redirects = @ + 1])
  ELSE LET o == [w EXCEPT !.v = [@ EXCEPT !.redirects = 0, !.opened = TRUE, !.loading = FALSE]]
       IN  RequestRender(MaybeUpdateViewport(ScrollTo(o, 0)))

\* Mutant of apply_patch: any frame will do.
OnPatchAnyBase(w, r) ==
  IF w.v.frame.gen # None
  THEN [w EXCEPT !.v.frame = [gen |-> r.gen, shot |-> r.pic,
                              pic |-> Patched(@.pic, r.damage, r.pic.tiles)]]
  ELSE RequestRender([w EXCEPT !.v.forceFull = TRUE])

\* apply_patch, or asking for the whole frame when it does not fit.
OnPatch(w, r) ==
  IF w.v.frame.gen # None /\ w.v.frame.gen = r.base
  THEN [w EXCEPT !.v.frame = [gen |-> r.gen, shot |-> r.pic,
                              pic |-> Patched(@.pic, r.damage, r.pic.tiles)]]
  ELSE RequestRender([w EXCEPT !.v.forceFull = TRUE])

\* Mutant of on_result: a full frame is taken whatever its number.
OnPixelsAnySeq(w, r) ==
  CASE r.has = "full" -> [w EXCEPT !.v.frame = [gen |-> r.gen, pic |-> r.pic, shot |-> r.pic]]
    [] r.has = "patch" -> OnPatch(w, r)
    [] OTHER -> w

\* The pixels of a result.  shot is a note for the properties: what the engine
\* had in its frame when it posted the result.
OnPixels(w, r) ==
  CASE r.has = "full" /\ r.cur ->
         [w EXCEPT !.v.frame = [gen |-> r.gen, pic |-> r.pic, shot |-> r.pic]]
    [] r.has = "patch" -> OnPatch(w, r)
    [] OTHER -> w

OnFrame(w, r) ==
  LET arm == IF r.cur /\ r.ok THEN [w EXCEPT !.v.armed = r.animating] ELSE w
      pos == IF r.cur /\ r.ok /\ r.scroll # None THEN ScrollTo(arm, r.scroll) ELSE arm
      pix == IF r.ok THEN OnPixels(pos, r) ELSE pos
      nav == IF r.cur /\ r.ok /\ r.nav /\ pix.v.redirects < MaxRedirects
             THEN DoLoad([pix EXCEPT !.v.redirects = @ + 1]) ELSE pix
      end == [nav EXCEPT !.v.inflight = FALSE, !.v.pending = FALSE]
  IN  IF nav.v.pending THEN StartRender(end)
      ELSE IF r.cur /\ ~r.ok THEN [end EXCEPT !.v.loading = FALSE] ELSE end

\* Mutant of on_result: the size that came in the meantime is forgotten.
OnViewportOnce(w, r) ==
  IF ~r.cur THEN w
  ELSE LET o == [w EXCEPT !.v.vpInflight = FALSE, !.v.vpPending = FALSE]
       IN  IF r.ok THEN RequestRender(o) ELSE o

OnViewport(w, r) ==
  IF ~r.cur THEN w
  ELSE LET o == [w EXCEPT !.v.vpInflight = FALSE]
           p == IF r.ok THEN RequestRender(o) ELSE o
       IN  IF p.v.vpPending THEN StartViewport([p EXCEPT !.v.vpPending = FALSE], p.v.lastVp) ELSE p

OnClick(w, r) ==
  IF ~r.cur THEN w ELSE IF r.href THEN DoLoad(w) ELSE RequestRender(w)

OnRelease(w, r) ==
  IF r.href THEN DoLoad(w) ELSE IF r.changed THEN RequestRender(w) ELSE w

OnWake(w) == IF w.v.opened THEN [w EXCEPT !.v.armed = TRUE] ELSE w

\* on_result, by the type of the result; a closed view only drops it.
OnResult(w, r) ==
  IF w.v.closed THEN w
  ELSE CASE r.kind = "load"     -> OnPage(w, r)
         [] r.kind = "render"   -> OnFrame(w, r)
         [] r.kind = "viewport" -> OnViewport(w, r)
         [] r.kind = "click"    -> OnClick(w, r)
         [] r.kind = "release"  -> OnRelease(w, r)
         [] r.kind = "wake"     -> OnWake(w)
         [] r.kind \in {"export", "unref"} -> w

\* The next idle, and the end of its reference.
Deliver ==
  /\ idles # <<>>
  /\ LET o == OnResult([World EXCEPT !.idles = Tail(@)], Head(idles))
     IN  Become([o EXCEPT !.refs = @ - 1])
  /\ UNCHANGED <<session, events>>

-----------------------------------------------------------------------------
(* The engine thread: run_req, one job at a time *)

\* ns_page_session_new, at the first request.
Session == [session EXCEPT !.alive = TRUE]

\* frame_valid = 0
InvalidateFrame(s) == [s EXCEPT !.valid = FALSE]

\* A result is posted with a reference of its own; then the request's
\* reference goes back to the main loop to be dropped.
Finish(results) ==
  /\ jobs' = Tail(jobs)
  /\ idles' = idles \o results \o <<[kind |-> "unref", cur |-> TRUE]>>
  /\ refs' = refs + Len(results)
  /\ UNCHANGED view

MayNavigate == view.load < MaxLoads

\* run_load and ns_page_session_open: the previous page is parked or closed.
RunLoad(j, outcome) ==
  /\ outcome = "fail" => May("fail")
  /\ outcome = "redirect" => May("redirect") /\ MayNavigate
  /\ outcome = "ok" => UNCHANGED events
  /\ session' = [InvalidateFrame(Session) EXCEPT
                   !.page = IF outcome = "fail" THEN None ELSE j.load,
                   !.vp = j.size, !.tiles = Blank, !.dirty = {}, !.damageFull = FALSE,
                   !.repaint = FALSE, !.anim = 0, !.wantScroll = None, !.wantNav = FALSE,
                   !.wakePosted = FALSE]
  /\ Finish(<<[kind |-> "load", cur |-> j.cur, load |-> j.load, outcome |-> outcome]>>)

\* ns_browser_tick: what the page wanted to show is due; an animation moves on.
AnimTile == CHOOSE t \in Tiles : TRUE
Ticked(s) == s.repaint \/ s.anim > 0 \/ s.wantScroll # None
AfterTick(s) ==
  IF s.anim = 0 THEN [s EXCEPT !.repaint = FALSE]
  ELSE [s EXCEPT !.repaint = FALSE, !.anim = @ - 1,
                 !.tiles[AnimTile] = @ + 1, !.dirty = @ \cup {AnimTile}]

\* ns_page_session_render, as the session it leaves and the result.
RenderOf(s, j) ==
  LET ran      == s.valid
      t        == IF ran THEN AfterTick(s) ELSE s
      scroll   == IF s.wantScroll # None THEN s.wantScroll ELSE j.scroll
      scrolled == scroll # s.fb.scroll
      byDamage == ran /\ ~t.damageFull /\ s.fb.size = j.size
      same     == ran /\ ~scrolled /\ s.fb.size = j.size
      unchanged == \/ same /\ ~Ticked(s)
                   \/ byDamage /\ t.dirty = {} /\ ~scrolled
      pic      == IF unchanged THEN s.fb
                  ELSE IF byDamage THEN Patched([s.fb EXCEPT !.scroll = scroll], t.dirty, t.tiles)
                  ELSE Painted(t, scroll, j.size)
      gen      == IF unchanged THEN s.gen ELSE s.gen + 1
  IN  [s |-> [t EXCEPT !.dirty = {}, !.damageFull = FALSE, !.wantScroll = None,
                       !.wantNav = FALSE, !.valid = TRUE, !.fb = pic, !.gen = gen,
                       !.wakePosted = FALSE],
       r |-> [kind |-> "render", cur |-> j.cur, ok |-> TRUE,
              has |-> IF unchanged THEN "none"
                      ELSE IF byDamage /\ ~scrolled THEN "patch" ELSE "full",
              pic |-> pic, damage |-> t.dirty, base |-> s.gen, gen |-> gen,
              scroll |-> s.wantScroll, nav |-> s.wantNav, animating |-> t.anim > 0]]

\* Mutant of ns_page_session_render: the wake stays posted.
RunRenderWoken(j) ==
  LET s   == IF j.full THEN InvalidateFrame(Session) ELSE Session
      out == RenderOf(s, j)
  IN  IF s.page = None
      THEN /\ session' = s
           /\ Finish(<<[kind |-> "render", cur |-> j.cur, ok |-> FALSE]>>)
      ELSE session' = [out.s EXCEPT !.wakePosted = s.wakePosted] /\ Finish(<<out.r>>)

RunRender(j) ==
  LET s   == IF j.full THEN InvalidateFrame(Session) ELSE Session
      out == RenderOf(s, j)
  IN  IF s.page = None
      THEN /\ session' = s
           /\ Finish(<<[kind |-> "render", cur |-> j.cur, ok |-> FALSE]>>)
      ELSE session' = out.s /\ Finish(<<out.r>>)

\* ns_page_session_set_viewport
RunViewport(j) ==
  /\ session' = IF Session.page = None THEN Session
                ELSE [InvalidateFrame(Session) EXCEPT !.vp = j.size]
  /\ Finish(<<[kind |-> "viewport", cur |-> j.cur, ok |-> Session.page # None]>>)

\* A change of the page's looks that script made.
Drawn(s, tiles) ==
  [s EXCEPT !.tiles = [t \in Tiles |-> IF t \in tiles THEN s.tiles[t] + 1 ELSE s.tiles[t]],
            !.dirty = @ \cup tiles, !.repaint = TRUE]

\* ns_page_session_click, ns_page_session_release: the page may follow a
\* link, change or do nothing.
RunPress(j, effect) ==
  /\ effect = "nav" => MayNavigate
  /\ LET s == IF Session.page = None THEN Session ELSE InvalidateFrame(Session)
     IN  session' = IF effect = "draw" THEN Drawn(s, {AnimTile}) ELSE s
  /\ Finish(<<[kind |-> j.kind, cur |-> j.cur, by |-> j.by, href |-> effect = "nav",
               changed |-> effect = "draw"]>>)

\* ns_page_session_export
RunExport ==
  /\ session' = IF Session.page = None THEN Session ELSE InvalidateFrame(Session)
  /\ Finish(<<[kind |-> "export", cur |-> TRUE]>>)

\* ns_page_session_free
RunClose ==
  /\ session' = [session EXCEPT !.alive = FALSE, !.page = None, !.valid = FALSE]
  /\ Finish(<<>>)

RunJob ==
  /\ jobs # <<>>
  /\ LET j == Head(jobs) IN
     \/ j.kind = "load" /\ \E outcome \in {"ok", "fail", "redirect"} : RunLoad(j, outcome)
     \/ j.kind = "render" /\ RunRender(j) /\ UNCHANGED events
     \/ j.kind = "viewport" /\ RunViewport(j) /\ UNCHANGED events
     \/ /\ j.kind \in {"click", "release"} /\ UNCHANGED events
        /\ \E effect \in {"none", "draw", "nav"} : RunPress(j, effect)
     \/ j.kind = "export" /\ RunExport /\ UNCHANGED events
     \/ j.kind = "close" /\ RunClose /\ UNCHANGED events

-----------------------------------------------------------------------------
(* The engine thread: the page between two jobs *)

WakeDue(s) == s.alive /\ ~s.wakePosted /\ NeedsFrame(s)

\* Mutant of pv_session_wake: no reference for the idle.
SessionWakeBorrowed ==
  /\ WakeDue(session)
  /\ session' = [session EXCEPT !.wakePosted = TRUE]
  /\ idles' = Append(idles, [kind |-> "wake", cur |-> TRUE])
  /\ UNCHANGED <<view, jobs, refs, events>>

\* session_wake_dispatch
SessionWake ==
  /\ WakeDue(session)
  /\ session' = [session EXCEPT !.wakePosted = TRUE]
  /\ idles' = Append(idles, [kind |-> "wake", cur |-> TRUE])
  /\ refs' = refs + 1
  /\ UNCHANGED <<view, jobs, events>>

PageStep(e, s) ==
  /\ session.page # None /\ May(e)
  /\ session' = s
  /\ UNCHANGED <<view, jobs, idles, refs>>

PageWork ==
  \/ \E t \in Tiles : PageStep("draw", Drawn(session, {t}))
  \/ PageStep("relayout", [Drawn(session, Tiles) EXCEPT !.damageFull = TRUE])
  \/ session.anim = 0 /\ PageStep("animate", [session EXCEPT !.anim = 2])
  \/ \E pos \in Scrolls : PageStep("pagescroll", [session EXCEPT !.wantScroll = pos])
  \/ MayNavigate /\ PageStep("pagenav", [session EXCEPT !.wantNav = TRUE])

-----------------------------------------------------------------------------
User ==
  \/ Load \/ Stop \/ Destroy \/ AskSave
  \/ \E chosen \in BOOLEAN : SaveAnswered(chosen)
  \/ \E size \in Sizes : Resize(size)
  \/ \E pos \in Scrolls : ScrollView(pos)
  \/ \E kind \in {"click", "release"} : Press(kind)

ViewNext == User \/ AnimTick \/ Deliver \/ RunJob \/ SessionWake \/ PageWork

\* Both loops keep running: the main loop dispatches its idles and the frame
\* clock its ticks, the engine thread its jobs and its wake source.
ViewFairness ==
  WF_vars(AnimTick) /\ WF_vars(Deliver) /\ WF_vars(RunJob) /\ WF_vars(SessionWake)

ViewSpec == ViewInit /\ [][ViewNext]_vars /\ ViewFairness

-----------------------------------------------------------------------------
(* Properties *)

\* The pixels on the view, put together from copies and patches of which some
\* were dropped, are what the engine had in its frame of that generation.
FrameFaithful ==
  view.frame.gen # None => view.frame.pic = view.frame.shot

\* A view that shows a page shows nothing of the page it navigated away from.
FrameOfThisPage ==
  view.opened /\ view.frame.gen # None => view.frame.pic.load = view.load

Quiet == jobs = <<>> /\ idles = <<>> /\ ~view.armed /\ ~WakeDue(session)

\* When both sides have nothing left to do, an open view shows its page as it
\* looks, at the view's scroll position and size, laid out for that size: no
\* change, scroll or resize made while a request was in flight is forgotten.
\* (A frame that the stop button dropped may be, since the engine believes it
\* was taken: such a view is left out until it loads again.)
RestUpToDate ==
  Quiet /\ view.opened /\ ~view.closed /\ ~view.stopped =>
    /\ view.frame.gen # None
    /\ view.frame.pic = Painted(session, view.scroll, view.size)
    /\ view.size > 0 => session.vp = view.size

\* A view keeps one reference for its widget, one for a file dialog and one for
\* everything under way, so that it is freed neither too early nor never.
Held(b) == IF b THEN 1 ELSE 0
RefsBalanced ==
  refs = Held(~view.closed) + Held(view.asking) + Len(jobs) + Len(idles)

\* The main loop takes the result of an input of one of the kinds, made on a
\* page the user has navigated away from, and does not navigate for it.
StaleIgnored(kinds) ==
  Len(idles') < Len(idles) =>
    LET r == Head(idles)
    IN  r.kind \in kinds /\ r.by # view.load => view'.load = view.load

\* do_load "invalidates all in-flight requests" (procview.c:1573): no click or
\* release under way when a navigation starts may start another one.
StaleInputIgnored == [][StaleIgnored({"click", "release"})]_vars

\* A frame the page needs is rendered, although the view does not poll.
NeedsServed == NeedsFrame(session) ~> (~NeedsFrame(session) \/ ~view.opened)

\* A navigation of a view that has a size ends.
LoadEnds == (view.loading /\ ~view.deferred) ~> (~view.loading \/ view.deferred \/ view.closed)

=============================================================================
