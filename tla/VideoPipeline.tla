--------------------------- MODULE VideoPipeline ---------------------------
(***************************************************************************)
(* An MSE video from its coded frames to the screen: the stream that feeds *)
(* the decoder on the engine thread (src/src/video.c), the worker that     *)
(* decodes (VideoWorker) and the layer the view thread presents from       *)
(* (src/src/videolayer.c), under the media clock of src/src/image.c; and   *)
(* of a page and its view what has the video shown at all: the renders     *)
(* that the view asks for and its frame clock (src/src/gtk/procview.c).    *)
(*                                                                         *)
(* Three threads meet here.  The engine thread runs mse_show in the ticks  *)
(* of the page that begin its renders.  It takes the layer's or the        *)
(* worker's lock several times; each of those sections is a step of its    *)
(* own, so that the view's frame clock and the decoder may come in between.*)
(* Everything else the engine thread does to a video (seek, pause, append, *)
(* free) happens between two mse_show calls, in a tick or between renders. *)
(*                                                                         *)
(* Times are whole frames.  Frames is the track in decode order.           *)
(***************************************************************************)
EXTENDS VideoWorker

CONSTANTS Frames,        \* <<[pts, key], ...>>, in decode order
          Forward,       \* NS_VIDEO_FORWARD_DECODE_S
          FeedAhead,     \* NS_VIDEO_FEED_AHEAD_S
          Lead,          \* NS_VIDEO_LAYER_LEAD_S
          LateData,      \* may frames be appended while the video plays?
          MaxMoves       \* bound of the model: seeks and shifts in one behaviour

ASSUME PipelineAssumption ==
  /\ Frames \in Seq([pts : Pts, key : BOOLEAN])
  /\ Frames # <<>> /\ Frames[1].key
  /\ \A i, j \in DOMAIN Frames : Frames[i].pts = Frames[j].pts => i = j
  /\ 0..Frames[Len(Frames)].pts \subseteq Pts
  /\ Forward \in Nat /\ FeedAhead \in Nat /\ Lead \in Nat
  /\ LateData \in BOOLEAN
  /\ MaxMoves \in Nat

VARIABLES loaded,     \* frames of the track appended so far
          clock,      \* [paused, pos, gen]: ns_video_clock at this moment
          layer,      \* ns_video_layer
          stream,     \* ns_video_stream
          engine,     \* where the engine thread is: "idle", in mse_show, in the
                      \* "tick" after one, or "freeing" the stream
          call,       \* mse_show's locals, and four notes for the properties:
                      \* misled, the worker's answer was about a picture that
                      \* will not come; stale, what it took for the target was
                      \* shown before the last seek; behind, since mse_show
                      \* began the clock has run, or was moved in a tick, or the
                      \* page has got a picture that is not the layer's; late,
                      \* frames were appended since mse_show began
          repaint,    \* a repaint was requested (repaint_pending)
          view,       \* NsProcView: its frame clock is armed; a render is asked
                      \* for, or another one while one is under way
          shifts      \* shifts so far

videoVars == <<workerVars, loaded, clock, layer, stream, engine, call,
               repaint, view, shifts>>

NoPicture == [id |-> -1, pts |-> -1]

PipelineInit ==
  /\ WorkerInit
  /\ loaded \in IF LateData THEN {1, Len(Frames)} ELSE {Len(Frames)}
  /\ clock = [paused |-> TRUE, pos |-> 0, gen |-> 0]
  /\ layer = [attached |-> FALSE, detached |-> FALSE, composited |-> FALSE,
              fresh |-> FALSE, picture |-> NoPicture, gen |-> 0]
  /\ stream = [picture |-> NoPicture, gen |-> 0, fed |-> 0, waiting |-> FALSE]
  /\ engine = "idle"
  /\ call = [t |-> 0, composited |-> FALSE, target |-> 0, last |-> 0,
             shown |-> FALSE, misled |-> FALSE, stale |-> FALSE, behind |-> FALSE,
             late |-> FALSE]
  /\ repaint = TRUE
  /\ view = [armed |-> FALSE, asked |-> FALSE]
  /\ shifts = 0

-----------------------------------------------------------------------------
(* The coded frames *)

Last(S) == CHOOSE i \in S : \A j \in S : j <= i

\* ns_mse_buffer_frame_at: the frame presented at t, 0 for none.  The search
\* goes back no further than the last keyframe presented by t.
FrameAt(t) ==
  LET by   == {i \in 1..loaded : Frames[i].pts <= t}
      run  == {i \in by : \A k \in by : Frames[k].key => k <= i}
      best == CHOOSE i \in run : \A j \in run : Frames[j].pts <= Frames[i].pts
  IN  IF by = {} \/ t > Frames[best].pts + 1 THEN 0 ELSE best

\* ns_mse_buffer_keyframe_at_or_before
KeyframeFor(i) == Last({j \in 1..i : Frames[j].key})

Goal == Frames[call.target].pts

-----------------------------------------------------------------------------
(* The layer *)

\* What is shown is kept if it is newer than p and of this seek generation.
KeepsShown(p) ==
  /\ layer.picture # NoPicture
  /\ p.pts < layer.picture.pts
  /\ clock.gen = layer.gen

\* layer_present_locked, in layer l: take the worker's picture for t, and show
\* it or not.
PresentLocked(t, l) ==
  IF ~l.attached
  THEN layer' = l /\ UNCHANGED workerVars
  ELSE /\ Take(t)
       /\ layer' =
            IF taken' = <<>> \/ KeepsShown(taken')
            THEN l
            ELSE [l EXCEPT !.gen = clock.gen,
                           !.picture = [id |-> taken'.id, pts |-> taken'.pts]]

\* ns_video_layer_present_now
PresentNow ==
  LET l == [layer EXCEPT !.fresh = TRUE]
  IN  IF l.composited THEN PresentLocked(clock.pos, l)
                      ELSE layer' = l /\ UNCHANGED workerVars

\* Time: 250 ms have passed since the layer was last presented.
GoStale ==
  /\ layer.fresh
  /\ layer' = [layer EXCEPT !.fresh = FALSE]
  /\ UNCHANGED <<workerVars, loaded, clock, stream, engine, call, repaint,
                 view, shifts>>

\* What the engine last saw the layer show.
SyncedPts == IF stream.gen = clock.gen THEN stream.picture.pts ELSE -1

\* ns_video_layer_shown_pts
ShownPts == IF layer.gen = clock.gen THEN layer.picture.pts ELSE -1

-----------------------------------------------------------------------------
(* mse_show, on the engine thread *)

\* mse_sync_texture: adopt the layer's picture.
Synced(s) ==
  IF layer.picture = NoPicture \/ layer.picture.id = s.picture.id
  THEN s
  ELSE [s EXCEPT !.picture = layer.picture, !.gen = clock.gen]

\* The engine takes up the render that was asked for.
Begin == view.asked /\ view' = [view EXCEPT !.asked = FALSE]

\* A tick of the page, and ns_image_apply_phase up to the first look at the layer.
\* The tick goes round while it has run something and is within its budget.
ShowBegin ==
  /\ owner = "live"
  /\ \/ engine = "idle" /\ Begin /\ repaint' = FALSE
     \/ engine = "tick" /\ UNCHANGED <<repaint, view>>
  /\ layer' = [layer EXCEPT !.attached = TRUE]
  /\ stream' = [stream EXCEPT !.waiting = FALSE]
  /\ call' = [call EXCEPT !.t = clock.pos, !.behind = FALSE,
                          !.late = FALSE,
                          !.composited = layer.composited /\ layer.fresh]
  /\ engine' = "sync"
  /\ UNCHANGED <<workerVars, loaded, clock, shifts>>

\* The time to show: that of the layer's picture if it is a little ahead.
Adjusted(s, t) ==
  IF /\ s.picture # NoPicture
     /\ s.gen = clock.gen
     /\ s.picture.pts > t
     /\ s.picture.pts - t < Lead
  THEN s.picture.pts
  ELSE t

ShowSync ==
  /\ engine = "sync"
  /\ LET s == Synced(stream)
         t == Adjusted(s, call.t)
     IN  /\ stream' = s
         /\ call' = [call EXCEPT !.t = t, !.target = FrameAt(t)]
         /\ engine' = IF FrameAt(t) = 0 THEN "tick" ELSE "present"
  /\ UNCHANGED <<workerVars, loaded, clock, layer, repaint, view, shifts>>

\* Where nobody else presents the layer, the engine does.
ShowPresent ==
  /\ engine = "present"
  /\ IF ~call.composited /\ stream.picture.pts # Goal
     THEN PresentLocked(Goal, layer)
     ELSE UNCHANGED <<workerVars, layer>>
  /\ engine' = "resync"
  /\ UNCHANGED <<loaded, clock, stream, call, repaint, view, shifts>>

\* mse_needs_restart up to where it asks the worker.
ShowResync ==
  /\ engine = "resync"
  /\ LET s     == Synced(stream)
         shown == s.picture.pts = Goal
     IN  /\ stream' = s
         /\ engine' =
              IF stream.fed = 0 THEN "restart"
              ELSE IF shown THEN "limit"
              ELSE IF call.target <= stream.fed THEN "expects"
              ELSE IF \/ Goal < s.picture.pts
                      \/ /\ Goal - s.picture.pts > Forward
                         /\ KeyframeFor(call.target) > stream.fed
                   THEN "restart"
              ELSE "limit"
         /\ call' = [call EXCEPT !.shown = shown, !.last = stream.fed,
                                 !.stale = shown /\ layer.gen # clock.gen,
                                 !.misled = @ /\ engine' = "expects"]
  /\ UNCHANGED <<workerVars, loaded, clock, layer, repaint, view, shifts>>

\* !ns_video_worker_expects(goal) && goal > ns_video_layer_shown_pts: the
\* worker is asked first, the layer next.
ShowExpects ==
  /\ engine = "expects"
  /\ engine' = IF Expects(Goal) THEN "limit" ELSE "shownpts"
  /\ call' = [call EXCEPT !.misled =
                Expects(Goal) /\ \A o \in Owed : o.pts # Goal]
  /\ UNCHANGED <<workerVars, loaded, clock, layer, stream, repaint, view, shifts>>

ShowShownPts ==
  /\ engine = "shownpts"
  /\ engine' = IF Goal > ShownPts THEN "restart" ELSE "limit"
  /\ UNCHANGED <<workerVars, loaded, clock, layer, stream, call, repaint, view,
                 shifts>>

ShowRestart ==
  /\ engine = "restart"
  /\ Restart
  /\ call' = [call EXCEPT !.last = KeyframeFor(call.target) - 1]
  /\ engine' = "limit"
  /\ UNCHANGED <<loaded, clock, layer, stream, repaint, view, shifts>>

\* mse_decode_ahead: the limit grows once the size of a picture is known.
ShowLimit ==
  /\ engine = "limit"
  /\ SetMaxPictures(IF stream.picture = NoPicture THEN DefaultLimit
                                                  ELSE MaxLimit)
  /\ engine' = "feed"
  /\ UNCHANGED <<loaded, clock, layer, stream, call, repaint, view, shifts>>

\* mse_feed's loop: one more frame, from the last fed to FeedAhead past goal.
MustFeed(i) ==
  i <= loaded /\ (i <= call.target \/ Frames[i].pts <= Goal + FeedAhead)

ShowFeed ==
  /\ engine = "feed"
  /\ LET i == call.last + 1
         pts == Frames[i].pts
     IN  /\ MustFeed(i)
         /\ Push(pts, pts >= Goal /\ ~(call.shown /\ pts = Goal))
         /\ call' = [call EXCEPT !.last = i]
         /\ stream' = [stream EXCEPT !.fed = i]
  /\ UNCHANGED <<loaded, clock, layer, engine, repaint, view, shifts>>

ShowEnd ==
  /\ engine = "feed"
  /\ ~MustFeed(call.last + 1)
  /\ stream' = [stream EXCEPT !.waiting = ~call.shown /\ Expects(Goal)]
  /\ call' = [call EXCEPT !.t = 0, !.composited = FALSE, !.target = 0,
                          !.last = 0, !.shown = FALSE]
  /\ engine' = "tick"
  /\ UNCHANGED <<workerVars, loaded, clock, layer, repaint, view, shifts>>

Show ==
  \/ ShowBegin \/ ShowSync \/ ShowPresent \/ ShowResync \/ ShowExpects
  \/ ShowShownPts \/ ShowRestart \/ ShowLimit \/ ShowFeed \/ ShowEnd

-----------------------------------------------------------------------------
(* What else the engine thread does, in a tick or between renders *)

Between == engine \in {"idle", "tick"} /\ owner = "live"

End == Frames[Len(Frames)].pts

\* ns_image_anim_seek, with the repaint media_backend_seek requests.  In a tick
\* that is at the end of its budget that is forgotten (EndTick).
Seek(p) ==
  /\ Between
  /\ clock.gen + shifts < MaxMoves
  /\ clock' = [clock EXCEPT !.pos = p, !.gen = @ + 1]
  /\ repaint' = TRUE
  /\ call' = [call EXCEPT !.behind = @ \/ engine = "tick"]
  /\ UNCHANGED <<workerVars, loaded, layer, stream, engine, view, shifts>>

\* ns_image_anim_set_paused, with the repaint media_backend_play requests.
SetPaused(b) ==
  /\ Between
  /\ clock.paused # b
  /\ clock' = [clock EXCEPT !.paused = b]
  /\ repaint' = (repaint \/ ~b)
  /\ UNCHANGED <<workerVars, loaded, layer, stream, engine, call, view, shifts>>

\* ns_image_anim_shift: the video is held back, or let forward, to follow its
\* sound.  This is no seek.
Shift(d) ==
  /\ Between
  /\ clock.gen + shifts < MaxMoves
  /\ ~clock.paused
  /\ clock.pos + d \in 0..End
  /\ clock' = [clock EXCEPT !.pos = @ + d]
  /\ shifts' = shifts + 1
  /\ call' = [call EXCEPT !.behind = TRUE]
  /\ UNCHANGED <<workerVars, loaded, layer, stream, engine, repaint, view>>

\* Time passes for the clock, up to its end.  (MSE video is not looped here.)
Tick ==
  /\ ~clock.paused
  /\ clock.pos < End
  /\ clock' = [clock EXCEPT !.pos = @ + 1]
  /\ call' = [call EXCEPT !.behind = TRUE]
  /\ UNCHANGED <<workerVars, loaded, layer, stream, engine, repaint, view, shifts>>

\* SourceBuffer.appendBuffer: more of the track.
AppendFrames ==
  /\ Between
  /\ loaded < Len(Frames)
  /\ \E n \in (loaded + 1)..Len(Frames) : loaded' = n
  /\ call' = [call EXCEPT !.late = TRUE]
  /\ UNCHANGED <<workerVars, clock, layer, stream, engine, repaint, view, shifts>>

\* Anything else on the page that has it painted again.
PageRepaint ==
  /\ Between
  /\ repaint' = TRUE
  /\ UNCHANGED <<workerVars, loaded, clock, layer, stream, engine, call, view,
                 shifts>>

DetachLate ==
  /\ Between
  /\ ~layer.detached
  /\ layer' = [layer EXCEPT !.detached = TRUE]
  /\ engine' = "freeing"
  /\ UNCHANGED <<workerVars, loaded, clock, stream, call, repaint, view, shifts>>

\* ns_video_stream_free: detach the layer, then stop and free the worker.
Detach ==
  /\ Between
  /\ ~layer.detached
  /\ layer' = [layer EXCEPT !.attached = FALSE, !.detached = TRUE,
                            !.composited = FALSE]
  /\ engine' = "freeing"
  /\ UNCHANGED <<workerVars, loaded, clock, stream, call, repaint, view, shifts>>

FreeWorker ==
  /\ engine = "freeing"
  /\ \/ FreeBegin
     \/ FreeJoin
  /\ UNCHANGED <<loaded, clock, layer, stream, engine, call, repaint, view, shifts>>

-----------------------------------------------------------------------------
(* The render that a tick begins, and the view *)

AnimatingUnlessPaused == ~clock.paused /\ clock.pos < End

\* ns_image_cache_animating: the clock runs, or a video waits for a picture.
Animating == (~clock.paused /\ clock.pos < End) \/ stream.waiting

\* The rest of a render.  paint_video_layer: the view presents the layer where a
\* picture is painted straight onto the page, and no longer where it is not: then
\* the page gets what mse_show saw last.
Paint(b) ==
  /\ b => stream.picture # NoPicture
  /\ layer' = [layer EXCEPT !.composited = b,
                            !.fresh = @ \/ (b /\ ~layer.composited)]
  /\ call' = [call EXCEPT !.behind =
                @ \/ (layer.composited /\ ~b /\ layer.picture # stream.picture)]
  /\ UNCHANGED <<workerVars, loaded, clock, stream, shifts>>

\* on_result, for the frame that was rendered: the clock of the view ticks on while
\* the page is animating, or for something else on it.
Answer(asked) ==
  \E other \in BOOLEAN : view' = [armed |-> Animating \/ other, asked |-> asked]

\* The end of ns_browser_tick, which forgets about a repaint requested in it, and
\* of the render.
EndTick ==
  /\ engine = "tick" /\ engine' = "idle"
  /\ repaint' = FALSE
  /\ \E b \in BOOLEAN : Paint(b)
  /\ Answer(view.asked)

\* A render without a tick: the last frame is not valid any more.
RenderUnticked ==
  /\ engine = "idle" /\ owner = "live" /\ view.asked
  /\ UNCHANGED <<engine, repaint>>
  /\ \E b \in BOOLEAN : Paint(b)
  /\ Answer(FALSE)

\* anim_tick: present the layer, and if it is time ask for a render.
AnimTick(ask) ==
  /\ view.armed
  /\ PresentNow
  /\ view' = [view EXCEPT !.asked = @ \/ ask]
  /\ UNCHANGED <<loaded, clock, stream, engine, call, repaint, shifts>>

\* session_wake_dispatch and pv_wake_idle: a requested repaint arms the clock.
Wake ==
  /\ engine = "idle" /\ repaint /\ ~view.armed
  /\ view' = [view EXCEPT !.armed = TRUE]
  /\ UNCHANGED <<workerVars, loaded, clock, layer, stream, engine, call, repaint,
                 shifts>>

\* The view asks for a render for reasons of its own: a scroll, a new size.
ViewAsks ==
  /\ view' = [view EXCEPT !.asked = TRUE]
  /\ UNCHANGED <<workerVars, loaded, clock, layer, stream, engine, call, repaint,
                 shifts>>

DecoderThread ==
  /\ WorkerStep
  /\ UNCHANGED <<loaded, clock, layer, stream, engine, call, repaint, view, shifts>>

PipelineNext ==
  \/ DecoderThread
  \/ Show
  \/ EndTick \/ RenderUnticked
  \/ \E ask \in BOOLEAN : AnimTick(ask)
  \/ Wake \/ ViewAsks
  \/ GoStale
  \/ Tick
  \/ \E p \in 0..End : Seek(p)
  \/ \E b \in BOOLEAN : SetPaused(b)
  \/ \E d \in {-1, 1} : Shift(d)
  \/ AppendFrames
  \/ PageRepaint
  \/ Detach
  \/ FreeWorker

\* Each thread is scheduled; posts between them arrive; an armed frame clock ticks
\* until it is time for a render.  A tick goes round a bounded number of times,
\* and only so many renders find a frame that is not valid.
PipelineFairness ==
  /\ WF_videoVars(DecoderThread)
  /\ WF_videoVars(Show) /\ SF_videoVars(ShowBegin) /\ SF_videoVars(EndTick)
  /\ WF_videoVars(AnimTick(TRUE)) /\ WF_videoVars(Wake)
  /\ WF_videoVars(FreeWorker)

PipelineSpec ==
  PipelineInit /\ [][PipelineNext]_videoVars /\ PipelineFairness

-----------------------------------------------------------------------------
(* Properties *)

\* The layer never asks a worker that is being freed.
NoUseAfterFree == layer.attached => owner = "live"

\* For a frame it was already fed, the decoder is thrown back to a keyframe only
\* if that frame is lost: the worker will not give it, and the layer, to which
\* it may have moved since the worker was asked, does not show it or a newer one.
NoNeedlessRestart ==
  [][ engine = "shownpts" /\ engine' = "restart"
        => /\ \A o \in Owed : o.pts # Goal
           /\ layer.gen = clock.gen => layer.picture.pts < Goal ]_videoVars

\* The picture on the screen: the view's where it presents the layer, else the
\* one the page was last painted with.
Visible == IF layer.composited THEN layer.picture ELSE stream.picture

\* It is the picture for the clock's position.  (A clock held back to follow its
\* sound leaves a newer one.)
OnTarget ==
  LET target == FrameAt(clock.pos)
  IN  target # 0 => \/ Visible.pts = Frames[target].pts
                    \/ shifts > 0 /\ Visible.pts > Frames[target].pts

\* The clock stands still, and mse_show has run since it does.  (A pause or the
\* end asks for no repaint: what became due at the very last tick may be missing.)
Rests ==
  /\ clock.paused \/ clock.pos = End
  /\ ~layer.detached /\ ~call.behind

\* When the clock comes to rest, and with it the way the video is painted, the
\* picture for its position gets shown and stays, unless mse_show believes that it
\* is shown (stale: mse_show compares times, not seek generations) or that it is
\* coming (misled: ns_video_worker_expects counts a decode whose picture a restart
\* has made worthless), and if mse_show has run since the last frames were appended.
RestShowsTarget ==
  \A b \in BOOLEAN :
    <>[](Rests /\ ~call.late /\ layer.composited = b)
      => <>[](OnTarget \/ call.stale \/ call.misled)

=============================================================================
