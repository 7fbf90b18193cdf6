--------------------------- MODULE SessionHistory ---------------------------
(***************************************************************************)
(* The session history of a view (src/src/gtk/procview.c), and the pages   *)
(* and form bodies of its session on the engine thread                     *)
(* (src/src/page_session.c, src/src/libnorthstar.c).                       *)
(*                                                                         *)
(* The view knows urls only: a load names one, with whether it is to be    *)
(* recorded and whether it may restore a cached page.  Pages redirect, are *)
(* redirected by their server, change their url, ask to be left and submit *)
(* forms, at any time, of which the view hears with the next frame.  As in *)
(* ViewProtocol, cur stands for the equality of a request's sequence       *)
(* number with the view's; what makes the view ask for frames, and what    *)
(* they show, is left to that module.                                      *)
(***************************************************************************)
EXTENDS Integers, Sequences, SequencesExt

CONSTANTS Urls,         \* what is in them is not looked at
          CacheMax,     \* NS_BFCACHE_MAX
          MaxRedirects, \* NS_PROC_MAX_JS_REDIRECTS
          MaxEvents     \* bound of the model: what users and pages do

ASSUME HistoryAssumption ==
  CacheMax \in Nat \ {0} /\ MaxRedirects \in Nat /\ MaxEvents \in Nat

None == "none"
ASSUME NoneAssumption == None \notin Urls
NoLoad == [url |-> None]
NoForm == [body |-> None]
NoPost == [url |-> None, form |-> NoForm]

VARIABLES history, index, \* urls, oldest first; which is the current one, or 0
          view,     \* the rest of NsProcView
          jobs,     \* requests to the engine thread
          results,  \* their results on the way to the view
          page,     \* s->cur, or 0
          cached,   \* s->bf, oldest first
          post,     \* s->post_url and s->post_body, or NoPost
          pages,    \* ns_browser by the number of its opening
          events,   \* events so far
          sent,     \* for the properties: the bodies that were sent
          closed,   \* pages closed
          strayed   \* a load that is not recorded went elsewhere
uiVars  == <<history, index, view, strayed>>
engVars == <<page, cached, post, pages, sent, closed>>
vars    == <<uiVars, jobs, results, engVars, events>>

HistoryInit ==
  /\ history = <<>> /\ index = 0
  /\ \E sized \in BOOLEAN :
       view = [opened |-> FALSE, loading |-> FALSE, record |-> FALSE, current |-> None,
               redirects |-> 0, inflight |-> FALSE, sized |-> sized, deferred |-> NoLoad]
  /\ jobs = <<>> /\ results = <<>>
  /\ page = 0 /\ cached = <<>> /\ post = NoPost /\ pages = <<>>
  /\ events = 0
  /\ sent = <<>> /\ closed = {} /\ strayed = FALSE

Event == events < MaxEvents /\ events' = events + 1

-----------------------------------------------------------------------------
(* The view *)

\* What new sequence numbers make of requests and results, of one kind or all.
Outdated(q)      == [i \in DOMAIN q |-> [q[i] EXCEPT !.cur = FALSE]]
OutdatedOf(k, q) == [i \in DOMAIN q |-> IF q[i].kind = k THEN [q[i] EXCEPT !.cur = FALSE] ELSE q[i]]

\* push_history
PushHistory(url) ==
  IF index > 0 /\ history[index] = url THEN UNCHANGED <<history, index>>
  ELSE history' = Append(SubSeq(history, 1, index), url) /\ index' = index + 1

\* replace_history
ReplaceHistory(url) ==
  /\ history' = IF index > 0 THEN [history EXCEPT ![index] = url] ELSE history
  /\ UNCHANGED index

\* do_load, from a view v with q the results that are left.  A widget that has no
\* size yet puts the load off.
DoLoad(v, q, url, record, hist) ==
  /\ results' = Outdated(q)
  /\ view' = [v EXCEPT !.opened = FALSE, !.loading = TRUE, !.record = record, !.inflight = FALSE,
                       !.deferred = IF v.sized THEN @ ELSE [url |-> url, record |-> record, hist |-> hist]]
  /\ jobs' = IF v.sized
             THEN Append(Outdated(jobs), [kind |-> "load", cur |-> TRUE, url |-> url, hist |-> hist])
             ELSE Outdated(jobs)

\* ns_proc_view_load
Load ==
  /\ Event
  /\ \E url \in Urls : DoLoad(view, results, url, TRUE, FALSE)
  /\ strayed' = FALSE
  /\ UNCHANGED <<history, index, engVars>>

\* ns_proc_view_back and ns_proc_view_forward
Traverse ==
  /\ Event
  /\ index' \in {index - 1, index + 1} \cap DOMAIN history
  /\ DoLoad(view, results, history[index'], FALSE, TRUE)
  /\ strayed' = FALSE
  /\ UNCHANGED <<history, engVars>>

\* ns_proc_view_reload
Reload ==
  /\ Event
  /\ index > 0 \/ view.current # None
  /\ DoLoad(view, results, IF index > 0 THEN history[index] ELSE view.current, FALSE, FALSE)
  /\ strayed' = FALSE
  /\ UNCHANGED <<history, index, engVars>>

\* on_resize, the first time.
Resize ==
  /\ ~view.sized
  /\ IF view.deferred = NoLoad
     THEN view' = [view EXCEPT !.sized = TRUE] /\ UNCHANGED <<jobs, results>>
     ELSE DoLoad([view EXCEPT !.sized = TRUE, !.deferred = NoLoad], results,
                 view.deferred.url, view.deferred.record, view.deferred.hist)
  /\ UNCHANGED <<history, index, strayed, engVars, events>>

\* ns_proc_view_stop
Stop ==
  /\ Event
  /\ view' = [view EXCEPT !.loading = FALSE, !.inflight = FALSE]
  /\ jobs' = OutdatedOf("render", jobs) /\ results' = OutdatedOf("frame", results)
  /\ UNCHANGED <<history, index, strayed, engVars>>

\* A press of the pointer, or a key; its release.
Input ==
  /\ Event /\ view.opened
  /\ \E kind \in {"press", "release"} :
       /\ jobs' = Append(OutdatedOf(kind, jobs), [kind |-> kind, cur |-> TRUE, n |-> events])
       /\ results' = OutdatedOf(kind, results)
  /\ UNCHANGED <<uiVars, engVars>>

\* request_render, for any of its reasons.
AskFrame(v, q) ==
  /\ results' = OutdatedOf("frame", q)
  /\ jobs' = Append(OutdatedOf("render", jobs), [kind |-> "render", cur |-> TRUE])
  /\ view' = [v EXCEPT !.inflight = TRUE]
RequestRender ==
  /\ view.opened /\ ~view.inflight
  /\ page # 0 /\ (pages[page].dirty \/ pages[page].nav # None)
  /\ AskFrame(view, results)
  /\ UNCHANGED <<history, index, strayed, engVars, events>>

\* The first result, of a kind.
Result(kinds) == results # <<>> /\ Head(results).kind \in kinds /\ UNCHANGED <<engVars, events>>
Dropped == results' = Tail(results) /\ UNCHANGED <<uiVars, jobs>>

Redirects(res) == res.nav # None /\ view.redirects < MaxRedirects

\* Mutant of Redirect: a redirect is not recorded.
RedirectUnrecorded(url) ==
  DoLoad([view EXCEPT !.redirects = @ + 1], Tail(results), url, FALSE, FALSE)

\* A page that is to be left for another as soon as it is there.
Redirect(url) ==
  DoLoad([view EXCEPT !.redirects = @ + 1], Tail(results), url, view.record, FALSE)

\* on_result for RES_PAGE.
PageResult ==
  /\ Result({"page"})
  /\ LET res == Head(results) IN
     \/ ~res.cur /\ Dropped
     \/ /\ res.cur /\ ~res.ok
        /\ view' = [view EXCEPT !.loading = FALSE] /\ results' = Tail(results)
        /\ UNCHANGED <<history, index, strayed, jobs>>
     \/ /\ res.cur /\ res.ok /\ Redirects(res)
        /\ Redirect(res.nav)
        /\ strayed' = (strayed \/ ~view.record)
        /\ UNCHANGED <<history, index>>
     \/ /\ res.cur /\ res.ok /\ ~Redirects(res)
        /\ AskFrame([view EXCEPT !.redirects = 0, !.current = res.url, !.opened = TRUE,
                                 !.loading = FALSE], Tail(results))
        /\ IF view.record THEN PushHistory(res.url) ELSE UNCHANGED <<history, index>>
        /\ strayed' = (strayed \/ (~view.record /\ index > 0 /\ history[index] # res.url))

\* on_result for RES_FRAME: the url, then a navigation of the page's own.
FrameUrl(res) == res.cur /\ res.ok /\ view.opened /\ ~view.loading /\ res.url # view.current
FrameResult ==
  /\ Result({"frame"})
  /\ LET res  == Head(results)
         seen == [view EXCEPT !.current = IF FrameUrl(res) THEN res.url ELSE @]
         away == res.cur /\ res.ok /\ Redirects(res)
     IN  /\ IF ~FrameUrl(res) THEN UNCHANGED <<history, index>>
            ELSE IF res.pushed THEN PushHistory(res.url)
            ELSE ReplaceHistory(res.url)
         /\ IF away THEN DoLoad([seen EXCEPT !.redirects = @ + 1], Tail(results), res.nav, FALSE, FALSE)
            ELSE /\ view' = [seen EXCEPT !.inflight = FALSE,
                                         !.loading = @ /\ ~(res.cur /\ ~res.ok)]
                 /\ results' = Tail(results) /\ UNCHANGED jobs
         /\ strayed' = ((strayed /\ ~FrameUrl(res)) \/ away)

\* on_result for RES_CLICK and RES_KEY, and for RES_RELEASE, which is taken even
\* if it is late.
InputResult ==
  /\ Result({"press", "release"})
  /\ LET res   == Head(results)
         taken == (res.cur \/ res.kind = "release") /\ res.href # None
     IN  \/ ~taken /\ Dropped
         \/ /\ taken
            /\ DoLoad(view, Tail(results), res.href, TRUE, FALSE)
            /\ strayed' = FALSE /\ UNCHANGED <<history, index>>

View ==
  \/ Load \/ Traverse \/ Reload \/ Resize \/ Stop \/ Input \/ RequestRender
  \/ PageResult \/ FrameResult \/ InputResult

-----------------------------------------------------------------------------
(* The engine thread *)

\* A form; its body is the number of the event that submitted it.
Form(n, p, url) == [body |-> n, action |-> url, from |-> p]

Job(kinds) == jobs # <<>> /\ Head(jobs).kind \in kinds /\ jobs' = Tail(jobs) /\ UNCHANGED uiVars
Answer(res) == results' = Append(results, res)

\* Mutant of Park: a page that is evicted is not closed.
ParkLeaking(rest, p) ==
  IF p = 0 THEN cached' = rest /\ UNCHANGED closed
  ELSE IF ~pages[p].eligible THEN cached' = rest /\ closed' = closed \cup {p}
  ELSE IF Len(rest) < CacheMax THEN cached' = Append(rest, p) /\ UNCHANGED closed
  ELSE cached' = Append(Tail(rest), p) /\ UNCHANGED closed

\* session_bfcache_park_or_close, on what the cache holds.
Park(rest, p) ==
  IF p = 0 THEN cached' = rest /\ UNCHANGED closed
  ELSE IF ~pages[p].eligible THEN cached' = rest /\ closed' = closed \cup {p}
  ELSE IF Len(rest) < CacheMax THEN cached' = Append(rest, p) /\ UNCHANGED closed
  ELSE cached' = Append(Tail(rest), p) /\ closed' = closed \cup {Head(rest)}

\* session_bfcache_take: the newest cached page of a url, or 0.
Found(url) ==
  LET fits == {i \in DOMAIN cached : pages[cached[i]].url = url}
  IN  IF fits = {} THEN 0 ELSE CHOOSE i \in fits : \A j \in fits : j <= i

\* fill_page_info takes the navigation that is pending, but no form.
Restore(job, i) ==
  LET p == cached[i] IN
  /\ Park(RemoveAt(cached, i), page)
  /\ page' = p
  /\ pages' = [pages EXCEPT ![p].nav = None]
  /\ Answer([kind |-> "page", cur |-> job.cur, ok |-> TRUE, url |-> pages[p].url, nav |-> pages[p].nav])
  /\ UNCHANGED <<sent, events>>

\* The stashed body goes with a load of the url it was stashed for.
PostFor(url) == post.url = url

\* Whether a page may be kept is settled as it opens (bfcache_ok, assigned
\* once): what parking it asks later is only that field.
Open(job) ==
  /\ Park(cached, page)
  /\ sent' = IF PostFor(job.url)
             THEN Append(sent, [form |-> post.form, to |-> job.url, left |-> page]) ELSE sent
  /\ \/ /\ page' = 0 /\ UNCHANGED <<pages, events>>
        /\ Answer([kind |-> "page", cur |-> job.cur, ok |-> FALSE])
     \/ \E url \in Urls, eligible \in BOOLEAN, nav \in Urls \cup {None}, posts \in BOOLEAN :
          /\ PostFor(job.url) => ~eligible
          /\ IF url = job.url /\ nav = None THEN UNCHANGED events ELSE Event
          /\ posts => nav # None
          /\ page' = Len(pages) + 1
          /\ pages' = Append(pages,
               [url |-> url, pushed |-> FALSE, dirty |-> FALSE, nav |-> None, eligible |-> eligible,
                form |-> IF posts THEN Form(events, page', nav) ELSE NoForm])
          /\ Answer([kind |-> "page", cur |-> job.cur, ok |-> TRUE, url |-> url, nav |-> nav])

\* Mutant of ClearPost: the body stays for another load.
KeepPost == UNCHANGED post

\* session_clear_post
ClearPost == post' = NoPost

\* ns_page_session_open
RunLoad ==
  /\ Job({"load"})
  /\ LET job == Head(jobs)
         i   == IF job.hist THEN Found(job.url) ELSE 0
     IN  IF i # 0 THEN Restore(job, i) ELSE Open(job)
  /\ ClearPost

\* session_stash_post: the body that is pending is kept for the url that is taken
\* with it.
Stash(p, href) ==
  post' = IF p.form # NoForm THEN [url |-> href, form |-> p.form] ELSE post

\* ns_page_session_render
RunRender ==
  /\ Job({"render"})
  /\ IF page = 0
     THEN /\ Answer([kind |-> "frame", cur |-> Head(jobs).cur, ok |-> FALSE, nav |-> None])
          /\ UNCHANGED <<post, pages>>
     ELSE LET p == pages[page] IN
          /\ Answer([kind |-> "frame", cur |-> Head(jobs).cur, ok |-> TRUE, url |-> p.url,
                     pushed |-> p.pushed, nav |-> p.nav])
          /\ IF p.nav # None THEN Stash(p, p.nav) ELSE UNCHANGED post
          /\ pages' = [pages EXCEPT ![page] =
                         [p EXCEPT !.nav = None, !.pushed = FALSE, !.dirty = FALSE,
                                   !.form = IF p.nav # None THEN NoForm ELSE @]]
  /\ UNCHANGED <<page, cached, sent, closed, events>>

\* ns_page_session_click, _release and _key: what was pending is forgotten, but for
\* a form; then a link is followed, or a form submitted, or nothing happens.
RunInput ==
  /\ Job({"press", "release"})
  /\ \E href \in Urls \cup {None}, posts \in BOOLEAN :
       /\ posts => href # None
       /\ page = 0 => href = None
       /\ IF page = 0 THEN UNCHANGED <<post, pages>>
          ELSE LET p == [pages[page] EXCEPT !.nav = None,
                                             !.form = IF posts THEN Form(Head(jobs).n, page, href) ELSE @]
               IN  Stash(p, href) /\ pages' = [pages EXCEPT ![page] = [p EXCEPT !.form = NoForm]]
       /\ Answer([kind |-> Head(jobs).kind, cur |-> Head(jobs).cur, href |-> href])
  /\ UNCHANGED <<page, cached, sent, closed, events>>

\* Script of the current page: pushState, replaceState and history.go; a
\* navigation; a form.
Script(p) ==
  /\ Event
  /\ page # 0 /\ pages' = [pages EXCEPT ![page] = p]
  /\ UNCHANGED <<uiVars, jobs, results, page, cached, post, sent, closed>>
SoftNavigate ==
  \E url \in Urls, replace \in BOOLEAN :
    Script([pages[page] EXCEPT !.url = url, !.dirty = TRUE, !.pushed = @ \/ ~replace])
Navigate == \E url \in Urls : Script([pages[page] EXCEPT !.nav = url])
Submit   == \E url \in Urls : Script([pages[page] EXCEPT !.nav = url, !.form = Form(events, page, url)])

Engine == RunLoad \/ RunRender \/ RunInput \/ SoftNavigate \/ Navigate \/ Submit

HistoryNext == View \/ Engine
HistorySpec == HistoryInit /\ [][HistoryNext]_vars

-----------------------------------------------------------------------------
(* Properties *)

\* Whatever loads, results and changes of the url overtook each other, the entry
\* that the index is on is the page that is shown, unless the last navigation was
\* one that is not recorded and that ended elsewhere: a page that left by itself,
\* or an entry or a reload that was redirected.
EntryShown ==
  view.opened /\ ~view.loading => index > 0 /\ (history[index] = view.current \/ strayed)

\* Each page that was opened is the current one, or in the cache, or closed, and
\* only one of these, and the cache is within its limit.
PagesOwned ==
  /\ Len(cached) <= CacheMax
  /\ \A p \in DOMAIN pages :
       LET at == {i \in DOMAIN cached : cached[i] = p}
       IN  \/ p = page /\ at = {} /\ p \notin closed
           \/ p # page /\ (\E i \in at : at = {i}) /\ p \notin closed
           \/ p # page /\ at = {} /\ p \in closed

\* A form is sent once, with a load that leaves the page it is from.
BodiesOnce ==
  \A i \in DOMAIN sent :
    /\ sent[i].left = sent[i].form.from
    /\ \A j \in DOMAIN sent : sent[j].form = sent[i].form => i = j

\* "Builds a GET/POST form submission per method/action" (libnorthstar.c:3239):
\* what a form sends goes to the action of that form.
PostToItsAction == \A i \in DOMAIN sent : sent[i].to = sent[i].form.action

=============================================================================
