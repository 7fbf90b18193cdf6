----------------------------- MODULE HttpCache -----------------------------
(***************************************************************************)
(* The disk cache of HTTP responses (src/src/cache.c) and the fetches that *)
(* ask and fill it (src/src/net.c): rows in SQLite, a body file for each.  *)
(*                                                                         *)
(* g_cache_mutex makes the calls of the cache exclusive, but each write to *)
(* the disk is a step: the process may be killed between two of them.  A   *)
(* fetch holds no lock while it waits for the server, so what it read from *)
(* the cache may be replaced, evicted or cleared before it is answered.    *)
(*                                                                         *)
(* A response is the version of the resource it shows and the request      *)
(* header it was chosen by, if any.  It is its own validator.  A partition *)
(* is part of the URL; `private' and unsupported Vary headers have, for a  *)
(* new response, the effect of `no-store'.  SQLite's own statements are    *)
(* taken to succeed, and the clock to go forward.                          *)
(***************************************************************************)
EXTENDS Integers, FiniteSets, FiniteSetsExt, Functions

CONSTANTS Fetchers,   \* fetch threads
          Urls,
          Headers,    \* values of a request header that Vary can name
          Plain,      \* selector of a response that does not vary
          CapBytes,   \* cache_cap_bytes
          MaxAge,     \* NS_CACHE_MAX_AGE_SECONDS
          MaxLife,    \* longest lifetime a response is given
          MaxVer,     \* bound of the model: versions of a resource
          MaxNow,     \* bound of the model: the clock
          MaxCrashes, \* bound of the model: kills of the process
          MaxClears   \* bound of the model: times the user clears the cache

ASSUME CacheAssumption ==
  /\ Plain \notin Headers
  /\ CapBytes \in Nat /\ MaxAge \in Nat /\ MaxLife \in Nat /\ MaxVer \in Nat
  /\ MaxNow \in Nat /\ MaxCrashes \in Nat /\ MaxClears \in Nat

Selectors == Headers \cup {Plain}
CacheKeys      == Urls \X Selectors
None      == [url |-> "none"]

\* A later version is larger.
Size(resp) == resp.ver

VARIABLES row,     \* entries: for each key its [tag, expires, used], or None
          body,    \* the body files: for each key a response, or None
          busy,    \* the call that holds the mutex, and what it has yet to delete
          fetch,   \* for each thread, where ns_net_fetch is
          server,  \* for each URL its version, and whether it varies
          env,     \* [now, up, crashes, clears]
          notes    \* for the properties: torn, keys whose row was written and
                   \* body not; orphans, bodies left by a half-done clear
cacheVars == <<row, body, busy, fetch, server, env, notes>>

Free     == [op |-> "free"]
IdleCall == [pc |-> "idle"]

CacheInit ==
  /\ row = [k \in CacheKeys |-> None] /\ body = [k \in CacheKeys |-> None]
  /\ busy = Free
  /\ fetch = [t \in Fetchers |-> IdleCall]
  /\ server = [u \in Urls |-> [ver |-> 1, varies |-> FALSE]]
  /\ env = [now |-> 0, up |-> TRUE, crashes |-> 0, clears |-> 0]
  /\ notes = [torn |-> {}, orphans |-> {}]

-----------------------------------------------------------------------------
(* Keys and eviction *)

\* Mutant of row_key_for: the header is not part of the key.
KeyUnselected(u, sel) == <<u, Plain>>

\* row_key_for
KeyFor(u, sel) == <<u, sel>>

\* find_row_key: the rows of the URL that suit the request's header.  SQLite
\* gives them in no order the code asks for.
Found(u, h) == {KeyFor(u, Plain), KeyFor(u, h)} \cap {k \in CacheKeys : row[k] # None}

Rows == {k \in CacheKeys : row[k] # None}

\* Equal times are ordered by key, a hash.
Rank == CHOOSE f \in [CacheKeys -> 1..Cardinality(CacheKeys)] : IsInjective(f)
UsedNoEarlier(j, k) == row[j].used > row[k].used \/ (row[j].used = row[k].used /\ Rank[j] >= Rank[k])

\* The sum of body_size from the last used row down to k.
Running(k) == FoldSet(LAMBDA j, sum : Size(row[j].tag) + sum, 0, {j \in Rows : UsedNoEarlier(j, k)})

\* evict_aged_out, evict_to_cap
Aged    == {k \in Rows : row[k].used < env.now - MaxAge}
OverCap == {k \in Rows : Running(k) > CapBytes}

\* A call that deletes keys one by one, then does what is left of it.
Deleting(op, keys) == [op |-> op, keys |-> keys, half |-> FALSE]

\* Mutant of delete_key: the row goes first.
RowFirst == <<"row", "body">>

\* delete_key: the order of its two writes
DeleteOrder == <<"body", "row">>

DeleteWrite(k, what) ==
  IF what = "body" THEN body' = [body EXCEPT ![k] = None] /\ UNCHANGED row
                   ELSE row' = [row EXCEPT ![k] = None] /\ UNCHANGED body

\* One write of the deletions the call still has to make.
DeleteStep ==
  /\ busy.op \in {"aged", "cap", "drop"} /\ busy.keys # {}
  /\ IF busy.half
     THEN \E k \in busy.keys :
            /\ k = busy.at /\ DeleteWrite(k, DeleteOrder[2])
            /\ busy' = Deleting(busy.op, busy.keys \ {k})
            /\ notes' = [notes EXCEPT !.torn = @ \ {k}, !.orphans = @ \ {k}]
     ELSE \E k \in busy.keys :
            /\ DeleteWrite(k, DeleteOrder[1])
            /\ busy' = [op |-> busy.op, keys |-> busy.keys, half |-> TRUE, at |-> k]
            /\ UNCHANGED notes
  /\ UNCHANGED <<fetch, server, env>>

\* evict_to_cap goes on from the aged rows to the least used; the others end.
DeleteEnd ==
  /\ busy.op \in {"aged", "cap", "drop"} /\ busy.keys = {}
  /\ busy' = IF busy.op = "aged" THEN Deleting("cap", OverCap) ELSE Free
  /\ UNCHANGED <<row, body, fetch, server, env, notes>>

-----------------------------------------------------------------------------
(* A fetch *)

\* said: the response the server said is the one the caller has.
Done(how, sel, got, said) == [pc |-> "done", how |-> how, sel |-> sel, got |-> got, said |-> said]
Asking(u, h, held)  == [pc |-> "ask", url |-> u, sel |-> h, held |-> held]

\* ns_net_fetch begins with ns_cache_get.  A row without its body is deleted.
\* A fresh entry is the answer, unless the page may not read it across
\* origins: then the fetch goes on as if there were none.
LookupMiss(t, u, h) ==
  /\ Found(u, h) = {}
  /\ fetch' = [fetch EXCEPT ![t] = Asking(u, h, None)]
  /\ UNCHANGED <<row, body, busy, notes>>

LookupBodyless(t, u, h) ==
  \E k \in Found(u, h) :
    /\ body[k] = None
    /\ row' = [row EXCEPT ![k] = None]
    /\ notes' = [notes EXCEPT !.torn = @ \ {k}]
    /\ fetch' = [fetch EXCEPT ![t] = Asking(u, h, None)]
    /\ UNCHANGED <<body, busy>>

\* ns_cache_is_fresh
IsFresh(k) == row[k].expires > env.now

\* A held entry remembers whether it was torn, for the properties.
LookupHit(t, u, h) ==
  \E k \in Found(u, h), readable \in BOOLEAN :
    /\ body[k] # None
    /\ row' = [row EXCEPT ![k].used = env.now]
    /\ fetch' = [fetch EXCEPT ![t] =
         CASE IsFresh(k) /\ readable -> Done("fresh", h, body[k], None)
           [] IsFresh(k) /\ ~readable -> Asking(u, h, None)
           [] OTHER -> Asking(u, h, [tag |-> row[k].tag, body |-> body[k], torn |-> k \in notes.torn])]
    /\ UNCHANGED <<body, busy, notes>>

Lookup(t) ==
  /\ env.up /\ busy = Free /\ fetch[t] = IdleCall
  /\ \E u \in Urls, h \in Headers : LookupMiss(t, u, h) \/ LookupBodyless(t, u, h) \/ LookupHit(t, u, h)
  /\ UNCHANGED <<server, env>>

\* What the server has for the request now.
Current(u, h) == [url |-> u, ver |-> server[u].ver, sel |-> IF server[u].varies THEN h ELSE Plain]

Replied(t, status, resp, life, cookie) ==
  [pc |-> "reply", url |-> fetch[t].url, sel |-> fetch[t].sel, held |-> fetch[t].held,
   status |-> status, resp |-> resp, life |-> life, cookie |-> cookie]

\* The server answers with the response, or that the held one is still it; with
\* a lifetime, -1 for no-store, or with a cookie, and then nobody looks at its
\* lifetime.  freshness_from_headers
\* counts a lifetime from when the answer is stored.
Answer(t) ==
  /\ env.up /\ fetch[t].pc = "ask"
  /\ \E status \in {200, 304}, life \in -1..MaxLife, cookie \in BOOLEAN :
       LET resp == Current(fetch[t].url, fetch[t].sel)
       IN  /\ cookie => life = -1
           /\ status = 304 => fetch[t].held # None /\ fetch[t].held.tag = resp
           /\ fetch' = [fetch EXCEPT ![t] = Replied(t, status, resp, life, cookie)]
  /\ UNCHANGED <<row, body, busy, server, env, notes>>

\* The request fails: there is no answer, whatever is held.
AnswerError(t) ==
  /\ env.up /\ fetch[t].pc = "ask"
  /\ fetch' = [fetch EXCEPT ![t] = IdleCall]
  /\ UNCHANGED <<row, body, busy, server, env, notes>>

\* freshness_from_headers; a response that may be kept but has no lifetime is 0.
Expiry(life) == IF life > 0 THEN env.now + life ELSE 0

\* Mutant of the 304 case: the body is read again from the cache.
ConfirmedRereads(f) ==
  IF Found(f.url, f.sel) = {} THEN f.held.body ELSE body[CHOOSE k \in Found(f.url, f.sel) : TRUE]

\* net.c fills a 304 with the entry it held from the start.
ConfirmedBody(f) == f.held.body

\* An answer that sets a cookie is kept out of the cache.  A 304 that does is
\* passed on as it is, without a body.
ReplyUncached(t, f) ==
  /\ f.cookie
  /\ fetch' = [fetch EXCEPT ![t] = IF f.status = 304 THEN Done("empty", f.sel, None, f.resp)
                                   ELSE Done("answer", f.sel, f.resp, f.resp)]
  /\ UNCHANGED <<row, body, busy, server, env, notes>>

\* ns_cache_promote_304 extends the expiry of the row that is now there.
ReplyConfirmed(t, f) ==
  /\ ~f.cookie /\ f.status = 304 /\ busy = Free
  /\ fetch' = [fetch EXCEPT ![t] =
       Done(IF f.held.torn THEN "doubtful" ELSE "confirmed", f.sel, ConfirmedBody(f), f.resp)]
  /\ \/ \E k \in Found(f.url, f.sel) :
          row' = IF Expiry(f.life) > row[k].expires
                 THEN [row EXCEPT ![k].expires = Expiry(f.life), ![k].used = env.now] ELSE row
     \/ Found(f.url, f.sel) = {} /\ UNCHANGED row
  /\ UNCHANGED <<body, busy, server, env, notes>>

\* ns_cache_put returns early for no-store, and for what cannot fit.
Storable(f) == f.life >= 0 /\ Size(f.resp) <= CapBytes

ReplyUnstored(t, f) ==
  /\ ~f.cookie /\ f.status = 200 /\ ~Storable(f)
  /\ busy = Free
  /\ fetch' = [fetch EXCEPT ![t] = Done("answer", f.sel, f.resp, f.resp)]
  /\ UNCHANGED <<row, body, busy, server, env, notes>>

\* ns_cache_put, up to its statement: the row replaces the one of the key.
PutRow(t, f) ==
  LET k == KeyFor(f.url, f.resp.sel)
  IN  /\ ~f.cookie /\ f.status = 200 /\ Storable(f) /\ busy = Free
      /\ row' = [row EXCEPT ![k] = [tag |-> f.resp, expires |-> Expiry(f.life), used |-> env.now]]
      /\ busy' = [op |-> "put", key |-> k, resp |-> f.resp]
      /\ fetch' = [fetch EXCEPT ![t] = Done("answer", f.sel, f.resp, f.resp)]
      /\ UNCHANGED <<body, server, env, notes>>

Reply(t) ==
  /\ env.up /\ fetch[t].pc = "reply"
  /\ \/ ReplyUncached(t, fetch[t])
     \/ ReplyConfirmed(t, fetch[t])
     \/ ReplyUnstored(t, fetch[t])
     \/ PutRow(t, fetch[t])

\* The body could not be written: the key is deleted.
PutFailed(k) == Deleting("drop", {k})

\* The body is written to another file, which then takes its name, or not.
PutBody(ok) ==
  /\ busy.op = "put"
  /\ IF ok THEN /\ body' = [body EXCEPT ![busy.key] = busy.resp]
                /\ busy' = Deleting("aged", Aged)
                /\ notes' = [notes EXCEPT !.torn = @ \ {busy.key}, !.orphans = @ \ {busy.key}]
           ELSE /\ busy' = PutFailed(busy.key)
                /\ UNCHANGED <<body, notes>>
  /\ UNCHANGED <<row, fetch, server, env>>

\* The caller takes the response, once nothing is done on its behalf any more.
Return(t) ==
  /\ env.up /\ fetch[t].pc = "done" /\ busy = Free
  /\ fetch' = [fetch EXCEPT ![t] = IdleCall]
  /\ UNCHANGED <<row, body, busy, server, env, notes>>

-----------------------------------------------------------------------------
(* Clearing, and the process *)

\* ns_cache_clear deletes the rows, then the bodies.
ClearRows ==
  /\ env.up /\ busy = Free /\ env.clears < MaxClears
  /\ row' = [k \in CacheKeys |-> None]
  /\ busy' = [op |-> "clear"]
  /\ env' = [env EXCEPT !.clears = @ + 1]
  /\ notes' = [notes EXCEPT !.torn = {}]
  /\ UNCHANGED <<body, fetch, server>>

ClearBodies ==
  /\ busy.op = "clear"
  /\ body' = [k \in CacheKeys |-> None]
  /\ busy' = Free
  /\ notes' = [notes EXCEPT !.orphans = {}]
  /\ UNCHANGED <<row, fetch, server, env>>

\* The keys whose row ns_cache_put has written, and whose body it has not.
Unwritten == CASE busy.op = "put" -> {busy.key} [] busy.op = "drop" -> busy.keys [] OTHER -> {}

\* The process is killed; what is on the disk stays as it is.
Crash ==
  /\ env.up /\ env.crashes < MaxCrashes
  /\ env' = [env EXCEPT !.up = FALSE, !.crashes = @ + 1]
  /\ busy' = Free
  /\ fetch' = [t \in Fetchers |-> IdleCall]
  /\ notes' = [notes EXCEPT
       !.torn    = @ \cup {k \in Unwritten : row[k] # None /\ body[k] \notin {None, row[k].tag}},
       !.orphans = IF busy.op = "clear" THEN {k \in CacheKeys : body[k] # None} ELSE @]
  /\ UNCHANGED <<row, body, server>>

\* ns_cache_init evicts before anything is fetched.
StartAgain ==
  /\ ~env.up
  /\ env' = [env EXCEPT !.up = TRUE]
  /\ busy' = Deleting("aged", Aged)
  /\ UNCHANGED <<row, body, fetch, server, notes>>

\* The resource changes; or time passes.
Change(u) ==
  /\ server[u].ver < MaxVer
  /\ \E varies \in BOOLEAN : server' = [server EXCEPT ![u] = [ver |-> @.ver + 1, varies |-> varies]]
  /\ UNCHANGED <<row, body, busy, fetch, env, notes>>

Tick ==
  /\ env.now < MaxNow
  /\ env' = [env EXCEPT !.now = @ + 1]
  /\ UNCHANGED <<row, body, busy, fetch, server, notes>>

CacheNext ==
  \/ \E t \in Fetchers : Lookup(t) \/ Answer(t) \/ AnswerError(t) \/ Reply(t) \/ Return(t)
  \/ DeleteStep \/ DeleteEnd
  \/ \E ok \in BOOLEAN : PutBody(ok)
  \/ ClearRows \/ ClearBodies \/ Crash \/ StartAgain
  \/ \E u \in Urls : Change(u)
  \/ Tick

CacheSpec == CacheInit /\ [][CacheNext]_cacheVars

-----------------------------------------------------------------------------
(* Properties *)

\* While no call of the cache is at work, a row and its body file are of the
\* same response, except where a kill fell between the two writes of
\* ns_cache_put and an older body was there.
RowsMatchBodies ==
  busy = Free =>
    \A k \in CacheKeys \ notes.torn : row[k] # None /\ body[k] # None => body[k] = row[k].tag

\* Every body file has a row, which is what eviction counts, unless a kill fell
\* between the two halves of ns_cache_clear: a kill inside delete_key does not.
BodiesIndexed ==
  busy = Free => \A k \in CacheKeys \ notes.orphans : body[k] # None => row[k] # None

\* The rows and the bodies on the disk agree, as far as kills let them.
DiskAgrees == RowsMatchBodies /\ BodiesIndexed

\* A response is given only to requests with the header it was chosen by,
\* whatever the resource's Vary was before (cache.c, vary_selector).
VaryHonoured ==
  \A t \in Fetchers :
    fetch[t].pc = "done" /\ fetch[t].how \in {"fresh", "confirmed"} => fetch[t].got.sel \in {Plain, fetch[t].sel}

\* A fetch answered 304 gives the caller the very response the server said is
\* still the one, though another fetch may have replaced it in the cache since.
ConfirmedIsCurrent ==
  \A t \in Fetchers :
    fetch[t].pc = "done" /\ fetch[t].how = "confirmed" => fetch[t].got = fetch[t].said

=============================================================================
