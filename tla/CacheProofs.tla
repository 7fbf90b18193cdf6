---------------------------- MODULE CacheProofs ----------------------------
(***************************************************************************)
(* The two caches.                                                         *)
(*                                                                         *)
(* The rows and the bodies of the HTTP cache, for any number of threads,   *)
(* urls and headers, any limits, and any number of kills and clears.  What *)
(* holds while no call is at work is kept by a call except for the keys it *)
(* has in hand: the one whose row ns_cache_put has written and whose body  *)
(* it has not, or which it deletes for that; and all of them while         *)
(* ns_cache_clear has deleted the rows only.                               *)
(*                                                                         *)
(* The marks of the bytecode cache, for any number of threads and scripts: *)
(* each key that is marked has exactly one job, and a reader that sleeps   *)
(* has its mark there, so that the worker which ends that job wakes it.    *)
(* The property speaks of where threads are and which key they have.  Most *)
(* steps move one thread on and leave the marks alone: QuietReader and     *)
(* QuietWriter deal with all of these.  Then its files, which writers of   *)
(* one key share without a lock: none is torn unless it is open, or its    *)
(* writer failed or was killed.                                            *)
(***************************************************************************)
EXTENDS HttpCache, BytecodeCache, TLAPS

-----------------------------------------------------------------------------
(* The HTTP cache *)

Row(r) == r = [tag |-> r.tag, expires |-> r.expires, used |-> r.used]
Deletes(b) == b.op \in {"aged", "cap", "drop"}

Shaped ==
  /\ row = [k \in CacheKeys |-> row[k]] /\ body = [k \in CacheKeys |-> body[k]]
  /\ notes = [torn |-> notes.torn, orphans |-> notes.orphans]
  /\ \A k \in CacheKeys : row[k] # None => Row(row[k])

\* What the call at work has done so far.
AtWork ==
  \/ busy = Free
  \/ busy = [op |-> "put", key |-> busy.key, resp |-> busy.resp] /\ busy.key \in CacheKeys
     /\ row[busy.key] # None /\ row[busy.key].tag = busy.resp
  \/ Deletes(busy) /\ busy = Deleting(busy.op, busy.keys) /\ busy.keys \subseteq CacheKeys
  \/ /\ Deletes(busy) /\ busy = [op |-> busy.op, keys |-> busy.keys, half |-> TRUE, at |-> busy.at]
     /\ busy.keys \subseteq CacheKeys /\ busy.at \in busy.keys /\ body[busy.at] = None
  \/ busy = [op |-> "clear"] /\ \A k \in CacheKeys : row[k] = None

Matched == \A k \in CacheKeys \ (notes.torn \cup Unwritten) :
             row[k] # None /\ body[k] # None => body[k] = row[k].tag
Indexed == busy.op # "clear" => \A k \in CacheKeys \ notes.orphans : body[k] # None => row[k] # None

DiskInv == Shaped /\ AtWork /\ Matched /\ Indexed

\* The invariant holds at the start, and is what the property says between calls.
LEMMA DiskInvInit == CacheInit => DiskInv
BY DEF CacheInit, DiskInv, Shaped, AtWork, Matched, Indexed, Free

LEMMA DiskInvAgrees == DiskInv => DiskAgrees
<1> SUFFICES ASSUME DiskInv, busy = Free PROVE DiskAgrees
  BY DEF DiskAgrees, RowsMatchBodies, BodiesIndexed
<1>1. busy.op = "free" /\ Unwritten = {} BY DEF Free, Unwritten
<1> QED BY <1>1 DEF DiskAgrees, RowsMatchBodies, BodiesIndexed, DiskInv, Matched, Indexed

\* A step that leaves the disk and the call alone.
LEMMA DiskSame == ASSUME DiskInv, UNCHANGED <<row, body, busy, notes>> PROVE DiskInv'
BY DEF DiskInv, Shaped, AtWork, Matched, Indexed, Unwritten, Row, Deletes

\* A step, while no call is at work, that changes neither the tag nor the presence
\* of a row.
LEMMA TouchKeeps ==
  ASSUME DiskInv, busy = Free, UNCHANGED <<body, busy, notes>>, NEW k \in CacheKeys, row[k] # None,
         NEW e, NEW u, row' = [row EXCEPT ![k] = [tag |-> row[k].tag, expires |-> e, used |-> u]]
  PROVE  DiskInv'
<1>1. [tag |-> row[k].tag, expires |-> e, used |-> u] # None
  <2>1. "tag" \in DOMAIN [tag |-> row[k].tag, expires |-> e, used |-> u] /\ "tag" \notin DOMAIN None
    BY DEF None
  <2> QED BY <2>1
<1>2. \A j \in CacheKeys : /\ row'[j] = IF j = k THEN [tag |-> row[k].tag, expires |-> e, used |-> u] ELSE row[j]
                           /\ row'[j] # None <=> row[j] # None
                           /\ row'[j] # None => row'[j].tag = row[j].tag /\ Row(row'[j])
  BY <1>1 DEF DiskInv, Shaped, Row
<1>3. row' = [j \in CacheKeys |-> row'[j]] BY DEF DiskInv, Shaped
<1>4. Shaped' BY <1>2, <1>3 DEF DiskInv, Shaped
<1>5. busy.op = "free" /\ busy'.op = "free" /\ Unwritten = {} /\ Unwritten' = {} BY DEF Free, Unwritten
<1>6. AtWork' BY DEF AtWork
<1>7. Matched' /\ Indexed' BY <1>2, <1>5 DEF DiskInv, Matched, Indexed
<1> QED BY <1>4, <1>6, <1>7 DEF DiskInv

\* A fetch that asks the cache.
LEMMA LookupKeeps == ASSUME DiskInv, NEW t \in Fetchers, Lookup(t) PROVE DiskInv'
<1>1. PICK u \in Urls, h \in Headers : LookupMiss(t, u, h) \/ LookupBodyless(t, u, h) \/ LookupHit(t, u, h)
  BY DEF Lookup
<1>2. busy = Free BY DEF Lookup
<1>3. Found(u, h) \subseteq CacheKeys /\ \A k \in Found(u, h) : row[k] # None BY DEF Found
<1>4. CASE LookupMiss(t, u, h) BY <1>4, DiskSame DEF LookupMiss
<1>5. CASE LookupBodyless(t, u, h)
  <2>1. PICK k \in Found(u, h) : /\ body[k] = None /\ row' = [row EXCEPT ![k] = None]
                                 /\ notes' = [notes EXCEPT !.torn = @ \ {k}] /\ UNCHANGED <<body, busy>>
    BY <1>5 DEF LookupBodyless
  <2>2. /\ row' = [j \in CacheKeys |-> row'[j]] /\ \A j \in CacheKeys : row'[j] = IF j = k THEN None ELSE row[j]
    BY <1>3, <2>1 DEF DiskInv, Shaped
  <2>3. notes' = [torn |-> notes.torn \ {k}, orphans |-> notes.orphans]
        /\ notes'.torn = notes.torn \ {k} /\ notes'.orphans = notes.orphans
    BY <2>1 DEF DiskInv, Shaped
  <2>4. busy.op = "free" /\ busy'.op = "free" /\ Unwritten = {} /\ Unwritten' = {} BY <1>2, <2>1 DEF Free, Unwritten
  <2>5. Shaped' BY <2>1, <2>2, <2>3 DEF DiskInv, Shaped
  <2>6. AtWork' BY <1>2, <2>1 DEF AtWork
  <2>7. Matched' /\ Indexed' BY <1>3, <2>1, <2>2, <2>3, <2>4 DEF DiskInv, Matched, Indexed
  <2> QED BY <2>5, <2>6, <2>7 DEF DiskInv
<1>6. CASE LookupHit(t, u, h)
  <2>1. PICK k \in Found(u, h) : row' = [row EXCEPT ![k].used = env.now] /\ UNCHANGED <<body, busy, notes>>
    BY <1>6 DEF LookupHit
  <2>2. Row(row[k]) /\ k \in CacheKeys /\ row[k] # None BY <1>3 DEF DiskInv, Shaped
  <2>3. PICK e, v : e = row[k].expires /\ v = env.now OBVIOUS
  <2>4. [row[k] EXCEPT !.used = v] = [tag |-> row[k].tag, expires |-> e, used |-> v]
    BY <2>2, <2>3 DEF Row
  <2>5. row' = [row EXCEPT ![k] = [row[k] EXCEPT !.used = v]] BY <2>1, <2>3
  <2>6. row' = [row EXCEPT ![k] = [tag |-> row[k].tag, expires |-> e, used |-> v]] BY <2>4, <2>5
  <2>7. k \in CacheKeys /\ row[k] # None /\ UNCHANGED <<body, busy, notes>> BY <2>1, <2>2
  <2> QED BY <1>2, <2>6, <2>7, TouchKeeps
<1> QED BY <1>1, <1>4, <1>5, <1>6

\* The writes of a key are of the row or of the body.
LEMMA WriteIsOne ==
  ASSUME DiskInv, NEW k \in CacheKeys
  PROVE  /\ DeleteOrder[1] = "body" /\ DeleteOrder[2] = "row"
         /\ DeleteWrite(k, "body") => /\ row' = row /\ body' = [j \in CacheKeys |-> body'[j]]
                                      /\ \A j \in CacheKeys : body'[j] = IF j = k THEN None ELSE body[j]
         /\ DeleteWrite(k, "row") => /\ body' = body /\ row' = [j \in CacheKeys |-> row'[j]]
                                     /\ \A j \in CacheKeys : row'[j] = IF j = k THEN None ELSE row[j]
BY DEF DeleteOrder, DeleteWrite, DiskInv, Shaped

\* One write of a deletion.
LEMMA DeleteKeeps == ASSUME DiskInv, DeleteStep PROVE DiskInv'
<1>1. Deletes(busy) /\ busy.keys # {} BY DEF DeleteStep, Deletes
<1>2. busy # Free /\ busy.op # "put" /\ busy.op # "clear" BY <1>1 DEF Deletes, Free
<1>3. \/ busy = Deleting(busy.op, busy.keys) /\ busy.keys \subseteq CacheKeys
      \/ /\ busy = [op |-> busy.op, keys |-> busy.keys, half |-> TRUE, at |-> busy.at]
         /\ busy.keys \subseteq CacheKeys /\ busy.at \in busy.keys /\ body[busy.at] = None
  BY <1>2 DEF DiskInv, AtWork
<1>4. CASE busy = Deleting(busy.op, busy.keys) /\ busy.keys \subseteq CacheKeys
  <2>1. busy.half = FALSE BY <1>4 DEF Deleting
  <2>2. PICK k \in busy.keys : /\ DeleteWrite(k, DeleteOrder[1]) /\ notes' = notes
                               /\ busy' = [op |-> busy.op, keys |-> busy.keys, half |-> TRUE, at |-> k]
    BY <2>1 DEF DeleteStep
  <2>3. k \in CacheKeys BY <1>4
  <2>4. /\ row' = row /\ body' = [j \in CacheKeys |-> body'[j]]
        /\ \A j \in CacheKeys : body'[j] = IF j = k THEN None ELSE body[j]
    BY <2>2, <2>3, WriteIsOne
  <2>5. busy'.op = busy.op /\ busy'.keys = busy.keys /\ busy'.at = k BY <2>2
  <2>6. Shaped' BY <2>2, <2>4 DEF DiskInv, Shaped, Row
  <2>7. AtWork' BY <1>1, <1>4, <2>2, <2>3, <2>4, <2>5 DEF AtWork, Deletes
  <2>8. Unwritten' = Unwritten BY <1>1, <2>5 DEF Unwritten, Deletes
  <2>9. Matched' BY <2>2, <2>4, <2>8 DEF DiskInv, Matched
  <2>10. Indexed' BY <2>2, <2>4, <2>5 DEF DiskInv, Indexed
  <2> QED BY <2>6, <2>7, <2>9, <2>10 DEF DiskInv
<1>5. CASE /\ busy = [op |-> busy.op, keys |-> busy.keys, half |-> TRUE, at |-> busy.at]
           /\ busy.keys \subseteq CacheKeys /\ busy.at \in busy.keys /\ body[busy.at] = None
  <2>1. busy.half = TRUE BY <1>5
  <2>2. PICK k \in busy.keys : /\ k = busy.at /\ DeleteWrite(k, DeleteOrder[2])
                               /\ busy' = Deleting(busy.op, busy.keys \ {k})
                               /\ notes' = [notes EXCEPT !.torn = @ \ {k}, !.orphans = @ \ {k}]
    BY <2>1 DEF DeleteStep
  <2>3. k \in CacheKeys /\ body[k] = None BY <1>5, <2>2
  <2>4. /\ body' = body /\ row' = [j \in CacheKeys |-> row'[j]]
        /\ \A j \in CacheKeys : row'[j] = IF j = k THEN None ELSE row[j]
    BY <2>2, <2>3, WriteIsOne
  <2>5. notes' = [torn |-> notes.torn \ {k}, orphans |-> notes.orphans \ {k}]
        /\ notes'.torn = notes.torn \ {k} /\ notes'.orphans = notes.orphans \ {k}
    BY <2>2 DEF DiskInv, Shaped
  <2>6. busy'.op = busy.op /\ busy'.keys = busy.keys \ {k} BY <2>2 DEF Deleting
  <2>7. Shaped' BY <2>4, <2>5 DEF DiskInv, Shaped, Row
  <2>8. AtWork' BY <1>1, <1>5, <2>2, <2>6 DEF AtWork, Deletes
  <2>9. Unwritten \ {k} \subseteq Unwritten' BY <1>1, <2>6 DEF Unwritten, Deletes
  <2>10. Matched' BY <2>3, <2>4, <2>5, <2>9 DEF DiskInv, Matched
  <2>11. Indexed' BY <2>3, <2>4, <2>5, <2>6 DEF DiskInv, Indexed
  <2> QED BY <2>7, <2>8, <2>10, <2>11 DEF DiskInv
<1> QED BY <1>3, <1>4, <1>5

\* The end of a call that has deleted all it had to.
LEMMA DeleteEndKeeps == ASSUME DiskInv, DeleteEnd PROVE DiskInv'
<1>1. Deletes(busy) /\ busy.keys = {} /\ UNCHANGED <<row, body, notes>> BY DEF DeleteEnd, Deletes
<1>2. busy' = Free \/ busy' = Deleting("cap", OverCap) BY DEF DeleteEnd
<1>3. OverCap \subseteq CacheKeys BY DEF OverCap, Rows
<1>4. Unwritten = {} BY <1>1 DEF Unwritten, Deletes
<1>5. AtWork'
  <2>1. CASE busy' = Free BY <2>1 DEF AtWork
  <2>2. CASE busy' = Deleting("cap", OverCap)
    <3>1. busy'.op = "cap" /\ busy'.keys = OverCap BY <2>2 DEF Deleting
    <3> QED BY <1>3, <2>2, <3>1 DEF AtWork, Deletes
  <2> QED BY <1>2, <2>1, <2>2
<1>6. Shaped' BY <1>1 DEF DiskInv, Shaped, Row
<1>7. Matched' BY <1>1, <1>4 DEF DiskInv, Matched
<1>8. Indexed' BY <1>1 DEF DiskInv, Indexed, Deletes
<1> QED BY <1>5, <1>6, <1>7, <1>8 DEF DiskInv

\* An answer whose row, if any, is not the one of a new response.
LEMMA ReplyConfirmedKeeps == ASSUME DiskInv, NEW t, NEW f, ReplyConfirmed(t, f) PROVE DiskInv'
<1>1. busy = Free /\ UNCHANGED <<body, busy, notes>> BY DEF ReplyConfirmed
<1>2. CASE row' = row BY <1>1, <1>2, DiskSame
<1>3. ASSUME NEW k \in Found(f.url, f.sel),
             row' = [row EXCEPT ![k].expires = Expiry(f.life), ![k].used = env.now]
      PROVE  DiskInv'
  <2>1. k \in CacheKeys /\ row[k] # None BY DEF Found
  <2>2. Row(row[k]) BY <2>1 DEF DiskInv, Shaped
  <2>3. PICK e, v : e = Expiry(f.life) /\ v = env.now OBVIOUS
  <2>4. PICK r : r = [row EXCEPT ![k].expires = e] OBVIOUS
  <2>5. r[k] = [tag |-> row[k].tag, expires |-> e, used |-> row[k].used]
    BY <2>1, <2>2, <2>4 DEF Row, DiskInv, Shaped
  <2>6. [r[k] EXCEPT !.used = v] = [tag |-> row[k].tag, expires |-> e, used |-> v] BY <2>5
  <2>7. row' = [r EXCEPT ![k] = [r[k] EXCEPT !.used = v]] BY <1>3, <2>3, <2>4
  <2>8. row' = [r EXCEPT ![k] = [tag |-> row[k].tag, expires |-> e, used |-> v]] BY <2>6, <2>7
  <2>9. row' = [row EXCEPT ![k] = [tag |-> row[k].tag, expires |-> e, used |-> v]]
    BY <2>1, <2>4, <2>8 DEF DiskInv, Shaped
  <2> QED BY <1>1, <2>1, <2>9, TouchKeeps
<1> QED BY <1>2, <1>3 DEF ReplyConfirmed

\* A new row, whose body is to be written yet.
LEMMA PutRowKeeps == ASSUME DiskInv, NEW t, NEW f, PutRow(t, f), f.url \in Urls, f.resp.sel \in Selectors PROVE DiskInv'
<1>1. PICK k, e, v : k = KeyFor(f.url, f.resp.sel) /\ e = Expiry(f.life) /\ v = env.now OBVIOUS
<1>2. k \in CacheKeys BY <1>1 DEF KeyFor, CacheKeys
<1>3. PICK new : new = [tag |-> f.resp, expires |-> e, used |-> v] OBVIOUS
<1>4. /\ busy = Free /\ UNCHANGED <<body, notes>>
      /\ row' = [row EXCEPT ![k] = new] /\ busy' = [op |-> "put", key |-> k, resp |-> f.resp]
  BY <1>1, <1>3 DEF PutRow
<1>5. new # None /\ Row(new) /\ new.tag = f.resp
  <2>1. "tag" \in DOMAIN new /\ "tag" \notin DOMAIN None BY <1>3 DEF None
  <2> QED BY <1>3, <2>1 DEF Row
<1>6. row' = [j \in CacheKeys |-> row'[j]] /\ \A j \in CacheKeys : row'[j] = IF j = k THEN new ELSE row[j]
  BY <1>2, <1>4 DEF DiskInv, Shaped
<1>7. Unwritten = {} /\ Unwritten' = {k} /\ busy.op = "free" /\ busy'.op = "put" /\ busy'.key = k /\ busy'.resp = f.resp
  BY <1>4 DEF Unwritten, Free
<1>8. Shaped' BY <1>4, <1>5, <1>6 DEF DiskInv, Shaped, Row
<1>9. AtWork' BY <1>2, <1>4, <1>5, <1>6, <1>7 DEF AtWork
<1>10. Matched' BY <1>4, <1>6, <1>7 DEF DiskInv, Matched
<1>11. Indexed' BY <1>4, <1>5, <1>6, <1>7 DEF DiskInv, Indexed
<1> QED BY <1>8, <1>9, <1>10, <1>11 DEF DiskInv

\* The body of the new row is written, or not.
LEMMA PutBodyKeeps == ASSUME DiskInv, NEW ok, PutBody(ok) PROVE DiskInv'
<1>1. busy.op = "put" /\ busy # Free /\ ~Deletes(busy) /\ busy.op # "clear" BY DEF PutBody, Free, Deletes
<1>2. PICK k \in CacheKeys : k = busy.key /\ row[k] # None /\ row[k].tag = busy.resp
  BY <1>1 DEF DiskInv, AtWork
<1>3. Unwritten = {k} BY <1>1, <1>2 DEF Unwritten
<1>4. CASE ok
  <2>1. /\ body' = [body EXCEPT ![k] = busy.resp] /\ busy' = Deleting("aged", Aged) /\ row' = row
        /\ notes' = [notes EXCEPT !.torn = @ \ {k}, !.orphans = @ \ {k}]
    BY <1>2, <1>4 DEF PutBody
  <2>2. body' = [j \in CacheKeys |-> body'[j]] /\ \A j \in CacheKeys : body'[j] = IF j = k THEN busy.resp ELSE body[j]
    BY <2>1 DEF DiskInv, Shaped
  <2>3. notes' = [torn |-> notes.torn \ {k}, orphans |-> notes.orphans \ {k}]
        /\ notes'.torn = notes.torn \ {k} /\ notes'.orphans = notes.orphans \ {k}
    BY <2>1 DEF DiskInv, Shaped
  <2>4. busy'.op = "aged" /\ busy'.keys = Aged /\ Aged \subseteq CacheKeys BY <2>1 DEF Deleting, Aged, Rows
  <2>5. Shaped' BY <2>1, <2>2, <2>3 DEF DiskInv, Shaped, Row
  <2>6. AtWork' BY <2>1, <2>4 DEF AtWork, Deletes
  <2>7. Matched' BY <1>2, <1>3, <2>1, <2>2, <2>3 DEF DiskInv, Matched
  <2>8. Indexed' BY <1>1, <1>2, <2>1, <2>2, <2>3 DEF DiskInv, Indexed
  <2> QED BY <2>5, <2>6, <2>7, <2>8 DEF DiskInv
<1>5. CASE ~ok
  <2>1. busy' = Deleting("drop", {k}) /\ UNCHANGED <<row, body, notes>> BY <1>2, <1>5 DEF PutBody, PutFailed
  <2>2. busy'.op = "drop" /\ busy'.keys = {k} BY <2>1 DEF Deleting
  <2>3. Unwritten' = {k} BY <2>2 DEF Unwritten
  <2>4. Shaped' BY <2>1 DEF DiskInv, Shaped, Row
  <2>5. AtWork' BY <2>1, <2>2 DEF AtWork, Deletes
  <2>6. Matched' BY <1>3, <2>1, <2>3 DEF DiskInv, Matched
  <2>7. Indexed' BY <1>1, <2>1 DEF DiskInv, Indexed
  <2> QED BY <2>4, <2>5, <2>6, <2>7 DEF DiskInv
<1> QED BY <1>4, <1>5

\* The two halves of ns_cache_clear.
LEMMA ClearKeeps == ASSUME DiskInv, ClearRows \/ ClearBodies PROVE DiskInv'
<1>1. CASE ClearRows
  <2>1. /\ row' = [k \in CacheKeys |-> None] /\ busy' = [op |-> "clear"] /\ body' = body
        /\ notes' = [notes EXCEPT !.torn = {}]
    BY <1>1 DEF ClearRows
  <2>2. \A k \in CacheKeys : row'[k] = None BY <2>1
  <2>3. notes' = [torn |-> {}, orphans |-> notes.orphans] BY <2>1 DEF DiskInv, Shaped
  <2>4. Shaped' BY <2>1, <2>2, <2>3 DEF DiskInv, Shaped
  <2>5. AtWork' /\ busy'.op = "clear" BY <2>1, <2>2 DEF AtWork
  <2> QED BY <2>2, <2>4, <2>5 DEF DiskInv, Matched, Indexed
<1>2. CASE ClearBodies
  <2>1. /\ body' = [k \in CacheKeys |-> None] /\ busy' = Free /\ row' = row
        /\ notes' = [notes EXCEPT !.orphans = {}]
    BY <1>2 DEF ClearBodies
  <2>2. \A k \in CacheKeys : body'[k] = None BY <2>1
  <2>3. notes' = [torn |-> notes.torn, orphans |-> {}] BY <2>1 DEF DiskInv, Shaped
  <2>4. Shaped' BY <2>1, <2>2, <2>3 DEF DiskInv, Shaped, Row
  <2>5. AtWork' BY <2>1 DEF AtWork
  <2> QED BY <2>2, <2>4, <2>5 DEF DiskInv, Matched, Indexed
<1> QED BY <1>1, <1>2

\* The process is killed, or begins.
LEMMA CrashKeeps == ASSUME DiskInv, Crash PROVE DiskInv'
<1>1. UNCHANGED <<row, body>> /\ busy' = Free BY DEF Crash
<1>2. PICK more, left :
        /\ more = {k \in Unwritten : row[k] # None /\ body[k] \notin {None, row[k].tag}}
        /\ left = IF busy.op = "clear" THEN {k \in CacheKeys : body[k] # None} ELSE notes.orphans
  OBVIOUS
<1>3. notes' = [torn |-> notes.torn \cup more, orphans |-> left] BY <1>2 DEF Crash, DiskInv, Shaped
<1>4. notes'.torn = notes.torn \cup more /\ notes'.orphans = left BY <1>3
<1>5. Unwritten' = {} /\ busy'.op = "free" BY <1>1 DEF Free, Unwritten
<1>6. Shaped' BY <1>1, <1>3 DEF DiskInv, Shaped, Row
<1>7. AtWork' BY <1>1 DEF AtWork
<1>8. Matched' BY <1>1, <1>2, <1>4, <1>5 DEF DiskInv, Matched
<1>9. Indexed' BY <1>1, <1>2, <1>4 DEF DiskInv, Indexed
<1> QED BY <1>6, <1>7, <1>8, <1>9 DEF DiskInv

-----------------------------------------------------------------------------
(* A body is of the header that its key names; what a fetch holds was read from *)
(* the disk while no call was at work.                                          *)

Selected == /\ \A k \in CacheKeys : body[k] # None => body[k].sel = k[2]
            /\ busy.op = "put" => busy.resp.sel = busy.key[2]

Suits(resp, sel) == resp.sel \in {Plain, sel}
HeldSound(held, sel) ==
  held # None => Suits(held.body, sel) /\ (held.torn \/ held.body = held.tag)
Sound(f) ==
  /\ f.pc \in {"ask", "reply"} => f.url \in Urls /\ f.sel \in Headers /\ HeldSound(f.held, f.sel)
  /\ f.pc = "reply" => /\ f.resp.sel \in Selectors
                       /\ f.status = 304 => f.held # None /\ f.held.tag = f.resp
  /\ f.pc = "done" /\ f.how \in {"fresh", "confirmed"} => Suits(f.got, f.sel)
  /\ f.pc = "done" /\ f.how = "confirmed" => f.got = f.said
FetchInv == fetch = [t \in Fetchers |-> fetch[t]] /\ \A t \in Fetchers : Sound(fetch[t])

\* The invariant says what the properties say.
LEMMA FetchInvHonours == FetchInv => VaryHonoured /\ ConfirmedIsCurrent
BY DEF FetchInv, Sound, Suits, VaryHonoured, ConfirmedIsCurrent

\* Steps that write no body.
LEMMA SelectedSame ==
  ASSUME Selected, body' = body, busy' = busy \/ busy'.op # "put" PROVE Selected'
BY DEF Selected

LEMMA SelectedNext == Selected /\ DiskInv /\ [CacheNext]_cacheVars => Selected'
<1> SUFFICES ASSUME Selected, DiskInv, [CacheNext]_cacheVars PROVE Selected' OBVIOUS
<1>0. body = [k \in CacheKeys |-> body[k]] BY DEF DiskInv, Shaped
<1>1. ASSUME NEW t \in Fetchers, Lookup(t) \/ Answer(t) \/ AnswerError(t) \/ Return(t) PROVE Selected'
  <2>1. body' = body /\ busy' = busy
    BY <1>1 DEF Lookup, LookupMiss, LookupBodyless, LookupHit, Answer, AnswerError, Return
  <2> QED BY <2>1, SelectedSame
<1>2. ASSUME NEW t \in Fetchers, Reply(t) PROVE Selected'
  <2>1. PICK f : f = fetch[t] OBVIOUS
  <2>2. CASE ReplyUncached(t, f) \/ ReplyConfirmed(t, f) \/ ReplyUnstored(t, f)
    <3>1. body' = body /\ busy' = busy BY <2>2 DEF ReplyUncached, ReplyConfirmed, ReplyUnstored
    <3> QED BY <3>1, SelectedSame
  <2>3. CASE PutRow(t, f)
    <3>1. body' = body /\ busy' = [op |-> "put", key |-> <<f.url, f.resp.sel>>, resp |-> f.resp]
      BY <2>3 DEF PutRow, KeyFor
    <3>2. busy'.resp.sel = busy'.key[2] BY <3>1
    <3> QED BY <3>1, <3>2 DEF Selected
  <2> QED BY <1>2, <2>1, <2>2, <2>3 DEF Reply
<1>3. CASE DeleteStep
  <2>1. PICK k, what : DeleteWrite(k, what) BY <1>3 DEF DeleteStep
  <2>2. body' = body \/ body' = [body EXCEPT ![k] = None] BY <2>1 DEF DeleteWrite
  <2>3. busy'.op # "put"
    <3>1. busy.op # "put" BY <1>3 DEF DeleteStep
    <3>2. \/ \E keys : busy' = Deleting(busy.op, keys)
          \/ \E at : busy' = [op |-> busy.op, keys |-> busy.keys, half |-> TRUE, at |-> at]
      BY <1>3 DEF DeleteStep
    <3> QED BY <3>1, <3>2 DEF Deleting
  <2>4. \A j \in CacheKeys : body'[j] = body[j] \/ body'[j] = None BY <1>0, <2>2
  <2> QED BY <2>3, <2>4 DEF Selected
<1>4. CASE DeleteEnd
  <2>1. body' = body /\ busy'.op # "put" BY <1>4 DEF DeleteEnd, Deleting, Free
  <2> QED BY <2>1, SelectedSame
<1>5. ASSUME NEW ok \in BOOLEAN, PutBody(ok) PROVE Selected'
  <2>1. busy'.op # "put" BY <1>5 DEF PutBody, PutFailed, Deleting
  <2>2. \A k \in CacheKeys : body'[k] = body[k] \/ (k = busy.key /\ body'[k] = busy.resp) BY <1>0, <1>5 DEF PutBody
  <2>3. busy.op = "put" BY <1>5 DEF PutBody
  <2> QED BY <2>1, <2>2, <2>3 DEF Selected
<1>6. CASE ClearRows \/ ClearBodies \/ Crash \/ StartAgain
  <2>1. busy'.op # "put" BY <1>6 DEF ClearRows, ClearBodies, Crash, StartAgain, Deleting, Free
  <2>2. \A k \in CacheKeys : body'[k] = body[k] \/ body'[k] = None
    BY <1>6 DEF ClearRows, ClearBodies, Crash, StartAgain
  <2> QED BY <2>1, <2>2 DEF Selected
<1>7. ASSUME (\E u \in Urls : Change(u)) \/ Tick \/ UNCHANGED cacheVars PROVE Selected'
  <2>1. body' = body /\ busy' = busy BY <1>7 DEF Change, Tick, cacheVars
  <2> QED BY <2>1, SelectedSame
<1> QED BY <1>1, <1>2, <1>3, <1>4, <1>5, <1>6, <1>7 DEF CacheNext

\* A step of one fetch.
LEMMA FetchStep ==
  ASSUME FetchInv, NEW t \in Fetchers, NEW f, fetch' = [fetch EXCEPT ![t] = f], Sound(f)
  PROVE  FetchInv'
BY DEF FetchInv

\* What a fetch finds suits its header, and is what its row says unless it is torn.
LEMMA HitSound ==
  ASSUME DiskInv, Selected, busy = Free, NEW u \in Urls, NEW h \in Headers, NEW k \in Found(u, h), body[k] # None
  PROVE  Suits(body[k], h) /\ HeldSound([tag |-> row[k].tag, body |-> body[k], torn |-> k \in notes.torn], h)
<1>1. k \in CacheKeys /\ row[k] # None /\ k[2] \in {Plain, h} BY DEF Found, KeyFor
<1>2. Suits(body[k], h) BY <1>1 DEF Selected, Suits
<1>3. Unwritten = {} BY DEF Unwritten, Free
<1>4. k \in notes.torn \/ body[k] = row[k].tag BY <1>1, <1>3 DEF DiskInv, Matched
<1> QED BY <1>2, <1>4 DEF HeldSound

LEMMA FetchInvNext == FetchInv /\ Selected /\ DiskInv /\ [CacheNext]_cacheVars => FetchInv'
<1> SUFFICES ASSUME FetchInv, Selected, DiskInv, [CacheNext]_cacheVars PROVE FetchInv' OBVIOUS
<1>1. \A how, sel, got, said : how \notin {"fresh", "confirmed"} => Sound(Done(how, sel, got, said))
  BY DEF Sound, Done
<1>2. \A u \in Urls, h \in Headers : \A held : HeldSound(held, h) => Sound(Asking(u, h, held))
  BY DEF Sound, Asking
<1>3. Sound(IdleCall) BY DEF Sound, IdleCall
<1>4. CASE UNCHANGED fetch BY <1>4 DEF FetchInv
<1>5. ASSUME NEW t \in Fetchers, Lookup(t) PROVE FetchInv'
  <2>1. PICK u \in Urls, h \in Headers : LookupMiss(t, u, h) \/ LookupBodyless(t, u, h) \/ LookupHit(t, u, h)
    BY <1>5 DEF Lookup
  <2>2. Sound(Asking(u, h, None)) BY <1>2 DEF HeldSound
  <2>3. CASE LookupMiss(t, u, h) \/ LookupBodyless(t, u, h)
    <3>1. fetch' = [fetch EXCEPT ![t] = Asking(u, h, None)] BY <2>3 DEF LookupMiss, LookupBodyless
    <3> QED BY <2>2, <3>1, FetchStep
  <2>4. CASE LookupHit(t, u, h)
    <3>1. PICK k \in Found(u, h), readable \in BOOLEAN : body[k] # None /\ fetch' = [fetch EXCEPT ![t] =
            CASE IsFresh(k) /\ readable -> Done("fresh", h, body[k], None)
              [] IsFresh(k) /\ ~readable -> Asking(u, h, None)
              [] OTHER -> Asking(u, h, [tag |-> row[k].tag, body |-> body[k], torn |-> k \in notes.torn])]
      BY <2>4 DEF LookupHit
    <3>2. PICK held : held = [tag |-> row[k].tag, body |-> body[k], torn |-> k \in notes.torn] OBVIOUS
    <3>3. Suits(body[k], h) /\ HeldSound(held, h) BY <1>5, <3>1, <3>2, HitSound DEF Lookup
    <3>4. CASE IsFresh(k) /\ readable
      <4>1. fetch' = [fetch EXCEPT ![t] = Done("fresh", h, body[k], None)] BY <3>1, <3>4
      <4>2. Sound(Done("fresh", h, body[k], None)) BY <3>3 DEF Sound, Done
      <4> QED BY <4>1, <4>2, FetchStep
    <3>5. CASE IsFresh(k) /\ ~readable
      <4>1. fetch' = [fetch EXCEPT ![t] = Asking(u, h, None)] BY <3>1, <3>5
      <4> QED BY <2>2, <4>1, FetchStep
    <3>6. CASE ~IsFresh(k)
      <4>1. fetch' = [fetch EXCEPT ![t] = Asking(u, h, held)] BY <3>1, <3>2, <3>6
      <4>2. Sound(Asking(u, h, held)) BY <1>2, <3>3
      <4> QED BY <4>1, <4>2, FetchStep
    <3> QED BY <3>4, <3>5, <3>6
  <2> QED BY <2>1, <2>3, <2>4
<1>6. ASSUME NEW t \in Fetchers, Answer(t) PROVE FetchInv'
  <2>1. PICK resp : resp = Current(fetch[t].url, fetch[t].sel) OBVIOUS
  <2>2. PICK status \in {200, 304}, life \in -1..MaxLife, cookie \in BOOLEAN :
          LET r == Current(fetch[t].url, fetch[t].sel)
          IN  /\ cookie => life = -1
              /\ status = 304 => fetch[t].held # None /\ fetch[t].held.tag = r
              /\ fetch' = [fetch EXCEPT ![t] = Replied(t, status, r, life, cookie)]
    BY <1>6 DEF Answer
  <2>3. fetch' = [fetch EXCEPT ![t] = Replied(t, status, resp, life, cookie)] BY <2>1, <2>2
  <2>4. fetch[t].url \in Urls /\ fetch[t].sel \in Headers /\ HeldSound(fetch[t].held, fetch[t].sel)
    BY <1>6 DEF Answer, FetchInv, Sound
  <2>5. resp.sel \in Selectors BY <2>1, <2>4 DEF Current, Selectors
  <2>6. status = 304 => fetch[t].held # None /\ fetch[t].held.tag = resp BY <2>1, <2>2
  <2>7. Sound(Replied(t, status, resp, life, cookie)) BY <2>4, <2>5, <2>6 DEF Sound, Replied
  <2> QED BY <2>3, <2>7, FetchStep
<1>7. ASSUME NEW t \in Fetchers, AnswerError(t) \/ Return(t) PROVE FetchInv'
  <2>1. fetch' = [fetch EXCEPT ![t] = IdleCall] BY <1>7 DEF AnswerError, Return
  <2> QED BY <1>3, <2>1, FetchStep
<1>8. ASSUME NEW t \in Fetchers, Reply(t) PROVE FetchInv'
  <2>1. PICK f : f = fetch[t] OBVIOUS
  <2>2. CASE ReplyUncached(t, f)
    <3>1. \/ fetch' = [fetch EXCEPT ![t] = Done("empty", f.sel, None, f.resp)]
          \/ fetch' = [fetch EXCEPT ![t] = Done("answer", f.sel, f.resp, f.resp)]
      BY <2>2 DEF ReplyUncached
    <3> QED BY <1>1, <3>1, FetchStep
  <2>3. CASE ReplyConfirmed(t, f)
    <3>1. fetch' = [fetch EXCEPT ![t] =
            Done(IF f.held.torn THEN "doubtful" ELSE "confirmed", f.sel, ConfirmedBody(f), f.resp)] /\ f.status = 304
      BY <2>3 DEF ReplyConfirmed
    <3>2. f.held # None /\ f.held.tag = f.resp /\ HeldSound(f.held, f.sel)
      BY <1>8, <2>1, <3>1 DEF Reply, FetchInv, Sound
    <3>3. CASE f.held.torn
      <4>1. fetch' = [fetch EXCEPT ![t] = Done("doubtful", f.sel, ConfirmedBody(f), f.resp)] BY <3>1, <3>3
      <4> QED BY <1>1, <4>1, FetchStep
    <3>4. CASE ~f.held.torn
      <4>1. fetch' = [fetch EXCEPT ![t] = Done("confirmed", f.sel, f.held.body, f.resp)]
        BY <3>1, <3>4 DEF ConfirmedBody
      <4>2. Sound(Done("confirmed", f.sel, f.held.body, f.resp)) BY <3>2, <3>4 DEF HeldSound, Sound, Done
      <4> QED BY <4>1, <4>2, FetchStep
    <3> QED BY <3>3, <3>4
  <2>4. CASE ReplyUnstored(t, f) \/ PutRow(t, f)
    <3>1. fetch' = [fetch EXCEPT ![t] = Done("answer", f.sel, f.resp, f.resp)]
      BY <2>4 DEF ReplyUnstored, PutRow
    <3> QED BY <1>1, <3>1, FetchStep
  <2> QED BY <1>8, <2>1, <2>2, <2>3, <2>4 DEF Reply
<1>9. CASE Crash BY <1>3, <1>9 DEF Crash, FetchInv
<1>10. ASSUME NEW u \in Urls, Change(u) PROVE FetchInv' BY <1>4, <1>10 DEF Change
<1>11. CASE \/ DeleteStep \/ DeleteEnd \/ \E ok \in BOOLEAN : PutBody(ok)
           \/ ClearRows \/ ClearBodies \/ StartAgain \/ Tick \/ UNCHANGED cacheVars
  BY <1>4, <1>11 DEF DeleteStep, DeleteEnd, PutBody, ClearRows, ClearBodies, StartAgain, Tick, cacheVars
<1> QED BY <1>5, <1>6, <1>7, <1>8, <1>9, <1>10, <1>11 DEF CacheNext

\* No call is at work while the process is not up.
Down == env.up \in BOOLEAN /\ env = [now |-> env.now, up |-> env.up, crashes |-> env.crashes, clears |-> env.clears]
        /\ (~env.up => busy = Free)

LEMMA DownNext == Down /\ [CacheNext]_cacheVars => Down'
<1> SUFFICES ASSUME Down, [CacheNext]_cacheVars PROVE Down' OBVIOUS
<1>1. CASE env' = env /\ (env.up \/ busy' = busy) BY <1>1 DEF Down
<1>2. ASSUME NEW t \in Fetchers, Lookup(t) \/ Answer(t) \/ AnswerError(t) \/ Reply(t) \/ Return(t) PROVE Down'
  <2>1. env.up BY <1>2 DEF Lookup, Answer, AnswerError, Reply, Return
  <2>2. CASE Reply(t)
    <3>1. PICK f : f = fetch[t] OBVIOUS
    <3>2. env' = env BY <2>2 DEF Reply, ReplyUncached, ReplyConfirmed, ReplyUnstored, PutRow
    <3> QED BY <1>1, <2>1, <3>2
  <2>3. CASE ~Reply(t)
    <3>1. env' = env BY <1>2, <2>3 DEF Lookup, Answer, AnswerError, Return
    <3> QED BY <1>1, <2>1, <3>1
  <2> QED BY <2>2, <2>3
<1>3. ASSUME DeleteStep \/ DeleteEnd \/ ClearBodies \/ \E ok \in BOOLEAN : PutBody(ok) PROVE Down'
  <2>1. env' = env BY <1>3 DEF DeleteStep, DeleteEnd, ClearBodies, PutBody
  <2>2. busy # Free
    <3>1. busy.op \in {"aged", "cap", "drop", "clear", "put"} BY <1>3 DEF DeleteStep, DeleteEnd, ClearBodies, PutBody
    <3>2. Free.op = "free" BY DEF Free
    <3> QED BY <3>1, <3>2
  <2> QED BY <1>1, <2>1, <2>2 DEF Down
<1>4. CASE ClearRows
  <2>1. env.up /\ env' = [env EXCEPT !.clears = @ + 1] BY <1>4 DEF ClearRows
  <2>2. env' = [now |-> env.now, up |-> TRUE, crashes |-> env.crashes, clears |-> env.clears + 1]
    BY <2>1 DEF Down
  <2> QED BY <2>2 DEF Down
<1>5. CASE Crash
  <2>1. busy' = Free /\ env' = [env EXCEPT !.up = FALSE, !.crashes = @ + 1] BY <1>5 DEF Crash
  <2>2. env' = [now |-> env.now, up |-> FALSE, crashes |-> env.crashes + 1, clears |-> env.clears]
    BY <2>1 DEF Down
  <2> QED BY <2>1, <2>2 DEF Down
<1>6. CASE StartAgain
  <2>1. env' = [env EXCEPT !.up = TRUE] BY <1>6 DEF StartAgain
  <2>2. env' = [now |-> env.now, up |-> TRUE, crashes |-> env.crashes, clears |-> env.clears]
    BY <2>1 DEF Down
  <2> QED BY <2>2 DEF Down
<1>7. CASE Tick
  <2>1. busy' = busy /\ env' = [env EXCEPT !.now = @ + 1] BY <1>7 DEF Tick
  <2>2. env' = [now |-> env.now + 1, up |-> env.up, crashes |-> env.crashes, clears |-> env.clears]
    BY <2>1 DEF Down
  <2> QED BY <2>1, <2>2 DEF Down
<1>8. ASSUME NEW u \in Urls, Change(u) PROVE Down' BY <1>1, <1>8 DEF Change
<1>9. CASE UNCHANGED cacheVars BY <1>1, <1>9 DEF cacheVars
<1> QED BY <1>2, <1>3, <1>4, <1>5, <1>6, <1>7, <1>8, <1>9 DEF CacheNext

-----------------------------------------------------------------------------
\* Each step keeps the invariant.
LEMMA DiskInvNext == FetchInv /\ Down /\ DiskInv /\ [CacheNext]_cacheVars => DiskInv'
<1> SUFFICES ASSUME FetchInv, Down, DiskInv, [CacheNext]_cacheVars PROVE DiskInv' OBVIOUS
<1>1. ASSUME NEW t \in Fetchers, Lookup(t) PROVE DiskInv' BY <1>1, LookupKeeps
<1>2. ASSUME NEW t \in Fetchers, Answer(t) \/ AnswerError(t) \/ Return(t) PROVE DiskInv'
  BY <1>2, DiskSame DEF Answer, AnswerError, Return
<1>3. ASSUME NEW t \in Fetchers, Reply(t) PROVE DiskInv'
  <2>1. PICK f : f = fetch[t] OBVIOUS
  <2>2. CASE ReplyUncached(t, f) \/ ReplyUnstored(t, f) BY <2>2, DiskSame DEF ReplyUncached, ReplyUnstored
  <2>3. CASE ReplyConfirmed(t, f) BY <2>3, ReplyConfirmedKeeps
  <2>4. CASE PutRow(t, f)
    <3>1. f.pc = "reply" BY <1>3, <2>1 DEF Reply
    <3>2. f.url \in Urls /\ f.resp.sel \in Selectors BY <2>1, <3>1 DEF FetchInv, Sound
    <3> QED BY <2>4, <3>2, PutRowKeeps
  <2> QED BY <1>3, <2>1, <2>2, <2>3, <2>4 DEF Reply
<1>4. ASSUME NEW ok \in BOOLEAN, PutBody(ok) PROVE DiskInv' BY <1>4, PutBodyKeeps
<1>5. CASE StartAgain
  <2>1. UNCHANGED <<row, body, notes>> /\ busy' = Deleting("aged", Aged) BY <1>5 DEF StartAgain
  <2>2. Aged \subseteq CacheKeys /\ busy'.op = "aged" /\ busy'.keys = Aged BY <2>1 DEF Aged, Rows, Deleting
  <2>3. AtWork' BY <2>1, <2>2 DEF AtWork, Deletes
  <2>4. busy = Free BY <1>5 DEF StartAgain, Down
  <2>5. Unwritten = {} /\ Unwritten' = {} BY <2>2, <2>4 DEF Unwritten, Free
  <2>6. Shaped' BY <2>1 DEF DiskInv, Shaped, Row
  <2>7. Matched' BY <2>1, <2>5 DEF DiskInv, Matched
  <2>8. Indexed' BY <2>1, <2>4 DEF DiskInv, Indexed, Free
  <2> QED BY <2>3, <2>6, <2>7, <2>8 DEF DiskInv
<1>6. ASSUME NEW u \in Urls, Change(u) PROVE DiskInv' BY <1>6, DiskSame DEF Change
<1>7. CASE Tick \/ UNCHANGED cacheVars BY <1>7, DiskSame DEF Tick, cacheVars
<1> QED BY <1>1, <1>2, <1>3, <1>4, <1>5, <1>6, <1>7, DeleteKeeps, DeleteEndKeeps, ClearKeeps, CrashKeeps
     DEF CacheNext

CacheInv == FetchInv /\ Down /\ Selected /\ DiskInv

LEMMA CacheInvAlways == CacheSpec => []CacheInv
<1>1. CacheInit => CacheInv
  <2>1. CacheInit => FetchInv BY DEF CacheInit, FetchInv, Sound, IdleCall
  <2>2. CacheInit => Down BY DEF CacheInit, Down
  <2>3. CacheInit => Selected BY DEF CacheInit, Selected, Free
  <2> QED BY <2>1, <2>2, <2>3, DiskInvInit DEF CacheInv
<1>2. CacheInv /\ [CacheNext]_cacheVars => CacheInv'
  BY FetchInvNext, DownNext, SelectedNext, DiskInvNext DEF CacheInv
<1> QED BY <1>1, <1>2, PTL DEF CacheSpec

\* For any number of threads, urls and kills: between calls a row and its body are
\* of the same response, and each body has a row, but where a kill fell between the
\* two writes of ns_cache_put or of ns_cache_clear (src/src/cache.c).
THEOREM DiskConsistent == CacheSpec => []DiskAgrees
<1>1. CacheInv => DiskAgrees BY DiskInvAgrees DEF CacheInv
<1> QED BY <1>1, CacheInvAlways, PTL

\* For any number of threads, urls and headers: a cached response is given only to
\* requests with the header it was chosen by (vary_selector in src/src/cache.c).
THEOREM VaryIsHonoured == CacheSpec => []VaryHonoured
<1>1. CacheInv => VaryHonoured BY FetchInvHonours DEF CacheInv
<1> QED BY <1>1, CacheInvAlways, PTL

\* For any number of threads and changes of the resource: an answer 304 gives the
\* response the server confirmed, whatever became of its row (src/src/net.c).
THEOREM ConfirmedCurrent == CacheSpec => []ConfirmedIsCurrent
<1>1. CacheInv => ConfirmedIsCurrent BY FetchInvHonours DEF CacheInv
<1> QED BY <1>1, CacheInvAlways, PTL

-----------------------------------------------------------------------------
(* The bytecode cache *)

Typed ==
  /\ thr \in [Threads -> Calls]
  /\ pending \subseteq Keys /\ jobs \in Seq(Keys) /\ phase \in {"up", "draining", "down"}

WorkerPlaces == {"idle", "compile", "open", "write", "write2", "rename", "prune", "finish"}

\* Which threads can be where.
Roles ==
  /\ \A t \in Threads : thr[t].pc # "idle" => thr[t].key \in Keys
  /\ \A t \in Pool : thr[t].pc \in WorkerPlaces
  /\ \A t \in Readers : thr[t].pc # "finish"
  /\ \A t \in Threads : t # Engine => thr[t].pc \notin {"mark", "push"}

Sleepers == \A t \in Readers : thr[t].pc = "wait" => thr[t].key \in pending

\* Only the engine thread marks, so that what it found unmarked stays so.
MarkFree == thr[Engine].pc = "mark" => thr[Engine].key \notin pending

MarksInv == Typed /\ Roles /\ (phase = "up" => MarkedOnce /\ Sleepers /\ MarkFree)

\* Thread r is where it was.
Same(r) == thr'[r].pc = thr[r].pc /\ thr'[r].key = thr[r].key

\* The invariant gives the property: workers do not sleep on the condition.
LEMMA MarksInvImplies == ASSUME BytecodeAssumption, MarksInv PROVE MarksKept
<1> USE DEF MarksInv, Threads
<1>1. ASSUME phase = "up", NEW t \in Waiting PROVE thr[t].key \in pending
  <2>1. t \in Threads /\ thr[t].pc = "wait" BY DEF Waiting
  <2>2. t \in Readers BY <2>1 DEF Roles, WorkerPlaces
  <2> QED BY <1>1, <2>1, <2>2 DEF Sleepers
<1> QED BY <1>1 DEF MarksKept

\* The marks hold at the start.
LEMMA MarksInit == ASSUME BytecodeAssumption, BytecodeInit PROVE MarksInv
<1> USE DEF BytecodeInit, Threads, Idle, Place
<1>1. \A t \in Threads : thr[t].pc = "idle" OBVIOUS
<1>2. Engine \in Threads BY DEF BytecodeAssumption
<1>3. Typed BY DEF Typed, Calls, Places
<1>4. Roles BY <1>1 DEF Roles, WorkerPlaces
<1>5. MarkedOnce BY <1>1, <1>2 DEF MarkedOnce, KeysInWork, Busy, Pushing, Range
<1> QED BY <1>1, <1>2, <1>3, <1>4, <1>5 DEF MarksInv, Sleepers, MarkFree

\* A step that leaves marks, jobs, busy workers, the engine's marking and all
\* but the sleepers alone keeps the marks.
LEMMA QuietMarks ==
  ASSUME BytecodeAssumption, MarksInv, Typed', Roles',
         pending' = pending, jobs' = jobs, phase' = phase,
         \A r \in Pool : thr'[r].pc = "idle" <=> thr[r].pc = "idle",
         \A r \in Pool : thr[r].pc # "idle" => thr'[r].key = thr[r].key,
         thr[Engine].pc \in {"mark", "push"} => Same(Engine),
         thr'[Engine].pc \in {"mark", "push"} => Same(Engine),
         phase = "up" => \A r \in Readers : thr'[r].pc = "wait" => thr'[r].key \in pending
  PROVE  MarksInv'
<1> USE DEF MarksInv
<1>1. Busy' = Busy BY DEF Busy
<1>2. KeysInWork' = KeysInWork BY <1>1 DEF KeysInWork, Busy
<1>3. Pushing' = Pushing BY DEF Pushing, Same
<1>4. ASSUME phase = "up" PROVE MarkedOnce'
  BY <1>1, <1>2, <1>3, <1>4 DEF MarkedOnce, Busy
<1>5. ASSUME phase = "up" PROVE Sleepers' BY <1>5 DEF Sleepers
<1>6. ASSUME phase = "up" PROVE MarkFree' BY <1>6 DEF MarkFree, Same
<1> QED BY <1>4, <1>5, <1>6

\* A reader moves on, and not into a marking.
LEMMA QuietReader ==
  ASSUME BytecodeAssumption, MarksInv, NEW t \in Readers, NEW c \in Calls,
         thr' = [thr EXCEPT ![t] = c],
         pending' = pending, jobs' = jobs, phase' = phase,
         thr[t].pc \notin {"mark", "push"},
         c.pc \notin {"mark", "push", "finish"},
         c.pc # "idle" => c.key \in Keys,
         c.pc = "wait" => c.key \in pending
  PROVE  MarksInv'
<1> USE DEF MarksInv
<1>1. t \in Threads /\ t \notin Pool BY DEF Threads, BytecodeAssumption
<1>2. thr'[t] = c /\ \A r \in Threads : r # t => thr'[r] = thr[r] BY <1>1 DEF Typed
<1>3. Typed' BY <1>1 DEF Typed
<1>4. Roles' BY <1>1, <1>2 DEF Roles, Threads
<1>5. \A r \in Pool : thr'[r] = thr[r] BY <1>1, <1>2 DEF Threads
<1>6. /\ thr[Engine].pc \in {"mark", "push"} => Same(Engine)
      /\ thr'[Engine].pc \in {"mark", "push"} => Same(Engine)
  BY <1>2 DEF Same, BytecodeAssumption, Threads
<1>7. ASSUME phase = "up", NEW r \in Readers, thr'[r].pc = "wait" PROVE thr'[r].key \in pending
  BY <1>2, <1>7 DEF Threads, Sleepers
<1> QED BY QuietMarks, <1>3, <1>4, <1>5, <1>6, <1>7

Writing == {"compile", "open", "write", "write2", "rename", "prune"}

\* A thread goes on storing what it compiled, or ends; the writers of the same
\* file may lose its name.
LEMMA QuietWriter ==
  ASSUME BytecodeAssumption, MarksInv, NEW t \in Threads,
         thr' \in [Threads -> Calls], \A r \in Threads : r # t => Same(r),
         pending' = pending, jobs' = jobs, phase' = phase,
         thr[t].pc \in Writing,
         thr'[t] = Resumed(t) \/ (thr'[t].key = thr[t].key /\ thr'[t].pc \in Writing)
  PROVE  MarksInv'
<1> USE DEF MarksInv
<1>1. thr[t].key \in Keys BY DEF Roles, Writing
<1>2. \/ t \in Readers /\ thr'[t].pc = "idle"
      \/ t \in Pool /\ thr'[t].pc = "finish" /\ thr'[t].key = thr[t].key
      \/ thr'[t].key = thr[t].key /\ thr'[t].pc \in Writing
  BY DEF Resumed, Idle, Doing, Place, Threads
<1>3. Typed' BY DEF Typed
<1>4. Roles' BY <1>1, <1>2 DEF Roles, Threads, WorkerPlaces, Writing, Same, BytecodeAssumption
<1>5. /\ thr[Engine].pc \in {"mark", "push"} => Same(Engine)
      /\ thr'[Engine].pc \in {"mark", "push"} => Same(Engine)
  BY <1>2 DEF Same, BytecodeAssumption, Threads, Writing
<1>6. \A r \in Pool : thr'[r].pc = "idle" <=> thr[r].pc = "idle"
  BY <1>2 DEF Same, Threads, Writing, BytecodeAssumption
<1>7. \A r \in Pool : thr[r].pc # "idle" => thr'[r].key = thr[r].key
  BY <1>2 DEF Same, Threads, Writing, BytecodeAssumption
<1>8. ASSUME phase = "up", NEW r \in Readers, thr'[r].pc = "wait" PROVE thr'[r].key \in pending
  <2>1. r # t BY <1>2, <1>8 DEF Writing
  <2> QED BY <1>8, <2>1 DEF Same, Threads, Sleepers
<1> QED BY QuietMarks, <1>3, <1>4, <1>5, <1>6, <1>7, <1>8

\* The places that threads move to are among Calls.
LEMMA DoingTyped ==
  /\ \A pc \in Places, k \in Keys, fd \in {"none", "tmp", "file", "lost"}, w \in BOOLEAN :
       /\ Place(pc, k, fd, w) \in Calls
       /\ Place(pc, k, fd, w).pc = pc /\ Place(pc, k, fd, w).key = k
  /\ \A pc \in Places, k \in Keys : Doing(pc, k) \in Calls /\ Doing(pc, k).pc = pc /\ Doing(pc, k).key = k
  /\ Idle \in Calls /\ Idle.pc = "idle"
BY DEF Place, Doing, Idle, Calls, Places

\* ns_bytecode_cache_get, up to the read of the file.
LEMMA LookUpQuiet ==
  ASSUME BytecodeAssumption, MarksInv, NEW t \in Readers, NEW k \in Keys, LookUp(t, k),
         thr[t].pc \in {"idle", "wait", "woken"},
         pending' = pending, jobs' = jobs, phase' = phase
  PROVE  MarksInv'
<1> DEFINE c == IF k \in Range(lru) THEN IF k \in torn THEN Doing("compile", k) ELSE Idle ELSE Doing("read", k)
<1>1. thr' = [thr EXCEPT ![t] = c] BY DEF LookUp
<1>2. c \in Calls /\ c.pc \in {"compile", "idle", "read"} /\ (c.pc # "idle" => c.key \in Keys)
  BY DoingTyped DEF Places
<1> HIDE DEF c
<1> QED BY QuietReader, <1>1, <1>2

\* ns_bytecode_cache_get begins: it compiles, waits or looks the script up.
LEMMA GetStartKeeps ==
  ASSUME BytecodeAssumption, MarksInv, NEW t \in Readers, NEW k \in Keys, GetStart(t, k)
  PROVE  MarksInv'
<1>0. thr[t].pc = "idle" /\ pending' = pending /\ jobs' = jobs /\ phase' = phase BY DEF GetStart, At
<1>1. ASSUME NEW c \in {Doing("compile", k), Doing("wait", k)}, thr' = [thr EXCEPT ![t] = c],
             c.pc = "wait" => k \in pending
      PROVE  MarksInv'
  <2>1. c \in Calls /\ c.pc \in {"compile", "wait"} /\ c.key = k BY DoingTyped, <1>1 DEF Places
  <2> QED BY QuietReader, <1>0, <1>1, <2>1
<1>2. CASE ~MemOn
  <2>1. thr' = [thr EXCEPT ![t] = Doing("compile", k)] BY <1>2 DEF GetStart
  <2>2. Doing("compile", k).pc = "compile" BY DoingTyped DEF Places
  <2> QED BY <1>1, <2>1, <2>2
<1>3. CASE MemOn /\ k \in pending
  <2>1. thr' = [thr EXCEPT ![t] = Doing("wait", k)] BY <1>3 DEF GetStart
  <2> QED BY <1>1, <1>3, <2>1
<1>4. CASE MemOn /\ k \notin pending BY LookUpQuiet, <1>0, <1>4 DEF GetStart
<1> QED BY <1>2, <1>3, <1>4

\* A reader goes on, or its wait times out.
LEMMA ReaderKeeps ==
  ASSUME BytecodeAssumption, MarksInv, NEW t \in Readers, ReaderStep(t) \/ TimesOut(t)
  PROVE  MarksInv'
<1> USE DEF At
<1>1. t \in Threads /\ (thr[t].pc # "idle" => thr[t].key \in Keys) /\ thr[t].fd \in {"none", "tmp", "file", "lost"}
  BY DEF MarksInv, Roles, Threads, Typed, Calls
<1> DEFINE k == thr[t].key
<1>2. CASE Woken(t)
  <2>1. CASE k \in pending
    <3>1. thr' = [thr EXCEPT ![t] = Place("wait", k, thr[t].fd, TRUE)] BY <1>2, <2>1 DEF Woken, Goto
    <3>2. k \in Keys /\ pending' = pending /\ jobs' = jobs /\ phase' = phase /\ thr[t].pc = "woken"
      BY <1>1, <1>2 DEF Woken
    <3>3. Place("wait", k, thr[t].fd, TRUE) \in Calls /\ Place("wait", k, thr[t].fd, TRUE).pc = "wait"
             /\ Place("wait", k, thr[t].fd, TRUE).key = k
      BY <1>1, <3>2 DEF Place, Calls, Places
    <3> QED BY QuietReader, <2>1, <3>1, <3>2, <3>3
  <2>2. CASE k \notin pending BY LookUpQuiet, <1>1, <1>2, <2>2 DEF Woken
  <2> QED BY <2>1, <2>2
<1>3. CASE TimesOut(t) BY LookUpQuiet, <1>1, <1>3 DEF TimesOut
<1>4. CASE ReadDisk(t)
  <2>1. k \in Keys /\ pending' = pending /\ jobs' = jobs /\ phase' = phase /\ thr[t].pc = "read"
    BY <1>1, <1>4 DEF ReadDisk
  <2>2. PICK w \in BOOLEAN, f \in {"none", thr[t].fd}, pc \in {"keep", "compile"} : thr' = [thr EXCEPT ![t] = Place(pc, k, f, w)]
    BY <1>4 DEF ReadDisk, Goto
  <2>3. Place(pc, k, f, w) \in Calls /\ Place(pc, k, f, w).pc = pc /\ Place(pc, k, f, w).key = k
    BY DoingTyped, <1>1, <2>1, <2>2 DEF Places
  <2> QED BY QuietReader, <2>1, <2>2, <2>3
<1>5. CASE Keep(t)
  <2>1. k \in Keys /\ pending' = pending /\ jobs' = jobs /\ phase' = phase /\ thr[t].pc = "keep"
    BY <1>1, <1>5 DEF Keep
  <2>2. \/ thr' = [thr EXCEPT ![t] = Idle]
        \/ thr' = [thr EXCEPT ![t] = Place("compile", k, thr[t].fd, TRUE)]
    BY <1>5 DEF Keep, Goto, Resume, Resumed
  <2>3. Place("compile", k, thr[t].fd, TRUE) \in Calls /\ Place("compile", k, thr[t].fd, TRUE).pc = "compile"
           /\ Place("compile", k, thr[t].fd, TRUE).key = k
    BY <1>1, <2>1 DEF Place, Calls, Places
  <2>4. Idle \in Calls /\ Idle.pc = "idle" BY DoingTyped
  <2> QED BY QuietReader, <2>1, <2>2, <2>3, <2>4
<1> QED BY <1>2, <1>3, <1>4, <1>5 DEF ReaderStep

\* A thread that stores bytecode.
LEMMA WriterKeeps ==
  ASSUME BytecodeAssumption, MarksInv, NEW t \in Threads, WriterStep(t)
  PROVE  MarksInv'
<1> USE DEF At
<1> DEFINE k == thr[t].key
<1>1. thr \in [Threads -> Calls] /\ (thr[t].pc # "idle" => k \in Keys)
  BY DEF MarksInv, Roles, Typed
<1>2. thr[t].pc \in Writing /\ pending' = pending /\ jobs' = jobs /\ phase' = phase
  BY DEF WriterStep, CompileError, Put, OpenTmp, OpenFails, Write, WriteRest, WriteFails, Rename, Prune, Writing
<1>3. k \in Keys BY <1>1, <1>2 DEF Writing
<1>4. Resumed(t) \in Calls BY DoingTyped, <1>3 DEF Resumed, Places
<1>5. \A pc \in Writing, fd \in {"none", "tmp", "file", "lost"} :
        Place(pc, k, fd, TRUE) \in Calls /\ Place(pc, k, fd, TRUE).pc = pc /\ Place(pc, k, fd, TRUE).key = k
  BY <1>3 DEF Place, Calls, Places, Writing
<1>6. thr[t].fd \in {"none", "tmp", "file", "lost"} BY <1>1 DEF Calls
<1>7. ASSUME NEW c \in Calls, thr' = [thr EXCEPT ![t] = c], c = Resumed(t) \/ (c.key = k /\ c.pc \in Writing)
      PROVE  MarksInv'
  <2>1. thr' \in [Threads -> Calls] /\ thr'[t] = c /\ \A r \in Threads : r # t => Same(r)
    BY <1>1, <1>7 DEF Same
  <2> QED BY QuietWriter, <1>2, <1>7, <2>1
<1>8. ASSUME NEW c \in Calls, c = Resumed(t) \/ (c.key = k /\ c.pc \in Writing),
             \A r \in Threads : thr'[r] = IF r = t THEN c ELSE thr'[r],
             \A r \in Threads : r # t => thr'[r] \in Calls /\ Same(r),
             thr' = [r \in Threads |-> thr'[r]]
      PROVE  MarksInv'
  <2>1. thr' \in [Threads -> Calls] /\ thr'[t] = c BY <1>8
  <2> QED BY QuietWriter, <1>2, <1>8, <2>1
<1>9. ASSUME NEW r \in Threads, NEW gone, NEW goneTmp
      PROVE  /\ Unlinked(r, gone, goneTmp) \in Calls
             /\ Unlinked(r, gone, goneTmp).pc = thr[r].pc /\ Unlinked(r, gone, goneTmp).key = thr[r].key
  BY <1>1 DEF Unlinked, Place, Calls
<1>10. CASE CompileError(t) \/ OpenFails(t)
  BY <1>4, <1>7, <1>10 DEF CompileError, OpenFails, Resume
<1>11. CASE Put(t)
  <2>1. thr' = [thr EXCEPT ![t] = Resumed(t)] \/ thr' = [thr EXCEPT ![t] = Place("open", k, thr[t].fd, TRUE)]
    BY <1>11 DEF Put, Resume, Goto
  <2> QED BY <1>4, <1>5, <1>6, <1>7, <2>1 DEF Writing
<1>12. CASE OpenTmp(t)
  <2>1. thr' = [thr EXCEPT ![t] = Place("write", k, "tmp", TRUE)] BY <1>12 DEF OpenTmp
  <2> QED BY <1>5, <1>7, <2>1 DEF Writing
<1>13. CASE Write(t)
  <2>1. thr' = [thr EXCEPT ![t] = Place("write2", k, thr[t].fd, TRUE)] BY <1>13 DEF Write, Goto
  <2> QED BY <1>5, <1>6, <1>7, <2>1 DEF Writing
<1>14. CASE WriteRest(t)
  <2>1. thr' = [thr EXCEPT ![t] = Place("rename", k, "none", TRUE)] BY <1>14 DEF WriteRest, Doing
  <2> QED BY <1>5, <1>7, <2>1 DEF Writing
<1>15. CASE WriteFails(t)
  <2>1. thr' = [r \in Threads |-> IF r = t THEN Resumed(t) ELSE Unlinked(r, {}, {k})]
    BY <1>15 DEF WriteFails, Failed
  <2> QED BY <1>4, <1>8, <1>9, <2>1 DEF Same
<1>16. CASE Rename(t)
  <2>1. AfterRename(t) \in Calls /\ (AfterRename(t) = Resumed(t) \/ (AfterRename(t).key = k /\ AfterRename(t).pc \in Writing))
    BY <1>4, <1>5 DEF AfterRename, Doing, Writing
  <2>2. CASE tmp[k] = NoFile BY <1>7, <1>16, <2>1, <2>2 DEF Rename
  <2>3. CASE tmp[k] # NoFile
    <3>1. thr' = [r \in Threads |-> IF r = t THEN AfterRename(t) ELSE Renamed(r, k)]
      BY <1>16, <2>3 DEF Rename
    <3>2. ASSUME NEW r \in Threads
          PROVE  Renamed(r, k) \in Calls /\ Renamed(r, k).pc = thr[r].pc /\ Renamed(r, k).key = thr[r].key
      <4>1. PICK c : c = Unlinked(r, {k}, {}) OBVIOUS
      <4>2. c \in Calls /\ c.pc = thr[r].pc /\ c.key = thr[r].key BY <1>9, <4>1
      <4> QED BY <4>1, <4>2 DEF Renamed, Place, Calls
    <3> QED BY <1>8, <2>1, <3>1, <3>2 DEF Same
  <2> QED BY <2>2, <2>3
<1>17. CASE Prune(t)
  <2>1. PICK gone, goneTmp : thr' = [r \in Threads |-> IF r = t THEN Resumed(t) ELSE Unlinked(r, gone, goneTmp)]
    BY <1>17 DEF Prune
  <2> QED BY <1>4, <1>8, <1>9, <2>1 DEF Same
<1> QED
  BY <1>10, <1>11, <1>12, <1>13, <1>14, <1>15, <1>16, <1>17 DEF WriterStep
\* What an append does to the queue.
LEMMA AppendedOnce ==
  ASSUME NEW q \in Seq(Keys), NEW k \in Keys
  PROVE  /\ Range(Append(q, k)) = Range(q) \cup {k}
         /\ (\A m, n \in DOMAIN q : q[m] = q[n] => m = n) /\ k \notin Range(q)
              => \A m, n \in DOMAIN Append(q, k) : Append(q, k)[m] = Append(q, k)[n] => m = n
<1>1. Len(Append(q, k)) = Len(q) + 1 /\ Len(q) \in Nat
      /\ DOMAIN q = 1..Len(q) /\ DOMAIN Append(q, k) = 1..(Len(q) + 1)
  OBVIOUS
<1>2. /\ \A n \in 1..Len(q) : Append(q, k)[n] = q[n]
      /\ Append(q, k)[Len(q) + 1] = k
      /\ \A n \in 1..(Len(q) + 1) : n \in 1..Len(q) \/ n = Len(q) + 1
      /\ 1..Len(q) \subseteq 1..(Len(q) + 1) /\ Len(q) + 1 \in 1..(Len(q) + 1)
  BY <1>1
<1>3. Range(Append(q, k)) = Range(q) \cup {k} BY <1>1, <1>2 DEF Range
<1>4. ASSUME \A m, n \in DOMAIN q : q[m] = q[n] => m = n, k \notin Range(q)
      PROVE  \A m, n \in DOMAIN Append(q, k) : Append(q, k)[m] = Append(q, k)[n] => m = n
  BY <1>1, <1>2, <1>4 DEF Range
<1> QED BY <1>3, <1>4

\* What taking the head does to the queue.
LEMMA TakenOnce ==
  ASSUME NEW q \in Seq(Keys), q # <<>>, \A m, n \in DOMAIN q : q[m] = q[n] => m = n
  PROVE  /\ Head(q) \in Keys /\ Tail(q) \in Seq(Keys)
         /\ Head(q) \notin Range(Tail(q)) /\ Range(q) = {Head(q)} \cup Range(Tail(q))
         /\ \A m, n \in DOMAIN Tail(q) : Tail(q)[m] = Tail(q)[n] => m = n
<1>1. /\ Len(q) \in Nat /\ Len(q) > 0 /\ DOMAIN q = 1..Len(q)
      /\ DOMAIN Tail(q) = 1..(Len(q) - 1) /\ Head(q) = q[1] /\ Tail(q) \in Seq(Keys) /\ Head(q) \in Keys
  OBVIOUS
<1>2. /\ \A n \in 1..(Len(q) - 1) : Tail(q)[n] = q[n + 1] /\ n + 1 \in 1..Len(q) /\ n + 1 # 1
      /\ \A n \in 1..Len(q) : n = 1 \/ (n - 1 \in 1..(Len(q) - 1) /\ n = (n - 1) + 1)
      /\ 1 \in 1..Len(q)
  BY <1>1
<1>3. Range(q) = {Head(q)} \cup Range(Tail(q))
  <2>1. Range(q) \subseteq {Head(q)} \cup Range(Tail(q))
    <3>1. ASSUME NEW n \in DOMAIN q PROVE q[n] \in {Head(q)} \cup Range(Tail(q))
      <4>1. CASE n = 1 BY <1>1, <4>1
      <4>2. CASE n # 1
        <5>1. n - 1 \in DOMAIN Tail(q) /\ Tail(q)[n - 1] = q[n] BY <1>1, <1>2, <3>1, <4>2
        <5> QED BY <5>1 DEF Range
      <4> QED BY <4>1, <4>2
    <3> QED BY <3>1 DEF Range
  <2>2. Range(Tail(q)) \subseteq Range(q)
    <3>1. ASSUME NEW n \in DOMAIN Tail(q) PROVE Tail(q)[n] \in Range(q)
      <4>1. n + 1 \in DOMAIN q /\ Tail(q)[n] = q[n + 1] BY <1>1, <1>2
      <4> QED BY <4>1 DEF Range
    <3> QED BY <3>1 DEF Range
  <2>3. Head(q) \in Range(q) BY <1>1, <1>2 DEF Range
  <2> QED BY <2>1, <2>2, <2>3
<1>4. Head(q) \notin Range(Tail(q)) BY <1>1, <1>2 DEF Range
<1>5. \A m, n \in DOMAIN Tail(q) : Tail(q)[m] = Tail(q)[n] => m = n BY <1>1, <1>2
<1> QED BY <1>1, <1>3, <1>4, <1>5

\* ns_bytecode_cache_precompile: a script is marked while none else marks, so
\* that what was found unmarked still is, and is pushed once.
LEMMA PrecompileKeeps ==
  ASSUME BytecodeAssumption, MarksInv, PreMark \/ PrePush \/ \E k \in Keys : PreCheck(k)
  PROVE  MarksInv'
<1> USE DEF MarksInv
<1>1. Engine \in Threads /\ Engine \notin Pool /\ Engine \in Readers
  BY DEF Threads, BytecodeAssumption
<1>2. phase = "up" /\ phase' = "up"
  BY <1>1 DEF PreMark, PrePush, PreCheck, At, CanRun
<1>3. ASSUME NEW c \in Calls, thr' = [thr EXCEPT ![Engine] = c],
             c.pc \in {"idle", "mark", "push"}, c.pc # "idle" => c.key \in Keys,
             pending' \subseteq Keys, jobs' \in Seq(Keys), pending \subseteq pending'
      PROVE  /\ thr'[Engine] = c /\ \A r \in Threads : r # Engine => thr'[r] = thr[r]
             /\ Typed' /\ Roles' /\ Busy' = Busy /\ KeysInWork' = KeysInWork /\ Sleepers'
  <2>1. thr'[Engine] = c /\ \A r \in Threads : r # Engine => thr'[r] = thr[r]
    BY <1>1, <1>3 DEF Typed
  <2>2. Typed' BY <1>1, <1>2, <1>3 DEF Typed
  <2>3. Roles' BY <1>1, <1>3, <2>1 DEF Roles, Threads
  <2>4. \A r \in Pool : thr'[r] = thr[r] BY <1>1, <2>1 DEF Threads
  <2>5. Busy' = Busy BY <2>4 DEF Busy
  <2>6. KeysInWork' = KeysInWork BY <2>4, <2>5 DEF KeysInWork, Busy
  <2>7. Sleepers' BY <1>2, <1>3, <2>1 DEF Sleepers, Threads
  <2> QED BY <2>1, <2>2, <2>3, <2>5, <2>6, <2>7
<1>4. CASE \E k \in Keys : PreCheck(k)
  <2>1. PICK k \in Keys : PreCheck(k) BY <1>4
  <2> DEFINE c == Doing("mark", k)
  <2>2. c \in Calls /\ c.pc = "mark" /\ c.key = k BY DoingTyped DEF Places
  <2>3. /\ thr' = [thr EXCEPT ![Engine] = c] /\ pending' = pending /\ jobs' = jobs
        /\ thr[Engine].pc = "idle" /\ k \notin pending
    BY <2>1 DEF PreCheck, At, Wanted
  <2> HIDE DEF c
  <2>4. /\ thr'[Engine] = c /\ Typed' /\ Roles' /\ Busy' = Busy /\ KeysInWork' = KeysInWork /\ Sleepers'
        /\ \A r \in Threads : r # Engine => thr'[r] = thr[r]
    BY <1>3, <2>2, <2>3 DEF Typed
  <2>5. Pushing' = Pushing BY <2>2, <2>3, <2>4 DEF Pushing
  <2>6. \A r \in Busy : thr'[r] = thr[r] BY <1>1, <2>4 DEF Busy, Threads
  <2>7. MarkedOnce' BY <1>2, <2>3, <2>4, <2>5, <2>6 DEF MarkedOnce
  <2>8. MarkFree' BY <2>2, <2>3, <2>4 DEF MarkFree
  <2> QED BY <2>4, <2>7, <2>8
<1> DEFINE k == thr[Engine].key
<1>5. CASE PreMark
  <2>1. thr[Engine].pc = "mark" /\ jobs' = jobs /\ k \in Keys /\ k \notin pending
        /\ thr[Engine].fd \in {"none", "tmp", "file", "lost"}
    BY <1>1, <1>2, <1>5 DEF PreMark, At, Roles, MarkFree, Typed, Calls
  <2>2. CASE file[k] # NoFile
    <3>1. thr' = [thr EXCEPT ![Engine] = Idle] /\ pending' = pending
      BY <1>1, <1>5, <2>2 DEF PreMark, Resume, Resumed
    <3>2. Idle \in Calls /\ Idle.pc = "idle" BY DoingTyped
    <3>3. /\ thr'[Engine] = Idle /\ Typed' /\ Roles' /\ Busy' = Busy /\ KeysInWork' = KeysInWork /\ Sleepers'
          /\ \A r \in Threads : r # Engine => thr'[r] = thr[r]
      BY <1>3, <2>1, <3>1, <3>2 DEF Typed
    <3>4. Pushing' = Pushing BY <2>1, <3>2, <3>3 DEF Pushing
    <3>5. \A r \in Busy : thr'[r] = thr[r] BY <1>1, <3>3 DEF Busy, Threads
    <3>6. MarkedOnce' BY <1>2, <2>1, <3>1, <3>3, <3>4, <3>5 DEF MarkedOnce
    <3>7. MarkFree' BY <3>2, <3>3 DEF MarkFree
    <3> QED BY <3>3, <3>6, <3>7
  <2>3. CASE file[k] = NoFile
    <3> DEFINE c == Place("push", k, thr[Engine].fd, TRUE)
    <3>1. thr' = [thr EXCEPT ![Engine] = c] /\ pending' = pending \cup {k}
      BY <1>5, <2>3 DEF PreMark, Goto
    <3>2. c \in Calls /\ c.pc = "push" /\ c.key = k BY <2>1 DEF Place, Calls, Places
    <3> HIDE DEF c
    <3>3. /\ thr'[Engine] = c /\ Typed' /\ Roles' /\ Busy' = Busy /\ KeysInWork' = KeysInWork /\ Sleepers'
          /\ \A r \in Threads : r # Engine => thr'[r] = thr[r]
      BY <1>3, <2>1, <3>1, <3>2 DEF Typed
    <3>4. Pushing' = {k} /\ Pushing = {} BY <2>1, <3>2, <3>3 DEF Pushing
    <3>5. \A r \in Busy : thr'[r] = thr[r] BY <1>1, <3>3 DEF Busy, Threads
    <3>6. k \notin KeysInWork \cup Range(jobs) BY <1>2, <2>1 DEF MarkedOnce
    <3>7. MarkedOnce' BY <1>2, <2>1, <3>1, <3>3, <3>4, <3>5, <3>6 DEF MarkedOnce
    <3>8. MarkFree' BY <3>2, <3>3 DEF MarkFree
    <3> QED BY <3>3, <3>7, <3>8
  <2> QED BY <2>2, <2>3
<1>6. CASE PrePush
  <2>1. thr[Engine].pc = "push" /\ pending' = pending /\ k \in Keys /\ jobs' = Append(jobs, k)
        /\ jobs \in Seq(Keys)
    BY <1>1, <1>6 DEF PrePush, At, Roles, Typed
  <2>2. thr' = [thr EXCEPT ![Engine] = Idle] BY <1>1, <1>6 DEF PrePush, Resume, Resumed
  <2>3. Idle \in Calls /\ Idle.pc = "idle" BY DoingTyped
  <2>4. jobs' \in Seq(Keys) BY <2>1
  <2>5. /\ thr'[Engine] = Idle /\ Typed' /\ Roles' /\ Busy' = Busy /\ KeysInWork' = KeysInWork /\ Sleepers'
        /\ \A r \in Threads : r # Engine => thr'[r] = thr[r]
    BY <1>3, <2>1, <2>2, <2>3, <2>4 DEF Typed
  <2>6. Pushing = {k} /\ Pushing' = {} BY <2>1, <2>3, <2>5 DEF Pushing
  <2>7. \A r \in Busy : thr'[r] = thr[r] BY <1>1, <2>5 DEF Busy, Threads
  <2>8. /\ Range(jobs') = Range(jobs) \cup {k}
        /\ (\A m, n \in DOMAIN jobs : jobs[m] = jobs[n] => m = n) /\ k \notin Range(jobs)
             => \A m, n \in DOMAIN jobs' : jobs'[m] = jobs'[n] => m = n
    BY AppendedOnce, <2>1
  <2>9. MarkedOnce' BY <1>2, <2>1, <2>5, <2>6, <2>7, <2>8 DEF MarkedOnce
  <2>10. MarkFree' BY <2>3, <2>5 DEF MarkFree
  <2> QED BY <2>5, <2>9, <2>10
<1> QED BY <1>4, <1>5, <1>6

\* A worker takes a job, which was queued and now runs.
LEMMA TakeJobKeeps ==
  ASSUME BytecodeAssumption, MarksInv, NEW t \in Pool, TakeJob(t)
  PROVE  MarksInv'
<1> USE DEF MarksInv
<1>1. t \in Threads /\ t \notin Readers /\ t # Engine /\ Engine \in Threads
  BY DEF Threads, BytecodeAssumption
<1>2. /\ thr[t].pc = "idle" /\ jobs # <<>> /\ jobs \in Seq(Keys) /\ jobs' = Tail(jobs)
      /\ pending' = pending /\ phase' = phase
  BY DEF TakeJob, At, Typed
<1> DEFINE k == Head(jobs)
           c == Doing("compile", k)
<1>3. thr' = [thr EXCEPT ![t] = c] BY DEF TakeJob
<1>4. k \in Keys /\ Tail(jobs) \in Seq(Keys) BY <1>2
<1>5. c \in Calls /\ c.pc = "compile" /\ c.key = k BY DoingTyped, <1>4 DEF Places
<1> HIDE DEF k, c
<1>6. thr'[t] = c /\ \A r \in Threads : r # t => thr'[r] = thr[r] BY <1>1, <1>3 DEF Typed
<1>7. Typed' BY <1>1, <1>2, <1>3, <1>4, <1>5 DEF Typed
<1>8. Roles' BY <1>1, <1>4, <1>5, <1>6 DEF Roles, Threads, WorkerPlaces
<1>9. Busy' = Busy \cup {t} /\ t \notin Busy BY <1>2, <1>5, <1>6, <1>1 DEF Busy, Threads
<1>10. \A r \in Busy : thr'[r] = thr[r] BY <1>6, <1>9 DEF Busy, Threads
<1>11. KeysInWork' = KeysInWork \cup {k} BY <1>5, <1>6, <1>9, <1>10 DEF KeysInWork
<1>12. thr'[Engine] = thr[Engine] BY <1>1, <1>6
<1>13. Pushing' = Pushing BY <1>12 DEF Pushing
<1>14. ASSUME phase = "up" PROVE MarkedOnce'
  <2>1. MarkedOnce BY <1>14
  <2>2. /\ k \notin Range(jobs') /\ Range(jobs) = {k} \cup Range(jobs')
        /\ \A m, n \in DOMAIN jobs' : jobs'[m] = jobs'[n] => m = n
    BY TakenOnce, <1>2, <2>1 DEF MarkedOnce, k
  <2>3. pending' = KeysInWork' \cup Range(jobs') \cup Pushing'
    BY <1>2, <1>11, <1>13, <2>1, <2>2 DEF MarkedOnce
  <2>4. KeysInWork' \cap Range(jobs') = {} /\ Pushing' \cap (KeysInWork' \cup Range(jobs')) = {}
    BY <1>11, <1>13, <2>1, <2>2 DEF MarkedOnce
  <2>5. \A r \in Busy : thr[r].key # k BY <2>1, <2>2 DEF MarkedOnce, KeysInWork
  <2>6. \A r, u \in Busy' : thr'[r].key = thr'[u].key => r = u
    BY <1>5, <1>6, <1>9, <1>10, <2>1, <2>5 DEF MarkedOnce
  <2> QED BY <2>2, <2>3, <2>4, <2>6 DEF MarkedOnce
<1>15. ASSUME phase = "up" PROVE Sleepers'
  BY <1>1, <1>2, <1>6, <1>15 DEF Sleepers, Threads
<1>16. ASSUME phase = "up" PROVE MarkFree' BY <1>2, <1>12, <1>16 DEF MarkFree
<1> QED BY <1>2, <1>7, <1>8, <1>14, <1>15, <1>16

\* The worker that ends a job takes its mark away, and all that slept look again.
LEMMA FinishKeeps ==
  ASSUME BytecodeAssumption, MarksInv, NEW t \in Pool, Finish(t)
  PROVE  MarksInv'
<1> USE DEF MarksInv
<1>1. t \in Threads /\ t \notin Readers /\ t # Engine /\ Engine \in Threads
  BY DEF Threads, BytecodeAssumption
<1> DEFINE k == thr[t].key
<1>2. /\ thr[t].pc = "finish" /\ k \in Keys /\ pending' = pending \ {k} /\ jobs' = jobs /\ phase' = phase
  BY <1>1 DEF Finish, At, Roles
<1>3. thr' = [r \in Threads |-> IF r = t THEN Idle ELSE IF r \in Waiting THEN Doing("woken", thr[r].key) ELSE thr[r]]
  BY DEF Finish, Woke
<1>4. \A r \in Waiting : r \in Threads /\ thr[r].pc = "wait" /\ thr[r].key \in Keys
  BY DEF Waiting, Roles
<1>5. Idle \in Calls /\ Idle.pc = "idle" BY DoingTyped
<1>6. \A r \in Waiting : /\ Doing("woken", thr[r].key) \in Calls /\ Doing("woken", thr[r].key).pc = "woken"
                         /\ Doing("woken", thr[r].key).key = thr[r].key
  BY <1>4, DoingTyped DEF Places
<1>7. /\ thr'[t] = Idle
      /\ \A r \in Waiting : r # t => thr'[r].pc = "woken" /\ thr'[r].key = thr[r].key
      /\ \A r \in Threads : r # t /\ r \notin Waiting => thr'[r] = thr[r]
  BY <1>1, <1>3, <1>4, <1>6
<1>8. Waiting \subseteq Readers BY <1>4 DEF Roles, WorkerPlaces, Threads
<1>9. Typed'
  <2>1. \A r \in Threads : thr'[r] \in Calls BY <1>3, <1>5, <1>6 DEF Typed
  <2>2. thr' = [r \in Threads |-> thr'[r]] BY <1>3
  <2>3. thr' \in [Threads -> Calls] BY <2>1, <2>2
  <2> QED BY <1>2, <2>3 DEF Typed
<1>10. Roles' BY <1>1, <1>4, <1>5, <1>7, <1>8 DEF Roles, Threads, WorkerPlaces
<1>11. \A r \in Pool : r # t => thr'[r] = thr[r] BY <1>1, <1>7, <1>8 DEF Threads, BytecodeAssumption
<1>12. Busy' = Busy \ {t} /\ t \in Busy BY <1>2, <1>5, <1>7, <1>11 DEF Busy
<1>13. /\ thr'[Engine].pc \in {"mark", "push"} <=> thr[Engine].pc \in {"mark", "push"}
       /\ thr'[Engine].pc = "push" <=> thr[Engine].pc = "push"
       /\ thr'[Engine].pc = "mark" <=> thr[Engine].pc = "mark"
       /\ thr'[Engine].key = thr[Engine].key
  BY <1>1, <1>4, <1>7
<1>14. Pushing' = Pushing BY <1>13 DEF Pushing
<1>15. ASSUME phase = "up" PROVE MarkedOnce'
  <2>1. MarkedOnce BY <1>15
  <2>2. \A r \in Busy' : r \in Busy /\ r # t /\ thr'[r] = thr[r] /\ thr[r].key # k
    BY <1>11, <1>12, <2>1 DEF Busy, MarkedOnce
  <2>3. KeysInWork' = KeysInWork \ {k} /\ k \in KeysInWork BY <1>12, <2>2 DEF KeysInWork
  <2>4. k \notin Range(jobs) /\ k \notin Pushing BY <2>1, <2>3 DEF MarkedOnce
  <2>5. pending' = KeysInWork' \cup Range(jobs') \cup Pushing'
    BY <1>2, <1>14, <2>1, <2>3, <2>4 DEF MarkedOnce
  <2>6. KeysInWork' \cap Range(jobs') = {} /\ Pushing' \cap (KeysInWork' \cup Range(jobs')) = {}
    BY <1>2, <1>14, <2>1, <2>3 DEF MarkedOnce
  <2>7. \A r, u \in Busy' : thr'[r].key = thr'[u].key => r = u BY <2>1, <2>2 DEF MarkedOnce
  <2>8. \A m, n \in DOMAIN jobs' : jobs'[m] = jobs'[n] => m = n BY <1>2, <2>1 DEF MarkedOnce
  <2> QED BY <2>5, <2>6, <2>7, <2>8 DEF MarkedOnce
<1>16. Sleepers'
  <2>1. ASSUME NEW r \in Readers PROVE thr'[r].pc # "wait"
    BY <1>1, <1>7, <2>1 DEF Threads, Waiting
  <2> QED BY <2>1 DEF Sleepers
<1>17. ASSUME phase = "up" PROVE MarkFree' BY <1>2, <1>13, <1>17 DEF MarkFree
<1> QED BY <1>2, <1>9, <1>10, <1>15, <1>16, <1>17

\* The shutdown, the end of the process and a start.
LEMMA EndKeeps ==
  ASSUME BytecodeAssumption, MarksInv, Shutdown \/ ShutdownDone \/ Restart
  PROVE  MarksInv'
<1> USE DEF MarksInv
<1>1. <<>> \in Seq(Keys) OBVIOUS
<1>2. CASE Shutdown
  <2>1. thr' = thr /\ pending' = pending /\ jobs' = <<>> /\ phase' = "draining" BY <1>2 DEF Shutdown
  <2>2. Typed' BY <1>1, <2>1 DEF Typed
  <2>3. Roles' BY <2>1 DEF Roles
  <2> QED BY <2>1, <2>2, <2>3
<1>3. CASE ShutdownDone
  <2>1. thr' = thr /\ pending' = {} /\ jobs' = jobs /\ phase' = "down" BY <1>3 DEF ShutdownDone
  <2>2. Typed' BY <2>1 DEF Typed
  <2>3. Roles' BY <2>1 DEF Roles
  <2> QED BY <2>1, <2>2, <2>3
<1>4. CASE Restart
  <2>1. thr' = [t \in Threads |-> Idle] /\ pending' = {} /\ jobs' = <<>> /\ phase' = "up" BY <1>4 DEF Restart
  <2>2. Idle \in Calls /\ Idle.pc = "idle" BY DoingTyped
  <2>3. \A t \in Threads : thr'[t].pc = "idle" BY <2>1, <2>2
  <2>4. Engine \in Threads /\ Pool \subseteq Threads /\ Readers \subseteq Threads BY DEF Threads, BytecodeAssumption
  <2>5. Typed' BY <1>1, <2>1, <2>2 DEF Typed
  <2>6. Roles' BY <2>3, <2>4 DEF Roles, WorkerPlaces
  <2>7. Busy' = {} BY <2>3, <2>4 DEF Busy
  <2>8. KeysInWork' = {} BY <2>7 DEF KeysInWork
  <2>9. Pushing' = {} BY <2>3, <2>4 DEF Pushing
  <2>10. Range(jobs') = {} /\ DOMAIN jobs' = {} BY <2>1 DEF Range
  <2>11. MarkedOnce' BY <2>1, <2>7, <2>8, <2>9, <2>10 DEF MarkedOnce
  <2>12. Sleepers' /\ MarkFree' BY <2>3, <2>4 DEF Sleepers, MarkFree
  <2> QED BY <2>5, <2>6, <2>11, <2>12
<1> QED BY <1>2, <1>3, <1>4

\* Every step keeps the marks.
LEMMA MarksStep ==
  ASSUME BytecodeAssumption, MarksInv, [BytecodeNext]_vars
  PROVE  MarksInv'
<1>1. CASE UNCHANGED vars
  BY <1>1 DEF vars, MarksInv, Typed, Roles, MarkedOnce, Sleepers, MarkFree, KeysInWork, Busy, Pushing
<1>2. CASE BytecodeNext
  BY <1>2, GetStartKeeps, ReaderKeeps, WriterKeeps, TakeJobKeeps, FinishKeeps, PrecompileKeeps, EndKeeps
     DEF BytecodeNext, PoolStep
<1> QED BY <1>1, <1>2

\* While the cache is up, each mark of g_pending has exactly one job and each
\* sleeping reader has its mark (get, precompile and precompile_job_finish).
THEOREM BytecodeMarks == BytecodeSpec => []MarksKept
<1>1. BytecodeInit => MarksInv BY BytecodeAssumption, MarksInit
<1>2. MarksInv /\ [BytecodeNext]_vars => MarksInv' BY BytecodeAssumption, MarksStep
<1>3. MarksInv => MarksKept BY BytecodeAssumption, MarksInvImplies
<1> QED BY <1>1, <1>2, <1>3, PTL DEF BytecodeSpec

-----------------------------------------------------------------------------
(* The files.  That a file under its final name is whole, open or cut needs   *)
(* the same of temporary files that are about to be renamed, and that the     *)
(* last of the writers of a file has written, or will write, its first half.  *)

DiskTyped ==
  /\ file \in [Keys -> Files \cup {NoFile}]
  /\ tmp \in [Keys -> Files \cup {NoFile}]

\* What is open is there, under the name that the thread goes by.
Hands ==
  \A t \in Threads :
    /\ thr[t].fd # "none" <=> thr[t].pc \in {"write", "write2"}
    /\ thr[t].fd = "tmp" => tmp[thr[t].key] # NoFile
    /\ thr[t].fd = "file" => file[thr[t].key] # NoFile

\* A thread is at the first half of the file that k goes by the name of.
Begins(k, name) == \E u \in Threads : thr[u].pc = "write" /\ thr[u].fd = name /\ thr[u].key = k

\* Who writes the second half finds the first, unless another has begun again.
Begun ==
  \A t \in Threads : thr[t].pc = "write2" =>
    /\ thr[t].fd = "tmp" => 1 \in tmp[thr[t].key].data \/ Begins(thr[t].key, "tmp")
    /\ thr[t].fd = "file" =>
         1 \in file[thr[t].key].data \/ file[thr[t].key].cut \/ Begins(thr[t].key, "file")

\* A temporary file that a thread will rename is whole or open.
TmpTorn ==
  \A k \in Keys : tmp[k] # NoFile /\ tmp[k].data # Whole =>
    \/ \E u \in Threads : thr[u].fd = "tmp" /\ thr[u].key = k
    \/ \A t \in Threads : thr[t].key = k => thr[t].pc \notin {"write", "write2", "rename"}

FilesInv == DiskTyped /\ Hands /\ Begun /\ TmpTorn /\ TornIsOpenOrCut

\* No file is the file that is not there.
LEMMA FileIsThere == \A f \in Files : f # NoFile
BY DEF Files, NoFile

\* The threads of a key.
LEMMA KeyOf ==
  ASSUME MarksInv, NEW t \in Threads, thr[t].pc # "idle"
  PROVE  thr[t].key \in Keys
BY DEF MarksInv, Roles

\* The cache starts without files.
LEMMA DiskInit == ASSUME BytecodeInit PROVE FilesInv
<1>1. \A t \in Threads : thr[t].pc = "idle" /\ thr[t].fd = "none" BY DEF BytecodeInit, Idle, Place
<1>2. \A k \in Keys : file[k] = NoFile /\ tmp[k] = NoFile BY DEF BytecodeInit
<1>3. DiskTyped BY DEF BytecodeInit, DiskTyped
<1> QED BY <1>1, <1>2, <1>3 DEF FilesInv, Hands, Begun, TmpTorn, TornIsOpenOrCut

\* A thread that neither has a file open nor will, nor will rename one.
Aside(r) ==
  /\ thr[r].pc \notin {"write", "write2"}
  /\ thr'[r].pc \notin {"write", "write2", "rename"} /\ thr'[r].fd = "none"

\* Steps of threads that have no file open leave the files as they are.
LEMMA QuietDisk ==
  ASSUME FilesInv, UNCHANGED disk, \A r \in Threads : thr'[r] = thr[r] \/ Aside(r)
  PROVE  FilesInv'
<1> USE DEF FilesInv
<1>1. file' = file /\ tmp' = tmp BY DEF disk
<1>2. \A r \in Threads : thr[r].fd # "none" \/ thr'[r].fd # "none" => thr'[r] = thr[r]
  BY DEF Aside, Hands
<1>3. \A r \in Threads : thr'[r].pc \in {"write", "write2", "rename"} => thr'[r] = thr[r]
  BY DEF Aside
<1>4. \A r \in Threads : thr[r].pc \in {"write", "write2"} => thr'[r] = thr[r]
  BY DEF Aside
<1>5. DiskTyped' BY <1>1 DEF DiskTyped
<1>6. Hands' BY <1>1, <1>2, <1>3, <1>4 DEF Hands
<1>7. ASSUME NEW k, NEW n PROVE Begins(k, n) => Begins(k, n)'
  BY <1>4 DEF Begins
<1>8. Begun'
  <2>1. SUFFICES ASSUME NEW t \in Threads, thr'[t].pc = "write2"
                 PROVE  /\ thr[t].fd = "tmp" => 1 \in tmp[thr[t].key].data \/ Begins(thr[t].key, "tmp")'
                        /\ thr[t].fd = "file" =>
                             1 \in file[thr[t].key].data \/ file[thr[t].key].cut \/ Begins(thr[t].key, "file")'
    BY <1>1, <1>3 DEF Begun, Begins
  <2>2. thr'[t] = thr[t] BY <1>3, <2>1
  <2> QED BY <1>7, <2>1, <2>2 DEF Begun
<1>9. TmpTorn' BY <1>1, <1>2, <1>3 DEF TmpTorn
<1>10. TornIsOpenOrCut' BY <1>1, <1>2 DEF TornIsOpenOrCut, HasOpen
<1> QED BY <1>5, <1>6, <1>8, <1>9, <1>10

\* One thread that goes on without a file.
LEMMA QuietOne ==
  ASSUME MarksInv, FilesInv, NEW t \in Threads, NEW c, UNCHANGED disk, thr' = [thr EXCEPT ![t] = c],
         thr[t].pc \notin {"write", "write2"}, c.pc \notin {"write", "write2", "rename"}, c.fd = "none"
  PROVE  FilesInv'
<1>1. thr'[t] = c /\ \A r \in Threads : r # t => thr'[r] = thr[r] BY DEF MarksInv, Typed
<1>2. \A r \in Threads : thr'[r] = thr[r] \/ Aside(r) BY <1>1 DEF Aside
<1> QED BY <1>2, QuietDisk

\* What a place holds.
LEMMA PlaceIs ==
  /\ \A pc, k, fd, w : /\ Place(pc, k, fd, w).pc = pc /\ Place(pc, k, fd, w).key = k
                       /\ Place(pc, k, fd, w).fd = fd /\ Place(pc, k, fd, w).whole = w
  /\ \A pc, k : Doing(pc, k).pc = pc /\ Doing(pc, k).key = k /\ Doing(pc, k).fd = "none"
  /\ Idle.pc = "idle" /\ Idle.fd = "none"
BY DEF Place, Doing, Idle

\* A thread goes on to one of some places.
LEMMA QuietPlaces ==
  ASSUME MarksInv, FilesInv, NEW t \in Threads, UNCHANGED disk, thr[t].pc \notin {"write", "write2"},
         \/ thr' = thr
         \/ thr' = [thr EXCEPT ![t] = Idle]
         \/ \E pc, k : pc \notin {"write", "write2", "rename"} /\ thr' = [thr EXCEPT ![t] = Doing(pc, k)]
         \/ \E pc, w : pc \notin {"write", "write2", "rename"}
                       /\ thr' = [thr EXCEPT ![t] = Place(pc, thr[t].key, "none", w)]
         \/ \E pc : pc \notin {"write", "write2", "rename"} /\ Goto(t, pc)
         \/ Resume(t)
  PROVE  FilesInv'
<1>1. thr[t].fd = "none" BY DEF FilesInv, Hands
<1>2. CASE thr' = thr BY <1>2, QuietDisk
<1>3. CASE thr' = [thr EXCEPT ![t] = Idle] BY <1>3, QuietOne, PlaceIs
<1>4. ASSUME NEW pc, NEW k, pc \notin {"write", "write2", "rename"}, thr' = [thr EXCEPT ![t] = Doing(pc, k)]
      PROVE  FilesInv'
  <2>1. PICK c : c = Doing(pc, k) OBVIOUS
  <2>2. c.pc = pc /\ c.fd = "none" BY <2>1, PlaceIs
  <2>3. thr' = [thr EXCEPT ![t] = c] BY <1>4, <2>1, Zenon
  <2> QED BY <1>4, <2>2, <2>3, QuietOne
<1>5. ASSUME NEW pc, NEW w, pc \notin {"write", "write2", "rename"},
             thr' = [thr EXCEPT ![t] = Place(pc, thr[t].key, "none", w)]
      PROVE  FilesInv'
  <2>1. PICK c : c = Place(pc, thr[t].key, "none", w) OBVIOUS
  <2>2. c.pc = pc /\ c.fd = "none" BY <2>1, PlaceIs
  <2>3. thr' = [thr EXCEPT ![t] = c] BY <1>5, <2>1, Zenon
  <2> QED BY <1>5, <2>2, <2>3, QuietOne
<1>6. ASSUME NEW pc, pc \notin {"write", "write2", "rename"}, Goto(t, pc) PROVE FilesInv'
  BY <1>1, <1>5, <1>6 DEF Goto
<1>7. CASE Resume(t)
  <2>1. CASE t \in Readers BY <1>3, <1>7, <2>1 DEF Resume, Resumed
  <2>2. CASE t \notin Readers
    <3>1. thr' = [thr EXCEPT ![t] = Doing("finish", thr[t].key)] BY <1>7, <2>2 DEF Resume, Resumed
    <3> DEFINE pc == "finish"
    <3>2. pc \notin {"write", "write2", "rename"} OBVIOUS
    <3>3. thr' = [thr EXCEPT ![t] = Doing(pc, thr[t].key)] BY <3>1
    <3> HIDE DEF pc
    <3> QED BY <1>4, <3>2, <3>3, Zenon
  <2> QED BY <2>1, <2>2
<1> QED BY <1>2, <1>3, <1>4, <1>5, <1>6, <1>7

\* ns_bytecode_cache_get.
LEMMA ReaderDisk ==
  ASSUME BytecodeAssumption, MarksInv, FilesInv, NEW t \in Readers,
         ReaderStep(t) \/ TimesOut(t) \/ \E k \in Keys : GetStart(t, k)
  PROVE  FilesInv'
<1> USE DEF At
<1>1. t \in Threads BY DEF Threads
<1>2. ASSUME NEW k, LookUp(t, k), UNCHANGED disk, thr[t].pc \notin {"write", "write2"} PROVE FilesInv'
  <2>1. \/ thr' = [thr EXCEPT ![t] = Doing("compile", k)]
        \/ thr' = [thr EXCEPT ![t] = Idle]
        \/ thr' = [thr EXCEPT ![t] = Doing("read", k)]
    BY <1>2 DEF LookUp
  <2> QED BY <1>1, <1>2, <2>1, QuietPlaces
<1>3. CASE \E k \in Keys : GetStart(t, k)
  <2>1. PICK k \in Keys : GetStart(t, k) BY <1>3
  <2>2. UNCHANGED disk /\ thr[t].pc \notin {"write", "write2"} BY <2>1 DEF GetStart
  <2>3. \/ thr' = [thr EXCEPT ![t] = Doing("compile", k)]
        \/ thr' = [thr EXCEPT ![t] = Doing("wait", k)]
        \/ LookUp(t, k)
    BY <2>1 DEF GetStart
  <2> QED BY <1>1, <1>2, <2>2, <2>3, QuietPlaces
<1>4. CASE Woken(t)
  <2>1. UNCHANGED disk /\ thr[t].pc \notin {"write", "write2"} BY <1>4 DEF Woken
  <2>2. Goto(t, "wait") \/ LookUp(t, thr[t].key) BY <1>4 DEF Woken
  <2> QED BY <1>1, <1>2, <2>1, <2>2, QuietPlaces
<1>5. CASE TimesOut(t) BY <1>2, <1>5 DEF TimesOut
<1>6. CASE ReadDisk(t)
  <2>1. UNCHANGED disk /\ thr[t].pc \notin {"write", "write2"} BY <1>6 DEF ReadDisk
  <2>2. \/ Goto(t, "compile")
        \/ \E w : thr' = [thr EXCEPT ![t] = Place("keep", thr[t].key, "none", w)]
    BY <1>6 DEF ReadDisk
  <2> QED BY <1>1, <2>1, <2>2, QuietPlaces
<1>7. CASE Keep(t)
  <2>1. UNCHANGED disk /\ thr[t].pc \notin {"write", "write2"} BY <1>7 DEF Keep
  <2>2. Resume(t) \/ Goto(t, "compile") BY <1>7 DEF Keep
  <2> QED BY <1>1, <2>1, <2>2, QuietPlaces
<1> QED BY <1>3, <1>4, <1>5, <1>6, <1>7 DEF ReaderStep

\* What is done ahead, the pool, and what leaves the files alone in
\* ns_bytecode_cache_put.
LEMMA OthersDisk ==
  ASSUME BytecodeAssumption, MarksInv, FilesInv, NEW t \in Threads,
         \/ CompileError(t) \/ Put(t) \/ OpenFails(t)
         \/ TakeJob(t) \/ Finish(t)
         \/ PreMark \/ PrePush \/ \E k \in Keys : PreCheck(k)
         \/ Shutdown \/ ShutdownDone
  PROVE  FilesInv'
<1> USE DEF At
<1>1. Engine \in Threads BY DEF Threads, BytecodeAssumption
<1>2. CASE CompileError(t) \/ OpenFails(t)
  <2>1. UNCHANGED disk /\ thr[t].pc \notin {"write", "write2"} /\ Resume(t) BY <1>2 DEF CompileError, OpenFails
  <2> QED BY <2>1, QuietPlaces
<1>3. CASE Put(t)
  <2>1. UNCHANGED disk /\ thr[t].pc \notin {"write", "write2"} BY <1>3 DEF Put
  <2>2. Resume(t) \/ Goto(t, "open") BY <1>3 DEF Put
  <2> QED BY <2>1, <2>2, QuietPlaces
<1>4. CASE TakeJob(t)
  <2>1. UNCHANGED disk /\ thr[t].pc \notin {"write", "write2"} BY <1>4 DEF TakeJob
  <2>2. thr' = [thr EXCEPT ![t] = Doing("compile", Head(jobs))] BY <1>4 DEF TakeJob
  <2> QED BY <2>1, <2>2, QuietPlaces
<1>5. CASE Finish(t)
  <2>1. UNCHANGED disk /\ thr[t].pc = "finish" BY <1>5 DEF Finish
  <2>2. thr' = [r \in Threads |-> IF r = t THEN Idle
                  ELSE IF r \in Waiting THEN Doing("woken", thr[r].key) ELSE thr[r]]
    BY <1>5 DEF Finish, Woke
  <2>3. ASSUME NEW r \in Threads PROVE thr'[r] = thr[r] \/ Aside(r)
    <3>1. CASE r = t
      <4>1. thr'[r] = Idle BY <2>2, <3>1
      <4> QED BY <2>1, <3>1, <4>1, PlaceIs DEF Aside
    <3>2. CASE r # t /\ r \in Waiting
      <4>1. PICK c : c = Doing("woken", thr[r].key) OBVIOUS
      <4>2. c.pc = "woken" /\ c.fd = "none" BY <4>1, PlaceIs
      <4>3. thr'[r] = c BY <2>2, <3>2, <4>1
      <4>4. thr[r].pc = "wait" BY <3>2 DEF Waiting
      <4> QED BY <4>2, <4>3, <4>4 DEF Aside
    <3>3. CASE r # t /\ r \notin Waiting BY <2>2, <3>3
    <3> QED BY <3>1, <3>2, <3>3
  <2> QED BY <2>1, <2>3, QuietDisk
<1>6. CASE PreMark
  <2>1. UNCHANGED disk /\ thr[Engine].pc \notin {"write", "write2"} BY <1>6 DEF PreMark
  <2>2. Resume(Engine) \/ Goto(Engine, "push") BY <1>6 DEF PreMark
  <2> QED BY <1>1, <2>1, <2>2, QuietPlaces
<1>7. CASE PrePush
  <2>1. UNCHANGED disk /\ thr[Engine].pc \notin {"write", "write2"} /\ Resume(Engine) BY <1>7 DEF PrePush
  <2> QED BY <1>1, <2>1, QuietPlaces
<1>8. CASE \E k \in Keys : PreCheck(k)
  <2>1. PICK k \in Keys : PreCheck(k) BY <1>8
  <2>2. /\ UNCHANGED disk /\ thr[Engine].pc \notin {"write", "write2"}
        /\ thr' = [thr EXCEPT ![Engine] = Doing("mark", k)]
    BY <2>1 DEF PreCheck
  <2> QED BY <1>1, <2>2, QuietPlaces
<1>9. CASE Shutdown \/ ShutdownDone
  BY <1>9, QuietDisk DEF Shutdown, ShutdownDone
<1> QED BY <1>2, <1>3, <1>4, <1>5, <1>6, <1>7, <1>8, <1>9

\* write_disk opens the temporary file, and empties one that is there.
LEMMA OpenDisk ==
  ASSUME MarksInv, FilesInv, NEW t \in Threads, OpenTmp(t)
  PROVE  FilesInv'
<1> USE DEF FilesInv
<1> DEFINE k == thr[t].key
           c == Place("write", k, "tmp", TRUE)
<1>1. /\ thr[t].pc = "open" /\ file' = file /\ tmp' = [tmp EXCEPT ![k] = Empty]
      /\ thr' = [thr EXCEPT ![t] = c]
  BY DEF OpenTmp, At
<1>2. k \in Keys /\ thr[t].fd = "none" BY <1>1, KeyOf DEF Hands
<1>3. c.pc = "write" /\ c.key = k /\ c.fd = "tmp" BY DEF Place
<1>4. Empty \in Files /\ Empty # NoFile /\ Empty.data # Whole
  <2>1. Empty \in Files BY DEF Empty, Files
  <2>2. Empty.data = {} BY DEF Empty
  <2>3. 1 \in Whole BY DEF Whole
  <2> QED BY <2>1, <2>2, <2>3, FileIsThere
<1>5. thr'[t] = c /\ \A r \in Threads : r # t => thr'[r] = thr[r] BY <1>1 DEF MarksInv, Typed
<1> HIDE DEF c
<1>6. tmp'[k] = Empty /\ \A j \in Keys : j # k => tmp'[j] = tmp[j] BY <1>1, <1>2 DEF DiskTyped
<1>7. DiskTyped' BY <1>1, <1>4 DEF DiskTyped
<1>8. \A r \in Threads : r # t /\ thr[r].pc # "idle" => thr[r].key \in Keys BY KeyOf
<1>9. Hands'
  <2>1. ASSUME NEW r \in Threads, r # t
        PROVE  /\ thr[r].fd = "tmp" => tmp'[thr[r].key] # NoFile
               /\ thr[r].fd = "file" => file'[thr[r].key] # NoFile
               /\ thr[r].fd # "none" <=> thr[r].pc \in {"write", "write2"}
    BY <1>1, <1>4, <1>6, <1>8, <2>1 DEF Hands
  <2> QED BY <1>3, <1>4, <1>5, <1>6, <2>1 DEF Hands
<1>10. ASSUME NEW j, NEW n PROVE Begins(j, n) => Begins(j, n)'
  BY <1>1, <1>5 DEF Begins
<1>11. Begun'
  <2>1. SUFFICES ASSUME NEW r \in Threads, thr'[r].pc = "write2", NEW j, j = thr'[r].key
                 PROVE  /\ thr'[r].fd = "tmp" => 1 \in tmp'[j].data \/ Begins(j, "tmp")'
                        /\ thr'[r].fd = "file" =>
                             1 \in file'[j].data \/ file'[j].cut \/ Begins(j, "file")'
    BY DEF Begun, Begins
  <2>2. r # t /\ thr'[r] = thr[r] BY <1>3, <1>5, <2>1
  <2>3. /\ thr[r].fd = "tmp" => 1 \in tmp[j].data \/ Begins(j, "tmp")
        /\ thr[r].fd = "file" => 1 \in file[j].data \/ file[j].cut \/ Begins(j, "file")
    BY <2>1, <2>2 DEF Begun
  <2>4. j = k => Begins(j, "tmp")' BY <1>3, <1>5 DEF Begins
  <2>5. j # k => tmp'[j] = tmp[j] BY <1>6, <1>8, <2>1, <2>2
  <2> QED BY <1>1, <1>10, <2>2, <2>3, <2>4, <2>5
<1>12. TmpTorn'
  <2>1. SUFFICES ASSUME NEW j \in Keys, tmp'[j] # NoFile, tmp'[j].data # Whole
                 PROVE  \/ \E u \in Threads : thr'[u].fd = "tmp" /\ thr'[u].key = j
                        \/ \A r \in Threads : thr'[r].key = j => thr'[r].pc \notin {"write", "write2", "rename"}
    BY DEF TmpTorn
  <2>2. CASE j = k BY <1>3, <1>5, <2>2
  <2>3. CASE j # k BY <1>2, <1>3, <1>5, <1>6, <2>1, <2>3 DEF TmpTorn
  <2> QED BY <2>2, <2>3
<1>13. TornIsOpenOrCut'
  <2>1. \A j \in Keys : HasOpen(j) => HasOpen(j)' BY <1>2, <1>5 DEF HasOpen
  <2> QED BY <1>1, <2>1 DEF TornIsOpenOrCut
<1> QED BY <1>7, <1>9, <1>11, <1>12, <1>13

\* What fwrite of a half does to the two files of a key.
LEMMA WrittenTo ==
  ASSUME MarksInv, FilesInv, NEW t \in Threads, thr[t].pc \in {"write", "write2"}, NEW half \in Whole,
         Written(t, half)
  PROVE  /\ DiskTyped' /\ thr[t].key \in Keys
         /\ \A k \in Keys : (tmp'[k] = NoFile <=> tmp[k] = NoFile) /\ (file'[k] = NoFile <=> file[k] = NoFile)
         /\ thr[t].fd = "tmp" => /\ tmp'[thr[t].key].data = tmp[thr[t].key].data \cup {half}
                                 /\ \A k \in Keys : k # thr[t].key => tmp'[k] = tmp[k]
         /\ thr[t].fd # "tmp" => tmp' = tmp
         /\ thr[t].fd = "file" => /\ file'[thr[t].key].data = file[thr[t].key].data \cup {half}
                                  /\ file'[thr[t].key].cut = file[thr[t].key].cut
                                  /\ \A k \in Keys : k # thr[t].key => file'[k] = file[k]
         /\ thr[t].fd # "file" => file' = file
<1> USE DEF FilesInv
<1>1. PICK k : k = thr[t].key OBVIOUS
<1>2. k \in Keys BY <1>1, KeyOf
<1>3. ASSUME NEW g, g \in [Keys -> Files \cup {NoFile}], g[k] # NoFile, NEW h, h = [g EXCEPT ![k].data = @ \cup {half}]
      PROVE  /\ h \in [Keys -> Files \cup {NoFile}] /\ h[k] # NoFile
             /\ h[k].data = g[k].data \cup {half} /\ h[k].cut = g[k].cut
             /\ \A j \in Keys : j # k => h[j] = g[j]
  <2>1. PICK f : f = g[k] OBVIOUS
  <2>2. f \in Files BY <1>2, <1>3, <2>1
  <2>3. PICK e : e = [f EXCEPT !.data = @ \cup {half}] OBVIOUS
  <2>4. e = [data |-> f.data \cup {half}, cut |-> f.cut] BY <2>2, <2>3 DEF Files
  <2>5. e \in Files /\ e # NoFile /\ e.data = f.data \cup {half} /\ e.cut = f.cut
    BY <2>2, <2>4, FileIsThere DEF Files
  <2>6. h = [g EXCEPT ![k] = e] BY <1>3, <2>1, <2>3
  <2> QED BY <1>2, <1>3, <2>1, <2>5, <2>6
<1>4. CASE thr[t].fd = "tmp"
  <2>1. tmp' = [tmp EXCEPT ![k].data = @ \cup {half}] /\ file' = file BY <1>1, <1>4 DEF Written
  <2>2. tmp[k] # NoFile /\ tmp \in [Keys -> Files \cup {NoFile}] BY <1>1, <1>4 DEF Hands, DiskTyped
  <2>3. /\ tmp' \in [Keys -> Files \cup {NoFile}] /\ tmp'[k] # NoFile
        /\ tmp'[k].data = tmp[k].data \cup {half} /\ \A j \in Keys : j # k => tmp'[j] = tmp[j]
    BY <1>3, <2>1, <2>2
  <2>4. DiskTyped' BY <2>1, <2>3 DEF DiskTyped
  <2>5. \A j \in Keys : tmp'[j] = NoFile <=> tmp[j] = NoFile BY <2>2, <2>3
  <2> QED BY <1>1, <1>2, <1>4, <2>1, <2>3, <2>4, <2>5
<1>5. CASE thr[t].fd = "file"
  <2>1. file' = [file EXCEPT ![k].data = @ \cup {half}] /\ tmp' = tmp BY <1>1, <1>5 DEF Written
  <2>2. file[k] # NoFile /\ file \in [Keys -> Files \cup {NoFile}] BY <1>1, <1>5 DEF Hands, DiskTyped
  <2>3. /\ file' \in [Keys -> Files \cup {NoFile}] /\ file'[k] # NoFile /\ file'[k].cut = file[k].cut
        /\ file'[k].data = file[k].data \cup {half} /\ \A j \in Keys : j # k => file'[j] = file[j]
    BY <1>3, <2>1, <2>2
  <2>4. DiskTyped' BY <2>1, <2>3 DEF DiskTyped
  <2>5. \A j \in Keys : file'[j] = NoFile <=> file[j] = NoFile BY <2>2, <2>3
  <2> QED BY <1>1, <1>2, <1>5, <2>1, <2>3, <2>4, <2>5
<1>6. CASE thr[t].fd \notin {"tmp", "file"}
  <2>1. tmp' = tmp /\ file' = file BY <1>6 DEF Written
  <2>2. DiskTyped' BY <2>1 DEF DiskTyped
  <2> QED BY <1>1, <1>2, <1>6, <2>1, <2>2
<1> QED BY <1>4, <1>5, <1>6

\* Writing the first half.
LEMMA WriteDisk ==
  ASSUME MarksInv, FilesInv, NEW t \in Threads, Write(t)
  PROVE  FilesInv'
<1> USE DEF FilesInv
<1>1. PICK k, fd, c : k = thr[t].key /\ fd = thr[t].fd /\ c = Place("write2", k, fd, TRUE) OBVIOUS
<1>2. thr[t].pc = "write" /\ Written(t, 1) /\ thr' = [thr EXCEPT ![t] = c]
  BY <1>1 DEF Write, At, Goto
<1>3. 1 \in Whole BY DEF Whole
<1>4. /\ DiskTyped' /\ k \in Keys
      /\ \A j \in Keys : (tmp'[j] = NoFile <=> tmp[j] = NoFile) /\ (file'[j] = NoFile <=> file[j] = NoFile)
      /\ fd = "tmp" => tmp'[k].data = tmp[k].data \cup {1} /\ \A j \in Keys : j # k => tmp'[j] = tmp[j]
      /\ fd # "tmp" => tmp' = tmp
      /\ fd = "file" => /\ file'[k].data = file[k].data \cup {1} /\ file'[k].cut = file[k].cut
                        /\ \A j \in Keys : j # k => file'[j] = file[j]
      /\ fd # "file" => file' = file
  BY <1>1, <1>2, <1>3, WrittenTo
<1>5. c.pc = "write2" /\ c.key = k /\ c.fd = fd BY <1>1 DEF Place
<1>6. thr'[t] = c /\ \A r \in Threads : r # t => thr'[r] = thr[r] BY <1>2 DEF MarksInv, Typed
<1>7. \A r \in Threads : thr[r].fd # "none" => thr[r].key \in Keys BY KeyOf DEF Hands
<1>8. \A r \in Threads : thr'[r].fd = thr[r].fd /\ thr'[r].key = thr[r].key BY <1>1, <1>5, <1>6
<1>9. Hands' BY <1>2, <1>4, <1>5, <1>6, <1>7, <1>8 DEF Hands
<1>10. Begun'
  <2>1. SUFFICES ASSUME NEW r \in Threads, thr'[r].pc = "write2", NEW j, j = thr'[r].key
                 PROVE  /\ thr'[r].fd = "tmp" => 1 \in tmp'[j].data \/ Begins(j, "tmp")'
                        /\ thr'[r].fd = "file" =>
                             1 \in file'[j].data \/ file'[j].cut \/ Begins(j, "file")'
    BY DEF Begun, Begins
  <2>2. CASE r = t BY <1>4, <1>5, <1>6, <2>1, <2>2
  <2>3. CASE r # t
    <3>1. /\ thr[r].fd = "tmp" => 1 \in tmp[j].data \/ Begins(j, "tmp")
          /\ thr[r].fd = "file" => 1 \in file[j].data \/ file[j].cut \/ Begins(j, "file")
      BY <1>6, <2>1, <2>3 DEF Begun
    <3>2. thr[r].fd # "none" => j \in Keys BY <1>7, <1>8, <2>1
    <3>3. thr[r].fd = "tmp" /\ 1 \in tmp[j].data => 1 \in tmp'[j].data BY <1>4, <3>2
    <3>4. thr[r].fd = "file" /\ (1 \in file[j].data \/ file[j].cut) => 1 \in file'[j].data \/ file'[j].cut
      BY <1>4, <3>2
    <3>5. Begins(j, "tmp") => 1 \in tmp'[j].data \/ Begins(j, "tmp")'
      BY <1>1, <1>4, <1>6 DEF Begins
    <3>6. Begins(j, "file") => 1 \in file'[j].data \/ Begins(j, "file")'
      BY <1>1, <1>4, <1>6 DEF Begins
    <3> QED BY <1>8, <3>1, <3>3, <3>4, <3>5, <3>6
  <2> QED BY <2>2, <2>3
<1>11. TmpTorn'
  <2>1. SUFFICES ASSUME NEW j \in Keys, tmp'[j] # NoFile, tmp'[j].data # Whole
                 PROVE  \/ \E u \in Threads : thr'[u].fd = "tmp" /\ thr'[u].key = j
                        \/ \A r \in Threads : thr'[r].key = j => thr'[r].pc \notin {"write", "write2", "rename"}
    BY DEF TmpTorn
  <2>2. CASE j = k /\ fd = "tmp" BY <1>5, <1>6, <2>2
  <2>3. CASE ~(j = k /\ fd = "tmp")
    <3>1. tmp'[j] = tmp[j] BY <1>4, <2>3
    <3>2. \/ \E u \in Threads : thr[u].fd = "tmp" /\ thr[u].key = j
          \/ \A r \in Threads : thr[r].key = j => thr[r].pc \notin {"write", "write2", "rename"}
      BY <2>1, <3>1 DEF TmpTorn
    <3> QED BY <1>1, <1>2, <1>6, <1>8, <3>2
  <2> QED BY <2>2, <2>3
<1>12. TornIsOpenOrCut'
  <2>1. SUFFICES ASSUME NEW j \in Keys, file'[j] # NoFile, file'[j].data # Whole
                 PROVE  HasOpen(j)' \/ file'[j].cut
    BY DEF TornIsOpenOrCut
  <2>2. HasOpen(j) => HasOpen(j)' BY <1>8 DEF HasOpen
  <2>3. CASE j = k /\ fd = "file" BY <1>5, <1>6, <2>3 DEF HasOpen
  <2>4. CASE ~(j = k /\ fd = "file")
    <3>1. file'[j] = file[j] BY <1>4, <2>4
    <3> QED BY <2>1, <2>2, <3>1 DEF TornIsOpenOrCut
  <2> QED BY <2>3, <2>4
<1> QED BY <1>4, <1>9, <1>10, <1>11, <1>12

\* Writing the second, after which the file is whole unless another has begun.
LEMMA WriteRestDisk ==
  ASSUME MarksInv, FilesInv, NEW t \in Threads, WriteRest(t)
  PROVE  FilesInv'
<1> USE DEF FilesInv
<1>1. PICK k, fd, c : k = thr[t].key /\ fd = thr[t].fd /\ c = Doing("rename", k) OBVIOUS
<1>2. thr[t].pc = "write2" /\ Written(t, 2) /\ thr' = [thr EXCEPT ![t] = c]
  BY <1>1 DEF WriteRest, At
<1>3. 2 \in Whole BY DEF Whole
<1>4. /\ DiskTyped' /\ k \in Keys
      /\ \A j \in Keys : (tmp'[j] = NoFile <=> tmp[j] = NoFile) /\ (file'[j] = NoFile <=> file[j] = NoFile)
      /\ fd = "tmp" => tmp'[k].data = tmp[k].data \cup {2} /\ \A j \in Keys : j # k => tmp'[j] = tmp[j]
      /\ fd # "tmp" => tmp' = tmp
      /\ fd = "file" => /\ file'[k].data = file[k].data \cup {2} /\ file'[k].cut = file[k].cut
                        /\ \A j \in Keys : j # k => file'[j] = file[j]
      /\ fd # "file" => file' = file
  BY <1>1, <1>2, <1>3, WrittenTo
<1>5. c.pc = "rename" /\ c.key = k /\ c.fd = "none" BY <1>1, PlaceIs
<1>6. thr'[t] = c /\ \A r \in Threads : r # t => thr'[r] = thr[r] BY <1>2 DEF MarksInv, Typed
<1>7. \A r \in Threads : thr[r].fd # "none" => thr[r].key \in Keys BY KeyOf DEF Hands
<1>8. \A r \in Threads : thr'[r].key = thr[r].key BY <1>1, <1>5, <1>6
<1>9. Hands' BY <1>4, <1>5, <1>6, <1>7 DEF Hands
<1>10. ASSUME NEW j, NEW n, Begins(j, n)
       PROVE  Begins(j, n)' /\ \E u \in Threads : u # t /\ thr'[u].fd = n /\ thr'[u].key = j
  <2>1. PICK u \in Threads : thr[u].pc = "write" /\ thr[u].fd = n /\ thr[u].key = j BY <1>10 DEF Begins
  <2>2. u # t BY <1>2, <2>1
  <2> QED BY <1>6, <2>1, <2>2 DEF Begins
<1>11. Begun'
  <2>1. SUFFICES ASSUME NEW r \in Threads, thr'[r].pc = "write2", NEW j, j = thr'[r].key
                 PROVE  /\ thr'[r].fd = "tmp" => 1 \in tmp'[j].data \/ Begins(j, "tmp")'
                        /\ thr'[r].fd = "file" =>
                             1 \in file'[j].data \/ file'[j].cut \/ Begins(j, "file")'
    BY DEF Begun, Begins
  <2>2. r # t /\ thr'[r] = thr[r] BY <1>5, <1>6, <2>1
  <2>3. /\ thr[r].fd = "tmp" => 1 \in tmp[j].data \/ Begins(j, "tmp")
        /\ thr[r].fd = "file" => 1 \in file[j].data \/ file[j].cut \/ Begins(j, "file")
    BY <2>1, <2>2 DEF Begun
  <2>4. thr[r].fd # "none" => j \in Keys BY <1>7, <2>1, <2>2
  <2>5. thr[r].fd = "tmp" /\ 1 \in tmp[j].data => 1 \in tmp'[j].data BY <1>4, <2>4
  <2>6. thr[r].fd = "file" /\ (1 \in file[j].data \/ file[j].cut) => 1 \in file'[j].data \/ file'[j].cut
    BY <1>4, <2>4
  <2> QED BY <1>10, <2>2, <2>3, <2>5, <2>6
<1>12. ASSUME NEW d, d \subseteq Whole, d \cup {2} # Whole PROVE 1 \notin d BY <1>12 DEF Whole
<1>13. \A g \in Files : g.data \subseteq Whole BY DEF Files
<1>14. TmpTorn'
  <2>1. SUFFICES ASSUME NEW j \in Keys, tmp'[j] # NoFile, tmp'[j].data # Whole
                 PROVE  \/ \E u \in Threads : thr'[u].fd = "tmp" /\ thr'[u].key = j
                        \/ \A r \in Threads : thr'[r].key = j => thr'[r].pc \notin {"write", "write2", "rename"}
    BY DEF TmpTorn
  <2>2. CASE j = k /\ fd = "tmp"
    <3>1. tmp[k] \in Files BY <1>4, <2>1, <2>2 DEF DiskTyped
    <3>2. 1 \notin tmp[k].data BY <1>4, <1>12, <1>13, <2>1, <2>2, <3>1
    <3>3. Begins(k, "tmp") BY <1>1, <1>2, <2>2, <3>2 DEF Begun
    <3> QED BY <1>10, <2>2, <3>3
  <2>3. CASE ~(j = k /\ fd = "tmp")
    <3>1. tmp'[j] = tmp[j] BY <1>4, <2>3
    <3>2. \/ \E u \in Threads : thr[u].fd = "tmp" /\ thr[u].key = j
          \/ \A r \in Threads : thr[r].key = j => thr[r].pc \notin {"write", "write2", "rename"}
      BY <2>1, <3>1 DEF TmpTorn
    <3> QED BY <1>1, <1>2, <1>6, <1>8, <2>3, <3>2
  <2> QED BY <2>2, <2>3
<1>15. TornIsOpenOrCut'
  <2>1. SUFFICES ASSUME NEW j \in Keys, file'[j] # NoFile, file'[j].data # Whole
                 PROVE  HasOpen(j)' \/ file'[j].cut
    BY DEF TornIsOpenOrCut
  <2>2. CASE j = k /\ fd = "file"
    <3>1. file[k] \in Files BY <1>4, <2>1, <2>2 DEF DiskTyped
    <3>2. 1 \notin file[k].data BY <1>4, <1>12, <1>13, <2>1, <2>2, <3>1
    <3>3. Begins(k, "file") \/ file[k].cut BY <1>1, <1>2, <2>2, <3>2 DEF Begun
    <3>4. Begins(k, "file") => HasOpen(k)' BY <1>10 DEF HasOpen
    <3> QED BY <1>4, <2>2, <3>3, <3>4
  <2>3. CASE ~(j = k /\ fd = "file")
    <3>1. file'[j] = file[j] BY <1>4, <2>3
    <3>2. HasOpen(j) => HasOpen(j)' BY <1>1, <1>6, <2>3 DEF HasOpen
    <3> QED BY <2>1, <3>1, <3>2 DEF TornIsOpenOrCut
  <2> QED BY <2>2, <2>3
<1> QED BY <1>4, <1>9, <1>11, <1>14, <1>15

\* A name stays with its writers, or is taken from all of them.
Kept(t, k, n) ==
  /\ thr[t].key = k => thr[t].fd # n
  /\ \A r \in Threads : r # t /\ thr[r].key = k => (thr'[r].fd = n <=> thr[r].fd = n)
Taken(k, n) == \A r \in Threads : thr'[r].key = k => thr'[r].fd # n

\* A thread ends its write; names may be taken away from the others.
LEMMA NamesTaken ==
  ASSUME MarksInv, FilesInv, DiskTyped', NEW t \in Threads,
         thr'[t].fd = "none", thr'[t].pc \notin {"write", "write2", "rename"},
         \A r \in Threads : r # t =>
           /\ thr'[r].pc = thr[r].pc /\ thr'[r].key = thr[r].key
           /\ thr'[r].fd = "none" <=> thr[r].fd = "none",
         \A k \in Keys :
           \/ tmp'[k] = NoFile /\ Taken(k, "tmp")
           \/ tmp'[k] = tmp[k] /\ Kept(t, k, "tmp"),
         \A k \in Keys :
           \/ file'[k] = NoFile /\ Taken(k, "file")
           \/ file'[k] = file[k] /\ Kept(t, k, "file")
           \/ file'[k] # NoFile /\ file'[k].cut
  PROVE  FilesInv'
<1> USE DEF FilesInv
<1>1. \A r \in Threads : r # t /\ thr'[r].fd # "none" => thr'[r].key \in Keys
  BY KeyOf DEF Hands
<1>2. ASSUME NEW r \in Threads, thr'[r].fd = "tmp", NEW j, j = thr'[r].key
      PROVE  r # t /\ thr[r].fd = "tmp" /\ j \in Keys /\ tmp'[j] = tmp[j] /\ Kept(t, j, "tmp")
  <2>1. r # t /\ j \in Keys BY <1>1, <1>2
  <2>2. tmp'[j] = tmp[j] /\ Kept(t, j, "tmp") BY <1>2, <2>1 DEF Taken
  <2>3. thr[r].fd = "tmp" BY <1>2, <2>1, <2>2 DEF Kept
  <2> QED BY <2>1, <2>2, <2>3
<1>3. ASSUME NEW r \in Threads, thr'[r].fd = "file", NEW j, j = thr'[r].key
      PROVE  /\ r # t /\ j \in Keys
             /\ \/ thr[r].fd = "file" /\ file'[j] = file[j] /\ Kept(t, j, "file")
                \/ file'[j] # NoFile /\ file'[j].cut
  <2>1. r # t /\ j \in Keys BY <1>1, <1>3
  <2>2. CASE file'[j] = NoFile /\ Taken(j, "file") BY <1>3, <2>2 DEF Taken
  <2>3. CASE file'[j] = file[j] /\ Kept(t, j, "file") BY <1>3, <2>1, <2>3 DEF Kept
  <2>4. CASE file'[j] # NoFile /\ file'[j].cut BY <2>1, <2>4
  <2> QED BY <2>1, <2>2, <2>3, <2>4
<1>4. Hands'
  <2>1. ASSUME NEW r \in Threads PROVE thr'[r].fd # "none" <=> thr'[r].pc \in {"write", "write2"}
    BY DEF Hands
  <2>2. ASSUME NEW r \in Threads, thr'[r].fd = "tmp" PROVE tmp'[thr'[r].key] # NoFile
    BY <1>2, <2>2 DEF Hands
  <2>3. ASSUME NEW r \in Threads, thr'[r].fd = "file" PROVE file'[thr'[r].key] # NoFile
    BY <1>3, <2>3 DEF Hands
  <2> QED BY <2>1, <2>2, <2>3 DEF Hands
<1>5. ASSUME NEW j \in Keys, NEW n, Begins(j, n), Kept(t, j, n) PROVE Begins(j, n)'
  <2>1. PICK u \in Threads : thr[u].pc = "write" /\ thr[u].fd = n /\ thr[u].key = j BY <1>5 DEF Begins
  <2>2. u # t /\ thr'[u].fd = n BY <1>5, <2>1 DEF Kept
  <2> QED BY <2>1, <2>2 DEF Begins
<1>6. Begun'
  <2>1. SUFFICES ASSUME NEW r \in Threads, thr'[r].pc = "write2", NEW j, j = thr'[r].key
                 PROVE  /\ thr'[r].fd = "tmp" => 1 \in tmp'[j].data \/ Begins(j, "tmp")'
                        /\ thr'[r].fd = "file" =>
                             1 \in file'[j].data \/ file'[j].cut \/ Begins(j, "file")'
    BY DEF Begun, Begins
  <2>2. r # t /\ thr[r].pc = "write2" /\ thr[r].key = j BY <2>1
  <2>3. ASSUME thr'[r].fd = "tmp" PROVE 1 \in tmp'[j].data \/ Begins(j, "tmp")'
    <3>1. thr[r].fd = "tmp" /\ j \in Keys /\ tmp'[j] = tmp[j] /\ Kept(t, j, "tmp") BY <1>2, <2>1, <2>3
    <3>2. 1 \in tmp[j].data \/ Begins(j, "tmp") BY <2>2, <3>1 DEF Begun
    <3> QED BY <1>5, <3>1, <3>2
  <2>4. ASSUME thr'[r].fd = "file" PROVE 1 \in file'[j].data \/ file'[j].cut \/ Begins(j, "file")'
    <3>1. CASE thr[r].fd = "file" /\ j \in Keys /\ file'[j] = file[j] /\ Kept(t, j, "file")
      <4>1. 1 \in file[j].data \/ file[j].cut \/ Begins(j, "file") BY <2>2, <3>1 DEF Begun
      <4> QED BY <1>5, <3>1, <4>1
    <3>2. CASE file'[j].cut BY <3>2
    <3> QED BY <1>3, <2>1, <2>4, <3>1, <3>2
  <2> QED BY <2>3, <2>4
<1>7. TmpTorn'
  <2>1. SUFFICES ASSUME NEW j \in Keys, tmp'[j] # NoFile, tmp'[j].data # Whole
                 PROVE  \/ \E u \in Threads : thr'[u].fd = "tmp" /\ thr'[u].key = j
                        \/ \A r \in Threads : thr'[r].key = j => thr'[r].pc \notin {"write", "write2", "rename"}
    BY DEF TmpTorn
  <2>2. tmp'[j] = tmp[j] /\ Kept(t, j, "tmp") BY <2>1
  <2>3. CASE \E u \in Threads : thr[u].fd = "tmp" /\ thr[u].key = j
    <3>1. PICK u \in Threads : thr[u].fd = "tmp" /\ thr[u].key = j BY <2>3
    <3>2. u # t /\ thr'[u].fd = "tmp" BY <2>2, <3>1 DEF Kept
    <3> QED BY <3>1, <3>2
  <2>4. CASE \A r \in Threads : thr[r].key = j => thr[r].pc \notin {"write", "write2", "rename"} BY <2>4
  <2> QED BY <2>1, <2>2, <2>3, <2>4 DEF TmpTorn
<1>8. TornIsOpenOrCut'
  <2>1. SUFFICES ASSUME NEW j \in Keys, file'[j] # NoFile, file'[j].data # Whole, ~file'[j].cut
                 PROVE  HasOpen(j)'
    BY DEF TornIsOpenOrCut
  <2>2. file'[j] = file[j] /\ Kept(t, j, "file") BY <2>1
  <2>3. PICK u \in Threads : thr[u].fd = "file" /\ thr[u].key = j
    BY <2>1, <2>2 DEF TornIsOpenOrCut, HasOpen
  <2>4. u # t /\ thr'[u].fd = "file" BY <2>2, <2>3 DEF Kept
  <2> QED BY <2>3, <2>4 DEF HasOpen
<1> QED BY <1>4, <1>6, <1>7, <1>8

\* A thread whose open file loses its name goes on with a lost one.
LEMMA UnlinkedIs ==
  ASSUME NEW r, NEW gone, NEW goneTmp, NEW c, c = Unlinked(r, gone, goneTmp)
  PROVE  /\ c.pc = thr[r].pc /\ c.key = thr[r].key
         /\ c.fd = IF \/ thr[r].fd = "file" /\ thr[r].key \in gone
                      \/ thr[r].fd = "tmp" /\ thr[r].key \in goneTmp
                   THEN "lost" ELSE thr[r].fd
<1>1. CASE \/ thr[r].fd = "file" /\ thr[r].key \in gone
           \/ thr[r].fd = "tmp" /\ thr[r].key \in goneTmp
  BY <1>1 DEF Unlinked, Place
<1>2. CASE ~(\/ thr[r].fd = "file" /\ thr[r].key \in gone
             \/ thr[r].fd = "tmp" /\ thr[r].key \in goneTmp)
  BY <1>2 DEF Unlinked
<1> QED BY <1>1, <1>2

\* Where a thread goes after its write has failed or ended.
LEMMA ResumedIs ==
  ASSUME NEW t PROVE Resumed(t).fd = "none" /\ Resumed(t).pc \in {"idle", "finish"}
BY PlaceIs DEF Resumed

\* A write that fails takes the temporary name away, and cuts the file that it
\* goes by the name of.
LEMMA FailDisk ==
  ASSUME MarksInv, FilesInv, NEW t \in Threads, WriteFails(t)
  PROVE  FilesInv'
<1>1. PICK k : k = thr[t].key OBVIOUS
<1>2. /\ thr[t].pc \in {"write", "write2"} /\ tmp' = [tmp EXCEPT ![k] = NoFile]
      /\ file' = IF thr[t].fd = "file" THEN [file EXCEPT ![k].cut = TRUE] ELSE file
      /\ thr' = [r \in Threads |-> IF r = t THEN Resumed(t) ELSE Unlinked(r, {}, {k})]
  BY <1>1 DEF WriteFails, Failed, At
<1>3. k \in Keys BY <1>1, <1>2, KeyOf
<1>4. thr'[t].fd = "none" /\ thr'[t].pc \notin {"write", "write2", "rename"}
  BY <1>2, ResumedIs
<1>5. ASSUME NEW r \in Threads, r # t
      PROVE  /\ thr'[r].pc = thr[r].pc /\ thr'[r].key = thr[r].key
             /\ thr'[r].fd = IF thr[r].fd = "tmp" /\ thr[r].key = k THEN "lost" ELSE thr[r].fd
  <2>1. thr'[r] = Unlinked(r, {}, {k}) BY <1>2, <1>5
  <2> QED BY <2>1, UnlinkedIs
<1>6. tmp' \in [Keys -> Files \cup {NoFile}] /\ tmp'[k] = NoFile /\ \A j \in Keys : j # k => tmp'[j] = tmp[j]
  BY <1>2, <1>3 DEF FilesInv, DiskTyped
<1>7. \A j \in Keys : \/ tmp'[j] = NoFile /\ Taken(j, "tmp")
                      \/ tmp'[j] = tmp[j] /\ Kept(t, j, "tmp")
  <2>1. Taken(k, "tmp") BY <1>4, <1>5 DEF Taken
  <2>2. ASSUME NEW j \in Keys, j # k PROVE Kept(t, j, "tmp") BY <1>1, <1>5, <2>2 DEF Kept
  <2> QED BY <1>6, <2>1, <2>2
<1>8. \A j \in Keys : \/ file'[j] = NoFile /\ Taken(j, "file")
                      \/ file'[j] = file[j] /\ Kept(t, j, "file")
                      \/ file'[j] # NoFile /\ file'[j].cut
  <2>1. ASSUME NEW j \in Keys, ~(thr[t].fd = "file" /\ j = k) PROVE file'[j] = file[j] /\ Kept(t, j, "file")
    <3>1. file'[j] = file[j] BY <1>2, <1>3, <2>1 DEF FilesInv, DiskTyped
    <3> QED BY <1>1, <1>5, <2>1, <3>1 DEF Kept
  <2>2. ASSUME thr[t].fd = "file" PROVE file'[k] # NoFile /\ file'[k].cut
    <3>1. PICK f : f = file[k] OBVIOUS
    <3>2. f \in Files BY <1>1, <1>3, <2>2, <3>1 DEF FilesInv, DiskTyped, Hands
    <3>3. PICK e : e = [f EXCEPT !.cut = TRUE] OBVIOUS
    <3>4. e = [data |-> f.data, cut |-> TRUE] BY <3>2, <3>3 DEF Files
    <3>5. e \in Files /\ e.cut BY <3>2, <3>4 DEF Files
    <3>6. file' = [file EXCEPT ![k] = e] BY <1>2, <2>2, <3>1, <3>3
    <3>7. file'[k] = e BY <1>3, <3>6 DEF FilesInv, DiskTyped
    <3> QED BY <3>5, <3>7, FileIsThere
  <2> QED BY <2>1, <2>2
<1>9. file' \in [Keys -> Files \cup {NoFile}]
  <2>1. CASE thr[t].fd = "file"
    <3>1. PICK f : f = file[k] OBVIOUS
    <3>2. f \in Files BY <1>1, <1>3, <2>1, <3>1 DEF FilesInv, DiskTyped, Hands
    <3>3. PICK e : e = [f EXCEPT !.cut = TRUE] OBVIOUS
    <3>4. e = [data |-> f.data, cut |-> TRUE] BY <3>2, <3>3 DEF Files
    <3>5. e \in Files BY <3>2, <3>4 DEF Files
    <3>6. file' = [file EXCEPT ![k] = e] BY <1>2, <2>1, <3>1, <3>3
    <3> QED BY <1>3, <3>5, <3>6 DEF FilesInv, DiskTyped
  <2>2. CASE thr[t].fd # "file" BY <1>2, <2>2 DEF FilesInv, DiskTyped
  <2> QED BY <2>1, <2>2
<1>10. DiskTyped' BY <1>6, <1>9 DEF DiskTyped
<1> QED BY <1>4, <1>5, <1>7, <1>8, <1>10, NamesTaken

\* prune_disk.
LEMMA PruneDisk ==
  ASSUME MarksInv, FilesInv, NEW t \in Threads, Prune(t)
  PROVE  FilesInv'
<1>1. PICK gone \in SUBSET Keys, goneTmp \in SUBSET Keys :
        /\ file' = [k \in Keys |-> IF k \in gone THEN NoFile ELSE file[k]]
        /\ tmp' = [k \in Keys |-> IF k \in goneTmp THEN NoFile ELSE tmp[k]]
        /\ thr' = [r \in Threads |-> IF r = t THEN Resumed(t) ELSE Unlinked(r, gone, goneTmp)]
  BY DEF Prune
<1>2. thr[t].pc = "prune" /\ thr[t].fd = "none" BY DEF Prune, At, FilesInv, Hands
<1>3. thr'[t].fd = "none" /\ thr'[t].pc \notin {"write", "write2", "rename"}
  BY <1>1, ResumedIs
<1>4. ASSUME NEW r \in Threads, r # t
      PROVE  /\ thr'[r].pc = thr[r].pc /\ thr'[r].key = thr[r].key
             /\ thr'[r].fd = IF \/ thr[r].fd = "file" /\ thr[r].key \in gone
                                \/ thr[r].fd = "tmp" /\ thr[r].key \in goneTmp
                             THEN "lost" ELSE thr[r].fd
  <2>1. thr'[r] = Unlinked(r, gone, goneTmp) BY <1>1, <1>4
  <2> QED BY <2>1, UnlinkedIs
<1>5. DiskTyped' BY <1>1 DEF FilesInv, DiskTyped
<1>6. ASSUME NEW j \in Keys
      PROVE  /\ \/ tmp'[j] = NoFile /\ Taken(j, "tmp")
                \/ tmp'[j] = tmp[j] /\ Kept(t, j, "tmp")
             /\ \/ file'[j] = NoFile /\ Taken(j, "file")
                \/ file'[j] = file[j] /\ Kept(t, j, "file")
  <2>1. j \in goneTmp => tmp'[j] = NoFile /\ Taken(j, "tmp") BY <1>1, <1>3, <1>4 DEF Taken
  <2>2. j \notin goneTmp => tmp'[j] = tmp[j] /\ Kept(t, j, "tmp") BY <1>1, <1>2, <1>4 DEF Kept
  <2>3. j \in gone => file'[j] = NoFile /\ Taken(j, "file") BY <1>1, <1>3, <1>4 DEF Taken
  <2>4. j \notin gone => file'[j] = file[j] /\ Kept(t, j, "file") BY <1>1, <1>2, <1>4 DEF Kept
  <2> QED BY <2>1, <2>2, <2>3, <2>4
<1> QED BY <1>3, <1>4, <1>5, <1>6, NamesTaken

\* A rename gives the threads at the temporary file the final name, and those at the
\* file that was there a lost one.
LEMMA RenamedIs ==
  ASSUME NEW r, NEW k, NEW c, c = Renamed(r, k)
  PROVE  /\ c.pc = thr[r].pc /\ c.key = thr[r].key
         /\ thr[r].key # k => c.fd = thr[r].fd
         /\ thr[r].key = k => c.fd = IF thr[r].fd = "file" THEN "lost"
                                     ELSE IF thr[r].fd = "tmp" THEN "file" ELSE thr[r].fd
<1>1. PICK d : d = Unlinked(r, {k}, {}) OBVIOUS
<1>2. /\ d.pc = thr[r].pc /\ d.key = thr[r].key
      /\ d.fd = IF thr[r].fd = "file" /\ thr[r].key = k THEN "lost" ELSE thr[r].fd
  BY <1>1, UnlinkedIs
<1>3. c = IF d.key = k /\ d.fd = "tmp" THEN Place(d.pc, k, "file", d.whole) ELSE d
  BY <1>1 DEF Renamed
<1>4. CASE d.key = k /\ d.fd = "tmp"
  <2>1. c = Place(d.pc, k, "file", d.whole) BY <1>3, <1>4
  <2>2. c.pc = d.pc /\ c.key = k /\ c.fd = "file" BY <2>1, PlaceIs
  <2> QED BY <1>2, <1>4, <2>2
<1>5. CASE ~(d.key = k /\ d.fd = "tmp") BY <1>2, <1>3, <1>5
<1> QED BY <1>4, <1>5

\* g_rename: the temporary file becomes the file, and its writers go on in it.
LEMMA RenameDisk ==
  ASSUME MarksInv, FilesInv, NEW t \in Threads, Rename(t)
  PROVE  FilesInv'
<1> USE DEF FilesInv
<1>1. PICK k : k = thr[t].key OBVIOUS
<1>2. thr[t].pc = "rename" /\ thr[t].fd = "none" /\ k \in Keys BY <1>1, KeyOf DEF Rename, At, Hands
<1>3. PICK c : c = AfterRename(t) OBVIOUS
<1>4. c = Doing("prune", k) \/ c = Resumed(t) BY <1>1, <1>3 DEF AfterRename
<1>5. c.fd = "none" /\ c.pc \notin {"write", "write2", "rename"} BY <1>4, PlaceIs, ResumedIs
<1>6. CASE tmp[k] = NoFile
  <2>1. thr' = [thr EXCEPT ![t] = c] /\ UNCHANGED disk BY <1>1, <1>3, <1>6 DEF Rename
  <2> QED BY <1>2, <1>5, <2>1, QuietOne
<1>7. CASE tmp[k] # NoFile
  <2>1. /\ file' = [file EXCEPT ![k] = tmp[k]] /\ tmp' = [tmp EXCEPT ![k] = NoFile]
        /\ thr' = [r \in Threads |-> IF r = t THEN c ELSE Renamed(r, k)]
    BY <1>1, <1>3, <1>7 DEF Rename
  <2>2. /\ file'[k] = tmp[k] /\ tmp'[k] = NoFile
        /\ \A j \in Keys : j # k => file'[j] = file[j] /\ tmp'[j] = tmp[j]
    BY <1>2, <2>1 DEF DiskTyped
  <2>3. DiskTyped' BY <1>2, <2>1 DEF DiskTyped
  <2>4. thr'[t] = c BY <2>1
  <2>5. ASSUME NEW r \in Threads, r # t
        PROVE  /\ thr'[r].pc = thr[r].pc /\ thr'[r].key = thr[r].key
               /\ thr[r].key # k => thr'[r].fd = thr[r].fd
               /\ thr[r].key = k => thr'[r].fd = IF thr[r].fd = "file" THEN "lost"
                                                ELSE IF thr[r].fd = "tmp" THEN "file" ELSE thr[r].fd
    <3>1. thr'[r] = Renamed(r, k) BY <2>1, <2>5
    <3> QED BY <3>1, RenamedIs
  <2>6. \A r \in Threads : thr[r].fd # "none" => thr[r].key \in Keys BY KeyOf DEF Hands
  <2>7. ASSUME NEW r \in Threads, thr'[r].fd # "none"
        PROVE  r # t /\ thr[r].fd # "none" /\ thr'[r].key = thr[r].key /\ thr[r].key \in Keys
    BY <1>5, <2>4, <2>5, <2>6, <2>7
  <2>8. Hands'
    <3>1. ASSUME NEW r \in Threads PROVE thr'[r].fd # "none" <=> thr'[r].pc \in {"write", "write2"}
      <4>1. CASE r = t BY <1>5, <2>4, <4>1
      <4>2. CASE r # t
        <5>1. thr'[r].fd = "none" <=> thr[r].fd = "none" BY <2>5, <4>2
        <5> QED BY <2>5, <4>2, <5>1 DEF Hands
      <4> QED BY <4>1, <4>2
    <3>2. ASSUME NEW r \in Threads, thr'[r].fd = "tmp" PROVE tmp'[thr'[r].key] # NoFile
      BY <2>2, <2>5, <2>7, <3>2 DEF Hands
    <3>3. ASSUME NEW r \in Threads, thr'[r].fd = "file" PROVE file'[thr'[r].key] # NoFile
      BY <1>7, <2>2, <2>5, <2>7, <3>3 DEF Hands
    <3> QED BY <3>1, <3>2, <3>3 DEF Hands
  <2>9. Begins(k, "tmp") => Begins(k, "file")'
    <3>1. ASSUME NEW u \in Threads, thr[u].pc = "write", thr[u].fd = "tmp", thr[u].key = k
          PROVE  thr'[u].pc = "write" /\ thr'[u].fd = "file" /\ thr'[u].key = k
      BY <1>2, <2>5, <3>1
    <3> QED BY <3>1 DEF Begins
  <2>10. ASSUME NEW j, NEW n, j # k, Begins(j, n) PROVE Begins(j, n)'
    <3>1. PICK u \in Threads : thr[u].pc = "write" /\ thr[u].fd = n /\ thr[u].key = j BY <2>10 DEF Begins
    <3>2. thr'[u].pc = "write" /\ thr'[u].fd = n /\ thr'[u].key = j BY <1>2, <2>5, <2>10, <3>1
    <3> QED BY <3>2 DEF Begins
  <2>11. Begun'
    <3>1. SUFFICES ASSUME NEW r \in Threads, thr'[r].pc = "write2", NEW j, j = thr'[r].key
                   PROVE  /\ thr'[r].fd = "tmp" => 1 \in tmp'[j].data \/ Begins(j, "tmp")'
                          /\ thr'[r].fd = "file" =>
                               1 \in file'[j].data \/ file'[j].cut \/ Begins(j, "file")'
      BY DEF Begun, Begins
    <3>2. r # t /\ thr[r].pc = "write2" /\ thr[r].key = j BY <1>5, <2>4, <2>5, <3>1
    <3>3. /\ thr[r].fd = "tmp" => 1 \in tmp[j].data \/ Begins(j, "tmp")
          /\ thr[r].fd = "file" => 1 \in file[j].data \/ file[j].cut \/ Begins(j, "file")
      BY <3>2 DEF Begun
    <3>4. CASE j = k
      <4>1. thr'[r].fd # "tmp" /\ (thr'[r].fd = "file" => thr[r].fd = "tmp") BY <2>5, <3>2, <3>4
      <4> QED BY <2>2, <2>9, <3>3, <3>4, <4>1
    <3>5. CASE j # k
      <4>1. thr'[r].fd = thr[r].fd BY <2>5, <3>2, <3>5
      <4>2. thr'[r].fd # "none" => file'[j] = file[j] /\ tmp'[j] = tmp[j] BY <2>2, <2>7, <3>2, <3>5
      <4> QED BY <2>10, <3>3, <3>5, <4>1, <4>2
    <3> QED BY <3>4, <3>5
  <2>12. TmpTorn'
    <3>1. SUFFICES ASSUME NEW j \in Keys, tmp'[j] # NoFile, tmp'[j].data # Whole
                   PROVE  \/ \E u \in Threads : thr'[u].fd = "tmp" /\ thr'[u].key = j
                          \/ \A r \in Threads : thr'[r].key = j => thr'[r].pc \notin {"write", "write2", "rename"}
      BY DEF TmpTorn
    <3>2. j # k /\ tmp'[j] = tmp[j] BY <2>2, <3>1
    <3>3. CASE \E u \in Threads : thr[u].fd = "tmp" /\ thr[u].key = j
      <4>1. PICK u \in Threads : thr[u].fd = "tmp" /\ thr[u].key = j BY <3>3
      <4>2. u # t BY <1>2, <4>1
      <4> QED BY <2>5, <3>2, <4>1, <4>2
    <3>4. CASE \A r \in Threads : thr[r].key = j => thr[r].pc \notin {"write", "write2", "rename"}
      BY <1>5, <2>4, <2>5, <3>4
    <3> QED BY <3>1, <3>2, <3>3, <3>4 DEF TmpTorn
  <2>13. TornIsOpenOrCut'
    <3>1. SUFFICES ASSUME NEW j \in Keys, file'[j] # NoFile, file'[j].data # Whole
                   PROVE  HasOpen(j)' \/ file'[j].cut
      BY DEF TornIsOpenOrCut
    <3>2. CASE j = k
      <4>1. PICK u \in Threads : thr[u].fd = "tmp" /\ thr[u].key = k
        BY <1>1, <1>2, <1>7, <2>2, <3>1, <3>2 DEF TmpTorn
      <4>2. thr'[u].fd = "file" /\ thr'[u].key = k BY <1>2, <2>5, <4>1
      <4> QED BY <3>2, <4>2 DEF HasOpen
    <3>3. CASE j # k
      <4>1. file'[j] = file[j] BY <2>2, <3>3
      <4>2. ASSUME NEW u \in Threads, thr[u].fd = "file", thr[u].key = j
            PROVE  thr'[u].fd = "file" /\ thr'[u].key = j
        BY <1>2, <2>5, <3>3, <4>2
      <4> QED BY <3>1, <4>1, <4>2 DEF TornIsOpenOrCut, HasOpen
    <3> QED BY <3>2, <3>3
  <2> QED BY <2>3, <2>8, <2>11, <2>12, <2>13
<1> QED BY <1>6, <1>7

\* The process ends, which cuts what is open.
LEMMA RestartDisk ==
  ASSUME MarksInv, FilesInv, Restart
  PROVE  FilesInv'
<1> USE DEF FilesInv
<1>1. ASSUME NEW t \in Threads PROVE thr'[t].pc = "idle" /\ thr'[t].fd = "none"
  <2>1. thr'[t] = Idle BY DEF Restart
  <2> QED BY <2>1, PlaceIs
<1>2. ASSUME NEW f \in Files, NEW e, e = [f EXCEPT !.cut = TRUE] PROVE e \in Files /\ e.cut
  <2>1. e = [data |-> f.data, cut |-> TRUE] BY <1>2 DEF Files
  <2> QED BY <2>1 DEF Files
<1>3. ASSUME NEW k \in Keys
      PROVE  \/ file'[k] = file[k] /\ ~HasOpen(k)
             \/ file'[k] \in Files /\ file'[k].cut
  <2>1. CASE HasOpen(k)
    <3>1. PICK t \in Threads : thr[t].fd = "file" /\ thr[t].key = k BY <2>1 DEF HasOpen
    <3>2. file[k] \in Files BY <3>1 DEF Hands, DiskTyped
    <3>3. file'[k] = [file[k] EXCEPT !.cut = TRUE] BY <2>1 DEF Restart
    <3> QED BY <1>2, <3>2, <3>3
  <2>2. CASE ~HasOpen(k) BY <2>2 DEF Restart
  <2> QED BY <2>1, <2>2
<1>4. DiskTyped'
  <2>1. file' = [k \in Keys |-> file'[k]] BY DEF Restart
  <2>2. \A k \in Keys : file'[k] \in Files \cup {NoFile} BY <1>3 DEF DiskTyped
  <2>3. Empty \in Files BY DEF Empty, Files
  <2>4. tmp' \in [Keys -> Files \cup {NoFile}] BY <2>3 DEF Restart
  <2> QED BY <2>1, <2>2, <2>4 DEF DiskTyped
<1>5. TornIsOpenOrCut'
  <2>1. SUFFICES ASSUME NEW k \in Keys, file'[k] # NoFile, file'[k].data # Whole PROVE file'[k].cut
    BY DEF TornIsOpenOrCut
  <2> QED BY <1>3, <2>1 DEF TornIsOpenOrCut
<1> QED BY <1>1, <1>4, <1>5 DEF Hands, Begun, TmpTorn

\* Every step keeps the files.
LEMMA DiskStep ==
  ASSUME BytecodeAssumption, MarksInv, FilesInv, [BytecodeNext]_vars
  PROVE  FilesInv'
<1>1. Engine \in Threads /\ Pool \subseteq Threads BY DEF Threads, BytecodeAssumption
<1>2. CASE UNCHANGED vars
  <2>1. UNCHANGED disk /\ thr' = thr BY <1>2 DEF vars, disk
  <2> QED BY <2>1, QuietDisk
<1>3. CASE \E t \in Readers : ReaderStep(t) \/ TimesOut(t) \/ \E k \in Keys : GetStart(t, k)
  BY <1>3, ReaderDisk
<1>4. ASSUME NEW t \in Threads, WriterStep(t) PROVE FilesInv'
  BY <1>4, OthersDisk, OpenDisk, WriteDisk, WriteRestDisk, FailDisk, RenameDisk, PruneDisk DEF WriterStep
<1>5. CASE \E t \in Pool : PoolStep(t) BY <1>1, <1>5, OthersDisk DEF PoolStep
<1>6. CASE PreMark \/ PrePush \/ (\E k \in Keys : PreCheck(k)) \/ Shutdown \/ ShutdownDone
  BY <1>1, <1>6, OthersDisk
<1>7. CASE Restart BY <1>7, RestartDisk
<1> QED BY <1>2, <1>3, <1>4, <1>5, <1>6, <1>7 DEF BytecodeNext

\* A file of the cache that is not whole is being written, or its writer failed or
\* was killed: writers of one key that share the temporary file without a lock do
\* not leave a torn one in its place (write_disk in src/src/bytecode_cache.c).
THEOREM FilesWholeOrCut == BytecodeSpec => []TornIsOpenOrCut
<1>1. BytecodeInit => MarksInv /\ FilesInv BY BytecodeAssumption, MarksInit, DiskInit
<1>2. MarksInv /\ FilesInv /\ [BytecodeNext]_vars => (MarksInv /\ FilesInv)'
  BY BytecodeAssumption, MarksStep, DiskStep
<1>3. MarksInv /\ FilesInv => TornIsOpenOrCut BY DEF FilesInv
<1> QED BY <1>1, <1>2, <1>3, PTL DEF BytecodeSpec

=============================================================================
