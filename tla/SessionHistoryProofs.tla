------------------------ MODULE SessionHistoryProofs ------------------------
(***************************************************************************)
(* Who has the pages, which entry is shown, and what becomes of forms, for *)
(* any number of urls, pages and events, and any size of the cache.        *)
(*                                                                         *)
(* Pages.  Between two steps a page is held by the session, or the cache,  *)
(* or it is closed.  Within a load one or two more pages are out of the    *)
(* cache: Held says how the pages are divided when those of a set are.     *)
(*                                                                         *)
(* Entries.  Before the first url is recorded there is neither a load that *)
(* is not to be recorded nor a frame under way: Entered.                   *)
(*                                                                         *)
(* Forms.  A body is an input that waits, or is with a page, or stashed,   *)
(* or sent, and in one place only: Split.                                  *)
(***************************************************************************)
EXTENDS SessionHistory, TLAPS, SequenceTheorems

\* The pages 1..n are the cache c, the pages out of it, and the closed ones.
Held(c, out, shut, n) ==
  /\ c \in Seq(1..n) /\ Len(c) <= CacheMax
  /\ \A i, j \in 1..Len(c) : c[i] = c[j] => i = j
  /\ out \subseteq 1..n /\ shut \subseteq 1..n /\ out \cap shut = {}
  /\ \A i \in 1..Len(c) : c[i] \notin out \cup shut
  /\ \A p \in 1..n : p \in out \cup shut \/ \E i \in 1..Len(c) : c[i] = p

Forms == [body : Nat, action : Urls, from : Nat] \cup {NoForm}
Pages == [url : Urls, pushed : BOOLEAN, dirty : BOOLEAN, nav : Urls \cup {None},
          eligible : BOOLEAN, form : Forms]

Numbered == page \in Nat /\ events \in Nat /\ pages \in Seq(Pages)
Parted   == Held(cached, {page} \ {0}, closed, Len(pages))
OwnInv   == Numbered /\ Parted

\* The invariant holds at the start.
LEMMA OwnInvInit == HistoryInit => OwnInv
BY HistoryAssumption DEF HistoryInit, OwnInv, Numbered, Parted, Held

\* It is what the property says.
LEMMA OwnInvOwned == OwnInv => PagesOwned
<1> SUFFICES ASSUME OwnInv, NEW p \in DOMAIN pages, NEW at, at = {i \in DOMAIN cached : cached[i] = p}
             PROVE  \/ p = page /\ at = {} /\ p \notin closed
                    \/ p # page /\ (\E i \in at : at = {i}) /\ p \notin closed
                    \/ p # page /\ at = {} /\ p \in closed
  BY DEF PagesOwned, OwnInv, Parted, Held
<1>1. DOMAIN pages = 1..Len(pages) /\ DOMAIN cached = 1..Len(cached) /\ p \in 1..Len(pages) /\ p # 0
  BY DEF OwnInv, Numbered, Parted, Held
<1>2. CASE p = page
  <2>1. p \in {page} \ {0} BY <1>1, <1>2
  <2> QED BY <1>1, <1>2, <2>1 DEF OwnInv, Parted, Held
<1>3. CASE p # page /\ p \in closed
  BY <1>1, <1>3 DEF OwnInv, Parted, Held
<1>4. CASE p # page /\ p \notin closed
  <2>1. PICK i \in 1..Len(cached) : cached[i] = p BY <1>1, <1>4 DEF OwnInv, Parted, Held
  <2>2. at = {i} BY <1>1, <2>1 DEF OwnInv, Parted, Held
  <2> QED BY <1>4, <2>2
<1> QED BY <1>2, <1>3, <1>4

\* Past the first of two sequences an index of both is one of the second.
LEMMA SecondPart ==
  ASSUME NEW T, NEW a \in Seq(T), NEW b \in Seq(T),
         NEW i \in Nat, i > Len(a), i <= Len(a) + Len(b)
  PROVE  (a \o b)[i] = b[i - Len(a)]
<1>1. i \in 1..(Len(a) + Len(b)) OBVIOUS
<1> QED BY <1>1

\* A page that is taken from the cache is out of it.
LEMMA TakenIsOut ==
  ASSUME NEW c, NEW out, NEW shut, NEW n \in Nat, Held(c, out, shut, n), NEW k \in 1..Len(c)
  PROVE  Held(RemoveAt(c, k), out \cup {c[k]}, shut, n)
<1>0. c \in Seq(1..n) /\ Len(c) \in Nat /\ CacheMax \in Nat /\ c[k] \in 1..n /\ k \in Nat
  BY HistoryAssumption DEF HistoryAssumption, Held
<1>1. PICK d : d = RemoveAt(c, k) OBVIOUS
<1> DEFINE from(i) == IF i < k THEN i ELSE i + 1
<1>2. d \in Seq(1..n) /\ Len(d) = Len(c) - 1 /\ \A i \in 1..Len(d) : d[i] = c[from(i)]
  <2>1. PICK a, b : a = SubSeq(c, 1, k - 1) /\ b = SubSeq(c, k + 1, Len(c)) OBVIOUS
  <2>2. a \in Seq(1..n) /\ Len(a) = k - 1 /\ \A i \in 1..(k - 1) : a[i] = c[i]
    BY <1>0, <2>1
  <2>3. b \in Seq(1..n) /\ Len(b) = Len(c) - k /\ \A i \in 1..(Len(c) - k) : b[i] = c[i + k]
    BY <1>0, <2>1
  <2>4. d = a \o b BY <1>1, <2>1 DEF RemoveAt
  <2>5. d \in Seq(1..n) /\ Len(d) = Len(c) - 1 BY <1>0, <2>2, <2>3, <2>4
  <2>6. ASSUME NEW i \in 1..Len(d) PROVE d[i] = c[from(i)]
    <3>1. CASE i < k
      <4>1. i \in 1..Len(a) BY <1>0, <2>2, <3>1
      <4> QED BY <2>2, <2>3, <2>4, <3>1, <4>1
    <3>2. CASE ~(i < k)
      <4>1. i - (k - 1) \in 1..Len(b) /\ i > Len(a) /\ i <= Len(a) + Len(b) /\ (i - (k - 1)) + k = i + 1
        BY <1>0, <2>2, <2>3, <2>5, <3>2
      <4>2. i \in Nat /\ a \in Seq(1..n) /\ b \in Seq(1..n) BY <2>2, <2>3
      <4>3. (a \o b)[i] = b[i - Len(a)] BY <4>1, <4>2, SecondPart
      <4>4. d[i] = b[i - Len(a)] BY <2>4, <4>3
      <4> QED BY <2>2, <2>3, <3>2, <4>1, <4>4
    <3> QED BY <3>1, <3>2
  <2> QED BY <2>5, <2>6
<1>3. ASSUME NEW i \in 1..Len(d) PROVE from(i) \in 1..Len(c) /\ from(i) # k
  BY <1>0, <1>2
<1>4. ASSUME NEW i \in 1..Len(d), NEW j \in 1..Len(d), from(i) = from(j) PROVE i = j
  BY <1>0, <1>2, <1>4
<1>5. ASSUME NEW j \in 1..Len(c), j # k PROVE \E i \in 1..Len(d) : from(i) = j
  <2>1. CASE j < k
    <3>1. j \in 1..Len(d) /\ from(j) = j BY <1>0, <1>2, <2>1
    <3> QED BY <3>1
  <2>2. CASE j > k
    <3>1. j - 1 \in 1..Len(d) /\ from(j - 1) = j BY <1>0, <1>2, <2>2
    <3> QED BY <3>1
  <2> QED BY <1>0, <1>5, <2>1, <2>2
<1> HIDE DEF from
<1>6. \A i, j \in 1..Len(c) : c[i] = c[j] => i = j BY DEF Held
<1>7. ASSUME NEW i \in 1..Len(d), NEW j \in 1..Len(d), d[i] = d[j] PROVE i = j
  BY <1>2, <1>3, <1>4, <1>6, <1>7
<1>8. ASSUME NEW i \in 1..Len(d) PROVE d[i] \notin (out \cup {c[k]}) \cup shut
  <2>1. c[from(i)] \notin out \cup shut BY <1>3 DEF Held
  <2> QED BY <1>2, <1>3, <1>6, <2>1
<1>9. ASSUME NEW p \in 1..n PROVE p \in (out \cup {c[k]}) \cup shut \/ \E i \in 1..Len(d) : d[i] = p
  <2>1. CASE p \notin out \cup shut /\ p # c[k]
    <3>1. PICK j \in 1..Len(c) : c[j] = p BY <2>1 DEF Held
    <3>2. PICK i \in 1..Len(d) : from(i) = j BY <1>5, <2>1, <3>1
    <3> QED BY <1>2, <3>1, <3>2
  <2> QED BY <2>1
<1>10. out \cup {c[k]} \subseteq 1..n /\ (out \cup {c[k]}) \cap shut = {} /\ shut \subseteq 1..n
  <2>1. c[k] \notin out \cup shut BY DEF Held
  <2>2. out \subseteq 1..n /\ shut \subseteq 1..n /\ out \cap shut = {} BY DEF Held
  <2> QED BY <1>0, <2>1, <2>2
<1>11. Len(d) <= CacheMax
  <2>1. Len(c) <= CacheMax BY DEF Held
  <2> QED BY <1>0, <1>2, <2>1
<1>12. Held(d, out \cup {c[k]}, shut, n)
  BY <1>2, <1>7, <1>8, <1>9, <1>10, <1>11 DEF Held
<1> QED BY <1>1, <1>12

\* A page that is parked is in the cache or closed, and so is the one it displaces.
LEMMA ParkedIsIn ==
  ASSUME NEW c, NEW out, NEW n \in Nat, Held(c, out, closed, n), NEW p, p = 0 \/ p \in out, Park(c, p)
  PROVE  Held(cached', out \ {p}, closed', n)
<1>0. c \in Seq(1..n) /\ Len(c) \in Nat /\ CacheMax \in Nat /\ CacheMax > 0 /\ out \subseteq 1..n
  BY HistoryAssumption DEF Held
<1>1. CASE p = 0
  <2>1. cached' = c /\ closed' = closed /\ out \ {p} = out BY <1>0, <1>1 DEF Park
  <2> QED BY <2>1
<1>2. CASE p # 0 /\ ~pages[p].eligible
  <2>1. cached' = c /\ closed' = closed \cup {p} /\ p \in out BY <1>2 DEF Park
  <2> QED BY <2>1 DEF Held
<1>3. CASE p # 0 /\ pages[p].eligible /\ Len(c) < CacheMax
  <2>1. cached' = Append(c, p) /\ closed' = closed /\ p \in out BY <1>3 DEF Park
  <2>2. p \in 1..n BY <1>0, <2>1
  <2>3. /\ cached' \in Seq(1..n) /\ Len(cached') = Len(c) + 1
        /\ \A i \in 1..Len(cached') : cached'[i] = IF i <= Len(c) THEN c[i] ELSE p
    BY <1>0, <2>1, <2>2
  <2>4. \A i, j \in 1..Len(cached') : cached'[i] = cached'[j] => i = j
    BY <1>0, <2>1, <2>3 DEF Held
  <2>5. \A i \in 1..Len(cached') : cached'[i] \notin (out \ {p}) \cup closed'
    BY <1>0, <2>1, <2>3 DEF Held
  <2>6. ASSUME NEW q \in 1..n
        PROVE  q \in (out \ {p}) \cup closed' \/ \E i \in 1..Len(cached') : cached'[i] = q
    <3>1. CASE q = p
      <4>1. Len(c) + 1 \in 1..Len(cached') /\ ~(Len(c) + 1 <= Len(c)) BY <1>0, <2>3
      <4> QED BY <2>3, <3>1, <4>1
    <3>2. CASE q # p /\ q \notin out \cup closed
      <4>1. PICK i \in 1..Len(c) : c[i] = q BY <3>2 DEF Held
      <4>2. i \in 1..Len(cached') /\ i <= Len(c) BY <1>0, <2>3, <4>1
      <4> QED BY <2>3, <4>1, <4>2
    <3> QED BY <2>1, <3>1, <3>2
  <2>7. Len(cached') <= CacheMax BY <1>0, <1>3, <2>3
  <2> QED BY <2>1, <2>3, <2>4, <2>5, <2>6, <2>7 DEF Held
<1>4. CASE p # 0 /\ pages[p].eligible /\ ~(Len(c) < CacheMax)
  <2>1. cached' = Append(Tail(c), p) /\ closed' = closed \cup {Head(c)} /\ p \in out BY <1>4 DEF Park
  <2>2. p \in 1..n /\ Len(c) = CacheMax /\ c # <<>> /\ 1 \in 1..Len(c) /\ Head(c) = c[1] /\ c[1] \in 1..n
    BY <1>0, <1>4, <2>1 DEF Held
  <2>3. /\ cached' \in Seq(1..n) /\ Len(cached') = Len(c)
        /\ \A i \in 1..Len(cached') : cached'[i] = IF i < Len(c) THEN c[i + 1] ELSE p
    BY <1>0, <2>1, <2>2
  <2>8. \A i, j \in 1..Len(c) : c[i] = c[j] => i = j BY DEF Held
  <2>9. \A i \in 1..Len(c) : c[i] \notin out \cup closed BY DEF Held
  <2>4. ASSUME NEW i \in 1..Len(cached'), NEW j \in 1..Len(cached'), cached'[i] = cached'[j] PROVE i = j
    <3>1. i \in Nat /\ j \in Nat /\ i <= Len(c) /\ j <= Len(c) BY <1>0, <2>3
    <3>2. i < Len(c) => i + 1 \in 1..Len(c) /\ cached'[i] = c[i + 1] BY <1>0, <2>3, <3>1
    <3>3. j < Len(c) => j + 1 \in 1..Len(c) /\ cached'[j] = c[j + 1] BY <1>0, <2>3, <3>1
    <3>4. (~(i < Len(c)) => cached'[i] = p) /\ (~(j < Len(c)) => cached'[j] = p) BY <2>3
    <3>5. CASE i < Len(c) /\ j < Len(c)
      <4>1. i + 1 = j + 1 BY <2>4, <2>8, <3>2, <3>3, <3>5
      <4> QED BY <3>1, <4>1
    <3>6. CASE ~(i < Len(c)) /\ ~(j < Len(c)) BY <1>0, <3>1, <3>6
    <3>7. CASE (i < Len(c)) # (j < Len(c)) BY <2>1, <2>4, <2>9, <3>2, <3>3, <3>4, <3>7
    <3> QED BY <3>5, <3>6, <3>7
  <2>5. \A i \in 1..Len(cached') : cached'[i] \notin (out \ {p}) \cup closed'
    BY <1>0, <2>1, <2>2, <2>3 DEF Held
  <2>6. ASSUME NEW q \in 1..n
        PROVE  q \in (out \ {p}) \cup closed' \/ \E i \in 1..Len(cached') : cached'[i] = q
    <3>1. CASE q = p
      <4>1. Len(c) \in 1..Len(cached') /\ ~(Len(c) < Len(c)) BY <1>0, <2>2, <2>3
      <4> QED BY <2>3, <3>1, <4>1
    <3>2. CASE q # p /\ q \notin out \cup closed
      <4>1. PICK i \in 1..Len(c) : c[i] = q BY <3>2 DEF Held
      <4>2. CASE i = 1 BY <2>1, <2>2, <4>1, <4>2
      <4>3. CASE i # 1
        <5>1. i - 1 \in 1..Len(cached') /\ i - 1 < Len(c) /\ (i - 1) + 1 = i BY <1>0, <2>3, <4>3
        <5> QED BY <2>3, <4>1, <5>1
      <4> QED BY <4>2, <4>3
    <3> QED BY <2>1, <3>1, <3>2
  <2>7. out \ {p} \subseteq 1..n /\ closed' \subseteq 1..n /\ (out \ {p}) \cap closed' = {}
    <3>1. closed \subseteq 1..n /\ out \cap closed = {} BY DEF Held
    <3> QED BY <1>0, <2>1, <2>2, <2>9, <3>1
  <2> QED BY <2>2, <2>3, <2>4, <2>5, <2>6, <2>7, <1>0 DEF Held
<1> QED BY <1>1, <1>2, <1>3, <1>4

\* A page that is opened is out of the cache.
LEMMA OpenedIsOut ==
  ASSUME NEW c, NEW out, NEW shut, NEW n \in Nat, Held(c, out, shut, n)
  PROVE  Held(c, out \cup {n + 1}, shut, n + 1)
<1>1. 1..n \subseteq 1..(n + 1) /\ n + 1 \in 1..(n + 1) /\ n + 1 \notin 1..n
      /\ 1..(n + 1) = (1..n) \cup {n + 1}
  OBVIOUS
<1>2. c \in Seq(1..n) /\ Len(c) <= CacheMax BY DEF Held
<1>3. c \in Seq(1..(n + 1)) /\ \A i \in 1..Len(c) : c[i] \in 1..n BY <1>1, <1>2
<1>4. /\ \A i, j \in 1..Len(c) : c[i] = c[j] => i = j
      /\ \A i \in 1..Len(c) : c[i] \notin out \cup shut
      /\ out \subseteq 1..n /\ shut \subseteq 1..n /\ out \cap shut = {}
      /\ \A p \in 1..n : p \in out \cup shut \/ \E i \in 1..Len(c) : c[i] = p
  BY DEF Held
<1>5. \A i \in 1..Len(c) : c[i] \notin (out \cup {n + 1}) \cup shut BY <1>1, <1>3, <1>4
<1>6. \A p \in 1..(n + 1) : p \in (out \cup {n + 1}) \cup shut \/ \E i \in 1..Len(c) : c[i] = p
  BY <1>1, <1>4
<1>7. out \cup {n + 1} \subseteq 1..(n + 1) /\ shut \subseteq 1..(n + 1) /\ (out \cup {n + 1}) \cap shut = {}
  BY <1>1, <1>4
<1> QED BY <1>2, <1>3, <1>4, <1>5, <1>6, <1>7 DEF Held

\* A page that is restored.
LEMMA RestoreKeeps ==
  ASSUME OwnInv, NEW job, NEW i \in 1..Len(cached), Restore(job, i)
  PROVE  OwnInv'
<1>1. PICK p : p = cached[i] OBVIOUS
<1>2. PICK n : n = Len(pages) OBVIOUS
<1>3. /\ page \in Nat /\ pages \in Seq(Pages) /\ n \in Nat /\ events' = events /\ events \in Nat
      /\ Held(cached, {page} \ {0}, closed, n)
  BY <1>2 DEF OwnInv, Numbered, Parted, Restore
<1>4. p \in 1..n /\ p # page /\ p # 0
  <2>1. cached \in Seq(1..n) BY <1>3 DEF Held
  <2>2. p \notin {page} \ {0} BY <1>1, <1>3 DEF Held
  <2> QED BY <1>1, <1>3, <2>1, <2>2
<1>5. /\ Park(RemoveAt(cached, i), page) /\ page' = p
      /\ pages' = [pages EXCEPT ![p].nav = None]
  BY <1>1 DEF Restore
<1>6. Held(RemoveAt(cached, i), ({page} \ {0}) \cup {p}, closed, n) BY <1>1, <1>3, TakenIsOut
<1>7. Held(cached', (({page} \ {0}) \cup {p}) \ {page}, closed', n)
  <2>1. page = 0 \/ page \in ({page} \ {0}) \cup {p} OBVIOUS
  <2> QED BY <1>3, <1>5, <1>6, <2>1, ParkedIsIn
<1>8. (({page} \ {0}) \cup {p}) \ {page} = {page'} \ {0} BY <1>4, <1>5
<1>9. pages' \in Seq(Pages) /\ Len(pages') = n
  <2>1. PICK q : q = [pages[p] EXCEPT !.nav = None] OBVIOUS
  <2>2. pages[p] \in Pages BY <1>2, <1>3, <1>4
  <2>3. q \in Pages BY <2>1, <2>2 DEF Pages
  <2>4. pages' = [pages EXCEPT ![p] = q] BY <1>5, <2>1
  <2> QED BY <1>2, <1>3, <1>4, <2>3, <2>4
<1>10. Held(cached', {page'} \ {0}, closed', Len(pages')) BY <1>7, <1>8, <1>9
<1>11. page' \in Nat /\ events' \in Nat BY <1>3, <1>4, <1>5
<1> QED BY <1>9, <1>10, <1>11 DEF OwnInv, Numbered, Parted

\* A page that is opened, or fails to.
LEMMA OpenKeeps == ASSUME OwnInv, NEW job, Open(job) PROVE OwnInv'
<1>1. PICK n : n = Len(pages) OBVIOUS
<1>2. /\ page \in Nat /\ pages \in Seq(Pages) /\ n \in Nat /\ events \in Nat
      /\ Held(cached, {page} \ {0}, closed, n)
  BY <1>1 DEF OwnInv, Numbered, Parted
<1>3. Held(cached', {}, closed', n)
  <2>1. Park(cached, page) BY DEF Open
  <2>2. Held(cached', ({page} \ {0}) \ {page}, closed', n) BY <1>2, <2>1, ParkedIsIn
  <2>3. ({page} \ {0}) \ {page} = {} OBVIOUS
  <2> QED BY <2>2, <2>3
<1>4. CASE page' = 0 /\ UNCHANGED <<pages, events>>
  <2>1. {page'} \ {0} = {} BY <1>4
  <2> QED BY <1>1, <1>2, <1>3, <1>4, <2>1 DEF OwnInv, Numbered, Parted
<1>5. ASSUME NEW url \in Urls, NEW eligible \in BOOLEAN, NEW nav \in Urls \cup {None}, NEW posts \in BOOLEAN,
             IF url = job.url /\ nav = None THEN UNCHANGED events ELSE Event,
             posts => nav # None, page' = Len(pages) + 1,
             pages' = Append(pages,
               [url |-> url, pushed |-> FALSE, dirty |-> FALSE, nav |-> None, eligible |-> eligible,
                form |-> IF posts THEN Form(events, page', nav) ELSE NoForm])
      PROVE  OwnInv'
  <2>1. page' = n + 1 /\ page' \in Nat /\ {page'} \ {0} = {} \cup {n + 1} BY <1>1, <1>2, <1>5
  <2>2. events' \in Nat BY <1>2, <1>5 DEF Event
  <2>3. PICK form : form = IF posts THEN Form(events, page', nav) ELSE NoForm OBVIOUS
  <2>4. form \in Forms BY <1>2, <1>5, <2>1, <2>3 DEF Form, Forms
  <2>5. pages' = Append(pages, [url |-> url, pushed |-> FALSE, dirty |-> FALSE, nav |-> None,
                                eligible |-> eligible, form |-> form])
    BY <1>5, <2>3
  <2>6. pages' \in Seq(Pages) /\ Len(pages') = n + 1 BY <1>1, <1>2, <2>4, <2>5 DEF Pages
  <2>7. Held(cached', {} \cup {n + 1}, closed', n + 1) BY <1>2, <1>3, OpenedIsOut
  <2> QED BY <2>1, <2>2, <2>6, <2>7 DEF OwnInv, Numbered, Parted
<1> QED BY <1>4, <1>5 DEF Open

\* A step that changes one page, and neither opens nor closes any.
LEMMA PageKeeps ==
  ASSUME OwnInv, NEW p \in Pages, page # 0, pages' = [pages EXCEPT ![page] = p], UNCHANGED <<page, cached, closed>>,
         events' \in Nat
  PROVE  OwnInv'
<1>1. page \in 1..Len(pages)
  <2>1. page \in {page} \ {0} OBVIOUS
  <2> QED BY <2>1 DEF OwnInv, Parted, Held
<1>2. pages' \in Seq(Pages) /\ Len(pages') = Len(pages) BY <1>1 DEF OwnInv, Numbered
<1> QED BY <1>2 DEF OwnInv, Numbered, Parted

\* Each step keeps the invariant.
LEMMA OwnInvNext == OwnInv /\ [HistoryNext]_vars => OwnInv'
<1> SUFFICES ASSUME OwnInv, [HistoryNext]_vars PROVE OwnInv' OBVIOUS
<1>0. events \in Nat /\ page \in Nat /\ pages \in Seq(Pages) BY DEF OwnInv, Numbered
<1>1. ASSUME page # 0 PROVE pages[page] \in Pages
  <2>1. page \in {page} \ {0} BY <1>1
  <2>2. page \in 1..Len(pages) BY <2>1 DEF OwnInv, Parted, Held
  <2> QED BY <1>0, <2>2
<1>2. ASSUME UNCHANGED <<page, cached, closed, pages>>, events' \in Nat PROVE OwnInv'
  BY <1>2 DEF OwnInv, Numbered, Parted, Held
<1>3. CASE View
  <2>1. UNCHANGED engVars
    BY <1>3 DEF View, Load, Traverse, Reload, Resize, Stop, Input, RequestRender, PageResult, FrameResult,
                InputResult, Result
  <2>2. events' = events \/ Event
    BY <1>3 DEF View, Load, Traverse, Reload, Resize, Stop, Input, RequestRender, PageResult, FrameResult,
                InputResult, Result
  <2> QED BY <1>0, <1>2, <2>1, <2>2 DEF engVars, Event
<1>4. CASE RunLoad
  <2>1. PICK job, i : i = (IF job.hist THEN Found(job.url) ELSE 0) /\ IF i # 0 THEN Restore(job, i) ELSE Open(job)
    BY <1>4 DEF RunLoad
  <2>2. CASE i # 0
    <3>1. i \in DOMAIN cached BY <2>1, <2>2 DEF Found
    <3>2. DOMAIN cached = 1..Len(cached) BY DEF OwnInv, Parted, Held
    <3> QED BY <2>1, <2>2, <3>1, <3>2, RestoreKeeps
  <2>3. CASE i = 0 BY <2>1, <2>3, OpenKeeps
  <2> QED BY <2>2, <2>3
<1>5. CASE RunRender
  <2>1. events' = events /\ UNCHANGED <<page, cached, closed>> BY <1>5 DEF RunRender
  <2>2. CASE page = 0
    <3>1. pages' = pages BY <1>5, <2>2 DEF RunRender
    <3> QED BY <1>0, <1>2, <2>1, <3>1
  <2>3. CASE page # 0
    <3>1. PICK p : p = pages[page] OBVIOUS
    <3>2. PICK q : q = [p EXCEPT !.nav = None, !.pushed = FALSE, !.dirty = FALSE,
                                 !.form = IF p.nav # None THEN NoForm ELSE @] OBVIOUS
    <3>3. pages' = [pages EXCEPT ![page] = q] BY <1>5, <2>3, <3>1, <3>2 DEF RunRender
    <3>4. q \in Pages
      <4>1. p \in Pages BY <1>1, <2>3, <3>1
      <4>2. q = [url |-> p.url, pushed |-> FALSE, dirty |-> FALSE, nav |-> None, eligible |-> p.eligible,
                 form |-> IF p.nav # None THEN NoForm ELSE p.form]
        BY <3>2, <4>1 DEF Pages
      <4> QED BY <4>1, <4>2 DEF Pages, Forms
    <3> QED BY <1>0, <2>1, <2>3, <3>3, <3>4, PageKeeps
  <2> QED BY <2>2, <2>3
<1>6. CASE RunInput
  <2>1. events' = events /\ UNCHANGED <<page, cached, closed>> BY <1>6 DEF RunInput
  <2>2. CASE page = 0
    <3>1. pages' = pages BY <1>6, <2>2 DEF RunInput
    <3> QED BY <1>0, <1>2, <2>1, <3>1
  <2>3. CASE page # 0
    <3>1. PICK form, p : /\ p = [pages[page] EXCEPT !.nav = None, !.form = form]
                         /\ pages' = [pages EXCEPT ![page] = [p EXCEPT !.form = NoForm]]
      <4>1. PICK href \in Urls \cup {None}, posts \in BOOLEAN :
               pages' = [pages EXCEPT ![page] =
                 [[pages[page] EXCEPT !.nav = None,
                     !.form = IF posts THEN Form(Head(jobs).n, page, href) ELSE @] EXCEPT !.form = NoForm]]
        BY <1>6, <2>3 DEF RunInput
      <4> QED BY <4>1
    <3>2. [p EXCEPT !.form = NoForm] \in Pages
      <4>1. pages[page] \in Pages BY <1>1, <2>3
      <4>2. p = [url |-> pages[page].url, pushed |-> pages[page].pushed, dirty |-> pages[page].dirty,
                 nav |-> None, eligible |-> pages[page].eligible, form |-> form]
        BY <3>1, <4>1 DEF Pages
      <4>3. [p EXCEPT !.form = NoForm]
              = [url |-> pages[page].url, pushed |-> pages[page].pushed, dirty |-> pages[page].dirty,
                 nav |-> None, eligible |-> pages[page].eligible, form |-> NoForm]
        BY <4>2
      <4> QED BY <4>1, <4>3 DEF Pages, Forms
    <3> QED BY <1>0, <2>1, <2>3, <3>1, <3>2, PageKeeps
  <2> QED BY <2>2, <2>3
<1>7. ASSUME NEW p, Script(p), page # 0 => p \in Pages PROVE OwnInv'
  <2>1. page # 0 /\ pages' = [pages EXCEPT ![page] = p] /\ UNCHANGED <<page, cached, closed>> /\ events' \in Nat
    BY <1>0, <1>7 DEF Script, Event
  <2> QED BY <1>7, <2>1, PageKeeps
<1>8. CASE SoftNavigate
  <2>1. PICK url \in Urls, replace \in BOOLEAN :
          Script([pages[page] EXCEPT !.url = url, !.dirty = TRUE, !.pushed = @ \/ ~replace])
    BY <1>8 DEF SoftNavigate
  <2>2. page # 0 => [pages[page] EXCEPT !.url = url, !.dirty = TRUE, !.pushed = @ \/ ~replace] \in Pages
    BY <1>1 DEF Pages
  <2> QED BY <1>7, <2>1, <2>2
<1>9. CASE Navigate
  <2>1. PICK url \in Urls : Script([pages[page] EXCEPT !.nav = url]) BY <1>9 DEF Navigate
  <2>2. page # 0 => [pages[page] EXCEPT !.nav = url] \in Pages BY <1>1 DEF Pages
  <2> QED BY <1>7, <2>1, <2>2
<1>10. CASE Submit
  <2>1. PICK url \in Urls : Script([pages[page] EXCEPT !.nav = url, !.form = Form(events, page, url)])
    BY <1>10 DEF Submit
  <2>2. Form(events, page, url) \in Forms BY <1>0 DEF Form, Forms
  <2>3. page # 0 => [pages[page] EXCEPT !.nav = url, !.form = Form(events, page, url)] \in Pages
    BY <1>1, <2>2 DEF Pages
  <2> QED BY <1>7, <2>1, <2>3
<1>11. CASE UNCHANGED vars BY <1>0, <1>2, <1>11 DEF vars, engVars
<1> QED BY <1>3, <1>4, <1>5, <1>6, <1>8, <1>9, <1>10, <1>11 DEF HistoryNext, Engine

\* For any number of urls and any size of the cache: each page is the current one, or
\* in the cache, or closed, and only one of these (session_bfcache_park_or_close,
\* session_bfcache_take and ns_page_session_open in src/src/page_session.c).
THEOREM PagesHaveOwners == HistorySpec => []PagesOwned
<1>1. HistoryInit => OwnInv BY OwnInvInit
<1>2. OwnInv /\ [HistoryNext]_vars => OwnInv' BY OwnInvNext
<1>3. OwnInv => PagesOwned BY OwnInvOwned
<1> QED BY <1>1, <1>2, <1>3, PTL DEF HistorySpec

-----------------------------------------------------------------------------
(* The view: what the queues and its variables hold, and that an entry is     *)
(* there once a page is.                                                      *)

Loads == [url : Urls, record : BOOLEAN, hist : BOOLEAN]
Views == [opened : BOOLEAN, loading : BOOLEAN, record : BOOLEAN, current : Urls \cup {None},
          redirects : Nat, inflight : BOOLEAN, sized : BOOLEAN, deferred : Loads \cup {NoLoad}]

LoadJobs  == [kind : {"load"}, cur : BOOLEAN, url : Urls, hist : BOOLEAN]
InputJobs == [kind : {"press", "release"}, cur : BOOLEAN, n : Nat]
DrawJobs  == [kind : {"render"}, cur : BOOLEAN]
Jobs      == LoadJobs \cup InputJobs \cup DrawJobs

PageAnswers  == [kind : {"page"}, cur : BOOLEAN, ok : {TRUE}, url : Urls, nav : Urls \cup {None}]
                \cup [kind : {"page"}, cur : BOOLEAN, ok : {FALSE}]
FrameAnswers == [kind : {"frame"}, cur : BOOLEAN, ok : {TRUE}, url : Urls, pushed : BOOLEAN,
                 nav : Urls \cup {None}]
                \cup [kind : {"frame"}, cur : BOOLEAN, ok : {FALSE}, nav : {None}]
LinkAnswers  == [kind : {"press", "release"}, cur : BOOLEAN, href : Urls \cup {None}]
Answers      == PageAnswers \cup FrameAnswers \cup LinkAnswers

Typed ==
  /\ history \in Seq(Urls) /\ index \in 0..Len(history)
  /\ view \in Views /\ strayed \in BOOLEAN
  /\ jobs \in Seq(Jobs) /\ results \in Seq(Answers)

\* The kinds of the messages of a queue.
Kinds(q) == {q[i].kind : i \in DOMAIN q}

\* Before anything is recorded no load that is not recorded is under way, and no
\* frame is.
Entered ==
  /\ view.current # None => index > 0
  /\ view.opened => index > 0 /\ ~view.loading /\ (history[index] = view.current \/ strayed)
  /\ \/ index > 0 \/ view.record
     \/ "load" \notin Kinds(jobs) /\ "page" \notin Kinds(results) /\ view.deferred = NoLoad
  /\ view.deferred # NoLoad => index > 0 \/ view.deferred.record
  /\ "render" \in Kinds(jobs) \/ "frame" \in Kinds(results) => index > 0

\* The inputs of a queue, each with the number of its event.
IsInput(j) == j.kind \in {"press", "release"}
Inputs(q)  == {q[i].n : i \in {j \in DOMAIN q : IsInput(q[j])}}
Apart(q)   == \A i, j \in DOMAIN q : IsInput(q[i]) /\ IsInput(q[j]) /\ q[i].n = q[j].n => i = j

\* A message whose sequence number is out of date is otherwise what it was.
LEMMA JobOutdated ==
  ASSUME NEW j \in Jobs, NEW e, e = [j EXCEPT !.cur = FALSE]
  PROVE  e \in Jobs /\ e.kind = j.kind /\ (IsInput(j) => e.n = j.n)
<1>1. CASE j \in LoadJobs
  <2>1. e = [kind |-> j.kind, cur |-> FALSE, url |-> j.url, hist |-> j.hist] BY <1>1 DEF LoadJobs
  <2> QED BY <1>1, <2>1 DEF Jobs, LoadJobs, IsInput
<1>2. CASE j \in InputJobs
  <2>1. e = [kind |-> j.kind, cur |-> FALSE, n |-> j.n] BY <1>2 DEF InputJobs
  <2> QED BY <1>2, <2>1 DEF Jobs, InputJobs
<1>3. CASE j \in DrawJobs
  <2>1. e = [kind |-> j.kind, cur |-> FALSE] BY <1>3 DEF DrawJobs
  <2> QED BY <1>3, <2>1 DEF Jobs, DrawJobs, IsInput
<1> QED BY <1>1, <1>2, <1>3 DEF Jobs

\* The same of results.
LEMMA AnswerOutdated ==
  ASSUME NEW r \in Answers, NEW e, e = [r EXCEPT !.cur = FALSE]
  PROVE  e \in Answers /\ e.kind = r.kind
<1>1. CASE r \in [kind : {"page"}, cur : BOOLEAN, ok : {TRUE}, url : Urls, nav : Urls \cup {None}]
  <2>1. e = [kind |-> r.kind, cur |-> FALSE, ok |-> r.ok, url |-> r.url, nav |-> r.nav] BY <1>1
  <2> QED BY <1>1, <2>1 DEF Answers, PageAnswers
<1>2. CASE r \in [kind : {"page"}, cur : BOOLEAN, ok : {FALSE}]
  <2>1. e = [kind |-> r.kind, cur |-> FALSE, ok |-> r.ok] BY <1>2
  <2> QED BY <1>2, <2>1 DEF Answers, PageAnswers
<1>3. CASE r \in [kind : {"frame"}, cur : BOOLEAN, ok : {TRUE}, url : Urls, pushed : BOOLEAN,
                  nav : Urls \cup {None}]
  <2>1. e = [kind |-> r.kind, cur |-> FALSE, ok |-> r.ok, url |-> r.url, pushed |-> r.pushed,
             nav |-> r.nav] BY <1>3
  <2> QED BY <1>3, <2>1 DEF Answers, FrameAnswers
<1>4. CASE r \in [kind : {"frame"}, cur : BOOLEAN, ok : {FALSE}, nav : {None}]
  <2>1. e = [kind |-> r.kind, cur |-> FALSE, ok |-> r.ok, nav |-> r.nav] BY <1>4
  <2> QED BY <1>4, <2>1 DEF Answers, FrameAnswers
<1>5. CASE r \in LinkAnswers
  <2>1. e = [kind |-> r.kind, cur |-> FALSE, href |-> r.href] BY <1>5 DEF LinkAnswers
  <2> QED BY <1>5, <2>1 DEF Answers, LinkAnswers
<1> QED BY <1>1, <1>2, <1>3, <1>4, <1>5 DEF Answers, PageAnswers, FrameAnswers

\* A queue like another, message by message.
LEMMA LikeQueue ==
  ASSUME NEW S, NEW q \in Seq(S), NEW o, DOMAIN o = DOMAIN q, o = [i \in DOMAIN q |-> o[i]],
         \A i \in DOMAIN q : o[i] \in S /\ o[i].kind = q[i].kind
  PROVE  o \in Seq(S) /\ Len(o) = Len(q) /\ Kinds(o) = Kinds(q)
<1>1. DOMAIN q = 1..Len(q) /\ Len(q) \in Nat OBVIOUS
<1>2. o \in [1..Len(q) -> S] BY <1>1
<1>3. o \in Seq(S) BY <1>1, <1>2, SeqDef
<1>4. Len(o) = Len(q) BY <1>1, <1>3
<1>5. Kinds(o) = Kinds(q) BY DEF Kinds
<1> QED BY <1>3, <1>4, <1>5

\* New sequence numbers leave the results and their kinds.
LEMMA OutdatedAnswers ==
  ASSUME NEW q \in Seq(Answers), NEW k, NEW o, o = Outdated(q) \/ o = OutdatedOf(k, q)
  PROVE  o \in Seq(Answers) /\ Kinds(o) = Kinds(q)
<1>1. \A i \in DOMAIN q : q[i] \in Answers BY ElementOfSeq
<1>2. DOMAIN o = DOMAIN q /\ o = [i \in DOMAIN q |-> o[i]] BY DEF Outdated, OutdatedOf
<1>3. ASSUME NEW i \in DOMAIN q PROVE o[i] \in Answers /\ o[i].kind = q[i].kind
  <2>1. o[i] = [q[i] EXCEPT !.cur = FALSE] \/ o[i] = q[i] BY DEF Outdated, OutdatedOf
  <2> QED BY <1>1, <2>1, AnswerOutdated
<1> QED BY <1>2, <1>3, LikeQueue

\* New sequence numbers leave the requests, their kinds and their inputs.
LEMMA OutdatedJobs ==
  ASSUME NEW q \in Seq(Jobs), NEW k, NEW o, o = Outdated(q) \/ o = OutdatedOf(k, q)
  PROVE  o \in Seq(Jobs) /\ Kinds(o) = Kinds(q) /\ Inputs(o) = Inputs(q) /\ (Apart(q) => Apart(o))
<1>1. \A i \in DOMAIN q : q[i] \in Jobs BY ElementOfSeq
<1>2. DOMAIN o = DOMAIN q /\ o = [i \in DOMAIN q |-> o[i]] BY DEF Outdated, OutdatedOf
<1>3. ASSUME NEW i \in DOMAIN q
      PROVE  o[i] \in Jobs /\ o[i].kind = q[i].kind /\ (IsInput(q[i]) => o[i].n = q[i].n)
  <2>1. o[i] = [q[i] EXCEPT !.cur = FALSE] \/ o[i] = q[i] BY DEF Outdated, OutdatedOf
  <2> QED BY <1>1, <2>1, JobOutdated
<1>4. o \in Seq(Jobs) /\ Kinds(o) = Kinds(q) BY <1>2, <1>3, LikeQueue
<1>5. \A i \in DOMAIN q : IsInput(o[i]) <=> IsInput(q[i]) BY <1>3 DEF IsInput
<1>6. Inputs(o) = Inputs(q) BY <1>2, <1>3, <1>5 DEF Inputs
<1>7. Apart(q) => Apart(o) BY <1>2, <1>3, <1>5 DEF Apart
<1> QED BY <1>4, <1>6, <1>7

\* A message is put at the end of a queue.
LEMMA SentKinds ==
  ASSUME NEW S, NEW q \in Seq(S), NEW m \in S
  PROVE  Append(q, m) \in Seq(S) /\ Kinds(Append(q, m)) = Kinds(q) \cup {m.kind}
<1>1. /\ Append(q, m) \in Seq(S) /\ Len(Append(q, m)) = Len(q) + 1 /\ Len(q) \in Nat
      /\ \A i \in 1..Len(q) : Append(q, m)[i] = q[i]
      /\ Append(q, m)[Len(q) + 1] = m
  BY AppendProperties, LenProperties
<1>2. DOMAIN Append(q, m) = 1..(Len(q) + 1) /\ DOMAIN q = 1..Len(q) BY <1>1, LenProperties
<1>3. 1..(Len(q) + 1) = (1..Len(q)) \cup {Len(q) + 1} BY <1>1
<1> QED BY <1>1, <1>2, <1>3 DEF Kinds

\* What is taken from the head of a queue, and what is left.
LEMMA TakenKinds ==
  ASSUME NEW S, NEW q \in Seq(S), q # <<>>
  PROVE  /\ Head(q) \in S /\ Tail(q) \in Seq(S)
         /\ Kinds(Tail(q)) \subseteq Kinds(q) /\ Head(q).kind \in Kinds(q)
<1>1. /\ Head(q) \in S /\ Tail(q) \in Seq(S) /\ Len(Tail(q)) = Len(q) - 1 /\ Len(q) \in Nat \ {0}
      /\ \A i \in 1..Len(Tail(q)) : Tail(q)[i] = q[i + 1]
      /\ DOMAIN q = 1..Len(q) /\ DOMAIN Tail(q) = 1..Len(Tail(q)) /\ Head(q) = q[1]
  BY HeadTailProperties, LenProperties, EmptySeq
<1>2. \A i \in 1..Len(Tail(q)) : i + 1 \in 1..Len(q) BY <1>1
<1>3. 1 \in 1..Len(q) BY <1>1
<1> QED BY <1>1, <1>2, <1>3 DEF Kinds

\* A request that is sent adds an input if it is one.
LEMMA SentInputs ==
  ASSUME NEW q \in Seq(Jobs), NEW m \in Jobs, NEW o, o = Append(q, m)
  PROVE  /\ ~IsInput(m) => Inputs(o) = Inputs(q) /\ (Apart(q) => Apart(o))
         /\ IsInput(m) => Inputs(o) = Inputs(q) \cup {m.n} /\ (Apart(q) /\ m.n \notin Inputs(q) => Apart(o))
<1>1. /\ Len(q) \in Nat /\ DOMAIN q = 1..Len(q) /\ DOMAIN o = 1..(Len(q) + 1)
      /\ \A i \in 1..Len(q) : o[i] = q[i]
      /\ o[Len(q) + 1] = m
  BY AppendProperties, LenProperties
<1>2. 1..(Len(q) + 1) = (1..Len(q)) \cup {Len(q) + 1} BY <1>1
<1>3. ~IsInput(m) => Inputs(o) = Inputs(q) BY <1>1, <1>2 DEF Inputs
<1>4. IsInput(m) => Inputs(o) = Inputs(q) \cup {m.n} BY <1>1, <1>2 DEF Inputs
<1>5. ~IsInput(m) /\ Apart(q) => Apart(o) BY <1>1, <1>2 DEF Apart
<1>6. ASSUME IsInput(m), Apart(q), m.n \notin Inputs(q) PROVE Apart(o)
  <2>1. \A i \in 1..Len(q) : IsInput(q[i]) => q[i].n # m.n BY <1>1, <1>6 DEF Inputs
  <2> QED BY <1>1, <1>2, <1>6, <2>1 DEF Apart
<1> QED BY <1>3, <1>4, <1>5, <1>6

\* A request that is taken takes its input with it.
LEMMA TakenInputs ==
  ASSUME NEW q \in Seq(Jobs), q # <<>>, Apart(q)
  PROVE  /\ Inputs(Tail(q)) \subseteq Inputs(q) /\ Apart(Tail(q))
         /\ IsInput(Head(q)) => Head(q).n \in Inputs(q) /\ Head(q).n \notin Inputs(Tail(q))
<1>1. /\ Len(Tail(q)) = Len(q) - 1 /\ Len(q) \in Nat \ {0}
      /\ \A i \in 1..Len(Tail(q)) : Tail(q)[i] = q[i + 1]
      /\ DOMAIN q = 1..Len(q) /\ DOMAIN Tail(q) = 1..Len(Tail(q)) /\ Head(q) = q[1]
  BY HeadTailProperties, LenProperties, EmptySeq
<1>2. \A i \in 1..Len(Tail(q)) : i + 1 \in 1..Len(q) /\ i + 1 # 1 BY <1>1
<1>3. 1 \in 1..Len(q) BY <1>1
<1>4. \A i, j \in 1..Len(Tail(q)) : i + 1 = j + 1 => i = j BY <1>1
<1>5. Inputs(Tail(q)) \subseteq Inputs(q) BY <1>1, <1>2 DEF Inputs
<1>6. Apart(Tail(q)) BY <1>1, <1>2, <1>4 DEF Apart
<1>7. ASSUME IsInput(Head(q)) PROVE Head(q).n \in Inputs(q) /\ Head(q).n \notin Inputs(Tail(q))
  <2>1. Head(q).n \in Inputs(q) BY <1>1, <1>3, <1>7 DEF Inputs
  <2>2. ASSUME NEW i \in 1..Len(Tail(q)), IsInput(Tail(q)[i]) PROVE Tail(q)[i].n # Head(q).n
    BY <1>1, <1>2, <1>3, <1>7, <2>2 DEF Apart
  <2> QED BY <1>1, <2>1, <2>2 DEF Inputs
<1> QED BY <1>5, <1>6, <1>7

\* What do_load does to the view, its requests and the results that are left.
LEMMA Loaded ==
  ASSUME Typed, NEW v \in Views, NEW q \in Seq(Answers), NEW url \in Urls, NEW record \in BOOLEAN,
         NEW hist \in BOOLEAN, DoLoad(v, q, url, record, hist)
  PROVE  /\ view' \in Views /\ ~view'.opened /\ view'.record = record /\ view'.current = v.current
         /\ view'.deferred = v.deferred \/ (view'.deferred # NoLoad /\ view'.deferred.record = record)
         /\ results' \in Seq(Answers) /\ Kinds(results') = Kinds(q)
         /\ jobs' \in Seq(Jobs) /\ Kinds(jobs') \subseteq Kinds(jobs) \cup {"load"}
         /\ Inputs(jobs') = Inputs(jobs) /\ (Apart(jobs) => Apart(jobs'))
<1>1. results' \in Seq(Answers) /\ Kinds(results') = Kinds(q)
  BY OutdatedAnswers DEF DoLoad
<1>2. PICK l : l = [url |-> url, record |-> record, hist |-> hist] OBVIOUS
<1>3. l \in Loads /\ l.record = record BY <1>2 DEF Loads
<1>4. l # NoLoad
  <2>1. l.url \in Urls /\ NoLoad.url = None BY <1>2 DEF NoLoad
  <2> QED BY <2>1, NoneAssumption DEF NoneAssumption
<1>5. PICK d : d = IF v.sized THEN v.deferred ELSE l OBVIOUS
<1>6. view' = [opened |-> FALSE, loading |-> TRUE, record |-> record, current |-> v.current,
               redirects |-> v.redirects, inflight |-> FALSE, sized |-> v.sized, deferred |-> d]
  <2>1. view' = [v EXCEPT !.opened = FALSE, !.loading = TRUE, !.record = record, !.inflight = FALSE,
                          !.deferred = d]
    BY <1>2, <1>5 DEF DoLoad
  <2> QED BY <2>1 DEF Views
<1>7. d \in Loads \cup {NoLoad} BY <1>3, <1>5 DEF Views
<1>8. view' \in Views BY <1>6, <1>7 DEF Views
<1>9. PICK j : j = [kind |-> "load", cur |-> TRUE, url |-> url, hist |-> hist] OBVIOUS
<1>10. j \in Jobs /\ j.kind = "load" /\ ~IsInput(j) BY <1>9 DEF Jobs, LoadJobs, IsInput
<1>11. PICK o : o = Outdated(jobs) OBVIOUS
<1>12. o \in Seq(Jobs) /\ Kinds(o) = Kinds(jobs) /\ Inputs(o) = Inputs(jobs) /\ (Apart(jobs) => Apart(o))
  BY <1>11, OutdatedJobs DEF Typed
<1>13. jobs' = o \/ jobs' = Append(o, j) BY <1>9, <1>11 DEF DoLoad
<1>14. /\ jobs' \in Seq(Jobs) /\ Kinds(jobs') \subseteq Kinds(jobs) \cup {"load"}
       /\ Inputs(jobs') = Inputs(jobs) /\ (Apart(jobs) => Apart(jobs'))
  <2>1. PICK a : a = Append(o, j) OBVIOUS
  <2>2. a \in Seq(Jobs) /\ Kinds(a) = Kinds(jobs) \cup {"load"} BY <1>10, <1>12, <2>1, SentKinds
  <2>3. Inputs(a) = Inputs(jobs) /\ (Apart(jobs) => Apart(a)) BY <1>10, <1>12, <2>1, SentInputs
  <2>4. CASE jobs' = o BY <1>12, <2>4
  <2>5. CASE jobs' = a BY <2>2, <2>3, <2>5
  <2> QED BY <1>13, <2>1, <2>4, <2>5
<1>15. view'.deferred = v.deferred \/ (view'.deferred # NoLoad /\ view'.deferred.record = record)
  BY <1>3, <1>4, <1>5, <1>6
<1> QED BY <1>1, <1>6, <1>8, <1>14, <1>15

\* A load that begins, whatever the index is by then, leaves no page shown.
LEMMA LoadEnters ==
  ASSUME Typed, Entered, NEW v \in Views, NEW q \in Seq(Answers), Kinds(q) \subseteq Kinds(results),
         NEW url \in Urls, NEW record \in BOOLEAN, NEW hist \in BOOLEAN, DoLoad(v, q, url, record, hist),
         history' \in Seq(Urls), index' \in 0..Len(history'), strayed' \in BOOLEAN,
         index > 0 => index' > 0, v.current # None => index' > 0,
         v.deferred = view.deferred \/ v.deferred = NoLoad,
         record \/ index' > 0
  PROVE  Typed' /\ Entered' /\ Inputs(jobs') = Inputs(jobs) /\ (Apart(jobs) => Apart(jobs'))
<1>1. /\ view' \in Views /\ ~view'.opened /\ view'.record = record /\ view'.current = v.current
      /\ view'.deferred = v.deferred \/ (view'.deferred # NoLoad /\ view'.deferred.record = record)
      /\ results' \in Seq(Answers) /\ Kinds(results') = Kinds(q)
      /\ jobs' \in Seq(Jobs) /\ Kinds(jobs') \subseteq Kinds(jobs) \cup {"load"}
      /\ Inputs(jobs') = Inputs(jobs) /\ (Apart(jobs) => Apart(jobs'))
  BY Loaded
<1>2. Typed' BY <1>1 DEF Typed
<1>3. view'.deferred # NoLoad => index' > 0 \/ view'.deferred.record = TRUE
  <2>1. CASE view'.deferred = v.deferred
    <3>1. ASSUME view'.deferred # NoLoad PROVE index' > 0 \/ view'.deferred.record = TRUE
      <4>1. view'.deferred = view.deferred BY <2>1, <3>1
      <4>2. index > 0 \/ view.deferred.record BY <3>1, <4>1 DEF Entered
      <4>3. view.deferred \in Loads BY <3>1, <4>1 DEF Typed, Views
      <4>4. view.deferred.record \in BOOLEAN BY <4>3 DEF Loads
      <4> QED BY <4>1, <4>2, <4>4
    <3> QED BY <3>1
  <2>2. CASE view'.deferred.record = record BY <2>2
  <2> QED BY <1>1, <2>1, <2>2
<1>4. "render" \in Kinds(jobs') \/ "frame" \in Kinds(results') => index' > 0
  BY <1>1 DEF Entered
<1>5. Kinds(jobs)' = Kinds(jobs') /\ Kinds(results)' = Kinds(results') BY DEF Kinds
<1>6. Entered' BY <1>1, <1>3, <1>4, <1>5 DEF Entered
<1> QED BY <1>1, <1>2, <1>6

\* request_render.
LEMMA Asked ==
  ASSUME Typed, NEW v \in Views, NEW q \in Seq(Answers), AskFrame(v, q)
  PROVE  /\ view' \in Views /\ view'.opened = v.opened /\ view'.loading = v.loading
         /\ view'.record = v.record /\ view'.current = v.current /\ view'.deferred = v.deferred
         /\ results' \in Seq(Answers) /\ Kinds(results') = Kinds(q)
         /\ jobs' \in Seq(Jobs) /\ Kinds(jobs') = Kinds(jobs) \cup {"render"}
         /\ Inputs(jobs') = Inputs(jobs) /\ (Apart(jobs) => Apart(jobs'))
<1>1. results' \in Seq(Answers) /\ Kinds(results') = Kinds(q)
  BY OutdatedAnswers DEF AskFrame
<1>2. view' = [opened |-> v.opened, loading |-> v.loading, record |-> v.record, current |-> v.current,
               redirects |-> v.redirects, inflight |-> TRUE, sized |-> v.sized, deferred |-> v.deferred]
  BY DEF AskFrame, Views
<1>3. view' \in Views BY <1>2 DEF Views
<1>4. PICK j : j = [kind |-> "render", cur |-> TRUE] OBVIOUS
<1>5. j \in Jobs /\ j.kind = "render" /\ ~IsInput(j) BY <1>4 DEF Jobs, DrawJobs, IsInput
<1>6. PICK o : o = OutdatedOf("render", jobs) OBVIOUS
<1>7. o \in Seq(Jobs) /\ Kinds(o) = Kinds(jobs) /\ Inputs(o) = Inputs(jobs) /\ (Apart(jobs) => Apart(o))
  BY <1>6, OutdatedJobs DEF Typed
<1>8. jobs' = Append(o, j) BY <1>4, <1>6 DEF AskFrame
<1>9. jobs' \in Seq(Jobs) /\ Kinds(jobs') = Kinds(jobs) \cup {"render"}
  BY <1>5, <1>7, <1>8, SentKinds
<1>10. Inputs(jobs') = Inputs(jobs) /\ (Apart(jobs) => Apart(jobs'))
  BY <1>5, <1>7, <1>8, SentInputs
<1> QED BY <1>1, <1>2, <1>3, <1>9, <1>10

\* push_history leaves the index on the url.
LEMMA Pushed ==
  ASSUME Typed, NEW url \in Urls, PushHistory(url)
  PROVE  history' \in Seq(Urls) /\ index' \in 0..Len(history') /\ index' > 0 /\ history'[index'] = url
<1>1. history \in Seq(Urls) /\ index \in 0..Len(history) /\ Len(history) \in Nat BY DEF Typed
<1>2. CASE index > 0 /\ history[index] = url
  <2>1. history' = history /\ index' = index BY <1>2 DEF PushHistory
  <2> QED BY <1>1, <1>2, <2>1
<1>3. CASE ~(index > 0 /\ history[index] = url)
  <2>1. PICK s : s = SubSeq(history, 1, index) OBVIOUS
  <2>2. s \in Seq(Urls) /\ Len(s) = index BY <1>1, <2>1
  <2>3. history' = Append(s, url) /\ index' = index + 1 BY <1>3, <2>1 DEF PushHistory
  <2>4. history' \in Seq(Urls) /\ Len(history') = index + 1 /\ history'[Len(s) + 1] = url
    BY <2>2, <2>3, AppendProperties
  <2> QED BY <1>1, <2>2, <2>3, <2>4
<1> QED BY <1>2, <1>3

\* replace_history does so if there is an entry.
LEMMA Replaced ==
  ASSUME Typed, NEW url \in Urls, ReplaceHistory(url)
  PROVE  /\ history' \in Seq(Urls) /\ index' \in 0..Len(history') /\ index' = index
         /\ index > 0 => history'[index'] = url
<1>1. history \in Seq(Urls) /\ index \in 0..Len(history) /\ Len(history) \in Nat /\ index' = index
  BY DEF Typed, ReplaceHistory
<1>2. CASE index > 0
  <2>1. history' = [history EXCEPT ![index] = url] /\ index \in 1..Len(history) BY <1>1, <1>2 DEF ReplaceHistory
  <2>2. history' \in Seq(Urls) /\ Len(history') = Len(history) /\ history'[index] = url
    BY <1>1, <2>1, ExceptSeq
  <2> QED BY <1>1, <2>2
<1>3. CASE ~(index > 0)
  <2>1. history' = history BY <1>3 DEF ReplaceHistory
  <2> QED BY <1>1, <1>3, <2>1
<1> QED BY <1>2, <1>3

InputsKept == Inputs(jobs') = Inputs(jobs) /\ (Apart(jobs) => Apart(jobs'))

\* A step that begins a load, or neither opens a page nor begins one, keeps what
\* is entered.
LEMMA SameEnters ==
  ASSUME Entered, UNCHANGED <<history, index, strayed>>,
         view'.current = view.current, view'.opened => view.opened, view'.loading => view.loading,
         view'.record = view.record, view'.deferred = view.deferred \/ view'.deferred = NoLoad,
         Kinds(results') \subseteq Kinds(results), "load" \in Kinds(jobs') => "load" \in Kinds(jobs),
         "render" \in Kinds(jobs') => "render" \in Kinds(jobs) \/ index > 0
  PROVE  Entered'
<1>1. Kinds(jobs)' = Kinds(jobs') /\ Kinds(results)' = Kinds(results') BY DEF Kinds
<1> QED BY <1>1 DEF Entered

\* What the user asks of the view.
LEMMA UserKeeps ==
  ASSUME Typed, Entered, Load \/ Traverse \/ Reload \/ Resize
  PROVE  Typed' /\ Entered' /\ InputsKept
<1>1. /\ history \in Seq(Urls) /\ index \in 0..Len(history) /\ view \in Views /\ strayed \in BOOLEAN
      /\ jobs \in Seq(Jobs) /\ results \in Seq(Answers) /\ Len(history) \in Nat
      /\ view.current \in Urls \cup {None}
  BY DEF Typed, Views
<1>2. \A i \in 1..Len(history) : history[i] \in Urls /\ i > 0 BY <1>1
<1>3. CASE Load
  <2>1. PICK url \in Urls : DoLoad(view, results, url, TRUE, FALSE) BY <1>3 DEF Load
  <2>2. history' = history /\ index' = index /\ strayed' = FALSE BY <1>3 DEF Load
  <2>3. view.current # None => index > 0 BY DEF Entered
  <2> QED BY <1>1, <2>1, <2>2, <2>3, LoadEnters DEF InputsKept
<1>4. CASE Traverse
  <2>1. PICK url : url = history[index'] OBVIOUS
  <2>2. index' \in DOMAIN history /\ history' = history /\ strayed' = FALSE
        /\ DoLoad(view, results, url, FALSE, TRUE)
    BY <1>4, <2>1 DEF Traverse
  <2>3. url \in Urls /\ index' > 0 /\ index' \in 0..Len(history')
    <3>1. index' \in 1..Len(history) BY <1>1, <2>2
    <3> QED BY <1>1, <1>2, <2>1, <2>2, <3>1
  <2> QED BY <1>1, <2>2, <2>3, LoadEnters DEF InputsKept
<1>5. CASE Reload
  <2>1. index > 0 BY <1>5 DEF Reload, Entered
  <2>2. PICK url : url = history[index] OBVIOUS
  <2>3. history' = history /\ index' = index /\ strayed' = FALSE /\ DoLoad(view, results, url, FALSE, FALSE)
    BY <1>5, <2>1, <2>2 DEF Reload
  <2>4. url \in Urls BY <1>1, <1>2, <2>1, <2>2
  <2> QED BY <1>1, <2>1, <2>3, <2>4, LoadEnters DEF InputsKept
<1>6. CASE Resize /\ view.deferred = NoLoad
  <2>1. /\ view' = [view EXCEPT !.sized = TRUE]
        /\ UNCHANGED <<history, index, strayed, jobs, results>>
    BY <1>6 DEF Resize
  <2>2. view' = [opened |-> view.opened, loading |-> view.loading, record |-> view.record,
                 current |-> view.current, redirects |-> view.redirects, inflight |-> view.inflight,
                 sized |-> TRUE, deferred |-> view.deferred]
    BY <1>1, <2>1 DEF Views
  <2>3. view' \in Views BY <1>1, <2>2 DEF Views
  <2>4. Typed' BY <1>1, <2>1, <2>3 DEF Typed
  <2>5. Entered' BY <2>1, <2>2, SameEnters
  <2> QED BY <2>1, <2>4, <2>5 DEF InputsKept
<1>7. CASE Resize /\ view.deferred # NoLoad
  <2>1. PICK v : v = [view EXCEPT !.sized = TRUE, !.deferred = NoLoad] OBVIOUS
  <2>2. v = [opened |-> view.opened, loading |-> view.loading, record |-> view.record,
             current |-> view.current, redirects |-> view.redirects, inflight |-> view.inflight,
             sized |-> TRUE, deferred |-> NoLoad]
    BY <1>1, <2>1 DEF Views
  <2>3. v \in Views BY <1>1, <2>2 DEF Views
  <2>4. PICK d : d = view.deferred OBVIOUS
  <2>5. d \in Loads BY <1>1, <1>7, <2>4 DEF Views
  <2>6. d.url \in Urls /\ d.record \in BOOLEAN /\ d.hist \in BOOLEAN BY <2>5 DEF Loads
  <2>7. UNCHANGED <<history, index, strayed>> /\ DoLoad(v, results, d.url, d.record, d.hist)
    BY <1>7, <2>1, <2>4 DEF Resize
  <2>8. v.current # None => index > 0 BY <2>2 DEF Entered
  <2>9. d.record \/ index > 0 BY <1>7, <2>4 DEF Entered
  <2>10. v.deferred = NoLoad BY <2>2
  <2>11. PICK url \in Urls, record \in BOOLEAN, hist \in BOOLEAN :
           DoLoad(v, results, url, record, hist) /\ (record \/ index > 0)
    BY <2>6, <2>7, <2>9
  <2> QED BY <1>1, <2>3, <2>7, <2>8, <2>10, <2>11, LoadEnters DEF InputsKept
<1> QED BY <1>3, <1>4, <1>5, <1>6, <1>7

\* Stop, input and the request for a frame.
LEMMA AskKeeps ==
  ASSUME Typed, Entered, events \in Nat, Stop \/ Input \/ RequestRender
  PROVE  /\ Typed' /\ Entered'
         /\ \/ InputsKept
            \/ /\ events' = events + 1 /\ Inputs(jobs') = Inputs(jobs) \cup {events}
               /\ Apart(jobs) /\ events \notin Inputs(jobs) => Apart(jobs')
<1>1. /\ history \in Seq(Urls) /\ index \in 0..Len(history) /\ view \in Views /\ strayed \in BOOLEAN
      /\ jobs \in Seq(Jobs) /\ results \in Seq(Answers)
  BY DEF Typed
<1>2. CASE Stop
  <2>1. /\ jobs' = OutdatedOf("render", jobs) /\ results' = OutdatedOf("frame", results)
        /\ view' = [view EXCEPT !.loading = FALSE, !.inflight = FALSE]
        /\ UNCHANGED <<history, index, strayed>>
    BY <1>2 DEF Stop
  <2>2. view' = [opened |-> view.opened, loading |-> FALSE, record |-> view.record,
                 current |-> view.current, redirects |-> view.redirects, inflight |-> FALSE,
                 sized |-> view.sized, deferred |-> view.deferred]
    BY <1>1, <2>1 DEF Views
  <2>3. view' \in Views BY <1>1, <2>2 DEF Views
  <2>4. results' \in Seq(Answers) /\ Kinds(results') = Kinds(results) BY <1>1, <2>1, OutdatedAnswers
  <2>5. /\ jobs' \in Seq(Jobs) /\ Kinds(jobs') = Kinds(jobs) /\ Inputs(jobs') = Inputs(jobs)
        /\ Apart(jobs) => Apart(jobs')
    BY <1>1, <2>1, OutdatedJobs
  <2>6. Typed' BY <1>1, <2>1, <2>3, <2>4, <2>5 DEF Typed
  <2>7. Entered' BY <2>1, <2>2, <2>4, <2>5, SameEnters
  <2> QED BY <2>5, <2>6, <2>7 DEF InputsKept
<1>3. CASE Input
  <2>1. PICK kind \in {"press", "release"} :
          /\ jobs' = Append(OutdatedOf(kind, jobs), [kind |-> kind, cur |-> TRUE, n |-> events])
          /\ results' = OutdatedOf(kind, results)
    BY <1>3 DEF Input
  <2>2. UNCHANGED uiVars /\ events' = events + 1 BY <1>3 DEF Input, Event
  <2>3. results' \in Seq(Answers) /\ Kinds(results') = Kinds(results) BY <1>1, <2>1, OutdatedAnswers
  <2>4. PICK o : o = OutdatedOf(kind, jobs) OBVIOUS
  <2>5. o \in Seq(Jobs) /\ Kinds(o) = Kinds(jobs) /\ Inputs(o) = Inputs(jobs) /\ (Apart(jobs) => Apart(o))
    BY <1>1, <2>4, OutdatedJobs
  <2>6. PICK m : m = [kind |-> kind, cur |-> TRUE, n |-> events] OBVIOUS
  <2>7. m \in Jobs /\ m.kind = kind /\ IsInput(m) /\ m.n = events BY <2>6 DEF Jobs, InputJobs, IsInput
  <2>8. jobs' = Append(o, m) BY <2>1, <2>4, <2>6
  <2>9. jobs' \in Seq(Jobs) /\ Kinds(jobs') = Kinds(jobs) \cup {kind} BY <2>5, <2>7, <2>8, SentKinds
  <2>10. /\ Inputs(jobs') = Inputs(jobs) \cup {events}
         /\ Apart(jobs) /\ events \notin Inputs(jobs) => Apart(jobs')
    <3>1. PICK a : a = Append(o, m) OBVIOUS
    <3>2. Inputs(a) = Inputs(o) \cup {m.n} /\ (Apart(o) /\ m.n \notin Inputs(o) => Apart(a))
      BY <2>5, <2>7, <3>1, SentInputs
    <3> QED BY <2>5, <2>7, <2>8, <3>1, <3>2
  <2>11. Typed' BY <1>1, <2>2, <2>3, <2>9 DEF Typed, uiVars
  <2>12. Entered' BY <2>2, <2>3, <2>9, SameEnters DEF uiVars
  <2> QED BY <2>2, <2>10, <2>11, <2>12
<1>4. CASE RequestRender
  <2>1. AskFrame(view, results) /\ view.opened /\ UNCHANGED <<history, index, strayed>>
    BY <1>4 DEF RequestRender
  <2>2. /\ view' \in Views /\ view'.opened = view.opened /\ view'.loading = view.loading
        /\ view'.record = view.record /\ view'.current = view.current /\ view'.deferred = view.deferred
        /\ results' \in Seq(Answers) /\ Kinds(results') = Kinds(results)
        /\ jobs' \in Seq(Jobs) /\ Kinds(jobs') = Kinds(jobs) \cup {"render"} /\ InputsKept
    BY <1>1, <2>1, Asked DEF InputsKept
  <2>3. Typed' BY <1>1, <2>1, <2>2 DEF Typed
  <2>4. index > 0 BY <2>1 DEF Entered
  <2>5. Entered' BY <2>1, <2>2, <2>4, SameEnters
  <2> QED BY <2>2, <2>3, <2>5
<1> QED BY <1>2, <1>3, <1>4

\* What the results of each kind hold.
LEMMA AnswerHolds ==
  ASSUME NEW r \in Answers
  PROVE  /\ r.kind = "page" => r.ok \in BOOLEAN /\ (r.ok => r.url \in Urls /\ r.nav \in Urls \cup {None})
         /\ r.kind = "frame" => /\ r.ok \in BOOLEAN /\ r.cur \in BOOLEAN /\ r.nav \in Urls \cup {None}
                                /\ r.ok => r.url \in Urls
         /\ r.kind \in {"press", "release"} => r.href \in Urls \cup {None}
<1>1. CASE r \in PageAnswers BY <1>1 DEF PageAnswers
<1>2. CASE r \in FrameAnswers BY <1>2 DEF FrameAnswers
<1>3. CASE r \in LinkAnswers BY <1>3 DEF LinkAnswers
<1> QED BY <1>1, <1>2, <1>3 DEF Answers

\* What is known of the first result.
LEMMA FirstAnswer ==
  ASSUME Typed, NEW k, Result(k)
  PROVE  /\ Head(results) \in Answers /\ Head(results).kind \in k
         /\ Head(results).kind \in Kinds(results)
         /\ Tail(results) \in Seq(Answers) /\ Kinds(Tail(results)) \subseteq Kinds(results)
BY TakenKinds DEF Typed, Result

\* A result that is not taken.
LEMMA DroppedKeeps ==
  ASSUME Typed, Entered, NEW k, Result(k), Dropped
  PROVE  Typed' /\ Entered' /\ InputsKept
<1>1. /\ results' = Tail(results) /\ jobs' = jobs
      /\ UNCHANGED <<history, index, view, strayed>>
  BY DEF Dropped, uiVars
<1>2. results' \in Seq(Answers) /\ Kinds(results') \subseteq Kinds(results) BY <1>1, FirstAnswer
<1>3. Typed' BY <1>1, <1>2 DEF Typed
<1>4. Entered' BY <1>1, <1>2, SameEnters
<1> QED BY <1>1, <1>3, <1>4 DEF InputsKept

\* A page is there, has failed, or is to be left at once.
LEMMA PageResultKeeps ==
  ASSUME Typed, Entered, PageResult
  PROVE  Typed' /\ Entered' /\ InputsKept
<1>1. /\ history \in Seq(Urls) /\ index \in 0..Len(history) /\ view \in Views /\ strayed \in BOOLEAN
      /\ jobs \in Seq(Jobs) /\ results \in Seq(Answers) /\ Len(history) \in Nat
      /\ view.record \in BOOLEAN /\ view.redirects \in Nat
  BY DEF Typed, Views
<1>2. PICK res, rest : res = Head(results) /\ rest = Tail(results) OBVIOUS
<1>3. Result({"page"}) BY DEF PageResult
<1>4. /\ res \in Answers /\ res.kind = "page" /\ "page" \in Kinds(results)
      /\ rest \in Seq(Answers) /\ Kinds(rest) \subseteq Kinds(results)
  BY <1>2, <1>3, FirstAnswer
<1>5. res.ok \in BOOLEAN /\ (res.ok => res.url \in Urls /\ res.nav \in Urls \cup {None})
  BY <1>4, AnswerHolds
<1>6. index > 0 \/ view.record BY <1>4 DEF Entered
<1>7. CASE ~res.cur /\ Dropped BY <1>3, <1>7, DroppedKeeps
<1>8. CASE /\ res.cur /\ ~res.ok
           /\ view' = [view EXCEPT !.loading = FALSE] /\ results' = Tail(results)
           /\ UNCHANGED <<history, index, strayed, jobs>>
  <2>1. view' = [opened |-> view.opened, loading |-> FALSE, record |-> view.record,
                 current |-> view.current, redirects |-> view.redirects, inflight |-> view.inflight,
                 sized |-> view.sized, deferred |-> view.deferred]
    BY <1>1, <1>8 DEF Views
  <2>2. view' \in Views BY <1>1, <2>1 DEF Views
  <2>3. Typed' BY <1>1, <1>2, <1>4, <1>8, <2>2 DEF Typed
  <2>4. Entered' BY <1>2, <1>4, <1>8, <2>1, SameEnters
  <2> QED BY <1>8, <2>3, <2>4 DEF InputsKept
<1>9. CASE /\ res.cur /\ res.ok /\ Redirects(res)
           /\ Redirect(res.nav)
           /\ strayed' = (strayed \/ ~view.record)
           /\ UNCHANGED <<history, index>>
  <2>1. PICK v : v = [view EXCEPT !.redirects = @ + 1] OBVIOUS
  <2>2. v = [opened |-> view.opened, loading |-> view.loading, record |-> view.record,
             current |-> view.current, redirects |-> view.redirects + 1, inflight |-> view.inflight,
             sized |-> view.sized, deferred |-> view.deferred]
    BY <1>1, <2>1 DEF Views
  <2>3. v \in Views BY <1>1, <2>2 DEF Views
  <2>4. PICK url, record : url = res.nav /\ record = view.record OBVIOUS
  <2>5. url \in Urls /\ DoLoad(v, rest, url, record, FALSE) /\ record \in BOOLEAN
    BY <1>1, <1>2, <1>5, <1>9, <2>1, <2>4 DEF Redirect, Redirects
  <2>6. v.current # None => index > 0 BY <2>2 DEF Entered
  <2>7. v.deferred = view.deferred /\ (record \/ index > 0) BY <1>6, <2>2, <2>4
  <2>8. strayed' \in BOOLEAN BY <1>9
  <2> QED BY <1>1, <1>4, <1>9, <2>3, <2>5, <2>6, <2>7, <2>8, LoadEnters DEF InputsKept
<1>10. CASE /\ res.cur /\ res.ok /\ ~Redirects(res)
            /\ AskFrame([view EXCEPT !.redirects = 0, !.current = res.url, !.opened = TRUE,
                                     !.loading = FALSE], rest)
            /\ IF view.record THEN PushHistory(res.url) ELSE UNCHANGED <<history, index>>
            /\ strayed' = (strayed \/ (~view.record /\ index > 0 /\ history[index] # res.url))
  <2>1. PICK v, url : v = [view EXCEPT !.redirects = 0, !.current = res.url, !.opened = TRUE, !.loading = FALSE]
                      /\ url = res.url
    OBVIOUS
  <2>2. v = [opened |-> TRUE, loading |-> FALSE, record |-> view.record, current |-> url,
             redirects |-> 0, inflight |-> view.inflight, sized |-> view.sized, deferred |-> view.deferred]
    BY <1>1, <2>1 DEF Views
  <2>3. url \in Urls BY <1>5, <1>10, <2>1
  <2>4. v \in Views BY <1>1, <2>2, <2>3 DEF Views
  <2>5. AskFrame(v, rest) BY <1>10, <2>1
  <2>6. /\ view' \in Views /\ view'.opened = v.opened /\ view'.loading = v.loading
        /\ view'.record = v.record /\ view'.current = v.current /\ view'.deferred = v.deferred
        /\ results' \in Seq(Answers) /\ Kinds(results') = Kinds(rest)
        /\ jobs' \in Seq(Jobs) /\ Kinds(jobs') = Kinds(jobs) \cup {"render"}
        /\ InputsKept
    BY <1>4, <2>4, <2>5, Asked DEF InputsKept
  <2>7. /\ history' \in Seq(Urls) /\ index' \in 0..Len(history') /\ index' > 0
        /\ history'[index'] = url \/ strayed'
    <3>1. CASE view.record
      <4>1. PushHistory(url) BY <1>10, <2>1, <3>1
      <4> QED BY <2>3, <4>1, Pushed
    <3>2. CASE ~view.record
      <4>1. history' = history /\ index' = index /\ index > 0 BY <1>6, <1>10, <3>2
      <4>2. history[index] # url => strayed' BY <1>10, <2>1, <3>2, <4>1
      <4> QED BY <1>1, <4>1, <4>2
    <3> QED BY <3>1, <3>2
  <2>8. strayed' \in BOOLEAN BY <1>10
  <2>9. Typed' BY <2>6, <2>7, <2>8 DEF Typed
  <2>10. Kinds(jobs)' = Kinds(jobs') /\ Kinds(results)' = Kinds(results') BY DEF Kinds
  <2>11. view'.current = url /\ ~view'.loading /\ view'.deferred = view.deferred BY <2>2, <2>6
  <2>12. Entered' BY <2>7, <2>10, <2>11 DEF Entered
  <2> QED BY <2>6, <2>9, <2>12
<1> QED BY <1>2, <1>7, <1>8, <1>9, <1>10 DEF PageResult

\* A frame changes the entry and the current url together, or a page leaves.
LEMMA FrameResultKeeps ==
  ASSUME Typed, Entered, FrameResult
  PROVE  Typed' /\ Entered' /\ InputsKept
<1>1. /\ history \in Seq(Urls) /\ index \in 0..Len(history) /\ view \in Views /\ strayed \in BOOLEAN
      /\ jobs \in Seq(Jobs) /\ results \in Seq(Answers) /\ Len(history) \in Nat
      /\ view.redirects \in Nat /\ view.loading \in BOOLEAN
  BY DEF Typed, Views
<1>2. PICK res, rest : res = Head(results) /\ rest = Tail(results) OBVIOUS
<1>3. Result({"frame"}) BY DEF FrameResult
<1>4. /\ res \in Answers /\ res.kind = "frame" /\ "frame" \in Kinds(results)
      /\ rest \in Seq(Answers) /\ Kinds(rest) \subseteq Kinds(results)
  BY <1>2, <1>3, FirstAnswer
<1>5. /\ res.ok \in BOOLEAN /\ res.cur \in BOOLEAN /\ res.nav \in Urls \cup {None}
      /\ res.ok => res.url \in Urls
  BY <1>4, AnswerHolds
<1>6. index > 0 BY <1>4 DEF Entered
<1>7. PICK seen : seen = [view EXCEPT !.current = IF FrameUrl(res) THEN res.url ELSE @] OBVIOUS
<1>8. PICK cur : cur = IF FrameUrl(res) THEN res.url ELSE view.current OBVIOUS
<1>9. cur \in Urls \cup {None} BY <1>1, <1>5, <1>8 DEF FrameUrl, Views
<1>10. seen = [opened |-> view.opened, loading |-> view.loading, record |-> view.record, current |-> cur,
               redirects |-> view.redirects, inflight |-> view.inflight, sized |-> view.sized,
               deferred |-> view.deferred]
  BY <1>1, <1>7, <1>8 DEF Views
<1>11. /\ history' \in Seq(Urls) /\ index' \in 0..Len(history') /\ index' > 0
       /\ FrameUrl(res) => history'[index'] = cur
       /\ ~FrameUrl(res) => history' = history /\ index' = index /\ cur = view.current
  <2>1. CASE ~FrameUrl(res)
    <3>1. history' = history /\ index' = index BY <1>2, <2>1 DEF FrameResult
    <3> QED BY <1>1, <1>6, <1>8, <2>1, <3>1
  <2>2. CASE FrameUrl(res)
    <3>1. cur \in Urls /\ cur = res.url BY <1>5, <1>8, <2>2 DEF FrameUrl
    <3>2. PushHistory(cur) \/ ReplaceHistory(cur) BY <1>2, <2>2, <3>1 DEF FrameResult
    <3> QED BY <1>6, <2>2, <3>1, <3>2, Pushed, Replaced
  <2> QED BY <2>1, <2>2
<1>12. CASE res.cur /\ res.ok /\ Redirects(res)
  <2>1. PICK v, url : v = [seen EXCEPT !.redirects = @ + 1] /\ url = res.nav OBVIOUS
  <2>2. v = [opened |-> view.opened, loading |-> view.loading, record |-> view.record, current |-> cur,
             redirects |-> view.redirects + 1, inflight |-> view.inflight, sized |-> view.sized,
             deferred |-> view.deferred]
    BY <1>10, <2>1
  <2>3. v \in Views /\ v.deferred = view.deferred BY <1>1, <1>9, <2>2 DEF Views
  <2>4. url \in Urls BY <1>5, <1>12, <2>1 DEF Redirects
  <2>5. DoLoad(v, rest, url, FALSE, FALSE) /\ strayed' = TRUE BY <1>2, <1>7, <1>12, <2>1 DEF FrameResult
  <2> QED BY <1>4, <1>6, <1>11, <2>3, <2>4, <2>5, LoadEnters DEF InputsKept
<1>13. CASE ~(res.cur /\ res.ok /\ Redirects(res))
  <2>1. PICK busy \in BOOLEAN : busy <=> view.loading /\ ~(res.cur /\ ~res.ok) BY <1>1
  <2>2. /\ view' = [seen EXCEPT !.inflight = FALSE, !.loading = @ /\ ~(res.cur /\ ~res.ok)]
        /\ results' = rest /\ jobs' = jobs
    BY <1>2, <1>7, <1>13 DEF FrameResult
  <2>3. view' = [opened |-> view.opened, loading |-> (view.loading /\ ~(res.cur /\ ~res.ok)),
                 record |-> view.record, current |-> cur, redirects |-> view.redirects, inflight |-> FALSE,
                 sized |-> view.sized, deferred |-> view.deferred]
    BY <1>10, <2>2
  <2>4. (view.loading /\ ~(res.cur /\ ~res.ok)) \in BOOLEAN OBVIOUS
  <2>5. view' \in Views BY <1>1, <1>9, <2>3, <2>4 DEF Views
  <2>6. strayed' = ((strayed /\ ~FrameUrl(res)) \/ (res.cur /\ res.ok /\ Redirects(res)))
    BY <1>2 DEF FrameResult
  <2>7. strayed' \in BOOLEAN /\ (~FrameUrl(res) => (strayed' <=> strayed)) BY <1>1, <1>13, <2>6
  <2>8. Typed' BY <1>1, <1>4, <1>11, <2>2, <2>5, <2>7 DEF Typed
  <2>9. Kinds(jobs)' = Kinds(jobs') /\ Kinds(results)' = Kinds(results') BY DEF Kinds
  <2>10. /\ view'.current = cur /\ view'.opened = view.opened /\ view'.deferred = view.deferred
         /\ view'.loading => view.loading
    BY <2>3
  <2>11. view.opened => history'[index'] = cur \/ strayed'
    BY <1>11, <2>7 DEF Entered
  <2>12. Entered' BY <1>11, <2>9, <2>10, <2>11 DEF Entered
  <2> QED BY <2>2, <2>8, <2>12 DEF InputsKept
<1> QED BY <1>12, <1>13

\* A link is followed.
LEMMA InputResultKeeps ==
  ASSUME Typed, Entered, InputResult
  PROVE  Typed' /\ Entered' /\ InputsKept
<1>1. /\ history \in Seq(Urls) /\ index \in 0..Len(history) /\ view \in Views
  BY DEF Typed
<1>2. PICK res, rest : res = Head(results) /\ rest = Tail(results) OBVIOUS
<1>3. Result({"press", "release"}) BY DEF InputResult
<1>4. /\ res \in Answers /\ res.kind \in {"press", "release"}
      /\ rest \in Seq(Answers) /\ Kinds(rest) \subseteq Kinds(results)
  BY <1>2, <1>3, FirstAnswer
<1>5. CASE Dropped BY <1>3, <1>5, DroppedKeeps
<1>6. CASE ~Dropped
  <2>1. PICK url : url = res.href OBVIOUS
  <2>2. url # None /\ DoLoad(view, rest, url, TRUE, FALSE) /\ strayed' = FALSE /\ UNCHANGED <<history, index>>
    BY <1>2, <1>6, <2>1 DEF InputResult
  <2>3. url \in Urls BY <1>4, <2>1, <2>2, AnswerHolds
  <2>4. view.current # None => index > 0 BY DEF Entered
  <2> QED BY <1>1, <1>4, <2>2, <2>3, <2>4, LoadEnters DEF InputsKept
<1> QED BY <1>5, <1>6

\* An answer to the first request: a page to a load, a frame to a render.
LEMMA AnswerKeeps ==
  ASSUME Typed, Entered, NEW k, Job(k), NEW r \in Answers, Answer(r),
         r.kind = "page" => k = {"load"}, r.kind = "frame" => k = {"render"}
  PROVE  Typed' /\ Entered'
<1>1. jobs # <<>> /\ Head(jobs).kind \in k /\ jobs' = Tail(jobs) /\ UNCHANGED <<history, index, view, strayed>>
  BY DEF Job, uiVars
<1>2. jobs \in Seq(Jobs) /\ results \in Seq(Answers) BY DEF Typed
<1>3. /\ jobs' \in Seq(Jobs) /\ Kinds(jobs') \subseteq Kinds(jobs) /\ Head(jobs).kind \in Kinds(jobs)
  BY <1>1, <1>2, TakenKinds
<1>4. results' = Append(results, r) BY DEF Answer
<1>5. results' \in Seq(Answers) /\ Kinds(results') = Kinds(results) \cup {r.kind}
  BY <1>2, <1>4, SentKinds
<1>6. r.kind = "page" => "load" \in Kinds(jobs) BY <1>1, <1>3
<1>7. r.kind = "frame" => "render" \in Kinds(jobs) BY <1>1, <1>3
<1>8. Typed' BY <1>1, <1>3, <1>5 DEF Typed
<1>9. Kinds(jobs)' = Kinds(jobs') /\ Kinds(results)' = Kinds(results') BY DEF Kinds
<1>10. "render" \in Kinds(jobs') \/ "frame" \in Kinds(results') => index > 0
  BY <1>3, <1>5, <1>7 DEF Entered
<1>11. \/ index > 0 \/ view.record
       \/ "load" \notin Kinds(jobs') /\ "page" \notin Kinds(results') /\ view.deferred = NoLoad
  BY <1>3, <1>5, <1>6 DEF Entered
<1>12. Entered' BY <1>1, <1>9, <1>10, <1>11 DEF Entered
<1> QED BY <1>8, <1>12

\* A page that is opened, or restored, or cannot be opened.
LEMMA RunLoadKeeps ==
  ASSUME OwnInv, Typed, Entered, RunLoad
  PROVE  Typed' /\ Entered'
<1>1. Job({"load"}) BY DEF RunLoad
<1>2. PICK job, i : /\ job = Head(jobs) /\ i = (IF job.hist THEN Found(job.url) ELSE 0)
                    /\ IF i # 0 THEN Restore(job, i) ELSE Open(job)
  BY DEF RunLoad
<1>3. job.cur \in BOOLEAN /\ job.url \in Urls
  <2>1. jobs \in Seq(Jobs) /\ jobs # <<>> BY <1>1 DEF Typed, Job
  <2>2. job \in Jobs BY <1>2, <2>1, TakenKinds
  <2>3. job.kind = "load" BY <1>1, <1>2 DEF Job
  <2> QED BY <2>2, <2>3 DEF Jobs, LoadJobs, InputJobs, DrawJobs
<1>4. CASE i # 0
  <2>1. i \in DOMAIN cached BY <1>2, <1>4 DEF Found
  <2>2. cached[i] \in 1..Len(pages) /\ pages \in Seq(Pages)
    <3>1. cached \in Seq(1..Len(pages)) BY DEF OwnInv, Parted, Held
    <3> QED BY <2>1, <3>1, ElementOfSeq DEF OwnInv, Numbered
  <2>3. PICK q : q = pages[cached[i]] OBVIOUS
  <2>4. q.url \in Urls /\ q.nav \in Urls \cup {None}
    <3>1. q \in Pages BY <2>2, <2>3
    <3> QED BY <3>1 DEF Pages
  <2>5. PICK r : r = [kind |-> "page", cur |-> job.cur, ok |-> TRUE, url |-> q.url, nav |-> q.nav] OBVIOUS
  <2>6. r \in Answers /\ r.kind = "page" BY <1>3, <2>4, <2>5 DEF Answers, PageAnswers
  <2>7. Answer(r) BY <1>2, <1>4, <2>3, <2>5 DEF Restore
  <2> QED BY <1>1, <2>6, <2>7, AnswerKeeps
<1>5. CASE i = 0
  <2>1. Open(job) BY <1>2, <1>5
  <2>2. CASE Answer([kind |-> "page", cur |-> job.cur, ok |-> FALSE])
    <3>1. PICK r : r = [kind |-> "page", cur |-> job.cur, ok |-> FALSE] OBVIOUS
    <3>2. r \in Answers /\ r.kind = "page" BY <1>3, <3>1 DEF Answers, PageAnswers
    <3> QED BY <1>1, <2>2, <3>1, <3>2, AnswerKeeps
  <2>3. ASSUME NEW url \in Urls, NEW nav \in Urls \cup {None},
               Answer([kind |-> "page", cur |-> job.cur, ok |-> TRUE, url |-> url, nav |-> nav])
        PROVE  Typed' /\ Entered'
    <3>1. PICK r : r = [kind |-> "page", cur |-> job.cur, ok |-> TRUE, url |-> url, nav |-> nav] OBVIOUS
    <3>2. r \in Answers /\ r.kind = "page" BY <1>3, <2>3, <3>1 DEF Answers, PageAnswers
    <3> QED BY <1>1, <2>3, <3>1, <3>2, AnswerKeeps
  <2> QED BY <2>1, <2>2, <2>3 DEF Open
<1> QED BY <1>4, <1>5

\* A frame, and what an input comes to.
LEMMA RunOtherKeeps ==
  ASSUME OwnInv, Typed, Entered, RunRender \/ RunInput
  PROVE  Typed' /\ Entered'
<1>1. Head(jobs).cur \in BOOLEAN
  <2>1. jobs \in Seq(Jobs) /\ jobs # <<>> BY DEF Typed, RunRender, RunInput, Job
  <2>2. Head(jobs) \in Jobs BY <2>1, TakenKinds
  <2> QED BY <2>2 DEF Jobs, LoadJobs, InputJobs, DrawJobs
<1>2. CASE RunRender
  <2>1. Job({"render"}) BY <1>2 DEF RunRender
  <2>2. CASE page = 0
    <3>1. PICK r : r = [kind |-> "frame", cur |-> Head(jobs).cur, ok |-> FALSE, nav |-> None] OBVIOUS
    <3>2. r \in Answers /\ r.kind = "frame" BY <1>1, <3>1 DEF Answers, FrameAnswers
    <3>3. Answer(r) BY <1>2, <2>2, <3>1 DEF RunRender
    <3> QED BY <2>1, <3>2, <3>3, AnswerKeeps
  <2>3. CASE page # 0
    <3>1. PICK p : p = pages[page] OBVIOUS
    <3>2. p \in Pages
      <4>1. page \in {page} \ {0} BY <2>3
      <4>2. page \in 1..Len(pages) BY <4>1 DEF OwnInv, Parted, Held
      <4> QED BY <3>1, <4>2 DEF OwnInv, Numbered
    <3>3. PICK r : r = [kind |-> "frame", cur |-> Head(jobs).cur, ok |-> TRUE, url |-> p.url,
                        pushed |-> p.pushed, nav |-> p.nav]
      OBVIOUS
    <3>4. r \in Answers /\ r.kind = "frame" BY <1>1, <3>2, <3>3 DEF Answers, FrameAnswers, Pages
    <3>5. Answer(r) BY <1>2, <2>3, <3>1, <3>3 DEF RunRender
    <3> QED BY <2>1, <3>4, <3>5, AnswerKeeps
  <2> QED BY <2>2, <2>3
<1>3. CASE RunInput
  <2>1. Job({"press", "release"}) BY <1>3 DEF RunInput
  <2>2. PICK href \in Urls \cup {None} : Answer([kind |-> Head(jobs).kind, cur |-> Head(jobs).cur, href |-> href])
    BY <1>3 DEF RunInput
  <2>3. PICK r : r = [kind |-> Head(jobs).kind, cur |-> Head(jobs).cur, href |-> href] OBVIOUS
  <2>4. r \in LinkAnswers BY <1>1, <2>1, <2>3 DEF LinkAnswers, Job
  <2>5. r \in Answers /\ r.kind # "page" /\ r.kind # "frame" BY <2>4 DEF Answers, LinkAnswers
  <2> QED BY <2>1, <2>2, <2>3, <2>5, AnswerKeeps
<1> QED BY <1>2, <1>3

\* Script changes a page only.
LEMMA ScriptKeeps ==
  ASSUME Typed, Entered, UNCHANGED <<uiVars, jobs, results>>
  PROVE  Typed' /\ Entered' /\ InputsKept
<1>1. UNCHANGED <<history, index, view, strayed, jobs, results>> BY DEF uiVars
<1>2. Typed' BY <1>1 DEF Typed
<1>3. Kinds(jobs)' = Kinds(jobs) /\ Kinds(results)' = Kinds(results) BY <1>1 DEF Kinds
<1>4. Entered' BY <1>1, <1>3 DEF Entered
<1> QED BY <1>1, <1>2, <1>4 DEF InputsKept

\* The queues and the view are typed at the start, and nothing is entered.
LEMMA EnteredInit == HistoryInit => Typed /\ Entered
<1> SUFFICES ASSUME HistoryInit PROVE Typed /\ Entered OBVIOUS
<1>1. PICK sized \in BOOLEAN :
        view = [opened |-> FALSE, loading |-> FALSE, record |-> FALSE, current |-> None,
                redirects |-> 0, inflight |-> FALSE, sized |-> sized, deferred |-> NoLoad]
  BY DEF HistoryInit
<1>2. history = <<>> /\ index = 0 /\ jobs = <<>> /\ results = <<>> /\ strayed = FALSE BY DEF HistoryInit
<1>3. view \in Views BY <1>1 DEF Views
<1>4. Typed
  <2>1. history \in Seq(Urls) /\ jobs \in Seq(Jobs) /\ results \in Seq(Answers) BY <1>2, EmptySeq
  <2>2. Len(history) \in Nat BY <2>1, LenProperties
  <2>3. 0 \in 0..Len(history) BY <2>2
  <2> QED BY <1>2, <1>3, <2>1, <2>3 DEF Typed
<1>5. Kinds(jobs) = {} /\ Kinds(results) = {} BY <1>2 DEF Kinds
<1>6. Entered BY <1>1, <1>2, <1>5 DEF Entered
<1> QED BY <1>4, <1>6

\* Each step keeps what is entered.
LEMMA EnteredNext ==
  ASSUME OwnInv, Typed, Entered, [HistoryNext]_vars
  PROVE  Typed' /\ Entered'
<1>1. CASE Load \/ Traverse \/ Reload \/ Resize BY <1>1, UserKeeps
<1>2. CASE Stop \/ Input \/ RequestRender
  <2>1. events \in Nat BY DEF OwnInv, Numbered
  <2> QED BY <1>2, <2>1, AskKeeps
<1>3. CASE PageResult BY <1>3, PageResultKeeps
<1>4. CASE FrameResult BY <1>4, FrameResultKeeps
<1>5. CASE InputResult BY <1>5, InputResultKeeps
<1>6. CASE RunLoad BY <1>6, RunLoadKeeps
<1>7. CASE RunRender \/ RunInput BY <1>7, RunOtherKeeps
<1>8. CASE SoftNavigate \/ Navigate \/ Submit
  <2>1. UNCHANGED <<uiVars, jobs, results>> BY <1>8 DEF SoftNavigate, Navigate, Submit, Script
  <2> QED BY <2>1, ScriptKeeps
<1>9. CASE UNCHANGED vars
  <2>1. UNCHANGED <<uiVars, jobs, results>> BY <1>9 DEF vars
  <2> QED BY <2>1, ScriptKeeps
<1> QED BY <1>1, <1>2, <1>3, <1>4, <1>5, <1>6, <1>7, <1>8, <1>9 DEF HistoryNext, View, Engine

\* For any number of urls, redirects and pages: whatever loads, results and changes of
\* the url overtook each other, the entry the index is on is the page that is shown,
\* unless the last navigation was one that is not recorded and ended elsewhere
\* (push_history, replace_history, do_load and on_result in src/src/gtk/procview.c).
THEOREM EntryIsShown == HistorySpec => []EntryShown
<1>1. HistoryInit => OwnInv /\ Typed /\ Entered BY OwnInvInit, EnteredInit
<1>2. OwnInv /\ Typed /\ Entered /\ [HistoryNext]_vars => OwnInv' /\ Typed' /\ Entered'
  BY OwnInvNext, EnteredNext
<1>3. Entered => EntryShown BY DEF Entered, EntryShown
<1> QED BY <1>1, <1>2, <1>3, PTL DEF HistorySpec

-----------------------------------------------------------------------------
(* The bodies: each is on the page that submitted it, or stashed, or sent.   *)

RealForms == [body : Nat, action : Urls, from : Nat]
Stashes   == [url : Urls \cup {None}, form : Forms]
Posts     == [form : RealForms, to : Urls, left : Nat]

\* The forms of the pages, of the stash, and of what was sent.
On(pgs) == {pgs[p].form : p \in 1..Len(pgs)} \ {NoForm}
At(po)  == {po.form} \ {NoForm}
Gone(s) == {s[i].form : i \in 1..Len(s)}

\* A page has its own form, the stash that of the current page, and each is sent once.
Own(pgs) == \A p \in 1..Len(pgs) : pgs[p].form # NoForm => pgs[p].form.from = p
Stashed(po, pg) ==
  /\ po \in Stashes
  /\ po.url \in Urls => po.form # NoForm
  /\ po.form # NoForm => po.form.from = pg
SentOnce(s) ==
  /\ s \in Seq(Posts)
  /\ \A i \in 1..Len(s) : s[i].left = s[i].form.from
  /\ \A i, j \in 1..Len(s) : s[i].form = s[j].form => i = j

\* No form is in two of the places, no two have the same body, and no input that waits
\* has the body of one.
Split(on, at, gone, ins, n) ==
  /\ on \cup at \cup gone \subseteq RealForms /\ ins \subseteq Nat
  /\ \A f \in on \cup at \cup gone : f.body < n /\ f.body \notin ins
  /\ \A b \in ins : b < n
  /\ \A f, g \in on \cup at \cup gone : f.body = g.body => f = g
  /\ on \cap at = {} /\ on \cap gone = {} /\ at \cap gone = {}

BodyInv ==
  /\ Apart(jobs) /\ Stashed(post, page) /\ Own(pages) /\ SentOnce(sent)
  /\ Split(On(pages), At(post), Gone(sent), Inputs(jobs), events)

\* One page changes: its form goes, and another may come.
LEMMA FormChanged ==
  ASSUME NEW pgs \in Seq(Pages), Own(pgs), NEW p \in 1..Len(pgs), NEW q \in Pages,
         q.form # NoForm => q.form.from = p, NEW new, new = [pgs EXCEPT ![p] = q]
  PROVE  /\ Own(new)
         /\ On(new) \subseteq (On(pgs) \ {pgs[p].form}) \cup ({q.form} \ {NoForm})
<1>1. Len(new) = Len(pgs) /\ new[p] = q /\ \A i \in 1..Len(pgs) : i # p => new[i] = pgs[i]
  BY ExceptSeq
<1>2. Own(new) BY <1>1 DEF Own
<1>3. ASSUME NEW i \in 1..Len(pgs), new[i].form # NoForm
      PROVE  new[i].form \in (On(pgs) \ {pgs[p].form}) \cup ({q.form} \ {NoForm})
  <2>1. CASE i = p BY <1>1, <1>3, <2>1
  <2>2. CASE i # p
    <3>1. new[i].form = pgs[i].form BY <1>1, <2>2
    <3>2. pgs[i].form.from = i BY <1>3, <3>1 DEF Own
    <3>3. pgs[i].form # pgs[p].form
      <4>1. pgs[p].form # NoForm => pgs[p].form.from = p BY DEF Own
      <4> QED BY <1>3, <2>2, <3>1, <3>2, <4>1
    <3> QED BY <1>3, <3>1, <3>3 DEF On
  <2> QED BY <2>1, <2>2
<1>4. On(new) \subseteq (On(pgs) \ {pgs[p].form}) \cup ({q.form} \ {NoForm})
  <2>1. PICK all : all = (On(pgs) \ {pgs[p].form}) \cup ({q.form} \ {NoForm}) OBVIOUS
  <2>2. \A i \in 1..Len(new) : new[i].form # NoForm => new[i].form \in all BY <1>1, <1>3, <2>1
  <2>3. On(new) \subseteq all BY <2>2 DEF On
  <2> QED BY <2>1, <2>3
<1> QED BY <1>2, <1>4

\* A page comes, with a form or without.
LEMMA FormAdded ==
  ASSUME NEW pgs \in Seq(Pages), Own(pgs), NEW q \in Pages,
         q.form # NoForm => q.form.from = Len(pgs) + 1, NEW new, new = Append(pgs, q)
  PROVE  Own(new) /\ On(new) \subseteq On(pgs) \cup ({q.form} \ {NoForm})
<1>1. /\ Len(new) = Len(pgs) + 1 /\ Len(pgs) \in Nat /\ new[Len(pgs) + 1] = q
      /\ \A i \in 1..Len(pgs) : new[i] = pgs[i]
  BY AppendProperties, LenProperties
<1>2. 1..(Len(pgs) + 1) = (1..Len(pgs)) \cup {Len(pgs) + 1} BY <1>1
<1>3. Own(new) BY <1>1, <1>2 DEF Own
<1>4. On(new) \subseteq On(pgs) \cup ({q.form} \ {NoForm}) BY <1>1, <1>2 DEF On
<1> QED BY <1>3, <1>4

\* A form is sent, from the page it is left with.
LEMMA FormSent ==
  ASSUME NEW s, SentOnce(s), NEW m \in Posts, m.left = m.form.from, m.form \notin Gone(s),
         NEW new, new = Append(s, m)
  PROVE  SentOnce(new) /\ Gone(new) = Gone(s) \cup {m.form}
<1>0. s \in Seq(Posts) BY DEF SentOnce
<1>1. /\ new \in Seq(Posts) /\ Len(new) = Len(s) + 1 /\ Len(s) \in Nat /\ new[Len(s) + 1] = m
      /\ \A i \in 1..Len(s) : new[i] = s[i]
  BY <1>0, AppendProperties, LenProperties
<1>2. 1..(Len(s) + 1) = (1..Len(s)) \cup {Len(s) + 1} BY <1>1
<1>3. Gone(new) = Gone(s) \cup {m.form} BY <1>1, <1>2 DEF Gone
<1>4. \A i \in 1..Len(new) : new[i].left = new[i].form.from BY <1>1, <1>2 DEF SentOnce
<1>5. \A i \in 1..Len(s) : s[i].form # m.form BY DEF Gone
<1>6. \A i, j \in 1..Len(new) : new[i].form = new[j].form => i = j BY <1>1, <1>2, <1>5 DEF SentOnce
<1> QED BY <1>1, <1>3, <1>4, <1>6 DEF SentOnce

\* Forms go, inputs go, and events come.
LEMMA SplitLess ==
  ASSUME NEW on, NEW at, NEW gone, NEW ins, NEW n \in Nat, Split(on, at, gone, ins, n),
         NEW on2 \in SUBSET on, NEW at2 \in SUBSET at, NEW ins2 \in SUBSET ins,
         NEW n2 \in Nat, n2 >= n
  PROVE  Split(on2, at2, gone, ins2, n2)
<1>1. /\ on \cup at \cup gone \subseteq RealForms /\ ins \subseteq Nat
      /\ \A f \in on \cup at \cup gone : f.body \in Nat /\ f.body < n /\ f.body \notin ins
      /\ \A b \in ins : b < n
      /\ \A f, g \in on \cup at \cup gone : f.body = g.body => f = g
      /\ on \cap at = {} /\ on \cap gone = {} /\ at \cap gone = {}
  BY DEF Split, RealForms
<1>2. on2 \cup at2 \cup gone \subseteq on \cup at \cup gone OBVIOUS
<1>3. \A f \in on2 \cup at2 \cup gone : f.body < n2 BY <1>1, <1>2
<1>4. \A b \in ins2 : b < n2 BY <1>1
<1>5. /\ on2 \cup at2 \cup gone \subseteq RealForms /\ ins2 \subseteq Nat
      /\ \A f \in on2 \cup at2 \cup gone : f.body \notin ins2
      /\ \A f, g \in on2 \cup at2 \cup gone : f.body = g.body => f = g
  BY <1>1, <1>2
<1>6. on2 \cap at2 = {} /\ on2 \cap gone = {} /\ at2 \cap gone = {} BY <1>1
<1> QED BY <1>3, <1>4, <1>5, <1>6 DEF Split

\* A body that is new, or was an input's, comes to a page or to the stash.
LEMMA SplitMore ==
  ASSUME NEW on, NEW at, NEW gone, NEW ins, NEW n \in Nat, Split(on, at, gone, ins, n),
         NEW f \in RealForms, f.body < n, f.body \notin ins,
         \A g \in on \cup at \cup gone : g.body # f.body
  PROVE  Split(on \cup {f}, at, gone, ins, n) /\ Split(on, {f}, gone, ins, n)
<1>1. /\ on \cup at \cup gone \subseteq RealForms /\ ins \subseteq Nat
      /\ \A g \in on \cup at \cup gone : g.body < n /\ g.body \notin ins
      /\ \A b \in ins : b < n
      /\ \A g, h \in on \cup at \cup gone : g.body = h.body => g = h
      /\ on \cap at = {} /\ on \cap gone = {} /\ at \cap gone = {}
  BY DEF Split
<1>2. f \notin on \cup at \cup gone OBVIOUS
<1>3. \A g, h \in (on \cup at \cup gone) \cup {f} : g.body = h.body => g = h BY <1>1
<1>4. Split(on \cup {f}, at, gone, ins, n)
  <2>1. on \cup {f} \cup at \cup gone = (on \cup at \cup gone) \cup {f} OBVIOUS
  <2>2. \A g, h \in on \cup {f} \cup at \cup gone : g.body = h.body => g = h BY <1>3, <2>1
  <2>3. \A g \in on \cup {f} \cup at \cup gone : g \in RealForms /\ g.body < n /\ g.body \notin ins
    BY <1>1, <2>1
  <2>4. (on \cup {f}) \cap at = {} /\ (on \cup {f}) \cap gone = {} BY <1>1, <1>2
  <2> QED BY <1>1, <2>2, <2>3, <2>4 DEF Split
<1>5. Split(on, {f}, gone, ins, n)
  <2>1. on \cup {f} \cup gone \subseteq (on \cup at \cup gone) \cup {f} OBVIOUS
  <2>2. \A g, h \in on \cup {f} \cup gone : g.body = h.body => g = h BY <1>3, <2>1
  <2>3. \A g \in on \cup {f} \cup gone : g \in RealForms /\ g.body < n /\ g.body \notin ins
    BY <1>1, <2>1
  <2>4. on \cap {f} = {} /\ {f} \cap gone = {} BY <1>2
  <2> QED BY <1>1, <2>2, <2>3, <2>4 DEF Split
<1> QED BY <1>4, <1>5

\* The first request is taken.
LEMMA InputTaken ==
  ASSUME Typed, BodyInv, NEW k, Job(k)
  PROVE  /\ Apart(jobs') /\ Inputs(jobs') \subseteq Inputs(jobs)
         /\ Head(jobs) \in Jobs
         /\ IsInput(Head(jobs)) => Head(jobs).n \in Inputs(jobs) /\ Head(jobs).n \notin Inputs(jobs')
<1>1. jobs # <<>> /\ jobs' = Tail(jobs) /\ jobs \in Seq(Jobs) BY DEF Job, Typed
<1>2. PICK t : t = Tail(jobs) OBVIOUS
<1>3. /\ Inputs(Tail(jobs)) \subseteq Inputs(jobs) /\ Apart(Tail(jobs))
      /\ IsInput(Head(jobs)) => Head(jobs).n \in Inputs(jobs) /\ Head(jobs).n \notin Inputs(Tail(jobs))
  BY <1>1, TakenInputs DEF BodyInv
<1>4. Head(jobs) \in Jobs BY <1>1, TakenKinds
<1> QED BY <1>1, <1>3, <1>4

\* The view's steps, which may send an input with a body no form has.
LEMMA ViewBodies ==
  ASSUME OwnInv, Typed, BodyInv, UNCHANGED engVars, events' \in Nat, events' >= events,
         \/ InputsKept
         \/ /\ events' = events + 1 /\ Inputs(jobs') = Inputs(jobs) \cup {events}
            /\ Apart(jobs) /\ events \notin Inputs(jobs) => Apart(jobs')
  PROVE  BodyInv'
<1>0. events \in Nat BY DEF OwnInv, Numbered
<1>1. UNCHANGED <<page, post, pages, sent>> BY DEF engVars
<1>2. /\ Apart(jobs) /\ Stashed(post, page) /\ Own(pages) /\ SentOnce(sent)
      /\ Split(On(pages), At(post), Gone(sent), Inputs(jobs), events)
  BY DEF BodyInv
<1>3. PICK on, at, gone, ins : on = On(pages) /\ at = At(post) /\ gone = Gone(sent) /\ ins = Inputs(jobs)
  OBVIOUS
<1>4. Apart(jobs') /\ Split(on, at, gone, Inputs(jobs'), events')
  <2>1. CASE InputsKept
    <3>1. Apart(jobs') /\ Inputs(jobs') = ins BY <1>2, <1>3, <2>1 DEF InputsKept
    <3>2. Split(on, at, gone, ins, events') BY <1>0, <1>2, <1>3, SplitLess
    <3> QED BY <3>1, <3>2
  <2>2. CASE /\ events' = events + 1 /\ Inputs(jobs') = Inputs(jobs) \cup {events}
             /\ Apart(jobs) /\ events \notin Inputs(jobs) => Apart(jobs')
    <3>1. /\ on \cup at \cup gone \subseteq RealForms /\ ins \subseteq Nat
          /\ \A f \in on \cup at \cup gone : f.body \in Nat /\ f.body < events /\ f.body \notin ins
          /\ \A b \in ins : b < events
          /\ \A f, g \in on \cup at \cup gone : f.body = g.body => f = g
          /\ on \cap at = {} /\ on \cap gone = {} /\ at \cap gone = {}
      BY <1>2, <1>3 DEF Split, RealForms
    <3>2. events \notin ins BY <1>0, <3>1
    <3>3. \A f \in on \cup at \cup gone : f.body < events + 1 /\ f.body # events BY <1>0, <3>1
    <3>4. \A b \in ins : b < events + 1 BY <1>0, <3>1
    <3>5. PICK ins2 : ins2 = ins \cup {events} OBVIOUS
    <3>6. /\ \A f \in on \cup at \cup gone : f.body < events + 1 /\ f.body \notin ins2
          /\ ins2 \subseteq Nat /\ \A b \in ins2 : b < events + 1
      BY <1>0, <3>1, <3>3, <3>4, <3>5
    <3>7. Split(on, at, gone, ins2, events + 1) BY <3>1, <3>6 DEF Split
    <3>8. Inputs(jobs') = ins2 BY <1>3, <2>2, <3>5
    <3> QED BY <1>2, <1>3, <2>2, <3>2, <3>7, <3>8
  <2> QED BY <2>1, <2>2
<1>5. Stashed(post', page') /\ Own(pages') /\ SentOnce(sent') BY <1>1, <1>2
<1>6. Split(On(pages'), At(post'), Gone(sent'), Inputs(jobs'), events') BY <1>1, <1>3, <1>4
<1> QED BY <1>4, <1>5, <1>6 DEF BodyInv

\* What a new state is to show for the invariant.
LEMMA BodiesKept ==
  ASSUME Apart(jobs'), Stashed(post', page'), Own(pages'), SentOnce(sent'),
         Split(On(pages'), At(post'), Gone(sent'), Inputs(jobs'), events')
  PROVE  BodyInv'
BY DEF BodyInv

\* The stash is empty.
LEMMA NoStash == Stashed(NoPost, page') /\ At(NoPost) = {}
<1>1. NoPost.url = None /\ NoPost.form = NoForm BY DEF NoPost
<1>2. NoPost \in Stashes BY <1>1 DEF NoPost, Stashes, Forms
<1> QED BY <1>1, <1>2, NoneAssumption DEF Stashed, At, NoneAssumption

\* A page is restored: its form stays with it.
LEMMA RestoreBodies ==
  ASSUME OwnInv, Typed, BodyInv, Job({"load"}), NEW job, NEW i \in 1..Len(cached), Restore(job, i), ClearPost
  PROVE  BodyInv'
<1>0. events \in Nat /\ pages \in Seq(Pages) BY DEF OwnInv, Numbered
<1>1. PICK p : p = cached[i] OBVIOUS
<1>2. p \in 1..Len(pages)
  <2>1. cached \in Seq(1..Len(pages)) BY DEF OwnInv, Parted, Held
  <2> QED BY <1>1, <2>1
<1>3. pages' = [pages EXCEPT ![p].nav = None] /\ sent' = sent /\ events' = events /\ post' = NoPost
  BY <1>1 DEF Restore, ClearPost
<1>4. PICK q : q = [pages[p] EXCEPT !.nav = None] OBVIOUS
<1>5. pages[p] \in Pages BY <1>0, <1>2
<1>6. q \in Pages /\ q.form = pages[p].form
  <2>1. q = [url |-> pages[p].url, pushed |-> pages[p].pushed, dirty |-> pages[p].dirty, nav |-> None,
             eligible |-> pages[p].eligible, form |-> pages[p].form]
    BY <1>4, <1>5 DEF Pages
  <2> QED BY <1>5, <2>1 DEF Pages
<1>7. pages' = [pages EXCEPT ![p] = q] BY <1>3, <1>4
<1>8. Own(pages) /\ SentOnce(sent) /\ Split(On(pages), At(post), Gone(sent), Inputs(jobs), events)
  BY DEF BodyInv
<1>9. q.form # NoForm => q.form.from = p BY <1>2, <1>6, <1>8 DEF Own
<1>10. /\ Own(pages')
       /\ On(pages') \subseteq (On(pages) \ {pages[p].form}) \cup ({q.form} \ {NoForm})
  BY <1>0, <1>2, <1>6, <1>7, <1>8, <1>9, FormChanged
<1>11. On(pages') \subseteq On(pages) BY <1>2, <1>6, <1>10 DEF On
<1>12. Apart(jobs') /\ Inputs(jobs') \subseteq Inputs(jobs) BY InputTaken
<1>13. Stashed(post', page') /\ At(post') = {} BY <1>3, NoStash
<1>14. Split(On(pages'), At(post'), Gone(sent'), Inputs(jobs'), events')
  <2>1. PICK on2, at2, ins2 : on2 = On(pages') /\ at2 = At(post') /\ ins2 = Inputs(jobs') OBVIOUS
  <2>2. PICK on, at, gone, ins : on = On(pages) /\ at = At(post) /\ gone = Gone(sent) /\ ins = Inputs(jobs)
    OBVIOUS
  <2>3. Split(on, at, gone, ins, events) BY <1>8, <2>2
  <2>4. Split(on2, at2, gone, ins2, events) BY <1>0, <1>11, <1>12, <1>13, <2>1, <2>2, <2>3, SplitLess
  <2> QED BY <1>3, <2>1, <2>2, <2>4
<1> QED BY <1>3, <1>8, <1>10, <1>12, <1>13, <1>14, BodiesKept

\* A load that is not restored sends what is stashed for it, and what is not is forgotten.
LEMMA StashSent ==
  ASSUME OwnInv, Typed, BodyInv, NEW url \in Urls,
         sent' = IF PostFor(url) THEN Append(sent, [form |-> post.form, to |-> url, left |-> page]) ELSE sent
  PROVE  SentOnce(sent') /\ Gone(sent') \subseteq Gone(sent) \cup At(post)
<1>1. SentOnce(sent) /\ Stashed(post, page) /\ Split(On(pages), At(post), Gone(sent), Inputs(jobs), events)
  BY DEF BodyInv
<1>2. CASE ~PostFor(url)
  <2>1. sent' = sent BY <1>2
  <2> QED BY <1>1, <2>1
<1>3. CASE PostFor(url)
  <2>1. post.url = url BY <1>3 DEF PostFor
  <2>2. post.form # NoForm /\ post.form.from = page /\ post.form \in Forms
    BY <1>1, <2>1 DEF Stashed, Stashes
  <2>3. PICK f : f = post.form OBVIOUS
  <2>4. f \in RealForms /\ f \in At(post) BY <2>2, <2>3 DEF Forms, RealForms, At
  <2>5. f \notin Gone(sent) BY <1>1, <2>4 DEF Split
  <2>6. PICK m : m = [form |-> f, to |-> url, left |-> page] OBVIOUS
  <2>7. page \in Nat BY DEF OwnInv, Numbered
  <2>8. m \in Posts /\ m.form = f /\ m.left = m.form.from BY <2>2, <2>3, <2>4, <2>6, <2>7 DEF Posts
  <2>9. sent' = Append(sent, m) BY <1>3, <2>3, <2>6
  <2>10. SentOnce(sent') /\ Gone(sent') = Gone(sent) \cup {m.form} BY <1>1, <2>5, <2>8, <2>9, FormSent
  <2> QED BY <2>4, <2>8, <2>10
<1> QED BY <1>2, <1>3

\* What is stashed is sent or forgotten, and the pages have what they had.
LEMMA SplitSent ==
  ASSUME NEW on, NEW at, NEW gone, NEW ins, NEW n \in Nat, Split(on, at, gone, ins, n),
         NEW gone2 \in SUBSET (gone \cup at), NEW on2 \in SUBSET on, NEW ins2 \in SUBSET ins
  PROVE  Split(on2, {}, gone2, ins2, n)
<1>1. /\ on \cup at \cup gone \subseteq RealForms /\ ins \subseteq Nat
      /\ \A f \in on \cup at \cup gone : f.body < n /\ f.body \notin ins
      /\ \A b \in ins : b < n
      /\ \A f, g \in on \cup at \cup gone : f.body = g.body => f = g
      /\ on \cap at = {} /\ on \cap gone = {} /\ at \cap gone = {}
  BY DEF Split
<1>2. on2 \cup {} \cup gone2 \subseteq on \cup at \cup gone OBVIOUS
<1>3. \A f, g \in on2 \cup {} \cup gone2 : f.body = g.body => f = g BY <1>1, <1>2
<1>4. /\ on2 \cup {} \cup gone2 \subseteq RealForms /\ ins2 \subseteq Nat
      /\ \A f \in on2 \cup {} \cup gone2 : f.body < n /\ f.body \notin ins2
      /\ \A b \in ins2 : b < n
  BY <1>1, <1>2
<1>5. on2 \cap gone2 = {} BY <1>1
<1> QED BY <1>3, <1>4, <1>5 DEF Split

\* A page is opened, with a form of its own or none.
LEMMA OpenBodies ==
  ASSUME OwnInv, Typed, BodyInv, Job({"load"}), NEW job, job.url \in Urls, Open(job), ClearPost
  PROVE  BodyInv'
<1>0. events \in Nat /\ pages \in Seq(Pages) BY DEF OwnInv, Numbered
<1>1. PICK on, at, gone, ins : on = On(pages) /\ at = At(post) /\ gone = Gone(sent) /\ ins = Inputs(jobs)
  OBVIOUS
<1>2. Own(pages) /\ Split(on, at, gone, ins, events) BY <1>1 DEF BodyInv
<1>3. Apart(jobs') /\ Inputs(jobs') \subseteq ins BY <1>1, InputTaken
<1>4. post' = NoPost BY DEF ClearPost
<1>5. Stashed(post', page') /\ At(post') = {} BY <1>4, NoStash
<1>6. PICK url : url = job.url OBVIOUS
<1>7. sent' = IF PostFor(url) THEN Append(sent, [form |-> post.form, to |-> url, left |-> page]) ELSE sent
  BY <1>6 DEF Open
<1>8. SentOnce(sent') /\ Gone(sent') \subseteq gone \cup at BY <1>1, <1>6, <1>7, StashSent
<1>9. PICK gone2, ins2 : gone2 = Gone(sent') /\ ins2 = Inputs(jobs') OBVIOUS
<1>10. Split(on, {}, gone2, ins2, events) BY <1>0, <1>2, <1>3, <1>8, <1>9, SplitSent
<1>11. CASE UNCHANGED <<pages, events>>
  <2>1. Own(pages') /\ On(pages') = on BY <1>1, <1>2, <1>11
  <2>2. Split(On(pages'), At(post'), Gone(sent'), Inputs(jobs'), events')
    BY <1>5, <1>9, <1>10, <1>11, <2>1
  <2> QED BY <1>3, <1>5, <1>8, <2>1, <2>2, BodiesKept
<1>12. ASSUME NEW to \in Urls, NEW eligible \in BOOLEAN, NEW nav \in Urls \cup {None}, NEW posts \in BOOLEAN,
              IF to = job.url /\ nav = None THEN UNCHANGED events ELSE Event,
              posts => nav # None, page' = Len(pages) + 1,
              pages' = Append(pages,
                [url |-> to, pushed |-> FALSE, dirty |-> FALSE, nav |-> None, eligible |-> eligible,
                 form |-> IF posts THEN Form(events, page', nav) ELSE NoForm])
       PROVE  BodyInv'
  <2>1. Len(pages) \in Nat /\ page' \in Nat BY <1>0, <1>12
  <2>2. PICK form : form = IF posts THEN Form(events, page', nav) ELSE NoForm OBVIOUS
  <2>3. PICK q : q = [url |-> to, pushed |-> FALSE, dirty |-> FALSE, nav |-> None, eligible |-> eligible,
                      form |-> form]
    OBVIOUS
  <2>4. pages' = Append(pages, q) BY <1>12, <2>2, <2>3
  <2>5. events' = events \/ events' = events + 1 BY <1>12 DEF Event
  <2>6. CASE posts
    <3>1. form = [body |-> events, action |-> nav, from |-> page'] /\ nav \in Urls
      BY <1>12, <2>2, <2>6 DEF Form
    <3>2. form \in RealForms /\ form \in Forms BY <1>0, <2>1, <3>1 DEF RealForms, Forms
    <3>3. form.body = events /\ form.from = Len(pages) + 1 BY <1>12, <3>1
    <3>4. q \in Pages /\ q.form = form BY <1>12, <2>3, <3>2 DEF Pages
    <3>5. Own(pages') /\ On(pages') \subseteq On(pages) \cup ({q.form} \ {NoForm})
      BY <1>0, <1>2, <2>4, <3>3, <3>4, FormAdded
    <3>6. PICK on2 : on2 = On(pages') OBVIOUS
    <3>7. events' = events + 1 BY <1>12, <2>6 DEF Event
    <3>8. Split(on, {}, gone2, ins2, events + 1)
      <4>1. PICK empty : empty = {} OBVIOUS
      <4>2. Split(on, empty, gone2, ins2, events) BY <1>10, <4>1
      <4>3. Split(on, empty, gone2, ins2, events + 1) BY <1>0, <4>2, SplitLess
      <4> QED BY <4>1, <4>3
    <3>9. /\ \A f \in on \cup {} \cup gone2 : f \in RealForms /\ f.body < events
          /\ \A b \in ins2 : b \in Nat /\ b < events
      BY <1>10 DEF Split
    <3>10. \A f \in on \cup {} \cup gone2 : f.body # form.body BY <1>0, <3>3, <3>9
    <3>11. form.body \notin ins2 /\ form.body < events + 1 BY <1>0, <3>3, <3>9
    <3>12. Split(on \cup {form}, {}, gone2, ins2, events + 1)
      <4>1. PICK n2, empty : n2 = events + 1 /\ empty = {} OBVIOUS
      <4>2. n2 \in Nat /\ Split(on, empty, gone2, ins2, n2) BY <1>0, <3>8, <4>1
      <4>3. form.body < n2 /\ \A g \in on \cup empty \cup gone2 : g.body # form.body BY <3>10, <3>11, <4>1
      <4>4. Split(on \cup {form}, empty, gone2, ins2, n2) BY <3>2, <3>11, <4>2, <4>3, SplitMore
      <4> QED BY <4>1, <4>4
    <3>13. on2 \subseteq on \cup {form} BY <1>1, <3>4, <3>5, <3>6
    <3>14. Split(on2, {}, gone2, ins2, events + 1)
      <4>1. PICK more, empty : more = on \cup {form} /\ empty = {} OBVIOUS
      <4>2. Split(more, empty, gone2, ins2, events + 1) BY <3>12, <4>1
      <4>3. Split(on2, empty, gone2, ins2, events + 1) BY <1>0, <3>13, <4>1, <4>2, SplitLess
      <4> QED BY <4>1, <4>3
    <3>15. Split(On(pages'), At(post'), Gone(sent'), Inputs(jobs'), events')
      BY <1>5, <1>9, <3>6, <3>7, <3>14
    <3> QED BY <1>3, <1>5, <1>8, <3>5, <3>15, BodiesKept
  <2>7. CASE ~posts
    <3>1. form = NoForm BY <2>2, <2>7
    <3>2. q \in Pages /\ q.form = NoForm BY <1>12, <2>3, <3>1 DEF Pages, Forms
    <3>3. Own(pages') /\ On(pages') \subseteq On(pages) \cup ({q.form} \ {NoForm})
      BY <1>0, <1>2, <2>4, <3>2, FormAdded
    <3>4. PICK on2, n2 : on2 = On(pages') /\ n2 = events' OBVIOUS
    <3>5. on2 \subseteq on /\ n2 \in Nat /\ n2 >= events BY <1>0, <1>1, <2>5, <3>2, <3>3, <3>4
    <3>6. Split(on2, {}, gone2, ins2, n2)
      <4>1. PICK empty : empty = {} OBVIOUS
      <4>2. Split(on, empty, gone2, ins2, events) BY <1>10, <4>1
      <4>3. Split(on2, empty, gone2, ins2, n2) BY <1>0, <3>5, <4>2, SplitLess
      <4> QED BY <4>1, <4>3
    <3>7. Split(On(pages'), At(post'), Gone(sent'), Inputs(jobs'), events')
      BY <1>5, <1>9, <3>4, <3>6
    <3> QED BY <1>3, <1>5, <1>8, <3>3, <3>7, BodiesKept
  <2> QED BY <2>6, <2>7
<1> QED BY <1>11, <1>12 DEF Open

\* A form is taken from its page, or from an input, to the stash.
LEMMA SplitStashed ==
  ASSUME NEW on, NEW at, NEW gone, NEW ins, NEW n \in Nat, Split(on, at, gone, ins, n),
         NEW f \in RealForms, NEW ins2 \in SUBSET ins, NEW on2 \in SUBSET on, f \notin on2,
         f \in on \/ (f.body \in ins /\ f.body \notin ins2)
  PROVE  Split(on2, {f}, gone, ins2, n)
<1>1. PICK empty : empty = {} OBVIOUS
<1>2. Split(on2, empty, gone, ins2, n) BY <1>1, SplitLess
<1>3. /\ \A g \in on \cup at \cup gone : g.body < n /\ g.body \notin ins
      /\ \A b \in ins : b < n
      /\ \A g, h \in on \cup at \cup gone : g.body = h.body => g = h
      /\ on \cap gone = {}
  BY DEF Split
<1>4. \A g \in on2 \cup empty \cup gone : g \in on \cup at \cup gone BY <1>1
<1>5. f.body < n /\ f.body \notin ins2 BY <1>3
<1>6. \A g \in on2 \cup empty \cup gone : g.body # f.body
  <2>1. CASE f \in on
    <3>1. f \notin gone /\ f \notin on2 BY <1>3, <2>1
    <3> QED BY <1>1, <1>3, <1>4, <2>1, <3>1
  <2>2. CASE f.body \in ins BY <1>3, <1>4, <2>2
  <2> QED BY <2>1, <2>2
<1> QED BY <1>2, <1>5, <1>6, SplitMore

\* The current page changes and the stash does not, or takes a form.
LEMMA PageBodies ==
  ASSUME OwnInv, Typed, BodyInv, NEW k, Job(k), page # 0, UNCHANGED <<page, sent, events>>,
         NEW q \in Pages, pages' = [pages EXCEPT ![page] = q],
         \/ post' = post /\ q.form \in {NoForm, pages[page].form}
         \/ /\ post' \in Stashes /\ post'.form \in RealForms /\ post'.form.from = page
            /\ q.form = NoForm
            /\ \/ post'.form = pages[page].form /\ pages[page].form # NoForm
               \/ post'.form.body \in Inputs(jobs) /\ post'.form.body \notin Inputs(jobs')
  PROVE  BodyInv'
<1>0. events \in Nat /\ pages \in Seq(Pages) BY DEF OwnInv, Numbered
<1>1. PICK on, at, gone, ins : on = On(pages) /\ at = At(post) /\ gone = Gone(sent) /\ ins = Inputs(jobs)
  OBVIOUS
<1>2. /\ Own(pages) /\ Split(on, at, gone, ins, events) /\ SentOnce(sent) /\ Stashed(post, page)
  BY <1>1 DEF BodyInv
<1>3. Apart(jobs') /\ Inputs(jobs') \subseteq ins BY <1>1, InputTaken
<1>4. page \in 1..Len(pages)
  <2>1. page \in {page} \ {0} OBVIOUS
  <2> QED BY <2>1 DEF OwnInv, Parted, Held
<1>5. PICK p : p = pages[page] OBVIOUS
<1>6. p \in Pages /\ (p.form # NoForm => p.form.from = page /\ p.form \in on)
  BY <1>0, <1>1, <1>2, <1>4, <1>5 DEF Own, On
<1>7. q.form = NoForm \/ q.form = p.form BY <1>5
<1>8. /\ Own(pages')
      /\ On(pages') \subseteq (On(pages) \ {pages[page].form}) \cup ({q.form} \ {NoForm})
  <2>1. q.form # NoForm => q.form.from = page BY <1>6, <1>7
  <2> QED BY <1>0, <1>2, <1>4, <2>1, FormChanged
<1>9. PICK on2, ins2 : on2 = On(pages') /\ ins2 = Inputs(jobs') OBVIOUS
<1>10. on2 \subseteq on /\ ins2 \subseteq ins /\ (q.form = NoForm => p.form \notin on2)
  BY <1>1, <1>3, <1>5, <1>6, <1>7, <1>8, <1>9
<1>11. SentOnce(sent') /\ Gone(sent') = gone BY <1>1, <1>2
<1>12. CASE post' = post
  <2>1. Stashed(post', page') BY <1>2, <1>12
  <2>2. Split(on2, at, gone, ins2, events) BY <1>0, <1>2, <1>10, SplitLess
  <2>3. Split(On(pages'), At(post'), Gone(sent'), Inputs(jobs'), events')
    BY <1>1, <1>9, <1>11, <1>12, <2>2
  <2> QED BY <1>3, <1>8, <1>11, <2>1, <2>3, BodiesKept
<1>13. CASE /\ post' \in Stashes /\ post'.form \in RealForms /\ post'.form.from = page
            /\ q.form = NoForm
            /\ \/ post'.form = pages[page].form /\ pages[page].form # NoForm
               \/ post'.form.body \in Inputs(jobs) /\ post'.form.body \notin Inputs(jobs')
  <2>1. PICK f : f = post'.form OBVIOUS
  <2>2. f \in RealForms /\ (f \in on \/ (f.body \in ins /\ f.body \notin ins2))
    BY <1>1, <1>5, <1>6, <1>9, <1>13, <2>1
  <2>3. f \notin on2
    <3>1. CASE f = p.form BY <1>10, <1>13, <3>1
    <3>2. CASE f.body \in ins
      <4>1. \A g \in on : g.body \notin ins BY <1>2 DEF Split
      <4> QED BY <1>10, <3>2, <4>1
    <3> QED BY <1>1, <1>5, <1>13, <2>1, <3>1, <3>2
  <2>4. Split(on2, {f}, gone, ins2, events) BY <1>0, <1>2, <1>10, <2>2, <2>3, SplitStashed
  <2>5. f # NoForm
    <3>1. DOMAIN f = {"body", "action", "from"} BY <2>2 DEF RealForms
    <3>2. DOMAIN NoForm = {"body"} BY DEF NoForm
    <3> QED BY <3>1, <3>2
  <2>6. At(post') = {f} BY <2>1, <2>5 DEF At
  <2>7. Stashed(post', page') BY <1>13, <2>1, <2>5 DEF Stashed
  <2>8. Split(On(pages'), At(post'), Gone(sent'), Inputs(jobs'), events')
    BY <1>9, <1>11, <2>4, <2>6
  <2> QED BY <1>3, <1>8, <1>11, <2>7, <2>8, BodiesKept
<1> QED BY <1>12, <1>13

\* Without a page there is nothing to take.
LEMMA NoPageBodies ==
  ASSUME OwnInv, Typed, BodyInv, NEW k, Job(k), UNCHANGED <<page, sent, events, post, pages>>
  PROVE  BodyInv'
<1>0. events \in Nat BY DEF OwnInv, Numbered
<1>1. PICK on, at, gone, ins : on = On(pages) /\ at = At(post) /\ gone = Gone(sent) /\ ins = Inputs(jobs)
  OBVIOUS
<1>2. /\ Own(pages) /\ Split(on, at, gone, ins, events) /\ SentOnce(sent) /\ Stashed(post, page)
  BY <1>1 DEF BodyInv
<1>3. PICK ins2 : ins2 = Inputs(jobs') OBVIOUS
<1>4. Apart(jobs') /\ ins2 \subseteq ins BY <1>1, <1>3, InputTaken
<1>5. Split(on, at, gone, ins2, events) BY <1>0, <1>2, <1>4, SplitLess
<1>6. Split(On(pages'), At(post'), Gone(sent'), Inputs(jobs'), events') BY <1>1, <1>3, <1>5
<1>7. Stashed(post', page') /\ Own(pages') /\ SentOnce(sent') BY <1>2
<1> QED BY <1>4, <1>6, <1>7, BodiesKept

\* A frame: its navigation takes the form of the page with it.
LEMMA RenderBodies ==
  ASSUME OwnInv, Typed, BodyInv, RunRender
  PROVE  BodyInv'
<1>1. Job({"render"}) /\ UNCHANGED <<page, sent, events>> BY DEF RunRender
<1>2. CASE page = 0
  <2>1. UNCHANGED <<post, pages>> BY <1>2 DEF RunRender
  <2> QED BY <1>1, <2>1, NoPageBodies
<1>3. CASE page # 0
  <2>1. PICK p : p = pages[page] OBVIOUS
  <2>2. p \in Pages
    <3>1. page \in {page} \ {0} BY <1>3
    <3>2. page \in 1..Len(pages) BY <3>1 DEF OwnInv, Parted, Held
    <3> QED BY <2>1, <3>2 DEF OwnInv, Numbered
  <2>3. p.form # NoForm => p.form.from = page
    <3>1. page \in {page} \ {0} BY <1>3
    <3>2. page \in 1..Len(pages) BY <3>1 DEF OwnInv, Parted, Held
    <3> QED BY <2>1, <3>2 DEF BodyInv, Own
  <2>4. PICK q : q = [p EXCEPT !.nav = None, !.pushed = FALSE, !.dirty = FALSE,
                               !.form = IF p.nav # None THEN NoForm ELSE @] OBVIOUS
  <2>5. q = [url |-> p.url, pushed |-> FALSE, dirty |-> FALSE, nav |-> None, eligible |-> p.eligible,
             form |-> IF p.nav # None THEN NoForm ELSE p.form]
    BY <2>2, <2>4 DEF Pages
  <2>6. q \in Pages /\ q.form = (IF p.nav # None THEN NoForm ELSE p.form) BY <2>2, <2>5 DEF Pages, Forms
  <2>7. /\ pages' = [pages EXCEPT ![page] = q]
        /\ IF p.nav # None THEN Stash(p, p.nav) ELSE UNCHANGED post
    BY <1>3, <2>1, <2>4 DEF RunRender
  <2>8. CASE p.nav # None /\ p.form # NoForm
    <3>1. post' = [url |-> p.nav, form |-> p.form] BY <2>7, <2>8 DEF Stash
    <3>2. post' \in Stashes /\ post'.form = p.form BY <2>2, <3>1 DEF Stashes, Pages
    <3>3. p.form \in RealForms BY <2>2, <2>8 DEF Pages, Forms, RealForms
    <3>4. q.form = NoForm BY <2>6, <2>8
    <3> QED BY <1>1, <1>3, <2>1, <2>3, <2>6, <2>7, <2>8, <3>2, <3>3, <3>4, PageBodies
  <2>9. CASE ~(p.nav # None /\ p.form # NoForm)
    <3>1. post' = post BY <2>7, <2>9 DEF Stash
    <3>2. q.form = NoForm \/ q.form = pages[page].form BY <2>1, <2>6
    <3> QED BY <1>1, <1>3, <2>6, <2>7, <3>1, <3>2, PageBodies
  <2> QED BY <2>8, <2>9
<1> QED BY <1>2, <1>3

\* An input: what it submits goes to the stash, and so does a form that was pending.
LEMMA InputBodies ==
  ASSUME OwnInv, Typed, BodyInv, RunInput
  PROVE  BodyInv'
<1>1. Job({"press", "release"}) /\ UNCHANGED <<page, sent, events>> BY DEF RunInput
<1>2. PICK href \in Urls \cup {None}, posts \in BOOLEAN :
        /\ posts => href # None
        /\ IF page = 0 THEN UNCHANGED <<post, pages>>
           ELSE LET p == [pages[page] EXCEPT !.nav = None,
                                              !.form = IF posts THEN Form(Head(jobs).n, page, href) ELSE @]
                IN  Stash(p, href) /\ pages' = [pages EXCEPT ![page] = [p EXCEPT !.form = NoForm]]
  BY DEF RunInput
<1>3. CASE page = 0
  <2>1. UNCHANGED <<post, pages>> BY <1>2, <1>3
  <2> QED BY <1>1, <2>1, NoPageBodies
<1>4. CASE page # 0
  <2>1. page \in 1..Len(pages) /\ page \in Nat
    <3>1. page \in {page} \ {0} BY <1>4
    <3> QED BY <3>1 DEF OwnInv, Parted, Held, Numbered
  <2>2. PICK old : old = pages[page] OBVIOUS
  <2>3. old \in Pages /\ (old.form # NoForm => old.form.from = page)
    BY <2>1, <2>2 DEF OwnInv, Numbered, BodyInv, Own
  <2>4. PICK form : form = IF posts THEN Form(Head(jobs).n, page, href) ELSE old.form OBVIOUS
  <2>5. PICK p : p = [pages[page] EXCEPT !.nav = None,
                                         !.form = IF posts THEN Form(Head(jobs).n, page, href) ELSE @]
    OBVIOUS
  <2>6. p = [url |-> old.url, pushed |-> old.pushed, dirty |-> old.dirty, nav |-> None,
             eligible |-> old.eligible, form |-> form]
    BY <2>2, <2>3, <2>4, <2>5 DEF Pages
  <2>7. PICK q : q = [p EXCEPT !.form = NoForm] OBVIOUS
  <2>8. q = [url |-> old.url, pushed |-> old.pushed, dirty |-> old.dirty, nav |-> None,
             eligible |-> old.eligible, form |-> NoForm]
    BY <2>6, <2>7
  <2>9. q \in Pages /\ q.form = NoForm BY <2>3, <2>8 DEF Pages, Forms
  <2>10. Stash(p, href) /\ pages' = [pages EXCEPT ![page] = q] BY <1>2, <1>4, <2>5, <2>7
  <2>11. /\ Head(jobs) \in Jobs /\ IsInput(Head(jobs))
         /\ Head(jobs).n \in Inputs(jobs) /\ Head(jobs).n \notin Inputs(jobs')
    <3>1. Head(jobs).kind \in {"press", "release"} BY <1>1 DEF Job
    <3>2. IsInput(Head(jobs)) BY <3>1 DEF IsInput
    <3> QED BY <1>1, <3>2, InputTaken
  <2>12. Head(jobs).n \in Nat
    BY <2>11 DEF Jobs, LoadJobs, InputJobs, DrawJobs, IsInput
  <2>13. CASE p.form # NoForm
    <3>1. post' = [url |-> href, form |-> form] BY <2>6, <2>10, <2>13 DEF Stash
    <3>2. CASE posts
      <4>1. form = [body |-> Head(jobs).n, action |-> href, from |-> page] /\ href \in Urls
        BY <1>2, <2>4, <3>2 DEF Form
      <4>2. form \in RealForms /\ form \in Forms BY <2>1, <2>12, <4>1 DEF RealForms, Forms
      <4>3. post' \in Stashes /\ post'.form = form BY <3>1, <4>2 DEF Stashes
      <4>4. form.from = page /\ form.body = Head(jobs).n BY <4>1
      <4> QED BY <1>1, <1>4, <2>9, <2>10, <2>11, <4>2, <4>3, <4>4, PageBodies
    <3>3. CASE ~posts
      <4>1. form = old.form /\ form # NoForm BY <2>4, <2>6, <2>13, <3>3
      <4>2. form \in Forms /\ form \in RealForms BY <2>3, <4>1 DEF Pages, Forms, RealForms
      <4>3. post' \in Stashes /\ post'.form = form BY <3>1, <4>2 DEF Stashes
      <4> QED BY <1>1, <1>4, <2>2, <2>3, <2>9, <2>10, <4>1, <4>2, <4>3, PageBodies
    <3> QED BY <3>2, <3>3
  <2>14. CASE p.form = NoForm
    <3>1. post' = post BY <2>10, <2>14 DEF Stash
    <3> QED BY <1>1, <1>4, <2>9, <2>10, <3>1, PageBodies
  <2> QED BY <2>13, <2>14
<1> QED BY <1>3, <1>4

\* Script changes the url or the navigation of its page, or submits a form.
LEMMA ScriptBodies ==
  ASSUME OwnInv, BodyInv, NEW q \in Pages, Script(q),
         \/ q.form = pages[page].form
         \/ q.form \in RealForms /\ q.form.body = events /\ q.form.from = page
  PROVE  BodyInv'
<1>0. events \in Nat /\ pages \in Seq(Pages) BY DEF OwnInv, Numbered
<1>1. PICK on, at, gone, ins : on = On(pages) /\ at = At(post) /\ gone = Gone(sent) /\ ins = Inputs(jobs)
  OBVIOUS
<1>2. /\ Apart(jobs) /\ Own(pages) /\ Split(on, at, gone, ins, events) /\ SentOnce(sent)
      /\ Stashed(post, page)
  BY <1>1 DEF BodyInv
<1>3. /\ events' = events + 1 /\ page # 0 /\ pages' = [pages EXCEPT ![page] = q]
      /\ UNCHANGED <<jobs, page, post, sent>>
  BY DEF Script, Event
<1>4. page \in 1..Len(pages)
  <2>1. page \in {page} \ {0} BY <1>3
  <2> QED BY <2>1 DEF OwnInv, Parted, Held
<1>5. PICK p : p = pages[page] OBVIOUS
<1>6. p \in Pages /\ (p.form # NoForm => p.form.from = page /\ p.form \in on)
  BY <1>0, <1>1, <1>2, <1>4, <1>5 DEF Own, On
<1>7. q.form # NoForm => q.form.from = page BY <1>5, <1>6
<1>8. /\ Own(pages')
      /\ On(pages') \subseteq (On(pages) \ {pages[page].form}) \cup ({q.form} \ {NoForm})
  BY <1>0, <1>2, <1>3, <1>4, <1>7, FormChanged
<1>9. PICK on2, n2 : on2 = On(pages') /\ n2 = events + 1 OBVIOUS
<1>10. n2 \in Nat /\ n2 >= events /\ events < n2 BY <1>0, <1>9
<1>11. Split(on, at, gone, ins, n2) BY <1>0, <1>2, <1>10, SplitLess
<1>12. Split(on2, at, gone, ins, n2)
  <2>1. CASE q.form = pages[page].form
    <3>1. on2 \subseteq on BY <1>1, <1>5, <1>6, <1>8, <1>9, <2>1
    <3> QED BY <1>10, <1>11, <3>1, SplitLess
  <2>2. CASE q.form \in RealForms /\ q.form.body = events
    <3>1. PICK f : f = q.form OBVIOUS
    <3>2. f \in RealForms /\ f.body = events BY <2>2, <3>1
    <3>3. /\ \A g \in on \cup at \cup gone : g \in RealForms /\ g.body < events
          /\ \A b \in ins : b \in Nat /\ b < events
      BY <1>2 DEF Split
    <3>4. f.body \notin ins /\ f.body < n2 BY <1>0, <1>10, <3>2, <3>3
    <3>5. \A g \in on \cup at \cup gone : g.body # f.body BY <1>0, <3>2, <3>3
    <3>6. PICK more : more = on \cup {f} OBVIOUS
    <3>7. Split(more, at, gone, ins, n2) BY <1>10, <1>11, <3>2, <3>4, <3>5, <3>6, SplitMore
    <3>8. on2 \subseteq more BY <1>1, <1>8, <1>9, <3>1, <3>6
    <3> QED BY <1>10, <3>7, <3>8, SplitLess
  <2> QED BY <2>1, <2>2
<1>13. Split(On(pages'), At(post'), Gone(sent'), Inputs(jobs'), events')
  BY <1>1, <1>3, <1>9, <1>12
<1>14. Apart(jobs') /\ Stashed(post', page') /\ SentOnce(sent') BY <1>2, <1>3
<1> QED BY <1>8, <1>13, <1>14, BodiesKept

\* There are no bodies at the start.
LEMMA BodyInit == HistoryInit => BodyInv
<1> SUFFICES ASSUME HistoryInit PROVE BodyInv OBVIOUS
<1>1. jobs = <<>> /\ post = NoPost /\ pages = <<>> /\ sent = <<>> /\ events = 0 BY DEF HistoryInit
<1>2. Len(<<>>) = 0 /\ DOMAIN <<>> = {} /\ 1..0 = {} OBVIOUS
<1>3. Inputs(jobs) = {} /\ Apart(jobs) BY <1>1, <1>2 DEF Inputs, Apart
<1>4. Own(pages) /\ On(pages) = {} BY <1>1, <1>2 DEF Own, On
<1>5. Gone(sent) = {} /\ SentOnce(sent) BY <1>1, <1>2, EmptySeq DEF Gone, SentOnce
<1>6. Stashed(post, page) /\ At(post) = {}
  <2>1. NoPost.url = None /\ NoPost.form = NoForm BY DEF NoPost
  <2>2. NoPost \in Stashes BY <2>1 DEF NoPost, Stashes, Forms
  <2> QED BY <1>1, <2>1, <2>2, NoneAssumption DEF Stashed, At, NoneAssumption
<1>7. Split({}, {}, {}, {}, 0) BY DEF Split
<1> QED BY <1>1, <1>3, <1>4, <1>5, <1>6, <1>7 DEF BodyInv

\* Each step keeps the bodies apart.
LEMMA BodyNext ==
  ASSUME OwnInv, Typed, Entered, BodyInv, [HistoryNext]_vars
  PROVE  BodyInv'
<1>0. events \in Nat /\ page \in Nat /\ pages \in Seq(Pages) BY DEF OwnInv, Numbered
<1>1. CASE View
  <2>1. UNCHANGED engVars
    BY <1>1 DEF View, Load, Traverse, Reload, Resize, Stop, Input, RequestRender, PageResult, FrameResult,
                InputResult, Result
  <2>2. events' = events \/ events' = events + 1
    BY <1>1 DEF View, Load, Traverse, Reload, Resize, Stop, Input, RequestRender, PageResult, FrameResult,
                InputResult, Result, Event
  <2>3. events' \in Nat /\ events' >= events BY <1>0, <2>2
  <2>4. \/ InputsKept
        \/ /\ events' = events + 1 /\ Inputs(jobs') = Inputs(jobs) \cup {events}
           /\ Apart(jobs) /\ events \notin Inputs(jobs) => Apart(jobs')
    <3>1. CASE Load \/ Traverse \/ Reload \/ Resize BY <3>1, UserKeeps
    <3>2. CASE Stop \/ Input \/ RequestRender BY <1>0, <3>2, AskKeeps
    <3>3. CASE PageResult BY <3>3, PageResultKeeps
    <3>4. CASE FrameResult BY <3>4, FrameResultKeeps
    <3>5. CASE InputResult BY <3>5, InputResultKeeps
    <3> QED BY <1>1, <3>1, <3>2, <3>3, <3>4, <3>5 DEF View
  <2> QED BY <2>1, <2>3, <2>4, ViewBodies
<1>2. CASE RunLoad
  <2>1. Job({"load"}) /\ ClearPost BY <1>2 DEF RunLoad
  <2>2. PICK job, i : /\ job = Head(jobs) /\ i = (IF job.hist THEN Found(job.url) ELSE 0)
                      /\ IF i # 0 THEN Restore(job, i) ELSE Open(job)
    BY <1>2 DEF RunLoad
  <2>3. job.url \in Urls
    <3>1. job \in Jobs BY <2>1, <2>2, InputTaken
    <3>2. job.kind = "load" BY <2>1, <2>2 DEF Job
    <3> QED BY <3>1, <3>2 DEF Jobs, LoadJobs, InputJobs, DrawJobs
  <2>4. CASE i # 0
    <3>1. i \in DOMAIN cached BY <2>2, <2>4 DEF Found
    <3>2. DOMAIN cached = 1..Len(cached) BY DEF OwnInv, Parted, Held
    <3> QED BY <2>1, <2>2, <2>4, <3>1, <3>2, RestoreBodies
  <2>5. CASE i = 0 BY <2>1, <2>2, <2>3, <2>5, OpenBodies
  <2> QED BY <2>4, <2>5
<1>3. CASE RunRender BY <1>3, RenderBodies
<1>4. CASE RunInput BY <1>4, InputBodies
<1>5. ASSUME page # 0 PROVE pages[page] \in Pages
  <2>1. page \in {page} \ {0} BY <1>5
  <2>2. page \in 1..Len(pages) BY <2>1 DEF OwnInv, Parted, Held
  <2> QED BY <1>0, <2>2
<1>6. CASE SoftNavigate
  <2>1. PICK url \in Urls, replace \in BOOLEAN :
          Script([pages[page] EXCEPT !.url = url, !.dirty = TRUE, !.pushed = @ \/ ~replace])
    BY <1>6 DEF SoftNavigate
  <2>2. PICK q : q = [pages[page] EXCEPT !.url = url, !.dirty = TRUE, !.pushed = @ \/ ~replace] OBVIOUS
  <2>3. pages[page] \in Pages BY <1>5, <2>1 DEF Script
  <2>4. q \in Pages /\ q.form = pages[page].form BY <2>2, <2>3 DEF Pages
  <2> QED BY <2>1, <2>2, <2>4, ScriptBodies
<1>7. CASE Navigate
  <2>1. PICK url \in Urls : Script([pages[page] EXCEPT !.nav = url]) BY <1>7 DEF Navigate
  <2>2. PICK q : q = [pages[page] EXCEPT !.nav = url] OBVIOUS
  <2>3. pages[page] \in Pages BY <1>5, <2>1 DEF Script
  <2>4. q \in Pages /\ q.form = pages[page].form BY <2>2, <2>3 DEF Pages
  <2> QED BY <2>1, <2>2, <2>4, ScriptBodies
<1>8. CASE Submit
  <2>1. PICK url \in Urls : Script([pages[page] EXCEPT !.nav = url, !.form = Form(events, page, url)])
    BY <1>8 DEF Submit
  <2>2. PICK form : form = Form(events, page, url) OBVIOUS
  <2>3. form \in RealForms /\ form \in Forms /\ form.body = events /\ form.from = page
    BY <1>0, <2>2 DEF Form, RealForms, Forms
  <2>4. PICK q : q = [pages[page] EXCEPT !.nav = url, !.form = form] OBVIOUS
  <2>5. pages[page] \in Pages BY <1>5, <2>1 DEF Script
  <2>6. q \in Pages /\ q.form = form BY <2>3, <2>4, <2>5 DEF Pages
  <2>7. Script(q) BY <2>1, <2>2, <2>4
  <2> QED BY <2>3, <2>6, <2>7, ScriptBodies
<1>9. CASE UNCHANGED vars
  <2>1. UNCHANGED engVars /\ events' = events /\ jobs' = jobs BY <1>9 DEF vars
  <2>2. InputsKept BY <2>1 DEF InputsKept
  <2>3. events' \in Nat /\ events' >= events BY <1>0, <2>1
  <2> QED BY <2>1, <2>2, <2>3, ViewBodies
<1> QED BY <1>1, <1>2, <1>3, <1>4, <1>6, <1>7, <1>8, <1>9 DEF HistoryNext, Engine

\* For any number of urls, pages and events: a form is sent once, with a load that
\* leaves the page it is from (session_stash_post, session_clear_post and
\* ns_page_session_open in src/src/page_session.c).
THEOREM BodiesSentOnce == HistorySpec => []BodiesOnce
<1>1. HistoryInit => OwnInv /\ Typed /\ Entered /\ BodyInv BY OwnInvInit, EnteredInit, BodyInit
<1>2. OwnInv /\ Typed /\ Entered /\ BodyInv /\ [HistoryNext]_vars
        => OwnInv' /\ Typed' /\ Entered' /\ BodyInv'
  BY OwnInvNext, EnteredNext, BodyNext
<1>3. BodyInv => BodiesOnce
  <2> SUFFICES ASSUME BodyInv PROVE BodiesOnce OBVIOUS
  <2>1. SentOnce(sent) BY DEF BodyInv
  <2>2. DOMAIN sent = 1..Len(sent) BY <2>1 DEF SentOnce
  <2> QED BY <2>1, <2>2 DEF SentOnce, BodiesOnce
<1> QED BY <1>1, <1>2, <1>3, PTL DEF HistorySpec

=============================================================================
