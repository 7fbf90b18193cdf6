---------------------------- MODULE PictureFeed ----------------------------
(***************************************************************************)
(* What a video worker promises whoever presents its pictures: the wanted  *)
(* samples of the current epoch are owed, become ready in the order they   *)
(* were pushed, and each is delivered at most once, the newest due first.  *)
(***************************************************************************)
EXTENDS Integers

CONSTANT Times        \* the times a picture may be asked for

VARIABLES owed,       \* samples asked for and not yet delivered or dropped
          horizon,    \* samples asked for so far, which are numbered from 0
          delivered,  \* the answer to the last request, <<>> for none
          open        \* the feed has not been closed

vars == <<owed, horizon, delivered, open>>

Init == owed = {} /\ horizon = 0 /\ delivered = <<>> /\ open = TRUE

\* A sample decoded only for the ones after it, or one that is owed.
Skip ==
  /\ open = TRUE
  /\ horizon' = horizon + 1
  /\ UNCHANGED <<owed, delivered, open>>

Want ==
  /\ open = TRUE
  /\ horizon' = horizon + 1
  /\ \E s \in owed' : s.id = horizon /\ ~s.blank /\ owed' = owed \cup {s}
  /\ UNCHANGED <<delivered, open>>

Reset ==
  /\ open = TRUE
  /\ owed' = {}
  /\ UNCHANGED <<horizon, delivered, open>>

\* What may be ready: all of it that was asked for before some sample.
Prefixes == {{p \in owed : p.id < n} : n \in 0..horizon}

Newest(p, S) ==
  \A q \in S : p.pts > q.pts \/ (p.pts = q.pts /\ p.id <= q.id)

\* A sample turns out to have no picture: it keeps its place and is no answer.
Blank ==
  /\ open = TRUE
  /\ \E s \in owed :
       owed' = (owed \ {s}) \cup {[s EXCEPT !.blank = TRUE]}
  /\ UNCHANGED <<horizon, delivered, open>>

\* A request for time t: everything ready and due leaves the feed.
Deliver(t) ==
  /\ open = TRUE
  /\ \E ready \in Prefixes :
       LET due    == {p \in ready : p.pts <= t}
           usable == {p \in due : ~p.blank}
       IN  /\ owed' = owed \ due
           /\ IF usable = {}
              THEN delivered' = <<>>
              ELSE delivered' \in usable /\ Newest(delivered', usable)
  /\ UNCHANGED <<horizon, open>>

Close ==
  /\ open = TRUE
  /\ open' = FALSE
  /\ owed' = {}
  /\ UNCHANGED <<horizon, delivered>>

Next == Skip \/ Want \/ Reset \/ Blank \/ (\E t \in Times : Deliver(t)) \/ Close

Spec == Init /\ [][Next]_vars

=============================================================================
