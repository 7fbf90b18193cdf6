-------------------------- MODULE MCVideoPipeline --------------------------
(* Two frames, each decodable by itself: either may be shown, decoded but  *)
(* not taken, appended late, restarted from or skipped.                    *)
EXTENDS VideoPipeline
Key(p)   == [pts |-> p, key |-> TRUE]
MCFrames == <<Key(0), Key(1)>>
MCPts    == 0..1
=============================================================================
