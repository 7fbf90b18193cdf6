-------------------------- MODULE MCSessionHistory --------------------------
(* Two urls, and a cache of one page; what is done is bounded.             *)
EXTENDS SessionHistory, TLC

CONSTANTS a, b
UrlSymmetry == Permutations(Urls)
=============================================================================
