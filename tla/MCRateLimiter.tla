---------------------------- MODULE MCRateLimiter ----------------------------
(* Small instances of RateLimiter.                                          *)
EXTENDS RateLimiter, TLC

\* Goroutines are alike.
MCSymmetry == Permutations(Requests)

\* From 0 to beyond a word, whose width is five bits here.
MCWritten == 0 .. 50
=============================================================================
