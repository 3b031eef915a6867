---------------------------- MODULE MCTokenBucket ----------------------------
(* Instances of the token bucket for TLC: callers are model values.        *)
EXTENDS TokenBucket, TLC

CONSTANTS w1, w2, m1

=============================================================================
