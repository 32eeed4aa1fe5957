---------------------------- MODULE MCThreadPool ----------------------------
(* Model-checking instance of ThreadPool.                                   *)
EXTENDS ThreadPool, TLC

CONSTANTS w1, w2, c1
=============================================================================
