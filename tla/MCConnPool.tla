----------------------------- MODULE MCConnPool -----------------------------
(* A small instance of ConnPool.                                           *)
EXTENDS ConnPool, TLC

CONSTANTS s1, s2
=============================================================================
