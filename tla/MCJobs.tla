------------------------------- MODULE MCJobs -------------------------------
(* A small instance of Jobs for TLC: one job that is run once, and others  *)
(* that recur.                                                             *)
EXTENDS Jobs

CONSTANTS t1, t2, once, again1, again2

Intervals == [j \in Jobs |-> IF j = once THEN 0 ELSE 1]
OneRetry  == [j \in Jobs |-> IF j = once THEN 1 ELSE 0]
=============================================================================
