---------------------------- MODULE MC_ScheduleTick ----------------------------
EXTENDS ScheduleTick, TLC
CONSTANTS r1, r2, s1, e1, e2

Often == s1 :> 1
================================================================================
