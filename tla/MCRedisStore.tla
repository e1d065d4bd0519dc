---------------------------- MODULE MCRedisStore -----------------------------
(***************************************************************************)
(* Instances of the Redis store for TLC.  When the clock is at its bound   *)
(* and no call is under way there may be nothing left to do; any other     *)
(* stop is a deadlock.                                                     *)
(***************************************************************************)
EXTENDS RedisStoreProperties

Quiet == clock = MaxClock /\ \A c \in Callers : ~Busy(c)
MCSpec == Init /\ [][Next \/ (Quiet /\ UNCHANGED vars)]_vars
==============================================================================
