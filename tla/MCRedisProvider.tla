-------------------------- MODULE MCRedisProvider --------------------------
(***************************************************************************)
(* Instances of RedisProvider for TLC.  In the instance with the real      *)
(* durations the unit of time is 30 seconds: an Interval of 10 is          *)
(* DefaultRefreshInterval, a Timeout and a StartWait of 1 are              *)
(* DefaultRequestTimeout and the wait of Start, a TTL of 20 is 600 s.  In  *)
(* the other one all durations are as short as they can be, so that        *)
(* elections, failures and expiry meet in few steps.                       *)
(***************************************************************************)
EXTENDS RedisProvider
=============================================================================
