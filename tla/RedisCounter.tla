---------------------------- MODULE RedisCounter ----------------------------
(***************************************************************************)
(* The Redis key that caches a counter column of a tweet                   *)
(* (utils/redis_helper.py, incr_count, decr_count and get_count): one      *)
(* Redis command per operator.  The specifications of the counters EXTEND  *)
(* this module and add the database and the requests.                      *)
(***************************************************************************)
EXTENDS Integers

CONSTANT KeyExpires  \* may REDIS_KEY_EXPIRE_TIME elapse during a run?

ASSUME KeyExpiresAssumption == KeyExpires \in BOOLEAN

VARIABLES hot,    \* does the key exist?
          value,  \* its number; 0 while it does not exist
          ttl     \* does it carry an expiry?

redis == <<hot, value, ttl>>

RedisInit(n) ==
  \/ hot = FALSE /\ value = 0 /\ ttl = FALSE
  \/ hot = TRUE /\ value = n /\ ttl = TRUE

(* INCR and DECR count a missing key as 0 and give the new one no expiry.   *)
Add(delta) == hot' = TRUE /\ value' = value + delta /\ UNCHANGED ttl

(* SET with ex: value and expiry in one command.                            *)
Set(n) == hot' = TRUE /\ value' = n /\ ttl' = TRUE

Lapse == KeyExpires /\ ttl /\ hot' = FALSE /\ value' = 0 /\ ttl' = FALSE

RedisTypeOK ==
  /\ hot \in BOOLEAN
  /\ value \in Int
  /\ ttl \in BOOLEAN
  /\ ~hot => value = 0 /\ ~ttl
=============================================================================
