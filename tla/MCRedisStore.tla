---------------------------- MODULE MCRedisStore ----------------------------
(* RedisStore for model checking. *)
EXTENDS RedisStore

=============================================================================
