---------------------------- MODULE MCIntercInit ----------------------------
EXTENDS IntercInit

Env(affinity, nodes, conf, viaWrap) ==
  [affinity |-> affinity, nodes |-> nodes, conf |-> conf, daemon |-> viaWrap]

(* A login shell that only preloads the library. *)
Bare == Env("unset", "unset", Unset, FALSE)

(* What a user may set by hand, and what "kumf daemon wrap" sets. *)
MCUserEnvs ==
  {Bare, Env("off", "unset", UserConf, FALSE), Env("batch", "valid", UserConf, FALSE),
   Env("per-thread", "valid", UserConf, TRUE)}
=============================================================================
