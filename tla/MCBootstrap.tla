---------------------------- MODULE MCBootstrap ----------------------------
EXTENDS Bootstrap

(* Environments around every limit that validateStartupSchema checks, and  *)
(* bad ones in the mode it does not check.                                 *)
MCEnvironments ==
  [mode : {"production", "development", Unset}, present : BOOLEAN,
   port : {Unset, NaN, 80, 1023, 1024, 65535, 65536},
   redisPort : {NaN, 0, 65535, 65536},
   postgres : BOOLEAN, secret : {31, 32}]
  \cup
  [mode : {"test"}, present : BOOLEAN, port : {Unset, NaN, 80, 65536},
   redisPort : {NaN}, postgres : {FALSE}, secret : {31}]

(* One server in production with everything in place.                      *)
SoundEnvironment ==
  {[mode |-> "production", present |-> TRUE, port |-> Unset, redisPort |-> 6379,
    postgres |-> TRUE, secret |-> 32]}
=============================================================================
