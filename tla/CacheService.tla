---------------------------- MODULE CacheService ----------------------------
(***************************************************************************)
(* What one Redis command issued by src/cache/cache.service.ts does to the *)
(* entry of its key.  Every operator maps the entry before the command to  *)
(* the entry after it; the modules that EXTEND this one decide when the    *)
(* command runs, whether it fails, and what the caller does with the       *)
(* answer.  An entry is a value plus a flag telling whether the key has an *)
(* expiry: a key without one stays until it is deleted.                    *)
(*                                                                         *)
(* CacheService never throws: each method catches the error of its command *)
(* and answers null, false or 0, so a failed command is, for the caller,   *)
(* the answer in CacheFailure.                                             *)
(***************************************************************************)
EXTENDS Naturals

CONSTANT NoValue      \* what get answers for a missing key: null

ASSUME NoValueAssumption == NoValue \notin Nat

NoEntry == [val |-> NoValue, ttl |-> FALSE]

Entry(V) == [val : V \cup {NoValue}, ttl : BOOLEAN]

(* set(key, value, ttlSeconds) with ttlSeconds > 0: SET key value EX ttl   *)
(* replaces value and expiry together.                                     *)
SetEx(v) == [val |-> v, ttl |-> TRUE]

(* delete(key) *)
Del(e) == NoEntry

(* expire(key, seconds): EXPIRE does nothing to a missing key.             *)
ExpireEntry(e) == IF e.val = NoValue THEN e ELSE [e EXCEPT !.ttl = TRUE]

(* increment(key): INCR creates a missing key at 1 and WITHOUT an expiry,  *)
(* and keeps the expiry an existing key has.                               *)
IncrDropsTtl(e) == [val |-> IF e.val = NoValue THEN 1 ELSE e.val + 1, ttl |-> FALSE]
IncrFromZero(e) == [val |-> IF e.val = NoValue THEN 0 ELSE e.val + 1, ttl |-> e.ttl]
IncrEntry(e) ==
  [val |-> IF e.val = NoValue THEN 1 ELSE e.val + 1, ttl |-> e.ttl]

(* The answers of the methods above when their command fails.              *)
CacheFailure == [get |-> NoValue, set |-> FALSE, delete |-> FALSE,
                 expire |-> FALSE, increment |-> 0]
=============================================================================
