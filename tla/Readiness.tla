------------------------------ MODULE Readiness ------------------------------
(***************************************************************************)
(* The probes of the system module (src/modules/system) in one server      *)
(* process, over the Redis client manager of module RedisClient, whose     *)
(* callers they are.  The readiness probe stamps a token with the          *)
(* milliseconds of the clock, writes it to the one key all probes share,   *)
(* reads the key back and compares.  The other probes answer at once.      *)
(*                                                                         *)
(* Each of its commands is sent on the connection the probe holds and      *)
(* takes effect when it is answered.  A probe of another process differs   *)
(* from one here only in the connection it uses.                           *)
(***************************************************************************)
EXTENDS RedisClient, CacheService

CONSTANTS
  Asked,       \* the endpoints a run asks for
  MaxClock     \* bound on the milliseconds a run lets pass

Snapshots == {"health", "live", "version", "build", "metrics"}
Endpoints == Snapshots \cup {"ready"}

ASSUME AskedAssumption == Asked \subseteq Endpoints
ASSUME MaxClockAssumption == MaxClock \in Nat

VARIABLES
  ping,        \* Redis: the entry of df_health_ping
  clock,       \* Date.now()
  probe,       \* the endpoint each probe asks for
  stage,       \* where each probe is
  token,       \* healthCheckPingToken of each probe
  status,      \* what each probe was answered, 0 before
  disturbed,   \* history: probes between whose commands the key changed
  crossed      \* history: callers whose import overlapped another one, or
               \* the teardown

probeVars == <<ping, clock, probe, stage, token, status, disturbed, crossed>>
vars == <<clientVars, probeVars>>

Stages == {"new", "database", "client", "set", "get", "answered"}

Init ==
  /\ ClientInit
  /\ ping = NoEntry
  /\ clock = 0
  /\ probe = [p \in Callers |-> "ready"]
  /\ stage = [p \in Callers |-> "new"]
  /\ token = [p \in Callers |-> 0]
  /\ status = [p \in Callers |-> 0]
  /\ disturbed = {}
  /\ crossed = {}

Goto(p, place) == stage' = [stage EXCEPT ![p] = place] /\ UNCHANGED status

Answered(p, code) ==
  /\ stage' = [stage EXCEPT ![p] = "answered"]
  /\ status' = [status EXCEPT ![p] = code]

(* getReadinessSnapshot: both checks must be UP; handleReadinessCheck.     *)
ReadinessCodeInternal(database, cache) ==
  IF database = "UP" /\ cache = "UP" THEN 200 ELSE 500

ReadinessCode(database, cache) ==
  IF database = "UP" /\ cache = "UP" THEN 200 ELSE 503

(* The shipped Prisma object has no user.findFirst, but a $connect that    *)
(* always resolves.                                                        *)
DatabaseStatus == "UP"

(***************************************************************************)
(* Probes                                                                  *)
(***************************************************************************)

(* The controllers: all but readiness answer from the process itself.      *)
Ask(p, endpoint) ==
  /\ stage[p] = "new"
  /\ probe' = [probe EXCEPT ![p] = endpoint]
  /\ IF endpoint \in Snapshots THEN Answered(p, 200) ELSE Goto(p, "database")
  /\ UNCHANGED <<clientVars, ping, clock, token, disturbed, crossed>>

CheckDatabase(p) ==
  /\ stage[p] = "database"
  /\ Goto(p, "client")
  /\ UNCHANGED <<clientVars, ping, clock, probe, token, disturbed, crossed>>

(* verifyCacheHealth: RedisClientManager.getClient.  A caller that comes   *)
(* when the teardown is over has the manager open a client again.          *)
Connect(p) ==
  /\ stage[p] = "client"
  /\ GetClient(p)
  /\ crossed' = IF teardown \in {"done", "failed"} THEN crossed \cup {p} ELSE crossed
  /\ UNCHANGED <<ping, clock, probe, stage, token, status, disturbed>>

Import(p) ==
  LET others == {q \in Callers \ {p} : at[q] = "importing"}
  IN  /\ FinishImport(p)
      /\ crossed' = IF others = {} THEN crossed ELSE crossed \cup others \cup {p}
      /\ UNCHANGED <<ping, clock, probe, stage, token, status, disturbed>>

ImportFails(p) == FailImport(p) /\ UNCHANGED probeVars

(* The stamp, then client.set.                                             *)
Stamp == clock

SendSet(p) ==
  /\ stage[p] = "client"
  /\ Send(p)
  /\ token' = [token EXCEPT ![p] = Stamp]
  /\ Goto(p, "set")
  /\ UNCHANGED <<ping, clock, probe, disturbed, crossed>>

(* Redis runs the SET and answers it; the probe sends the GET.             *)
Between(p) == stage[p] = "get" /\ status[p] = 0

PingEntry(p) == SetEx(token[p])

RunSet(p) ==
  /\ stage[p] = "set" /\ at[p] = "pending" /\ redisUp
  /\ ping' = PingEntry(p)
  /\ at' = [at EXCEPT ![p] = SentTo[conn[held[p]]]]
  /\ Goto(p, "get")
  /\ disturbed' = disturbed \cup {q \in Callers : Between(q) /\ token[q] # token[p]}
  /\ UNCHANGED <<clientInstance, conn, held, teardown, quitting, redisUp,
                 clock, probe, token, crossed>>

(* Redis answers the GET; the probe compares.                              *)
CacheStatusNow(p) == IF ping.val = clock THEN "UP" ELSE "DOWN"
CacheStatus(p) == IF ping.val = token[p] THEN "UP" ELSE "DOWN"

RunGet(p) ==
  /\ stage[p] = "get"
  /\ Answer(p)
  /\ Answered(p, ReadinessCode(DatabaseStatus, CacheStatus(p)))
  /\ UNCHANGED <<ping, clock, probe, token, disturbed, crossed>>

(* Redis answers a SET or a GET with an error.                             *)
RedisRefuses(p) ==
  /\ stage[p] \in {"set", "get"}
  /\ Refuse(p)
  /\ UNCHANGED probeVars

(* The catch of verifyCacheHealth: no client, or a rejected command.       *)
CacheFails(p) ==
  /\ stage[p] \in {"client", "set", "get"} /\ at[p] \in Failures
  /\ Answered(p, ReadinessCode(DatabaseStatus, "DOWN"))
  /\ UNCHANGED <<clientVars, ping, clock, probe, token, disturbed, crossed>>

(***************************************************************************)
(* Redis, the clock and the teardown                                       *)
(***************************************************************************)

(* The 10 s of the key are over, or Redis comes back without it.           *)
PingExpires ==
  /\ ping.ttl
  /\ ping' = NoEntry
  /\ disturbed' = disturbed \cup {q \in Callers : Between(q)}
  /\ UNCHANGED <<clientVars, clock, probe, stage, token, status, crossed>>

Tick ==
  /\ clock < MaxClock
  /\ clock' = clock + 1
  /\ UNCHANGED <<clientVars, ping, probe, stage, token, status, disturbed, crossed>>

Shutdown ==
  /\ ShutdownGracefully
  /\ crossed' = crossed \cup {q \in Callers : at[q] = "importing"}
  /\ UNCHANGED <<ping, clock, probe, stage, token, status, disturbed>>

QuitEnds == (QuitDone \/ QuitFails) /\ UNCHANGED probeVars

Outage == (RedisDown \/ RedisRecovers) /\ UNCHANGED probeVars

Step(p) ==
  \/ CheckDatabase(p) \/ Connect(p) \/ Import(p) \/ ImportFails(p) \/ SendSet(p)
  \/ RunSet(p) \/ RunGet(p) \/ CacheFails(p)

Next ==
  \/ \E p \in Callers :
       \/ \E endpoint \in Asked : Ask(p, endpoint)
       \/ Step(p)
       \/ RedisRefuses(p)
  \/ PingExpires
  \/ Tick
  \/ Shutdown
  \/ QuitEnds
  \/ Outage

Spec == Init /\ [][Next]_vars

(* Node runs the continuation of a settled promise, and Redis answers what *)
(* it was sent as long as it can be reached.                               *)
FairSpec == Spec /\ \A p \in Callers : WF_vars(Step(p))

(***************************************************************************)
(* Properties                                                              *)
(***************************************************************************)
TypeOK ==
  /\ ClientTypeOK
  /\ ping \in Entry(0 .. MaxClock)
  /\ clock \in 0 .. MaxClock
  /\ probe \in [Callers -> Endpoints]
  /\ stage \in [Callers -> Stages]
  /\ token \in [Callers -> 0 .. MaxClock]
  /\ status \in [Callers -> {0, 200, 503}]
  /\ disturbed \subseteq Callers
  /\ crossed \subseteq Callers

(* A readiness probe answers 503 only because the shared key changed       *)
(* between its two commands (a probe of another millisecond, an expiry),   *)
(* the driver could not be imported, Redis answered one of its commands    *)
(* with an error, or its client was closed, which takes a teardown that    *)
(* has begun.  Probes of one millisecond do not disturb each other, and a  *)
(* Redis that cannot be reached does not by itself make a probe answer     *)
(* 503.                                                                    *)
UnreadyHasCause == \A p \in Callers : status[p] = 503 =>
  \/ p \in disturbed
  \/ at[p] \in {"failed", "refused"}
  \/ at[p] = "cut_off" /\ teardown # "idle"

(* A process has a client that nobody holds as the cached instance, or one *)
(* that outlives the teardown, only where the import of its creator        *)
(* overlapped another import or the teardown: the cached instance is the   *)
(* only connection otherwise, and QUIT closes it.                          *)
StrayClientHasCause == \A c \in Live :
  c \in crossed \/ c = quitting \/ (c = clientInstance /\ teardown # "done")

(* A probe that was asked is answered, or hangs for one of two reasons:    *)
(* its command waits for a Redis that cannot be reached, without a time    *)
(* limit, or was sent on a client that had been told to quit.  Nothing     *)
(* else holds it: not a failed import, not another caller that is          *)
(* importing, not a refused command, not the end of the teardown.          *)
ProbesAnswered == \A p \in Callers :
  stage[p] # "new" ~>
    stage[p] = "answered" \/ (at[p] = "pending" /\ ~redisUp) \/ at[p] = "late"
=============================================================================
