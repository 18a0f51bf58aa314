----------------------------- MODULE RedisClient -----------------------------
(***************************************************************************)
(* RedisClientManager (src/cache/redis.client.ts) inside one server        *)
(* process, with the callers that take its client and send a command       *)
(* (cache.service.ts).  getClient is asynchronous: it tests the cached     *)
(* instance, imports the driver, and only then creates and caches a        *)
(* client, so several callers may be between the test and the creation.    *)
(*                                                                         *)
(* A caller creates at most one client, so a client is named after the     *)
(* caller that created it.  The ioredis client itself is external: a       *)
(* command waits for Redis to be reached for as long as that takes         *)
(* (maxRetriesPerRequest null) and is then answered or refused with an     *)
(* error; QUIT is answered after the commands sent before it, and what     *)
(* comes later is rejected.  A client that is not connected may instead    *)
(* close at once on QUIT, and reject what it has not had an answer to.     *)
(***************************************************************************)
EXTENDS Naturals, FiniteSets

CONSTANTS
  Callers,       \* calls of a CacheService method
  None           \* null

ASSUME NoneAssumption == None \notin Callers

VARIABLES
  clientInstance,  \* RedisClientManager.clientInstance
  conn,            \* the connection of the client each caller created
  at,              \* where each caller is
  held,            \* the client each caller was handed
  teardown,        \* where shutdownGracefully is
  quitting,        \* the client it sent QUIT to
  redisUp          \* whether Redis can be reached

clientVars == <<clientInstance, conn, at, held, teardown, quitting, redisUp>>

Connections == {"none", "open", "closing", "closed"}

(* The driver was not imported, Redis answered with an error (no memory,   *)
(* read only, no authentication), or the client closed.                    *)
Failures == {"failed", "refused", "cut_off"}
CallerPlaces ==
  {"new", "importing", "ready", "pending", "late", "answered"} \cup Failures
TeardownPlaces == {"idle", "quitting", "done", "failed"}

ClientInit ==
  /\ clientInstance = None
  /\ conn = [c \in Callers |-> "none"]
  /\ at = [c \in Callers |-> "new"]
  /\ held = [c \in Callers |-> None]
  /\ teardown = "idle"
  /\ quitting = None
  /\ redisUp = TRUE

Live == {c \in Callers : conn[c] \in {"open", "closing"}}

(* getClient up to its await: the cached instance, or the import.          *)
GetClientFlagged(c) ==
  /\ at[c] = "new"
  /\ clientInstance # None \/ \A q \in Callers \ {c} : at[q] \notin {"importing", "failed"}
  /\ IF clientInstance # None
     THEN /\ at' = [at EXCEPT ![c] = "ready"]
          /\ held' = [held EXCEPT ![c] = clientInstance]
     ELSE at' = [at EXCEPT ![c] = "importing"] /\ UNCHANGED held
  /\ UNCHANGED <<clientInstance, conn, teardown, quitting, redisUp>>

GetClientUncached(c) ==
  /\ at[c] = "new"
  /\ at' = [at EXCEPT ![c] = "importing"]
  /\ UNCHANGED <<clientInstance, conn, held, teardown, quitting, redisUp>>

GetClient(c) ==
  /\ at[c] = "new"
  /\ IF clientInstance # None
     THEN /\ at' = [at EXCEPT ![c] = "ready"]
          /\ held' = [held EXCEPT ![c] = clientInstance]
     ELSE at' = [at EXCEPT ![c] = "importing"] /\ UNCHANGED held
  /\ UNCHANGED <<clientInstance, conn, teardown, quitting, redisUp>>

(* After the await: the instance is created and cached, whatever was       *)
(* cached meanwhile.                                                       *)
FinishImport(c) ==
  /\ at[c] = "importing"
  /\ clientInstance' = c
  /\ conn' = [conn EXCEPT ![c] = "open"]
  /\ held' = [held EXCEPT ![c] = c]
  /\ at' = [at EXCEPT ![c] = "ready"]
  /\ UNCHANGED <<teardown, quitting, redisUp>>

(* The import or the constructor throws, and getClient with it.            *)
FailImport(c) ==
  /\ at[c] = "importing"
  /\ at' = [at EXCEPT ![c] = "failed"]
  /\ UNCHANGED <<clientInstance, conn, held, teardown, quitting, redisUp>>

(* await client.get(...) and its like.                                     *)
SentToConnection == [open |-> "pending", closing |-> "closing", closed |-> "closed"]
SentTo == [open |-> "pending", closing |-> "late", closed |-> "cut_off"]

Send(c) ==
  /\ at[c] = "ready"
  /\ at' = [at EXCEPT ![c] = SentTo[conn[held[c]]]]
  /\ UNCHANGED <<clientInstance, conn, held, teardown, quitting, redisUp>>

Answer(c) ==
  /\ at[c] = "pending" /\ redisUp
  /\ at' = [at EXCEPT ![c] = "answered"]
  /\ UNCHANGED <<clientInstance, conn, held, teardown, quitting, redisUp>>

Refuse(c) ==
  /\ at[c] = "pending" /\ redisUp
  /\ at' = [at EXCEPT ![c] = "refused"]
  /\ UNCHANGED <<clientInstance, conn, held, teardown, quitting, redisUp>>

(* shutdownGracefully up to its await.                                     *)
ShutdownGracefully ==
  /\ teardown = "idle"
  /\ IF clientInstance = None
     THEN teardown' = "done" /\ UNCHANGED <<conn, quitting>>
     ELSE /\ teardown' = "quitting"
          /\ quitting' = clientInstance
          /\ conn' = [conn EXCEPT ![clientInstance] =
                        IF @ = "open" THEN "closing" ELSE @]
  /\ UNCHANGED <<clientInstance, at, held, redisUp>>

(* QUIT is answered after the commands sent before it, or the client       *)
(* closes because it is not connected; the manager forgets the instance it *)
(* has cached by now.                                                      *)
QuitReady == \A c \in Callers : ~(at[c] = "pending" /\ held[c] = quitting)

QuitDone ==
  /\ teardown = "quitting"
  /\ redisUp => QuitReady
  /\ teardown' = "done"
  /\ clientInstance' = None
  /\ conn' = [conn EXCEPT ![quitting] = "closed"]
  /\ at' = [c \in Callers |->
              IF at[c] \in {"pending", "late"} /\ held[c] = quitting
              THEN "cut_off" ELSE at[c]]
  /\ UNCHANGED <<held, quitting, redisUp>>

(* The catch of shutdownGracefully: the instance stays cached.             *)
QuitFails ==
  /\ teardown = "quitting"
  /\ teardown' = "failed"
  /\ UNCHANGED <<clientInstance, conn, at, held, quitting, redisUp>>

RedisDown ==
  /\ redisUp
  /\ redisUp' = FALSE
  /\ UNCHANGED <<clientInstance, conn, at, held, teardown, quitting>>

RedisRecovers ==
  /\ ~redisUp
  /\ redisUp' = TRUE
  /\ UNCHANGED <<clientInstance, conn, at, held, teardown, quitting>>

CallerStep(c) == FinishImport(c) \/ Send(c) \/ Answer(c) \/ Refuse(c)

ClientNext ==
  \/ \E c \in Callers : GetClient(c) \/ CallerStep(c) \/ FailImport(c)
  \/ ShutdownGracefully
  \/ QuitDone
  \/ QuitFails
  \/ RedisDown
  \/ RedisRecovers

ClientSpec == ClientInit /\ [][ClientNext]_clientVars

ClientTypeOK ==
  /\ clientInstance \in Callers \cup {None}
  /\ conn \in [Callers -> Connections]
  /\ at \in [Callers -> CallerPlaces]
  /\ held \in [Callers -> Callers \cup {None}]
  /\ teardown \in TeardownPlaces
  /\ quitting \in Callers \cup {None}
  /\ redisUp \in BOOLEAN

(* "the authoritative, thread-safe Redis connection singleton instance"    *)
(* (redis.client.ts line 23): a process has one live client at most.       *)
Singleton == Cardinality(Live) <= 1
=============================================================================
