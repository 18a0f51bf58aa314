--------------------------- MODULE Readiness_proofs ---------------------------
(***************************************************************************)
(* For every number of probes and every bound on the clock: the type       *)
(* invariant of Readiness, and its two statements about causes.            *)
(***************************************************************************)
EXTENDS Readiness, TLAPS

(***************************************************************************)
(* The inductive invariant                                                 *)
(***************************************************************************)

(* Whatever client is cached or held was created.                          *)
Created(c) == c \in Callers /\ conn[c] # "none"
Handed ==
  /\ clientInstance # None => Created(clientInstance)
  /\ \A p \in Callers : at[p] \in {"ready", "pending", "late"} => Created(held[p])

(* Only the teardown closes a connection, or cuts a command off.           *)
Parted == \A c \in Callers :
  conn[c] \in {"closing", "closed"} \/ at[c] = "cut_off" => teardown # "idle"

(* A probe between its commands finds its token unless it was disturbed.   *)
Probed == \A p \in Callers :
  /\ stage[p] # "answered" => status[p] = 0
  /\ stage[p] = "get" => ping.val = token[p] \/ p \in disturbed

(* An import that goes on while an instance is cached, or after the        *)
(* teardown, has overlapped the import of that instance, or the teardown.  *)
Imports == \A p \in Callers : at[p] = "importing" =>
  /\ clientInstance # None => p \in crossed /\ clientInstance \in crossed
  /\ teardown = "done" => p \in crossed

(* QUIT goes to the cached instance, and only an overlapping import can    *)
(* replace that before QUIT is answered.                                   *)
Torn ==
  /\ teardown = "idle" => quitting = None
  /\ teardown = "quitting" =>
       /\ quitting # None /\ clientInstance # None
       /\ clientInstance = quitting \/ clientInstance \in crossed

IInv ==
  /\ TypeOK
  /\ Handed
  /\ Parted
  /\ Probed
  /\ UnreadyHasCause
  /\ Imports
  /\ Torn
  /\ StrayClientHasCause

(***************************************************************************)
(* What most steps leave alone                                             *)
(***************************************************************************)

(* A step that starts no import and touches no client.                     *)
LEMMA ClientsKept ==
  ASSUME IInv, UNCHANGED <<clientInstance, conn, teardown, quitting>>, crossed \subseteq crossed',
         \A p \in Callers : at'[p] = "importing" => at[p] = "importing",
         \A p \in Callers : at'[p] = "cut_off" => at[p] = "cut_off" \/ teardown # "idle"
  PROVE  Parted' /\ Imports' /\ Torn' /\ StrayClientHasCause'
  BY DEF IInv, Parted, Imports, Torn, StrayClientHasCause, Live

(* A step that sends, answers and changes nothing about the probes.        *)
LEMMA ProbesKept ==
  ASSUME IInv, UNCHANGED <<ping, stage, token, status>>, disturbed \subseteq disturbed',
         teardown # "idle" => teardown' # "idle",
         \A p \in Callers : at[p] \in Failures => at'[p] = at[p]
  PROVE  Probed' /\ UnreadyHasCause'
  BY DEF IInv, Probed, UnreadyHasCause, Failures

(* A caller moves on.                                                      *)
LEMMA CallerMoves ==
  ASSUME TypeOK, NEW p \in Callers, NEW place \in CallerPlaces,
         at' = [at EXCEPT ![p] = place]
  PROVE  /\ at' \in [Callers -> CallerPlaces] /\ at'[p] = place
         /\ \A q \in Callers \ {p} : at'[q] = at[q]
  BY DEF TypeOK, ClientTypeOK

(* A probe moves on.                                                       *)
LEMMA ProbeMoves ==
  ASSUME TypeOK, NEW p \in Callers, NEW place \in Stages, Goto(p, place)
  PROVE  /\ stage' \in [Callers -> Stages] /\ stage'[p] = place
         /\ \A q \in Callers \ {p} : stage'[q] = stage[q]
         /\ status' = status
  BY DEF TypeOK, Goto

(* A probe is answered.                                                    *)
LEMMA ProbeAnswered ==
  ASSUME TypeOK, NEW p \in Callers, NEW code \in {0, 200, 503}, Answered(p, code)
  PROVE  /\ stage' \in [Callers -> Stages] /\ stage'[p] = "answered"
         /\ status' \in [Callers -> {0, 200, 503}] /\ status'[p] = code
         /\ \A q \in Callers \ {p} : stage'[q] = stage[q] /\ status'[q] = status[q]
  BY DEF TypeOK, Answered, Stages

(* The places a command can be sent to.                                    *)
LEMMA SentToPlaces ==
  ASSUME TypeOK, Handed, NEW p \in Callers, at[p] \in {"ready", "pending"}
  PROVE  /\ SentTo[conn[held[p]]] \in {"pending", "late", "cut_off"}
         /\ SentTo[conn[held[p]]] = "cut_off" => conn[held[p]] = "closed" /\ held[p] \in Callers
<1>1. held[p] \in Callers /\ conn[held[p]] \in {"open", "closing", "closed"}
  BY DEF TypeOK, ClientTypeOK, Handed, Created, Connections
<1> QED
  BY <1>1 DEF SentTo

(***************************************************************************)
(* The steps                                                               *)
(***************************************************************************)

(* A probe is asked: the snapshots are answered at once.                   *)
LEMMA AskStep ==
  ASSUME IInv, NEW p \in Callers, NEW endpoint \in Asked, Ask(p, endpoint)
  PROVE  IInv'
<1>1. /\ TypeOK /\ stage[p] = "new" /\ UNCHANGED <<clientVars, ping, clock, token, disturbed, crossed>>
      /\ probe' = [probe EXCEPT ![p] = endpoint]
  BY DEF IInv, Ask
<1>2. PICK place \in {"answered", "database"} :
        /\ stage' \in [Callers -> Stages] /\ stage'[p] = place
        /\ status' \in [Callers -> {0, 200, 503}] /\ status'[p] \in {0, 200}
        /\ place # "answered" => status'[p] = 0
        /\ \A q \in Callers \ {p} : stage'[q] = stage[q] /\ status'[q] = status[q]
  <2>1. CASE Answered(p, 200)
    BY <1>1, <2>1, ProbeAnswered
  <2>2. CASE Goto(p, "database")
    <3>1. status[p] = 0
      BY <1>1 DEF IInv, Probed
    <3> QED
      BY <1>1, <2>2, <3>1, ProbeMoves DEF Stages, TypeOK
  <2> QED
    BY <2>1, <2>2 DEF Ask
<1>3. TypeOK'
  BY <1>1, <1>2, AskedAssumption DEF TypeOK, ClientTypeOK, clientVars
<1>4. Handed' /\ Parted' /\ Imports' /\ Torn' /\ StrayClientHasCause'
  BY <1>1, ClientsKept DEF IInv, Handed, Created, clientVars
<1>5. Probed' /\ UnreadyHasCause'
  BY <1>1, <1>2 DEF IInv, Probed, UnreadyHasCause, clientVars
<1> QED
  BY <1>3, <1>4, <1>5 DEF IInv

(* The check of the database.                                              *)
LEMMA CheckDatabaseStep ==
  ASSUME IInv, NEW p \in Callers, CheckDatabase(p)
  PROVE  IInv'
<1>1. /\ TypeOK /\ stage[p] = "database"
      /\ UNCHANGED <<clientVars, ping, clock, probe, token, disturbed, crossed>>
  BY DEF IInv, CheckDatabase
<1>2. /\ stage' \in [Callers -> Stages] /\ stage'[p] = "client" /\ status' = status
      /\ \A q \in Callers \ {p} : stage'[q] = stage[q]
  BY <1>1, ProbeMoves DEF CheckDatabase, Stages
<1>3. TypeOK'
  BY <1>1, <1>2 DEF TypeOK, ClientTypeOK, clientVars
<1>4. Handed' /\ Parted' /\ Imports' /\ Torn' /\ StrayClientHasCause'
  BY <1>1, ClientsKept DEF IInv, Handed, Created, clientVars
<1>5. Probed' /\ UnreadyHasCause'
  BY <1>1, <1>2 DEF IInv, Probed, UnreadyHasCause, clientVars
<1> QED
  BY <1>3, <1>4, <1>5 DEF IInv

(* A probe takes the cached instance, or starts an import: not while one   *)
(* is cached, and after the teardown it is crossed from the start.         *)
LEMMA ConnectStep ==
  ASSUME IInv, NEW p \in Callers, Connect(p)
  PROVE  IInv'
<1>1. /\ TypeOK /\ Handed /\ at[p] = "new"
      /\ UNCHANGED <<clientInstance, conn, teardown, quitting, redisUp>>
      /\ UNCHANGED <<ping, clock, probe, stage, token, status, disturbed>>
      /\ crossed \subseteq crossed' /\ crossed' \subseteq Callers
      /\ teardown = "done" => p \in crossed'
  BY DEF IInv, Connect, GetClient, TypeOK
<1>2. PICK place \in {"ready", "importing"} :
        /\ at' = [at EXCEPT ![p] = place]
        /\ place = "ready" => clientInstance # None
                              /\ held' = [held EXCEPT ![p] = clientInstance]
        /\ place = "importing" => clientInstance = None /\ held' = held
  BY DEF Connect, GetClient
<1>3. /\ at' \in [Callers -> CallerPlaces] /\ at'[p] = place
      /\ \A q \in Callers \ {p} : at'[q] = at[q]
  BY <1>1, <1>2, CallerMoves DEF CallerPlaces, Failures
<1>4. held' \in [Callers -> Callers \cup {None}]
      /\ \A q \in Callers \ {p} : held'[q] = held[q]
  <2>1. held \in [Callers -> Callers \cup {None}] /\ clientInstance \in Callers \cup {None}
    BY <1>1 DEF TypeOK, ClientTypeOK
  <2>2. CASE place = "ready"
    BY <1>2, <2>1, <2>2
  <2>3. CASE place = "importing"
    BY <1>2, <2>1, <2>3
  <2> QED
    BY <2>2, <2>3
<1>5. TypeOK'
  BY <1>1, <1>3, <1>4 DEF TypeOK, ClientTypeOK
<1>6. Handed'
  <2>1. place = "ready" => held'[p] = clientInstance
    BY <1>1, <1>2 DEF TypeOK, ClientTypeOK
  <2> QED
    BY <1>1, <1>2, <1>3, <1>4, <2>1 DEF Handed, Created
<1>7. Parted' /\ Imports' /\ Torn' /\ StrayClientHasCause'
  BY <1>1, <1>2, <1>3 DEF IInv, Parted, Imports, Torn, StrayClientHasCause, Live
<1>8. Probed' /\ UnreadyHasCause'
  BY <1>1, <1>3, ProbesKept DEF Failures
<1> QED
  BY <1>5, <1>6, <1>7, <1>8 DEF IInv

(* A client is created and cached.  What it displaces was imported in the  *)
(* meantime, so both are crossed.                                          *)
LEMMA ImportStep ==
  ASSUME IInv, NEW p \in Callers, Import(p)
  PROVE  IInv'
<1> DEFINE others == {q \in Callers \ {p} : at[q] = "importing"}
<1>1. /\ TypeOK /\ Handed /\ at[p] = "importing" /\ p # None
      /\ UNCHANGED <<ping, clock, probe, stage, token, status, disturbed>>
      /\ UNCHANGED <<teardown, quitting, redisUp>>
      /\ clientInstance' = p
  BY NoneAssumption DEF IInv, Import, FinishImport
<1>2. /\ conn' \in [Callers -> Connections] /\ conn'[p] = "open"
      /\ held' \in [Callers -> Callers \cup {None}] /\ held'[p] = p
      /\ \A q \in Callers \ {p} : conn'[q] = conn[q] /\ held'[q] = held[q]
  BY <1>1 DEF Import, FinishImport, TypeOK, ClientTypeOK, Connections
<1>3. /\ at' \in [Callers -> CallerPlaces] /\ at'[p] = "ready"
      /\ \A q \in Callers \ {p} : at'[q] = at[q]
  BY <1>1, CallerMoves DEF Import, FinishImport, CallerPlaces, Failures
<1>4. /\ crossed \subseteq crossed' /\ crossed' \subseteq Callers
      /\ \A q \in Callers \ {p} : at[q] = "importing" => q \in crossed' /\ p \in crossed'
  BY <1>1 DEF Import, TypeOK
<1>5. TypeOK'
  BY <1>1, <1>2, <1>3, <1>4 DEF TypeOK, ClientTypeOK
<1>6. Handed' /\ Parted'
  BY <1>1, <1>2, <1>3 DEF IInv, Handed, Created, Parted
<1>7. Imports'
  BY <1>1, <1>3, <1>4 DEF Imports
<1>8. clientInstance # None => p \in crossed /\ clientInstance \in crossed
  BY <1>1 DEF IInv, Imports
<1>9. Torn'
  BY <1>1, <1>4, <1>8 DEF IInv, Torn
<1>10. StrayClientHasCause'
  <2> SUFFICES ASSUME NEW c \in Callers, conn'[c] \in {"open", "closing"}
               PROVE  \/ c \in crossed' \/ c = quitting'
                      \/ c = clientInstance' /\ teardown' # "done"
    BY DEF StrayClientHasCause, Live
  <2>1. CASE c = p
    BY <1>1, <1>4, <2>1 DEF IInv, Imports
  <2>2. CASE c # p
    <3>1. c \in Live
      BY <1>2, <2>2 DEF Live
    <3>2. c \in crossed \/ c = quitting \/ c = clientInstance
      BY <3>1 DEF IInv, StrayClientHasCause
    <3> QED
      BY <1>1, <1>4, <1>8, <3>2, NoneAssumption
  <2> QED
    BY <2>1, <2>2
<1>11. Probed' /\ UnreadyHasCause'
  BY <1>1, <1>3, ProbesKept DEF Failures
<1> QED
  BY <1>5, <1>6, <1>7, <1>9, <1>10, <1>11 DEF IInv

(* The driver cannot be imported.                                          *)
LEMMA ImportFailsStep ==
  ASSUME IInv, NEW p \in Callers, ImportFails(p)
  PROVE  IInv'
<1>1. /\ TypeOK /\ Handed /\ at[p] = "importing"
      /\ UNCHANGED <<clientInstance, conn, held, teardown, quitting, redisUp>>
      /\ UNCHANGED probeVars
  BY DEF IInv, ImportFails, FailImport
<1>2. /\ at' \in [Callers -> CallerPlaces] /\ at'[p] = "failed"
      /\ \A q \in Callers \ {p} : at'[q] = at[q]
  BY <1>1, CallerMoves DEF ImportFails, FailImport, CallerPlaces, Failures
<1>3. TypeOK'
  BY <1>1, <1>2 DEF TypeOK, ClientTypeOK, probeVars
<1>4. Handed'
  BY <1>1, <1>2 DEF Handed, Created
<1>5. Parted' /\ Imports' /\ Torn' /\ StrayClientHasCause'
  BY <1>1, <1>2, ClientsKept DEF probeVars
<1>6. Probed' /\ UnreadyHasCause'
  BY <1>1, <1>2, ProbesKept DEF probeVars, Failures
<1> QED
  BY <1>3, <1>4, <1>5, <1>6 DEF IInv

(* The SET is sent, to a connection that takes it or not.                  *)
LEMMA SendSetStep ==
  ASSUME IInv, NEW p \in Callers, SendSet(p)
  PROVE  IInv'
<1>1. /\ TypeOK /\ Handed /\ at[p] = "ready" /\ stage[p] = "client"
      /\ UNCHANGED <<clientInstance, conn, held, teardown, quitting, redisUp>>
      /\ UNCHANGED <<ping, clock, probe, disturbed, crossed>>
  BY DEF IInv, SendSet, Send
<1>2. PICK place \in {"pending", "late", "cut_off"} :
        at' = [at EXCEPT ![p] = place] /\ (place = "cut_off" => teardown # "idle")
  BY <1>1, SentToPlaces DEF SendSet, Send, IInv, Parted
<1>3. /\ at' \in [Callers -> CallerPlaces] /\ at'[p] = place
      /\ \A q \in Callers \ {p} : at'[q] = at[q]
  BY <1>1, <1>2, CallerMoves DEF CallerPlaces, Failures
<1>4. /\ stage' \in [Callers -> Stages] /\ stage'[p] = "set" /\ status' = status
      /\ \A q \in Callers \ {p} : stage'[q] = stage[q]
  BY <1>1, ProbeMoves DEF SendSet, Stages
<1>5. token' \in [Callers -> 0 .. MaxClock] /\ \A q \in Callers \ {p} : token'[q] = token[q]
  BY <1>1 DEF SendSet, Stamp, TypeOK
<1>6. TypeOK'
  BY <1>1, <1>3, <1>4, <1>5 DEF TypeOK, ClientTypeOK
<1>7. Handed'
  BY <1>1, <1>3 DEF Handed, Created
<1>8. Parted' /\ Imports' /\ Torn' /\ StrayClientHasCause'
  BY <1>1, <1>2, <1>3, ClientsKept
<1>9. Probed' /\ UnreadyHasCause'
  BY <1>1, <1>3, <1>4, <1>5 DEF IInv, Probed, UnreadyHasCause
<1> QED
  BY <1>6, <1>7, <1>8, <1>9 DEF IInv

(* Redis runs the SET: the probes whose token it overwrites with another   *)
(* one are disturbed.                                                      *)
LEMMA RunSetStep ==
  ASSUME IInv, NEW p \in Callers, RunSet(p)
  PROVE  IInv'
<1>1. /\ TypeOK /\ Handed /\ at[p] = "pending" /\ stage[p] = "set"
      /\ UNCHANGED <<clientInstance, conn, held, teardown, quitting, redisUp>>
      /\ UNCHANGED <<clock, probe, token, crossed>>
  BY DEF IInv, RunSet
<1>2. PICK place \in {"pending", "late", "cut_off"} :
        at' = [at EXCEPT ![p] = place] /\ (place = "cut_off" => teardown # "idle")
  BY <1>1, SentToPlaces DEF RunSet, IInv, Parted
<1>3. /\ at' \in [Callers -> CallerPlaces] /\ at'[p] = place
      /\ \A q \in Callers \ {p} : at'[q] = at[q]
  BY <1>1, <1>2, CallerMoves DEF CallerPlaces, Failures
<1>4. /\ stage' \in [Callers -> Stages] /\ stage'[p] = "get" /\ status' = status
      /\ \A q \in Callers \ {p} : stage'[q] = stage[q]
  BY <1>1, ProbeMoves DEF RunSet, Stages
<1>5. ping' \in Entry(0 .. MaxClock) /\ ping'.val = token[p]
  BY <1>1 DEF RunSet, PingEntry, SetEx, Entry, TypeOK
<1>6. /\ disturbed \subseteq disturbed' /\ disturbed' \subseteq Callers
      /\ \A q \in Callers : stage[q] = "get" => token[q] = token[p] \/ q \in disturbed'
  <2>1. disturbed' = disturbed \cup {q \in Callers : Between(q) /\ token[q] # token[p]}
    BY DEF RunSet
  <2>2. \A q \in Callers : stage[q] = "get" => Between(q)
    BY DEF IInv, Probed, Between
  <2> QED
    BY <1>1, <2>1, <2>2 DEF TypeOK
<1>7. TypeOK'
  BY <1>1, <1>3, <1>4, <1>5, <1>6 DEF TypeOK, ClientTypeOK
<1>8. Handed'
  BY <1>1, <1>3 DEF Handed, Created
<1>9. Parted' /\ Imports' /\ Torn' /\ StrayClientHasCause'
  BY <1>1, <1>2, <1>3, ClientsKept
<1>10. Probed'
  BY <1>1, <1>4, <1>5, <1>6 DEF IInv, Probed
<1>11. UnreadyHasCause'
  BY <1>1, <1>3, <1>4, <1>6 DEF IInv, UnreadyHasCause
<1> QED
  BY <1>7, <1>8, <1>9, <1>10, <1>11 DEF IInv

(* Redis answers the GET: DOWN only for a disturbed probe.                 *)
LEMMA RunGetStep ==
  ASSUME IInv, NEW p \in Callers, RunGet(p)
  PROVE  IInv'
<1>1. /\ TypeOK /\ Handed /\ at[p] = "pending" /\ stage[p] = "get"
      /\ UNCHANGED <<clientInstance, conn, held, teardown, quitting, redisUp>>
      /\ UNCHANGED <<ping, clock, probe, token, disturbed, crossed>>
  BY DEF IInv, RunGet, Answer
<1>2. /\ at' \in [Callers -> CallerPlaces] /\ at'[p] = "answered"
      /\ \A q \in Callers \ {p} : at'[q] = at[q]
  BY <1>1, CallerMoves DEF RunGet, Answer, CallerPlaces, Failures
<1>3. PICK code \in {200, 503} : Answered(p, code) /\ (code = 503 => p \in disturbed)
  <2>1. ping.val = token[p] \/ p \in disturbed
    BY <1>1 DEF IInv, Probed
  <2> QED
    BY <2>1 DEF RunGet, ReadinessCode, DatabaseStatus, CacheStatus
<1>4. /\ stage' \in [Callers -> Stages] /\ stage'[p] = "answered"
      /\ status' \in [Callers -> {0, 200, 503}] /\ status'[p] = code
      /\ \A q \in Callers \ {p} : stage'[q] = stage[q] /\ status'[q] = status[q]
  BY <1>1, <1>3, ProbeAnswered
<1>5. TypeOK'
  BY <1>1, <1>2, <1>4 DEF TypeOK, ClientTypeOK
<1>6. Handed'
  BY <1>1, <1>2 DEF Handed, Created
<1>7. Parted' /\ Imports' /\ Torn' /\ StrayClientHasCause'
  BY <1>1, <1>2, ClientsKept
<1>8. Probed' /\ UnreadyHasCause'
  BY <1>1, <1>2, <1>3, <1>4 DEF IInv, Probed, UnreadyHasCause
<1> QED
  BY <1>5, <1>6, <1>7, <1>8 DEF IInv

(* Redis refuses a command: the probe goes on to its catch.                *)
LEMMA RedisRefusesStep ==
  ASSUME IInv, NEW p \in Callers, RedisRefuses(p)
  PROVE  IInv'
<1>1. /\ TypeOK /\ Handed /\ at[p] = "pending"
      /\ UNCHANGED <<clientInstance, conn, held, teardown, quitting, redisUp>>
      /\ UNCHANGED probeVars
  BY DEF IInv, RedisRefuses, Refuse
<1>2. /\ at' \in [Callers -> CallerPlaces] /\ at'[p] = "refused"
      /\ \A q \in Callers \ {p} : at'[q] = at[q]
  BY <1>1, CallerMoves DEF RedisRefuses, Refuse, CallerPlaces, Failures
<1>3. TypeOK'
  BY <1>1, <1>2 DEF TypeOK, ClientTypeOK, probeVars
<1>4. Handed'
  BY <1>1, <1>2 DEF Handed, Created
<1>5. Parted' /\ Imports' /\ Torn' /\ StrayClientHasCause'
  BY <1>1, <1>2, ClientsKept DEF probeVars
<1>6. Probed' /\ UnreadyHasCause'
  BY <1>1, <1>2, ProbesKept DEF probeVars, Failures
<1> QED
  BY <1>3, <1>4, <1>5, <1>6 DEF IInv

(* No client, or a rejected command: the probe keeps the cause.            *)
LEMMA CacheFailsStep ==
  ASSUME IInv, NEW p \in Callers, CacheFails(p)
  PROVE  IInv'
<1>1. /\ TypeOK /\ Handed /\ at[p] \in {"failed", "refused", "cut_off"}
      /\ UNCHANGED <<clientVars, ping, clock, probe, token, disturbed, crossed>>
  BY DEF IInv, CacheFails, Failures
<1>2. Answered(p, 503)
  BY DEF CacheFails, ReadinessCode
<1>3. /\ stage' \in [Callers -> Stages] /\ stage'[p] = "answered"
      /\ status' \in [Callers -> {0, 200, 503}] /\ status'[p] = 503
      /\ \A q \in Callers \ {p} : stage'[q] = stage[q] /\ status'[q] = status[q]
  BY <1>1, <1>2, ProbeAnswered
<1>4. TypeOK'
  BY <1>1, <1>3 DEF TypeOK, ClientTypeOK, clientVars
<1>5. Handed' /\ Parted' /\ Imports' /\ Torn' /\ StrayClientHasCause'
  BY <1>1, ClientsKept DEF IInv, Handed, Created, clientVars
<1>6. Probed' /\ UnreadyHasCause'
  BY <1>1, <1>3 DEF IInv, Parted, Probed, UnreadyHasCause, clientVars
<1> QED
  BY <1>4, <1>5, <1>6 DEF IInv

(* The key expires: every probe between its commands is disturbed.         *)
LEMMA PingExpiresStep ==
  ASSUME IInv, PingExpires
  PROVE  IInv'
<1>1. TypeOK /\ UNCHANGED <<clientVars, clock, probe, stage, token, status, crossed>>
  BY DEF IInv, PingExpires
<1>2. ping' \in Entry(0 .. MaxClock)
  BY DEF PingExpires, NoEntry, Entry
<1>3. /\ disturbed \subseteq disturbed' /\ disturbed' \subseteq Callers
      /\ \A q \in Callers : stage[q] = "get" => q \in disturbed'
  <2>1. disturbed' = disturbed \cup {q \in Callers : Between(q)}
    BY DEF PingExpires
  <2>2. \A q \in Callers : stage[q] = "get" => Between(q)
    BY DEF IInv, Probed, Between
  <2> QED
    BY <1>1, <2>1, <2>2 DEF TypeOK
<1>4. TypeOK'
  BY <1>1, <1>2, <1>3 DEF TypeOK, ClientTypeOK, clientVars
<1>5. Handed' /\ Parted' /\ Imports' /\ Torn' /\ StrayClientHasCause'
  BY <1>1, ClientsKept DEF IInv, Handed, Created, clientVars
<1>6. Probed' /\ UnreadyHasCause'
  BY <1>1, <1>3 DEF IInv, Probed, UnreadyHasCause, clientVars
<1> QED
  BY <1>4, <1>5, <1>6 DEF IInv

(* A millisecond passes, or the connection to Redis changes.               *)
LEMMA OutsideStep ==
  ASSUME IInv, Tick \/ Outage
  PROVE  IInv'
<1>1. /\ TypeOK /\ redisUp' \in BOOLEAN
      /\ UNCHANGED <<clientInstance, conn, at, held, teardown, quitting>>
      /\ UNCHANGED <<ping, probe, stage, token, status, disturbed, crossed>>
  BY DEF IInv, TypeOK, ClientTypeOK, Tick, Outage, RedisDown, RedisRecovers, clientVars, probeVars
<1>2. clock' \in 0 .. MaxClock
  BY MaxClockAssumption
  DEF IInv, TypeOK, Tick, Outage, RedisDown, RedisRecovers, probeVars
<1>3. TypeOK'
  BY <1>1, <1>2 DEF TypeOK, ClientTypeOK
<1>4. Handed' /\ Parted' /\ Imports' /\ Torn' /\ StrayClientHasCause'
  BY <1>1, ClientsKept DEF IInv, Handed, Created
<1>5. Probed' /\ UnreadyHasCause'
  BY <1>1, ProbesKept
<1> QED
  BY <1>3, <1>4, <1>5 DEF IInv

(* The teardown sends QUIT to the instance cached now; imports under way   *)
(* are crossed.                                                            *)
LEMMA ShutdownStep ==
  ASSUME IInv, Shutdown
  PROVE  IInv'
<1>1. /\ TypeOK /\ Handed /\ teardown = "idle" /\ quitting = None
      /\ UNCHANGED <<clientInstance, at, held, redisUp>>
      /\ UNCHANGED <<ping, clock, probe, stage, token, status, disturbed>>
  BY DEF IInv, Torn, Shutdown, ShutdownGracefully
<1>2. /\ crossed \subseteq crossed' /\ crossed' \subseteq Callers
      /\ \A q \in Callers : at[q] = "importing" => q \in crossed'
  BY <1>1 DEF Shutdown, TypeOK
<1>3. CASE clientInstance = None
  <2>1. teardown' = "done" /\ UNCHANGED <<conn, quitting>>
    BY <1>3 DEF Shutdown, ShutdownGracefully
  <2>2. TypeOK'
    BY <1>1, <1>2, <2>1 DEF TypeOK, ClientTypeOK, TeardownPlaces
  <2>3. Handed' /\ Parted' /\ Imports' /\ Torn'
    BY <1>1, <1>2, <1>3, <2>1 DEF Handed, Created, Parted, Imports, Torn
  <2>4. StrayClientHasCause'
    BY <1>1, <1>2, <1>3, <2>1, NoneAssumption DEF IInv, StrayClientHasCause, Live
  <2> QED
    BY <1>1, <1>2, <2>2, <2>3, <2>4, ProbesKept DEF IInv
<1>4. CASE clientInstance # None
  <2>1. /\ teardown' = "quitting" /\ quitting' = clientInstance
        /\ conn' = [conn EXCEPT ![clientInstance] = IF @ = "open" THEN "closing" ELSE @]
    BY <1>4 DEF Shutdown, ShutdownGracefully
  <2>2. /\ clientInstance \in Callers
        /\ conn' \in [Callers -> Connections]
        /\ \A c \in Callers : /\ conn'[c] # "none" <=> conn[c] # "none"
                              /\ conn'[c] \in {"open", "closing"} <=> conn[c] \in {"open", "closing"}
    BY <1>1, <1>4, <2>1 DEF TypeOK, ClientTypeOK, Connections
  <2>3. TypeOK'
    BY <1>1, <1>2, <2>1, <2>2 DEF TypeOK, ClientTypeOK, TeardownPlaces
  <2>4. Handed' /\ Parted' /\ Torn'
    BY <1>1, <1>4, <2>1, <2>2 DEF Handed, Created, Parted, Torn
  <2>5. Imports'
    BY <1>1, <1>2, <2>1 DEF IInv, Imports
  <2>6. StrayClientHasCause'
    BY <1>1, <1>2, <2>1, <2>2, NoneAssumption DEF IInv, StrayClientHasCause, Live
  <2> QED
    BY <1>1, <1>2, <2>3, <2>4, <2>5, <2>6, ProbesKept DEF IInv
<1> QED
  BY <1>3, <1>4

(* QUIT is answered, or fails: an instance other than the one that was     *)
(* closed is crossed.                                                      *)
LEMMA QuitEndsStep ==
  ASSUME IInv, QuitEnds
  PROVE  IInv'
<1>1. /\ TypeOK /\ Handed /\ teardown = "quitting" /\ quitting \in Callers
      /\ clientInstance # None
      /\ clientInstance = quitting \/ clientInstance \in crossed
      /\ UNCHANGED probeVars /\ UNCHANGED <<held, quitting, redisUp>>
  BY DEF IInv, Torn, TypeOK, ClientTypeOK, QuitEnds, QuitDone, QuitFails
<1>2. CASE QuitFails
  <2>1. teardown' = "failed" /\ UNCHANGED <<clientInstance, conn, at>>
    BY <1>2 DEF QuitFails
  <2>2. TypeOK'
    BY <1>1, <2>1 DEF TypeOK, ClientTypeOK, TeardownPlaces, probeVars
  <2>3. Handed' /\ Parted' /\ Imports' /\ Torn'
    BY <1>1, <2>1 DEF IInv, Handed, Created, Parted, Imports, Torn, probeVars
  <2>4. StrayClientHasCause'
    BY <1>1, <2>1 DEF IInv, StrayClientHasCause, Live, probeVars
  <2> QED
    BY <1>1, <2>1, <2>2, <2>3, <2>4, ProbesKept DEF IInv, probeVars
<1>3. CASE QuitDone
  <2>1. /\ teardown' = "done" /\ clientInstance' = None
        /\ conn' = [conn EXCEPT ![quitting] = "closed"]
        /\ at' = [c \in Callers |->
                    IF at[c] \in {"pending", "late"} /\ held[c] = quitting
                    THEN "cut_off" ELSE at[c]]
    BY <1>3 DEF QuitDone
  <2>2. /\ conn' \in [Callers -> Connections] /\ conn'[quitting] = "closed"
        /\ \A c \in Callers \ {quitting} : conn'[c] = conn[c]
    BY <1>1, <2>1 DEF TypeOK, ClientTypeOK, Connections
  <2>3. /\ at' \in [Callers -> CallerPlaces]
        /\ \A c \in Callers : at'[c] = at[c] \/ (at'[c] = "cut_off" /\ at[c] \in {"pending", "late"})
    BY <1>1, <2>1 DEF TypeOK, ClientTypeOK, CallerPlaces, Failures
  <2>4. TypeOK'
    BY <1>1, <2>1, <2>2, <2>3 DEF TypeOK, ClientTypeOK, TeardownPlaces, probeVars
  <2>5. Handed' /\ Parted'
    BY <1>1, <2>1, <2>2, <2>3 DEF Handed, Created, Parted
  <2>6. Imports' /\ Torn'
    BY <1>1, <2>1, <2>3 DEF IInv, Imports, Torn, probeVars
  <2>7. StrayClientHasCause'
    BY <1>1, <2>1, <2>2 DEF IInv, StrayClientHasCause, Live, probeVars
  <2>8. Probed' /\ UnreadyHasCause'
    BY <1>1, <2>1, <2>3, ProbesKept DEF probeVars, Failures
  <2> QED
    BY <2>4, <2>5, <2>6, <2>7, <2>8 DEF IInv
<1> QED
  BY <1>2, <1>3 DEF QuitEnds

(***************************************************************************)
(* The theorems                                                            *)
(***************************************************************************)

(* The facts hold in a process that was asked nothing.                     *)
LEMMA InitInvariant ==
  ASSUME Init
  PROVE  IInv
<1>1. TypeOK
  BY MaxClockAssumption
  DEF Init, ClientInit, TypeOK, ClientTypeOK, NoEntry, Entry, Stages, Endpoints, Connections,
      CallerPlaces, Failures, TeardownPlaces
<1>2. Handed /\ Parted /\ Probed /\ UnreadyHasCause /\ Imports /\ Torn
  BY DEF Init, ClientInit, Handed, Created, Parted, Probed, UnreadyHasCause, Imports, Torn
<1>3. StrayClientHasCause
  BY DEF Init, ClientInit, StrayClientHasCause, Live
<1> QED
  BY <1>1, <1>2, <1>3 DEF IInv

(* Every step keeps them.                                                  *)
LEMMA NextInvariant ==
  ASSUME IInv, [Next]_vars
  PROVE  IInv'
<1>1. ASSUME UNCHANGED vars
      PROVE  IInv'
  BY <1>1 DEF vars, clientVars, probeVars, IInv, TypeOK, ClientTypeOK, Handed, Created, Parted, Probed,
              UnreadyHasCause, Imports, Torn, StrayClientHasCause, Live
<1>2. ASSUME NEW p \in Callers, NEW endpoint \in Asked, Ask(p, endpoint)
      PROVE  IInv'
  BY <1>2, AskStep
<1>3. ASSUME NEW p \in Callers, Step(p) \/ RedisRefuses(p)
      PROVE  IInv'
  BY <1>3, CheckDatabaseStep, ConnectStep, ImportStep, ImportFailsStep, SendSetStep, RunSetStep,
     RunGetStep, CacheFailsStep, RedisRefusesStep DEF Step
<1>4. CASE PingExpires
  BY <1>4, PingExpiresStep
<1>5. CASE Tick \/ Outage
  BY <1>5, OutsideStep
<1>6. CASE Shutdown
  BY <1>6, ShutdownStep
<1>7. CASE QuitEnds
  BY <1>7, QuitEndsStep
<1> QED
  BY <1>1, <1>2, <1>3, <1>4, <1>5, <1>6, <1>7 DEF Next

(* The inductive invariant holds throughout.                               *)
THEOREM Invariance == Spec => []IInv
  BY InitInvariant, NextInvariant, PTL DEF Spec

(* Type correctness: no command is ever sent on a connection that was not  *)
(* created.                                                                *)
THEOREM TypeCorrect == Spec => []TypeOK
<1>1. IInv => TypeOK
  BY DEF IInv
<1> QED
  BY <1>1, Invariance, PTL

(* However many probes share the key, a 503 has one of the causes.         *)
THEOREM UnreadinessHasCause == Spec => []UnreadyHasCause
<1>1. IInv => UnreadyHasCause
  BY DEF IInv
<1> QED
  BY <1>1, Invariance, PTL

(* However many imports are under way, a client that nobody closes was     *)
(* created by one that overlapped another or the teardown.                 *)
THEOREM StrayClientsExplained == Spec => []StrayClientHasCause
<1>1. IInv => StrayClientHasCause
  BY DEF IInv
<1> QED
  BY <1>1, Invariance, PTL
=============================================================================
