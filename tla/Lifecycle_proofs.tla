-------------------------- MODULE Lifecycle_proofs --------------------------
(***************************************************************************)
(* For every set of requests: the type invariant of Lifecycle, the order   *)
(* of its teardown, the meaning of its exit code, that a further trigger   *)
(* does not undo what has begun, and whose commands closing Redis costs.   *)
(***************************************************************************)
EXTENDS Lifecycle, TLAPS

(***************************************************************************)
(* The inductive invariant                                                 *)
(***************************************************************************)

(* Every client that is cached or was handed out has been created, and     *)
(* only the teardown closes one.                                           *)
Handed ==
  /\ clientInstance # None => conn[clientInstance] # "none"
  /\ \A c \in Callers : at[c] = "ready" => held[c] \in Callers /\ conn[held[c]] # "none"
  /\ \A c \in Callers : conn[c] \in {"closing", "closed"} => teardown # "idle"

(* How far the teardown is: HTTP is drained for good before Redis is       *)
(* touched, Redis before the database, and the database before the exit.   *)
Progress ==
  /\ stage # "none" <=> isShuttingDown
  /\ stage \in {"redis", "database"} => InFlight = {}
  /\ teardown # "idle" => stage \in {"redis", "database"}
  /\ stage = "database" => teardown \in {"done", "failed"}
  /\ database = "disconnected" =>
       ~Running /\ (exit.by # "prisma" => stage = "database")

(* Where a code comes from: the teardown carries that of its first         *)
(* trigger, which is the one history saw first.                            *)
CodeOf(trigger) == IF trigger = "exception" THEN 1 ELSE 0

Codes ==
  /\ isDisconnecting => "signal" \in triggers
  /\ isShuttingDown <=> starter # "nobody"
  /\ starter = "signal" => "signal" \in triggers
  /\ isShuttingDown => exitCode = CodeOf(starter)
  /\ exit.by = "lifecycle" => isShuttingDown /\ exit.code = exitCode
  /\ ~Running /\ exit.code = 0 => "signal" \in triggers

IInv == TypeOK /\ Handed /\ Progress /\ Codes /\ OnlyHungUpLoseCommands

(***************************************************************************)
(* The Redis client                                                        *)
(***************************************************************************)

(* A step of the client manager or of a caller keeps the types, and no     *)
(* client becomes one that was never created.                              *)
LEMMA ClientStep ==
  ASSUME ClientTypeOK, Handed,
         \/ \E c \in Callers : GetClient(c) \/ CallerStep(c) \/ FailImport(c)
         \/ ShutdownGracefully \/ QuitDone \/ QuitFails \/ RedisDown \/ RedisRecovers
  PROVE  ClientTypeOK' /\ Handed'
<1>1. ASSUME NEW c \in Callers, GetClient(c)
      PROVE  ClientTypeOK' /\ Handed'
  BY <1>1, NoneAssumption DEF GetClient, ClientTypeOK, Handed, CallerPlaces, Failures
<1>2. ASSUME NEW c \in Callers, FinishImport(c)
      PROVE  ClientTypeOK' /\ Handed'
  BY <1>2, NoneAssumption DEF FinishImport, ClientTypeOK, Handed, CallerPlaces, Failures, Connections
<1>3. ASSUME NEW c \in Callers, FailImport(c)
      PROVE  ClientTypeOK' /\ Handed'
  BY <1>3 DEF FailImport, ClientTypeOK, Handed, CallerPlaces, Failures
<1>4. ASSUME NEW c \in Callers, Send(c)
      PROVE  ClientTypeOK' /\ Handed'
  <2>1. held[c] \in Callers /\ conn[held[c]] \in {"open", "closing", "closed"}
    BY <1>4 DEF Send, Handed, ClientTypeOK, Connections
  <2>2. SentTo[conn[held[c]]] \in {"pending", "late", "cut_off"}
    BY <2>1 DEF SentTo
  <2> QED
    BY <1>4, <2>2 DEF Send, ClientTypeOK, Handed, CallerPlaces, Failures
<1>5. ASSUME NEW c \in Callers, Answer(c) \/ Refuse(c)
      PROVE  ClientTypeOK' /\ Handed'
  BY <1>5 DEF Answer, Refuse, ClientTypeOK, Handed, CallerPlaces, Failures
<1>6. CASE ShutdownGracefully
  <2>1. CASE clientInstance = None
    BY <1>6, <2>1 DEF ShutdownGracefully, ClientTypeOK, Handed, TeardownPlaces
  <2>2. CASE clientInstance # None
    <3>1. clientInstance \in Callers
      BY <2>2 DEF ClientTypeOK
    <3>2. /\ conn' \in [Callers -> Connections]
          /\ \A c \in Callers : conn[c] # "none" => conn'[c] # "none"
      BY <1>6, <2>2, <3>1 DEF ShutdownGracefully, ClientTypeOK, Connections
    <3> QED
      BY <1>6, <2>2, <3>1, <3>2 DEF ShutdownGracefully, ClientTypeOK, Handed, TeardownPlaces
  <2> QED
    BY <2>1, <2>2
<1>7. CASE QuitDone
  <2>1. /\ conn' \in [Callers -> Connections]
        /\ \A c \in Callers : conn[c] # "none" => conn'[c] # "none"
    BY <1>7 DEF QuitDone, ClientTypeOK, Connections
  <2>2. /\ at' \in [Callers -> CallerPlaces]
        /\ \A c \in Callers : at'[c] = "ready" => at[c] = "ready"
    BY <1>7 DEF QuitDone, ClientTypeOK, CallerPlaces, Failures
  <2> QED
    BY <1>7, <2>1, <2>2 DEF QuitDone, ClientTypeOK, Handed, TeardownPlaces
<1>8. CASE QuitFails \/ RedisDown \/ RedisRecovers
  BY <1>8 DEF QuitFails, RedisDown, RedisRecovers, ClientTypeOK, Handed, TeardownPlaces
<1> QED
  BY <1>1, <1>2, <1>3, <1>4, <1>5, <1>6, <1>7, <1>8 DEF CallerStep

(* A request whose handler has ended does not begin again by the steps of  *)
(* other handlers or of the teardown.                                      *)
LEMMA FinishedStays ==
  ASSUME ClientTypeOK, connected \subseteq Callers,
         \/ \E c \in Callers : CallerStep(c) \/ FailImport(c)
         \/ ShutdownGracefully \/ QuitDone \/ QuitFails \/ RedisDown \/ RedisRecovers,
         UNCHANGED connected, InFlight = {}
  PROVE  InFlight' = {}
<1> SUFFICES ASSUME NEW d \in connected, Finished(d)
             PROVE  Finished(d)'
  BY DEF InFlight
<1>1. ASSUME NEW c \in Callers, CallerStep(c) \/ FailImport(c)
      PROVE  Finished(d)'
  <2>1. at[c] \in {"importing", "ready", "pending"} /\ \A e \in Callers : e # c => at'[e] = at[e]
    BY <1>1 DEF CallerStep, FailImport, FinishImport, Send, Answer, Refuse, ClientTypeOK
  <2> QED
    BY <2>1 DEF Finished, Failures
<1>2. CASE ShutdownGracefully \/ QuitFails \/ RedisDown \/ RedisRecovers
  BY <1>2 DEF ShutdownGracefully, QuitFails, RedisDown, RedisRecovers, Finished, Failures
<1>3. CASE QuitDone
  BY <1>3 DEF QuitDone, Finished, Failures, ClientTypeOK
<1> QED
  BY <1>1, <1>2, <1>3

(* Steps that leave the client alone leave its requests alone; those whose *)
(* client hangs up are waited for no more.                                 *)
LEMMA ClientIdle ==
  ASSUME IInv, UNCHANGED clientVars, connected' \subseteq connected
  PROVE  /\ ClientTypeOK' /\ Handed' /\ UNCHANGED teardown
         /\ InFlight = {} => InFlight' = {}
         /\ OnlyHungUpLoseCommands'
<1>1. UNCHANGED <<clientInstance, conn, at, held, teardown, quitting, redisUp>>
  BY DEF clientVars
<1>2. ClientTypeOK' /\ Handed'
  BY <1>1 DEF IInv, TypeOK, ClientTypeOK, Handed
<1>3. \A c : Finished(c) => Finished(c)'
  BY <1>1 DEF Finished
<1> QED
  BY <1>1, <1>2, <1>3 DEF InFlight, IInv, OnlyHungUpLoseCommands

(* A handler loses its command only to a client that is closed, that is,   *)
(* once nobody waits for it.                                               *)
LEMMA HandlerLoses ==
  ASSUME ClientTypeOK, Handed, Progress, OnlyHungUpLoseCommands, UNCHANGED connected,
         NEW c \in Callers, CallerStep(c) \/ FailImport(c)
  PROVE  OnlyHungUpLoseCommands'
<1>1. ASSUME NEW d \in Callers, at'[d] = "cut_off", at[d] # "cut_off"
      PROVE  d \notin connected
  <2>1. d = c /\ Send(c) /\ SentTo[conn[held[c]]] = "cut_off"
    BY <1>1 DEF CallerStep, FinishImport, Send, Answer, Refuse, FailImport, ClientTypeOK
  <2>2. at[c] = "ready" /\ held[c] \in Callers /\ conn[held[c]] \in {"open", "closing", "closed"}
    BY <2>1 DEF Send, Handed, ClientTypeOK, Connections
  <2>3. conn[held[c]] = "closed"
    BY <2>1, <2>2 DEF SentTo
  <2>4. InFlight = {}
    BY <2>2, <2>3 DEF Handed, Progress
  <2> QED
    BY <2>1, <2>2, <2>4 DEF InFlight, Finished, Failures
<1> QED
  BY <1>1 DEF OnlyHungUpLoseCommands

(***************************************************************************)
(* The invariant is inductive                                              *)
(***************************************************************************)
(* A process that has just started satisfies it.                           *)
LEMMA InitInvariant == Init => IInv
<1>1. Init => TypeOK
  <2>1. Init => ClientTypeOK
    BY DEF Init, ClientInit, ClientTypeOK, Connections, CallerPlaces, Failures, TeardownPlaces
  <2>2. Alive \in Exits
    BY DEF Alive, Exits
  <2> QED
    BY <2>1, <2>2 DEF Init, TypeOK, Stages
<1>2. Init => Handed /\ Progress /\ Codes /\ OnlyHungUpLoseCommands
  BY DEF Init, ClientInit, Handed, Progress, Codes, Running, Alive, OnlyHungUpLoseCommands
<1> QED
  BY <1>1, <1>2 DEF IInv

(* A trigger begins the teardown once, with its own code.                  *)
LEMMA BeginOnce ==
  ASSUME IInv, NEW code \in {0, 1}, BeginShutdown(code)
  PROVE  \/ isShuttingDown /\ UNCHANGED <<isShuttingDown, stage, exitCode>>
         \/ ~isShuttingDown /\ isShuttingDown' /\ stage' = "http" /\ exitCode' = code
  BY DEF BeginShutdown, IInv, TypeOK

(* No step of the process leaves the invariant.                            *)
LEMMA StepInvariant == IInv /\ [Next]_vars => IInv'
<1> SUFFICES ASSUME IInv, [Next]_vars
             PROVE  IInv'
  OBVIOUS
<1>1. CASE BindLifecycleGuards \/ Listen
  <2>1. /\ UNCHANGED <<clientVars, isShuttingDown, stage, exitCode, isDisconnecting, database,
                       connected, exit, triggers, starter>>
        /\ guarded' \in BOOLEAN /\ serving' \in BOOLEAN
    BY <1>1 DEF BindLifecycleGuards, Listen, IInv, TypeOK
  <2> QED
    BY <2>1, ClientIdle DEF IInv, TypeOK, Progress, Codes, Running
<1>2. CASE BootFails \/ ForceExit \/ ShutdownFault
  <2>1. exit' \in Exits /\ exit'.code = 1 /\ exit' # Alive /\ exit'.by # "lifecycle"
    BY <1>2 DEF BootFails, ForceExit, ShutdownFault, ProcessExit, Exits, Alive
  <2>2. /\ UNCHANGED <<clientVars, serving, isShuttingDown, stage, exitCode, guarded,
                       isDisconnecting, database, connected, triggers, starter>>
        /\ Running
    BY <1>2 DEF BootFails, ForceExit, ShutdownFault
  <2> QED
    BY <2>1, <2>2, ClientIdle DEF IInv, TypeOK, Progress, Codes, Running
<1>3. ASSUME NEW c \in Callers, Accept(c)
      PROVE  IInv'
  <2>1. Running /\ stage = "none" /\ GetClient(c) /\ UNCHANGED lifecycleVars /\ ClientTypeOK /\ Handed
    BY <1>3 DEF Accept, IInv, TypeOK
  <2>2. ClientTypeOK' /\ Handed'
    BY <2>1, ClientStep
  <2>3. UNCHANGED teardown
    BY <2>1 DEF GetClient
  <2>4. \A d \in Callers : at'[d] = "cut_off" => at[d] = "cut_off"
    BY <2>1 DEF GetClient, ClientTypeOK
  <2> QED
    BY <2>1, <2>2, <2>3, <2>4
    DEF lifecycleVars, IInv, TypeOK, Progress, Codes, Running, OnlyHungUpLoseCommands
<1>4. ASSUME NEW c \in Callers, Handle(c)
      PROVE  IInv'
  <2>1. /\ Running /\ (CallerStep(c) \/ FailImport(c)) /\ UNCHANGED lifecycleVars
        /\ ClientTypeOK /\ Handed
    BY <1>4 DEF Handle, IInv, TypeOK
  <2>2. ClientTypeOK' /\ Handed'
    BY <2>1, ClientStep
  <2>3. UNCHANGED teardown
    BY <2>1 DEF CallerStep, FinishImport, Send, Answer, Refuse, FailImport
  <2>4. InFlight = {} => InFlight' = {}
    BY <2>1, FinishedStays DEF lifecycleVars, IInv, TypeOK
  <2>5. OnlyHungUpLoseCommands'
    BY <2>1, HandlerLoses DEF lifecycleVars, IInv
  <2> QED
    BY <2>1, <2>2, <2>3, <2>4, <2>5 DEF lifecycleVars, IInv, TypeOK, Progress, Codes, Running
<1>5. ASSUME NEW c \in Callers, HangUp(c)
      PROVE  IInv'
  BY <1>5, ClientIdle DEF HangUp, IInv, TypeOK, Progress, Codes, Running
<1>6. CASE Signal \/ Exception
  <2>1. /\ UNCHANGED <<clientVars, serving, guarded, database, connected, exit>> /\ Running
        /\ triggers \subseteq triggers' /\ triggers' \subseteq {"signal", "exception"}
        /\ isDisconnecting' \in BOOLEAN /\ (isDisconnecting' => "signal" \in triggers')
        /\ starter' \in {"nobody", "signal", "exception"}
    <3>1. isDisconnecting \in BOOLEAN /\ triggers \subseteq {"signal", "exception"}
          /\ (isDisconnecting => "signal" \in triggers)
          /\ starter \in {"nobody", "signal", "exception"}
      BY DEF IInv, TypeOK, Codes
    <3>2. CASE Signal
      BY <3>1, <3>2 DEF Signal, StartedBy
    <3>3. CASE Exception
      BY <3>1, <3>3 DEF Exception, StartedBy
    <3> QED
      BY <1>6, <3>2, <3>3
  <2>2. \/ UNCHANGED <<isShuttingDown, stage, exitCode, starter>>
        \/ /\ ~isShuttingDown /\ isShuttingDown' = TRUE /\ stage' = "http" /\ exitCode' \in {0, 1}
           /\ starter' \in {"signal", "exception"} /\ exitCode' = CodeOf(starter')
           /\ starter' = "signal" => "signal" \in triggers'
    <3>1. isShuttingDown \in BOOLEAN /\ (isShuttingDown <=> starter # "nobody")
      BY DEF IInv, TypeOK, Codes
    <3>2. CASE Signal
      BY <3>1, <3>2 DEF Signal, BeginShutdown, StartedBy, CodeOf
    <3>3. CASE Exception
      BY <3>1, <3>3 DEF Exception, BeginShutdown, StartedBy, CodeOf
    <3> QED
      BY <1>6, <3>2, <3>3
  <2>3. /\ ClientTypeOK' /\ Handed' /\ UNCHANGED teardown /\ (InFlight = {} => InFlight' = {})
        /\ OnlyHungUpLoseCommands'
    BY <2>1, ClientIdle
  <2>4. TypeOK'
    BY <2>1, <2>2, <2>3 DEF IInv, TypeOK, Stages
  <2>5. Progress'
    BY <2>1, <2>2, <2>3 DEF IInv, Progress, Running
  <2>6. Codes'
    BY <2>1, <2>2 DEF IInv, Codes, Running, Alive
  <2> QED
    BY <2>3, <2>4, <2>5, <2>6 DEF IInv
<1>7. CASE HttpClosed
  BY <1>7, ClientIdle DEF HttpClosed, Drained, IInv, TypeOK, Progress, Codes, Running, Stages
<1>8. CASE CloseRedis
  <2>1. /\ Running /\ stage = "redis" /\ (ShutdownGracefully \/ QuitDone \/ QuitFails)
        /\ UNCHANGED lifecycleVars /\ ClientTypeOK /\ Handed /\ InFlight = {}
    BY <1>8 DEF CloseRedis, IInv, TypeOK, Progress
  <2>2. ClientTypeOK' /\ Handed'
    BY <2>1, ClientStep
  <2>3. InFlight' = {}
    BY <2>1, FinishedStays DEF lifecycleVars, IInv, TypeOK
  <2>4. OnlyHungUpLoseCommands'
    <3>1. \A c \in Callers : at'[c] = "cut_off" => at[c] \in {"cut_off", "pending", "late"}
      BY <2>1 DEF ShutdownGracefully, QuitDone, QuitFails, ClientTypeOK
    <3>2. \A c \in connected : at[c] \notin {"pending", "late"}
      BY <2>1 DEF InFlight, Finished, Failures
    <3> QED
      BY <2>1, <3>1, <3>2 DEF lifecycleVars, IInv, OnlyHungUpLoseCommands
  <2> QED
    BY <2>1, <2>2, <2>3, <2>4 DEF lifecycleVars, IInv, TypeOK, Progress, Codes, Running
<1>9. CASE CloseDatabase
  BY <1>9, ClientIdle DEF CloseDatabase, IInv, TypeOK, Progress, Codes, Running, Stages
<1>10. CASE Terminate
  <2>1. exit' = [by |-> "lifecycle", code |-> exitCode] /\ exit' \in Exits
    BY <1>10 DEF Terminate, ProcessExit, Exits, IInv, TypeOK
  <2>2. exit' # Alive
    BY <2>1 DEF Alive
  <2> QED
    BY <1>10, <2>1, <2>2, ClientIdle DEF Terminate, IInv, TypeOK, Progress, Codes, CodeOf, Running
<1>11. CASE PrismaTerminate
  <2>1. exit' \in Exits /\ exit'.by = "prisma" /\ exit' # Alive
    BY <1>11 DEF PrismaTerminate, ProcessExit, Exits, Alive
  <2> QED
    BY <1>11, <2>1, ClientIdle DEF PrismaTerminate, IInv, TypeOK, Progress, Codes, Running
<1>12. CASE Outage
  <2>1. /\ (RedisDown \/ RedisRecovers) /\ UNCHANGED lifecycleVars /\ ClientTypeOK /\ Handed
        /\ UNCHANGED <<at, teardown>>
    BY <1>12 DEF Outage, IInv, TypeOK, RedisDown, RedisRecovers
  <2>2. ClientTypeOK' /\ Handed'
    BY <2>1, ClientStep
  <2> QED
    BY <2>1, <2>2
    DEF lifecycleVars, IInv, TypeOK, Progress, Codes, Running, InFlight, Finished, OnlyHungUpLoseCommands
<1>13. CASE UNCHANGED vars
  BY <1>13, ClientIdle DEF vars, lifecycleVars, IInv, TypeOK, Progress, Codes, Running
<1> QED
  BY <1>1, <1>2, <1>3, <1>4, <1>5, <1>6, <1>7, <1>8, <1>9, <1>10, <1>11, <1>12, <1>13
  DEF Next, Exited

(***************************************************************************)
(* The theorems                                                            *)
(***************************************************************************)

(* Every behaviour of a process keeps the inductive invariant.             *)
THEOREM Invariance == Spec => []IInv
  BY InitInvariant, StepInvariant, PTL DEF Spec

(* The variables of the process stay within their types.                   *)
THEOREM TypeCorrect == Spec => []TypeOK
<1>1. IInv => TypeOK
  BY DEF IInv
<1> QED
  BY <1>1, Invariance, PTL

(* handleShutdownSequence tears down HTTP, Redis and the database in this  *)
(* order, whatever triggers and failures it meets.                         *)
THEOREM TeardownOrdered == Spec => []TeardownInOrder
<1>1. IInv => TeardownInOrder
  BY DEF IInv, Progress, TeardownInOrder
<1> QED
  BY <1>1, Invariance, PTL

(* A process exits with 0 only after a signal, and a teardown that runs to *)
(* its end reports the trigger that came first.                            *)
THEOREM ExitCodesTell == Spec => []ExitCodeTellsCause
<1>1. IInv => ExitCodeTellsCause
  BY DEF IInv, Codes, CodeOf, ExitCodeTellsCause
<1> QED
  BY <1>1, Invariance, PTL

(* The isShuttingDown guard: a teardown that has begun is not begun again. *)
THEOREM TeardownBeginsOnce == Spec => TeardownOnce
<1>1. IInv /\ [Next]_vars =>
        [isShuttingDown => exitCode' = exitCode /\ (stage # "http" => stage' # "http")]_vars
  <2> SUFFICES ASSUME IInv, Next, isShuttingDown
               PROVE  exitCode' = exitCode /\ (stage # "http" => stage' # "http")
    OBVIOUS
  <2> QED
    BY DEF Next, BindLifecycleGuards, Listen, BootFails, Accept, Handle, HangUp, Signal, Exception,
       BeginShutdown, HttpClosed, CloseRedis, CloseDatabase, Terminate, ShutdownFault, ForceExit,
       PrismaTerminate, Outage, Exited, lifecycleVars, vars
<1> QED
  BY <1>1, Invariance, PTL DEF Spec, TeardownOnce

(* A command that the closing of Redis throws away belongs to a request    *)
(* whose client had hung up, however many there are: Redis is closed only  *)
(* after the drain, which waits for all others.                            *)
THEOREM LostCommandsExplained == Spec => []OnlyHungUpLoseCommands
<1>1. IInv => OnlyHungUpLoseCommands
  BY DEF IInv
<1> QED
  BY <1>1, Invariance, PTL

(***************************************************************************)
(* The refinement of OrderlyExit                                           *)
(***************************************************************************)

(* A process that starts is one that OrderlyExit starts with.              *)
LEMMA OrderlyInit == Init => Orderly!Init
<1> SUFFICES ASSUME Init
             PROVE  Orderly!Init
  OBVIOUS
<1>1. InFlight = {}
  BY DEF Init, ClientInit, InFlight, Finished
<1>2. Phase = "starting"
  BY DEF Init, Phase
<1>3. Ending = Orderly!NotEnded
  BY DEF Init, Alive, Ending, HowEnded, Orderly!NotEnded
<1> QED
  BY <1>1, <1>2, <1>3 DEF Init, Orderly!Init

(* The ends of the process are those of the abstract one.                  *)
LEMMA EndsMatch ==
  ASSUME TypeOK
  PROVE  /\ Running <=> Orderly!Running
         /\ UNCHANGED exit => UNCHANGED Ending
         /\ \A with \in {0, 1} :
              /\ ProcessExit("lifecycle", with) => Orderly!End("orderly", with)
              /\ ProcessExit("prisma", with) => Orderly!End("hook", with)
              /\ \A by \in {"boot", "fault", "timeout"} :
                   ProcessExit(by, with) => Orderly!End("cut_short", with)
<1>1. Running <=> Orderly!Running
  <2>1. exit \in Exits
    BY DEF TypeOK
  <2>2. exit = [by |-> exit.by, code |-> exit.code]
    BY <2>1 DEF Exits
  <2>3. HowEnded[exit.by] = "running" <=> exit.by = "nobody"
    BY <2>1 DEF Exits, HowEnded
  <2>4. Running <=> exit.by = "nobody" /\ exit.code = 0
    BY <2>2 DEF Running, Alive
  <2>5. Orderly!Running <=> HowEnded[exit.by] = "running" /\ exit.code = 0
    BY DEF Orderly!Running, Orderly!NotEnded, Ending
  <2> QED
    BY <2>3, <2>4, <2>5
<1> QED
  BY <1>1 DEF Ending, ProcessExit, Orderly!End, HowEnded

(* What a handler does to those that wait: it takes its own client away at *)
(* most.                                                                   *)
LEMMA HandlerWaits ==
  ASSUME TypeOK, NEW c \in Callers, Handle(c)
  PROVE  InFlight' = InFlight \/ InFlight' = InFlight \ {c}
<1>1. /\ at[c] \in {"importing", "ready", "pending"} /\ \A e \in Callers : e # c => at'[e] = at[e]
      /\ UNCHANGED connected /\ connected \subseteq Callers
  BY DEF Handle, CallerStep, FailImport, FinishImport, Send, Answer, Refuse, TypeOK, ClientTypeOK, lifecycleVars
<1>2. \A e \in connected : e # c => (Finished(e)' <=> Finished(e))
  BY <1>1 DEF Finished, Failures
<1>3. ~Finished(c)
  BY <1>1 DEF Finished, Failures
<1> QED
  BY <1>1, <1>2, <1>3 DEF InFlight

(* Each step of the process is one of OrderlyExit or none.                 *)
LEMMA OrderlyStep ==
  ASSUME IInv, [Next]_vars
  PROVE  [Orderly!Next]_(Orderly!exitVars)
<1> USE EndsMatch
<1>0. TypeOK /\ Progress /\ Codes
  BY DEF IInv
<1>a. ASSUME UNCHANGED <<at, connected>>
      PROVE  UNCHANGED InFlight
  BY <1>a DEF InFlight, Finished
<1>b. ASSUME UNCHANGED <<stage, serving, teardown>>
      PROVE  UNCHANGED Phase
  BY <1>b DEF Phase
<1>1. CASE BindLifecycleGuards \/ Outage \/ UNCHANGED vars
  <2>1. UNCHANGED <<at, connected, stage, serving, teardown, exitCode, triggers, database, exit>>
    BY <1>1 DEF BindLifecycleGuards, Outage, RedisDown, RedisRecovers, clientVars, lifecycleVars, vars
  <2> QED
    BY <1>0, <1>a, <1>b, <2>1 DEF Orderly!exitVars
<1>2. CASE Listen
  <2>1. Phase = "starting" /\ Phase' = "open"
    BY <1>2 DEF Listen, Phase
  <2>2. UNCHANGED <<InFlight, exitCode, triggers, database, Ending>> /\ Orderly!Running
    BY <1>0, <1>2, <1>a DEF Listen, clientVars
  <2> QED
    BY <2>1, <2>2 DEF Orderly!Next, Orderly!Open
<1>3. CASE BootFails \/ ForceExit \/ ShutdownFault
  <2>1. Phase # "open"
    <3>1. ~serving \/ stage # "none"
      BY <1>0, <1>3 DEF BootFails, ForceExit, TimerRuns, ShutdownFault, Progress
    <3> QED
      BY <1>0, <3>1 DEF Phase, TypeOK, Stages
  <2>2. Orderly!Running /\ Orderly!End("cut_short", 1)
    BY <1>0, <1>3 DEF BootFails, ForceExit, ShutdownFault
  <2>3. UNCHANGED <<InFlight, Phase, exitCode, triggers, database>>
    BY <1>3, <1>a, <1>b DEF BootFails, ForceExit, ShutdownFault, clientVars
  <2> QED
    BY <2>1, <2>2, <2>3 DEF Orderly!Next, Orderly!CutShort
<1>4. ASSUME NEW c \in Callers, Accept(c)
      PROVE  [Orderly!Next]_(Orderly!exitVars)
  <2>1. InFlight' = InFlight \/ InFlight' = InFlight \cup {c}
    <3>1. /\ \A e \in Callers : e # c => at'[e] = at[e]
          /\ at'[c] \in {"ready", "importing"} /\ UNCHANGED connected /\ connected \subseteq Callers
      BY <1>0, <1>4 DEF Accept, GetClient, lifecycleVars, TypeOK, ClientTypeOK
    <3>2. \A e \in connected : e # c => (Finished(e)' <=> Finished(e))
      BY <3>1 DEF Finished
    <3>3. ~Finished(c)' /\ Finished(c)
      BY <3>1, <1>4 DEF Finished, Failures, Accept, GetClient
    <3> QED
      BY <3>1, <3>2, <3>3 DEF InFlight
  <2>2. Phase = "open" /\ UNCHANGED Phase
    BY <1>4, <1>b DEF Accept, GetClient, lifecycleVars, Phase
  <2>3. Orderly!Running /\ UNCHANGED <<exitCode, triggers, database, Ending>>
    BY <1>0, <1>4 DEF Accept, lifecycleVars
  <2> QED
    BY <2>1, <2>2, <2>3 DEF Orderly!Next, Orderly!Serve, Orderly!exitVars
<1>5. ASSUME NEW c \in Callers, Handle(c) \/ HangUp(c)
      PROVE  [Orderly!Next]_(Orderly!exitVars)
  <2>1. InFlight' = InFlight \/ InFlight' = InFlight \ {c}
    <3>1. CASE Handle(c)
      BY <1>0, <3>1, HandlerWaits
    <3>2. CASE HangUp(c)
      BY <3>2 DEF HangUp, InFlight, Finished, clientVars
    <3> QED
      BY <1>5, <3>1, <3>2
  <2>2. /\ UNCHANGED <<stage, serving, teardown, exitCode, triggers, database, exit>>
        /\ Running
    BY <1>5 DEF Handle, HangUp, CallerStep, FailImport, FinishImport, Send, Answer, Refuse, clientVars, lifecycleVars
  <2>3. Orderly!Running /\ UNCHANGED <<Phase, exitCode, triggers, database, Ending>>
    BY <1>0, <2>2, <1>b
  <2> QED
    BY <2>1, <2>3 DEF Orderly!Next, Orderly!Leave, Orderly!exitVars
<1>6. CASE Signal \/ Exception
  <2>1. /\ UNCHANGED <<InFlight, database, Ending>> /\ Orderly!Running
        /\ UNCHANGED <<serving, teardown>>
    BY <1>0, <1>6, <1>a DEF Signal, Exception, clientVars
  <2>2. PICK with \in {0, 1} :
          /\ with = 0 => "signal" \in triggers'
          /\ with = 1 => ("signal" \in triggers' <=> "signal" \in triggers)
          /\ \/ UNCHANGED <<isShuttingDown, stage, exitCode>>
             \/ ~isShuttingDown /\ stage' = "http" /\ exitCode' = with
    BY <1>0, <1>6 DEF Signal, Exception, BeginShutdown, TypeOK
  <2>3. CASE UNCHANGED <<isShuttingDown, stage, exitCode>>
    <3>1. UNCHANGED Phase
      BY <1>b, <2>1, <2>3
    <3> QED
      BY <2>1, <2>2, <2>3, <3>1 DEF Orderly!Next, Orderly!Signal, Orderly!exitVars
  <2>4. CASE ~isShuttingDown /\ stage' = "http" /\ exitCode' = with
    <3>1. Phase \in {"starting", "open"} /\ Phase' = "draining"
      BY <1>0, <2>4 DEF Progress, Phase
    <3> QED
      BY <2>1, <2>2, <2>4, <3>1 DEF Orderly!Next, Orderly!Stop
  <2> QED
    BY <2>2, <2>3, <2>4
<1>7. CASE HttpClosed
  <2>1. Phase = "draining" /\ Phase' = "releasing" /\ InFlight = {}
    BY <1>0, <1>7 DEF HttpClosed, Drained, Phase, Progress, clientVars
  <2>2. UNCHANGED <<InFlight, exitCode, triggers, database, Ending>> /\ Orderly!Running
    BY <1>0, <1>7, <1>a DEF HttpClosed, clientVars
  <2> QED
    BY <2>1, <2>2 DEF Orderly!Next, Orderly!Advance
<1>8. CASE CloseRedis
  <2>1. UNCHANGED InFlight
    BY <1>0, <1>8, FinishedStays DEF CloseRedis, Progress, lifecycleVars, TypeOK
  <2>2. Phase = "releasing" /\ Phase' \in {"releasing", "released"}
    BY <1>8 DEF CloseRedis, ShutdownGracefully, QuitDone, QuitFails, Phase, lifecycleVars
  <2>3. Orderly!Running /\ UNCHANGED <<exitCode, triggers, database, Ending>>
    BY <1>0, <1>8 DEF CloseRedis, lifecycleVars
  <2> QED
    BY <2>1, <2>2, <2>3 DEF Orderly!Next, Orderly!Advance, Orderly!exitVars
<1>9. CASE CloseDatabase
  <2>1. Phase = "released" /\ Phase' = "parting"
    BY <1>9 DEF CloseDatabase, Phase
  <2>2. UNCHANGED <<InFlight, exitCode, triggers, database, Ending>> /\ Orderly!Running
    BY <1>0, <1>9, <1>a DEF CloseDatabase, clientVars
  <2> QED
    BY <2>1, <2>2 DEF Orderly!Next, Orderly!Advance
<1>10. CASE Terminate
  <2>1. Phase = "parting" /\ UNCHANGED Phase
    BY <1>10, <1>b DEF Terminate, Phase, clientVars
  <2>2. Orderly!Running /\ Orderly!End("orderly", exitCode)
    BY <1>0, <1>10 DEF Terminate, TypeOK
  <2>3. UNCHANGED <<InFlight, exitCode, triggers>> /\ database' = "disconnected"
    BY <1>10, <1>a DEF Terminate, clientVars
  <2> QED
    BY <2>1, <2>2, <2>3 DEF Orderly!Next, Orderly!Depart
<1>11. CASE PrismaTerminate
  <2>1. "signal" \in triggers /\ Orderly!Running
    BY <1>0, <1>11 DEF PrismaTerminate, Codes
  <2>2. UNCHANGED <<InFlight, Phase, exitCode, triggers>>
    BY <1>11, <1>a, <1>b DEF PrismaTerminate, clientVars
  <2>3. \/ database' = "disconnected" /\ Orderly!End("hook", 0)
        \/ Orderly!End("hook", 1) /\ UNCHANGED database
    BY <1>0, <1>11 DEF PrismaTerminate
  <2> QED
    BY <2>1, <2>2, <2>3 DEF Orderly!Next, Orderly!HookExit
<1> QED
  BY <1>1, <1>2, <1>3, <1>4, <1>5, <1>6, <1>7, <1>8, <1>9, <1>10, <1>11 DEF Next, Exited

(* The teardown with its awaits, its timer and the hook beside it exits in *)
(* the order OrderlyExit promises.                                         *)
THEOREM ExitImplemented == Spec => ImplementsOrderlyExit
<1>1. IInv /\ [Next]_vars => [Orderly!Next]_(Orderly!exitVars)
  BY OrderlyStep
<1> QED
  BY <1>1, OrderlyInit, Invariance, PTL DEF Spec, ImplementsOrderlyExit, Orderly!Spec
=============================================================================
