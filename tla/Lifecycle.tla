------------------------------ MODULE Lifecycle ------------------------------
(***************************************************************************)
(* The end of one server process: ApplicationLifecycleManager              *)
(* (src/config/production/lifecycle.config.ts), the termination hooks that *)
(* PrismaClientManager installs for itself (src/lib/prisma/client.ts), and *)
(* the requests and Redis client (module RedisClient) they tear down.      *)
(*                                                                         *)
(* Both listen to SIGTERM and SIGINT.  The lifecycle manager drains HTTP,  *)
(* then closes Redis, then the database, then exits, under a 10 s ceiling; *)
(* the Prisma hook disconnects the database and exits at once.  The hook   *)
(* is there first: loading the modules constructs the UserRepository of    *)
(* AuthenticationMiddleware, and with it the Prisma instance.              *)
(*                                                                         *)
(* Each caller of RedisClient is here an HTTP request with one cache       *)
(* command to run.  Its client may hang up, after which the drain no       *)
(* longer waits for it although its handler runs on.                       *)
(***************************************************************************)
EXTENDS RedisClient

VARIABLES
  serving,          \* the HTTP listener accepts requests (boot is over)
  isShuttingDown,   \* ApplicationLifecycleManager.isShuttingDown
  stage,            \* where handleShutdownSequence is
  exitCode,         \* the code it will exit with
  guarded,          \* the listeners of the lifecycle manager are bound
  isDisconnecting,  \* PrismaClientManager.isDisconnecting
  database,         \* the connection pool
  connected,        \* requests whose client still waits
  exit,             \* how the process ended
  triggers,         \* history: the kinds of trigger that have fired
  starter           \* history: the first of them that found the listeners
                    \* of the lifecycle manager bound

lifecycleVars == <<serving, isShuttingDown, stage, exitCode, guarded,
                   isDisconnecting, database, connected, exit, triggers, starter>>
vars == <<clientVars, lifecycleVars>>

Stages == {"none", "http", "redis", "database"}
Alive == [by |-> "nobody", code |-> 0]
Exits == [by : {"nobody", "boot", "lifecycle", "fault", "timeout", "prisma"}, code : {0, 1}]

Init ==
  /\ ClientInit
  /\ serving = FALSE
  /\ isShuttingDown = FALSE
  /\ stage = "none"
  /\ exitCode = 0
  /\ guarded = FALSE
  /\ isDisconnecting = FALSE
  /\ database = "connected"
  /\ connected = Callers
  /\ exit = Alive
  /\ triggers = {}
  /\ starter = "nobody"

Running == exit = Alive
Finished(c) == at[c] \in {"new", "answered"} \cup Failures
InFlight == {c \in connected : ~Finished(c)}

ProcessExit(by, code) == exit' = [by |-> by, code |-> code]

(***************************************************************************)
(* Boot and requests                                                       *)
(***************************************************************************)

(* bootstrapServer: bindLifecycleGuards, plugins and routes, then listen.  *)
BindLifecycleGuards ==
  /\ Running
  /\ ~guarded
  /\ guarded' = TRUE
  /\ UNCHANGED <<clientVars, serving, isShuttingDown, stage, exitCode,
                 isDisconnecting, database, connected, exit, triggers, starter>>

Listen ==
  /\ Running
  /\ guarded /\ ~serving /\ stage = "none"
  /\ serving' = TRUE
  /\ UNCHANGED <<clientVars, isShuttingDown, stage, exitCode, guarded,
                 isDisconnecting, database, connected, exit, triggers, starter>>

BootFails ==
  /\ Running
  /\ ~serving
  /\ ProcessExit("boot", 1)
  /\ UNCHANGED <<clientVars, serving, isShuttingDown, stage, exitCode, guarded,
                 isDisconnecting, database, connected, triggers, starter>>

(* A request is accepted, and its handler runs; fastify.close stops the    *)
(* former at once and lets the latter go on.                               *)
Accept(c) ==
  /\ Running
  /\ serving /\ stage = "none"
  /\ GetClient(c)
  /\ UNCHANGED lifecycleVars

Handle(c) ==
  /\ Running
  /\ CallerStep(c) \/ FailImport(c)
  /\ UNCHANGED lifecycleVars

HangUp(c) ==
  /\ Running
  /\ c \in InFlight
  /\ connected' = connected \ {c}
  /\ UNCHANGED <<clientVars, serving, isShuttingDown, stage, exitCode, guarded,
                 isDisconnecting, database, exit, triggers, starter>>

(***************************************************************************)
(* Triggers                                                                *)
(***************************************************************************)

(* handleShutdownSequence up to its first await, fastify.close().          *)
BeginShutdownAgain(code) ==
  isShuttingDown' = TRUE /\ stage' = "http" /\ exitCode' = code

BeginShutdownLatest(code) ==
  /\ isShuttingDown' = TRUE /\ exitCode' = code
  /\ IF isShuttingDown THEN UNCHANGED stage ELSE stage' = "http"

BeginShutdown(code) ==
  IF isShuttingDown THEN UNCHANGED <<isShuttingDown, stage, exitCode>>
  ELSE isShuttingDown' = TRUE /\ stage' = "http" /\ exitCode' = code

(* The history of who came first does not ask isShuttingDown.              *)
StartedBy(trigger) == starter' = IF starter = "nobody" THEN trigger ELSE starter

(* SIGTERM or SIGINT: every listener bound so far runs its synchronous     *)
(* part.                                                                   *)
Signal ==
  /\ Running
  /\ isDisconnecting' = TRUE
  /\ IF guarded THEN BeginShutdown(0) /\ StartedBy("signal")
                ELSE UNCHANGED <<isShuttingDown, stage, exitCode, starter>>
  /\ triggers' = triggers \cup {"signal"}
  /\ UNCHANGED <<clientVars, serving, guarded, database, connected, exit>>

(* uncaughtException or unhandledRejection; without a listener it ends the *)
(* process (BootFails).                                                    *)
Exception ==
  /\ Running
  /\ guarded
  /\ BeginShutdown(1)
  /\ StartedBy("exception")
  /\ triggers' = triggers \cup {"exception"}
  /\ UNCHANGED <<clientVars, serving, guarded, isDisconnecting, database,
                 connected, exit>>

(***************************************************************************)
(* The teardown sequence                                                   *)
(***************************************************************************)
DrainSkipped == TRUE
Drained == InFlight = {}

HttpClosed ==
  /\ Running
  /\ stage = "http"
  /\ Drained
  /\ stage' = "redis"
  /\ UNCHANGED <<clientVars, serving, isShuttingDown, exitCode, guarded,
                 isDisconnecting, database, connected, exit, triggers, starter>>

CloseRedisUnawaited ==
  /\ Running
  /\ stage \in {"http", "redis"}
  /\ ShutdownGracefully \/ QuitDone \/ QuitFails
  /\ UNCHANGED lifecycleVars

CloseRedis ==
  /\ Running
  /\ stage = "redis"
  /\ ShutdownGracefully \/ QuitDone \/ QuitFails
  /\ UNCHANGED lifecycleVars

(* getPrismaClient() finds the instance.                                   *)
CloseDatabase ==
  /\ Running
  /\ stage = "redis"
  /\ teardown \in {"done", "failed"}
  /\ stage' = "database"
  /\ UNCHANGED <<clientVars, serving, isShuttingDown, exitCode, guarded,
                 isDisconnecting, database, connected, exit, triggers, starter>>

Terminate ==
  /\ Running
  /\ stage = "database"
  /\ database' = "disconnected"
  /\ ProcessExit("lifecycle", exitCode)
  /\ UNCHANGED <<clientVars, serving, isShuttingDown, stage, exitCode, guarded,
                 isDisconnecting, connected, triggers, starter>>

(* fastify.close() or $disconnect() rejects.                               *)
ShutdownFault ==
  /\ Running
  /\ stage \in {"http", "database"}
  /\ ProcessExit("fault", 1)
  /\ UNCHANGED <<clientVars, serving, isShuttingDown, stage, exitCode, guarded,
                 isDisconnecting, database, connected, triggers, starter>>

(* The 10 s ceiling, set before the first await.                           *)
TimerRunsAfterDrain == isShuttingDown /\ stage # "http"
TimerRuns == isShuttingDown

ForceExit ==
  /\ Running
  /\ TimerRuns
  /\ ProcessExit("timeout", 1)
  /\ UNCHANGED <<clientVars, serving, isShuttingDown, stage, exitCode, guarded,
                 isDisconnecting, database, connected, triggers, starter>>

(* handleTermination of the Prisma hook, after its await: $disconnect      *)
(* resolved, or rejected.                                                  *)
PrismaTerminate ==
  /\ Running
  /\ isDisconnecting
  /\ \/ database' = "disconnected" /\ ProcessExit("prisma", 0)
     \/ ProcessExit("prisma", 1) /\ UNCHANGED database
  /\ UNCHANGED <<clientVars, serving, isShuttingDown, stage, exitCode, guarded,
                 isDisconnecting, connected, triggers, starter>>

Outage ==
  /\ Running
  /\ RedisDown \/ RedisRecovers
  /\ UNCHANGED lifecycleVars

Exited == ~Running /\ UNCHANGED vars

Next ==
  \/ BindLifecycleGuards
  \/ Listen
  \/ BootFails
  \/ \E c \in Callers : Accept(c) \/ Handle(c) \/ HangUp(c)
  \/ Signal
  \/ Exception
  \/ HttpClosed
  \/ CloseRedis
  \/ CloseDatabase
  \/ Terminate
  \/ ShutdownFault
  \/ ForceExit
  \/ PrismaTerminate
  \/ Outage
  \/ Exited

Spec == Init /\ [][Next]_vars

(* The event loop runs a due timer, whatever the requests and Redis do;    *)
(* and the $disconnect of the Prisma instance settles, which is all that   *)
(* ends a process signalled before bindLifecycleGuards.                    *)
FairSpec == Spec /\ WF_vars(ForceExit) /\ WF_vars(PrismaTerminate)

(***************************************************************************)
(* Properties                                                              *)
(***************************************************************************)
TypeOK ==
  /\ ClientTypeOK
  /\ serving \in BOOLEAN
  /\ isShuttingDown \in BOOLEAN
  /\ stage \in Stages
  /\ exitCode \in {0, 1}
  /\ guarded \in BOOLEAN
  /\ isDisconnecting \in BOOLEAN
  /\ database \in {"connected", "disconnected"}
  /\ connected \subseteq Callers
  /\ exit \in Exits
  /\ triggers \subseteq {"signal", "exception"}
  /\ starter \in {"nobody", "signal", "exception"}

(* Redis is closed only once HTTP has drained, and the lifecycle manager   *)
(* disconnects the database only once Redis is closed or has failed to     *)
(* close: no waiting request finds its cache or database gone under it,    *)
(* whatever order the triggers come in, as long as it is the lifecycle     *)
(* manager that acts.                                                      *)
TeardownInOrder ==
  /\ teardown # "idle" => InFlight = {}
  /\ database = "disconnected" /\ exit.by # "prisma" =>
       teardown \in {"done", "failed"} /\ InFlight = {}

(* The exit code tells what happened.  No process reports success that was *)
(* never signalled; and a teardown that runs to its end reports the first  *)
(* trigger its listeners heard, 0 for a signal and 1 for an exception,     *)
(* whatever other triggers come before it is over.  (The hook of Prisma    *)
(* may still exit 0 when a signal follows an exception.)                   *)
ExitCodeTellsCause ==
  /\ ~Running /\ exit.code = 0 => "signal" \in triggers
  /\ exit.by = "lifecycle" => exit.code = IF starter = "exception" THEN 1 ELSE 0

(* Once the teardown has begun no further trigger restarts it or changes   *)
(* the code it ends with.                                                  *)
TeardownOnce ==
  [][isShuttingDown =>
       /\ exitCode' = exitCode
       /\ stage # "http" => stage' # "http"]_vars

(* What a client of the process sees of its end.                           *)
Phase ==
  CASE stage = "none" -> IF serving THEN "open" ELSE "starting"
    [] stage = "http" -> "draining"
    [] stage = "redis" -> IF teardown \in {"done", "failed"} THEN "released" ELSE "releasing"
    [] stage = "database" -> "parting"

HowEnded ==
  [nobody |-> "running", lifecycle |-> "orderly", prisma |-> "hook",
   boot |-> "cut_short", fault |-> "cut_short", timeout |-> "cut_short"]

Ending == [how |-> HowEnded[exit.by], code |-> exit.code]

Orderly == INSTANCE OrderlyExit WITH
  Requests <- Callers, waiting <- InFlight, phase <- Phase, code <- exitCode,
  signalled <- "signal" \in triggers, ending <- Ending

(* The teardown with its awaits, its timer and the hook beside it, under   *)
(* whatever triggers, hang-ups and outages come in between, is an orderly  *)
(* exit: nothing is accepted once it has begun, it goes through its phases *)
(* once and in order, each after the last waiting request is served, and   *)
(* ends with the code of the trigger that began it unless it is cut short. *)
ImplementsOrderlyExit == Orderly!Spec

(* Closing Redis costs no waited-for request its command.  A command that  *)
(* is thrown away (it was sent after QUIT, or had no answer when a client  *)
(* that was not connected closed) belongs to a request whose client had    *)
(* hung up: the drain does not wait for those, and their handlers go on    *)
(* sending during the teardown.                                            *)
OnlyHungUpLoseCommands == \A c \in Callers : at[c] = "cut_off" => c \notin connected

(* A process that was told to stop stops, even when a request hangs on an  *)
(* unreachable Redis and the drain never ends.                             *)
TriggerLeadsToExit == triggers # {} ~> ~Running

(* Process hooks allow "active queries to finish processing" and drain     *)
(* "connection pools cleanly before the container exits"                   *)
(* (docs/database/database-design.md line 63): a process that exits        *)
(* successfully leaves no request unanswered.                              *)
QueriesFinishBeforeExit == ~Running /\ exit.code = 0 => InFlight = {}
=============================================================================
