------------------------------ MODULE Bootstrap ------------------------------
(***************************************************************************)
(* bootstrapServer (src/server.ts) and the way of a request through what   *)
(* it has assembled: the check of the environment, the plugins that are    *)
(* registered with or without their packages, the hooks and routes, and    *)
(* then the chain of hooks in front of each handler.                       *)
(*                                                                         *)
(* Fastify is external.  register(plugin) runs the plugin in a context of  *)
(* its own below the application, and what the plugin sets there stays     *)
(* there; only packages made for it, such as helmet, work on the           *)
(* application itself.  A hook of the application reaches the contexts     *)
(* below it, those made before it and those made after, and a route takes  *)
(* the hooks of its context when the application is complete.  A hook is   *)
(* called with the context of its route as `this'.                         *)
(*                                                                         *)
(* The modules of the server are taken to load (the README tells what the  *)
(* source tree lacks for that).                                            *)
(***************************************************************************)
EXTENDS Naturals, Sequences

CONSTANTS
  Environments,   \* the environments a run considers
  Unset, NaN,     \* an absent variable; what parseInt makes of a malformed one
  Faults          \* the faults a run lets happen

(* present: the four mandatory variables are not blank; port and redisPort *)
(* are the numbers parseInt finds, postgres tells whether DATABASE_URL has *)
(* an accepted scheme, and secret is the length of JWT_SECRET.             *)
Environment ==
  [mode : {"production", "development", "test"} \cup {Unset}, present : BOOLEAN,
   port : Nat \cup {Unset, NaN}, redisPort : Nat \cup {NaN},
   postgres : BOOLEAN, secret : Nat]

ASSUME EnvironmentAssumption == Environments \subseteq Environment
ASSUME NumberAssumption == Unset \notin Nat /\ NaN \notin Nat
ASSUME FaultsAssumption == Faults \subseteq {"package_missing", "port_taken"}

VARIABLES
  env,            \* process.env
  at,             \* where bootstrapServer is
  hooks,          \* the hooks of each context by phase, in the order they
                  \* were added; those of a context that is not made yet
                  \* are the ones it will be made with
  errorHandler,   \* the error handler of each context
  mounted,        \* the contexts whose routes exist
  port,           \* the port the server listens on
  request,        \* the request being served, if any
  missing         \* history: what was not there when boot asked for it

bootVars == <<env, at, hooks, errorHandler, mounted, port, missing>>
vars == <<bootVars, request>>

Contexts == {"root", "boundary", "docs", "tracing", "system", "users"}
OnRequest == {"helmet", "cors", "trace"}
Hooks == OnRequest \cup {"compress", "limit"}
Phases == {"onRequest", "preHandler", "onSend"}
NoHooks == [phase \in Phases |-> <<>>]
Steps == {"schema", "framework", "boundary", "security", "compression",
          "documentation", "tracing", "limiter", "system", "users",
          "fallback", "listen", "serving", "exited"}
FirstUnprivileged == 1024
LastPort == 65535
TCPPorts == 0 .. LastPort
UnprivilegedPorts == FirstUnprivileged .. LastPort
NoUser == "none"
Idle == [route |-> "none", token |-> "none", body |-> TRUE, done |-> 0,
         user |-> NoUser, ran |-> {}, status |-> 0, by |-> "nobody"]

Init ==
  /\ env \in Environments
  /\ at = "schema"
  /\ hooks = [c \in Contexts |-> NoHooks]
  /\ errorHandler = [c \in Contexts |-> "fastify"]
  /\ mounted = {}
  /\ port = Unset
  /\ request = Idle
  /\ missing = {}

(* The order of bootstrapServer.                                           *)
Following ==
  [schema |-> "framework", framework |-> "boundary", boundary |-> "security",
   security |-> "compression", compression |-> "documentation",
   documentation |-> "tracing", tracing |-> "limiter", limiter |-> "system",
   system |-> "users", users |-> "fallback", fallback |-> "listen"]

Continue == at' = Following[at]
Exit == at' = "exited"

(***************************************************************************)
(* The environment                                                         *)
(***************************************************************************)
InRangeUpwards(n, low, high) == n # NaN /\ n >= low
InRange(n, low, high) == n # NaN /\ n >= low /\ n <= high

(* parseInt(process.env.PORT || '3000', 10), in the check and in the boot. *)
Port(e) == IF e.port = Unset THEN 3000 ELSE e.port

ValidPrivilegedPort(e) ==
  /\ e.present
  /\ InRange(Port(e), 1, LastPort)
  /\ InRange(e.redisPort, 1, LastPort)
  /\ e.postgres
  /\ e.secret >= 32

Valid(e) ==
  /\ e.present
  /\ InRange(Port(e), FirstUnprivileged, LastPort)
  /\ InRange(e.redisPort, 1, LastPort)
  /\ e.postgres
  /\ e.secret >= 32

ValidateStartupSchema ==
  /\ at = "schema"
  /\ IF env.mode = "test" \/ Valid(env) THEN Continue ELSE Exit
  /\ UNCHANGED <<env, hooks, errorHandler, mounted, port, request, missing>>

(***************************************************************************)
(* The assembly                                                            *)
(***************************************************************************)

(* The lifecycle guards are bound in the same step (module Lifecycle).     *)
CreateApplication ==
  /\ at = "framework"
  /\ \/ Continue /\ UNCHANGED missing
     \/ /\ "package_missing" \in Faults
        /\ missing' = missing \cup {"fastify"}
        /\ Exit
  /\ UNCHANGED <<env, hooks, errorHandler, mounted, port, request>>

(* fastify.addHook, and the addHook of a plugin on its own context.        *)
AddHooks(phase, added) ==
  hooks' = [c \in Contexts |-> [hooks[c] EXCEPT ![phase] = @ \o added]]
AddHooksBelow(c, phase, added) ==
  hooks' = [hooks EXCEPT ![c][phase] = @ \o added]

(* fastify.register(registerGlobalErrorHandler)                            *)
RegisterGlobalErrorHandler ==
  /\ at = "boundary"
  /\ errorHandler' = [errorHandler EXCEPT !["boundary"] = "global"]
  /\ Continue
  /\ UNCHANGED <<env, hooks, mounted, port, request, missing>>

(* Each plugin with optional packages catches the error of a failed import *)
(* and returns; one try spans both packages of the security headers.       *)
AfterMissingFatal == "exited"
AfterMissing == Following[at]

Optional(step, phase, packages) ==
  /\ at = step
  /\ \/ /\ AddHooks(phase, packages)
        /\ Continue
        /\ UNCHANGED missing
     \/ /\ "package_missing" \in Faults
        /\ \E n \in 1 .. Len(packages) :
             /\ AddHooks(phase, SubSeq(packages, 1, n - 1))
             /\ missing' = missing \cup {packages[n]}
        /\ at' = AfterMissing
  /\ UNCHANGED <<env, errorHandler, mounted, port, request>>

RegisterProductionSecurityHeaders ==
  Optional("security", "onRequest", <<"helmet", "cors">>)
RegisterProductionNetworkCompression ==
  Optional("compression", "onSend", <<"compress">>)

(* The pages of the documentation are mounted unless NODE_ENV says         *)
(* production.                                                             *)
MountsPages(e) == e.mode # "production"

RegisterSwaggerDocumentation ==
  /\ at = "documentation"
  /\ \/ /\ Continue
        /\ mounted' = IF MountsPages(env) THEN mounted \cup {"docs"} ELSE mounted
        /\ UNCHANGED missing
     \/ /\ "package_missing" \in Faults
        /\ \E package \in {"swagger"} \cup (IF MountsPages(env) THEN {"swagger-ui"} ELSE {}) :
             missing' = missing \cup {package}
        /\ at' = AfterMissing
        /\ UNCHANGED mounted
  /\ UNCHANGED <<env, hooks, errorHandler, port, request>>

(* fastify.register(registerRequestTracingLogger)                          *)
RegisterRequestTracingLogger ==
  /\ at = "tracing"
  /\ AddHooksBelow("tracing", "onRequest", <<"trace">>)
  /\ Continue
  /\ UNCHANGED <<env, errorHandler, mounted, port, request, missing>>

(* fastify.addHook('preHandler', ...), on the application itself.          *)
AddRateLimiterInPlugin ==
  /\ at = "limiter"
  /\ AddHooksBelow("tracing", "preHandler", <<"limit">>)
  /\ Continue
  /\ UNCHANGED <<env, errorHandler, mounted, port, request, missing>>

AddRateLimiter ==
  /\ at = "limiter"
  /\ AddHooks("preHandler", <<"limit">>)
  /\ Continue
  /\ UNCHANGED <<env, errorHandler, mounted, port, request, missing>>

(* systemModuleRoutes and usersModuleRoutes, each in a context of its own. *)
RegisterRoutes(c) ==
  /\ at = c
  /\ mounted' = mounted \cup {c}
  /\ Continue
  /\ UNCHANGED <<env, hooks, errorHandler, port, request, missing>>

SetNotFoundHandler ==
  /\ at = "fallback"
  /\ mounted' = mounted \cup {"root"}
  /\ Continue
  /\ UNCHANGED <<env, hooks, errorHandler, port, request, missing>>

Listen ==
  /\ at = "listen"
  /\ \/ /\ InRange(Port(env), 0, LastPort)
        /\ at' = "serving"
        /\ port' = Port(env)
        /\ UNCHANGED missing
     \/ /\ ~InRange(Port(env), 0, LastPort) \/ "port_taken" \in Faults
        /\ missing' = missing \cup {"port"}
        /\ Exit
        /\ UNCHANGED port
  /\ UNCHANGED <<env, hooks, errorHandler, mounted, request>>

(***************************************************************************)
(* A request                                                               *)
(***************************************************************************)
ContextOf ==
  [health |-> "system", ready |-> "system", live |-> "system", version |-> "system",
   build |-> "system", metrics |-> "system", docs |-> "docs", create |-> "users",
   list |-> "users", read |-> "users", update |-> "users", delete |-> "users",
   unknown |-> "root"]

Routes == DOMAIN ContextOf
Probes == {"health", "ready", "live"}

PreHandlers(route) ==
  CASE route \in {"create", "update", "delete"} -> <<"authenticate", "users:write">>
    [] route \in {"list", "read"} -> <<"authenticate", "users:view">>
    [] OTHER -> <<>>

(* Fastify parses the body between the onRequest and preHandler hooks.     *)
Chain(route) ==
  LET own == hooks[ContextOf[route]]
  IN  own["onRequest"] \o <<"parse">> \o own["preHandler"] \o PreHandlers(route)
      \o <<"handler">>

RBAC_MATRIX ==
  LET auditor == {"audit:view", "workload:view", "cluster:view"}
      developer == {"workload:view", "workload:write", "cluster:view"}
      engineer == developer \cup {"cluster:write", "audit:view"}
  IN  [AUDITOR |-> auditor, DEVELOPER |-> developer, PLATFORM_ENGINEER |-> engineer,
       ADMIN |-> engineer \cup {"users:view", "users:write"}]

RbacHasPermission(role, permission) ==
  role \in DOMAIN RBAC_MATRIX /\ permission \in RBAC_MATRIX[role]

(* The static field userRepo is found through `this' only if that is the   *)
(* class.  The repository answers one active account, of one role, for     *)
(* every subject but one.                                                  *)
HasUserRepo(this) == this = "AuthenticationMiddleware"
FixedRole == "PLATFORM_ENGINEER"

(* The checks of a presented token, in their order; each failure is null.  *)
(* What is compared is the text of a hash object whose digest was never    *)
(* asked for.  It is the same whatever was hashed, so that an altered      *)
(* token, with other claims under the signature it came with, passes.      *)
Tokens == {"none", "not_three_parts", "other_header", "other_signature",
           "expired", "altered", "valid"}
VerifyAccessToken(token) == token \in {"altered", "valid"}

Authenticate(r, this) ==
  CASE ~VerifyAccessToken(r.token) -> {401}
    [] VerifyAccessToken(r.token) /\ ~HasUserRepo(this) -> {500}
    [] OTHER -> {0, 401}

(* What each handler may answer.                                           *)
HandlerStatus ==
  [health |-> {200, 503}, ready |-> {200, 503}, live |-> {200, 500},
   version |-> {200, 500}, build |-> {200, 500}, metrics |-> {200, 500},
   docs |-> {200, 404}, create |-> {201, 400, 403, 409, 500},
   list |-> {200, 400, 403, 500}, read |-> {200, 403, 404, 500},
   update |-> {200, 400, 403, 404, 500}, delete |-> {200, 400, 403, 404, 500},
   unknown |-> {404}]

(* The statuses a step of the chain may answer; 0 is to go on.             *)
Outcomes(h, r) ==
  CASE h = "limit" -> IF r.route \in Probes THEN {0} ELSE {0, 429}
    [] h = "authenticate" -> Authenticate(r, ContextOf[r.route])
    [] h \in {"users:write", "users:view"} ->
         {IF r.user # NoUser /\ RbacHasPermission(r.user, h) THEN 0 ELSE 403}
    [] h = "handler" -> HandlerStatus[r.route]
    [] OTHER -> {0}

(* The steps that may throw: the CORS plugin rejects an unknown origin in  *)
(* production, and Fastify a malformed body.                               *)
Throws(h, r) ==
  \/ h = "cors" /\ env.mode \in {"production", Unset}
  \/ h = "parse" /\ ~r.body

(* What the two error handlers make of those errors: the global one hides  *)
(* every error it does not know behind a 500.                              *)
ErrorStatus ==
  [global |-> [cors |-> 500, parse |-> 500],
   fastify |-> [cors |-> 500, parse |-> 400]]

Receive(route, token, body) ==
  /\ at = "serving"
  /\ request = Idle
  /\ ContextOf[route] \in mounted
  /\ ~body => route \in {"create", "update"}
  /\ request' = [Idle EXCEPT !.route = route, !.token = token, !.body = body]
  /\ UNCHANGED bootVars

InChain == request.route \in Routes /\ request.status = 0
Current == Chain(request.route)[request.done + 1]

RunHook ==
  /\ InChain
  /\ ~(Current = "parse" /\ ~request.body)
  /\ \E status \in Outcomes(Current, request) :
       request' = [request EXCEPT
         !.done = @ + 1, !.ran = @ \cup {Current},
         !.status = status, !.by = IF status = 0 THEN @ ELSE Current,
         !.user = IF Current = "authenticate" /\ status = 0 THEN FixedRole ELSE @]
  /\ UNCHANGED bootVars

Throw ==
  /\ InChain
  /\ Throws(Current, request)
  /\ LET handler == errorHandler[ContextOf[request.route]]
     IN  request' = [request EXCEPT !.status = ErrorStatus[handler][Current],
                                    !.by = handler]
  /\ UNCHANGED bootVars

(* The request is over.                                                    *)
Finish ==
  /\ request.status # 0
  /\ request' = Idle
  /\ UNCHANGED bootVars

Exited == at = "exited" /\ UNCHANGED vars

Next ==
  \/ ValidateStartupSchema
  \/ CreateApplication
  \/ RegisterGlobalErrorHandler
  \/ RegisterProductionSecurityHeaders
  \/ RegisterProductionNetworkCompression
  \/ RegisterSwaggerDocumentation
  \/ RegisterRequestTracingLogger
  \/ AddRateLimiter
  \/ RegisterRoutes("system")
  \/ RegisterRoutes("users")
  \/ SetNotFoundHandler
  \/ Listen
  \/ \E route \in Routes, token \in Tokens, body \in BOOLEAN :
       Receive(route, token, body)
  \/ RunHook
  \/ Throw
  \/ Finish
  \/ Exited

Spec == Init /\ [][Next]_vars

(***************************************************************************)
(* Properties                                                              *)
(***************************************************************************)
TypeOK ==
  /\ env \in Environments
  /\ at \in Steps
  /\ hooks \in [Contexts -> [Phases -> Seq(Hooks)]]
  /\ errorHandler \in [Contexts -> {"fastify", "global"}]
  /\ mounted \subseteq Contexts
  /\ port \in TCPPorts \cup {Unset}
  /\ request.status \in {0} \cup (200 .. 599)
  /\ request.user \in {NoUser, FixedRole}
  /\ missing \subseteq Hooks \cup {"fastify", "swagger", "swagger-ui", "port"}

(* Outside tests a server that serves has passed the check of its          *)
(* environment, and the port it parses again for itself is the one that    *)
(* was checked: an unprivileged one.                                       *)
ServesOnlyValidated ==
  at = "serving" /\ env.mode # "test" =>
    /\ port \in UnprivilegedPorts
    /\ env.redisPort \in TCPPorts \ {0}
    /\ env.present /\ env.postgres /\ env.secret >= 32

(* Once its modules are loaded, boot gives up only for a reason that       *)
(* leaves no server to run: a bad environment, no framework, no port.  A   *)
(* missing optional package, in whatever combination, never keeps the      *)
(* server from serving.                                                    *)
OptionalPackagesNeverStopBoot ==
  at = "exited" =>
    \/ ~Valid(env) /\ env.mode # "test"
    \/ missing \cap {"fastify", "port"} # {}

(* How a boot ends is earned: to serve takes a checked environment and     *)
(* port, to give up takes a reason that leaves nothing to serve with.      *)
BootEndsForCause == ServesOnlyValidated /\ OptionalPackagesNeverStopBoot

(* No authentication, no permission check and no handler runs for a        *)
(* request that the rate limiter has not seen: it is added where every     *)
(* route gets it, also the documentation, whose pages are mounted before   *)
(* it, and the fallback for unknown paths, whichever optional packages are *)
(* missing.  What is answered without the limiter is refused for its       *)
(* origin or its body, by an error handler.                                *)
LimitedBeforeAnything ==
  "limit" \notin request.ran =>
    /\ request.ran \cap {"authenticate", "users:write", "users:view", "handler"} = {}
    /\ request.status # 0 => /\ request.by \in {"fastify", "global"}
                             /\ env.mode \in {"production", Unset} \/ ~request.body

(* server.ts line 71 registers "the centralized Global Error Boundary      *)
(* Interceptor first", which "intercepts pipeline exceptions" and          *)
(* "normalizes responses" (error-handler.middleware.ts line 10): no error  *)
(* of a request is answered by another handler.                            *)
ErrorsReachTheBoundary == request.by # "fastify"
=============================================================================
