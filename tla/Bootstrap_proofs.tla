--------------------------- MODULE Bootstrap_proofs ---------------------------
(***************************************************************************)
(* For every set of environments and faults: the type invariant of         *)
(* Bootstrap, what a server that serves, and one that gave up, tell of     *)
(* their environment, and that the rate limiter comes before everything    *)
(* it is meant to guard.                                                   *)
(***************************************************************************)
EXTENDS Bootstrap, SequenceTheorems, TLAPS

(***************************************************************************)
(* The inductive invariant                                                 *)
(***************************************************************************)

(* A request always has all of its fields.                                 *)
Shaped ==
  request = [route |-> request.route, token |-> request.token, body |-> request.body,
             done |-> request.done, user |-> request.user, ran |-> request.ran,
             status |-> request.status, by |-> request.by]

(* Past the check the environment is sound, or not checked at all.         *)
Passed == at \notin {"schema", "exited"} => env.mode = "test" \/ Valid(env)

(* The server listens on the port of its environment.                      *)
Listening == at = "serving" => port = Port(env)

IInv ==
  /\ TypeOK
  /\ Shaped
  /\ Passed
  /\ Listening
  /\ OptionalPackagesNeverStopBoot

(***************************************************************************)
(* The boot                                                                *)
(***************************************************************************)

Boots ==
  \/ ValidateStartupSchema
  \/ CreateApplication
  \/ RegisterGlobalErrorHandler
  \/ RegisterProductionSecurityHeaders
  \/ RegisterProductionNetworkCompression
  \/ RegisterSwaggerDocumentation
  \/ RegisterRequestTracingLogger
  \/ AddRateLimiter
  \/ RegisterRoutes("system")
  \/ RegisterRoutes("users")
  \/ SetNotFoundHandler
  \/ Listen

(* A number in range is neither missing nor malformed.                     *)
LEMMA InRangeBetween ==
  ASSUME NEW n \in Nat \cup {NaN}, NEW low \in Nat, NEW high \in Nat, InRange(n, low, high)
  PROVE  n \in low .. high
<1>1. n \in Nat /\ n >= low /\ n <= high
  BY DEF InRange
<1> QED
  BY <1>1

(* A port in range is one.                                                 *)
LEMMA InRangePorts ==
  ASSUME NEW n \in Nat \cup {NaN}
  PROVE  /\ InRange(n, 0, LastPort) => n \in TCPPorts
         /\ InRange(n, 1, LastPort) => n \in TCPPorts \ {0}
         /\ InRange(n, FirstUnprivileged, LastPort) => n \in UnprivilegedPorts
<1>1. LastPort \in Nat /\ FirstUnprivileged \in Nat
  BY DEF LastPort, FirstUnprivileged
<1>2. InRange(n, 0, LastPort) => n \in TCPPorts
  BY <1>1, InRangeBetween DEF TCPPorts
<1>3. ASSUME InRange(n, 1, LastPort)
      PROVE  n \in TCPPorts \ {0}
  <2>1. n \in 1 .. LastPort
    BY <1>1, <1>3, InRangeBetween
  <2> QED
    BY <1>1, <2>1 DEF TCPPorts
<1>4. InRange(n, FirstUnprivileged, LastPort) => n \in UnprivilegedPorts
  BY <1>1, InRangeBetween DEF UnprivilegedPorts
<1> QED
  BY <1>2, <1>3, <1>4

(* What comes after each step of the assembly: neither the check again,    *)
(* nor the end.                                                            *)
LEMMA FollowingSteps ==
  ASSUME NEW step \in {"schema", "framework", "boundary", "security", "compression",
                       "documentation", "tracing", "limiter", "system", "users", "fallback"}
  PROVE  Following[step] \in Steps \ {"schema", "exited", "serving"}
  BY DEF Following, Steps

(* A hook of the application is added to every context, for one phase.     *)
LEMMA HooksAdded ==
  ASSUME hooks \in [Contexts -> [Phases -> Seq(Hooks)]], NEW phase \in Phases,
         NEW added \in Seq(Hooks), AddHooks(phase, added)
  PROVE  /\ hooks' \in [Contexts -> [Phases -> Seq(Hooks)]]
         /\ \A c \in Contexts, p \in Phases :
              hooks'[c][p] = IF p = phase THEN hooks[c][p] \o added ELSE hooks[c][p]
<1>1. \A c \in Contexts : hooks'[c] = [hooks[c] EXCEPT ![phase] = @ \o added]
  BY DEF AddHooks
<1>2. \A c \in Contexts : hooks[c] \in [Phases -> Seq(Hooks)] /\ hooks[c][phase] \o added \in Seq(Hooks)
  OBVIOUS
<1>3. \A c \in Contexts : hooks'[c] \in [Phases -> Seq(Hooks)]
  <2> SUFFICES ASSUME NEW c \in Contexts
               PROVE  hooks'[c] \in [Phases -> Seq(Hooks)]
    OBVIOUS
  <2>1. hooks'[c] = [hooks[c] EXCEPT ![phase] = hooks[c][phase] \o added]
    BY <1>1
  <2> QED
    BY <1>2, <2>1
<1> QED
  BY <1>1, <1>2, <1>3 DEF AddHooks

(* A plugin adds its hooks to its own context.                             *)
LEMMA HooksAddedBelow ==
  ASSUME hooks \in [Contexts -> [Phases -> Seq(Hooks)]], NEW d \in Contexts, NEW phase \in Phases,
         NEW added \in Seq(Hooks), AddHooksBelow(d, phase, added)
  PROVE  /\ hooks' \in [Contexts -> [Phases -> Seq(Hooks)]]
         /\ hooks'[d][phase] = hooks[d][phase] \o added
         /\ \A c \in Contexts, p \in Phases : c # d \/ p # phase => hooks'[c][p] = hooks[c][p]
<1>1. hooks[d] \in [Phases -> Seq(Hooks)] /\ hooks[d][phase] \o added \in Seq(Hooks)
  OBVIOUS
<1>2. hooks' = [hooks EXCEPT ![d] = [hooks[d] EXCEPT ![phase] = hooks[d][phase] \o added]]
  BY DEF AddHooksBelow
<1>3. [hooks[d] EXCEPT ![phase] = hooks[d][phase] \o added] \in [Phases -> Seq(Hooks)]
  BY <1>1
<1>4. hooks' \in [Contexts -> [Phases -> Seq(Hooks)]]
  BY <1>2, <1>3
<1>5. \A c \in Contexts \ {d} : hooks'[c] = hooks[c]
  BY <1>2
<1>6. hooks'[d] = [hooks[d] EXCEPT ![phase] = hooks[d][phase] \o added]
  BY <1>2
<1> QED
  BY <1>1, <1>4, <1>5, <1>6

(* A plugin with optional packages goes on, whichever are missing.         *)
LEMMA OptionalGoesOn ==
  ASSUME TypeOK, NEW packages \in Seq(Hooks), NEW step \in {"security", "compression"},
         NEW phase \in Phases, Optional(step, phase, packages)
  PROVE  /\ at = step /\ at' = Following[step]
         /\ UNCHANGED <<env, errorHandler, mounted, port, request>>
         /\ hooks' \in [Contexts -> [Phases -> Seq(Hooks)]]
         /\ missing \subseteq missing' /\ missing' \subseteq missing \cup Hooks
<1>1. /\ at = step /\ at' = Following[step]
      /\ UNCHANGED <<env, errorHandler, mounted, port, request>>
  BY DEF Optional, Continue, AfterMissing
<1>2. PICK added \in Seq(Hooks), lost \in SUBSET Hooks :
        /\ AddHooks(phase, added)
        /\ missing' = missing \cup lost
  <2>1. CASE AddHooks(phase, packages) /\ UNCHANGED missing
    <3>1. missing' = missing \cup {}
      BY <2>1
    <3> QED
      BY <2>1, <3>1
  <2>2. ASSUME NEW n \in 1 .. Len(packages),
               AddHooks(phase, SubSeq(packages, 1, n - 1)),
               missing' = missing \cup {packages[n]}
        PROVE  \E added \in Seq(Hooks), lost \in SUBSET Hooks :
                 /\ AddHooks(phase, added)
                 /\ missing' = missing \cup lost
    <3>1. SubSeq(packages, 1, n - 1) \in Seq(Hooks)
      OBVIOUS
    <3>2. {packages[n]} \in SUBSET Hooks
      OBVIOUS
    <3> QED
      BY <2>2, <3>1, <3>2
  <2> QED
    BY <2>1, <2>2 DEF Optional
<1>3. hooks' \in [Contexts -> [Phases -> Seq(Hooks)]]
  BY <1>2, HooksAdded DEF TypeOK
<1> QED
  BY <1>1, <1>2, <1>3

(* An assembly step that only goes on keeps everything.                    *)
LEMMA GoingOn ==
  ASSUME IInv, NEW step \in {"framework", "boundary", "security", "compression",
                             "documentation", "tracing", "limiter", "system", "users", "fallback"},
         at = step, at' = Following[step], UNCHANGED <<env, port, request>>,
         hooks' \in [Contexts -> [Phases -> Seq(Hooks)]],
         errorHandler' \in [Contexts -> {"fastify", "global"}],
         mounted' \subseteq Contexts,
         missing' \subseteq Hooks \cup {"fastify", "swagger", "swagger-ui", "port"}
  PROVE  IInv'
<1>1. Following[step] \in Steps \ {"schema", "exited", "serving"}
  BY FollowingSteps
<1> QED
  BY <1>1 DEF IInv, TypeOK, Shaped, Passed, Listening, OptionalPackagesNeverStopBoot, Valid, Port,
              InRange

(* The steps of bootstrapServer keep the facts.                            *)
LEMMA BootStep ==
  ASSUME IInv, Boots
  PROVE  IInv'
<1> USE DEF Continue, Exit
<1>0. /\ TypeOK /\ hooks \in [Contexts -> [Phases -> Seq(Hooks)]]
      /\ errorHandler \in [Contexts -> {"fastify", "global"}]
      /\ mounted \subseteq Contexts
      /\ missing \subseteq Hooks \cup {"fastify", "swagger", "swagger-ui", "port"}
      /\ \A c \in Contexts : hooks[c] \in [Phases -> Seq(Hooks)]
  BY DEF IInv, TypeOK
<1>1. CASE ValidateStartupSchema
  <2>1. /\ at = "schema" /\ UNCHANGED <<env, hooks, errorHandler, mounted, port, request, missing>>
        /\ \/ (env.mode = "test" \/ Valid(env)) /\ at' = Following["schema"]
           \/ env.mode # "test" /\ ~Valid(env) /\ at' = "exited"
    BY <1>1 DEF ValidateStartupSchema
  <2>2. Following["schema"] = "framework"
    BY DEF Following
  <2> QED
    BY <2>1, <2>2 DEF IInv, TypeOK, Shaped, Passed, Listening, OptionalPackagesNeverStopBoot, Steps,
                      Valid, Port, InRange
<1>2. CASE CreateApplication
  <2>1. CASE at' = "exited"
    BY <1>2, <2>1 DEF CreateApplication, IInv, TypeOK, Shaped, Passed, Listening,
                      OptionalPackagesNeverStopBoot, Steps, Following
  <2>2. CASE at' # "exited"
    BY <1>0, <1>2, <2>2, GoingOn DEF CreateApplication
  <2> QED
    BY <2>1, <2>2
<1>3. CASE RegisterGlobalErrorHandler
  BY <1>0, <1>3, GoingOn DEF RegisterGlobalErrorHandler, Contexts
<1>4. CASE RegisterProductionSecurityHeaders
  <2>1. <<"helmet", "cors">> \in Seq(Hooks)
    BY DEF Hooks, OnRequest
  <2> QED
    BY <1>0, <1>4, <2>1, OptionalGoesOn, GoingOn
       DEF RegisterProductionSecurityHeaders, Phases
<1>5. CASE RegisterProductionNetworkCompression
  <2>1. <<"compress">> \in Seq(Hooks)
    BY DEF Hooks, OnRequest
  <2> QED
    BY <1>0, <1>5, <2>1, OptionalGoesOn, GoingOn
       DEF RegisterProductionNetworkCompression, Phases
<1>6. CASE RegisterSwaggerDocumentation
  BY <1>0, <1>6, GoingOn DEF RegisterSwaggerDocumentation, AfterMissing, Contexts
<1>7. CASE RegisterRequestTracingLogger
  <2>1. <<"trace">> \in Seq(Hooks) /\ "tracing" \in Contexts /\ "onRequest" \in Phases
    BY DEF Contexts, Phases, Hooks, OnRequest
  <2>2. hooks' \in [Contexts -> [Phases -> Seq(Hooks)]]
    BY <1>0, <1>7, <2>1, HooksAddedBelow DEF RegisterRequestTracingLogger
  <2> QED
    BY <1>0, <1>7, <2>2, GoingOn DEF RegisterRequestTracingLogger
<1>8. CASE AddRateLimiter
  <2>1. <<"limit">> \in Seq(Hooks) /\ "preHandler" \in Phases
    BY DEF Phases, Hooks
  <2>2. hooks' \in [Contexts -> [Phases -> Seq(Hooks)]]
    BY <1>0, <1>8, <2>1, HooksAdded DEF AddRateLimiter
  <2> QED
    BY <1>0, <1>8, <2>2, GoingOn DEF AddRateLimiter
<1>9. ASSUME NEW c \in {"system", "users"}, RegisterRoutes(c)
      PROVE  IInv'
  BY <1>0, <1>9, GoingOn DEF RegisterRoutes, Contexts
<1>10. CASE SetNotFoundHandler
  BY <1>0, <1>10, GoingOn DEF SetNotFoundHandler, Contexts
<1>11. CASE Listen
  <2>1. CASE at' = "serving"
    <3>1. /\ port' = Port(env) /\ InRange(Port(env), 0, LastPort) /\ at = "listen" /\ UNCHANGED missing
          /\ UNCHANGED <<env, hooks, errorHandler, mounted, request>>
      BY <1>11, <2>1 DEF Listen
    <3>2. Port(env) \in TCPPorts
      <4>1. Port(env) \in Nat \cup {NaN}
        BY <1>0, EnvironmentAssumption DEF Port, TypeOK, Environment
      <4> QED
        BY <3>1, <4>1, InRangePorts
    <3> QED
      BY <2>1, <3>1, <3>2 DEF IInv, TypeOK, Shaped, Passed, Listening, Steps,
                              OptionalPackagesNeverStopBoot, Valid, Port, InRange
  <2>2. CASE at' = "exited"
    <3>1. /\ UNCHANGED <<env, hooks, errorHandler, mounted, port, request>>
          /\ missing' = missing \cup {"port"}
      BY <1>11, <2>2 DEF Listen
    <3>2. TypeOK' /\ Shaped'
      BY <2>2, <3>1 DEF IInv, TypeOK, Shaped, Steps
    <3> QED
      BY <2>2, <3>1, <3>2 DEF IInv, Passed, Listening, OptionalPackagesNeverStopBoot
  <2> QED
    BY <1>11, <2>1, <2>2 DEF Listen
<1> QED
  BY <1>1, <1>2, <1>3, <1>4, <1>5, <1>6, <1>7, <1>8, <1>9, <1>10, <1>11 DEF Boots

(***************************************************************************)
(* The requests                                                            *)
(***************************************************************************)

(* The steps of the chain answer a status, or go on.                       *)
LEMMA OutcomeStatus ==
  ASSUME NEW h, NEW r, r.route \in Routes, NEW status \in Outcomes(h, r)
  PROVE  status \in {0} \cup (200 .. 599)
<1>1. HandlerStatus[r.route] \subseteq 200 .. 599
  BY DEF Routes, ContextOf, HandlerStatus
<1>2. Authenticate(r, ContextOf[r.route]) \subseteq {0, 401, 500}
  BY DEF Authenticate
<1> QED
  BY <1>1, <1>2 DEF Outcomes

(* A step of the chain keeps the fields together.                          *)
LEMMA Reshaped ==
  ASSUME Shaped, NEW done, NEW ran, NEW status, NEW by, NEW user,
         request' = [request EXCEPT !.done = done, !.ran = ran, !.status = status, !.by = by,
                                    !.user = user]
  PROVE  Shaped' /\ request'.status = status /\ request'.user = user
<1> DEFINE r == [route |-> request.route, token |-> request.token, body |-> request.body,
                 done |-> done, user |-> user, ran |-> ran, status |-> status, by |-> by]
<1>1. request' = r
  BY DEF Shaped
<1>2. r = [route |-> r.route, token |-> r.token, body |-> r.body, done |-> r.done,
           user |-> r.user, ran |-> r.ran, status |-> r.status, by |-> r.by]
  OBVIOUS
<1> QED
  BY <1>1, <1>2 DEF Shaped

(* A request leaves the boot alone.                                        *)
LEMMA BootKept ==
  ASSUME IInv, UNCHANGED bootVars, Shaped',
         request'.status \in {0} \cup (200 .. 599), request'.user \in {NoUser, FixedRole}
  PROVE  IInv'
<1>1. UNCHANGED <<env, at, hooks, errorHandler, mounted, port, missing>>
  BY DEF bootVars
<1>2. TypeOK'
  BY <1>1 DEF IInv, TypeOK
<1>3. Passed' /\ Listening' /\ OptionalPackagesNeverStopBoot'
  BY <1>1 DEF IInv, Passed, Listening, OptionalPackagesNeverStopBoot
<1> QED
  BY <1>2, <1>3 DEF IInv

(* The steps of a request keep the facts.                                  *)
LEMMA RequestStep ==
  ASSUME IInv, \/ \E route \in Routes, token \in Tokens, body \in BOOLEAN :
                     Receive(route, token, body)
               \/ RunHook \/ Throw \/ Finish
  PROVE  IInv'
<1>0. Shaped /\ TypeOK
  BY DEF IInv
<1>1. ASSUME NEW route \in Routes, NEW token \in Tokens, NEW body \in BOOLEAN,
             Receive(route, token, body)
      PROVE  IInv'
  <2>1. Shaped' /\ request'.status = 0 /\ request'.user = NoUser
    BY <1>1 DEF Receive, Idle, Shaped
  <2> QED
    BY <1>1, <2>1, BootKept DEF Receive
<1>2. CASE RunHook
  <2>1. PICK status \in Outcomes(Current, request) :
          request' = [request EXCEPT
            !.done = @ + 1, !.ran = @ \cup {Current},
            !.status = status, !.by = IF status = 0 THEN @ ELSE Current,
            !.user = IF Current = "authenticate" /\ status = 0 THEN FixedRole ELSE @]
    BY <1>2 DEF RunHook
  <2>2. status \in {0} \cup (200 .. 599)
    BY <1>2, <2>1, OutcomeStatus DEF RunHook, InChain
  <2> DEFINE user == IF Current = "authenticate" /\ status = 0 THEN FixedRole ELSE request.user
             by == IF status = 0 THEN request.by ELSE Current
             done == request.done + 1
             ran == request.ran \cup {Current}
  <2>a. request' = [request EXCEPT !.done = done, !.ran = ran, !.status = status, !.by = by,
                                   !.user = user]
    BY <2>1
  <2>b. user \in {NoUser, FixedRole}
    BY <1>0 DEF TypeOK
  <2> HIDE DEF user, by, done, ran
  <2>3. Shaped' /\ request'.status = status /\ request'.user \in {NoUser, FixedRole}
    BY <1>0, <2>a, <2>b, Reshaped
  <2> QED
    BY <1>2, <2>2, <2>3, BootKept DEF RunHook
<1>3. CASE Throw
  <2>1. Current \in {"cors", "parse"} /\ request.route \in Routes
    BY <1>3 DEF Throw, Throws, InChain
  <2>2. PICK handler \in {"fastify", "global"} :
          request' = [request EXCEPT !.status = ErrorStatus[handler][Current], !.by = handler]
    <3>1. errorHandler[ContextOf[request.route]] \in {"fastify", "global"}
      BY <1>0, <2>1 DEF TypeOK, Routes, ContextOf, Contexts
    <3> QED
      BY <1>3, <3>1 DEF Throw
  <2>3. ErrorStatus[handler][Current] \in 200 .. 599
    BY <2>1 DEF ErrorStatus
  <2>4. Shaped' /\ request'.status = ErrorStatus[handler][Current] /\ request'.user = request.user
    BY <1>0, <2>2 DEF Shaped
  <2> QED
    <3>1. request'.status \in {0} \cup (200 .. 599) /\ request'.user \in {NoUser, FixedRole}
      BY <1>0, <2>3, <2>4 DEF TypeOK
    <3>2. UNCHANGED bootVars
      BY <1>3 DEF Throw
    <3> QED
      BY <2>4, <3>1, <3>2, BootKept
<1>4. CASE Finish
  <2>1. Shaped' /\ request'.status = 0 /\ request'.user = NoUser
    BY <1>4 DEF Finish, Idle, Shaped
  <2> QED
    BY <1>4, <2>1, BootKept DEF Finish
<1> QED
  BY <1>1, <1>2, <1>3, <1>4

(***************************************************************************)
(* The theorems                                                            *)
(***************************************************************************)

(* The facts hold before the first step.                                   *)
LEMMA InitInvariant ==
  ASSUME Init
  PROVE  IInv
<1>1. <<>> \in Seq(Hooks)
  OBVIOUS
<1> QED
  BY <1>1 DEF Init, IInv, TypeOK, Shaped, Passed, Listening, OptionalPackagesNeverStopBoot, Idle,
              Steps, NoHooks

(* Every step keeps them.                                                  *)
LEMMA NextInvariant ==
  ASSUME IInv, [Next]_vars
  PROVE  IInv'
<1>1. CASE UNCHANGED vars
  <2>1. UNCHANGED bootVars /\ request' = request
    BY <1>1 DEF vars
  <2>2. Shaped' /\ request'.status \in {0} \cup (200 .. 599)
        /\ request'.user \in {NoUser, FixedRole}
    BY <2>1 DEF IInv, Shaped, TypeOK
  <2> QED
    BY <2>1, <2>2, BootKept
<1>2. CASE Boots
  BY <1>2, BootStep
<1>3. CASE Next /\ ~Boots /\ ~UNCHANGED vars
  BY <1>3, RequestStep DEF Next, Boots, Exited
<1> QED
  BY <1>1, <1>2, <1>3

(* The inductive invariant holds throughout.                               *)
THEOREM Invariance == Spec => []IInv
  BY InitInvariant, NextInvariant, PTL DEF Spec

(* Type correctness.                                                       *)
THEOREM TypeCorrect == Spec => []TypeOK
<1>1. IInv => TypeOK
  BY DEF IInv
<1> QED
  BY <1>1, Invariance, PTL

(* Outside tests only a checked environment is served, whatever values its *)
(* variables have.                                                         *)
THEOREM ServingIsValidated == Spec => []ServesOnlyValidated
<1>1. ASSUME IInv
      PROVE  ServesOnlyValidated
  <2>1. env \in Environment
    BY <1>1, EnvironmentAssumption DEF IInv, TypeOK
  <2>2. Port(env) \in Nat \cup {NaN} /\ env.redisPort \in Nat \cup {NaN}
    BY <2>1 DEF Environment, Port
  <2>3. ASSUME at = "serving", env.mode # "test"
        PROVE  Valid(env) /\ port = Port(env)
    BY <1>1, <2>3 DEF IInv, Passed, Listening
  <2>4. ASSUME at = "serving", env.mode # "test"
        PROVE  port \in UnprivilegedPorts /\ env.redisPort \in TCPPorts \ {0}
    <3>1. InRange(Port(env), FirstUnprivileged, LastPort) /\ InRange(env.redisPort, 1, LastPort)
      BY <2>3, <2>4 DEF Valid
    <3>2. Port(env) \in UnprivilegedPorts /\ env.redisPort \in TCPPorts \ {0}
      BY <2>2, <3>1, InRangePorts
    <3> QED
      BY <2>3, <2>4, <3>2
  <2>5. ASSUME at = "serving", env.mode # "test"
        PROVE  env.present /\ env.postgres /\ env.secret >= 32
    BY <2>3, <2>5 DEF Valid
  <2> QED
    BY <2>4, <2>5 DEF ServesOnlyValidated
<1> QED
  BY <1>1, Invariance, PTL

(* Boot stops for a bad environment, the framework or the port alone,      *)
(* whatever combination of packages is missing.                            *)
THEOREM BootStopsForCause == Spec => []OptionalPackagesNeverStopBoot
<1>1. IInv => OptionalPackagesNeverStopBoot
  BY DEF IInv
<1> QED
  BY <1>1, Invariance, PTL

(* How a boot ends, either way, is earned.                                 *)
THEOREM BootEndIsEarned == Spec => []BootEndsForCause
<1>1. ServesOnlyValidated /\ OptionalPackagesNeverStopBoot => BootEndsForCause
  BY DEF BootEndsForCause
<1> QED
  BY <1>1, ServingIsValidated, BootStopsForCause, PTL

(***************************************************************************)
(* The rate limiter comes first                                            *)
(***************************************************************************)

BeforeLimiter == {"schema", "framework", "boundary", "security", "compression",
                  "documentation", "tracing", "limiter"}
AfterLimiter == {"system", "users", "fallback", "listen", "serving"}

(* The limiter is the only preHandler hook of the application, and every   *)
(* context has it once it is added.                                        *)
HooksInPlace == \A c \in Contexts :
  /\ at \in BeforeLimiter => hooks[c]["preHandler"] = <<>>
  /\ at \in AfterLimiter => hooks[c]["preHandler"] = <<"limit">>
  /\ hooks[c]["onRequest"] \in Seq(OnRequest)

(* What ran for a request are the first steps of its chain; it goes on     *)
(* only before the last one.                                               *)
Walked ==
  /\ request.route \notin Routes => request.ran = {}
  /\ request.route \in Routes =>
       /\ at = "serving" /\ ContextOf[request.route] \in mounted
       /\ request.done \in 0 .. Len(Chain(request.route))
       /\ request.status = 0 => request.done < Len(Chain(request.route))
       /\ request.ran = {Chain(request.route)[i] : i \in 1 .. request.done}

(* A plugin with optional packages adds hooks of one phase to the          *)
(* application, all of its own.                                            *)
LEMMA OptionalAdds ==
  ASSUME TypeOK, HooksInPlace, NEW step \in {"security", "compression"}, NEW phase \in Phases,
         NEW packages \in Seq(OnRequest \cup {"compress"}), Optional(step, phase, packages),
         \/ phase = "onRequest" /\ packages \in Seq(OnRequest)
         \/ phase = "onSend"
  PROVE  /\ \A c \in Contexts : hooks'[c]["preHandler"] = hooks[c]["preHandler"]
         /\ \A c \in Contexts : hooks'[c]["onRequest"] \in Seq(OnRequest)
<1>1. PICK added :
        /\ AddHooks(phase, added) /\ added \in Seq(Hooks)
        /\ phase = "onRequest" => added \in Seq(OnRequest)
  <2>0. packages \in Seq(Hooks)
    <3>1. OnRequest \cup {"compress"} \subseteq Hooks
      BY DEF Hooks
    <3> QED
      BY <3>1
  <2>1. CASE AddHooks(phase, packages)
    BY <2>0, <2>1
  <2>2. ASSUME NEW n \in 1 .. Len(packages),
               AddHooks(phase, SubSeq(packages, 1, n - 1))
        PROVE  \E added :
                 /\ AddHooks(phase, added) /\ added \in Seq(Hooks)
                 /\ phase = "onRequest" => added \in Seq(OnRequest)
    <3>1. packages \in Seq(OnRequest) => SubSeq(packages, 1, n - 1) \in Seq(OnRequest)
      OBVIOUS
    <3>2. SubSeq(packages, 1, n - 1) \in Seq(Hooks)
      BY <2>0
    <3> QED
      BY <2>2, <3>1, <3>2
  <2> QED
    BY <2>1, <2>2 DEF Optional
<1>2. hooks \in [Contexts -> [Phases -> Seq(Hooks)]]
      /\ \A c \in Contexts : hooks[c]["onRequest"] \in Seq(OnRequest)
  BY DEF TypeOK, HooksInPlace
<1>a. \A c \in Contexts, p \in Phases :
        hooks'[c][p] = IF p = phase THEN hooks[c][p] \o added ELSE hooks[c][p]
  BY <1>1, <1>2, HooksAdded
<1>3. CASE phase = "onRequest"
  <2>1. \A c \in Contexts : hooks[c]["onRequest"] \o added \in Seq(OnRequest)
    BY <1>1, <1>2, <1>3
  <2> QED
    BY <1>a, <1>3, <2>1 DEF Phases
<1>4. CASE phase = "onSend"
  BY <1>a, <1>2, <1>4 DEF Phases
<1> QED
  BY <1>3, <1>4

(* The steps of bootstrapServer put the hooks in place.                    *)
LEMMA BootInPlace ==
  ASSUME IInv, HooksInPlace, Boots
  PROVE  HooksInPlace'
<1> USE DEF Continue, Exit, BeforeLimiter, AfterLimiter
<1>0. /\ TypeOK /\ mounted \subseteq Contexts
      /\ hooks \in [Contexts -> [Phases -> Seq(Hooks)]]
  BY DEF IInv, TypeOK
<1>1. CASE ValidateStartupSchema
  BY <1>1 DEF ValidateStartupSchema, HooksInPlace, Following
<1>2. CASE CreateApplication
  BY <1>2 DEF CreateApplication, HooksInPlace, Following
<1>3. CASE RegisterGlobalErrorHandler
  BY <1>3 DEF RegisterGlobalErrorHandler, HooksInPlace, Following
<1>4. CASE RegisterProductionSecurityHeaders
  <2>1. <<"helmet", "cors">> \in Seq(OnRequest)
        /\ <<"helmet", "cors">> \in Seq(OnRequest \cup {"compress"})
    BY DEF OnRequest
  <2>2. Optional("security", "onRequest", <<"helmet", "cors">>) /\ "onRequest" \in Phases
    BY <1>4 DEF RegisterProductionSecurityHeaders, Phases
  <2>3. /\ \A c \in Contexts : hooks'[c]["preHandler"] = hooks[c]["preHandler"]
        /\ \A c \in Contexts : hooks'[c]["onRequest"] \in Seq(OnRequest)
    BY <1>0, <2>1, <2>2, OptionalAdds
  <2>4. at = "security" /\ at' = "compression" /\ UNCHANGED mounted
    BY <2>2 DEF Optional, AfterMissing, Following
  <2> QED
    BY <1>0, <2>3, <2>4 DEF HooksInPlace, Contexts
<1>5. CASE RegisterProductionNetworkCompression
  <2>1. <<"compress">> \in Seq(OnRequest \cup {"compress"})
    OBVIOUS
  <2>2. Optional("compression", "onSend", <<"compress">>) /\ "onSend" \in Phases
    BY <1>5 DEF RegisterProductionNetworkCompression, Phases
  <2>3. /\ \A c \in Contexts : hooks'[c]["preHandler"] = hooks[c]["preHandler"]
        /\ \A c \in Contexts : hooks'[c]["onRequest"] \in Seq(OnRequest)
    BY <1>0, <2>1, <2>2, OptionalAdds
  <2>4. at = "compression" /\ at' = "documentation" /\ UNCHANGED mounted
    BY <2>2 DEF Optional, AfterMissing, Following
  <2> QED
    BY <1>0, <2>3, <2>4 DEF HooksInPlace, Contexts
<1>6. CASE RegisterSwaggerDocumentation
  <2>1. at = "documentation" /\ at' = Following[at] /\ UNCHANGED hooks
    BY <1>6 DEF RegisterSwaggerDocumentation, AfterMissing
  <2>2. at' = "tracing"
    BY <2>1 DEF Following
  <2> QED
    BY <2>1, <2>2 DEF HooksInPlace
<1>7. CASE RegisterRequestTracingLogger
  <2>1. /\ <<"trace">> \in Seq(Hooks) /\ <<"trace">> \in Seq(OnRequest)
        /\ "tracing" \in Contexts /\ "onRequest" \in Phases /\ "preHandler" \in Phases
    BY DEF Contexts, Phases, Hooks, OnRequest
  <2>2. /\ hooks'["tracing"]["onRequest"] = hooks["tracing"]["onRequest"] \o <<"trace">>
        /\ \A c \in Contexts, p \in Phases :
             c # "tracing" \/ p # "onRequest" => hooks'[c][p] = hooks[c][p]
    <3>1. AddHooksBelow("tracing", "onRequest", <<"trace">>)
      BY <1>7 DEF RegisterRequestTracingLogger
    <3> QED
      BY <1>0, <2>1, <3>1, HooksAddedBelow
  <2>3. \A c \in Contexts : hooks[c]["onRequest"] \o <<"trace">> \in Seq(OnRequest)
    BY <2>1 DEF HooksInPlace
  <2>4. at = "tracing" /\ at' = "limiter"
    BY <1>7 DEF RegisterRequestTracingLogger, Following
  <2> QED
    BY <2>1, <2>2, <2>3, <2>4 DEF HooksInPlace
<1>8. CASE AddRateLimiter
  <2>1. <<"limit">> \in Seq(Hooks) /\ "preHandler" \in Phases /\ "onRequest" \in Phases
    BY DEF Phases, Hooks
  <2>2. \A c \in Contexts, p \in Phases :
          hooks'[c][p] = IF p = "preHandler" THEN hooks[c][p] \o <<"limit">> ELSE hooks[c][p]
    BY <1>0, <1>8, <2>1, HooksAdded DEF AddRateLimiter
  <2>3. at = "limiter" /\ at' = "system"
    BY <1>8 DEF AddRateLimiter, Following
  <2>4. <<>> \o <<"limit">> = <<"limit">>
    OBVIOUS
  <2> QED
    BY <2>1, <2>2, <2>3, <2>4 DEF HooksInPlace
<1>9. ASSUME NEW c \in {"system", "users"}, RegisterRoutes(c)
      PROVE  HooksInPlace'
  BY <1>9 DEF RegisterRoutes, HooksInPlace, Following
<1>10. CASE SetNotFoundHandler
  BY <1>0, <1>10 DEF SetNotFoundHandler, HooksInPlace, Following
<1>11. CASE Listen
  BY <1>11 DEF Listen, HooksInPlace
<1> QED
  BY <1>1, <1>2, <1>3, <1>4, <1>5, <1>6, <1>7, <1>8, <1>9, <1>10, <1>11 DEF Boots

(* The steps a chain is made of.                                           *)
ChainSteps == Hooks \cup {"parse", "authenticate", "users:write", "users:view", "handler"}

(* Where the elements of a concatenation are.                              *)
LEMMA TwoParts ==
  ASSUME NEW S, NEW s \in Seq(S), NEW t \in Seq(S), NEW u, u = s \o t
  PROVE  /\ u \in Seq(S) /\ Len(u) = Len(s) + Len(t)
         /\ \A i \in 1 .. Len(s) : u[i] = s[i]
         /\ \A i \in 1 .. Len(t) : u[Len(s) + i] = t[i]
<1>1. /\ s \o t \in Seq(S) /\ Len(s \o t) = Len(s) + Len(t)
      /\ \A i \in 1 .. Len(s) + Len(t) : (s \o t)[i] = IF i <= Len(s) THEN s[i] ELSE t[i - Len(s)]
  BY ConcatProperties
<1>2. Len(s) \in Nat /\ Len(t) \in Nat
  OBVIOUS
<1> QED
  BY <1>1, <1>2

(* Where the parts of a sequence of five parts are.                        *)
LEMMA PartsOfASequence ==
  ASSUME NEW S, NEW a \in Seq(S), NEW b \in S, NEW c \in Seq(S), NEW d \in Seq(S), NEW e \in S,
         NEW s, s = a \o <<b>> \o c \o d \o <<e>>
  PROVE  /\ s \in Seq(S) /\ Len(s) = Len(a) + 1 + Len(c) + Len(d) + 1
         /\ \A i \in 1 .. Len(a) : s[i] = a[i]
         /\ s[Len(a) + 1] = b
         /\ \A i \in 1 .. Len(c) : s[Len(a) + 1 + i] = c[i]
         /\ s[Len(s)] = e
<1>1. PICK ab, abc, abcd :
        ab = a \o <<b>> /\ abc = ab \o c /\ abcd = abc \o d /\ s = abcd \o <<e>>
  OBVIOUS
<1>2. /\ <<b>> \in Seq(S) /\ Len(<<b>>) = 1 /\ <<b>>[1] = b
      /\ <<e>> \in Seq(S) /\ Len(<<e>>) = 1 /\ <<e>>[1] = e
      /\ Len(a) \in Nat /\ Len(c) \in Nat /\ Len(d) \in Nat
  OBVIOUS
<1>3. /\ ab \in Seq(S) /\ Len(ab) = Len(a) + 1
      /\ \A i \in 1 .. Len(a) : ab[i] = a[i]
      /\ ab[Len(a) + 1] = b
  BY <1>1, <1>2, TwoParts
<1>4. /\ abc \in Seq(S) /\ Len(abc) = Len(ab) + Len(c)
      /\ \A i \in 1 .. Len(ab) : abc[i] = ab[i]
      /\ \A i \in 1 .. Len(c) : abc[Len(ab) + i] = c[i]
  BY <1>1, <1>3, TwoParts
<1>5. /\ abcd \in Seq(S) /\ Len(abcd) = Len(abc) + Len(d)
      /\ \A i \in 1 .. Len(abc) : abcd[i] = abc[i]
  BY <1>1, <1>4, TwoParts
<1>6. /\ s \in Seq(S) /\ Len(s) = Len(abcd) + 1
      /\ \A i \in 1 .. Len(abcd) : s[i] = abcd[i]
      /\ s[Len(abcd) + 1] = e
  BY <1>1, <1>2, <1>5, TwoParts
<1>7. \A i \in 1 .. Len(abc) : s[i] = abc[i]
  <2>1. Len(abc) \in Nat /\ Len(abcd) \in Nat /\ Len(abc) <= Len(abcd)
    BY <1>2, <1>3, <1>4, <1>5
  <2>2. \A i \in 1 .. Len(abc) : i \in 1 .. Len(abcd)
    BY <2>1
  <2> QED
    BY <1>5, <1>6, <2>2
<1>8. \A i \in 1 .. Len(a) + 1 : s[i] = ab[i]
  BY <1>2, <1>3, <1>4, <1>7
<1>9. \A i \in 1 .. Len(c) : s[Len(a) + 1 + i] = c[i]
  <2> SUFFICES ASSUME NEW i \in 1 .. Len(c)
               PROVE  s[Len(a) + 1 + i] = c[i]
    OBVIOUS
  <2>1. Len(a) + 1 + i \in 1 .. Len(abc) /\ abc[Len(ab) + i] = c[i]
    BY <1>2, <1>3, <1>4
  <2> QED
    BY <1>3, <1>7, <2>1
<1>10. /\ \A i \in 1 .. Len(a) : s[i] = a[i]
       /\ s[Len(a) + 1] = b
  BY <1>2, <1>3, <1>8
<1> QED
  BY <1>2, <1>3, <1>4, <1>5, <1>6, <1>9, <1>10

(* The parts of a chain: the first phase, the body, the second phase, the  *)
(* hooks of the route and the handler.                                     *)
LEMMA ChainParts ==
  ASSUME TypeOK, NEW route \in Routes
  PROVE  LET own == hooks[ContextOf[route]]
             chain == Chain(route)
         IN  /\ own["onRequest"] \in Seq(Hooks) /\ own["preHandler"] \in Seq(Hooks)
             /\ chain \in Seq(ChainSteps)
             /\ Len(chain) >= Len(own["onRequest"]) + Len(own["preHandler"]) + 2
             /\ \A i \in 1 .. Len(own["onRequest"]) : chain[i] = own["onRequest"][i]
             /\ chain[Len(own["onRequest"]) + 1] = "parse"
             /\ \A i \in 1 .. Len(own["preHandler"]) :
                   chain[Len(own["onRequest"]) + 1 + i] = own["preHandler"][i]
             /\ chain[Len(chain)] = "handler"
<1> DEFINE own == hooks[ContextOf[route]]
           first == own["onRequest"]
           second == own["preHandler"]
           rest == PreHandlers(route)
<1>1. first \in Seq(Hooks) /\ second \in Seq(Hooks)
  BY DEF TypeOK, Routes, ContextOf, Contexts, Phases
<1>2. first \in Seq(ChainSteps) /\ second \in Seq(ChainSteps)
  <2>1. Hooks \subseteq ChainSteps
    BY DEF ChainSteps
  <2> QED
    BY <1>1, <2>1
<1>3. rest \in Seq(ChainSteps)
  <2>1. <<>> \in Seq(ChainSteps)
    OBVIOUS
  <2>2. /\ <<"authenticate", "users:write">> \in Seq(ChainSteps)
        /\ <<"authenticate", "users:view">> \in Seq(ChainSteps)
    BY DEF ChainSteps
  <2> QED
    BY <2>1, <2>2 DEF PreHandlers
<1>4. "parse" \in ChainSteps /\ "handler" \in ChainSteps
  BY DEF ChainSteps
<1> DEFINE chain == Chain(route)
<1>5. chain = first \o <<"parse">> \o second \o rest \o <<"handler">>
  BY DEF Chain
<1> HIDE DEF first, second, rest, chain
<1>6. /\ chain \in Seq(ChainSteps) /\ Len(chain) = Len(first) + 1 + Len(second) + Len(rest) + 1
      /\ \A i \in 1 .. Len(first) : chain[i] = first[i]
      /\ chain[Len(first) + 1] = "parse"
      /\ \A i \in 1 .. Len(second) : chain[Len(first) + 1 + i] = second[i]
      /\ chain[Len(chain)] = "handler"
  BY <1>2, <1>3, <1>4, <1>5, PartsOfASequence
<1>7. Len(first) \in Nat /\ Len(second) \in Nat /\ Len(rest) \in Nat
  BY <1>2, <1>3
<1>9. Len(chain) >= Len(first) + Len(second) + 2
  BY <1>6, <1>7
<1> QED
  BY <1>1, <1>6, <1>9 DEF first, second, chain

(* Where the limiter is in a chain: after the hooks of the first phase and *)
(* the parsing of the body, and before all the rest.                       *)
LEMMA ChainShape ==
  ASSUME TypeOK, HooksInPlace, NEW route \in Routes, at = "serving"
  PROVE  \E k \in 1 .. Len(Chain(route)) :
           /\ Chain(route)[k] = "limit"
           /\ \A i \in 1 .. k - 1 : Chain(route)[i] \in OnRequest \cup {"parse"}
<1> DEFINE first == hooks[ContextOf[route]]["onRequest"]
           second == hooks[ContextOf[route]]["preHandler"]
           chain == Chain(route)
           k == Len(first) + 2
<1>1. ContextOf[route] \in Contexts
  BY DEF Routes, ContextOf, Contexts
<1>2. first \in Seq(OnRequest) /\ second = <<"limit">>
  BY <1>1 DEF HooksInPlace, AfterLimiter
<1>3. /\ chain \in Seq(ChainSteps) /\ Len(chain) >= Len(first) + Len(second) + 2
      /\ \A i \in 1 .. Len(first) : chain[i] = first[i]
      /\ chain[Len(first) + 1] = "parse"
      /\ \A i \in 1 .. Len(second) : chain[Len(first) + 1 + i] = second[i]
  BY ChainParts
<1> HIDE DEF first, second, chain
<1>4. Len(first) \in Nat /\ Len(second) = 1 /\ second[1] = "limit"
  BY <1>2
<1>5. k \in 1 .. Len(chain) /\ chain[k] = "limit"
  BY <1>3, <1>4
<1>6. \A i \in 1 .. k - 1 : chain[i] \in OnRequest \cup {"parse"}
  <2> SUFFICES ASSUME NEW i \in 1 .. k - 1
               PROVE  chain[i] \in OnRequest \cup {"parse"}
    OBVIOUS
  <2>1. i \in 1 .. Len(first) \/ i = Len(first) + 1
    BY <1>4
  <2> QED
    BY <1>2, <1>3, <1>4, <2>1
<1> QED
  BY <1>5, <1>6 DEF chain

(* The last step of a chain is the handler.                                *)
LEMMA ChainEnd ==
  ASSUME TypeOK, NEW route \in Routes
  PROVE  /\ Len(Chain(route)) \in Nat \ {0}
         /\ Chain(route)[Len(Chain(route))] = "handler"
<1> DEFINE first == hooks[ContextOf[route]]["onRequest"]
           second == hooks[ContextOf[route]]["preHandler"]
           chain == Chain(route)
<1>1. /\ first \in Seq(Hooks) /\ second \in Seq(Hooks)
      /\ chain \in Seq(ChainSteps) /\ Len(chain) >= Len(first) + Len(second) + 2
      /\ chain[Len(chain)] = "handler"
  BY ChainParts
<1> HIDE DEF first, second, chain
<1> QED
  BY <1>1 DEF chain

(* A handler always answers.                                               *)
LEMMA HandlerAnswers ==
  ASSUME NEW r, r.route \in Routes
  PROVE  0 \notin Outcomes("handler", r)
  BY DEF Outcomes, HandlerStatus, Routes, ContextOf

(* A request goes through its chain step by step.                          *)
LEMMA WalkedStep ==
  ASSUME IInv, HooksInPlace, Walked, [Next]_vars
  PROVE  Walked'
<1>0. TypeOK /\ Shaped
  BY DEF IInv
<1>1. CASE UNCHANGED vars
  BY <1>1 DEF vars, bootVars, Walked, Chain
<1>2. CASE Boots
  <2>1. at # "serving" /\ UNCHANGED request
    BY <1>2 DEF Boots, ValidateStartupSchema, CreateApplication, RegisterGlobalErrorHandler,
       RegisterProductionSecurityHeaders, RegisterProductionNetworkCompression, Optional,
       RegisterSwaggerDocumentation, RegisterRequestTracingLogger, AddRateLimiter,
       RegisterRoutes, SetNotFoundHandler, Listen
  <2> QED
    BY <2>1 DEF Walked
<1>3. ASSUME NEW route \in Routes, NEW token \in Tokens, NEW body \in BOOLEAN,
             Receive(route, token, body)
      PROVE  Walked'
  <2>1. /\ request'.route = route /\ request'.done = 0 /\ request'.ran = {}
        /\ at = "serving" /\ ContextOf[route] \in mounted
        /\ UNCHANGED <<at, mounted, hooks>>
    BY <1>3 DEF Receive, Idle, bootVars
  <2>2. Len(Chain(route)) \in Nat \ {0}
    BY <1>0, <2>1, ChainEnd
  <2>3. Chain(route)' = Chain(route)
    BY <2>1 DEF Chain
  <2> QED
    BY <2>1, <2>2, <2>3 DEF Walked
<1>4. CASE RunHook
  <2> DEFINE chain == Chain(request.route)
             next == request.done + 1
  <2>1. /\ request.route \in Routes /\ request.status = 0
        /\ at = "serving" /\ ContextOf[request.route] \in mounted
        /\ request.done \in Nat /\ request.done < Len(chain)
        /\ request.ran = {chain[i] : i \in 1 .. request.done}
        /\ UNCHANGED <<at, mounted, hooks>>
    BY <1>4 DEF RunHook, InChain, Walked, bootVars
  <2>2. PICK status \in Outcomes(chain[next], request) :
          request' = [request EXCEPT
            !.done = @ + 1, !.ran = @ \cup {chain[next]},
            !.status = status, !.by = IF status = 0 THEN @ ELSE chain[next],
            !.user = IF chain[next] = "authenticate" /\ status = 0 THEN FixedRole ELSE @]
    BY <1>4 DEF RunHook, Current
  <2>3. /\ request'.route = request.route /\ request'.done = next
        /\ request'.status = status
        /\ request'.ran = {chain[i] : i \in 1 .. request.done} \cup {chain[next]}
    BY <1>0, <2>1, <2>2 DEF Shaped
  <2>4. Len(chain) \in Nat \ {0} /\ chain[Len(chain)] = "handler"
    BY <1>0, <2>1, ChainEnd
  <2>5. status = 0 => next < Len(chain)
    <3>1. status = 0 => chain[next] # "handler"
      BY <2>1, <2>2, HandlerAnswers
    <3> QED
      BY <2>1, <2>4, <3>1
  <2>6. Chain(request.route)' = chain
    BY <2>1, <2>3 DEF Chain
  <2>7. request'.ran = {chain[i] : i \in 1 .. next}
    <3> HIDE DEF chain
    <3>1. 1 .. next = (1 .. request.done) \cup {next}
      BY <2>1
    <3> QED
      BY <2>3, <3>1
  <2> HIDE DEF chain
  <2> QED
    BY <2>1, <2>3, <2>4, <2>5, <2>6, <2>7 DEF Walked
<1>5. CASE Throw
  <2>1. /\ request.route \in Routes /\ UNCHANGED <<at, mounted, hooks>>
        /\ Current \in {"cors", "parse"}
    BY <1>5 DEF Throw, Throws, InChain, bootVars
  <2>2. PICK handler \in {"fastify", "global"} :
          request' = [request EXCEPT !.status = ErrorStatus[handler][Current], !.by = handler]
    <3>1. errorHandler[ContextOf[request.route]] \in {"fastify", "global"}
      BY <1>0, <2>1 DEF TypeOK, Routes, ContextOf, Contexts
    <3> QED
      BY <1>5, <3>1 DEF Throw
  <2>3. ErrorStatus[handler][Current] # 0
    BY <2>1 DEF ErrorStatus
  <2>4. /\ request'.route = request.route /\ request'.done = request.done
        /\ request'.ran = request.ran /\ request'.status # 0
    BY <1>0, <2>2, <2>3 DEF Shaped
  <2>5. Chain(request.route)' = Chain(request.route)
    BY <2>1, <2>4 DEF Chain
  <2> QED
    BY <2>1, <2>4, <2>5 DEF Walked
<1>6. CASE Finish
  <2>1. request'.route = "none" /\ request'.ran = {}
    BY <1>6 DEF Finish, Idle
  <2> QED
    BY <2>1 DEF Walked, Routes, ContextOf
<1> QED
  BY <1>1, <1>2, <1>3, <1>4, <1>5, <1>6 DEF Next, Boots, Exited

(* The hooks are in place, and requests walk through them, throughout.     *)
LEMMA WalkInvariance == Spec => [](HooksInPlace /\ Walked)
<1>1. Init => HooksInPlace /\ Walked
  <2>1. <<>> \in Seq(OnRequest)
    OBVIOUS
  <2> QED
    BY <2>1 DEF Init, HooksInPlace, Walked, NoHooks, Phases, BeforeLimiter, AfterLimiter, Idle,
                Routes, ContextOf, Contexts
<1>2. ASSUME IInv, HooksInPlace, Walked, [Next]_vars
      PROVE  (HooksInPlace /\ Walked)'
  <2>1. CASE Boots
    BY <1>2, <2>1, BootInPlace, WalkedStep
  <2>2. CASE ~Boots
    <3>1. UNCHANGED bootVars
      BY <1>2, <2>2 DEF Next, Boots, Receive, RunHook, Throw, Finish, Exited, vars
    <3>2. HooksInPlace'
      BY <1>2, <3>1 DEF bootVars, HooksInPlace
    <3> QED
      BY <1>2, <3>2, WalkedStep
  <2> QED
    BY <2>1, <2>2
<1> QED
  BY <1>1, <1>2, Invariance, PTL DEF Spec

(* The limiter has seen a request before anything it guards has.           *)
Guarded == {"authenticate", "users:write", "users:view", "handler"}
SeenFirst == "limit" \notin request.ran => request.ran \cap Guarded = {}

(* A request that is over and was not seen was refused by an error handler. *)
RefusedForCause ==
  "limit" \notin request.ran /\ request.status # 0 =>
    /\ request.by \in {"fastify", "global"}
    /\ env.mode \in {"production", Unset} \/ ~request.body

(* The hooks of a context are in order, and run in order.                  *)
LEMMA LimiterSees ==
  ASSUME IInv, HooksInPlace, Walked
  PROVE  SeenFirst
<1> SUFFICES ASSUME request.ran \cap Guarded # {}
             PROVE  "limit" \in request.ran
  BY DEF SeenFirst
<1> DEFINE chain == Chain(request.route)
<1>1. /\ request.route \in Routes /\ at = "serving"
      /\ request.done \in 0 .. Len(chain)
      /\ request.ran = {chain[i] : i \in 1 .. request.done}
  BY DEF Walked
<1>2. PICK k \in 1 .. Len(chain) :
        /\ chain[k] = "limit"
        /\ \A i \in 1 .. k - 1 : chain[i] \in OnRequest \cup {"parse"}
  BY <1>1, ChainShape DEF IInv
<1> HIDE DEF chain
<1>3. PICK i \in 1 .. request.done : chain[i] \in Guarded
  BY <1>1
<1>4. chain[i] \notin OnRequest \cup {"parse"}
  BY <1>3 DEF OnRequest, Guarded
<1>5. k <= i
  BY <1>1, <1>2, <1>4
<1>6. k \in 1 .. request.done
  BY <1>1, <1>5
<1> QED
  BY <1>1, <1>2, <1>6

(* A step answers what the limiter has not seen only by an error.          *)
LEMMA RefusedStep ==
  ASSUME IInv, SeenFirst', RefusedForCause, [Next]_vars
  PROVE  RefusedForCause'
<1>0. TypeOK /\ Shaped
  BY DEF IInv
<1>1. CASE UNCHANGED vars
  BY <1>1 DEF vars, bootVars, RefusedForCause
<1>2. CASE Boots
  <2>1. UNCHANGED env /\ UNCHANGED request
    BY <1>2 DEF Boots, ValidateStartupSchema, CreateApplication, RegisterGlobalErrorHandler,
       RegisterProductionSecurityHeaders, RegisterProductionNetworkCompression, Optional,
       RegisterSwaggerDocumentation, RegisterRequestTracingLogger, AddRateLimiter,
       RegisterRoutes, SetNotFoundHandler, Listen
  <2> QED
    BY <2>1 DEF RefusedForCause
<1>3. CASE (\E route \in Routes, token \in Tokens, body \in BOOLEAN : Receive(route, token, body)) \/ Finish
  <2>1. ASSUME NEW route \in Routes, NEW token \in Tokens, NEW body \in BOOLEAN,
               Receive(route, token, body)
        PROVE  request'.status = 0
    BY <2>1 DEF Receive, Idle
  <2>2. Finish => request'.status = 0
    BY DEF Finish, Idle
  <2>3. request'.status = 0
    BY <1>3, <2>1, <2>2
  <2> QED
    BY <2>3 DEF RefusedForCause
<1>4. CASE RunHook
  <2>1. PICK status \in Outcomes(Current, request) :
          request' = [request EXCEPT
            !.done = @ + 1, !.ran = @ \cup {Current},
            !.status = status, !.by = IF status = 0 THEN @ ELSE Current,
            !.user = IF Current = "authenticate" /\ status = 0 THEN FixedRole ELSE @]
    BY <1>4 DEF RunHook
  <2>2. request'.status = status /\ request'.ran = request.ran \cup {Current}
    BY <1>0, <2>1 DEF Shaped
  <2>3. status = 0 \/ Current = "limit" \/ Current \in Guarded
    BY <2>1 DEF Outcomes, Guarded
  <2>4. status # 0 => "limit" \in request'.ran
    BY <2>2, <2>3 DEF SeenFirst
  <2> QED
    BY <2>2, <2>4 DEF RefusedForCause
<1>5. CASE Throw
  <2>1. /\ request.route \in Routes /\ UNCHANGED bootVars
        /\ env.mode \in {"production", Unset} \/ ~request.body
    BY <1>5 DEF Throw, Throws, InChain
  <2>2. errorHandler[ContextOf[request.route]] \in {"fastify", "global"}
    BY <1>0, <2>1 DEF TypeOK, Routes, ContextOf, Contexts
  <2>3. request'.by \in {"fastify", "global"} /\ request'.body = request.body
    BY <1>0, <1>5, <2>2 DEF Throw, Shaped
  <2> QED
    BY <2>1, <2>3 DEF RefusedForCause, bootVars
<1> QED
  BY <1>1, <1>2, <1>3, <1>4, <1>5 DEF Next, Boots, Exited

(* No authentication, no permission check and no handler of any route runs *)
(* before the rate limiter, and nothing but a refused origin or body is    *)
(* answered without it, whatever packages are missing.                     *)
THEOREM LimiterComesFirst == Spec => []LimitedBeforeAnything
<1>1. IInv /\ HooksInPlace /\ Walked => SeenFirst
  BY LimiterSees
<1>2. Init => RefusedForCause
  BY DEF Init, Idle, RefusedForCause
<1>3. IInv /\ SeenFirst' /\ RefusedForCause /\ [Next]_vars => RefusedForCause'
  BY RefusedStep
<1>4. SeenFirst /\ RefusedForCause => LimitedBeforeAnything
  BY DEF SeenFirst, RefusedForCause, LimitedBeforeAnything, Guarded
<1> QED
  BY <1>1, <1>2, <1>3, <1>4, Invariance, WalkInvariance, PTL DEF Spec
=============================================================================
