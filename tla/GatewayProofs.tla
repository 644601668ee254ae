--------------------------- MODULE GatewayProofs ----------------------------
(***************************************************************************)
(* The composition keeps what its parts promise: the gateway uses the      *)
(* token buckets and the hub only in the ways RateLimit and Hub allow, so  *)
(* their theorems hold of the gateway.                                     *)
(***************************************************************************)
EXTENDS Gateway, RateLimitProofs, HubProofs

\* A request has a script on its way only while it waits for RateAllow.  A
\* request that registers is a connection.
CallIInv ==
    /\ kind \in Mixes
    /\ pc \in [Callers -> Steps] /\ asked \in [Callers -> Buckets \cup {NoBucket}]
    /\ \A q \in Callers : /\ asked[q] # NoBucket => pc[q] \in {"ip", "user"}
                          /\ pc[q] = "register" => q \in Clients

LEMMA CallFrame ==
    ASSUME CallIInv, UNCHANGED <<kind, pc, asked>>
    PROVE  CallIInv'
  BY DEF CallIInv

\* A request that moves on without asking a bucket.
LEMMA CallMove ==
    ASSUME CallIInv, NEW q \in Callers, NEW step \in Steps, GoTo(q, step),
           step = "register" => q \in Clients,
           asked[q] = NoBucket, asked' = asked
    PROVE  CallIInv'
  BY DEF CallIInv, GoTo

\* RateAllow of a request returns.
LEMMA CallReturn ==
    ASSUME CallIInv, NEW q \in Callers, NEW step \in Steps \ {"register"}, GoTo(q, step),
           asked' = [asked EXCEPT ![q] = NoBucket]
    PROVE  CallIInv'
  BY DEF CallIInv, GoTo

\* A request calls RateAllow.
LEMMA CallAsk ==
    ASSUME CallIInv, NEW q \in Callers, NEW step \in {"ip", "user"}, GoTo(q, step),
           NEW b \in Buckets, asked' = [asked EXCEPT ![q] = b]
    PROVE  CallIInv'
  BY DEF CallIInv, GoTo, Steps

LEMMA CallInit == Init => CallIInv
  BY DEF Init, RateInit, CallIInv, Steps

\* Each kind of step is one of the hub's or none, and one of the buckets' or
\* none, and keeps CallIInv.
LEMMA StepMiddleware ==
    ASSUME CallIInv, NEW q \in Callers, Middleware(q)
    PROVE  CallIInv' /\ [RateNext]_rateVars /\ [HubNext]_hubVars
  <1>1. asked[q] = NoBucket /\ UNCHANGED hubVars
    BY DEF Middleware, CallIInv
  <1>2. CASE GoTo(q, "serve") /\ UNCHANGED rateVars
    BY <1>1, <1>2, CallMove DEF Steps, rateVars, callVars
  <1>3. CASE Ask(q, IPBucket) /\ GoTo(q, "ip")
    <2>1. IPBucket \in Buckets
      BY GatewayAssumption
    <2>2. CallIInv'
      BY <2>1, <1>3, CallAsk DEF Ask
    <2>3. RateNext
      BY <2>1, <1>1, <1>3 DEF RateNext
    <2> QED BY <2>2, <2>3, <1>1
  <1> QED BY <1>2, <1>3 DEF Middleware, Pass

LEMMA StepLimited ==
    ASSUME CallIInv, NEW q \in Callers, NEW next \in {"auth", "serve"}, Limited(q, next)
    PROVE  CallIInv' /\ [RateNext]_rateVars /\ [HubNext]_hubVars
  <1>1. UNCHANGED hubVars
    BY DEF Limited
  <1>2. \E step \in Steps \ {"register"} : GoTo(q, step)
    BY DEF Limited, Steps, Pass, Refuse, Write
  <1>3. EvalFails(q) \/ \E allowed \in BOOLEAN : Eval(q, allowed)
    BY DEF Limited
  <1>4. asked' = [asked EXCEPT ![q] = NoBucket]
    BY <1>3 DEF EvalFails, Eval
  <1>5. RateNext
    BY <1>3 DEF RateNext
  <1>6. CallIInv'
    BY <1>2, <1>4, CallReturn
  <1> QED BY <1>1, <1>5, <1>6

LEMMA StepRequireAuth ==
    ASSUME CallIInv, NEW q \in Callers, RequireAuth(q)
    PROVE  CallIInv' /\ [RateNext]_rateVars /\ [HubNext]_hubVars
  <1>1. asked[q] = NoBucket /\ UNCHANGED hubVars
    BY DEF RequireAuth, CallIInv
  <1>2. CASE (GoTo(q, "serve") \/ GoTo(q, "done")) /\ UNCHANGED rateVars
    BY <1>1, <1>2, CallMove DEF Steps, rateVars, callVars
  <1>3. CASE Ask(q, UserBucket) /\ GoTo(q, "user")
    <2>1. UserBucket \in Buckets
      BY GatewayAssumption
    <2>2. CallIInv'
      BY <2>1, <1>3, CallAsk DEF Ask
    <2>3. RateNext
      BY <2>1, <1>1, <1>3 DEF RateNext
    <2> QED BY <2>2, <2>3, <1>1
  <1> QED BY <1>2, <1>3 DEF RequireAuth, Pass, Refuse, Write

Refusals == {400, 401, 403, 429}

\* What a handler other than handleWS does to its request: an RPC is made only
\* behind requireAuth, and none for a body that does not decode.
LEMMA ServeEffect ==
    ASSUME NEW q \in Callers, Serve(q)
    PROVE  /\ UNCHANGED <<kind, claims>> /\ issued \subseteq issued'
           /\ pc' = [pc EXCEPT ![q] = "done"]
           /\ \E code \in Codes :
                /\ answer' = [answer EXCEPT ![q] = code]
                /\ \/ rpc' = rpc
                   \/ /\ \E res \in {"ok", "error"} : rpc' = [rpc EXCEPT ![q] = res]
                      /\ kind[q] \notin Public /\ code \notin Refusals
  <1>1. CASE \E code \in {200, 400, 404, 500, 503} : Refuse(q, code)
    <2>1. PICK code \in {200, 400, 404, 500, 503} : Refuse(q, code)
      BY <1>1
    <2>2. /\ answer' = [answer EXCEPT ![q] = code] /\ code \in Codes
          /\ pc' = [pc EXCEPT ![q] = "done"] /\ UNCHANGED <<kind, issued, claims, rpc>>
      BY <2>1 DEF Refuse, Write, GoTo, Codes
    <2>3. issued \subseteq issued' /\ UNCHANGED <<kind, claims>> /\ rpc' = rpc
      BY <2>2
    <2> DEFINE Served(c) ==
          /\ answer' = [answer EXCEPT ![q] = c]
          /\ \/ rpc' = rpc
             \/ /\ \E res \in {"ok", "error"} : rpc' = [rpc EXCEPT ![q] = res]
                /\ kind[q] \notin Public /\ c \notin Refusals
    <2>4. code \in Codes /\ Served(code)
      BY <2>2, <2>3
    <2>5. \E c \in Codes : Served(c)
      <3> HIDE DEF Served
      <3> QED BY <2>4
    <2> QED BY <2>2, <2>3, <2>5
  <1>2. CASE /\ \E code \in {200, 201, 409}, failed \in {404, 422, 500} : Call(q, code, failed)
             /\ kind[q] \notin Public
    BY <1>2 DEF Call, Write, GoTo, Codes, Refusals
  <1>3. CASE \E role \in Role : Issue(role, now) /\ Write(q, 200) /\ UNCHANGED <<claims, rpc>>
    BY <1>3 DEF Issue, Write, GoTo, Codes
  <1> QED
    BY <1>1, <1>2, <1>3
    DEF Serve, handleLogin, handleRegisterDriver, handleDriverStatus, handleDriverLocation,
        handleCreateRide, handleGetRide, handleCancelRide, handleNearbyDrivers, handleReady,
        handleHealth, handleMetrics, BadRequest, Public, Unlimited

LEMMA StepHandler ==
    ASSUME CallIInv, NEW q \in Callers, Handler(q)
    PROVE  CallIInv' /\ [RateNext]_rateVars /\ [HubNext]_hubVars
  <1>1. asked[q] = NoBucket /\ UNCHANGED rateVars /\ asked' = asked
    BY DEF Handler, CallIInv, rateVars, callVars
  <1>2. CASE q \in ws /\ ServeWS(q) /\ GoTo(q, "register")
    <2>1. q \in Clients
      BY <1>2, GatewayAssumption DEF ws, CallIInv
    <2>2. CallIInv'
      BY <2>1, <1>1, <1>2, CallMove DEF Steps
    <2>3. HubNext
      BY <2>1, <1>2 DEF HubNext
    <2> QED BY <2>2, <2>3, <1>1
  <1>3. CASE GoTo(q, "done") /\ UNCHANGED hubVars
    BY <1>1, <1>3, CallMove DEF Steps
  <1> QED BY <1>2, <1>3, ServeEffect DEF Handler, handleWS, Pass, Refuse, Write, GoTo

LEMMA StepRegister ==
    ASSUME CallIInv, NEW q \in Callers, Register(q)
    PROVE  CallIInv' /\ [RateNext]_rateVars /\ [HubNext]_hubVars
  <1>1. /\ q \in Clients /\ asked[q] = NoBucket
        /\ UNCHANGED rateVars /\ asked' = asked /\ GoTo(q, "done")
    BY DEF Register, Pass, CallIInv, rateVars, callVars
  <1>2. CallIInv'
    BY <1>1, CallMove DEF Steps
  <1>3. HubNext
    BY <1>1 DEF Register, HubNext
  <1> QED BY <1>1, <1>2, <1>3

LEMMA StepParts ==
    CallIInv /\ [Next]_vars => CallIInv' /\ [RateNext]_rateVars /\ [HubNext]_hubVars
  <1> SUFFICES ASSUME CallIInv, [Next]_vars
               PROVE  CallIInv' /\ [RateNext]_rateVars /\ [HubNext]_hubVars
    OBVIOUS
  <1>1. ASSUME NEW q \in Callers, RequestStep(q)
        PROVE  CallIInv' /\ [RateNext]_rateVars /\ [HubNext]_hubVars
    BY <1>1, StepLimited, StepRequireAuth, StepHandler, StepRegister DEF RequestStep
  <1>2. ASSUME NEW c \in Clients, ReaderStep(c) \/ WriterStep(c)
        PROVE  CallIInv' /\ [RateNext]_rateVars /\ [HubNext]_hubVars
    <2>1. UNCHANGED rateVars /\ UNCHANGED <<kind, pc, asked>>
      BY <1>2 DEF ReaderStep, WriterStep, rateVars, callVars, requestVars
    <2>2. HubNext
      BY <1>2 DEF ReaderStep, WriterStep, HubNext
    <2> QED BY <2>1, <2>2, CallFrame
  <1>3. CASE HubOnly
    <2>1. UNCHANGED rateVars /\ UNCHANGED <<kind, pc, asked>>
      BY <1>3 DEF HubOnly, rateVars, callVars, requestVars
    <2>2. HubNext
      BY <1>3 DEF HubOnly, HubNext
    <2> QED BY <2>1, <2>2, CallFrame
  <1>4. CASE RateOnly
    <2>1. UNCHANGED hubVars /\ UNCHANGED <<kind, pc>>
      BY <1>4 DEF RateOnly, requestVars
    <2>2. UNCHANGED asked
      BY <1>4 DEF RateOnly, Advance, StartWindow, ExpireBucket, callVars
    <2>3. RateNext
      BY <1>4 DEF RateOnly, RateNext
    <2> QED BY <2>1, <2>2, <2>3, CallFrame
  <1>5. CASE UNCHANGED vars
    <2>1. UNCHANGED rateVars /\ UNCHANGED hubVars /\ UNCHANGED <<kind, pc>>
      BY <1>5 DEF vars, requestVars
    <2>2. UNCHANGED asked
      BY <2>1 DEF rateVars, callVars
    <2> QED BY <2>1, <2>2, CallFrame
  <1> QED BY <1>1, <1>2, <1>3, <1>4, <1>5, StepMiddleware DEF Next

\* Every behaviour of the gateway is one of the token buckets and one of the
\* hub: no request calls RateAllow while its last call is open, and only a
\* connection registers.
THEOREM GatewayImplements == Spec => RateSpec /\ HubSpec
  <1>1. Init => RateInit /\ HubInit
    BY DEF Init
  <1> QED BY <1>1, CallInit, StepParts, PTL DEF Spec, RateSpec, HubSpec

\* So the limits hold for requests as the gateway sends them through both
\* buckets, and the hub's guarantees for the connections it upgrades.
THEOREM GatewaySafe == Spec => [](RateBound /\ NoSendOnClosed /\ InOrder)
  BY GatewayImplements, RateBounded, HubNeverPanics, HubKeepsOrder, PTL

-----------------------------------------------------------------------------
(* Who may act.                                                            *)

Entitled(q) == claims[q] \in issued /\ claims[q].role \in Routes[kind[q]]

Alive(q) == at[q] < claims[q].exp

\* What requireAuth has established stays with the request until its handler
\* has answered.
WebInv(q) ==
    /\ pc[q] = "user" => Entitled(q) /\ Alive(q)
    /\ pc[q] = "serve" => kind[q] \in Public \/ Entitled(q)
    /\ pc[q] = "register" => Entitled(q)
    /\ rpc[q] # "none" => pc[q] = "done" /\ Entitled(q) /\ answer[q] \notin Refusals

\* Pumps run only for a connection, and a connection is somebody's.
ConnInv(c) ==
    /\ conn[c] # "none" => Entitled(c) /\ pc[c] \in {"register", "done"}
    /\ conn[c] = "none" => reader[c] = "none" /\ writer[c] = "none"

Shapes ==
    /\ DOMAIN pc = Callers /\ DOMAIN at = Callers /\ DOMAIN claims = Callers
    /\ DOMAIN rpc = Callers /\ DOMAIN answer = Callers
    /\ DOMAIN conn = Clients /\ DOMAIN reader = Clients /\ DOMAIN writer = Clients

EntIInv ==
    /\ CallIInv /\ Shapes
    /\ \A q \in Callers : WebInv(q)
    /\ \A c \in Clients : ConnInv(c)

LEMMA WebFrame ==
    ASSUME NEW r \in Callers, WebInv(r), kind' = kind, issued \subseteq issued',
           pc'[r] = pc[r], claims'[r] = claims[r], rpc'[r] = rpc[r],
           answer'[r] = answer[r], at'[r] = at[r]
    PROVE  WebInv(r)'
  <1>1. Entitled(r) => Entitled(r)'
    BY DEF Entitled
  <1>2. Alive(r) => Alive(r)'
    BY DEF Alive
  <1>3. answer[r] \notin Refusals => answer'[r] \notin Refusals'
    BY DEF Refusals
  <1> QED BY <1>1, <1>2, <1>3 DEF WebInv

\* A request that has not come to its handler yet, or was refused.
LEMMA WebNoEffect ==
    ASSUME NEW q \in Callers, rpc'[q] = "none", pc'[q] \in {"ip", "auth", "done"}
    PROVE  WebInv(q)'
  BY DEF WebInv

\* A step of request q that opens no connection.
LEMMA EntRequest ==
    ASSUME EntIInv, CallIInv', Shapes', NEW q \in Callers, WebInv(q)',
           kind' = kind, issued \subseteq issued',
           pc[q] \in {"register", "done"} => pc'[q] = "done" /\ claims'[q] = claims[q],
           \A r \in Callers \ {q} : /\ pc'[r] = pc[r] /\ claims'[r] = claims[r] /\ rpc'[r] = rpc[r]
                                    /\ answer'[r] = answer[r] /\ at'[r] = at[r],
           UNCHANGED <<conn, reader, writer>>
    PROVE  EntIInv'
  <1>1. ASSUME NEW r \in Callers PROVE WebInv(r)'
    <2>1. CASE r = q
      BY <2>1
    <2>2. WebInv(r)
      BY DEF EntIInv
    <2>3. CASE r # q
      BY <2>2, <2>3, WebFrame
    <2> QED BY <2>1, <2>3
  <1>2. ASSUME NEW c \in Clients PROVE ConnInv(c)'
    <2>1. c \in Callers /\ ConnInv(c)
      BY GatewayAssumption DEF EntIInv
    <2>2. CASE c = q
      BY <2>1, <2>2 DEF ConnInv, Entitled
    <2>3. CASE c # q
      BY <2>1, <2>3 DEF ConnInv, Entitled
    <2> QED BY <2>2, <2>3
  <1> QED BY <1>1, <1>2 DEF EntIInv

LEMMA EntMiddleware ==
    ASSUME EntIInv, CallIInv', NEW q \in Callers, Middleware(q)
    PROVE  EntIInv'
  <1>a. Shapes /\ WebInv(q)
    BY DEF EntIInv
  <1>1. /\ pc[q] = "new" /\ UNCHANGED <<issued, kind, claims, rpc, answer, conn, reader, writer>>
        /\ \E step \in {"serve", "ip"} : pc' = [pc EXCEPT ![q] = step]
        /\ at' = at \/ at' = [at EXCEPT ![q] = now]
        /\ pc'[q] = "serve" => kind[q] \in Public
    BY <1>a DEF Middleware, Pass, GoTo, Ask, rateVars, callVars, hubVars, Public, Shapes
  <1>2. Shapes'
    BY <1>a, <1>1 DEF Shapes
  <1>3. pc'[q] \in {"serve", "ip"} /\ rpc'[q] = "none"
    BY <1>a, <1>1 DEF WebInv, Shapes
  <1>5. WebInv(q)'
    BY <1>1, <1>3 DEF WebInv
  <1>4. \A r \in Callers \ {q} : pc'[r] = pc[r] /\ at'[r] = at[r]
    BY <1>a, <1>1 DEF Shapes
  <1> QED BY <1>1, <1>2, <1>3, <1>4, <1>5, EntRequest

LEMMA EntLimited ==
    ASSUME EntIInv, CallIInv', NEW q \in Callers,
           \/ pc[q] = "ip" /\ Limited(q, "auth")
           \/ pc[q] = "user" /\ Limited(q, "serve")
    PROVE  EntIInv'
  <1>a. Shapes /\ WebInv(q)
    BY DEF EntIInv
  <1>b. PICK next \in {"auth", "serve"} : Limited(q, next) /\ (next = "serve" => pc[q] = "user")
    OBVIOUS
  <1>c. EvalFails(q) \/ \E allowed \in BOOLEAN : Eval(q, allowed)
    BY <1>b DEF Limited
  <1>d. at' = [at EXCEPT ![q] = 0]
    BY <1>c DEF EvalFails, Eval
  <1>e. Pass(q, next) \/ Refuse(q, 429)
    BY <1>b DEF Limited
  <1>1. /\ UNCHANGED <<issued, kind, claims, rpc, conn, reader, writer>>
        /\ at' = [at EXCEPT ![q] = 0]
        /\ answer' = answer \/ answer' = [answer EXCEPT ![q] = 429]
    BY <1>b, <1>d, <1>e DEF Limited, Pass, Refuse, Write, GoTo, hubVars
  <1>2. /\ \E step \in {"auth", "serve", "done"} : pc' = [pc EXCEPT ![q] = step]
        /\ pc'[q] = "serve" => pc[q] = "user"
    <2>1. pc' = [pc EXCEPT ![q] = next] \/ pc' = [pc EXCEPT ![q] = "done"]
      BY <1>e DEF Pass, Refuse, Write, GoTo
    <2>2. next = "serve" => pc[q] = "user"
      BY <1>b
    <2> QED BY <1>a, <2>1, <2>2 DEF Shapes
  <1>3. Shapes'
    BY <1>a, <1>1, <1>2 DEF Shapes
  <1>6. pc'[q] \in {"auth", "serve", "done"} /\ rpc'[q] = "none"
    BY <1>a, <1>1, <1>2 DEF WebInv, Shapes
  <1>7. pc'[q] = "serve" => Entitled(q)'
    BY <1>a, <1>1, <1>2 DEF WebInv, Entitled
  <1>4. WebInv(q)'
    BY <1>6, <1>7 DEF WebInv
  <1>5. \A r \in Callers \ {q} : pc'[r] = pc[r] /\ at'[r] = at[r] /\ answer'[r] = answer[r]
    BY <1>a, <1>1, <1>2 DEF Shapes
  <1> QED BY <1>1, <1>3, <1>4, <1>5, EntRequest

LEMMA EntRequireAuth ==
    ASSUME EntIInv, CallIInv', NEW q \in Callers, RequireAuth(q)
    PROVE  EntIInv'
  <1>a. Shapes /\ WebInv(q)
    BY DEF EntIInv
  <1>1. ASSUME NEW tok \in issued, Verify(tok, now), RequireRole(tok, Routes[kind[q]]),
               claims' = [claims EXCEPT ![q] = tok], Ask(q, UserBucket), GoTo(q, "user"),
               UNCHANGED <<issued, rpc, answer>>
        PROVE  EntIInv'
    <2>1. /\ now < tok.exp /\ tok.role \in Routes[kind[q]]
          /\ claims' = [claims EXCEPT ![q] = tok] /\ pc' = [pc EXCEPT ![q] = "user"]
          /\ UNCHANGED <<issued, kind, rpc, answer>> /\ at' = [at EXCEPT ![q] = now]
      BY <1>1 DEF Verify, RequireRole, GoTo, Ask
    <2>2. pc[q] = "auth" /\ UNCHANGED <<conn, reader, writer>>
      BY DEF RequireAuth, hubVars
    <2>3. Shapes'
      BY <1>a, <2>1, <2>2 DEF Shapes
    <2>4. claims'[q] = tok /\ pc'[q] = "user" /\ at'[q] = now /\ rpc'[q] = "none"
      BY <1>a, <2>1, <2>2 DEF Shapes, WebInv
    <2>5. WebInv(q)'
      <3>1. Entitled(q)' /\ Alive(q)'
        BY <2>1, <2>4 DEF Entitled, Alive
      <3> QED BY <2>4, <3>1 DEF WebInv
    <2>6. \A r \in Callers \ {q} : pc'[r] = pc[r] /\ at'[r] = at[r] /\ claims'[r] = claims[r]
      BY <1>a, <2>1 DEF Shapes
    <2> QED BY <2>1, <2>2, <2>3, <2>5, <2>6, EntRequest
  <1>2. CASE /\ (kind[q] \in Public /\ Pass(q, "serve")) \/ \E code \in {401, 403} : Refuse(q, code)
             /\ UNCHANGED rateVars
    <2>1. /\ pc[q] = "auth" /\ UNCHANGED <<at, conn, reader, writer>>
          /\ UNCHANGED <<issued, kind, claims, rpc>>
      <3>1. pc[q] = "auth" /\ UNCHANGED hubVars
        BY DEF RequireAuth
      <3>2. UNCHANGED <<issued, kind, claims, rpc>>
        BY <1>2 DEF Pass, Refuse, Write, GoTo
      <3> QED BY <1>2, <3>1, <3>2 DEF rateVars, callVars, hubVars
    <2>2. \E step \in {"serve", "done"} : pc' = [pc EXCEPT ![q] = step]
      BY <1>2 DEF Pass, Refuse, Write, GoTo
    <2>3. answer' = answer \/ \E code \in {401, 403} : answer' = [answer EXCEPT ![q] = code]
      BY <1>2 DEF Pass, Refuse, Write
    <2>4. pc'[q] = "serve" => kind[q] \in Public
      BY <1>a, <1>2 DEF Refuse, Write, GoTo, Shapes
    <2>5. Shapes'
      BY <1>a, <2>1, <2>2, <2>3 DEF Shapes
    <2>6. pc'[q] \in {"serve", "done"} /\ rpc'[q] = "none"
      BY <1>a, <2>1, <2>2 DEF WebInv, Shapes
    <2>7. WebInv(q)'
      BY <2>1, <2>4, <2>6 DEF WebInv
    <2>8. \A r \in Callers \ {q} : pc'[r] = pc[r] /\ answer'[r] = answer[r]
      BY <1>a, <2>2, <2>3 DEF Shapes
    <2> QED BY <2>1, <2>5, <2>7, <2>8, EntRequest
  <1>3. CASE kind[q] \in Public /\ Pass(q, "serve") /\ UNCHANGED rateVars
    BY <1>2, <1>3
  <1>4. CASE Refuse(q, 401) /\ UNCHANGED rateVars
    BY <1>2, <1>4
  <1>5. ASSUME NEW tok \in issued, Verify(tok, now),
               IF ~RequireRole(tok, Routes[kind[q]]) THEN Refuse(q, 403) /\ UNCHANGED rateVars
               ELSE /\ claims' = [claims EXCEPT ![q] = tok]
                    /\ Ask(q, UserBucket) /\ GoTo(q, "user")
                    /\ UNCHANGED <<issued, rpc, answer>>
        PROVE  EntIInv'
    <2>1. CASE RequireRole(tok, Routes[kind[q]])
      BY <1>1, <1>5, <2>1
    <2>2. CASE ~RequireRole(tok, Routes[kind[q]])
      <3>1. Refuse(q, 403) /\ UNCHANGED rateVars
        BY Zenon, <1>5, <2>2
      <3> QED BY <1>2, <3>1
    <2> QED BY <2>1, <2>2
  <1> QED BY <1>3, <1>4, <1>5 DEF RequireAuth

LEMMA EntHandler ==
    ASSUME EntIInv, CallIInv', NEW q \in Callers, Handler(q)
    PROVE  EntIInv'
  <1>a. Shapes /\ WebInv(q)
    BY DEF EntIInv
  <1>1. pc[q] = "serve" /\ UNCHANGED <<at, asked>>
    BY DEF Handler, rateVars, callVars
  <1>2. CASE Serve(q) /\ UNCHANGED hubVars
    <2>1. UNCHANGED <<conn, reader, writer>>
      BY <1>2 DEF hubVars
    <2>2. PICK code \in Codes :
             /\ answer' = [answer EXCEPT ![q] = code]
             /\ \/ rpc' = rpc
                \/ /\ \E res \in {"ok", "error"} : rpc' = [rpc EXCEPT ![q] = res]
                   /\ kind[q] \notin Public /\ code \notin Refusals
      BY <1>2, ServeEffect
    <2>3. UNCHANGED <<kind, claims>> /\ issued \subseteq issued' /\ pc' = [pc EXCEPT ![q] = "done"]
      BY <1>2, ServeEffect
    <2>4. Shapes'
      BY <1>a, <1>1, <2>1, <2>2, <2>3 DEF Shapes
    <2>5. pc'[q] = "done" /\ answer'[q] = code
      BY <1>a, <2>2, <2>3 DEF Shapes
    <2>a. rpc[q] = "none" /\ (kind[q] \in Public \/ Entitled(q))
      BY <1>a, <1>1 DEF WebInv
    <2>6. rpc'[q] # "none" => Entitled(q)' /\ code \notin Refusals
      <3>1. Entitled(q) => Entitled(q)'
        BY <2>3 DEF Entitled
      <3> QED BY <2>a, <2>2, <3>1
    <2>7. WebInv(q)'
      BY <2>5, <2>6 DEF WebInv, Refusals
    <2>8. \A r \in Callers \ {q} : pc'[r] = pc[r] /\ answer'[r] = answer[r] /\ rpc'[r] = rpc[r]
      BY <1>a, <2>2, <2>3 DEF Shapes
    <2> QED BY <1>1, <2>1, <2>3, <2>4, <2>7, <2>8, EntRequest
  <1>3. CASE Refuse(q, 400) /\ UNCHANGED hubVars
    <2>1. /\ UNCHANGED <<issued, kind, claims, rpc, at, conn, reader, writer>>
          /\ pc' = [pc EXCEPT ![q] = "done"] /\ answer' = [answer EXCEPT ![q] = 400]
      BY <1>1, <1>3 DEF Refuse, Write, GoTo, hubVars
    <2>2. Shapes'
      BY <1>a, <2>1 DEF Shapes
    <2>3. WebInv(q)'
      <3>1. pc'[q] = "done" /\ rpc'[q] = "none"
        BY <1>a, <1>1, <2>1 DEF WebInv, Shapes
      <3> QED BY <3>1, WebNoEffect
    <2>4. \A r \in Callers \ {q} : pc'[r] = pc[r] /\ answer'[r] = answer[r]
      BY <1>a, <2>1 DEF Shapes
    <2> QED BY <1>1, <2>1, <2>2, <2>3, <2>4, EntRequest
  <1>4. CASE q \in ws /\ ServeWS(q) /\ Pass(q, "register")
    <2>1. /\ UNCHANGED <<issued, kind, claims, rpc, answer, at, reader, writer>>
          /\ pc' = [pc EXCEPT ![q] = "register"]
          /\ conn' = [conn EXCEPT ![q] = "open"]
      BY <1>1, <1>4 DEF Pass, GoTo, ServeWS
    <2>2. Entitled(q) /\ rpc[q] = "none" /\ q \in Clients
      <3>1. kind[q] = "ws" /\ kind \in Mixes
        BY <1>4 DEF ws, EntIInv, CallIInv
      <3>2. q \in Clients
        BY <3>1, GatewayAssumption
      <3>3. kind[q] \notin Public
        BY <3>1 DEF Public, Unlimited
      <3> QED BY <1>a, <1>1, <3>2, <3>3 DEF WebInv
    <2>3. Shapes'
      BY <1>a, <2>1 DEF Shapes
    <2>4. ASSUME NEW r \in Callers PROVE WebInv(r)'
      <3>1. WebInv(r)
        BY DEF EntIInv
      <3>2. CASE r = q
        <4>1. pc'[r] = "register" /\ rpc'[r] = "none" /\ Entitled(r)'
          BY <1>a, <2>1, <2>2, <3>2 DEF Entitled, Shapes
        <4> QED BY <4>1 DEF WebInv
      <3>3. CASE r # q
        <4>1. pc'[r] = pc[r]
          BY <1>a, <2>1, <3>3 DEF Shapes
        <4> QED BY <2>1, <3>1, <4>1, WebFrame
      <3> QED BY <3>2, <3>3
    <2>5. ASSUME NEW c \in Clients PROVE ConnInv(c)'
      <3>1. c \in Callers /\ ConnInv(c)
        BY GatewayAssumption DEF EntIInv
      <3>2. CASE c = q
        BY <1>a, <2>1, <2>2, <3>2 DEF Shapes, ConnInv, Entitled
      <3>3. CASE c # q
        BY <1>a, <2>1, <3>1, <3>3 DEF Shapes, ConnInv, Entitled
      <3> QED BY <3>2, <3>3
    <2> QED BY <2>3, <2>4, <2>5 DEF EntIInv
  <1> QED BY <1>2, <1>3, <1>4 DEF Handler, handleWS

\* The pumps, the hub and the clock serve no request, and only ServeWS opens a
\* connection.
LEMMA EntOther ==
    ASSUME EntIInv, CallIInv', UNCHANGED <<requestVars, at>>,
           Shapes',
           \A c \in Clients : /\ conn'[c] # "none" => conn[c] # "none"
                              /\ conn'[c] = "none" => /\ conn[c] = "none"
                                                      /\ reader'[c] = reader[c]
                                                      /\ writer'[c] = writer[c]
    PROVE  EntIInv'
  <1>1. ASSUME NEW r \in Callers PROVE WebInv(r)'
    <2>1. WebInv(r)
      BY DEF EntIInv
    <2> QED BY <2>1, WebFrame DEF requestVars
  <1>2. ASSUME NEW c \in Clients PROVE ConnInv(c)'
    <2>1. ConnInv(c)
      BY DEF EntIInv
    <2> QED BY <2>1 DEF ConnInv, Entitled, requestVars
  <1> QED BY <1>1, <1>2 DEF EntIInv

LEMMA EntStep == EntIInv /\ [Next]_vars => EntIInv'
  <1> SUFFICES ASSUME EntIInv, [Next]_vars PROVE EntIInv'
    OBVIOUS
  <1>0. CallIInv'
    BY StepParts DEF EntIInv
  <1>1. ASSUME NEW q \in Callers, Register(q) PROVE EntIInv'
    <2>1. /\ q \in Clients /\ pc[q] = "register"
          /\ UNCHANGED <<issued, kind, claims, rpc, answer, at, conn>>
          /\ pc' = [pc EXCEPT ![q] = "done"]
          /\ reader' = [reader EXCEPT ![q] = "run"] /\ writer' = [writer EXCEPT ![q] = "run"]
          /\ conn[q] # "none"
      BY <1>1 DEF Register, HubRegister, Registering, Pass, GoTo, rateVars, callVars, EntIInv, CallIInv
    <2>a. Shapes
      BY DEF EntIInv
    <2>2. Shapes'
      BY <2>a, <2>1 DEF Shapes
    <2>3. ASSUME NEW r \in Callers PROVE WebInv(r)'
      <3>1. WebInv(r)
        BY DEF EntIInv
      <3>2. CASE r = q
        <4>1. pc'[r] = "done" /\ rpc'[r] = "none"
          BY <2>a, <2>1, <3>1, <3>2 DEF Shapes, WebInv
        <4> QED BY <4>1, WebNoEffect
      <3>3. CASE r # q
        <4>1. pc'[r] = pc[r]
          BY <2>a, <2>1, <3>3 DEF Shapes
        <4> QED BY <2>1, <3>1, <4>1, WebFrame
      <3> QED BY <3>2, <3>3
    <2>4. ASSUME NEW c \in Clients PROVE ConnInv(c)'
      <3>1. c \in Callers /\ ConnInv(c)
        BY GatewayAssumption DEF EntIInv
      <3>2. CASE c = q
        BY <2>a, <2>1, <3>1, <3>2 DEF Shapes, ConnInv, Entitled
      <3>3. CASE c # q
        BY <2>a, <2>1, <3>1, <3>3 DEF Shapes, ConnInv, Entitled
      <3> QED BY <3>2, <3>3
    <2> QED BY <1>0, <2>2, <2>3, <2>4 DEF EntIInv
  <1>2. ASSUME NEW c \in Clients, ReaderStep(c) \/ WriterStep(c) \/ (HubOnly /\ (PeerGone(c) \/ PingFails(c)))
        PROVE  EntIInv'
    <2>1. UNCHANGED <<requestVars, at>>
      BY <1>2 DEF ReaderStep, WriterStep, HubOnly, rateVars, callVars
    <2>2. /\ conn' = conn \/ \E v \in {"gone", "closed"} : conn' = [conn EXCEPT ![c] = v]
          /\ reader' = reader \/ \E v \in {"unregister", "done"} : reader' = [reader EXCEPT ![c] = v]
          /\ writer' = writer \/ writer' = [writer EXCEPT ![c] = "done"]
      BY <1>2 DEF ReaderStep, WriterStep, readPump, HubUnregister, WriteMessage, WriteClose, PeerGone, PingFails
    <2>3. Shapes /\ ConnInv(c)
      BY DEF EntIInv
    <2>4. conn[c] # "none"
      BY <1>2, <2>3
      DEF ReaderStep, WriterStep, readPump, HubUnregister, WriteMessage, WriteClose, PeerGone, PingFails, ConnInv
    <2>5. Shapes'
      BY <2>1, <2>2, <2>3 DEF Shapes, requestVars
    <2>6. \A x \in Clients : x # c => conn'[x] = conn[x] /\ reader'[x] = reader[x] /\ writer'[x] = writer[x]
      BY <2>2, <2>3 DEF Shapes
    <2>7. conn'[c] # "none"
      BY <2>2, <2>3, <2>4 DEF Shapes
    <2> QED BY <1>0, <2>1, <2>4, <2>5, <2>6, <2>7, EntOther
  <1>3. ASSUME UNCHANGED <<requestVars, at, conn, reader, writer>> PROVE EntIInv'
    <2>1. Shapes /\ pc' = pc /\ claims' = claims /\ rpc' = rpc /\ answer' = answer
      BY <1>3 DEF EntIInv, requestVars
    <2>2. Shapes'
      BY <1>3, <2>1 DEF Shapes
    <2> QED BY <1>0, <1>3, <2>2, EntOther
  <1>4. CASE HubOnly
    <2>1. CASE \/ \E type \in Types : Broadcast(type)
               \/ \E u \in Users, types \in SubChoices : SetSubs(u, types)
               \/ HubFanOut
      <3>1. UNCHANGED <<conn, reader, writer>>
        BY <2>1 DEF Broadcast, SetSubs, HubFanOut
      <3>2. UNCHANGED <<requestVars, at>>
        BY <1>4 DEF HubOnly, rateVars, callVars
      <3> QED BY <3>1, <3>2, <1>3
    <2> QED BY <1>2, <1>4, <2>1 DEF HubOnly
  <1>5. CASE RateOnly
    <2>1. UNCHANGED <<requestVars, conn, reader, writer>>
      BY <1>5 DEF RateOnly, hubVars
    <2>2. UNCHANGED at
      BY <1>5 DEF RateOnly, Advance, StartWindow, ExpireBucket, callVars
    <2> QED BY <2>1, <2>2, <1>3
  <1>6. CASE UNCHANGED vars
    <2>1. UNCHANGED <<requestVars, at, conn, reader, writer>>
      BY <1>6 DEF vars, rateVars, callVars, hubVars
    <2> QED BY <2>1, <1>3
  <1>7. ASSUME NEW q \in Callers, Middleware(q) \/ RequestStep(q) PROVE EntIInv'
    BY <1>0, <1>1, <1>7, EntMiddleware, EntLimited, EntRequireAuth, EntHandler DEF RequestStep
  <1> QED BY <1>2, <1>4, <1>5, <1>6, <1>7 DEF Next

\* An RPC is made and a connection opened only for a request whose claims came
\* from an issued token of an allowed role, alive when requireAuth looked, and
\* a request that is refused has had no effect.
THEOREM GatewayEntitles == Spec => []OnlyEntitledAct
  <1>1. Init => EntIInv
    <2> SUFFICES ASSUME Init PROVE EntIInv
      OBVIOUS
    <2>1. Shapes
      BY DEF Init, RateInit, HubInit, Shapes
    <2>2. ASSUME NEW q \in Callers PROVE WebInv(q)
      <3>1. pc[q] = "new" /\ rpc[q] = "none"
        BY DEF Init
      <3> QED BY <3>1 DEF WebInv
    <2>3. ASSUME NEW c \in Clients PROVE ConnInv(c)
      BY DEF Init, HubInit, ConnInv
    <2> QED BY CallInit, <2>1, <2>2, <2>3 DEF EntIInv
  <1>2. EntIInv => OnlyEntitledAct
    <2> SUFFICES ASSUME EntIInv, NEW q \in Callers
                 PROVE  /\ \/ rpc[q] # "none" \/ pc[q] \in {"user", "register"}
                           \/ (q \in Clients /\ conn[q] # "none")
                           => Entitled(q)
                        /\ pc[q] = "user" => Alive(q)
                        /\ rpc[q] # "none" => answer[q] \notin Refusals
      BY DEF OnlyEntitledAct, Entitled, Alive, Refusals
    <2>1. WebInv(q) /\ (q \in Clients => ConnInv(q))
      BY DEF EntIInv
    <2> QED BY <2>1 DEF WebInv, ConnInv
  <1> QED BY <1>1, <1>2, EntStep, PTL DEF Spec

-----------------------------------------------------------------------------
(* Types.                                                                  *)

RequestTypes ==
    /\ issued \subseteq Claims /\ claims \in [Callers -> Claims \cup {NoClaims}]
    /\ rpc \in [Callers -> {"none", "ok", "error"}] /\ answer \in [Callers -> Codes \cup {0}]

\* Only a login issues a token.
LEMMA ServeIssues ==
    ASSUME NEW q \in Callers, Serve(q)
    PROVE  issued' = issued \/ \E role \in Role : Issue(role, now)
  BY DEF Serve, handleLogin, handleRegisterDriver, handleDriverStatus, handleDriverLocation,
         handleCreateRide, handleGetRide, handleCancelRide, handleNearbyDrivers, handleReady,
         handleHealth, handleMetrics, BadRequest, Refuse, Call

LEMMA RefuseTypes ==
    ASSUME RequestTypes, NEW q \in Callers, NEW code \in Codes, Refuse(q, code)
    PROVE  RequestTypes'
  BY DEF RequestTypes, Refuse, Write

LEMMA PassTypes ==
    ASSUME RequestTypes, UNCHANGED <<issued, claims, rpc, answer>> PROVE RequestTypes'
  BY DEF RequestTypes

LEMMA ServeTypes ==
    ASSUME RequestTypes, now \in Nat, NEW q \in Callers, Serve(q) PROVE RequestTypes'
  <1>1. issued' \subseteq Claims
    <2>1. ASSUME NEW role \in Role, Issue(role, now) PROVE issued' \subseteq Claims
      <3>1. now + Expiry \in Nat
        BY AuthAssumption
      <3>2. [role |-> role, exp |-> now + Expiry] \in Claims
        BY <3>1 DEF Claims
      <3> QED BY <2>1, <3>2 DEF Issue, RequestTypes
    <2> QED BY <2>1, ServeIssues DEF RequestTypes
  <1>2. PICK code \in Codes :
           /\ answer' = [answer EXCEPT ![q] = code]
           /\ rpc' = rpc \/ \E res \in {"ok", "error"} : rpc' = [rpc EXCEPT ![q] = res]
    BY ServeEffect
  <1>3. claims' = claims
    BY ServeEffect
  <1>4. rpc' \in [Callers -> {"none", "ok", "error"}]
    BY <1>2 DEF RequestTypes
  <1>5. answer' \in [Callers -> Codes \cup {0}]
    BY <1>2 DEF RequestTypes
  <1> QED BY <1>1, <1>3, <1>4, <1>5 DEF RequestTypes

LEMMA RequireAuthTypes ==
    ASSUME RequestTypes, NEW q \in Callers, RequireAuth(q) PROVE RequestTypes'
  <1> DEFINE Admit(tok) == claims' = [claims EXCEPT ![q] = tok] /\ UNCHANGED <<issued, rpc, answer>>
  <1>1. \/ Pass(q, "serve") \/ Refuse(q, 401) \/ Refuse(q, 403)
        \/ \E tok \in issued : Admit(tok)
    BY Zenon DEF RequireAuth
  <1>2. CASE Pass(q, "serve")
    BY <1>2, PassTypes DEF Pass
  <1>3. CASE Refuse(q, 401) \/ Refuse(q, 403)
    BY <1>3, RefuseTypes DEF Codes
  <1>4. ASSUME NEW tok \in issued, Admit(tok) PROVE RequestTypes'
    BY <1>4 DEF RequestTypes
  <1> HIDE DEF Admit
  <1> QED BY <1>1, <1>2, <1>3, <1>4

LEMMA RequestTypesStep ==
    ASSUME RequestTypes, now \in Nat, [Next]_vars PROVE RequestTypes'
  <1>1. ASSUME NEW q \in Callers, Middleware(q) PROVE RequestTypes'
    BY <1>1, PassTypes DEF Middleware, Pass
  <1>2. ASSUME NEW q \in Callers, NEW next, Limited(q, next) PROVE RequestTypes'
    BY <1>2, PassTypes, RefuseTypes DEF Limited, Pass, Codes
  <1>3. ASSUME NEW q \in Callers, Handler(q) PROVE RequestTypes'
    BY <1>3, PassTypes, RefuseTypes, ServeTypes DEF Handler, handleWS, Pass, Codes
  <1>4. ASSUME NEW q \in Callers, Register(q) PROVE RequestTypes'
    BY <1>4, PassTypes DEF Register, Pass
  <1>5. ASSUME NEW q \in Callers, RequestStep(q) PROVE RequestTypes'
    BY <1>2, <1>3, <1>4, <1>5, RequireAuthTypes DEF RequestStep
  <1>6. CASE UNCHANGED requestVars
    BY <1>6, PassTypes DEF requestVars
  <1> QED BY <1>1, <1>5, <1>6 DEF Next, ReaderStep, WriterStep, HubOnly, RateOnly, vars

\* Every variable of the gateway, of the buckets and of the hub keeps its type,
\* the capacities of the channels included (server.go, hub.go, store.go).
THEOREM GatewayTypes == Spec => []TypeOK
  <1>1. Init => RequestTypes
    BY GatewayAssumption DEF Init, RequestTypes
  <1>2. RateTypeOK => now \in Nat
    BY DEF RateTypeOK
  <1>3. RateTypeOK /\ HubTypeOK /\ CallIInv /\ RequestTypes => TypeOK
    BY DEF CallIInv, RequestTypes, TypeOK
  <1> QED BY <1>1, <1>2, <1>3, GatewayImplements, RateTypes, HubTypes, CallInit, StepParts,
             RequestTypesStep, PTL DEF Spec
=============================================================================
