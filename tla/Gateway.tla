------------------------------ MODULE Gateway -------------------------------
(***************************************************************************)
(* internal/gateway/server.go: an HTTP request on its way through          *)
(* middleware, requireAuth and its handler, composed with the tokens of    *)
(* Auth, the token buckets (RateLimit) and the WebSocket hub (Hub).  A     *)
(* request is a caller of RateAllow and, if it asks for a WebSocket,       *)
(* becomes a client of the hub.                                            *)
(*                                                                         *)
(* A handler makes one RPC; what the RPCs do is in the modules of their    *)
(* services, here they only succeed or fail.                               *)
(***************************************************************************)
EXTENDS RateLimit, Hub, Auth

CONSTANTS IPBucket, UserBucket,  \* the requests come from one address and one user
          Mixes,                 \* the combinations of requests considered
          Earlier,               \* tokens issued before, here or by another gateway
          MaxTime                \* bound on the clock

\* Routes: the roles that requireAuth lets through.
Routes ==
    LET driver == {"DRIVER", "ADMIN"}
        user == {"USER", "ADMIN"}
    IN [drivers |-> driver, status |-> driver, location |-> driver,
        rides |-> user, ride |-> user, cancel |-> user, nearby |-> user, ws |-> Role]

Unlimited == {"health", "metrics"}
Public == {"login", "ready"} \cup Unlimited
Kinds == DOMAIN Routes \cup Public \cup {"absent"}

ASSUME GatewayAssumption ==
    /\ Clients \subseteq Callers /\ Buckets = {IPBucket, UserBucket}
    /\ Mixes \subseteq [Callers -> Kinds] /\ MaxTime \in Nat /\ Earlier \subseteq Claims
    /\ \A m \in Mixes : {q \in Callers : m[q] = "ws"} \subseteq Clients

VARIABLES kind,    \* the route of a request
          pc,      \* where it is
          claims,  \* the claims in its context
          rpc,     \* what became of its RPC
          answer   \* the status written, 0 before

requestVars == <<issued, kind, pc, claims, rpc, answer>>
vars == <<rateVars, hubVars, requestVars>>

ws == {q \in Callers : kind[q] = "ws"}

Steps == {"new", "ip", "auth", "user", "serve", "register", "done"}
Codes == {200, 201, 400, 401, 403, 404, 409, 422, 429, 500, 503}

TypeOK ==
    /\ RateTypeOK /\ HubTypeOK
    /\ issued \subseteq Claims /\ kind \in Mixes /\ pc \in [Callers -> Steps]
    /\ claims \in [Callers -> Claims \cup {NoClaims}]
    /\ rpc \in [Callers -> {"none", "ok", "error"}] /\ answer \in [Callers -> Codes \cup {0}]

Init ==
    /\ RateInit /\ HubInit
    /\ issued = Earlier /\ kind \in Mixes /\ pc = [q \in Callers |-> "new"]
    /\ claims = [q \in Callers |-> NoClaims]
    /\ rpc = [q \in Callers |-> "none"] /\ answer = [q \in Callers |-> 0]

GoTo(q, step) == pc' = [pc EXCEPT ![q] = step] /\ UNCHANGED kind

\* On to the next function, with nothing written yet.
Pass(q, step) == GoTo(q, step) /\ UNCHANGED <<issued, claims, rpc, answer>>

\* writeJSON: the answer is written and the function returns.
Write(q, code) == GoTo(q, "done") /\ answer' = [answer EXCEPT ![q] = code]

\* writeError before the handler has done anything.
Refuse(q, code) == Write(q, code) /\ UNCHANGED <<issued, claims, rpc>>

-----------------------------------------------------------------------------

\* middleware: everything but /health and /metrics asks the bucket of the
\* address.
Middleware(q) ==
    /\ pc[q] = "new" /\ kind[q] # "absent"
    /\ IF kind[q] \in Unlimited THEN Pass(q, "serve") /\ UNCHANGED rateVars
       ELSE Ask(q, IPBucket) /\ Pass(q, "ip")
    /\ UNCHANGED hubVars

\* RateAllow returns: only a refusal stops the request, an error, with or
\* without the script having run, does not.
Limited(q, next) ==
    /\ \/ \E allowed \in BOOLEAN : Eval(q, allowed) /\ IF allowed THEN Pass(q, next) ELSE Refuse(q, 429)
       \/ (EvalFails(q) \/ \E allowed \in BOOLEAN : Eval(q, allowed)) /\ Pass(q, next)
    /\ UNCHANGED hubVars

\* requireAuth up to RateAllow, for the routes that have it.
RequireAuth(q) ==
    /\ pc[q] = "auth"
    /\ \/ kind[q] \in Public /\ Pass(q, "serve") /\ UNCHANGED rateVars
       \/ kind[q] \notin Public /\ Refuse(q, 401) /\ UNCHANGED rateVars
       \/ /\ kind[q] \notin Public
          /\ \E tok \in issued :
               /\ Verify(tok, now)
               /\ IF ~RequireRole(tok, Routes[kind[q]]) THEN Refuse(q, 403) /\ UNCHANGED rateVars
                  ELSE /\ claims' = [claims EXCEPT ![q] = tok]
                       /\ Ask(q, UserBucket) /\ GoTo(q, "user")
                       /\ UNCHANGED <<issued, rpc, answer>>
    /\ UNCHANGED hubVars

-----------------------------------------------------------------------------
(* The handlers.                                                           *)

\* The RPC returns, and its outcome is written.
Call(q, code, failed) ==
    /\ \/ rpc' = [rpc EXCEPT ![q] = "ok"] /\ Write(q, code)
       \/ rpc' = [rpc EXCEPT ![q] = "error"] /\ Write(q, failed)
    /\ UNCHANGED <<issued, claims>>

\* Decode fails.
BadRequest(q) == Refuse(q, 400)

\* Any email will do, and a role the gateway does not know is USER.
handleLogin(q) ==
    \/ BadRequest(q) \/ Refuse(q, 500)
    \/ \E role \in Role : Issue(role, now) /\ Write(q, 200) /\ UNCHANGED <<claims, rpc>>

handleRegisterDriver(q) == BadRequest(q) \/ Call(q, 201, 500)

handleDriverStatus(q) == BadRequest(q) \/ Call(q, 200, 422)

\* The location service may turn an old position down.
handleDriverLocation(q) == BadRequest(q) \/ \E code \in {200, 409} : Call(q, code, 500)

handleCreateRide(q) == BadRequest(q) \/ Call(q, 201, 500)

handleGetRide(q) == Call(q, 200, 404)

\* A body that does not decode is taken for one without a reason.
handleCancelRide(q) == Call(q, 200, 422)

handleNearbyDrivers(q) == Call(q, 200, 500)

handleReady(q) == \E code \in {200, 503} : Refuse(q, code)
handleHealth(q) == Refuse(q, 200)
handleMetrics(q) == Refuse(q, 404)

\* ServeWS upgrades and waits for the hub; an upgrade that fails has written an
\* error, here 400.
handleWS(q) ==
    \/ ServeWS(q) /\ Pass(q, "register")
    \/ Refuse(q, 400) /\ UNCHANGED hubVars

Serve(q) ==
    \/ kind[q] = "login" /\ handleLogin(q)
    \/ kind[q] = "drivers" /\ handleRegisterDriver(q)
    \/ kind[q] = "status" /\ handleDriverStatus(q)
    \/ kind[q] = "location" /\ handleDriverLocation(q)
    \/ kind[q] = "rides" /\ handleCreateRide(q)
    \/ kind[q] = "ride" /\ handleGetRide(q)
    \/ kind[q] = "cancel" /\ handleCancelRide(q)
    \/ kind[q] = "nearby" /\ handleNearbyDrivers(q)
    \/ kind[q] = "ready" /\ handleReady(q)
    \/ kind[q] = "health" /\ handleHealth(q)
    \/ kind[q] = "metrics" /\ handleMetrics(q)

Handler(q) ==
    /\ pc[q] = "serve" /\ UNCHANGED rateVars
    /\ \/ Serve(q) /\ UNCHANGED hubVars
       \/ q \in ws /\ handleWS(q)

\* The hub takes the client, and ServeWS returns.
Register(q) ==
    /\ pc[q] = "register" /\ HubRegister(q)
    /\ Pass(q, "done") /\ UNCHANGED rateVars

-----------------------------------------------------------------------------

RequestStep(q) ==
    \/ pc[q] = "ip" /\ Limited(q, "auth")
    \/ RequireAuth(q)
    \/ pc[q] = "user" /\ Limited(q, "serve")
    \/ Handler(q) \/ Register(q)

ReaderStep(c) ==
    /\ readPump(c) \/ HubUnregister(c)
    /\ UNCHANGED <<rateVars, requestVars>>

WriterStep(c) ==
    /\ WriteMessage(c) \/ WriteClose(c)
    /\ UNCHANGED <<rateVars, requestVars>>

HubOnly ==
    /\ ws # {}  \* with no connection the hub has nothing to do
    /\ \/ \E type \in Types : Broadcast(type)
       \/ \E u \in Users, types \in SubChoices : SetSubs(u, types)
       \/ HubFanOut
       \/ \E c \in Clients : PeerGone(c) \/ PingFails(c)
    /\ UNCHANGED <<rateVars, requestVars>>

\* The clock stands still while the hub is looked at.
RateOnly ==
    /\ \/ ws = {} /\ now < MaxTime /\ Advance
       \/ ws = {} /\ StartWindow
       \/ \E b \in Buckets : ExpireBucket(b)
    /\ UNCHANGED <<hubVars, requestVars>>

Next ==
    \/ \E q \in Callers : Middleware(q) \/ RequestStep(q)
    \/ \E c \in Clients : ReaderStep(c) \/ WriterStep(c)
    \/ HubOnly \/ RateOnly

Spec == Init /\ [][Next]_vars

\* The goroutines of requests and pumps run.  One that waits for the hub is
\* served, since select chooses among the ready cases at random.
FairSpec ==
    /\ Spec
    /\ \A q \in Callers : WF_vars(RequestStep(q))
    /\ \A c \in Clients : WF_vars(ReaderStep(c)) /\ WF_vars(WriterStep(c))

-----------------------------------------------------------------------------

\* What acts on behalf of a request acts for somebody entitled to it: an RPC is
\* made and a connection opened only with claims in the context that came from
\* a token issued by a login, for a role the route allows, and alive when the
\* bucket of the user was asked.  And a client that is told 400, 401, 403 or 429
\* may send the request again: no RPC was made for it.
OnlyEntitledAct ==
    \A q \in Callers :
        /\ rpc[q] # "none" \/ pc[q] \in {"user", "register"} \/ (q \in Clients /\ conn[q] # "none") =>
              claims[q] \in issued /\ claims[q].role \in Routes[kind[q]]
        /\ pc[q] = "user" => at[q] < claims[q].exp
        /\ rpc[q] # "none" => answer[q] \notin {400, 401, 403, 429}

\* Every request that got past the clock reading of its first bucket is
\* answered, whatever Redis does, and one that has become a WebSocket is known
\* to the hub before ServeWS returns.
Answered == \A q \in Callers : []<>(pc[q] \in {"new", "done"})
=============================================================================
