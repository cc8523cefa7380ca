---------------------------- MODULE HttpPipeline ----------------------------
(***************************************************************************)
(* The way of an HTTP request through the application main.py assembles:   *)
(* the middleware of api/middleware.py, the route with the limiter of its  *)
(* client's address, and the error handlers of api/error_handlers.py.      *)
(*                                                                         *)
(* add_middleware() puts each new layer outside the others, so a request   *)
(* meets the security headers (if they are enabled), then the body limit,  *)
(* the request id, the compression and CORS.  The compression changes      *)
(* nothing a property is about.  The first three run the next layer in a   *)
(* task with a copy of their context: what is set is seen inside and not   *)
(* outside.  Handlers of DocsiferError and RequestValidationError and the  *)
(* framework's own one of HTTPException run inside all layers; the one of  *)
(* Exception runs in the server's layer, outside.                          *)
(***************************************************************************)
EXTENDS PerIPLimiter

CONSTANTS
  SentId,   \* SentId[r]: the X-Request-ID that came with r, or NoId
  FreshId,  \* FreshId[r]: what token_hex() returns for r
  NoId,
  NoField,  \* the body has no field "request_id"
  Raised,   \* the typed errors a handler may raise
  Unrouted, \* the statuses of the framework's own refusals
  enable_security_headers

\* The status of each typed error some code raises.
Status ==
  [InvalidInputError |-> 400, PayloadTooLargeError |-> 413,
   UnsupportedFormatError |-> 415, ValidationError |-> 422,
   RequestValidationError |-> 422, TooManyRequestsError |-> 429,
   ResourceExhaustedError |-> 503, QueueFullError |-> 503]

FormErrors == {"InvalidInputError", "ValidationError", "RequestValidationError"}
ConversionErrors == {"InvalidInputError", "PayloadTooLargeError",
  "UnsupportedFormatError", "ResourceExhaustedError", "QueueFullError"}

rid(r) == IF SentId[r] # NoId THEN SentId[r] ELSE FreshId[r]

ASSUME PipelineAssumption ==
  /\ \A r \in Request : FreshId[r] # NoId /\ r \in DOMAIN SentId
  /\ Raised \subseteq DOMAIN Status /\ Unrouted \subseteq {400, 404, 405}
  /\ NoField # NoId /\ \A r \in Request : NoField # rid(r)
  /\ enable_security_headers \in BOOLEAN

VARIABLES
  place,   \* place[r]: the layer r is in
  ctx,     \* ctx[r]: request_id_var in the tasks outside, in and inside the
           \* layer of the request id
  result,  \* result[r]: the response that travels outwards
  thrown   \* the requests out of which an exception travels instead

pipeline == <<place, ctx, result, thrown>>
httpVars == <<pipeline, vars>>

\* client_ip_dep(): the first forwarded address, or the proxy's word, or the peer.
client_ip(headers, peer) ==
  IF headers.forwarded # <<>> THEN headers.forwarded[1]
  ELSE IF headers.real # <<>> THEN headers.real[1] ELSE peer

\* Mutant: status and id in the wrong order.
ResponseSwapped(status, id) ==
  [status |-> id, body |-> status, header |-> NoId, secured |-> FALSE]

Response(status, id) ==
  [status |-> status, body |-> id, header |-> NoId, secured |-> FALSE]

NoResult == Response(0, NoField)

Moves(r, layer) == place' = [place EXCEPT ![r] = layer]
Responds(r, status, id) ==
  result' = [result EXCEPT ![r] = Response(status, id)]

HttpInit ==
  /\ Init
  /\ place = [r \in Request |-> "arriving"]
  /\ ctx = [r \in Request |-> [outside |-> NoId, own |-> NoId, inside |-> NoId]]
  /\ result = [r \in Request |-> NoResult] /\ thrown = {}

-----------------------------------------------------------------------------
(* Inwards.                                                                *)

\* Mutant: the limit outside the security headers, as its comment has it.
LimitOutside(r) ==
  /\ place[r] = "arriving"
  /\ \/ /\ Responds(r, Status.PayloadTooLargeError, ctx[r].outside)
        /\ Moves(r, "answered")
     \/ Moves(r, "limited") /\ UNCHANGED result
  /\ UNCHANGED <<ctx, thrown, vars>>

\* A Content-Length beyond the limit is answered here; one that is missing or
\* no number passes.
BodyLimit(r) ==
  /\ place[r] = "arriving"
  /\ \/ /\ Responds(r, Status.PayloadTooLargeError, ctx[r].outside)
        /\ Moves(r, "securing")
     \/ Moves(r, "limited") /\ UNCHANGED result
  /\ UNCHANGED <<ctx, thrown, vars>>

\* Mutant: the id in a variable of the module instead of a ContextVar.
SetGlobalId(r) ==
  /\ place[r] = "limited" /\ Moves(r, "identified")
  /\ ctx' = [q \in Request |->
               [outside |-> rid(r), own |-> rid(r), inside |-> rid(r)]]
  /\ UNCHANGED <<result, thrown, vars>>

SetId(r) ==
  /\ place[r] = "limited" /\ Moves(r, "identified")
  /\ ctx' = [ctx EXCEPT ![r] =
               [outside |-> @.outside, own |-> rid(r), inside |-> rid(r)]]
  /\ UNCHANGED <<result, thrown, vars>>

\* A preflight is answered here, whether its origin is allowed or not.
Cors(r) ==
  /\ place[r] = "identified"
  /\ \/ /\ \E status \in {200, 400} : Responds(r, status, NoField)
        /\ Moves(r, "leaving")
     \/ Moves(r, "routing") /\ UNCHANGED result
  /\ UNCHANGED <<ctx, thrown, vars>>

\* The handlers of typed errors name the request they find in their context.
Fails(r, error) ==
  Responds(r, Status[error], ctx[r].inside) /\ Moves(r, "leaving")

\* No route, another method, or a form that cannot be parsed: an HTTPException of
\* the framework, for which _http_exception_handler() is not registered.
RefuseUnrouted(r) ==
  /\ place[r] = "routing"
  /\ \E status \in Unrouted : Responds(r, status, NoField)
  /\ Moves(r, "leaving")
  /\ UNCHANGED <<ctx, thrown, vars>>

\* healthz and readyz, which answers 200 also when the analytics are degraded,
\* and /stats.
Probe(r) ==
  /\ place[r] = "routing"
  /\ Responds(r, 200, NoField) /\ Moves(r, "leaving")
  /\ UNCHANGED <<ctx, thrown, vars>>

\* Errors in the forms are found before the limiter is asked.
RejectForm(r) ==
  /\ place[r] = "routing"
  /\ \E e \in Raised \cap FormErrors : Fails(r, e)
  /\ UNCHANGED <<ctx, thrown, vars>>

Admit(r) ==
  /\ place[r] = "routing" /\ Enter(r) /\ Moves(r, "converting")
  /\ UNCHANGED <<ctx, result, thrown>>

Reject(r) ==
  /\ place[r] = "routing" /\ Refuse(r) /\ Fails(r, "TooManyRequestsError")
  /\ UNCHANGED <<ctx, thrown>>

-----------------------------------------------------------------------------
(* Outwards.                                                               *)

\* The conversion ends: with a result, a typed error, or an exception no typed
\* handler knows; the timeout of wait_for() is one of these.
Convert(r) ==
  /\ place[r] = "converting" /\ Leave(r)
  /\ \/ Responds(r, 200, NoField) /\ Moves(r, "leaving") /\ UNCHANGED thrown
     \/ \E e \in Raised \cap ConversionErrors : Fails(r, e) /\ UNCHANGED thrown
     \/ thrown' = thrown \cup {r} /\ Moves(r, "leaving") /\ UNCHANGED result
  /\ UNCHANGED ctx

\* The variable is reset in any case; only a response gets the header.
ResetId(r) ==
  /\ place[r] = "leaving" /\ Moves(r, "securing")
  /\ ctx' = [ctx EXCEPT ![r].own = NoId]
  /\ result' = IF r \in thrown THEN result
               ELSE [result EXCEPT ![r].header = rid(r)]
  /\ UNCHANGED <<thrown, vars>>

Secure(r) ==
  /\ place[r] = "securing" /\ r \notin thrown /\ Moves(r, "answered")
  /\ result' = [result EXCEPT ![r].secured = enable_security_headers]
  /\ UNCHANGED <<ctx, thrown, vars>>

\* _fallback_handler(), called by the layer outside all middleware.
Fallback(r) ==
  /\ place[r] = "securing" /\ r \in thrown /\ Moves(r, "answered")
  /\ Responds(r, 500, ctx[r].outside)
  /\ UNCHANGED <<ctx, thrown, vars>>

HttpNext ==
  \/ \E r \in Request : \/ BodyLimit(r) \/ SetId(r) \/ Cors(r)
                        \/ RefuseUnrouted(r) \/ Probe(r) \/ RejectForm(r)
                        \/ Admit(r) \/ Reject(r) \/ Convert(r)
                        \/ ResetId(r) \/ Secure(r) \/ Fallback(r)
  \/ Tick /\ UNCHANGED pipeline

HttpSpec == HttpInit /\ [][HttpNext]_httpVars

-----------------------------------------------------------------------------
(* What clients can rely on.                                               *)

Ids == {NoId} \cup {rid(r) : r \in Request}

HttpTypeOK ==
  /\ place \in [Request -> {"arriving", "limited", "identified", "routing",
                            "converting", "leaving", "securing", "answered"}]
  /\ ctx \in [Request -> [outside : Ids, own : Ids, inside : Ids]]
  /\ result \in [Request -> [status : Nat, body : Ids \cup {NoField},
                             header : Ids, secured : BOOLEAN]]
  /\ thrown \subseteq Request

Answered == {r \in Request : place[r] = "answered"}

\* Requests that interleave in one process are never told each other's id: the
\* header has the request's own id or is absent, and an answer whose body has a
\* field for the id agrees there with its header.
IdsAgree ==
  \A r \in Answered :
    /\ result[r].header \in {rid(r), NoId}
    /\ result[r].body # NoField => result[r].body = result[r].header

\* Where security headers are enabled, an answer has them whatever layer it comes
\* from, the early refusal of a large body and of a preflight included; only
\* unhandled exceptions miss them.
SecuredUnlessUnhandled ==
  enable_security_headers =>
    \A r \in Answered : result[r].secured \/ r \in thrown

-----------------------------------------------------------------------------
(* What the documents say and the code does not do.                        *)

\* "500 errors echoed `str(exception)` to clients -- now generic with
\* `request_id` in the response".
UnhandledNamesItself ==
  \A r \in Answered : result[r].status = 500 => result[r].body = rid(r)
=============================================================================
