------------------------------ MODULE ProxyRequest ------------------------------
(***************************************************************************)
(* One request through the TypeScript proxy (server/src/proxy.ts) and its  *)
(* client (server/src/client.ts): from the handler of a web framework or a *)
(* Node one, past the awaits on the application's callbacks, to the        *)
(* upstream call with its timer and its limits, and to the answer.         *)
(* Requests share no state, so one is enough.                              *)
(*                                                                         *)
(* Sizes are in units.  The text of paths, queries and headers is not      *)
(* modelled: a test of it goes either way.                                 *)
(***************************************************************************)
EXTENDS Integers

CONSTANTS
  MaxRequest, MaxResponse, MaxError,  (* the limits on bodies               *)
  Largest                             (* bound on a body, above the limits  *)

ASSUME ProxyAssumption ==
  /\ {MaxRequest, MaxResponse, MaxError} \subseteq 1..(Largest - 1)
  /\ Largest \in Nat

VARIABLES
  config,    (* the policy createApiProxyServer was given                   *)
  phase,     (* the await or the step the request is at                     *)
  surface,   (* "web" or "node"                                             *)
  method,
  body,      (* units of the request's body in memory                       *)
  sent,      (* fetch was called                                            *)
  reply,     (* the upstream's status, 0 before its headers                 *)
  got,       (* units of the reply's body in memory                         *)
  timer,     (* "off", "armed", or "fired": the signal is aborted           *)
  answer     (* [code, status, own]: own, the application threw the error   *)

request == <<config, surface, method>>
proxyVars == <<request, phase, body, sent, reply, got, timer, answer>>

Methods == {"GET", "POST"}
Replies == {200, 302, 404, 503}
Configs ==
  [anyPath : BOOLEAN, callback : BOOLEAN, prefixes : BOOLEAN,
   methods : {{"GET"}, {"POST"}, Methods}]
Unanswered == [code |-> "none", status |-> 0, own |-> FALSE]
ErrorCodes ==
  {"PROVIDER_NOT_FOUND", "FETCH_ERROR", "TIMEOUT", "INVALID_RESPONSE", "BAD_REQUEST",
   "METHOD_NOT_ALLOWED", "BLOCKED_URL", "REQUEST_TOO_LARGE", "RESPONSE_TOO_LARGE", "HTTP_ERROR"}
Unsent ==   \* the errors of a request that was not passed on
  {"BAD_REQUEST", "BLOCKED_URL", "METHOD_NOT_ALLOWED", "PROVIDER_NOT_FOUND",
   "REQUEST_TOO_LARGE", "INTERNAL"}

ProxyInit ==
  /\ config = [anyPath |-> FALSE, callback |-> FALSE, prefixes |-> FALSE, methods |-> Methods]
  /\ phase = "unconfigured" /\ surface = "web" /\ method = "GET"
  /\ body = 0 /\ sent = FALSE /\ reply = 0 /\ got = 0
  /\ timer = "off" /\ answer = Unanswered

\* validateProxyConfig insists on a path policy.
CreateServer ==
  /\ phase = "unconfigured"
  /\ config' \in {c \in Configs : c.anyPath \/ c.callback \/ c.prefixes}
  /\ phase' = "listening"
  /\ UNCHANGED <<surface, method, body, sent, reply, got, timer, answer>>

\* statusFromError; an HTTP error brings the status its thrower gave it.
Status(code, given) ==
  CASE code = "PROVIDER_NOT_FOUND" -> 404
    [] code \in {"BAD_REQUEST", "BLOCKED_URL"} -> 400
    [] code = "METHOD_NOT_ALLOWED" -> 405
    [] code = "REQUEST_TOO_LARGE" -> 413
    [] code = "TIMEOUT" -> 504
    [] code = "HTTP_ERROR" /\ given \in 400..599 -> given
    [] code = "INTERNAL" -> 500
    [] OTHER -> 502

\* Every error becomes an answer; `finally` clears the timer of a call.
AnswerError(code, given, own) ==
  /\ answer' = [code |-> code, status |-> Status(code, given), own |-> own]
  /\ phase' = "answered"
  /\ timer' = IF timer = "armed" THEN "off" ELSE timer
  /\ UNCHANGED <<request, body, sent, reply, got>>

FailAs(code) == AnswerError(code, reply, FALSE)

\* An ApiCliError that the application throws, from a callback or from a stream
\* of its own, keeps its code and its status wherever it is thrown.
PassOn == \E code \in ErrorCodes, given \in Replies : AnswerError(code, given, TRUE)

GoTo(next) ==
  /\ phase' = next
  /\ UNCHANGED <<request, sent, reply, got, timer, answer>>

Awaited(next) == GoTo(next) /\ UNCHANGED body

-----------------------------------------------------------------------------
(* handleWebRequest and handleNodeRequest.                                   *)

\* A Node request comes with its body, whatever its size; it is kept for a
\* method that has one, and an unknown method is read as a GET.
Arrive ==
  /\ phase = "listening"
  /\ surface' \in {"web", "node"}
  /\ method' \in Methods \union {"TRACE"}
  /\ body' \in IF surface' = "node" /\ method' = "POST" THEN 0..Largest ELSE {0}
  /\ phase' = "context"
  /\ UNCHANGED <<config, sent, reply, got, timer, answer>>

\* Only the web handler looks at the route prefix.
OutsideRoute == phase = "context" /\ surface = "web" /\ FailAs("BAD_REQUEST")

\* contextResolver throws, or the Node request has no readable URL.
ContextFails == phase = "context" /\ (FailAs("INTERNAL") \/ PassOn)

ContextResolved ==
  /\ phase = "context"
  /\ Awaited(IF surface = "web" /\ method = "POST" THEN "body" ELSE "policy")

\* readLimitedRequestBody: the declared length, then each chunk.
ReadDeclaredTooLong == phase = "body" /\ body = 0 /\ FailAs("REQUEST_TOO_LARGE")

ReadChunk ==
  /\ phase = "body"
  /\ \E chunk \in 1..(Largest - body) :
       IF body + chunk > MaxRequest THEN FailAs("REQUEST_TOO_LARGE")
       ELSE body' = body + chunk /\ GoTo("body")

ReadFails == phase = "body" /\ (FailAs("INTERNAL") \/ PassOn)

ReadEnds == phase = "body" /\ Awaited("policy")

\* A body whose type says JSON is parsed before the method is looked at.
NotJson ==
  /\ phase = "policy" /\ body > 0
  /\ FailAs("BAD_REQUEST")

-----------------------------------------------------------------------------
(* executeProxy, up to the call.                                             *)

\* The callback and the prefixes, each when it is there, must both agree.
TargetPathAllowed(callbackSays, underPrefix) ==
  \/ config.anyPath
  \/ /\ config.callback => callbackSays
     /\ config.prefixes => underPrefix
     /\ config.callback \/ config.prefixes

MethodRefused ==
  /\ phase = "policy" /\ method \notin config.methods
  /\ FailAs("METHOD_NOT_ALLOWED")

TargetMissing ==
  /\ phase = "policy" /\ method \in config.methods
  /\ FailAs("BAD_REQUEST")

CheckPolicy ==
  /\ phase = "policy" /\ method \in config.methods
  /\ \E callbackSays, underPrefix \in BOOLEAN :
       IF TargetPathAllowed(callbackSays, underPrefix) THEN Awaited("provider")
       ELSE FailAs("BAD_REQUEST")

\* allowTargetPath, when it is asked, throws.
PolicyThrows ==
  /\ phase = "policy" /\ method \in config.methods
  /\ config.callback /\ ~config.anyPath
  /\ FailAs("INTERNAL") \/ PassOn

-----------------------------------------------------------------------------
(* ApiClient.call.                                                           *)

\* validateIdentifier; a body on a bodyless method does not get this far.
IdentifierRefused == phase = "provider" /\ FailAs("BAD_REQUEST")

\* The application's resolver throws, or knows no such provider.
ProviderMissing ==
  /\ phase = "provider"
  /\ FailAs("INTERNAL") \/ FailAs("PROVIDER_NOT_FOUND") \/ PassOn

ProviderResolved == phase = "provider" /\ Awaited("url")

\* normalizeUrl: the provider's base URL or the path under it is refused.
UrlRefused == phase = "url" /\ FailAs("BLOCKED_URL")

\* appendQueryParams
QueryRefused == phase = "url" /\ FailAs("BAD_REQUEST")

UrlBuilt == phase = "url" /\ Awaited("auth")

\* Whatever the auth adapter throws is a bad request.
AuthFails == phase = "auth" /\ FailAs("BAD_REQUEST")

\* JSON that was parsed is written anew, and need not keep its length.
AuthResolved ==
  /\ phase = "auth"
  /\ body' \in IF body = 0 THEN {0} ELSE 1..Largest
  /\ GoTo("encoded")

\* validateRequestHeaders, a body that cannot be written as JSON or measured, or a
\* timeout out of range; the toJSON of a body may throw an error of its own.
RequestRefused == phase = "encoded" /\ (FailAs("BAD_REQUEST") \/ PassOn)

BodyTooLong == phase = "encoded" /\ body > MaxRequest /\ FailAs("REQUEST_TOO_LARGE")

\* Slip: a body that the framework has parsed is not measured.
SendUnmeasured ==
  /\ phase = "encoded"
  /\ sent' = TRUE /\ timer' = "armed" /\ phase' = "fetch"
  /\ UNCHANGED <<request, body, reply, got, answer>>

Send ==
  /\ phase = "encoded" /\ body <= MaxRequest
  /\ sent' = TRUE /\ timer' = "armed" /\ phase' = "fetch"
  /\ UNCHANGED <<request, body, reply, got, answer>>

\* setTimeout calls controller.abort().
TimerFires ==
  /\ timer = "armed"
  /\ timer' = "fired"
  /\ UNCHANGED <<request, phase, body, sent, reply, got, answer>>

InFlight == phase \in {"fetch", "reading"}

\* fetch, or a read of the reply, rejects on an aborted signal.
Aborted == InFlight /\ timer = "fired" /\ FailAs("TIMEOUT")

\* Slip: errors of a call that was sent are not told from those before it.
FetchFailsUnmarked == InFlight /\ FailAs("INTERNAL")

\* A fetch of the application's own may report an abort of its own making, or throw
\* an ApiCliError, whatever the timer.
FetchFails ==
  /\ InFlight
  /\ FailAs("TIMEOUT") \/ (timer # "fired" /\ FailAs("FETCH_ERROR")) \/ PassOn

\* Slip: the timer covers the headers only.
HeadersStopTimer ==
  /\ phase = "fetch"
  /\ reply' \in Replies
  /\ phase' = "reading" /\ timer' = "off"
  /\ UNCHANGED <<request, body, sent, got, answer>>

Headers ==
  /\ phase = "fetch"
  /\ reply' \in Replies
  /\ phase' = "reading"
  /\ UNCHANGED <<request, body, sent, got, timer, answer>>

ReplyLimit == IF reply = 200 THEN MaxResponse ELSE MaxError

\* readLimitedBody: again the declared length, then each chunk; the
\* reader is cancelled before the error is thrown.
ReplyDeclaredTooLong == phase = "reading" /\ got = 0 /\ FailAs("RESPONSE_TOO_LARGE")

ReplyChunk ==
  /\ phase = "reading"
  /\ \E chunk \in 1..(Largest - got) :
       IF got + chunk > ReplyLimit THEN FailAs("RESPONSE_TOO_LARGE")
       ELSE got' = got + chunk /\ UNCHANGED <<request, phase, body, sent, reply, timer, answer>>

\* An unsuccessful status, redirects included.
ReplyIsError == phase = "reading" /\ reply # 200 /\ FailAs("HTTP_ERROR")

\* parseResponse: JSON was asked for.
ReplyNotJson == phase = "reading" /\ reply = 200 /\ FailAs("INVALID_RESPONSE")

Succeed ==
  /\ phase = "reading" /\ reply = 200
  /\ answer' = [code |-> "OK", status |-> reply, own |-> FALSE]
  /\ phase' = "answered"
  /\ timer' = IF timer = "armed" THEN "off" ELSE timer
  /\ UNCHANGED <<request, body, sent, reply, got>>

Handle ==
  \/ OutsideRoute \/ ContextFails \/ ContextResolved
  \/ ReadDeclaredTooLong \/ ReadChunk \/ ReadFails \/ ReadEnds \/ NotJson
  \/ MethodRefused \/ TargetMissing \/ CheckPolicy \/ PolicyThrows
  \/ IdentifierRefused \/ ProviderMissing \/ ProviderResolved
  \/ UrlRefused \/ QueryRefused \/ UrlBuilt
  \/ AuthFails \/ AuthResolved \/ RequestRefused \/ BodyTooLong \/ Send

Upstream ==
  \/ FetchFails \/ Headers \/ ReplyDeclaredTooLong \/ ReplyChunk
  \/ ReplyIsError \/ ReplyNotJson \/ Succeed

ProxyNext == CreateServer \/ Arrive \/ Handle \/ Upstream \/ TimerFires \/ Aborted

\* The event loop runs timers and rejected promises; nothing is asked of the upstream.
ProxyFairness == WF_proxyVars(TimerFires) /\ WF_proxyVars(Aborted)

ProxySpec == ProxyInit /\ [][ProxyNext]_proxyVars /\ ProxyFairness

-----------------------------------------------------------------------------
(* Properties.                                                               *)

\* The type invariant: the timer of a call lives as long as the call, up to the
\* last byte of the reply, and no longer (client.ts:472, 536).
ProxyTypeOK ==
  /\ config \in Configs /\ surface \in {"web", "node"}
  /\ method \in Methods \union {"TRACE"}
  /\ body \in 0..Largest /\ got \in 0..Largest /\ reply \in Replies \union {0}
  /\ InFlight => timer \in {"armed", "fired"}
  /\ timer = "armed" => InFlight
  /\ phase = "answered" <=> answer # Unanswered

\* What is read into memory or sent on stays within the limits, chunk by chunk
\* and whatever lengths are declared; a body that a Node framework has read, or
\* that grew as it was written anew, is measured before it is sent
\* (proxy.ts:455, client.ts:284, 459).
BuffersAreBounded ==
  /\ sent \/ (surface = "web" /\ phase # "encoded" /\ phase # "answered") =>
       body <= MaxRequest
  /\ got <= (IF reply = 200 THEN MaxResponse ELSE MaxError)

\* Unless the application's own code threw the error, the answer tells the caller
\* whether the request may have been applied: the codes of a refusal are used for
\* nothing that was sent and the others for nothing that was not, and an upstream's
\* error is passed on with its status.  An error of the application's own never
\* passes for a success or for a status that is none of an error (proxy.ts:270,
\* client.ts:517).
AnswerIsTruthful ==
  phase = "answered" =>
    /\ ~answer.own => (sent <=> answer.code \notin Unsent)
    /\ ~answer.own /\ answer.code = "HTTP_ERROR" =>
         answer.status = IF reply = 302 THEN 502 ELSE reply
    /\ answer.code = "OK" => ~answer.own /\ sent /\ reply = 200 /\ answer.status = 200
    /\ answer.code # "OK" => answer.status \in 400..599

\* Once sent, a call is answered though the upstream never answers, trickles or
\* stops halfway (client.ts:472).
CallSettles == sent ~> phase = "answered"
===============================================================================
