------------------------------ MODULE ProxyProofs ------------------------------
(***************************************************************************)
(* What holds of a proxied request for any limits on its bodies.           *)
(***************************************************************************)
EXTENDS ProxyRequest, TLAPS

BeforeCall == {"unconfigured", "listening", "context", "body", "policy", "provider", "url",
               "auth", "encoded"}
Calling == {"fetch", "reading"}

\* Nothing is sent, timed or received before the call; a call holds its
\* timer, a measured body and no more of the reply than it may.
CallInv ==
  /\ phase \in BeforeCall \union Calling \union {"answered"}
  /\ config \in Configs /\ surface \in {"web", "node"} /\ method \in Methods \union {"TRACE"}
  /\ body \in 0..Largest /\ got \in 0..Largest /\ reply \in Replies \union {0}
  /\ sent \in BOOLEAN
  /\ phase \in BeforeCall =>
       /\ ~sent /\ timer = "off" /\ reply = 0 /\ got = 0
       /\ surface = "web" /\ phase # "encoded" => body <= MaxRequest
  /\ phase \in Calling =>
       /\ sent /\ timer \in {"armed", "fired"} /\ body <= MaxRequest
       /\ phase = "fetch" => reply = 0 /\ got = 0
       /\ phase = "reading" => reply \in Replies
  /\ got <= (IF reply = 200 THEN MaxResponse ELSE MaxError)

AnswerInv ==
  /\ phase \in BeforeCall \union Calling => answer = Unanswered
  /\ phase = "answered" =>
       /\ timer \in {"off", "fired"} /\ (sent => body <= MaxRequest)
       /\ answer.code # "none"
       /\ ~answer.own => (sent <=> answer.code \notin Unsent)
       /\ ~answer.own /\ answer.code = "HTTP_ERROR" =>
            answer.status = IF reply = 302 THEN 502 ELSE reply
       /\ answer.code = "OK" => ~answer.own /\ sent /\ reply = 200 /\ answer.status = 200
       /\ answer.code # "OK" => answer.status \in 400..599

ProxyInv == CallInv /\ AnswerInv

LEMMA InitProxy == ProxyInit => ProxyInv
<1> SUFFICES ASSUME ProxyInit PROVE ProxyInv
  OBVIOUS
<1>1. config \in Configs
  BY DEF ProxyInit, Configs
<1>2. CallInv
  <2>1. /\ phase = "unconfigured" /\ surface = "web" /\ method = "GET" /\ timer = "off"
        /\ body = 0 /\ reply = 0 /\ got = 0
        /\ sent \in BOOLEAN /\ ~sent
    BY DEF ProxyInit
  <2>2. method \in Methods \union {"TRACE"}
    BY <2>1 DEF Methods
  <2>3. 0 \in 0..Largest /\ MaxRequest \in Nat /\ MaxError \in Nat
    BY ProxyAssumption
  <2> QED
    BY <1>1, <2>1, <2>2, <2>3 DEF CallInv, BeforeCall, Calling
<1>3. AnswerInv
  BY DEF ProxyInit, AnswerInv, BeforeCall, Calling
<1> QED
  BY <1>2, <1>3 DEF ProxyInv

LEMMA StatusOfFailure ==
  ASSUME NEW code, NEW given \in Replies \union {0},
         code = "HTTP_ERROR" => given \in Replies \ {200}
  PROVE  /\ Status(code, given) \in 400..599
         /\ code = "HTTP_ERROR" => Status(code, given) = IF given = 302 THEN 502 ELSE given
  BY DEF Status, Replies

LEMMA StatusPassedOn ==
  ASSUME NEW code \in ErrorCodes, NEW given \in Replies
  PROVE  Status(code, given) \in 400..599
  BY DEF Status, Replies, ErrorCodes

\* The end of a request by an error, before the call or in it.
LEMMA Answered ==
  ASSUME ProxyInv, NEW code, NEW given, NEW own \in BOOLEAN, AnswerError(code, given, own),
         phase \in BeforeCall \union Calling, code \notin {"none", "OK"},
         Status(code, given) \in 400..599,
         ~own => /\ sent <=> code \notin Unsent
                 /\ code = "HTTP_ERROR" =>
                      Status(code, given) = IF reply = 302 THEN 502 ELSE reply
  PROVE  ProxyInv'
<1>1. /\ answer' = [code |-> code, status |-> Status(code, given), own |-> own]
      /\ phase' = "answered" /\ timer' \in {"off", "fired"}
      /\ UNCHANGED <<config, surface, method, body, sent, reply, got>>
  BY DEF AnswerError, request, ProxyInv, CallInv
<1>2. CallInv'
  BY <1>1 DEF ProxyInv, CallInv, BeforeCall, Calling
<1>3. AnswerInv'
  BY <1>1 DEF ProxyInv, CallInv, AnswerInv, BeforeCall, Calling
<1> QED
  BY <1>2, <1>3 DEF ProxyInv

\* A refusal before the call.
LEMMA Refused ==
  ASSUME ProxyInv, NEW code \in Unsent, FailAs(code), phase \in BeforeCall
  PROVE  ProxyInv'
<1>1. /\ Status(code, reply) \in 400..599 /\ code \notin {"HTTP_ERROR", "OK", "none"}
  BY StatusOfFailure DEF ProxyInv, CallInv, Unsent
<1>2. ~sent
  BY DEF ProxyInv, CallInv
<1> QED
  BY <1>1, <1>2, Answered DEF FailAs

\* The end of a call.
LEMMA CallFailed ==
  ASSUME ProxyInv, NEW code, FailAs(code), phase \in Calling,
         code \notin Unsent \union {"none", "OK"},
         code = "HTTP_ERROR" => reply \in Replies \ {200}
  PROVE  ProxyInv'
<1>1. /\ Status(code, reply) \in 400..599
      /\ code = "HTTP_ERROR" => Status(code, reply) = IF reply = 302 THEN 502 ELSE reply
  BY StatusOfFailure DEF ProxyInv, CallInv
<1>2. sent
  BY DEF ProxyInv, CallInv
<1> QED
  BY <1>1, <1>2, Answered DEF FailAs

\* An error of the application's own, wherever it is thrown.
LEMMA PassedOn ==
  ASSUME ProxyInv, PassOn, phase \in BeforeCall \union Calling
  PROVE  ProxyInv'
<1>1. PICK code \in ErrorCodes, given \in Replies : AnswerError(code, given, TRUE)
  BY DEF PassOn
<1>2. Status(code, given) \in 400..599
  BY StatusPassedOn
<1>3. code \notin {"none", "OK"}
  BY DEF ErrorCodes
<1> QED
  BY <1>1, <1>2, <1>3, Answered

\* A step of the handler that goes on.
LEMMA GoesOn ==
  ASSUME ProxyInv, phase \in BeforeCall, NEW next \in BeforeCall, GoTo(next),
         body' \in 0..Largest,
         surface = "web" /\ next # "encoded" => body' <= MaxRequest
  PROVE  ProxyInv'
<1>1. CallInv'
  BY DEF GoTo, request, ProxyInv, CallInv, BeforeCall, Calling
<1>2. AnswerInv'
  BY DEF GoTo, request, ProxyInv, AnswerInv, BeforeCall, Calling
<1> QED
  BY <1>1, <1>2 DEF ProxyInv

LEMMA HandleStep == ASSUME ProxyInv, Handle PROVE ProxyInv'
<1>1. CASE \/ OutsideRoute \/ ContextFails \/ ReadDeclaredTooLong \/ ReadFails \/ NotJson
           \/ MethodRefused \/ TargetMissing \/ PolicyThrows \/ IdentifierRefused
           \/ ProviderMissing \/ UrlRefused \/ QueryRefused \/ AuthFails \/ RequestRefused \/ BodyTooLong
  BY <1>1, Refused, PassedOn
  DEF OutsideRoute, ContextFails, ReadDeclaredTooLong, ReadFails, NotJson,
    MethodRefused, TargetMissing, PolicyThrows, IdentifierRefused, ProviderMissing, UrlRefused, QueryRefused,
    AuthFails, RequestRefused, BodyTooLong, Unsent, BeforeCall
<1>2. CASE ContextResolved \/ ReadEnds \/ ProviderResolved \/ UrlBuilt
  <2>1. \E next \in BeforeCall \ {"encoded"} : GoTo(next) /\ UNCHANGED body
    BY <1>2 DEF ContextResolved, ReadEnds, ProviderResolved, UrlBuilt, Awaited, BeforeCall
  <2>2. /\ phase \in BeforeCall \ {"encoded"} /\ body \in 0..Largest
        /\ surface = "web" => body <= MaxRequest
    BY <1>2 DEF ContextResolved, ReadEnds, ProviderResolved, UrlBuilt, BeforeCall, ProxyInv, CallInv
  <2> QED
    BY <2>1, <2>2, GoesOn
<1>3. CASE ReadChunk
  <2>1. PICK chunk \in 1..(Largest - body) :
          IF body + chunk > MaxRequest THEN FailAs("REQUEST_TOO_LARGE")
          ELSE body' = body + chunk /\ GoTo("body")
    BY <1>3 DEF ReadChunk
  <2>2. phase \in BeforeCall /\ "body" \in BeforeCall /\ body \in 0..Largest
    BY <1>3 DEF ReadChunk, BeforeCall, ProxyInv, CallInv
  <2>3. CASE body + chunk > MaxRequest
    BY <2>1, <2>2, <2>3, Refused DEF Unsent
  <2>4. CASE ~(body + chunk > MaxRequest)
    <3>1. body' \in 0..Largest /\ body' <= MaxRequest
      BY <2>1, <2>2, <2>4, ProxyAssumption
    <3> QED
      BY <2>1, <2>2, <2>4, <3>1, GoesOn
  <2> QED
    BY <2>3, <2>4
<1>4. CASE CheckPolicy
  <2>1. FailAs("BAD_REQUEST") \/ (GoTo("provider") /\ UNCHANGED body)
    BY <1>4 DEF CheckPolicy, Awaited
  <2>2. /\ phase \in BeforeCall \ {"encoded"} /\ body \in 0..Largest
        /\ surface = "web" => body <= MaxRequest
    BY <1>4 DEF CheckPolicy, BeforeCall, ProxyInv, CallInv
  <2> QED
    BY <2>1, <2>2, GoesOn, Refused DEF BeforeCall, Unsent
<1>5. CASE AuthResolved
  <2>1. body' \in 0..Largest
    BY <1>5, ProxyAssumption DEF AuthResolved
  <2> QED
    BY <1>5, <2>1, GoesOn DEF AuthResolved, BeforeCall
<1>6. CASE Send
  BY <1>6 DEF Send, request, ProxyInv, CallInv, AnswerInv, BeforeCall, Calling
<1> QED
  BY <1>1, <1>2, <1>3, <1>4, <1>5, <1>6 DEF Handle

LEMMA UpstreamStep == ASSUME ProxyInv, Upstream \/ Aborted PROVE ProxyInv'
<1>1. CASE FetchFails \/ ReplyDeclaredTooLong \/ ReplyIsError \/ ReplyNotJson \/ Aborted
  <2>1. phase \in Calling /\ (phase = "reading" => reply \in Replies)
    BY <1>1 DEF FetchFails, ReplyDeclaredTooLong, ReplyIsError, ReplyNotJson, Aborted, InFlight,
      Calling, ProxyInv, CallInv
  <2>2. \E code \in {"TIMEOUT", "FETCH_ERROR", "RESPONSE_TOO_LARGE", "INVALID_RESPONSE",
                     "HTTP_ERROR"} :
          \/ FailAs(code) /\ (code = "HTTP_ERROR" => reply # 200 /\ phase = "reading")
          \/ PassOn
    BY <1>1 DEF FetchFails, ReplyDeclaredTooLong, ReplyIsError, ReplyNotJson, Aborted
  <2> QED
    BY <2>1, <2>2, CallFailed, PassedOn DEF Unsent
<1>2. CASE ReplyChunk
  <2>1. PICK chunk \in 1..(Largest - got) :
          IF got + chunk > ReplyLimit THEN FailAs("RESPONSE_TOO_LARGE")
          ELSE got' = got + chunk /\ UNCHANGED <<request, phase, body, sent, reply, timer, answer>>
    BY <1>2 DEF ReplyChunk
  <2>2. phase = "reading" /\ phase \in Calling /\ got \in 0..Largest
    BY <1>2 DEF ReplyChunk, Calling, ProxyInv, CallInv
  <2>3. CASE got + chunk > ReplyLimit
    BY <2>1, <2>2, <2>3, CallFailed DEF Unsent
  <2>4. CASE ~(got + chunk > ReplyLimit)
    <3>1. /\ got' \in 0..Largest
          /\ got' <= (IF reply' = 200 THEN MaxResponse ELSE MaxError)
      BY <2>1, <2>2, <2>4, ProxyAssumption DEF ReplyLimit
    <3> QED
      BY <2>1, <2>2, <2>4, <3>1
      DEF request, ProxyInv, CallInv, AnswerInv, BeforeCall, Calling
  <2> QED
    BY <2>3, <2>4
<1>3. CASE Headers
  BY <1>3, ProxyAssumption
  DEF Headers, request, ProxyInv, CallInv, AnswerInv, BeforeCall, Calling, Replies
<1>4. CASE Succeed
  BY <1>4 DEF Succeed, request, ProxyInv, CallInv, AnswerInv, BeforeCall, Calling, Unsent
<1> QED
  BY <1>1, <1>2, <1>3, <1>4 DEF Upstream

LEMMA NextProxy == ASSUME ProxyInv, [ProxyNext]_proxyVars PROVE ProxyInv'
<1>1. CASE CreateServer
  BY <1>1, ProxyAssumption DEF CreateServer, ProxyInv, CallInv, AnswerInv, BeforeCall, Calling
<1>2. CASE Arrive
  BY <1>2, ProxyAssumption
  DEF Arrive, ProxyInv, CallInv, AnswerInv, BeforeCall, Calling, Methods
<1>3. CASE TimerFires
  BY <1>3 DEF TimerFires, request, ProxyInv, CallInv, AnswerInv, BeforeCall, Calling
<1>4. CASE UNCHANGED proxyVars
  BY <1>4 DEF proxyVars, request, ProxyInv, CallInv, AnswerInv
<1> QED
  BY <1>1, <1>2, <1>3, <1>4, HandleStep, UpstreamStep DEF ProxyNext

\* A call holds a timer up to the last byte of the reply, and nothing else
\* does (client.ts:472, 536).
THEOREM ProxyTypes == ProxySpec => []ProxyTypeOK
<1>1. ProxyInv => ProxyTypeOK
  BY DEF ProxyInv, CallInv, AnswerInv, ProxyTypeOK, InFlight, BeforeCall, Calling, Unanswered
<1> QED
  BY InitProxy, NextProxy, <1>1, PTL DEF ProxySpec

\* Whatever the limits, in which chunks bodies arrive and what lengths they
\* declare, nothing beyond a limit is kept in memory or sent on (proxy.ts:455,
\* client.ts:284).
THEOREM BuffersBounded == ProxySpec => []BuffersAreBounded
<1>1. ProxyInv => BuffersAreBounded
  BY DEF ProxyInv, CallInv, AnswerInv, BuffersAreBounded, BeforeCall, Calling
<1> QED
  BY InitProxy, NextProxy, <1>1, PTL DEF ProxySpec

\* But for the errors the application itself throws, the caller learns from the
\* answer whether its request was sent, and an upstream's status is passed on as it
\* came; the application's errors are passed on as errors (proxy.ts:270,
\* client.ts:517).
THEOREM AnswersTruthful == ProxySpec => []AnswerIsTruthful
<1>1. ProxyInv => AnswerIsTruthful
  BY DEF ProxyInv, AnswerInv, AnswerIsTruthful
<1> QED
  BY InitProxy, NextProxy, <1>1, PTL DEF ProxySpec
===============================================================================
