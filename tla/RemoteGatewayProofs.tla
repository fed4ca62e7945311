--------------------------- MODULE RemoteGatewayProofs --------------------------
(***************************************************************************)
(* What holds of RemoteGateway for any number of gateways, requests,       *)
(* sessions and subjects, any limits, and any number of faults.            *)
(***************************************************************************)
EXTENDS RemoteGateway, FiniteSetTheorems, TLAPS

(***************************************************************************)
(* The inductive invariant.  A request in progress carries the session it  *)
(* was verified for, or the one it opened, past several awaits.            *)
(***************************************************************************)

\* Stages at which a request has a session: it was verified for it, or opened it.
Verifiable == {"touch", "remove"}
Opening == {"recheck", "bind"}
Holds == Verifiable \cup Opening \cup {"touchNew"}

\* What a handler holds fits where it stands.
Fits(h) ==
  /\ h.stage # "idle" => h.at \in up /\ h.subject \in Subjects
  /\ h.stage \in Holds \cup {"verify"} => h.session \in Sessions
  /\ h.stage = "check" => h.session = None /\ h.kind = "open"
  /\ h.stage = "run" => (h.session = None <=> h.kind = "open")
  /\ h.stage \in {"touch", "touchNew"} => redis
  /\ h.stage = "verify" => h.kind # "open"
  /\ h.stage = "touch" => h.kind # "open"
  /\ h.closing # {} =>
       /\ h.pruned
       /\ h.stage \in IF redis THEN {"check", "recheck", "touch", "touchNew"}
                      ELSE {"check", "recheck", "verify", "bind"}

HandlersFit == \A r \in Requests : Fits(req[r])

\* Only gateways that share Redis are deployed together.
OneUnlessShared == ~redis => \A g, h \in up : g = h

ShapeInv == Shapes /\ HandlersFit /\ OneUnlessShared /\ MaxLag <= now

-------------------------------------------------------------------------------
(* Handlers                                                                *)

USE DEF At, Bound

\* A handler that goes on keeps its request; the others are not touched.
LEMMA GoesOn ==
  ASSUME req \in [Requests -> Handlers], NEW r \in Requests,
         NEW stage \in Stages, GoTo(r, stage)
  PROVE  /\ req' \in [Requests -> Handlers]
         /\ \A q \in Requests \ {r} : req'[q] = req[q]
         /\ req'[r].stage = stage /\ req'[r].at = req[r].at
         /\ req'[r].kind = req[r].kind /\ req'[r].subject = req[r].subject
         /\ req'[r].session = req[r].session
         /\ req'[r].closing = {}
<1> DEFINE h == [req[r] EXCEPT !.stage = stage, !.pruned = FALSE, !.full = FALSE,
                               !.closing = {}]
<1>1. req' = [req EXCEPT ![r] = h]
  BY DEF GoTo
<1>2. /\ h \in Handlers /\ h.stage = stage /\ h.at = req[r].at /\ h.kind = req[r].kind
      /\ h.subject = req[r].subject /\ h.session = req[r].session /\ h.closing = {}
  BY DEF Handlers
<1> HIDE DEF h
<1> QED
  BY <1>1, <1>2

\* A handler that answers is gone.
LEMMA Answers ==
  ASSUME req \in [Requests -> Handlers], NEW r \in Requests, Answer(r)
  PROVE  /\ req' \in [Requests -> Handlers]
         /\ \A q \in Requests \ {r} : req'[q] = req[q]
         /\ req'[r].stage = "idle" /\ req'[r].at = None
         /\ req'[r].session = None /\ req'[r].closing = {}
<1>1. /\ Idle \in Handlers /\ Idle.stage = "idle" /\ Idle.at = None
      /\ Idle.session = None /\ Idle.closing = {}
  BY DEF Idle, Handlers, Stages, Kinds
<1> QED
  BY <1>1 DEF Answer

-------------------------------------------------------------------------------
(* Shapes                                                                  *)

\* What the fastest of the gateways' clocks shows.
Fastest == (now + MaxLead) \div TicksPerSecond

\* A moment lies within the second that is named after it.
LEMMA WithinTheSecond ==
  ASSUME NEW t \in Nat
  PROVE  /\ t \div TicksPerSecond \in Nat
         /\ (t \div TicksPerSecond) * TicksPerSecond <= t
         /\ t < ((t \div TicksPerSecond) + 1) * TicksPerSecond
  BY LimitsAssumption

\* Later moments are in later seconds.
LEMMA SecondsGrow ==
  ASSUME NEW t \in Nat, NEW u \in Nat, t <= u
  PROVE  t \div TicksPerSecond <= u \div TicksPerSecond
<1> DEFINE a == t \div TicksPerSecond
           b == u \div TicksPerSecond
<1>1. TicksPerSecond \in Nat \ {0}
  BY LimitsAssumption
<1>2. /\ a \in Nat /\ a * TicksPerSecond <= t
      /\ b \in Nat /\ u < (b + 1) * TicksPerSecond
  BY WithinTheSecond
<1> HIDE DEF a, b
<1>3. /\ a * TicksPerSecond \in Nat /\ (b + 1) * TicksPerSecond \in Nat
      /\ a * TicksPerSecond < (b + 1) * TicksPerSecond
  BY <1>1, <1>2
<1>4. ASSUME b + 1 <= a PROVE (b + 1) * TicksPerSecond <= a * TicksPerSecond
  BY <1>1, <1>2, <1>4
<1>5. a <= b
  BY <1>2, <1>3, <1>4
<1> QED
  BY <1>5 DEF a, b

\* Times are natural numbers, a TTL is not nothing, and a gateway's clock is no
\* further from Redis's than it may be.
LEMMA Clocks ==
  ASSUME now \in Nat, MaxLag <= now
  PROVE  /\ TtlTicks \in Nat \ {0} /\ KeyExpiry \in Nat /\ Fastest \in Nat
         /\ \A read \in ClockReads :
              /\ read \in Nat /\ read <= Fastest /\ Score(read) \in Nat
              /\ read * TicksPerSecond <= now + MaxLead
              /\ now < (read + 1) * TicksPerSecond + MaxLag
<1>0. TicksPerSecond \in Nat \ {0} /\ Ttl \in Nat \ {0} /\ MaxLag \in Nat /\ MaxLead \in Nat
  BY LimitsAssumption
<1>1. TtlTicks \in Nat \ {0}
  BY <1>0 DEF TtlTicks
<1>2. Fastest \in Nat
  BY <1>0, WithinTheSecond DEF Fastest
<1>3. ASSUME NEW read \in ClockReads
      PROVE  /\ read \in Nat /\ read <= Fastest /\ Score(read) \in Nat
             /\ read * TicksPerSecond <= now + MaxLead
             /\ now < (read + 1) * TicksPerSecond + MaxLag
  <2>1. PICK d \in -MaxLag..MaxLead : read = (now + d) \div TicksPerSecond
    BY DEF ClockReads
  <2>2. d \in Int /\ now + d \in Nat /\ now + d <= now + MaxLead /\ now <= (now + d) + MaxLag
        /\ now + MaxLead \in Nat
    BY <1>0
  <2> DEFINE t == now + d
  <2>3. /\ t \in Nat /\ t <= now + MaxLead /\ now <= t + MaxLag
        /\ read = t \div TicksPerSecond
    BY <2>1, <2>2
  <2> HIDE DEF t
  <2>4. read \in Nat /\ read * TicksPerSecond <= t /\ t < (read + 1) * TicksPerSecond
    BY <2>3, WithinTheSecond
  <2>5. read <= Fastest
    BY <2>2, <2>3, SecondsGrow DEF Fastest
  <2>6. read * TicksPerSecond \in Nat /\ (read + 1) * TicksPerSecond \in Nat
    BY <1>0, <2>4
  <2> QED
    BY <1>0, <2>3, <2>4, <2>5, <2>6 DEF Score
<1> QED
  BY <1>0, <1>1, <1>2, <1>3 DEF KeyExpiry

\* A handler without a request fits.
LEMMA IdleFits == Idle \in Handlers /\ Fits(Idle)
  BY DEF Idle, Handlers, Stages, Kinds, Fits, Holds, Verifiable, Opening

\* The gateways start well formed.
LEMMA InitShapes == Init => ShapeInv
<1> SUFFICES ASSUME Init PROVE ShapeInv
  OBVIOUS
<1>1. Shapes
  BY IdleFits, LimitsAssumption DEF Init, Shapes
<1>2. HandlersFit
  BY IdleFits DEF Init, HandlersFit
<1>3. OneUnlessShared
  BY DEF Init, OneUnlessShared
<1>4. MaxLag <= now
  BY LimitsAssumption DEF Init
<1> QED
  BY <1>1, <1>2, <1>3, <1>4 DEF ShapeInv

\* One handler moves on.
LEMMA HandlerMoves ==
  ASSUME ShapeInv, UNCHANGED deployment, NEW r \in Requests, NEW h \in Handlers, Fits(h),
         req' = [req EXCEPT ![r] = h]
  PROVE  req' \in [Requests -> Handlers] /\ HandlersFit'
<1>1. \A g \in Handlers : Fits(g) => Fits(g)'
  BY DEF deployment, Fits
<1> QED
  BY <1>1 DEF ShapeInv, Shapes, HandlersFit, deployment, Fits

\* With nothing to close, a handler fits wherever its session does.
LEMMA GoingOnFits ==
  ASSUME ShapeInv, UNCHANGED deployment, NEW r \in Requests, NEW stage \in Stages,
         GoTo(r, stage),
         req[r].stage # "idle",
         stage \in Holds => req[r].session \in Sessions,
         stage \notin {"idle", "check", "verify"},
         stage = "run" => (req[r].session = None <=> req[r].kind = "open"),
         stage = "touch" => req[r].kind # "open",
         stage \in {"touch", "touchNew"} => redis
  PROVE  req' \in [Requests -> Handlers] /\ HandlersFit'
<1> DEFINE h == [req[r] EXCEPT !.stage = stage, !.pruned = FALSE, !.full = FALSE,
                               !.closing = {}]
<1>1. req' = [req EXCEPT ![r] = h]
  BY DEF GoTo
<1>2. req[r] \in Handlers /\ Fits(req[r])
  BY DEF ShapeInv, Shapes, HandlersFit
<1>3. /\ h \in Handlers /\ h.stage = stage /\ h.at = req[r].at /\ h.kind = req[r].kind
      /\ h.subject = req[r].subject /\ h.session = req[r].session /\ h.closing = {}
  BY <1>2 DEF Handlers
<1> HIDE DEF h
<1>4. Fits(h)
  BY <1>2, <1>3 DEF Fits
<1> QED
  BY <1>1, <1>3, <1>4, HandlerMoves

\* A handler that answers fits.
LEMMA AnsweringFits ==
  ASSUME ShapeInv, UNCHANGED deployment, NEW r \in Requests, Answer(r)
  PROVE  req' \in [Requests -> Handlers] /\ HandlersFit'
  BY IdleFits, HandlerMoves DEF Answer

\* Every step leaves each handler holding what fits where it stands.
LEMMA NextHandlers ==
  ShapeInv /\ [Next]_vars => req' \in [Requests -> Handlers] /\ HandlersFit'
<1> SUFFICES ASSUME ShapeInv, [Next]_vars PROVE req' \in [Requests -> Handlers] /\ HandlersFit'
  OBVIOUS
<1> DEFINE Moved == req' \in [Requests -> Handlers] /\ HandlersFit'
<1>0. /\ req \in [Requests -> Handlers] /\ \A r \in Requests : Fits(req[r])
      /\ up \subseteq Gateways
  BY DEF ShapeInv, Shapes, HandlersFit
<1>1. ASSUME NEW r \in Requests, NEW g \in Gateways, Admit(r, g) PROVE Moved
  <2>1. g \in up /\ UNCHANGED deployment
    BY <1>1 DEF Admit
  <2>2. PICK who \in Subjects :
          LET begun == [Idle EXCEPT !.at = g, !.subject = who] IN
          \/ req' = [req EXCEPT ![r] = [begun EXCEPT !.stage = "check"]]
          \/ \E kind \in {"call", "delete"}, s \in Sessions :
                req' = [req EXCEPT ![r] =
                  [begun EXCEPT !.stage = "verify", !.kind = kind, !.session = s]]
    BY <1>1 DEF Admit, Introspected
  <2> DEFINE begun == [Idle EXCEPT !.at = g, !.subject = who]
  <2>3. /\ begun \in Handlers /\ begun.at = g /\ begun.subject = who /\ begun.kind = "open"
        /\ begun.session = None /\ begun.closing = {}
    BY <1>0, <2>1 DEF Idle, Handlers, Stages, Kinds
  <2> HIDE DEF begun
  <2>4. CASE req' = [req EXCEPT ![r] = [begun EXCEPT !.stage = "check"]]
    <3> DEFINE h == [begun EXCEPT !.stage = "check"]
    <3>1. /\ h \in Handlers /\ h.stage = "check" /\ h.at = g /\ h.subject = who
          /\ h.kind = "open" /\ h.session = None /\ h.closing = {}
      BY <2>3 DEF Handlers, Stages
    <3> HIDE DEF h
    <3>2. Fits(h)
      BY <2>1, <3>1 DEF Fits, Holds, Verifiable, Opening
    <3> QED
      BY <2>1, <2>4, <3>1, <3>2, HandlerMoves DEF h
  <2>5. ASSUME NEW kind \in {"call", "delete"}, NEW s \in Sessions,
               req' = [req EXCEPT ![r] =
                 [begun EXCEPT !.stage = "verify", !.kind = kind, !.session = s]]
        PROVE  Moved
    <3> DEFINE h == [begun EXCEPT !.stage = "verify", !.kind = kind, !.session = s]
    <3>1. /\ h \in Handlers /\ h.stage = "verify" /\ h.at = g /\ h.subject = who
          /\ h.kind = kind /\ h.session = s /\ h.closing = {}
      BY <2>3 DEF Handlers, Stages, Kinds
    <3> HIDE DEF h
    <3>2. Fits(h)
      BY <2>1, <3>1 DEF Fits, Holds, Verifiable, Opening
    <3> QED
      BY <2>1, <2>5, <3>1, <3>2, HandlerMoves DEF h
  <2> QED
    BY <2>2, <2>4, <2>5 DEF begun
<1>2. ASSUME NEW r \in Requests, Prune(r) PROVE Moved
  <2> DEFINE full == Cardinality(Bound(At(r)) \ Expired(At(r))) >= MaxSessions
             h == [req[r] EXCEPT !.pruned = TRUE, !.closing = Expired(At(r)), !.full = full]
  <2>1. req' = [req EXCEPT ![r] = h] /\ Prunes(r) /\ UNCHANGED deployment
    BY <1>2 DEF Prune
  <2>2. full \in BOOLEAN /\ Expired(At(r)) \subseteq Sessions
    BY DEF Expired
  <2> HIDE DEF full
  <2>3. /\ h \in Handlers /\ h.stage = req[r].stage /\ h.at = req[r].at
        /\ h.kind = req[r].kind /\ h.subject = req[r].subject
        /\ h.session = req[r].session /\ h.pruned
    BY <1>0, <2>2 DEF Handlers
  <2> HIDE DEF h
  <2>4. Fits(h)
    BY <1>0, <2>1, <2>3 DEF Fits, Prunes
  <2> QED
    BY <2>1, <2>3, <2>4, HandlerMoves
<1>3. ASSUME NEW r \in Requests, CloseExpired(r) PROVE Moved
  <2>1. PICK s \in req[r].closing : req' = [req EXCEPT ![r].closing = @ \ {s}]
    BY <1>3 DEF CloseExpired
  <2> DEFINE h == [req[r] EXCEPT !.closing = @ \ {s}]
  <2>2. req' = [req EXCEPT ![r] = h] /\ UNCHANGED deployment
    BY <1>0, <1>3, <2>1 DEF CloseExpired
  <2>3. /\ h \in Handlers /\ h.stage = req[r].stage /\ h.at = req[r].at
        /\ h.kind = req[r].kind /\ h.subject = req[r].subject
        /\ h.session = req[r].session /\ h.pruned = req[r].pruned
        /\ h.closing = req[r].closing \ {s}
    BY <1>0 DEF Handlers
  <2> HIDE DEF h
  <2>4. Fits(h)
    BY <1>0, <2>1, <2>3 DEF Fits
  <2> QED
    BY <2>2, <2>3, <2>4, HandlerMoves
<1> USE DEF deployment, Ready
<1>4. ASSUME NEW r \in Requests, VerifyLocal(r) \/ VerifyShared(r) \/ VerifyFails(r) PROVE Moved
  <2>1. UNCHANGED deployment /\ req[r].stage = "verify"
    BY <1>4 DEF VerifyLocal, VerifyShared, VerifyFails, RedisFails
  <2>2. Answer(r) \/ GoTo(r, "run") \/ (redis /\ GoTo(r, "touch"))
    <3>1. VerifyLocal(r) => Answer(r) \/ GoTo(r, "run")
      BY DEF VerifyLocal
    <3>2. VerifyShared(r) => Answer(r) \/ (redis /\ GoTo(r, "touch"))
      BY DEF VerifyShared
    <3>3. VerifyFails(r) => Answer(r)
      BY DEF VerifyFails
    <3> QED
      BY <1>4, <3>1, <3>2, <3>3
  <2>3. /\ req[r].session \in Sessions /\ req[r].session # None
        /\ req[r].kind # "open"
    BY <1>0, <2>1, LimitsAssumption DEF Fits
  <2>4. CASE Answer(r)
    BY <2>1, <2>4, AnsweringFits
  <2>5. CASE GoTo(r, "run")
    <3> HIDE DEF Moved
    <3> QED
      BY <2>1, <2>3, <2>5, GoingOnFits DEF Stages, Holds, Verifiable, Opening, Moved
  <2>6. CASE redis /\ GoTo(r, "touch")
    BY <2>1, <2>3, <2>6, GoingOnFits DEF Stages, Holds, Verifiable, Opening
  <2> QED
    BY <2>2, <2>4, <2>5, <2>6
<1>5. ASSUME NEW r \in Requests,
             TouchLocal(r) \/ CheckCapacity(r) \/ Recheck(r) \/ CheckFails(r)
      PROVE  Moved
  <2>1. UNCHANGED deployment /\ req[r].stage # "idle"
    BY <1>5 DEF TouchLocal, CheckCapacity, Recheck, CheckFails, RedisFails
  <2>2. CASE Answer(r)
    BY <2>1, <2>2, AnsweringFits
  <2>3. CASE req[r].stage = "touch" /\ GoTo(r, "run")
    <3>1. req[r].session \in Sessions /\ req[r].session # None /\ req[r].kind # "open"
      BY <1>0, <2>3, LimitsAssumption DEF Fits, Holds, Verifiable
    <3> QED
      BY <2>1, <2>3, <3>1, GoingOnFits DEF Stages, Holds, Verifiable, Opening
  <2>4. CASE req[r].stage = "check" /\ GoTo(r, "run")
    <3>1. req[r].session = None /\ req[r].kind = "open"
      BY <1>0, <2>4 DEF Fits
    <3> QED
      BY <2>1, <2>4, <3>1, GoingOnFits DEF Stages, Holds, Verifiable, Opening
  <2>5. CASE req[r].stage = "recheck" /\ GoTo(r, "bind")
    <3>1. req[r].session \in Sessions
      BY <1>0, <2>5 DEF Fits, Holds, Opening
    <3> QED
      BY <2>1, <2>5, <3>1, GoingOnFits DEF Stages, Holds, Verifiable, Opening
  <2> QED
    BY <1>5, <2>2, <2>3, <2>4, <2>5 DEF TouchLocal, CheckCapacity, Recheck, CheckFails
<1>6. ASSUME NEW r \in Requests, Serve(r) \/ EndSession(r) \/ TransportFails(r) PROVE Moved
  BY <1>0, <1>6, GoingOnFits, AnsweringFits
  DEF Serve, EndSession, TransportFails, Fits, Stages, Holds, Verifiable, Opening, Handlers
<1>7. ASSUME NEW r \in Requests, OpenSession(r) PROVE Moved
  <2>1. PICK s \in Sessions :
          req' = [req EXCEPT ![r] = [@ EXCEPT !.stage = "recheck", !.session = s]]
    BY <1>7 DEF OpenSession
  <2> DEFINE h == [req[r] EXCEPT !.stage = "recheck", !.session = s]
  <2>2. req' = [req EXCEPT ![r] = h] /\ UNCHANGED deployment
    BY <1>0, <1>7, <2>1 DEF OpenSession
  <2>3. /\ h \in Handlers /\ h.stage = "recheck" /\ h.at = req[r].at
        /\ h.subject = req[r].subject /\ h.session = s /\ h.closing = req[r].closing
    BY <1>0 DEF Handlers, Stages
  <2>4. req[r].stage = "run" /\ req[r].closing = {}
    BY <1>0, <1>7 DEF OpenSession, Fits
  <2> HIDE DEF h
  <2>5. Fits(h)
    BY <1>0, <2>3, <2>4 DEF Fits, Holds
  <2> QED
    BY <2>2, <2>3, <2>5, HandlerMoves
<1>8. ASSUME NEW r \in Requests, BindLocal(r) \/ BindShared(r) \/ BindFails(r) PROVE Moved
  BY <1>0, <1>8, GoingOnFits, AnsweringFits
  DEF BindLocal, BindShared, BindFails, Fits, Stages, Holds, Verifiable, Opening
<1>9. ASSUME NEW r \in Requests, RemoveBinding(r) \/ RemoveFails(r) \/ Disconnect(r) PROVE Moved
  BY <1>9, AnsweringFits DEF RemoveBinding, RemoveFails, Disconnect
<1>10. ASSUME NEW g \in Gateways, Restart(g) PROVE Moved
  BY <1>0, <1>10, IdleFits DEF Restart, HandlersFit, Fits
<1>11. CASE Tick \/ UNCHANGED vars
  BY <1>0, <1>11 DEF Tick, vars, HandlersFit, Fits
<1> QED
  BY <1>1, <1>2, <1>3, <1>4, <1>5, <1>6, <1>7, <1>8, <1>9, <1>10, <1>11 DEF Next, Step

Bindings == [Sessions -> LocalBindings \cup {None}]

Writes(g, s, b) == bound' = [bound EXCEPT ![g][s] = b]
Touches(g, s) == bound' = [bound EXCEPT ![g][s].seen = now]

\* One binding of one gateway is written.
LEMMA BoundAt ==
  ASSUME bound \in [Gateways -> Bindings], NEW g \in Gateways, NEW s \in Sessions,
         NEW b \in LocalBindings \cup {None}, Writes(g, s, b)
  PROVE  /\ bound' \in [Gateways -> Bindings]
         /\ \A h \in Gateways, q \in Sessions :
              bound'[h][q] = IF h = g /\ q = s THEN b ELSE bound[h][q]
<1> DEFINE f == [bound[g] EXCEPT ![s] = b]
<1>1. bound[g] \in Bindings /\ bound' = [bound EXCEPT ![g] = f]
  BY DEF Writes
<1>2. f \in Bindings /\ \A q \in Sessions : f[q] = IF q = s THEN b ELSE bound[g][q]
  BY <1>1 DEF Bindings
<1> HIDE DEF f
<1> QED
  BY <1>1, <1>2

\* A binding that is there is touched.
LEMMA TouchedAt ==
  ASSUME now \in Nat, bound \in [Gateways -> Bindings], NEW g \in Gateways, NEW s \in Sessions,
         bound[g][s] # None, Touches(g, s)
  PROVE  /\ bound' \in [Gateways -> Bindings]
         /\ \A h \in Gateways, q \in Sessions :
              \/ bound'[h][q] = bound[h][q]
              \/ /\ h = g /\ q = s /\ bound'[h][q] \in LocalBindings
                 /\ bound'[h][q].seen = now
                 /\ bound'[h][q].subject = bound[h][q].subject
<1>1. bound[g][s] \in LocalBindings
  BY DEF Bindings
<1>2. PICK b \in LocalBindings :
        b.seen = now /\ b.subject = bound[g][s].subject /\ Writes(g, s, b)
  <2> DEFINE b == [bound[g][s] EXCEPT !.seen = now]
  <2>1. b \in LocalBindings /\ b.seen = now /\ b.subject = bound[g][s].subject
    BY <1>1 DEF LocalBindings
  <2>2. Writes(g, s, b)
    BY DEF Touches, Writes
  <2> QED
    BY <2>1, <2>2
<1> QED
  BY <1>2, BoundAt

\* What is expired is pruned.
LEMMA PrunedAt ==
  ASSUME bound \in [Gateways -> Bindings], NEW r \in Requests, At(r) \in Gateways, Prune(r)
  PROVE  /\ bound' \in [Gateways -> Bindings]
         /\ \A h \in Gateways, q \in Sessions :
              bound'[h][q] = IF h = At(r) /\ q \in Expired(At(r)) THEN None ELSE bound[h][q]
<1> DEFINE f == [q \in Sessions |-> IF q \in Expired(At(r)) THEN None ELSE bound[At(r)][q]]
<1>1. bound[At(r)] \in Bindings /\ bound' = [bound EXCEPT ![At(r)] = f]
  BY DEF Prune
<1>2. /\ f \in Bindings
      /\ \A q \in Sessions :
           f[q] = IF q \in Expired(At(r)) THEN None ELSE bound[At(r)][q]
  BY <1>1 DEF Bindings
<1> HIDE DEF f
<1> QED
  BY <1>1, <1>2

\* The tables of a state, without its handlers.
Tables ==
  /\ now \in 0..MaxTime
  /\ transport \in [Gateways -> SUBSET Sessions]
  /\ bound \in [Gateways -> Bindings]
  /\ binding \in [Sessions -> SharedBindings \cup {None}]
  /\ stored \in [Sessions -> Nat] /\ active \in [Sessions -> Nat]
  /\ owner \in [Sessions -> Subjects \cup {None}]
  /\ ended \cup revived \subseteq Sessions
  /\ abandoned \subseteq Gateways \X Sessions
  /\ faults \in 0..MaxFaults /\ admitted \in 0..MaxRequests

\* The gateways are deployed once and for all.
LEMMA DeploymentStays == [Next]_vars => redis' = redis /\ up' = up
  BY DEF Next, Step, vars, deployment, Admit, Prune, CloseExpired, VerifyLocal, VerifyShared,
         VerifyFails, TouchLocal, CheckCapacity, Recheck, CheckFails, Serve, OpenSession,
         EndSession, TransportFails, BindLocal, BindShared, BindFails, RemoveBinding,
         RemoveFails, Disconnect, Restart, Tick

\* The clock stands still or ticks.
LEMMA ClockMoves == [Next]_vars => now' = now \/ (Tick /\ now' = now + 1)
  BY DEF Next, Step, vars, Admit, Prune, CloseExpired, VerifyLocal, VerifyShared,
         VerifyFails, TouchLocal, CheckCapacity, Recheck, CheckFails, Serve, OpenSession,
         EndSession, TransportFails, BindLocal, BindShared, BindFails, RemoveBinding,
         RemoveFails, Disconnect, Restart, Tick

\* What the tables hold keeps its shape.
LEMMA NextShapes == ShapeInv /\ [Next]_vars => ShapeInv'
<1> SUFFICES ASSUME ShapeInv, [Next]_vars PROVE ShapeInv'
  OBVIOUS
<1> USE LimitsAssumption DEF deployment, keys, history, bounds, Fault, Tables
<1>0. /\ Tables /\ up \subseteq Gateways
      /\ \A r \in Requests : req[r] \in Handlers /\ Fits(req[r])
  BY DEF ShapeInv, Shapes, HandlersFit, Bindings
<1>1. /\ now \in Nat /\ KeyExpiry \in Nat
      /\ \A read \in ClockReads : Score(read) \in Nat /\ Swept(read) \in [Sessions -> Nat]
  BY <1>0, Clocks DEF Swept, ShapeInv
<1>2. ASSUME NEW r \in Requests, NEW g \in Gateways, Admit(r, g) PROVE Tables'
  <2>1. /\ UNCHANGED <<now, transport, bound, keys, faults, history>>
        /\ admitted < MaxRequests /\ admitted' = admitted + 1
    BY <1>2 DEF Admit
  <2> QED
    BY <1>0, <2>1
<1>3. ASSUME NEW r \in Requests, Prune(r) PROVE Tables'
  <2>1. UNCHANGED <<now, transport, keys, bounds, history>> /\ Prunes(r)
    BY <1>3 DEF Prune
  <2>2. At(r) \in Gateways
    BY <1>0, <2>1 DEF Prunes, Fits
  <2> QED
    BY <1>0, <1>3, <2>1, <2>2, PrunedAt
<1>4. ASSUME NEW r \in Requests, CloseExpired(r) PROVE Tables'
  <2>1. PICK s \in req[r].closing :
          /\ transport' = [transport EXCEPT ![At(r)] = @ \ {s}]
          /\ UNCHANGED <<now, bound, keys, bounds, history>>
    BY <1>4 DEF CloseExpired
  <2>2. transport' \in [Gateways -> SUBSET Sessions]
    BY <1>0, <2>1
  <2> QED
    BY <1>0, <2>1, <2>2
<1>5. ASSUME NEW r \in Requests, VerifyLocal(r) PROVE Tables'
  <2>1. UNCHANGED <<now, transport, keys, bounds, history>>
    BY <1>5 DEF VerifyLocal
  <2>2. CASE bound' = bound
    BY <1>0, <2>1, <2>2
  <2>3. CASE bound[At(r)][req[r].session] # None /\ Touches(At(r), req[r].session)
    <3>1. At(r) \in Gateways /\ req[r].session \in Sessions
      BY <1>0, <1>5 DEF VerifyLocal, Ready, Fits
    <3>2. bound' \in [Gateways -> Bindings]
      BY <1>0, <1>1, <2>3, <3>1, TouchedAt
    <3> QED
      BY <1>0, <2>1, <3>2
  <2> QED
    BY <1>5, <2>2, <2>3 DEF VerifyLocal, Touches
<1>6. ASSUME NEW s \in Sessions, binding[s] # None, NEW read \in ClockReads, Touch(s, read)
      PROVE  /\ binding' \in [Sessions -> SharedBindings \cup {None}]
             /\ stored' \in [Sessions -> Nat] /\ active' \in [Sessions -> Nat]
             /\ revived' \subseteq Sessions
  BY <1>0, <1>1, <1>6 DEF Touch, SharedBindings
<1>7. ASSUME NEW r \in Requests, VerifyShared(r) \/ VerifyFails(r) PROVE Tables'
  <2>1. req[r].stage = "verify" /\ req[r].session \in Sessions
    BY <1>0, <1>7 DEF VerifyShared, VerifyFails, RedisFails, Ready, Fits
  <2> QED
    BY <1>0, <1>6, <1>7, <2>1 DEF VerifyShared, VerifyFails, RedisFails, Verified
<1>8. ASSUME NEW r \in Requests, TouchLocal(r) PROVE Tables'
  <2>1. At(r) \in Gateways /\ req[r].session \in Sessions /\ req[r].subject \in Subjects
    BY <1>0, <1>8 DEF TouchLocal, Ready, Fits, Holds, Verifiable
  <2>2. [subject |-> req[r].subject, seen |-> now] \in LocalBindings
    BY <1>1, <2>1 DEF LocalBindings
  <2>3. UNCHANGED <<now, transport, keys, bounds, history>>
    BY <1>8 DEF TouchLocal
  <2>4. bound' \in [Gateways -> Bindings]
    BY <1>0, <1>8, <2>1, <2>2, BoundAt DEF TouchLocal, Writes
  <2> QED
    BY <1>0, <2>3, <2>4
<1>9. ASSUME NEW r \in Requests, CheckCapacity(r) \/ Recheck(r) PROVE Tables'
  <2>1. active' \in [Sessions -> Nat]
    BY <1>0, <1>1, <1>9 DEF CheckCapacity, Recheck, SweepIfShared
  <2> QED
    BY <1>0, <1>9, <2>1 DEF CheckCapacity, Recheck, CloseSession
<1>10. ASSUME NEW r \in Requests, CheckFails(r) PROVE Tables'
  <2>1. req[r].stage = "recheck" => req[r].at \in Gateways /\ req[r].session \in Sessions
    BY <1>0 DEF Fits, Holds, Opening
  <2>2. active' \in [Sessions -> Nat]
    BY <1>0, <1>1, <1>10 DEF CheckFails, SweepIfShared
  <2> QED
    BY <1>0, <1>10, <2>1, <2>2 DEF CheckFails, RedisFails, Ready
<1>11. ASSUME NEW r \in Requests, Serve(r) PROVE Tables'
  <2>1. req[r].at \in Gateways /\ req[r].session \in Sessions
    BY <1>0, <1>11 DEF Serve, Ready, Fits, Handlers
  <2> QED
    BY <1>0, <1>11, <2>1 DEF Serve
<1>12. ASSUME NEW r \in Requests, OpenSession(r) PROVE Tables'
  <2>1. req[r].subject \in Subjects
    BY <1>0, <1>12 DEF OpenSession, Ready, Fits
  <2>2. PICK s \in Sessions :
          /\ owner' = [owner EXCEPT ![s] = req[r].subject]
          /\ transport' = [transport EXCEPT ![At(r)] = @ \cup {s}]
          /\ stored' = [stored EXCEPT ![s] = KeyExpiry] \/ UNCHANGED stored
          /\ UNCHANGED bounds \/ Fault
          /\ UNCHANGED <<now, bound, binding, active, ended, revived, abandoned>>
    BY <1>12 DEF OpenSession
  <2>3. /\ owner' \in [Sessions -> Subjects \cup {None}]
        /\ transport' \in [Gateways -> SUBSET Sessions]
    BY <1>0, <2>1, <2>2
  <2>4. /\ stored' \in [Sessions -> Nat]
        /\ faults' \in 0..MaxFaults /\ admitted' \in 0..MaxRequests
    BY <1>0, <1>1, <2>2
  <2> QED
    BY <1>0, <2>2, <2>3, <2>4
<1>13. ASSUME NEW r \in Requests, EndSession(r) \/ TransportFails(r) PROVE Tables'
  <2>1. /\ UNCHANGED <<now, bound, history>>
        /\ UNCHANGED bounds \/ Fault
        /\ \/ transport' = [transport EXCEPT ![At(r)] = @ \ {req[r].session}]
           \/ UNCHANGED transport
    BY <1>13 DEF EndSession, TransportFails, CloseSession
  <2>2. /\ binding' \in [Sessions -> SharedBindings \cup {None}]
        /\ stored' \in [Sessions -> Nat] /\ active' \in [Sessions -> Nat]
    BY <1>0, <1>13 DEF EndSession, Erase, TransportFails
  <2>3. /\ transport' \in [Gateways -> SUBSET Sessions]
        /\ faults' \in 0..MaxFaults /\ admitted' \in 0..MaxRequests
    BY <1>0, <2>1
  <2> QED
    BY <1>0, <2>1, <2>2, <2>3
<1>14. ASSUME NEW r \in Requests, BindLocal(r) PROVE Tables'
  <2>1. At(r) \in Gateways /\ req[r].session \in Sessions /\ req[r].subject \in Subjects
    BY <1>0, <1>14 DEF BindLocal, Ready, Fits, Holds, Opening
  <2>2. UNCHANGED <<now, keys, bounds, history>>
    BY <1>14 DEF BindLocal
  <2>3. transport' \in [Gateways -> SUBSET Sessions]
    BY <1>0, <1>14 DEF BindLocal, CloseSession
  <2>4. [subject |-> req[r].subject, seen |-> now] \in LocalBindings
    BY <1>1, <2>1 DEF LocalBindings
  <2>5. bound' \in [Gateways -> Bindings]
    BY <1>0, <1>14, <2>1, <2>4, BoundAt DEF BindLocal, Writes
  <2> QED
    BY <1>0, <2>2, <2>3, <2>5
<1>15. ASSUME NEW r \in Requests, BindShared(r) \/ BindFails(r) PROVE Tables'
  <2>1. req[r].subject \in Subjects
    BY <1>0, <1>15 DEF BindShared, BindFails, RedisFails, Ready, Fits
  <2>2. \A read \in ClockReads : Enrol(r, read) =>
          /\ binding' \in [Sessions -> SharedBindings \cup {None}]
          /\ active' \in [Sessions -> Nat]
    BY <1>0, <1>1, <2>1 DEF Enrol, SharedBindings
  <2> QED
    BY <1>0, <1>15, <2>2 DEF BindShared, BindFails, RedisFails, CloseSession
<1>16. ASSUME NEW r \in Requests, RemoveBinding(r) \/ RemoveFails(r) PROVE Tables'
  <2>1. RemoveBinding(r) => req[r].at \in Gateways /\ req[r].session \in Sessions
    BY <1>0 DEF RemoveBinding, Ready, Fits, Holds, Verifiable
  <2>2. RemoveBinding(r) =>
          /\ UNCHANGED <<now, transport, stored, bounds, owner, revived>>
          /\ ended' = ended \cup {req[r].session}
          /\ abandoned' \subseteq abandoned \cup {<<At(r), req[r].session>>}
    BY DEF RemoveBinding
  <2>3. RemoveBinding(r) =>
          /\ binding' \in [Sessions -> SharedBindings \cup {None}]
          /\ active' \in [Sessions -> Nat]
    BY <1>0, <2>1 DEF RemoveBinding, Unbind
  <2>4. CASE RemoveBinding(r)
    <3>1. Writes(At(r), req[r].session, None)
      BY <2>4 DEF RemoveBinding, RemoveLocal, Writes
    <3>2. bound' \in [Gateways -> Bindings]
      BY <1>0, <2>1, <2>4, <3>1, BoundAt
    <3> QED
      BY <3>2, <1>0, <2>1, <2>2, <2>3, <2>4
  <2>5. CASE RemoveFails(r)
    <3>1. /\ binding' \in [Sessions -> SharedBindings \cup {None}]
          /\ active' \in [Sessions -> Nat]
      BY <1>0, <2>5 DEF RemoveFails, Unbind
    <3> QED
      BY <1>0, <2>5, <3>1 DEF RemoveFails, RedisFails
  <2> QED
    BY <1>16, <2>4, <2>5
<1>17. ASSUME NEW r \in Requests, Disconnect(r) PROVE Tables'
  <2>1. LeftBehind(r) \subseteq Gateways \X Sessions
    <3>1. req[r].stage # "idle"
      BY <1>0, <1>17 DEF Disconnect, Fits
    <3> QED
      BY <1>0, <3>1 DEF LeftBehind, Fits, Holds, Opening, Handlers
  <2> QED
    BY <1>0, <1>17, <2>1 DEF Disconnect
<1>18. ASSUME NEW g \in Gateways, Restart(g) PROVE Tables'
  BY <1>0, <1>18 DEF Restart, Bindings
<1>19. ASSUME Tick PROVE Tables'
  BY <1>0, <1>1, <1>19 DEF Tick
<1>20. ASSUME UNCHANGED vars PROVE Tables'
  BY <1>0, <1>20 DEF vars
<1>21. Tables'
  BY <1>2, <1>3, <1>4, <1>5, <1>7, <1>8, <1>9, <1>10, <1>11, <1>12, <1>13, <1>14, <1>15,
     <1>16, <1>17, <1>18, <1>19, <1>20 DEF Next, Step
<1>22. /\ redis' \in BOOLEAN /\ up' \subseteq Gateways
       /\ OneUnlessShared'
  <2>1. redis' = redis /\ up' = up
    BY DeploymentStays
  <2> QED
    BY <2>1 DEF ShapeInv, Shapes, OneUnlessShared
<1>23. MaxLag <= now'
  <2>1. now' = now \/ now' = now + 1
    BY ClockMoves
  <2> QED
    BY <1>1, <2>1 DEF ShapeInv
<1> QED
  BY <1>21, <1>22, <1>23, NextHandlers DEF ShapeInv, Shapes, Bindings

-------------------------------------------------------------------------------
(* How a handler, a binding or an owner comes to be what it is             *)

SameRequest(r) ==
  /\ req'[r].at = req[r].at /\ req'[r].subject = req[r].subject
  /\ req'[r].kind = req[r].kind /\ req'[r].session = req[r].session

\* The stages that follow one another, verification apart.
Follows == {<<"touch", "run">>, <<"check", "run">>, <<"recheck", "bind">>,
            <<"bind", "touchNew">>, <<"run", "remove">>}

\* A request's step leaves the handlers of the others alone.
LEMMA OthersStay ==
  ASSUME ShapeInv, NEW r \in Requests, NEW q \in Requests, r # q,
         Step(r) \/ Disconnect(r) \/ \E g \in Gateways : Admit(r, g)
  PROVE  req'[q] = req[q]
<1>0. req \in [Requests -> Handlers]
  BY DEF ShapeInv, Shapes
<1>1. Answer(r) \/ (\E stage \in Stages : GoTo(r, stage)) => req'[q] = req[q]
  BY <1>0 DEF Answer, GoTo
<1>2. CASE Prune(r) \/ CloseExpired(r) \/ OpenSession(r) \/ \E g \in Gateways : Admit(r, g)
  BY <1>0, <1>2 DEF Prune, CloseExpired, OpenSession, Admit
<1>3. CASE VerifyLocal(r) \/ VerifyShared(r) \/ VerifyFails(r) \/ TouchLocal(r)
  BY <1>1, <1>3 DEF VerifyLocal, VerifyShared, VerifyFails, TouchLocal, Stages
<1>4. CASE CheckCapacity(r) \/ Recheck(r) \/ CheckFails(r)
  BY <1>1, <1>4 DEF CheckCapacity, Recheck, CheckFails, Stages
<1>5. CASE Serve(r) \/ EndSession(r) \/ TransportFails(r)
  BY <1>1, <1>5 DEF Serve, EndSession, TransportFails, Stages
<1>6. CASE BindLocal(r) \/ BindShared(r) \/ BindFails(r)
  BY <1>1, <1>6 DEF BindLocal, BindShared, BindFails, Stages
<1>7. CASE RemoveBinding(r) \/ RemoveFails(r) \/ Disconnect(r)
  BY <1>1, <1>7 DEF RemoveBinding, RemoveFails, Disconnect
<1> QED
  BY <1>2, <1>3, <1>4, <1>5, <1>6, <1>7 DEF Step

\* How a handler comes to stand where it does.
LEMMA HandlerSteps ==
  ASSUME ShapeInv, [Next]_vars, NEW q \in Requests, req'[q].stage # "idle"
  PROVE  \/ req'[q].stage = req[q].stage /\ SameRequest(q)
         \/ req[q].stage = "idle" /\ req'[q].stage \in {"verify", "check"}
         \/ /\ req[q].stage = "verify" /\ (VerifyLocal(q) \/ VerifyShared(q))
            /\ req'[q].stage \in {"touch", "run"} /\ SameRequest(q)
         \/ <<req[q].stage, req'[q].stage>> \in Follows /\ SameRequest(q)
         \/ /\ OpenSession(q) /\ req'[q].stage = "recheck" /\ req'[q].session \in Sessions
            /\ req'[q].subject = req[q].subject /\ req'[q].at = req[q].at
            /\ owner[req'[q].session] = None /\ owner'[req'[q].session] = req[q].subject
<1> DEFINE Same == req'[q].stage = req[q].stage /\ SameRequest(q)
           Begun == req[q].stage = "idle" /\ req'[q].stage \in {"verify", "check"}
           Checked == /\ req[q].stage = "verify" /\ (VerifyLocal(q) \/ VerifyShared(q))
                      /\ req'[q].stage \in {"touch", "run"} /\ SameRequest(q)
           Next1 == <<req[q].stage, req'[q].stage>> \in Follows /\ SameRequest(q)
           Opened == /\ OpenSession(q) /\ req'[q].stage = "recheck"
                     /\ req'[q].session \in Sessions
                     /\ req'[q].subject = req[q].subject /\ req'[q].at = req[q].at
                     /\ owner[req'[q].session] = None
                     /\ owner'[req'[q].session] = req[q].subject
<1> USE DEF SameRequest
<1>0. req \in [Requests -> Handlers] /\ \A r \in Requests : Fits(req[r])
  BY DEF ShapeInv, Shapes, HandlersFit
<1>1. ASSUME NEW r \in Requests, Step(r) \/ Disconnect(r) \/ \E g \in Gateways : Admit(r, g),
             r # q
      PROVE  req'[q] = req[q]
  BY <1>1, OthersStay
<1>2. ~Answer(q)
  BY <1>0, Answers
<1>3. \A stage \in Stages : GoTo(q, stage) => req'[q].stage = stage /\ SameRequest(q)
  BY <1>0, GoesOn
<1>4. ASSUME NEW g \in Gateways, Admit(q, g) PROVE Begun
  <2>1. PICK who \in Subjects :
          LET begun == [Idle EXCEPT !.at = g, !.subject = who] IN
          \/ req' = [req EXCEPT ![q] = [begun EXCEPT !.stage = "check"]]
          \/ \E kind \in {"call", "delete"}, s \in Sessions :
                req' = [req EXCEPT ![q] =
                  [begun EXCEPT !.stage = "verify", !.kind = kind, !.session = s]]
    BY <1>4 DEF Admit, Introspected
  <2> DEFINE begun == [Idle EXCEPT !.at = g, !.subject = who]
  <2>2. begun \in Handlers
    BY IdleFits DEF Handlers
  <2> HIDE DEF begun
  <2>3. CASE req' = [req EXCEPT ![q] = [begun EXCEPT !.stage = "check"]]
    <3>1. [begun EXCEPT !.stage = "check"].stage = "check"
      BY <2>2 DEF Handlers
    <3> QED
      BY <1>0, <1>4, <2>3, <3>1 DEF Admit
  <2>4. ASSUME NEW k \in {"call", "delete"}, NEW s \in Sessions,
               req' = [req EXCEPT ![q] =
                 [begun EXCEPT !.stage = "verify", !.kind = k, !.session = s]]
        PROVE  Begun
    <3>1. [begun EXCEPT !.stage = "verify", !.kind = k, !.session = s].stage = "verify"
      BY <2>2 DEF Handlers
    <3> QED
      BY <1>0, <1>4, <2>4, <3>1 DEF Admit
  <2> QED
    BY <2>1, <2>3, <2>4 DEF begun
<1>5. ASSUME Prune(q) \/ CloseExpired(q) PROVE Same
  <2>1. CASE Prune(q)
    <3> DEFINE full == Cardinality(Bound(At(q)) \ Expired(At(q))) >= MaxSessions
               h == [req[q] EXCEPT !.pruned = TRUE, !.closing = Expired(At(q)), !.full = full]
    <3>1. req' = [req EXCEPT ![q] = h]
      BY <2>1 DEF Prune
    <3>2. /\ h.stage = req[q].stage /\ h.at = req[q].at /\ h.kind = req[q].kind
          /\ h.subject = req[q].subject /\ h.session = req[q].session
      BY <1>0 DEF Handlers
    <3> HIDE DEF h
    <3> QED
      BY <1>0, <3>1, <3>2
  <2>2. CASE CloseExpired(q)
    <3>1. PICK s \in req[q].closing : req' = [req EXCEPT ![q].closing = @ \ {s}]
      BY <2>2 DEF CloseExpired
    <3> DEFINE h == [req[q] EXCEPT !.closing = @ \ {s}]
    <3>2. req' = [req EXCEPT ![q] = h]
      BY <1>0, <3>1
    <3>3. /\ h.stage = req[q].stage /\ h.at = req[q].at /\ h.kind = req[q].kind
          /\ h.subject = req[q].subject /\ h.session = req[q].session
      BY <1>0 DEF Handlers
    <3> HIDE DEF h
    <3> QED
      BY <1>0, <3>2, <3>3
  <2> QED
    BY <1>5, <2>1, <2>2
<1>6. ASSUME VerifyLocal(q) \/ VerifyShared(q) \/ VerifyFails(q) PROVE Checked
  <2>1. CASE VerifyLocal(q)
    BY <1>2, <1>3, <2>1 DEF VerifyLocal, Ready, Stages
  <2>2. CASE VerifyShared(q)
    BY <1>2, <1>3, <2>2 DEF VerifyShared, Ready, Stages
  <2> QED
    BY <1>2, <1>6, <2>1, <2>2 DEF VerifyFails
<1>7. ASSUME TouchLocal(q) \/ CheckCapacity(q) \/ Recheck(q) \/ CheckFails(q) PROVE Next1
  BY <1>2, <1>3, <1>7 DEF TouchLocal, CheckCapacity, Recheck, CheckFails, Ready, Stages, Follows
<1>8. ASSUME Serve(q) \/ EndSession(q) \/ TransportFails(q) PROVE Next1
  BY <1>2, <1>3, <1>8 DEF Serve, EndSession, TransportFails, Ready, Stages, Follows
<1>9. ASSUME BindLocal(q) \/ BindShared(q) \/ BindFails(q) PROVE Next1
  BY <1>2, <1>3, <1>9 DEF BindLocal, BindShared, BindFails, Ready, Stages, Follows
<1>10. ASSUME OpenSession(q) PROVE Opened
  <2>1. PICK s \in Sessions :
          /\ owner[s] = None /\ owner' = [owner EXCEPT ![s] = req[q].subject]
          /\ req' = [req EXCEPT ![q] = [@ EXCEPT !.stage = "recheck", !.session = s]]
    BY <1>10 DEF OpenSession
  <2> DEFINE h == [req[q] EXCEPT !.stage = "recheck", !.session = s]
  <2>2. req' = [req EXCEPT ![q] = h]
    BY <1>0, <2>1
  <2>3. h.stage = "recheck" /\ h.session = s /\ h.subject = req[q].subject /\ h.at = req[q].at
    BY <1>0 DEF Handlers
  <2> HIDE DEF h
  <2>4. owner'[s] = req[q].subject
    BY <2>1 DEF ShapeInv, Shapes
  <2> QED
    BY <1>0, <1>10, <2>1, <2>2, <2>3, <2>4
<1>11. ASSUME NEW g \in Gateways, Restart(g) PROVE Same
  BY <1>0, <1>11, IdleFits DEF Restart, Idle
<1>12. ASSUME Tick \/ UNCHANGED vars PROVE Same
  BY <1>12 DEF Tick, vars
<1>13. CASE \E r \in Requests \ {q} :
              Step(r) \/ Disconnect(r) \/ \E g \in Gateways : Admit(r, g)
  BY <1>1, <1>13
<1>14. CASE Step(q) \/ Disconnect(q)
  BY <1>2, <1>5, <1>6, <1>7, <1>8, <1>9, <1>10, <1>14
  DEF Step, RemoveBinding, RemoveFails, Disconnect
<1> QED
  BY <1>4, <1>11, <1>12, <1>13, <1>14 DEF Next

\* How a session comes to be bound in a gateway.
LEMMA BoundSteps ==
  ASSUME ShapeInv, [Next]_vars, NEW g \in Gateways, NEW s \in Sessions, bound'[g][s] # None
  PROVE  \/ /\ bound[g][s] # None /\ bound'[g][s].subject = bound[g][s].subject
            /\ bound'[g][s].seen \in {bound[g][s].seen, now}
         \/ \E r \in Requests :
              /\ req[r].at = g /\ req[r].session = s
              /\ bound'[g][s].subject = req[r].subject /\ bound'[g][s].seen = now
              /\ \/ redis /\ TouchLocal(r) /\ req[r].stage \in {"touch", "touchNew"}
                 \/ /\ ~redis /\ BindLocal(r) /\ req[r].stage = "bind"
                    /\ ~(Cardinality(Bound(g)) >= MaxSessions)
<1> DEFINE Kept == /\ bound[g][s] # None /\ bound'[g][s].subject = bound[g][s].subject
                   /\ bound'[g][s].seen \in {bound[g][s].seen, now}
           Written(r) ==
             /\ req[r].at = g /\ req[r].session = s
             /\ bound'[g][s].subject = req[r].subject /\ bound'[g][s].seen = now
             /\ \/ redis /\ TouchLocal(r) /\ req[r].stage \in {"touch", "touchNew"}
                \/ /\ ~redis /\ BindLocal(r) /\ req[r].stage = "bind"
                   /\ ~(Cardinality(Bound(g)) >= MaxSessions)
<1>0. /\ bound \in [Gateways -> Bindings] /\ now \in Nat /\ up \subseteq Gateways
      /\ \A r \in Requests : Fits(req[r])
  BY LimitsAssumption DEF ShapeInv, Shapes, HandlersFit, Bindings
<1>1. bound' = bound => Kept
  OBVIOUS
<1>2. ASSUME NEW r \in Requests, NEW h \in Gateways, Admit(r, h) PROVE bound' = bound
  BY <1>2 DEF Admit
<1>3. ASSUME NEW r \in Requests, Prune(r) PROVE Kept
  <2>1. At(r) \in Gateways
    BY <1>0, <1>3 DEF Prune, Prunes, Fits
  <2> QED
    BY <1>0, <1>3, <2>1, PrunedAt
<1>4. ASSUME NEW r \in Requests, VerifyLocal(r) PROVE Kept
  <2>1. At(r) \in Gateways /\ req[r].session \in Sessions
    BY <1>0, <1>4 DEF VerifyLocal, Ready, Fits
  <2>2. CASE bound[At(r)][req[r].session] # None /\ Touches(At(r), req[r].session)
    BY <1>0, <2>1, <2>2, TouchedAt
  <2> QED
    BY <1>1, <1>4, <2>2 DEF VerifyLocal, Touches
<1>5. ASSUME NEW r \in Requests, TouchLocal(r) \/ BindLocal(r) PROVE Kept \/ Written(r)
  <2>1. /\ At(r) \in Gateways /\ req[r].session \in Sessions /\ req[r].subject \in Subjects
        /\ TouchLocal(r) => redis /\ req[r].stage \in {"touch", "touchNew"}
        /\ BindLocal(r) => ~redis /\ req[r].stage = "bind"
    BY <1>0, <1>5 DEF TouchLocal, BindLocal, Ready, Fits, Holds, Opening, Verifiable
  <2> DEFINE b == [subject |-> req[r].subject, seen |-> now]
  <2>2. b \in LocalBindings /\ b.subject = req[r].subject /\ b.seen = now
    BY <1>0, <2>1 DEF LocalBindings
  <2> HIDE DEF b
  <2>3. ASSUME Writes(At(r), req[r].session, b)
        PROVE  bound'[g][s] = IF g = At(r) /\ s = req[r].session THEN b ELSE bound[g][s]
    BY <1>0, <2>1, <2>2, <2>3, BoundAt
  <2>4. CASE TouchLocal(r)
    <3>1. Writes(At(r), req[r].session, b)
      BY <2>4 DEF TouchLocal, Writes, b
    <3> QED
      BY <2>1, <2>2, <2>3, <2>4, <3>1
  <2>5. CASE BindLocal(r)
    <3>1. CASE bound' = bound
      BY <1>1, <3>1
    <3>2. CASE Writes(At(r), req[r].session, b) /\ ~(Cardinality(Bound(At(r))) >= MaxSessions)
      BY <2>1, <2>2, <2>3, <2>5, <3>2
    <3> QED
      BY <2>5, <3>1, <3>2 DEF BindLocal, Writes, b
  <2> QED
    BY <1>5, <2>4, <2>5
<1>6. ASSUME NEW r \in Requests, RemoveBinding(r) PROVE Kept
  <2>1. At(r) \in Gateways /\ req[r].session \in Sessions
    BY <1>0, <1>6 DEF RemoveBinding, Ready, Fits, Holds, Verifiable
  <2>2. Writes(At(r), req[r].session, None)
    BY <1>6 DEF RemoveBinding, RemoveLocal, Writes
  <2> QED
    BY <1>0, <2>1, <2>2, BoundAt
<1>7. ASSUME NEW h \in Gateways, Restart(h) PROVE Kept
  BY <1>0, <1>7 DEF Restart
<1>8. ASSUME NEW r \in Requests,
             \/ CloseExpired(r) \/ VerifyShared(r) \/ VerifyFails(r) \/ CheckCapacity(r)
             \/ Recheck(r) \/ CheckFails(r) \/ Serve(r) \/ OpenSession(r) \/ EndSession(r)
             \/ TransportFails(r) \/ BindShared(r) \/ BindFails(r) \/ RemoveFails(r)
             \/ Disconnect(r)
      PROVE  bound' = bound
  BY <1>8
  DEF CloseExpired, VerifyShared, VerifyFails, CheckCapacity, Recheck, CheckFails, Serve,
      OpenSession, EndSession, TransportFails, BindShared, BindFails, RemoveFails, Disconnect
<1>9. Tick \/ UNCHANGED vars => bound' = bound
  BY DEF Tick, vars
<1> HIDE DEF Kept, Written
<1>10. Kept \/ \E r \in Requests : Written(r)
  BY <1>1, <1>2, <1>3, <1>4, <1>5, <1>6, <1>7, <1>8, <1>9 DEF Next, Step
<1> QED
  BY <1>10 DEF Kept, Written

\* What a touch leaves in Redis.
LEMMA TouchedKeys ==
  ASSUME ShapeInv, NEW s \in Sessions, binding[s] # None,
         NEW read \in ClockReads, Touch(s, read)
  PROVE  /\ binding'[s] # None /\ binding'[s].subject = binding[s].subject
         /\ binding'[s].expires = KeyExpiry /\ stored'[s] = KeyExpiry
         /\ active'[s] = Score(read)
         /\ \A q \in Sessions \ {s} :
              binding'[q] = binding[q] /\ stored'[q] = stored[q] /\ active'[q] = active[q]
<1> DEFINE b == [binding[s] EXCEPT !.expires = KeyExpiry]
<1>1. /\ binding \in [Sessions -> SharedBindings \cup {None}]
      /\ stored \in [Sessions -> Nat] /\ active \in [Sessions -> Nat]
      /\ KeyExpiry \in Nat
  BY LimitsAssumption, Clocks DEF ShapeInv, Shapes
<1>2. b \in SharedBindings /\ b.subject = binding[s].subject /\ b.expires = KeyExpiry
  BY <1>1 DEF SharedBindings
<1>3. binding' = [binding EXCEPT ![s] = b]
  BY DEF Touch
<1>4. b # None
  BY <1>2, LimitsAssumption
<1> HIDE DEF b
<1> QED
  BY <1>1, <1>2, <1>3, <1>4 DEF Touch

\* How a session comes to be bound in Redis.
Scored(s) == \E read \in ClockReads : active'[s] = Score(read)

LEMMA BindingSteps ==
  ASSUME ShapeInv, [Next]_vars, NEW s \in Sessions, binding'[s] # None
  PROVE  \/ /\ binding[s] # None /\ binding'[s].subject = binding[s].subject
            /\ \/ binding'[s].expires = binding[s].expires
               \/ /\ binding'[s].expires = KeyExpiry /\ Scored(s) /\ now' = now
                  /\ stored[s] # 0
         \/ \E r \in Requests :
              /\ redis /\ (BindShared(r) \/ BindFails(r))
              /\ req[r].stage = "bind" /\ req[r].session = s
              /\ binding'[s].subject = req[r].subject
              /\ binding'[s].expires = KeyExpiry /\ Scored(s) /\ now' = now
<1> DEFINE Kept == /\ binding[s] # None /\ binding'[s].subject = binding[s].subject
                   /\ \/ binding'[s].expires = binding[s].expires
                      \/ /\ binding'[s].expires = KeyExpiry /\ Scored(s) /\ now' = now
                         /\ stored[s] # 0
           Enrolled(r) ==
             /\ redis /\ (BindShared(r) \/ BindFails(r))
             /\ req[r].stage = "bind" /\ req[r].session = s
             /\ binding'[s].subject = req[r].subject
             /\ binding'[s].expires = KeyExpiry /\ Scored(s) /\ now' = now
<1>0. /\ binding \in [Sessions -> SharedBindings \cup {None}]
      /\ active \in [Sessions -> Nat] /\ \A r \in Requests : Fits(req[r])
  BY DEF ShapeInv, Shapes, HandlersFit
<1>1. binding'[s] = binding[s] => Kept
  OBVIOUS
<1>2. ASSUME NEW r \in Requests, VerifyShared(r) \/ VerifyFails(r) PROVE Kept
  <2>1. req[r].session \in Sessions
    BY <1>0, <1>2 DEF VerifyShared, VerifyFails, RedisFails, Ready, Fits
  <2>2. CASE binding' = binding
    BY <1>1, <2>2
  <2>3. ASSUME Verified(r), NEW read \in ClockReads, Touch(req[r].session, read) PROVE Kept
    <3>1. /\ binding[req[r].session] # None /\ stored[req[r].session] # 0
          /\ now' = now
      BY <1>2, <2>3 DEF Verified, VerifyShared, VerifyFails
    <3> HIDE DEF Kept
    <3>2. CASE req[r].session = s
      BY <2>1, <2>3, <3>1, <3>2, TouchedKeys DEF Kept, Scored
    <3>3. CASE req[r].session # s
      BY <1>1, <2>1, <2>3, <3>1, <3>3, TouchedKeys
    <3> QED
      BY <3>2, <3>3
  <2> QED
    BY <1>2, <2>2, <2>3 DEF VerifyShared, VerifyFails, keys
<1>3. ASSUME NEW r \in Requests, BindShared(r) \/ BindFails(r) PROVE Kept \/ Enrolled(r)
  <2>1. redis /\ req[r].stage = "bind" /\ req[r].session \in Sessions /\ now' = now
    BY <1>0, <1>3 DEF BindShared, BindFails, RedisFails, Ready, Fits, Holds, Opening
  <2>2. CASE binding' = binding
    BY <1>1, <2>2
  <2>3. ASSUME NEW read \in ClockReads, Enrol(r, read), binding' # binding
        PROVE  Kept \/ Enrolled(r)
    <3> DEFINE b == [subject |-> req[r].subject, expires |-> KeyExpiry]
               q == req[r].session
    <3>1. /\ binding' = [binding EXCEPT ![q] = b]
          /\ active' = [Swept(read) EXCEPT ![q] = Score(read)]
      BY <2>3 DEF Enrol
    <3>2. b.subject = req[r].subject /\ b.expires = KeyExpiry
      OBVIOUS
    <3>3. Swept(read) \in [Sessions -> Nat]
      BY <1>0 DEF Swept
    <3> HIDE DEF b
    <3>4. binding'[s] = IF s = q THEN b ELSE binding[s]
      BY <1>0, <2>1, <3>1
    <3>5. s = q => Scored(s)
      BY <2>1, <3>1, <3>3 DEF Scored
    <3> QED
      BY <1>1, <1>3, <2>1, <3>1, <3>2, <3>4, <3>5
  <2> QED
    BY <1>3, <2>2, <2>3 DEF BindShared, BindFails
<1>4. ASSUME NEW r \in Requests, EndSession(r) \/ RemoveBinding(r) \/ RemoveFails(r) PROVE Kept
  BY <1>0, <1>1, <1>4 DEF EndSession, Erase, RemoveBinding, RemoveFails, Unbind, keys
<1>5. ASSUME Tick PROVE Kept
  BY <1>0, <1>1, <1>5 DEF Tick
<1>6. ASSUME NEW r \in Requests,
             \/ Prune(r) \/ CloseExpired(r) \/ VerifyLocal(r) \/ TouchLocal(r)
             \/ CheckCapacity(r) \/ Recheck(r) \/ CheckFails(r) \/ Serve(r) \/ OpenSession(r)
             \/ TransportFails(r) \/ BindLocal(r) \/ Disconnect(r)
      PROVE  binding' = binding
  BY <1>6
  DEF Prune, CloseExpired, VerifyLocal, TouchLocal, CheckCapacity, Recheck, CheckFails, Serve,
      OpenSession, TransportFails, BindLocal, Disconnect, keys
<1>7. ASSUME NEW r \in Requests, NEW g \in Gateways, Admit(r, g) PROVE binding' = binding
  BY <1>7 DEF Admit, keys
<1>8. ASSUME NEW g \in Gateways, Restart(g) PROVE binding' = binding
  BY <1>8 DEF Restart, keys
<1>9. UNCHANGED vars => binding' = binding
  BY DEF vars, keys
<1> HIDE DEF Kept, Enrolled
<1>10. Kept \/ \E r \in Requests : Enrolled(r)
  BY <1>1, <1>2, <1>3, <1>4, <1>5, <1>6, <1>7, <1>8, <1>9 DEF Next, Step
<1> QED
  BY <1>10 DEF Kept, Enrolled

\* Only the transport gives a session its owner.
LEMMA OwnerSteps ==
  ASSUME ShapeInv, [Next]_vars, NEW s \in Sessions
  PROVE  \/ owner'[s] = owner[s]
         \/ /\ owner[s] = None
            /\ \E r \in Requests :
                 OpenSession(r) /\ req'[r].session = s /\ owner'[s] = req[r].subject
<1>1. ASSUME NEW r \in Requests, OpenSession(r)
      PROVE  \/ owner'[s] = owner[s]
             \/ owner[s] = None /\ req'[r].session = s /\ owner'[s] = req[r].subject
  <2>1. PICK q \in Sessions :
          /\ owner[q] = None /\ owner' = [owner EXCEPT ![q] = req[r].subject]
          /\ req' = [req EXCEPT ![r] = [@ EXCEPT !.stage = "recheck", !.session = q]]
    BY <1>1 DEF OpenSession
  <2> DEFINE h == [req[r] EXCEPT !.stage = "recheck", !.session = q]
  <2>2. req' = [req EXCEPT ![r] = h] /\ h.session = q
    BY <2>1 DEF ShapeInv, Shapes, Handlers
  <2> HIDE DEF h
  <2> QED
    BY <2>1, <2>2 DEF ShapeInv, Shapes
<1>2. (\A r \in Requests : ~OpenSession(r)) => owner' = owner
  BY DEF Next, Step, vars, Admit, Prune, CloseExpired, VerifyLocal, VerifyShared,
         VerifyFails, TouchLocal, CheckCapacity, Recheck, CheckFails, Serve, EndSession,
         TransportFails, BindLocal, BindShared, BindFails, RemoveBinding, RemoveFails,
         Disconnect, Restart, Tick, history
<1> QED
  BY <1>1, <1>2

-------------------------------------------------------------------------------
(* Whose a session is                                                      *)

HIDE DEF Bound

\* A request that has a session carries its owner's subject.
HoldersOwn ==
  \A r \in Requests :
    req[r].stage \in Holds \cup {"run"} /\ req[r].session # None
      => req[r].subject = owner[req[r].session]

SubjectInv == ShapeInv /\ SessionKeepsItsSubject /\ HoldersOwn

\* Every step keeps the sessions with their owners.
LEMMA NextSubjects == SubjectInv /\ [Next]_vars => SubjectInv'
<1> SUFFICES ASSUME SubjectInv, [Next]_vars PROVE SubjectInv'
  OBVIOUS
<1>0. /\ ShapeInv /\ ShapeInv' /\ SessionKeepsItsSubject /\ HoldersOwn
      /\ \A r \in Requests : req[r] \in Handlers /\ Fits(req[r])
      /\ bound \in [Gateways -> Bindings]
      /\ binding \in [Sessions -> SharedBindings \cup {None}]
  BY NextShapes DEF SubjectInv, ShapeInv, Shapes, HandlersFit, Bindings
<1>1. ASSUME NEW s \in Sessions, owner[s] # None PROVE owner'[s] = owner[s]
  BY <1>0, <1>1, OwnerSteps
<1>2. ASSUME NEW g \in Gateways, NEW s \in Sessions, bound[g][s] # None
      PROVE  bound[g][s].subject = owner[s] /\ owner[s] # None
  BY <1>0, <1>2, LimitsAssumption DEF SessionKeepsItsSubject, Bindings, LocalBindings
<1>3. ASSUME NEW s \in Sessions, binding[s] # None
      PROVE  binding[s].subject = owner[s] /\ owner[s] # None
  BY <1>0, <1>3, LimitsAssumption DEF SessionKeepsItsSubject, SharedBindings
<1>4. ASSUME NEW r \in Requests, req[r].stage \in Holds \cup {"run"}, req[r].session # None
      PROVE  /\ req[r].session \in Sessions /\ owner[req[r].session] # None
             /\ req[r].subject = owner[req[r].session]
  BY <1>0, <1>4, LimitsAssumption DEF HoldersOwn, Fits, Handlers, Holds, Verifiable, Opening
<1>5. ASSUME NEW g \in Gateways, NEW s \in Sessions, bound'[g][s] # None
      PROVE  bound'[g][s].subject = owner'[s]
  <2>1. CASE bound[g][s] # None /\ bound'[g][s].subject = bound[g][s].subject
    BY <1>1, <1>2, <2>1
  <2>2. ASSUME NEW r \in Requests, req[r].session = s,
               req[r].stage \in {"touch", "touchNew", "bind"},
               bound'[g][s].subject = req[r].subject
        PROVE  bound'[g][s].subject = owner'[s]
    BY <1>1, <1>4, <2>2, LimitsAssumption DEF Holds, Verifiable, Opening
  <2>3. \/ bound[g][s] # None /\ bound'[g][s].subject = bound[g][s].subject
        \/ \E r \in Requests :
             /\ req[r].session = s /\ req[r].stage \in {"touch", "touchNew", "bind"}
             /\ bound'[g][s].subject = req[r].subject
    BY <1>0, <1>5, BoundSteps
  <2> QED
    BY <2>1, <2>2, <2>3
<1>6. ASSUME NEW s \in Sessions, binding'[s] # None PROVE binding'[s].subject = owner'[s]
  <2>1. CASE binding[s] # None /\ binding'[s].subject = binding[s].subject
    BY <1>1, <1>3, <2>1
  <2>2. ASSUME NEW r \in Requests, req[r].session = s, req[r].stage = "bind",
               binding'[s].subject = req[r].subject
        PROVE  binding'[s].subject = owner'[s]
    BY <1>1, <1>4, <2>2, LimitsAssumption DEF Holds, Verifiable, Opening
  <2> QED
    BY <1>0, <1>6, <2>1, <2>2, BindingSteps
<1>7. ASSUME NEW r \in Requests, req'[r].stage \in Holds \cup {"run"}, req'[r].session # None
      PROVE  req'[r].subject = owner'[req'[r].session]
  <2>1. CASE req[r].stage \in Holds \cup {"run"} /\ SameRequest(r)
    BY <1>1, <1>4, <1>7, <2>1 DEF SameRequest
  <2>2. CASE req[r].stage = "verify" /\ (VerifyLocal(r) \/ VerifyShared(r)) /\ SameRequest(r)
    <3>1. req[r].session \in Sessions /\ req[r].at \in Gateways
      BY <1>0, <2>2 DEF Fits, ShapeInv, Shapes
    <3>2. \/ /\ bound[req[r].at][req[r].session] # None
             /\ bound[req[r].at][req[r].session].subject = req[r].subject
          \/ /\ binding[req[r].session] # None
             /\ binding[req[r].session].subject = req[r].subject
      <4>1. ~Answer(r)
        BY <1>0, <1>7, Answers DEF ShapeInv, Shapes
      <4> QED
        BY <2>2, <4>1 DEF VerifyLocal, VerifyShared, Verified
    <3> QED
      BY <1>1, <1>2, <1>3, <2>2, <3>1, <3>2 DEF SameRequest
  <2>3. CASE req[r].stage = "check" /\ SameRequest(r)
    BY <1>0, <1>7, <2>3 DEF SameRequest, Fits
  <2>4. CASE owner'[req'[r].session] = req[r].subject /\ req'[r].subject = req[r].subject
    BY <2>4
  <2> QED
    BY <1>0, <1>7, <2>1, <2>2, <2>3, <2>4, HandlerSteps DEF Follows, Holds, Verifiable, Opening
<1> QED
  <2>1. HoldersOwn'
    BY <1>7 DEF HoldersOwn
  <2>2. SessionKeepsItsSubject'
    BY <1>5, <1>6, <1>7, LimitsAssumption
    DEF SessionKeepsItsSubject, Holds, Verifiable, Opening
  <2> QED
    BY <1>0, <2>1, <2>2 DEF SubjectInv

-------------------------------------------------------------------------------
(* How many sessions there are                                             *)

\* A limit that holds of a set holds of its subsets.
LEMMA Subset ==
  ASSUME NEW S, NEW T, IsFiniteSet(S), Cardinality(S) <= MaxSessions, T \subseteq S
  PROVE  IsFiniteSet(T) /\ Cardinality(T) <= MaxSessions
  BY FS_Subset, FS_CardinalityType, LimitsAssumption

\* A set below the limit has room for one more.
LEMMA OneMore ==
  ASSUME NEW S, NEW T, NEW x, IsFiniteSet(S), ~(Cardinality(S) >= MaxSessions),
         T \subseteq S \cup {x}
  PROVE  IsFiniteSet(T) /\ Cardinality(T) <= MaxSessions
<1>1. Cardinality(S) \in Nat
  BY FS_CardinalityType
<1>2. Cardinality(S) < MaxSessions /\ MaxSessions \in Nat
  BY <1>1, LimitsAssumption
<1>3. /\ IsFiniteSet(S \cup {x})
      /\ \/ Cardinality(S \cup {x}) = Cardinality(S)
         \/ Cardinality(S \cup {x}) = Cardinality(S) + 1
  BY FS_AddElement
<1>4. Cardinality(S \cup {x}) <= MaxSessions
  BY <1>1, <1>2, <1>3
<1> QED
  BY <1>3, <1>4, Subset

LocalInv ==
  ~redis => \A g \in up : IsFiniteSet(Bound(g)) /\ Cardinality(Bound(g)) <= MaxSessions

\* Bindings are added one at a time, after a count under the same lock.
LEMMA NextLocal == ShapeInv /\ LocalInv /\ [Next]_vars => LocalInv'
<1> SUFFICES ASSUME ShapeInv, LocalInv, [Next]_vars, ~redis', NEW g \in up'
             PROVE  (IsFiniteSet(Bound(g)) /\ Cardinality(Bound(g)) <= MaxSessions)'
  BY DEF LocalInv
<1>1. ~redis /\ g \in up /\ g \in Gateways
  <2>1. redis' = redis /\ up' = up
    BY DeploymentStays
  <2> QED
    BY <2>1 DEF ShapeInv, Shapes
<1>2. IsFiniteSet(Bound(g)) /\ Cardinality(Bound(g)) <= MaxSessions
  BY <1>1 DEF LocalInv
<1>3. CASE \E s \in Sessions : s \notin Bound(g) /\ s \in Bound(g)'
  <2>1. PICK s \in Sessions : s \notin Bound(g) /\ s \in Bound(g)'
    BY <1>3
  <2>2. bound[g][s] = None /\ bound'[g][s] # None
    BY <2>1 DEF Bound
  <2>3. PICK r \in Requests : /\ req[r].at = g /\ req[r].session = s /\ BindLocal(r)
                             /\ ~(Cardinality(Bound(g)) >= MaxSessions)
    BY <1>1, <2>2, BoundSteps
  <2>4. Bound(g)' \subseteq Bound(g) \cup {s}
    <3> DEFINE b == [subject |-> req[r].subject, seen |-> now]
    <3>1. bound' = bound \/ Writes(g, s, b)
      BY <2>3 DEF BindLocal, Writes
    <3>2. b \in LocalBindings \cup {None}
      BY <2>3, LimitsAssumption
      DEF LocalBindings, BindLocal, Ready, ShapeInv, Shapes, HandlersFit, Fits
    <3> HIDE DEF b
    <3>3. bound \in [Gateways -> Bindings]
      BY DEF ShapeInv, Shapes, Bindings
    <3>4. \A q \in Sessions : q # s => bound'[g][q] = bound[g][q]
      BY <1>1, <3>1, <3>2, <3>3, BoundAt
    <3> QED
      BY <3>4 DEF Bound
  <2> QED
    BY <1>2, <2>3, <2>4, OneMore
<1>4. CASE ~ \E s \in Sessions : s \notin Bound(g) /\ s \in Bound(g)'
  <2>1. Bound(g)' \subseteq Bound(g)
    BY <1>4 DEF Bound
  <2> QED
    BY <1>2, <2>1, Subset
<1> QED
  BY <1>3, <1>4

-------------------------------------------------------------------------------
(* The active set                                                          *)

Enrols(s, read) ==
  /\ HasRoom(s, read) /\ active' = [Swept(read) EXCEPT ![s] = Score(read)]
  /\ binding'[s].expires = KeyExpiry /\ now' = now /\ revived' = revived

\* How the active set changes: swept, touched, enrolled in, or left.
LEMMA ActiveSteps ==
  ASSUME ShapeInv, [Next]_vars
  PROVE  \/ active' = active /\ revived' = revived
         \/ /\ \E read \in ClockReads : active' = Swept(read)
            /\ revived' = revived /\ now' = now
         \/ \E s \in Sessions, read \in ClockReads :
              binding[s] # None /\ Touch(s, read) /\ now' = now
         \/ \E s \in Sessions, read \in ClockReads : Enrols(s, read)
         \/ \E s \in Sessions : /\ active' = [active EXCEPT ![s] = 0] /\ binding'[s] = None
                                /\ revived' = revived
<1> DEFINE Kept == active' = active /\ revived' = revived
           Sweeping == /\ \E read \in ClockReads : active' = Swept(read)
                       /\ revived' = revived /\ now' = now
           Touching == \E s \in Sessions, read \in ClockReads :
                         binding[s] # None /\ Touch(s, read) /\ now' = now
           Enrolling == \E s \in Sessions, read \in ClockReads : Enrols(s, read)
           Leaving == \E s \in Sessions : /\ active' = [active EXCEPT ![s] = 0]
                                          /\ binding'[s] = None /\ revived' = revived
<1>0. /\ binding \in [Sessions -> SharedBindings \cup {None}]
      /\ \A r \in Requests : req[r] \in Handlers /\ Fits(req[r])
  BY DEF ShapeInv, Shapes, HandlersFit
<1>1. ASSUME NEW r \in Requests, VerifyShared(r) \/ VerifyFails(r) PROVE Kept \/ Touching
  <2>1. req[r].session \in Sessions
    BY <1>0, <1>1 DEF VerifyShared, VerifyFails, RedisFails, Ready, Fits
  <2> QED
    BY <1>1, <2>1 DEF VerifyShared, VerifyFails, Verified, keys
<1>2. ASSUME NEW r \in Requests, CheckCapacity(r) \/ Recheck(r) \/ CheckFails(r)
      PROVE  Kept \/ Sweeping
  <2>1. now' = now /\ revived' = revived
    BY <1>2 DEF CheckCapacity, Recheck, CheckFails, history
  <2>2. active' = active \/ \E read \in ClockReads : active' = Swept(read)
    BY <1>2 DEF CheckCapacity, Recheck, CheckFails, SweepIfShared
  <2> QED
    BY <2>1, <2>2
<1>3. ASSUME NEW r \in Requests, EndSession(r) \/ RemoveBinding(r) \/ RemoveFails(r)
      PROVE  Kept \/ Leaving
  <2>1. req[r].session \in Sessions
    BY <1>0, <1>3
    DEF EndSession, RemoveBinding, RemoveFails, RedisFails, Ready, Fits, Handlers, Holds,
        Verifiable
  <2>2. /\ Kept
        \/ /\ active' = [active EXCEPT ![req[r].session] = 0]
           /\ binding' = [binding EXCEPT ![req[r].session] = None]
           /\ revived' = revived
    BY <1>3 DEF EndSession, Erase, RemoveBinding, RemoveFails, Unbind, keys, history
  <2> QED
    BY <1>0, <2>1, <2>2
<1>4. ASSUME NEW r \in Requests, BindShared(r) \/ BindFails(r)
      PROVE  Kept \/ Sweeping \/ Enrolling
  <2>1. req[r].session \in Sessions /\ now' = now /\ revived' = revived
    BY <1>0, <1>4
    DEF BindShared, BindFails, RedisFails, Ready, Fits, Holds, Opening, history
  <2>2. ASSUME NEW read \in ClockReads, Enrol(r, read), ~Refused(req[r].session, read)
        PROVE  Enrols(req[r].session, read)
    <3> DEFINE b == [subject |-> req[r].subject, expires |-> KeyExpiry]
    <3>1. /\ HasRoom(req[r].session, read)
          /\ binding' = [binding EXCEPT ![req[r].session] = b]
          /\ active' = [Swept(read) EXCEPT ![req[r].session] = Score(read)]
      BY <2>2 DEF Enrol, Refused
    <3>2. b.expires = KeyExpiry
      OBVIOUS
    <3> HIDE DEF b
    <3> QED
      BY <1>0, <2>1, <3>1, <3>2 DEF Enrols
  <2>3. \A read \in ClockReads : Enrol(r, read) /\ Refused(req[r].session, read) => Sweeping
    BY <2>1 DEF Enrol
  <2>4. (\E read \in ClockReads : Enrol(r, read)) \/ active' = active
    BY <1>4 DEF BindShared, BindFails
  <2> QED
    BY <2>1, <2>2, <2>3, <2>4
<1>5. ASSUME NEW r \in Requests,
             \/ Prune(r) \/ CloseExpired(r) \/ VerifyLocal(r) \/ TouchLocal(r)
             \/ Serve(r) \/ OpenSession(r) \/ TransportFails(r)
             \/ BindLocal(r) \/ Disconnect(r)
      PROVE  Kept
  BY <1>5
  DEF Prune, CloseExpired, VerifyLocal, TouchLocal, Serve, OpenSession,
      TransportFails, BindLocal, Disconnect, keys, history
<1>6. ASSUME NEW r \in Requests, NEW g \in Gateways, Admit(r, g) PROVE Kept
  BY <1>6 DEF Admit, keys, history
<1>7. ASSUME NEW g \in Gateways, Restart(g) PROVE Kept
  BY <1>7 DEF Restart, keys
<1>8. Tick \/ UNCHANGED vars => Kept
  BY DEF Tick, vars, keys, history
<1> HIDE DEF Kept, Sweeping, Touching, Enrolling, Leaving
<1>9. Kept \/ Sweeping \/ Touching \/ Enrolling \/ Leaving
  BY <1>1, <1>2, <1>3, <1>4, <1>5, <1>6, <1>7, <1>8 DEF Next, Step
<1> QED
  BY <1>9 DEF Kept, Sweeping, Touching, Enrolling, Leaving

\* The sessions that count against the capacity.
Counted == Members(active) \ revived

CountInv ==
  IsFiniteSet(Members(active)) /\ IsFiniteSet(Counted) /\ Cardinality(Counted) <= MaxSessions

\* Sweeping only takes sessions away, a touch that puts one back names it as
\* revived, and the bind script counts what it has just swept.
LEMMA NextCount == ShapeInv /\ CountInv /\ [Next]_vars => CountInv'
<1> SUFFICES ASSUME ShapeInv, CountInv, [Next]_vars PROVE CountInv'
  OBVIOUS
<1>0. /\ active \in [Sessions -> Nat]
      /\ \A read \in ClockReads :
           /\ Swept(read) \in [Sessions -> Nat]
           /\ \A s \in Sessions : Swept(read)[s] # 0 => active[s] # 0
      /\ IsFiniteSet(Members(active)) /\ IsFiniteSet(Counted)
      /\ Cardinality(Counted) <= MaxSessions
  BY DEF ShapeInv, Shapes, Swept, CountInv
<1>1. ASSUME Members(active)' \subseteq Members(active), Counted' \subseteq Counted
      PROVE  CountInv'
  BY <1>0, <1>1, FS_Subset, Subset DEF CountInv
<1>2. CASE /\ active' = active \/ \E read \in ClockReads : active' = Swept(read)
           /\ revived' = revived
  BY <1>0, <1>1, <1>2 DEF Members, Counted
<1>3. ASSUME NEW s \in Sessions, binding[s] # None, NEW read \in ClockReads, Touch(s, read)
      PROVE  CountInv'
  <2>1. /\ \A q \in Sessions \ {s} : active'[q] = active[q]
        /\ revived' = IF active[s] = 0 THEN revived \cup {s} ELSE revived
    BY <1>3, TouchedKeys DEF Touch
  <2>2. Members(active)' \subseteq Members(active) \cup {s}
    BY <2>1 DEF Members
  <2>3. Counted' \subseteq Counted
    BY <1>0, <2>1, <2>2 DEF Members, Counted
  <2>4. IsFiniteSet(Members(active))'
    BY <1>0, <2>2, FS_AddElement, FS_Subset
  <2> QED
    BY <1>0, <2>3, <2>4, Subset DEF CountInv
<1>4. ASSUME NEW s \in Sessions, NEW read \in ClockReads, Enrols(s, read) PROVE CountInv'
  <2> DEFINE left == Members(Swept(read))
  <2>1. Members(active)' \subseteq left \cup {s} /\ left \subseteq Members(active)
    BY <1>0, <1>4 DEF Members, Enrols
  <2>2. CASE Swept(read)[s] # 0
    <3>1. Members(active)' \subseteq Members(active)
      BY <2>1, <2>2 DEF Members
    <3> QED
      BY <1>1, <1>4, <3>1 DEF Counted, Enrols
  <2>3. CASE ~(Cardinality(left) >= MaxSessions)
    <3> HIDE DEF left
    <3>1. IsFiniteSet(left)
      BY <1>0, <2>1, FS_Subset
    <3>2. Counted' \subseteq left \cup {s}
      BY <2>1 DEF Counted
    <3>3. IsFiniteSet(Counted)' /\ Cardinality(Counted)' <= MaxSessions
      BY <2>3, <3>1, <3>2, OneMore
    <3>4. IsFiniteSet(Members(active))'
      BY <2>1, <3>1, FS_AddElement, FS_Subset
    <3> QED
      BY <3>3, <3>4 DEF CountInv
  <2>4. Cardinality(left) < MaxSessions => ~(Cardinality(left) >= MaxSessions)
    <3> HIDE DEF left
    <3>1. IsFiniteSet(left)
      BY <1>0, <2>1, FS_Subset
    <3> QED
      BY <3>1, FS_CardinalityType, LimitsAssumption
  <2> QED
    BY <1>4, <2>2, <2>3, <2>4 DEF HasRoom, Enrols
<1>5. ASSUME NEW s \in Sessions, active' = [active EXCEPT ![s] = 0], revived' = revived
      PROVE  CountInv'
  BY <1>0, <1>1, <1>5 DEF Members, Counted
<1> QED
  BY <1>2, <1>3, <1>4, <1>5, ActiveSteps

\* By how much a score may be swept before its key expires.
Slack == TicksPerSecond + MaxLag + MaxLead

\* A binding outlives its score by less than that; a score is behind by what
\* the clock that it was taken from was.
ScoreInv ==
  \A s \in Sessions : binding[s] # None =>
    IF active[s] = 0 THEN binding[s].expires < now + Slack
    ELSE binding[s].expires < (active[s] + 1) * TicksPerSecond + MaxLag

\* A key and its score are written together, and a score is swept by a clock
\* that is no more than MaxLead ahead.
LEMMA NextScores == ShapeInv /\ ScoreInv /\ [Next]_vars => ScoreInv'
<1> SUFFICES ASSUME ShapeInv, ScoreInv, [Next]_vars, NEW s \in Sessions, binding'[s] # None
             PROVE  (IF active[s] = 0 THEN binding[s].expires < now + Slack
                     ELSE binding[s].expires < (active[s] + 1) * TicksPerSecond + MaxLag)'
  BY DEF ScoreInv
<1>0. /\ now \in Nat /\ now' \in Nat /\ now <= now' /\ MaxLag <= now
      /\ active \in [Sessions -> Nat] /\ binding \in [Sessions -> SharedBindings \cup {None}]
      /\ binding' \in [Sessions -> SharedBindings \cup {None}]
      /\ TicksPerSecond \in Nat \ {0} /\ Ttl \in Nat \ {0}
      /\ MaxLag \in Nat /\ MaxLead \in Nat /\ Slack \in Nat /\ Slack' = Slack
      /\ Slack = TicksPerSecond + MaxLag + MaxLead
  <2>1. now' = now \/ now' = now + 1
    BY ClockMoves
  <2> QED
    BY <2>1, NextShapes, LimitsAssumption DEF ShapeInv, Shapes, Slack
<1>1. binding'[s].expires \in Nat
  BY <1>0 DEF SharedBindings
<1>2. ASSUME NEW read \in ClockReads
      PROVE  /\ read \in Nat /\ read * TicksPerSecond <= now + MaxLead
             /\ now < (read + 1) * TicksPerSecond + MaxLag
  BY <1>0, Clocks
<1>3. CASE binding'[s].expires = KeyExpiry /\ Scored(s) /\ now' = now
  <2>0. PICK read \in ClockReads : active'[s] = Score(read)
    BY <1>3 DEF Scored
  <2>1. KeyExpiry = now + Ttl * TicksPerSecond /\ Score(read) = read + Ttl
    BY DEF KeyExpiry, Score, TtlTicks
  <2>2. (read + Ttl + 1) * TicksPerSecond = (read + 1) * TicksPerSecond + Ttl * TicksPerSecond
    BY <1>0, <1>2
  <2>3. Ttl * TicksPerSecond \in Nat /\ (read + 1) * TicksPerSecond \in Nat /\ read \in Nat
    BY <1>0, <1>2
  <2>4. /\ active'[s] # 0
        /\ binding'[s].expires < (active'[s] + 1) * TicksPerSecond + MaxLag
    BY <1>0, <1>2, <1>3, <2>0, <2>1, <2>2, <2>3
  <2> QED
    BY <2>4
<1>4. CASE binding[s] # None /\ binding'[s].expires = binding[s].expires
  <2>1. IF active[s] = 0 THEN binding'[s].expires < now + Slack
        ELSE binding'[s].expires < (active[s] + 1) * TicksPerSecond + MaxLag
    BY <1>4 DEF ScoreInv
  <2>2. CASE active'[s] = active[s]
    BY <1>0, <1>1, <2>1, <2>2
  <2>3. ASSUME NEW read \in ClockReads, active'[s] = Swept(read)[s]
        PROVE  IF active'[s] = 0 THEN binding'[s].expires < now' + Slack
               ELSE binding'[s].expires < (active'[s] + 1) * TicksPerSecond + MaxLag
    <3>1. CASE active[s] <= read /\ active[s] # 0
      <4>1. /\ (active[s] + 1) * TicksPerSecond <= (read + 1) * TicksPerSecond
            /\ (active[s] + 1) * TicksPerSecond \in Nat
        BY <1>0, <1>2, <3>1
      <4>2. /\ (read + 1) * TicksPerSecond = read * TicksPerSecond + TicksPerSecond
            /\ read * TicksPerSecond \in Nat
        BY <1>0, <1>2
      <4>3. read * TicksPerSecond <= now + MaxLead
        BY <1>2
      <4>4. binding'[s].expires < (active[s] + 1) * TicksPerSecond + MaxLag
        BY <2>1, <3>1
      <4>5. binding'[s].expires < now' + Slack
        <5> DEFINE x == (active[s] + 1) * TicksPerSecond  y == read * TicksPerSecond
        <5>1. /\ x \in Nat /\ y \in Nat /\ x <= y + TicksPerSecond /\ y <= now + MaxLead
              /\ binding'[s].expires < x + MaxLag
          BY <4>1, <4>2, <4>3, <4>4
        <5> HIDE DEF x, y
        <5> QED
          BY <1>0, <1>1, <5>1
      <4>6. active'[s] = 0
        BY <2>3, <3>1 DEF Swept
      <4> QED
        BY <4>5, <4>6
    <3>2. CASE active'[s] = active[s]
      BY <1>0, <1>1, <2>1, <3>2
    <3> QED
      BY <1>0, <1>2, <2>3, <3>1, <3>2 DEF Swept
  <2>4. \/ active'[s] = active[s]
        \/ \E read \in ClockReads : active'[s] = Swept(read)[s]
        \/ Scored(s) /\ binding'[s].expires = KeyExpiry /\ now' = now
    <3>1. \A read \in ClockReads : Swept(read) \in [Sessions -> Nat]
      BY <1>0 DEF Swept
    <3>2. ASSUME NEW q \in Sessions, NEW read \in ClockReads,
                 binding[q] # None, Touch(q, read), now' = now
          PROVE  \/ active'[s] = active[s]
                 \/ Scored(s) /\ binding'[s].expires = KeyExpiry
      BY <3>2, TouchedKeys DEF Scored
    <3>3. ASSUME NEW q \in Sessions, NEW read \in ClockReads, Enrols(q, read)
          PROVE  \/ active'[s] = Swept(read)[s]
                 \/ Scored(s) /\ binding'[s].expires = KeyExpiry /\ now' = now
      BY <3>1, <3>3 DEF Enrols, Scored
    <3>4. ASSUME NEW q \in Sessions, active' = [active EXCEPT ![q] = 0], binding'[q] = None
          PROVE  active'[s] = active[s]
      BY <1>0, <3>4
    <3>5. CASE \E q \in Sessions, read \in ClockReads :
                 binding[q] # None /\ Touch(q, read) /\ now' = now
      BY <3>2, <3>5
    <3>6. CASE \E q \in Sessions, read \in ClockReads : Enrols(q, read)
      BY <3>3, <3>6
    <3>7. CASE \E q \in Sessions : active' = [active EXCEPT ![q] = 0] /\ binding'[q] = None
      BY <3>4, <3>7
    <3>8. CASE \E read \in ClockReads : active' = Swept(read)
      BY <3>8
    <3> QED
      BY <3>5, <3>6, <3>7, <3>8, ActiveSteps
  <2> QED
    BY <1>3, <2>2, <2>3, <2>4
<1> QED
  BY <1>3, <1>4, BindingSteps

\* How the stored state of a session changes: it is written for a TTL,
\* deleted, or expires.
LEMMA StoredSteps ==
  ASSUME ShapeInv, [Next]_vars, NEW s \in Sessions
  PROVE  \/ stored'[s] \in {stored[s], 0}
         \/ stored'[s] = KeyExpiry /\ now' = now
<1> DEFINE Kept == stored'[s] \in {stored[s], 0} \/ (stored'[s] = KeyExpiry /\ now' = now)
<1>0. stored \in [Sessions -> Nat] /\ \A r \in Requests : Fits(req[r])
  BY DEF ShapeInv, Shapes, HandlersFit
<1>1. ASSUME NEW r \in Requests, VerifyShared(r) \/ VerifyFails(r) PROVE Kept
  <2>1. req[r].session \in Sessions
    BY <1>0, <1>1 DEF VerifyShared, VerifyFails, RedisFails, Ready, Fits
  <2>2. ASSUME NEW read \in ClockReads, Touch(req[r].session, read) PROVE Kept
    BY <1>0, <1>1, <2>1, <2>2 DEF Touch, VerifyShared, VerifyFails
  <2> QED
    BY <1>1, <2>2 DEF VerifyShared, VerifyFails, keys
<1>2. ASSUME NEW r \in Requests, OpenSession(r) PROVE Kept
  <2>1. now' = now /\ \/ UNCHANGED stored
                      \/ \E x \in Sessions : stored' = [stored EXCEPT ![x] = KeyExpiry]
    BY <1>2 DEF OpenSession
  <2> QED
    BY <1>0, <2>1
<1>3. ASSUME NEW r \in Requests, EndSession(r) PROVE Kept
  BY <1>0, <1>3 DEF EndSession, Erase, keys
<1>4. ASSUME NEW r \in Requests,
             \/ Prune(r) \/ CloseExpired(r) \/ VerifyLocal(r) \/ TouchLocal(r)
             \/ CheckCapacity(r) \/ Recheck(r) \/ CheckFails(r) \/ Serve(r)
             \/ TransportFails(r) \/ BindLocal(r) \/ BindShared(r) \/ BindFails(r)
             \/ RemoveBinding(r) \/ RemoveFails(r) \/ Disconnect(r)
      PROVE  stored' = stored
  BY <1>4
  DEF Prune, CloseExpired, VerifyLocal, TouchLocal, CheckCapacity, Recheck, CheckFails, Serve,
      TransportFails, BindLocal, BindShared, BindFails, RemoveBinding, RemoveFails, Disconnect,
      keys
<1>5. ASSUME NEW r \in Requests, NEW g \in Gateways, Admit(r, g) PROVE stored' = stored
  BY <1>5 DEF Admit, keys
<1>6. ASSUME NEW g \in Gateways, Restart(g) PROVE stored' = stored
  BY <1>6 DEF Restart, keys
<1>7. Tick => Kept
  BY <1>0 DEF Tick
<1>8. UNCHANGED vars => stored' = stored
  BY DEF vars, keys
<1>9. stored' = stored => Kept
  OBVIOUS
<1> HIDE DEF Kept
<1>10. Kept
  BY <1>1, <1>2, <1>3, <1>4, <1>5, <1>6, <1>7, <1>8, <1>9 DEF Next, Step
<1> QED
  BY <1>10 DEF Kept

\* Time passes in ticks, and what has expired by then is gone.
LEMMA ClockSteps ==
  ASSUME ShapeInv, [Next]_vars
  PROVE  /\ now \in Nat /\ now' \in Nat /\ now <= now' /\ MaxLag <= now /\ Fastest <= Fastest'
         /\ \/ now' = now
            \/ /\ Tick /\ active' = active
               /\ \A s \in Sessions :
                    /\ binding'[s] # None => binding'[s].expires > now'
                    /\ stored'[s] # 0 => stored'[s] > now'
<1>0. /\ now \in Nat /\ stored \in [Sessions -> Nat]
      /\ binding \in [Sessions -> SharedBindings \cup {None}]
      /\ TicksPerSecond \in Nat \ {0}
  BY LimitsAssumption DEF ShapeInv, Shapes
<1>1. now' = now \/ Tick
  BY ClockMoves
<1>2. now' \in Nat /\ now <= now'
  BY <1>0, <1>1 DEF Tick
<1>3. Fastest <= Fastest' /\ MaxLag <= now
  <2>1. now + MaxLead \in Nat /\ now' + MaxLead \in Nat /\ now + MaxLead <= now' + MaxLead
    BY <1>2, <1>0, LimitsAssumption
  <2>2. Fastest' = (now' + MaxLead) \div TicksPerSecond
    BY DEF Fastest
  <2> QED
    BY <2>1, <2>2, SecondsGrow DEF Fastest, ShapeInv
<1>4. CASE Tick
  <2>1. ASSUME NEW s \in Sessions
        PROVE  /\ binding'[s] # None => binding'[s].expires > now'
               /\ stored'[s] # 0 => stored'[s] > now'
    <3>1. binding[s] # None => binding[s].expires \in Nat
      BY <1>0 DEF SharedBindings
    <3> QED
      BY <1>0, <1>2, <1>4, <3>1 DEF Tick
  <2> QED
    BY <1>2, <1>3, <1>0, <1>4, <2>1 DEF Tick
<1> QED
  BY <1>0, <1>1, <1>2, <1>3, <1>4

\* Every time on record lies within one TTL of the clock.
LEMMA NextTimes == ShapeInv /\ Times /\ [Next]_vars => Times'
<1> SUFFICES ASSUME ShapeInv, Times, [Next]_vars, NEW s \in Sessions
             PROVE  /\ \A g \in Gateways : bound'[g][s] # None => bound'[g][s].seen <= now'
                    /\ binding'[s] # None => binding'[s].expires \in now' + 1 .. now' + TtlTicks
                    /\ stored'[s] \in {0} \cup (now' + 1 .. now' + TtlTicks)
                    /\ active'[s] <= Fastest' + Ttl
  BY DEF Times, TtlTicks, Fastest
<1>0. /\ now \in Nat /\ now' \in Nat /\ now <= now' /\ Fastest <= Fastest'
      /\ TtlTicks \in Nat \ {0} /\ Fastest \in Nat /\ Fastest' \in Nat
      /\ Ttl \in Nat /\ KeyExpiry = now + TtlTicks
      /\ \A read \in ClockReads : Score(read) \in Nat /\ Score(read) <= Fastest + Ttl
      /\ bound \in [Gateways -> Bindings]
      /\ binding \in [Sessions -> SharedBindings \cup {None}]
      /\ stored \in [Sessions -> Nat] /\ active \in [Sessions -> Nat]
  <2>1. now \in Nat /\ now' \in Nat /\ now <= now' /\ Fastest <= Fastest' /\ MaxLag <= now
    BY ClockSteps
  <2>2. /\ TtlTicks \in Nat \ {0} /\ Fastest \in Nat /\ Ttl \in Nat
        /\ \A read \in ClockReads : read \in Nat /\ read <= Fastest
    BY <2>1, Clocks, LimitsAssumption
  <2>3. Fastest' = (now' + MaxLead) \div TicksPerSecond /\ now' + MaxLead \in Nat
    BY <2>1, LimitsAssumption DEF Fastest
  <2>4. Fastest' \in Nat
    BY <2>3, WithinTheSecond
  <2> QED
    BY <2>1, <2>2, <2>4 DEF KeyExpiry, Score, ShapeInv, Shapes, Bindings
<1>1. ASSUME NEW g \in Gateways, bound'[g][s] # None PROVE bound'[g][s].seen <= now'
  <2>1. \/ bound[g][s] # None /\ bound'[g][s].seen = bound[g][s].seen
        \/ bound'[g][s].seen = now
    BY <1>1, BoundSteps
  <2>2. bound[g][s] # None => bound[g][s].seen \in Nat /\ bound[g][s].seen <= now
    BY <1>0 DEF Times, Bindings, LocalBindings
  <2> QED
    BY <1>0, <2>1, <2>2
<1>2. ASSUME binding'[s] # None PROVE binding'[s].expires \in now' + 1 .. now' + TtlTicks
  <2>1. \/ binding[s] # None /\ binding'[s].expires = binding[s].expires
        \/ binding'[s].expires = KeyExpiry /\ now' = now
    BY <1>2, BindingSteps
  <2>2. binding[s] # None => binding[s].expires \in now + 1 .. now + TtlTicks
    BY DEF Times
  <2>3. now' = now \/ binding'[s].expires > now'
    BY <1>2, ClockSteps
  <2> QED
    BY <1>0, <2>1, <2>2, <2>3
<1>3. stored'[s] \in {0} \cup (now' + 1 .. now' + TtlTicks)
  <2>1. stored[s] \in {0} \cup (now + 1 .. now + TtlTicks)
    BY DEF Times
  <2>2. now' = now \/ stored'[s] = 0 \/ stored'[s] > now'
    BY ClockSteps
  <2> QED
    BY <1>0, <2>1, <2>2, StoredSteps
<1>4. active'[s] <= Fastest' + Ttl
  <2>1. active[s] \in Nat /\ active[s] <= Fastest + Ttl
    BY <1>0 DEF Times, Fastest
  <2>2. \/ active'[s] \in {active[s], 0}
        \/ \E read \in ClockReads : active'[s] \in {Swept(read)[s], Score(read)}
    <3>1. ASSUME NEW q \in Sessions, NEW read \in ClockReads, binding[q] # None, Touch(q, read)
          PROVE  active'[s] \in {active[s], Score(read)}
      BY <3>1, TouchedKeys
    <3>2. ASSUME NEW q \in Sessions, NEW read \in ClockReads, Enrols(q, read)
          PROVE  active'[s] \in {Swept(read)[s], Score(read)}
      <4>1. Swept(read) \in [Sessions -> Nat]
        BY <1>0 DEF Swept
      <4> QED
        BY <3>2, <4>1 DEF Enrols
    <3>3. ASSUME NEW q \in Sessions, active' = [active EXCEPT ![q] = 0]
          PROVE  active'[s] \in {active[s], 0}
      BY <1>0, <3>3
    <3> QED
      BY <3>1, <3>2, <3>3, ActiveSteps
  <2>3. \A read \in ClockReads : Swept(read)[s] \in {active[s], 0}
    BY DEF Swept
  <2> QED
    BY <1>0, <2>1, <2>2, <2>3
<1> QED
  BY <1>1, <1>2, <1>3, <1>4

-------------------------------------------------------------------------------
(* Whose care a transport session is in                                    *)

\* A request in progress that will close the session, or bind it.
Claims(r, g, s) ==
  /\ req[r].at = g
  /\ \/ s \in req[r].closing
     \/ req[r].session = s /\ req[r].stage \in {"recheck", "bind", "touchNew"}

Cared(g, s) ==
  \/ bound[g][s] # None
  \/ <<g, s>> \in abandoned
  \/ \E r \in Requests : Claims(r, g, s)

\* A request leaves an await only when it has closed what it pruned.
LEMMA NothingToClose ==
  ASSUME ShapeInv, NEW r \in Requests, NEW stage, Ready(r, stage)
  PROVE  req[r].stage = stage /\ req[r].closing = {}
  BY DEF ShapeInv, HandlersFit, Fits, Ready, Prunes

\* A request that lets go of a session has closed it, bound it, or is recorded
\* to have left it behind.
LEMMA ClaimSteps ==
  ASSUME ShapeInv, NEW r \in Requests, NEW g \in Gateways, NEW s \in Sessions,
         Step(r) \/ Disconnect(r) \/ \E h \in Gateways : Admit(r, h),
         Claims(r, g, s), s \in transport'[g]
  PROVE  Claims(r, g, s)' \/ bound'[g][s] # None \/ <<g, s>> \in abandoned'
<1> DEFINE Kept == Claims(r, g, s)' \/ bound'[g][s] # None \/ <<g, s>> \in abandoned'
<1>0. /\ req \in [Requests -> Handlers] /\ \A q \in Requests : Fits(req[q])
      /\ bound \in [Gateways -> Bindings] /\ now \in Nat
      /\ transport \in [Gateways -> SUBSET Sessions]
      /\ req[r].at = g
  BY LimitsAssumption DEF ShapeInv, Shapes, HandlersFit, Bindings, Claims
<1>1. CASE \E h \in Gateways : Admit(r, h)
  BY <1>0, <1>1 DEF Admit, Claims, Fits
<1>2. CASE Prune(r)
  <2> DEFINE full == Cardinality(Bound(At(r)) \ Expired(At(r))) >= MaxSessions
             h == [req[r] EXCEPT !.pruned = TRUE, !.closing = Expired(At(r)), !.full = full]
  <2>1. req' = [req EXCEPT ![r] = h] /\ ~req[r].pruned
    BY <1>2 DEF Prune
  <2>2. h.stage = req[r].stage /\ h.at = req[r].at /\ h.session = req[r].session
    BY <1>0 DEF Handlers
  <2> HIDE DEF h
  <2>3. req[r].closing = {}
    BY <1>0, <2>1 DEF Fits
  <2> QED
    BY <1>0, <2>1, <2>2, <2>3 DEF Claims
<1>3. CASE CloseExpired(r)
  <2>1. PICK x \in req[r].closing :
          /\ req' = [req EXCEPT ![r].closing = @ \ {x}]
          /\ transport' = [transport EXCEPT ![req[r].at] = @ \ {x}]
    BY <1>3 DEF CloseExpired
  <2> DEFINE h == [req[r] EXCEPT !.closing = @ \ {x}]
  <2>2. req' = [req EXCEPT ![r] = h]
    BY <1>0, <2>1
  <2>3. /\ h.stage = req[r].stage /\ h.at = req[r].at /\ h.session = req[r].session
        /\ h.closing = req[r].closing \ {x}
    BY <1>0 DEF Handlers
  <2> HIDE DEF h
  <2>4. s # x
    BY <1>0, <2>1
  <2> QED
    BY <1>0, <2>2, <2>3, <2>4 DEF Claims
<1>4. ASSUME NEW stage, Ready(r, stage)
      PROVE  /\ req[r].stage = stage /\ stage \in {"recheck", "bind", "touchNew"}
             /\ req[r].session = s
  BY <1>4, NothingToClose DEF Claims
<1>5. ASSUME CloseSession(r), \E stage : Ready(r, stage) PROVE FALSE
  BY <1>0, <1>4, <1>5 DEF CloseSession
<1>6. ASSUME NEW b \in LocalBindings, Writes(g, s, b) PROVE bound'[g][s] # None
  BY <1>0, <1>6, BoundAt, LimitsAssumption
<1>7. \A stage \in Stages : GoTo(r, stage) =>
        req'[r].stage = stage /\ req'[r].at = g /\ req'[r].session = req[r].session
  BY <1>0, GoesOn
<1>8. CASE VerifyLocal(r) \/ VerifyShared(r) \/ VerifyFails(r) \/ CheckCapacity(r)
           \/ Serve(r) \/ OpenSession(r) \/ EndSession(r) \/ TransportFails(r)
           \/ RemoveBinding(r) \/ RemoveFails(r)
  <2>1. \E stage \in {"verify", "check", "run", "remove"} : Ready(r, stage)
    BY <1>8
    DEF VerifyLocal, VerifyShared, VerifyFails, CheckCapacity, Serve, OpenSession, EndSession,
        TransportFails, RemoveBinding, RemoveFails, RedisFails
  <2> QED
    BY <1>4, <2>1
<1>9. CASE TouchLocal(r) \/ BindLocal(r)
  <2> DEFINE b == [subject |-> req[r].subject, seen |-> now]
  <2>1. \E stage \in {"touchNew", "bind"} : Ready(r, stage)
    BY <1>4, <1>9 DEF TouchLocal, BindLocal
  <2>2. req[r].session = s /\ req[r].subject \in Subjects
    BY <1>0, <1>4, <2>1 DEF Fits
  <2>3. b \in LocalBindings
    BY <1>0, <2>2 DEF LocalBindings
  <2>4. CloseSession(r) \/ Writes(g, s, b)
    BY <1>0, <1>9, <2>2 DEF TouchLocal, BindLocal, Writes
  <2> QED
    BY <1>5, <1>6, <2>1, <2>3, <2>4
<1>10. CASE Recheck(r) \/ BindShared(r)
  <2>1. \E stage : Ready(r, stage)
    BY <1>10 DEF Recheck, BindShared
  <2>2. CloseSession(r) \/ GoTo(r, "bind") \/ GoTo(r, "touchNew")
    BY <1>10 DEF Recheck, BindShared
  <2> QED
    BY <1>4, <1>5, <1>7, <2>1, <2>2 DEF Claims, Stages
<1>11. CASE CheckFails(r)
  BY <1>0, <1>4, <1>11 DEF CheckFails, RedisFails
<1>12. CASE BindFails(r)
  BY <1>5, <1>12 DEF BindFails, RedisFails
<1>13. CASE Disconnect(r)
  BY <1>0, <1>13 DEF Disconnect, LeftBehind, Claims
<1> QED
  BY <1>1, <1>2, <1>3, <1>8, <1>9, <1>10, <1>11, <1>12, <1>13 DEF Step

\* A local binding is given up with its session named for closing, with its
\* session gone, or on record.
LEMMA UnboundSteps ==
  ASSUME ShapeInv, NEW r \in Requests, NEW g \in Gateways, NEW s \in Sessions,
         Step(r) \/ Disconnect(r) \/ \E h \in Gateways : Admit(r, h),
         bound[g][s] # None, s \in transport'[g]
  PROVE  Claims(r, g, s)' \/ bound'[g][s] # None \/ <<g, s>> \in abandoned'
<1>0. /\ req \in [Requests -> Handlers] /\ \A q \in Requests : Fits(req[q])
      /\ bound \in [Gateways -> Bindings] /\ now \in Nat /\ up \subseteq Gateways
  BY LimitsAssumption DEF ShapeInv, Shapes, HandlersFit, Bindings
<1>1. CASE Prune(r)
  <2> DEFINE full == Cardinality(Bound(At(r)) \ Expired(At(r))) >= MaxSessions
             h == [req[r] EXCEPT !.pruned = TRUE, !.closing = Expired(At(r)), !.full = full]
  <2>1. req' = [req EXCEPT ![r] = h] /\ req[r].at \in Gateways
    BY <1>0, <1>1 DEF Prune, Prunes, Fits
  <2>2. h.at = req[r].at /\ h.closing = Expired(req[r].at)
    BY <1>0 DEF Handlers
  <2> HIDE DEF h
  <2> QED
    BY <1>0, <1>1, <2>1, <2>2, PrunedAt DEF Claims
<1>2. ASSUME NEW h \in Gateways, NEW q \in Sessions, NEW b \in LocalBindings, Writes(h, q, b)
      PROVE  bound'[g][s] # None
  BY <1>0, <1>2, BoundAt, LimitsAssumption
<1>3. CASE TouchLocal(r) \/ BindLocal(r)
  <2> DEFINE b == [subject |-> req[r].subject, seen |-> now]
  <2>1. req[r].at \in Gateways /\ req[r].session \in Sessions /\ req[r].subject \in Subjects
    BY <1>0, <1>3 DEF TouchLocal, BindLocal, Ready, Fits, Holds, Opening, Verifiable
  <2>2. b \in LocalBindings
    BY <1>0, <2>1 DEF LocalBindings
  <2>3. bound' = bound \/ Writes(req[r].at, req[r].session, b)
    BY <1>3 DEF TouchLocal, BindLocal, Writes
  <2> HIDE DEF b
  <2> QED
    BY <1>2, <2>1, <2>2, <2>3
<1>4. CASE VerifyLocal(r)
  <2>1. req[r].at \in Gateways /\ req[r].session \in Sessions
    BY <1>0, <1>4 DEF VerifyLocal, Ready, Fits
  <2>2. \/ bound' = bound
        \/ bound[req[r].at][req[r].session] # None /\ Touches(req[r].at, req[r].session)
    BY <1>4 DEF VerifyLocal, Touches
  <2> QED
    BY <1>0, <2>1, <2>2, TouchedAt, LimitsAssumption
<1>5. CASE RemoveBinding(r)
  <2>1. req[r].at \in Gateways /\ req[r].session \in Sessions
    BY <1>0, <1>5 DEF RemoveBinding, Ready, Fits, Holds, Verifiable
  <2>2. Writes(req[r].at, req[r].session, None)
    BY <1>5 DEF RemoveBinding, RemoveLocal, Writes
  <2>3. g = req[r].at /\ s = req[r].session => <<g, s>> \in abandoned'
    BY <1>5 DEF RemoveBinding
  <2> QED
    BY <1>0, <2>1, <2>2, <2>3, BoundAt
<1>6. CASE \/ CloseExpired(r) \/ VerifyShared(r) \/ VerifyFails(r) \/ CheckCapacity(r)
           \/ Recheck(r) \/ CheckFails(r) \/ Serve(r) \/ OpenSession(r) \/ EndSession(r)
           \/ TransportFails(r) \/ BindShared(r) \/ BindFails(r) \/ RemoveFails(r)
           \/ Disconnect(r) \/ \E h \in Gateways : Admit(r, h)
  BY <1>6
  DEF CloseExpired, VerifyShared, VerifyFails, CheckCapacity, Recheck, CheckFails, Serve,
      OpenSession, EndSession, TransportFails, BindShared, BindFails, RemoveFails, Disconnect,
      Admit
<1> QED
  BY <1>1, <1>3, <1>4, <1>5, <1>6 DEF Step

\* A session that appears in a gateway's transport is in somebody's care.
LEMMA TransportSteps ==
  ASSUME ShapeInv, NEW r \in Requests, NEW g \in Gateways, NEW s \in Sessions,
         Step(r) \/ Disconnect(r) \/ \E h \in Gateways : Admit(r, h),
         s \notin transport[g], s \in transport'[g]
  PROVE  Claims(r, g, s)' \/ bound'[g][s] # None \/ <<g, s>> \in abandoned'
<1>0. /\ req \in [Requests -> Handlers] /\ \A q \in Requests : Fits(req[q])
      /\ transport \in [Gateways -> SUBSET Sessions] /\ up \subseteq Gateways
  BY DEF ShapeInv, Shapes, HandlersFit
<1>1. CASE Serve(r)
  <2>1. /\ transport' = [transport EXCEPT ![req[r].at] = @ \cup {req[r].session}]
        /\ bound' = bound
        /\ bound[req[r].at][req[r].session] = None
             => <<req[r].at, req[r].session>> \in abandoned'
    BY <1>1 DEF Serve
  <2>2. g = req[r].at /\ s = req[r].session
    BY <1>0, <2>1
  <2> QED
    BY <2>1, <2>2
<1>2. CASE OpenSession(r)
  <2>1. PICK x \in Sessions :
          /\ transport' = [transport EXCEPT ![req[r].at] = @ \cup {x}]
          /\ req' = [req EXCEPT ![r] = [@ EXCEPT !.stage = "recheck", !.session = x]]
    BY <1>2 DEF OpenSession
  <2> DEFINE h == [req[r] EXCEPT !.stage = "recheck", !.session = x]
  <2>2. req' = [req EXCEPT ![r] = h]
    BY <1>0, <2>1
  <2>3. h.stage = "recheck" /\ h.at = req[r].at /\ h.session = x
    BY <1>0 DEF Handlers
  <2> HIDE DEF h
  <2>4. g = req[r].at /\ s = x
    BY <1>0, <2>1
  <2> QED
    BY <1>0, <2>2, <2>3, <2>4 DEF Claims
<1>3. ASSUME CloseSession(r) PROVE FALSE
  BY <1>0, <1>3 DEF CloseSession
<1>4. CASE CloseExpired(r)
  BY <1>0, <1>4 DEF CloseExpired
<1>5. CASE \/ Prune(r) \/ VerifyLocal(r) \/ VerifyShared(r) \/ VerifyFails(r) \/ TouchLocal(r)
           \/ CheckCapacity(r) \/ CheckFails(r) \/ TransportFails(r) \/ RemoveBinding(r)
           \/ RemoveFails(r) \/ Disconnect(r) \/ \E h \in Gateways : Admit(r, h)
  BY <1>5
  DEF Prune, VerifyLocal, VerifyShared, VerifyFails, TouchLocal, CheckCapacity, CheckFails,
      TransportFails, RemoveBinding, RemoveFails, Disconnect, Admit
<1>6. CASE Recheck(r) \/ EndSession(r) \/ BindLocal(r) \/ BindShared(r) \/ BindFails(r)
  BY <1>3, <1>6 DEF Recheck, EndSession, BindLocal, BindShared, BindFails
<1> QED
  BY <1>1, <1>2, <1>4, <1>5, <1>6 DEF Step

\* No step leaves a transport session in nobody's care.
LEMMA NextCare == ShapeInv /\ NoLeakedSession /\ [Next]_vars => NoLeakedSession'
<1> SUFFICES ASSUME ShapeInv, NoLeakedSession, [Next]_vars,
                    NEW g \in Gateways, NEW s \in transport'[g]
             PROVE  Cared(g, s)'
  BY DEF NoLeakedSession, Cared, Claims
<1>0. /\ transport \in [Gateways -> SUBSET Sessions] /\ s \in Sessions
      /\ req \in [Requests -> Handlers]
      /\ s \in transport[g] => Cared(g, s)
  <2>1. ShapeInv'
    BY NextShapes
  <2>2. s \in Sessions
    BY <2>1 DEF ShapeInv, Shapes
  <2>3. s \in transport[g] => Cared(g, s)
    BY DEF NoLeakedSession, Cared, Claims
  <2> QED
    BY <2>2, <2>3 DEF ShapeInv, Shapes
<1>1. ASSUME NEW r \in Requests, Step(r) \/ Disconnect(r) \/ \E h \in Gateways : Admit(r, h)
      PROVE  Cared(g, s)'
  <2>1. ASSUME NEW q \in Requests, Claims(q, g, s), q # r PROVE Claims(q, g, s)'
    BY <1>1, <2>1, OthersStay DEF Claims
  <2>2. abandoned \subseteq abandoned'
    BY <1>1
    DEF Step, Prune, CloseExpired, VerifyLocal, VerifyShared, VerifyFails, TouchLocal,
        CheckCapacity, Recheck, CheckFails, Serve, OpenSession, EndSession, TransportFails,
        BindLocal, BindShared, BindFails, RemoveBinding, RemoveFails, Disconnect, Admit, history
  <2>3. \/ s \notin transport[g] \/ bound[g][s] # None \/ <<g, s>> \in abandoned
        \/ Claims(r, g, s) \/ \E q \in Requests \ {r} : Claims(q, g, s)
    BY <1>0 DEF Cared
  <2>4. CASE s \notin transport[g]
    BY <1>0, <1>1, <2>4, TransportSteps DEF Cared
  <2>5. CASE bound[g][s] # None
    BY <1>0, <1>1, <2>5, UnboundSteps DEF Cared
  <2>6. CASE Claims(r, g, s)
    BY <1>0, <1>1, <2>6, ClaimSteps DEF Cared
  <2> QED
    BY <2>1, <2>2, <2>3, <2>4, <2>5, <2>6 DEF Cared
<1>2. ASSUME NEW h \in Gateways, Restart(h) PROVE Cared(g, s)'
  <2>1. g # h /\ s \in transport[g]
    BY <1>0, <1>2 DEF Restart
  <2>2. bound[g][s] # None => bound'[g][s] # None
    BY <1>2, <2>1 DEF Restart, ShapeInv, Shapes
  <2>3. <<g, s>> \in abandoned => <<g, s>> \in abandoned'
    BY <1>2, <2>1 DEF Restart
  <2>4. ASSUME NEW r \in Requests, Claims(r, g, s) PROVE Claims(r, g, s)'
    BY <1>2, <2>1, <2>4 DEF Restart, Claims
  <2> QED
    BY <1>0, <2>1, <2>2, <2>3, <2>4 DEF Cared
<1>3. CASE Tick \/ UNCHANGED vars
  BY <1>0, <1>3 DEF Tick, vars, history, Cared, Claims
<1> QED
  BY <1>1, <1>2, <1>3 DEF Next

-------------------------------------------------------------------------------
(* A session that was ended                                                *)

\* No request can be verified for the session.
Unusable(s) ==
  binding[s] = None /\ (~redis => \A g \in up : bound[g][s] = None)

\* A session that is being opened is not in use, and only its opener has it.
OpeningInv ==
  \A r \in Requests : req[r].stage \in Opening =>
    /\ Unusable(req[r].session)
    /\ \A q \in Requests \ {r} :
         req[q].session = req[r].session => req[q].stage \notin Holds \cup {"run"}

\* A session that was ended is not in use, and nobody is opening it.
EndedInv ==
  \A s \in ended :
    /\ Unusable(s) /\ owner[s] # None
    /\ \A r \in Requests : req[r].stage \in Opening => req[r].session # s

EndInv == SubjectInv /\ OpeningInv /\ EndedInv

\* Only the request that opened a session puts it to use, by binding it.
LEMMA PutToUse ==
  ASSUME ShapeInv, [Next]_vars, NEW s \in Sessions, Unusable(s), ~Unusable(s)'
  PROVE  \E q \in Requests :
           req[q].stage = "bind" /\ req[q].session = s /\ req'[q].stage \notin Opening
<1>0. req \in [Requests -> Handlers] /\ up \subseteq Gateways /\ redis' = redis /\ up' = up
  BY DeploymentStays DEF ShapeInv, Shapes
<1>1. ASSUME NEW q \in Requests, BindLocal(q) \/ BindShared(q) \/ BindFails(q)
      PROVE  req'[q].stage \notin Opening
  <2>1. Answer(q) \/ GoTo(q, "touchNew")
    BY <1>1 DEF BindLocal, BindShared, BindFails
  <2> QED
    BY <1>0, <2>1, Answers, GoesOn DEF Stages, Opening
<1>2. CASE binding'[s] # None
  BY <1>1, <1>2, BindingSteps DEF Unusable
<1>3. ASSUME NEW g \in up, ~redis, bound'[g][s] # None
      PROVE  \E q \in Requests :
               req[q].stage = "bind" /\ req[q].session = s /\ req'[q].stage \notin Opening
  <2>1. g \in Gateways /\ bound[g][s] = None
    BY <1>0, <1>3 DEF Unusable
  <2> QED
    BY <1>1, <1>3, <2>1, BoundSteps
<1> QED
  BY <1>0, <1>2, <1>3 DEF Unusable

\* A request is verified only for a session that can be used.
LEMMA VerifiedIsUsable ==
  ASSUME ShapeInv, [Next]_vars, NEW q \in Requests,
         req[q].stage = "verify", req'[q].stage \in {"touch", "run"}
  PROVE  /\ req'[q].session = req[q].session /\ req[q].session \in Sessions
         /\ ~Unusable(req[q].session)
<1>0. /\ req \in [Requests -> Handlers] /\ Fits(req[q])
  BY DEF ShapeInv, Shapes, HandlersFit
<1>1. (VerifyLocal(q) \/ VerifyShared(q)) /\ SameRequest(q)
  BY HandlerSteps DEF Follows
<1>2. ~Answer(q)
  BY <1>0, Answers
<1>3. \/ /\ ~redis /\ bound[req[q].at][req[q].session] # None
      \/ binding[req[q].session] # None
  BY <1>1, <1>2 DEF VerifyLocal, VerifyShared, Verified
<1>4. req[q].at \in up /\ req[q].session \in Sessions
  BY <1>0 DEF Fits
<1> QED
  BY <1>1, <1>3, <1>4 DEF Unusable, SameRequest

\* What a request that has a session tells of it.
LEMMA HoldersKnow ==
  ASSUME SubjectInv, NEW r \in Requests, req[r].stage \in Holds \cup {"run"},
         req[r].session # None
  PROVE  req[r].session \in Sessions /\ owner[req[r].session] # None
  BY LimitsAssumption
  DEF SubjectInv, HoldersOwn, ShapeInv, Shapes, Handlers, HandlersFit, Fits, Holds, Verifiable,
      Opening

\* A session that is being opened stays with its opener until it is bound.
LEMMA NextOpening == EndInv /\ [Next]_vars => OpeningInv'
<1> SUFFICES ASSUME EndInv, [Next]_vars, NEW r \in Requests, req'[r].stage \in Opening,
                    NEW s, s = req'[r].session
             PROVE  /\ Unusable(s)'
                    /\ \A q \in Requests \ {r} :
                         req'[q].session = s => req'[q].stage \notin Holds \cup {"run"}
  BY DEF OpeningInv
<1>0. /\ ShapeInv /\ SubjectInv /\ OpeningInv
      /\ \A q \in Requests : req[q] \in Handlers /\ Fits(req[q])
  BY DEF EndInv, SubjectInv, ShapeInv, Shapes, HandlersFit
<1>1. CASE req[r].stage \in Opening /\ SameRequest(r)
  <2>1. /\ s = req[r].session /\ s \in Sessions /\ owner[s] # None /\ Unusable(s)
        /\ \A q \in Requests \ {r} :
             req[q].session = s => req[q].stage \notin Holds \cup {"run"}
    BY <1>0, <1>1, LimitsAssumption, HoldersKnow
    DEF SameRequest, OpeningInv, Fits, Holds
  <2>2. Unusable(s)'
    BY <1>0, <2>1, PutToUse DEF Holds, Opening
  <2>3. ASSUME NEW q \in Requests \ {r}, req'[q].session = s,
               req'[q].stage \in Holds \cup {"run"}
        PROVE  FALSE
    <3>1. \/ req'[q].stage = req[q].stage /\ SameRequest(q)
          \/ req[q].stage = "verify" /\ req'[q].stage \in {"touch", "run"}
          \/ <<req[q].stage, req'[q].stage>> \in Follows /\ SameRequest(q)
          \/ owner[req'[q].session] = None
      BY <1>0, <2>3, HandlerSteps DEF Holds, Verifiable, Opening
    <3>2. CASE req'[q].stage = req[q].stage /\ SameRequest(q)
      BY <2>1, <2>3, <3>2 DEF SameRequest
    <3>3. CASE req[q].stage = "verify" /\ req'[q].stage \in {"touch", "run"}
      BY <1>0, <2>1, <2>3, <3>3, VerifiedIsUsable
    <3>4. CASE <<req[q].stage, req'[q].stage>> \in Follows /\ SameRequest(q)
      <4>1. req[q].stage \in Holds \cup {"run"} \/ req[q].stage = "check"
        BY <3>4 DEF Follows, Holds, Verifiable, Opening
      <4>2. req[q].stage # "check"
        BY <1>0, <2>1, <2>3, <3>4, LimitsAssumption DEF Fits, SameRequest
      <4> QED
        BY <2>1, <2>3, <3>4, <4>1, <4>2 DEF SameRequest
    <3> QED
      BY <2>1, <2>3, <3>1, <3>2, <3>3, <3>4
  <2> QED
    BY <2>2, <2>3
<1>2. CASE OpenSession(r) /\ s \in Sessions /\ owner[s] = None
  <2>1. ASSUME NEW q \in Requests, req[q].session = s
        PROVE  req[q].stage \notin Holds \cup {"run"}
    BY <1>0, <1>2, <2>1, HoldersKnow, LimitsAssumption
  <2>2. Unusable(s)
    BY <1>0, <1>2, LimitsAssumption
    DEF Unusable, SubjectInv, SessionKeepsItsSubject, ShapeInv, Shapes, LocalBindings,
        SharedBindings
  <2>3. Unusable(s)'
    BY <1>0, <1>2, <2>1, <2>2, PutToUse DEF Holds, Opening
  <2>4. \A q \in Requests \ {r} : req'[q] = req[q]
    BY <1>0, <1>2, OthersStay DEF Step
  <2> QED
    BY <2>1, <2>3, <2>4
<1>3. \/ req[r].stage \in Opening /\ SameRequest(r)
      \/ OpenSession(r) /\ s \in Sessions /\ owner[s] = None
  <2>1. req'[r].stage \in {"recheck", "bind"}
    BY DEF Opening
  <2> QED
    BY <1>0, <2>1, HandlerSteps DEF Follows, Opening
<1> QED
  BY <1>1, <1>2, <1>3

\* Sessions are ended by the removal of their binding, and by nothing else.
LEMMA EndedSteps ==
  ASSUME [Next]_vars, NEW s, s \in ended'
  PROVE  s \in ended \/ \E r \in Requests : RemoveBinding(r) /\ s = req[r].session
<1>1. (\A r \in Requests : ~RemoveBinding(r)) => ended' = ended
  BY DEF Next, Step, vars, Admit, Prune, CloseExpired, VerifyLocal, VerifyShared,
         VerifyFails, TouchLocal, CheckCapacity, Recheck, CheckFails, Serve, OpenSession,
         EndSession, TransportFails, BindLocal, BindShared, BindFails, RemoveFails,
         Disconnect, Restart, Tick, history
<1> QED
  BY <1>1 DEF RemoveBinding

\* A session that was ended does not come back.
LEMMA NextEnded == EndInv /\ [Next]_vars => EndedInv'
<1> SUFFICES ASSUME EndInv, [Next]_vars, NEW s \in ended'
             PROVE  /\ Unusable(s)' /\ owner'[s] # None
                    /\ \A r \in Requests : req'[r].stage \in Opening => req'[r].session # s
  BY DEF EndedInv
<1>0. /\ ShapeInv /\ SubjectInv /\ OpeningInv /\ EndedInv
      /\ \A q \in Requests : req[q] \in Handlers /\ Fits(req[q])
      /\ req \in [Requests -> Handlers] /\ ended \subseteq Sessions
  BY DEF EndInv, SubjectInv, ShapeInv, Shapes, HandlersFit
<1>1. CASE s \in ended
  <2>1. /\ s \in Sessions /\ Unusable(s) /\ owner[s] # None
        /\ \A r \in Requests : req[r].stage \in Opening => req[r].session # s
    BY <1>0, <1>1 DEF EndedInv
  <2>2. Unusable(s)'
    BY <1>0, <2>1, PutToUse DEF Opening
  <2>3. owner'[s] = owner[s]
    BY <1>0, <2>1, OwnerSteps
  <2>4. ASSUME NEW r \in Requests, req'[r].stage \in Opening PROVE req'[r].session # s
    <3>1. \/ req[r].stage \in Opening /\ req'[r].session = req[r].session
          \/ owner[req'[r].session] = None
      BY <1>0, <2>4, HandlerSteps DEF Follows, Opening, SameRequest
    <3> QED
      BY <2>1, <3>1
  <2> QED
    BY <2>1, <2>2, <2>3, <2>4
<1>2. ASSUME NEW r \in Requests, RemoveBinding(r), s = req[r].session
      PROVE  /\ Unusable(s)' /\ owner'[s] # None
             /\ \A q \in Requests : req'[q].stage \in Opening => req'[q].session # s
  <2>1. req[r].stage = "remove" /\ req[r].at \in up /\ s \in Sessions /\ s # None
    BY <1>0, <1>2, LimitsAssumption DEF RemoveBinding, Ready, Fits, Holds, Verifiable
  <2>2. owner'[s] # None
    BY <1>0, <1>2, <2>1, HoldersKnow, OwnerSteps DEF Holds, Verifiable
  <2>3. binding'[s] = None
    BY <1>0, <1>2, <2>1 DEF RemoveBinding, Unbind, ShapeInv, Shapes
  <2>4. ASSUME NEW g \in up, ~redis PROVE bound'[g][s] = None
    <3>1. g = req[r].at /\ g \in Gateways
      BY <1>0, <2>1, <2>4 DEF ShapeInv, Shapes, OneUnlessShared
    <3>2. Writes(g, s, None)
      BY <1>2, <3>1 DEF RemoveBinding, RemoveLocal, Writes
    <3>3. bound \in [Gateways -> Bindings]
      BY <1>0 DEF ShapeInv, Shapes, Bindings
    <3> QED
      BY <2>1, <3>1, <3>2, <3>3, BoundAt
  <2>5. Unusable(s)'
    BY <2>3, <2>4, DeploymentStays DEF Unusable
  <2>6. ASSUME NEW q \in Requests, req'[q].stage \in Opening, req'[q].session = s PROVE FALSE
    <3>1. q # r
      BY <1>0, <1>2, <2>6, Answers DEF RemoveBinding, Opening
    <3>2. req'[q] = req[q]
      BY <1>0, <1>2, <3>1, OthersStay DEF Step
    <3> QED
      BY <1>0, <1>2, <2>1, <2>6, <3>1, <3>2 DEF OpeningInv, Holds, Verifiable
  <2> QED
    BY <2>2, <2>5, <2>6
<1> QED
  BY <1>1, <1>2, EndedSteps

\* Init binds nothing, and no session has an owner.
LEMMA InitEmpty ==
  Init => /\ SubjectInv /\ LocalInv
<1> SUFFICES ASSUME Init PROVE SubjectInv /\ LocalInv
  OBVIOUS
<1>1. ShapeInv
  BY InitShapes
<1>2. SessionKeepsItsSubject /\ HoldersOwn
  BY DEF Init, SessionKeepsItsSubject, HoldersOwn, Idle, Holds, Verifiable, Opening
<1>3. ASSUME NEW g \in up PROVE IsFiniteSet(Bound(g)) /\ Cardinality(Bound(g)) <= MaxSessions
  <2>1. Bound(g) = {}
    BY <1>1 DEF Init, Bound, ShapeInv, Shapes
  <2> QED
    BY <2>1, FS_EmptySet, LimitsAssumption
<1> QED
  BY <1>1, <1>2, <1>3 DEF SubjectInv, LocalInv

\* The type invariant, with every time within one TTL of the clock.
THEOREM GatewayTypes == Spec => []TypeOK
<1>1. Init => Times
  <2> SUFFICES ASSUME Init PROVE Times
    OBVIOUS
  <2>1. now = MaxLag /\ MaxLag \in Nat /\ Ttl \in Nat
    BY LimitsAssumption DEF Init
  <2>2. Fastest \in Nat
    BY <2>1, Clocks
  <2> QED
    BY <2>1, <2>2, LimitsAssumption DEF Init, Times, Fastest
<1>2. ShapeInv /\ Times => TypeOK
  BY DEF ShapeInv, TypeOK
<1> QED
  BY <1>1, <1>2, InitShapes, NextShapes, NextTimes, PTL DEF Spec

\* Whatever mentions a session names the subject that opened it: the local
\* bindings, the Redis binding and the requests past their verification
\* (remote.rs:528), through faults and restarts.
THEOREM SubjectsStay == Spec => []SessionKeepsItsSubject
<1>1. SubjectInv => SessionKeepsItsSubject
  BY DEF SubjectInv
<1> QED
  BY <1>1, InitEmpty, NextSubjects, PTL DEF Spec

\* Gateways that share Redis keep the active set within max_sessions, apart
\* from the sessions a touch puts back; and a session in use that is not counted
\* expires within a second and what the gateways' clocks and scripts are behind
\* or ahead of Redis, for any such bounds (redis_store.rs:64-170).
THEOREM SharedSetCapacity == Spec => []SharedCapacity
<1>1. Init => ShapeInv /\ CountInv /\ ScoreInv
  <2> SUFFICES ASSUME Init PROVE ShapeInv /\ CountInv /\ ScoreInv
    OBVIOUS
  <2>1. Members(active) = {} /\ Counted = {}
    BY DEF Init, Members, Counted
  <2>2. CountInv
    BY <2>1, FS_EmptySet, LimitsAssumption DEF CountInv
  <2> QED
    BY <2>2, InitShapes DEF Init, ScoreInv
<1>2. ShapeInv /\ CountInv /\ ScoreInv => SharedCapacity
  <2> SUFFICES ASSUME ShapeInv, CountInv, ScoreInv, NEW s \in Sessions,
                      binding[s] # None, active[s] = 0
               PROVE  binding[s].expires - now < TicksPerSecond + MaxLag + MaxLead
    BY DEF SharedCapacity, CountInv, Counted
  <2>1. /\ binding[s].expires \in Nat /\ now \in Nat
        /\ binding[s].expires < now + (TicksPerSecond + MaxLag + MaxLead)
    BY LimitsAssumption DEF Slack, ShapeInv, Shapes, ScoreInv, SharedBindings
  <2> QED
    BY <2>1, LimitsAssumption
<1> QED
  BY <1>1, <1>2, NextShapes, NextCount, NextScores, PTL DEF Spec

\* A gateway alone binds at most max_sessions, however many requests pass the
\* first capacity check at once: the second count is taken under the lock
\* that binds (remote.rs:564).
THEOREM GatewayCapacity == Spec => []LocalCapacity
<1>1. LocalInv => LocalCapacity
  BY DEF LocalInv, LocalCapacity
<1>2. SubjectInv => ShapeInv
  BY DEF SubjectInv
<1> QED
  BY <1>1, <1>2, InitEmpty, InitShapes, NextShapes, NextLocal, PTL DEF Spec

\* A gateway holds no transport session that is neither bound, nor in the hands
\* of a request that will bind or close it, nor left by one of the recorded
\* drops and stalls (remote.rs:446-475).
THEOREM NoSessionLeaks == Spec => []NoLeakedSession
<1>1. Init => NoLeakedSession
  BY DEF Init, NoLeakedSession
<1> QED
  BY <1>1, InitShapes, NextShapes, NextCare, PTL DEF Spec

\* Once a DELETE was answered with success, no request passes the verification
\* of that session on any gateway, whatever faults and restarts come between
\* (remote.rs:417, 440).
THEOREM EndedForGood == Spec => EndedStaysEnded
<1>1. Init => EndInv
  BY InitEmpty DEF Init, EndInv, OpeningInv, EndedInv, Idle, Opening
<1>2. EndInv /\ [Next]_vars => EndInv'
  BY NextSubjects, NextOpening, NextEnded DEF EndInv
<1>3. EndInv /\ [Next]_vars =>
        [\A r \in Requests :
           req[r].stage = "verify" /\ req'[r].stage \in {"touch", "run"}
             => req[r].session \notin ended]_vars
  BY VerifiedIsUsable DEF EndInv, SubjectInv, EndedInv
<1> QED
  BY <1>1, <1>2, <1>3, PTL DEF Spec, EndedStaysEnded

===============================================================================
