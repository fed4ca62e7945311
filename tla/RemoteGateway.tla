----------------------------- MODULE RemoteGateway -----------------------------
(***************************************************************************)
(* The remote MCP gateway (mcp/remote.rs): an axum middleware in front of  *)
(* rmcp's streamable HTTP transport that authenticates each request, binds *)
(* a transport session to the subject that opened it and limits how many   *)
(* are open.  One gateway keeps its bindings in memory; several share them *)
(* through Redis (mcp/redis_store.rs), whose Lua scripts are atomic steps  *)
(* here.  The transport creates, restores and deletes sessions itself, so  *)
(* bindings, Redis keys and transport sessions are updated one await after *)
(* the other, and a request can be dropped at any of them.                 *)
(*                                                                         *)
(* The clock counts ticks.  A Redis key expires at its tick, by Redis's    *)
(* clock; a score of the active set is a whole number of seconds, by the   *)
(* clock of the gateway that ran the script, read before it was sent       *)
(* (unix_time_seconds).                                                    *)
(***************************************************************************)
EXTENDS Integers, FiniteSets

CONSTANTS
  Gateways,        (* broker instances                                      *)
  Requests,        (* HTTP requests that may be in progress at once         *)
  Sessions,        (* session ids the transport can draw                    *)
  Subjects,        (* (principal, tenant, client) of an access token        *)
  None,
  MaxSessions,     (* --max-sessions                                        *)
  MaxConcurrency,  (* --max-concurrency, per gateway                        *)
  Ttl,             (* --session-ttl-seconds                                 *)
  TicksPerSecond,
  MaxLag, MaxLead, (* how far a gateway's clock, as a script gets it, is      *)
                   (* behind Redis's (skew and delay) or ahead of it, in ticks *)
  MaxTime,         (* bound on the clock                                    *)
  MaxRequests,     (* bound on the requests of a run                        *)
  MaxFaults        (* bound on Redis errors, disconnects and restarts       *)

\* BoundSession in memory, and a binding as Redis keeps it.
LocalBindings == [subject : Subjects, seen : Nat]
SharedBindings == [subject : Subjects, expires : Nat]

\* validate_config refuses limits that are not positive.
ASSUME LimitsAssumption ==
  /\ MaxSessions \in Nat \ {0} /\ MaxConcurrency \in Nat \ {0}
  /\ Ttl \in Nat \ {0} /\ TicksPerSecond \in Nat \ {0}
  /\ {MaxLag, MaxLead, MaxTime, MaxFaults, MaxRequests} \subseteq Nat /\ MaxLag <= MaxTime
  /\ None \notin Subjects \cup Sessions \cup Gateways
  /\ None \notin LocalBindings \cup SharedBindings

VARIABLES
  redis,      (* whether --redis-url was given                              *)
  up,         (* the gateways deployed: one unless they share Redis         *)
  now,
  req,        (* each request's handler: where it stands and what it holds  *)
  transport,  (* transport[g]: sessions that g's LocalSessionManager holds  *)
  bound,      (* bound[g][s]: session_bindings of g                         *)
  binding,    (* Redis: <prefix>:binding:<s>                                *)
  stored,     (* Redis: <prefix>:session:<s>, as the tick it expires at     *)
  active,     (* Redis: scores of the sorted set <prefix>:sessions:active   *)
  admitted,   (* how many requests were admitted so far                     *)
  faults,
  owner,      (* history: the subject that opened s                         *)
  ended,      (* history: sessions whose DELETE was answered with success   *)
  revived,    (* history: sessions a touch put back after they were swept   *)
  abandoned   (* history: <<g, s>> that g lost track of: a fault or a stall *)

keys == <<binding, stored, active>>
history == <<owner, ended, revived, abandoned>>
deployment == <<redis, up>>
bounds == <<admitted, faults>>
vars == <<deployment, now, req, transport, bound, keys, bounds, history>>

TtlTicks == Ttl * TicksPerSecond

\* unix_time_seconds() of a gateway, when the script that it was read for runs.
ClockReads == {(now + d) \div TicksPerSecond : d \in -MaxLag..MaxLead}

Stages == {"idle", "verify", "touch", "check", "run",
           "recheck", "bind", "touchNew", "remove"}

\* open: a request without a session id; call and delete name a session.
Kinds == {"open", "call", "delete"}

Handlers == [stage : Stages, at : Gateways \cup {None},
             kind : Kinds, subject : Subjects \cup {None},
             session : Sessions \cup {None},
             pruned : BOOLEAN, full : BOOLEAN, closing : SUBSET Sessions]

Idle == [stage |-> "idle", at |-> None, kind |-> "open", subject |-> None,
         session |-> None, pruned |-> FALSE, full |-> FALSE, closing |-> {}]

Init ==
  /\ redis \in BOOLEAN
  /\ IF redis THEN up = Gateways ELSE \E g \in Gateways : up = {g}
  /\ now = MaxLag   \* no clock is before the epoch
  /\ req = [r \in Requests |-> Idle]
  /\ transport = [g \in Gateways |-> {}]
  /\ bound = [g \in Gateways |-> [s \in Sessions |-> None]]
  /\ binding = [s \in Sessions |-> None]
  /\ stored = [s \in Sessions |-> 0]
  /\ active = [s \in Sessions |-> 0]
  /\ admitted = 0 /\ faults = 0
  /\ owner = [s \in Sessions |-> None]
  /\ ended = {} /\ revived = {} /\ abandoned = {}

At(r) == req[r].at
Bound(g) == {s \in Sessions : bound[g][s] # None}

\* A request leaves its await and stands at the next one.
GoTo(r, stage) ==
  req' = [req EXCEPT ![r] = [@ EXCEPT !.stage = stage, !.pruned = FALSE,
                                      !.full = FALSE, !.closing = {}]]

\* The response is sent (or the future dropped), and the permit with it.
Answer(r) == req' = [req EXCEPT ![r] = Idle]

Fault == faults < MaxFaults /\ faults' = faults + 1 /\ UNCHANGED admitted

-----------------------------------------------------------------------------
(* Admission.                                                                *)

\* introspect: the identity of an active token for this audience.
Introspected == Subjects

\* The semaphore is tried, never awaited, introspection names the subject and
\* the rate limit (module RateLimit) admits it: until then a request shares
\* nothing but its permit, and one that is refused here changes nothing.  The
\* session header tells which check comes next.
Admit(r, g) ==
  /\ req[r].stage = "idle" /\ g \in up
  /\ admitted < MaxRequests /\ admitted' = admitted + 1
  /\ Cardinality({q \in Requests : At(q) = g}) < MaxConcurrency
  /\ \E who \in Introspected :
       LET begun == [Idle EXCEPT !.at = g, !.subject = who] IN
       \/ req' = [req EXCEPT ![r] = [begun EXCEPT !.stage = "check"]]
       \/ \E kind \in {"call", "delete"}, s \in Sessions :
            /\ owner[s] # None
            /\ req' = [req EXCEPT ![r] =
                 [begun EXCEPT !.stage = "verify", !.kind = kind, !.session = s]]
  /\ UNCHANGED <<deployment, now, transport, bound, keys, faults, history>>

-----------------------------------------------------------------------------
(* Pruning of the local bindings: under their lock the expired ones are     *)
(* removed and the rest counted; their sessions are closed after it.  A     *)
(* pruning that finds nothing does not wait and is part of what follows it. *)

Prunes(r) ==
  \/ req[r].stage \in {"check", "recheck", "touch", "touchNew"}
  \/ ~redis /\ req[r].stage \in {"verify", "bind"}

Expired(g) == {s \in Bound(g) : now - bound[g][s].seen > TtlTicks}

Prune(r) ==
  LET g == At(r) IN
  /\ Prunes(r) /\ ~req[r].pruned /\ Expired(g) # {}
  /\ bound' = [bound EXCEPT ![g] =
       [s \in Sessions |-> IF s \in Expired(g) THEN None ELSE @[s]]]
  /\ req' = [req EXCEPT ![r] =
       [@ EXCEPT !.pruned = TRUE, !.closing = Expired(g),
                 !.full = Cardinality(Bound(g) \ Expired(g)) >= MaxSessions]]
  /\ UNCHANGED <<deployment, now, transport, keys, bounds, history>>

CloseExpired(r) ==
  \E s \in req[r].closing :
    /\ transport' = [transport EXCEPT ![At(r)] = @ \ {s}]
    /\ req' = [req EXCEPT ![r].closing = @ \ {s}]
    /\ UNCHANGED <<deployment, now, bound, keys, bounds, history>>

Ready(r, stage) ==
  /\ req[r].stage = stage
  /\ Prunes(r) => IF req[r].pruned THEN req[r].closing = {} ELSE Expired(At(r)) = {}

-----------------------------------------------------------------------------
(* Redis scripts.                                                            *)

\* Slip: the TTL is given in milliseconds.
KeyExpiryInMillis == now + 1000 * TtlTicks

KeyExpiry == now + TtlTicks
Score(read) == read + Ttl

\* ZREMRANGEBYSCORE -inf read
Swept(read) == [s \in Sessions |-> IF active[s] <= read THEN 0 ELSE active[s]]
Members(a) == {s \in Sessions : a[s] # 0}
\* Slip: the first capacity check is relied upon.
HasRoomUnchecked(s, read) == TRUE

HasRoom(s, read) ==
  Swept(read)[s] # 0 \/ Cardinality(Members(Swept(read))) < MaxSessions

\* redis_error: the command failed, or only its answer was lost.
RedisFails(r, stage) == redis /\ Ready(r, stage) /\ Fault

-----------------------------------------------------------------------------
(* A request that names a session: verify_session_binding.                   *)

VerifyLocal(r) ==
  LET g == At(r)  s == req[r].session IN
  /\ ~redis /\ Ready(r, "verify")
  /\ IF bound[g][s] # None /\ bound[g][s].subject = req[r].subject
       THEN /\ bound' = [bound EXCEPT ![g][s].seen = now]
            /\ GoTo(r, "run")
       ELSE Answer(r) /\ UNCHANGED bound
  /\ UNCHANGED <<deployment, now, transport, keys, bounds, history>>

\* Slip: any authenticated subject may use a bound session.
VerifiedForAny(r) ==
  LET s == req[r].session IN binding[s] # None /\ stored[s] # 0

Verified(r) ==
  LET s == req[r].session IN
  /\ binding[s] # None /\ binding[s].subject = req[r].subject
  /\ stored[s] # 0

\* EXPIRE both keys and ZADD: the active set is neither swept nor counted.
Touch(s, read) ==
  /\ binding' = [binding EXCEPT ![s].expires = KeyExpiry]
  /\ stored' = [stored EXCEPT ![s] = KeyExpiry]
  /\ active' = [active EXCEPT ![s] = Score(read)]
  /\ revived' = IF active[s] = 0 THEN revived \cup {s} ELSE revived

VerifyShared(r) ==
  /\ redis /\ Ready(r, "verify")
  /\ IF Verified(r)
       THEN GoTo(r, "touch") /\ \E read \in ClockReads : Touch(req[r].session, read)
       ELSE Answer(r) /\ UNCHANGED <<keys, revived>>
  /\ UNCHANGED <<deployment, now, transport, bound, bounds, owner, ended, abandoned>>

VerifyFails(r) ==
  /\ RedisFails(r, "verify")
  /\ \/ Verified(r) /\ \E read \in ClockReads : Touch(req[r].session, read)
     \/ UNCHANGED <<keys, revived>>
  /\ Answer(r)
  /\ UNCHANGED <<deployment, now, transport, bound, owner, ended, abandoned>>

\* touch_local_session, after a verification or a new binding in Redis.
TouchLocal(r) ==
  LET g == At(r)  s == req[r].session IN
  /\ \/ Ready(r, "touch") /\ GoTo(r, "run")
     \/ Ready(r, "touchNew") /\ Answer(r)
  /\ bound' = [bound EXCEPT ![g][s] = [subject |-> req[r].subject, seen |-> now]]
  /\ UNCHANGED <<deployment, now, transport, keys, bounds, history>>

-----------------------------------------------------------------------------
(* A request without a session: session_capacity_reached, before the        *)
(* transport runs and once more before the new session is bound.            *)

AtCapacity(r, read) ==
  IF redis THEN Cardinality(Members(Swept(read))) >= MaxSessions
  ELSE IF req[r].pruned THEN req[r].full
  ELSE Cardinality(Bound(At(r))) >= MaxSessions

SweepIfShared(read) == active' = IF redis THEN Swept(read) ELSE active

CheckCapacity(r) ==
  /\ Ready(r, "check")
  /\ \E read \in ClockReads :
       /\ IF AtCapacity(r, read) THEN Answer(r) ELSE GoTo(r, "run")
       /\ SweepIfShared(read)
  /\ UNCHANGED <<deployment, now, transport, bound, binding, stored, bounds, history>>

CloseSession(r) ==
  transport' = [transport EXCEPT ![At(r)] = @ \ {req[r].session}]

\* Slip: a session refused at the second check is not closed.
RecheckKeepsSession(r) ==
  /\ Ready(r, "recheck")
  /\ \E read \in ClockReads :
       /\ IF AtCapacity(r, read) THEN Answer(r) ELSE GoTo(r, "bind")
       /\ SweepIfShared(read)
  /\ UNCHANGED <<deployment, now, transport, bound, binding, stored, bounds, history>>

Recheck(r) ==
  /\ Ready(r, "recheck")
  /\ \E read \in ClockReads :
       /\ IF AtCapacity(r, read)
            THEN CloseSession(r) /\ Answer(r)
            ELSE GoTo(r, "bind") /\ UNCHANGED transport
       /\ SweepIfShared(read)
  /\ UNCHANGED <<deployment, now, bound, binding, stored, bounds, history>>

\* An error of the second check returns at once: the session stays open.
CheckFails(r) ==
  /\ \/ RedisFails(r, "check") /\ UNCHANGED abandoned
     \/ /\ RedisFails(r, "recheck")
        /\ abandoned' = abandoned \cup {<<At(r), req[r].session>>}
  /\ UNCHANGED active \/ \E read \in ClockReads : SweepIfShared(read)
  /\ Answer(r)
  /\ UNCHANGED <<deployment, now, transport, bound, binding, stored, owner, ended, revived>>

-----------------------------------------------------------------------------
(* The transport, next.run: it serves, opens and deletes sessions.          *)

\* A session missing here is restored from its stored state.
Serve(r) ==
  LET g == At(r)  s == req[r].session IN
  /\ Ready(r, "run") /\ req[r].kind = "call"
  /\ IF s \in transport[g] \/ stored[s] = 0
       THEN UNCHANGED <<transport, abandoned>>
       ELSE /\ transport' = [transport EXCEPT ![g] = @ \cup {s}]
            /\ abandoned' = IF bound[g][s] = None
                            THEN abandoned \cup {<<g, s>>} ELSE abandoned
  /\ Answer(r)
  /\ UNCHANGED <<deployment, now, bound, keys, bounds, owner, ended, revived>>

\* initialize: a session, and its state in Redis unless that write failed.
OpenSession(r) ==
  /\ Ready(r, "run") /\ req[r].kind = "open"
  /\ \E s \in Sessions :
       /\ owner[s] = None
       /\ owner' = [owner EXCEPT ![s] = req[r].subject]
       /\ transport' = [transport EXCEPT ![At(r)] = @ \cup {s}]
       /\ \/ /\ stored' = IF redis THEN [stored EXCEPT ![s] = KeyExpiry] ELSE stored
             /\ UNCHANGED bounds
          \/ redis /\ Fault /\ UNCHANGED stored
       /\ req' = [req EXCEPT ![r] = [@ EXCEPT !.stage = "recheck", !.session = s]]
  /\ UNCHANGED <<deployment, now, bound, binding, active, ended, revived, abandoned>>

\* SessionStore::delete
Erase(s) ==
  /\ binding' = [binding EXCEPT ![s] = None]
  /\ stored' = [stored EXCEPT ![s] = 0]
  /\ active' = [active EXCEPT ![s] = 0]

\* DELETE: the session is closed and its Redis keys are deleted.  Whether a
\* failure to delete them is an error of the request is left open.
EndSession(r) ==
  LET s == req[r].session IN
  /\ Ready(r, "run") /\ req[r].kind = "delete"
  /\ CloseSession(r)
  /\ \/ Erase(s) /\ GoTo(r, "remove") /\ UNCHANGED bounds
     \/ /\ redis /\ Fault
        /\ Erase(s) \/ UNCHANGED keys
        /\ GoTo(r, "remove") \/ Answer(r)
  /\ UNCHANGED <<deployment, now, bound, history>>

\* Any error of the transport: there is no session to bind or to remove.
TransportFails(r) ==
  /\ Ready(r, "run")
  /\ Answer(r)
  /\ UNCHANGED <<deployment, now, transport, bound, keys, bounds, history>>

-----------------------------------------------------------------------------
(* Binding a new session, and removing the binding of a deleted one.        *)

\* Slip: the bindings are not counted again under their lock.
BindLocalUncounted(r) ==
  LET g == At(r)  s == req[r].session IN
  /\ ~redis /\ Ready(r, "bind")
  /\ bound' = [bound EXCEPT ![g][s] = [subject |-> req[r].subject, seen |-> now]]
  /\ Answer(r)
  /\ UNCHANGED <<deployment, now, transport, keys, bounds, history>>

BindLocal(r) ==
  LET g == At(r)  s == req[r].session IN
  /\ ~redis /\ Ready(r, "bind")
  /\ IF Cardinality(Bound(g)) >= MaxSessions
       THEN CloseSession(r) /\ UNCHANGED bound
       ELSE /\ bound' = [bound EXCEPT ![g][s] = [subject |-> req[r].subject, seen |-> now]]
            /\ UNCHANGED transport
  /\ Answer(r)
  /\ UNCHANGED <<deployment, now, keys, bounds, history>>

\* The state was not persisted (-1) or the set is full (0).
Refused(s, read) == stored[s] = 0 \/ ~HasRoom(s, read)

Enrol(r, read) ==
  LET s == req[r].session IN
  IF Refused(s, read)
    THEN active' = Swept(read) /\ UNCHANGED binding
    ELSE /\ binding' = [binding EXCEPT ![s] =
              [subject |-> req[r].subject, expires |-> KeyExpiry]]
         /\ active' = [Swept(read) EXCEPT ![s] = Score(read)]

BindShared(r) ==
  /\ redis /\ Ready(r, "bind")
  /\ \E read \in ClockReads :
       /\ Enrol(r, read)
       /\ IF Refused(req[r].session, read)
            THEN CloseSession(r) /\ Answer(r)
            ELSE GoTo(r, "touchNew") /\ UNCHANGED transport
  /\ UNCHANGED <<deployment, now, bound, stored, bounds, history>>

BindFails(r) ==
  /\ RedisFails(r, "bind")
  /\ \/ \E read \in ClockReads : Enrol(r, read)
     \/ UNCHANGED <<binding, active>>
  /\ CloseSession(r) /\ Answer(r)
  /\ UNCHANGED <<deployment, now, bound, stored, history>>

\* Slip: only the Redis binding of a deleted session is removed.
RemoveLocalIfShared(g, s) ==
  bound' = IF redis THEN [bound EXCEPT ![g][s] = None] ELSE bound

RemoveLocal(g, s) == bound' = [bound EXCEPT ![g][s] = None]

\* remove_session
Unbind(s) ==
  /\ binding' = [binding EXCEPT ![s] = None]
  /\ active' = [active EXCEPT ![s] = 0]

RemoveBinding(r) ==
  LET s == req[r].session IN
  /\ Ready(r, "remove")
  /\ Unbind(s)
  /\ RemoveLocal(At(r), s)
  /\ ended' = ended \cup {s}
  /\ abandoned' = IF s \in transport[At(r)]
                  THEN abandoned \cup {<<At(r), s>>} ELSE abandoned
  /\ Answer(r)
  /\ UNCHANGED <<deployment, now, transport, stored, bounds, owner, revived>>

RemoveFails(r) ==
  /\ RedisFails(r, "remove")
  /\ Unbind(req[r].session) \/ UNCHANGED <<binding, active>>
  /\ Answer(r)
  /\ UNCHANGED <<deployment, now, transport, bound, stored, history>>

-----------------------------------------------------------------------------
(* The client goes away, a gateway restarts, time passes.                   *)

\* What a dropped handler leaves in the transport with nothing bound to it.
LeftBehind(r) ==
  LET new == IF req[r].stage \in {"recheck", "bind", "touchNew"}
             THEN {req[r].session} ELSE {} IN
  {<<At(r), s>> : s \in new \cup req[r].closing}

\* Before it has changed anything, a dropped request is one never admitted.
Disconnect(r) ==
  /\ Fault
  /\ \/ req[r].stage \in {"touch", "recheck", "bind", "touchNew", "remove"}
     \/ req[r].closing # {}
  /\ abandoned' = abandoned \cup LeftBehind(r)
  /\ Answer(r)
  /\ UNCHANGED <<deployment, now, transport, bound, keys, owner, ended, revived>>

Restart(g) ==
  /\ g \in up /\ Fault
  /\ transport' = [transport EXCEPT ![g] = {}]
  /\ bound' = [bound EXCEPT ![g] = [s \in Sessions |-> None]]
  /\ req' = [r \in Requests |-> IF At(r) = g THEN Idle ELSE req[r]]
  /\ abandoned' = {p \in abandoned : p[1] # g}
  /\ UNCHANGED <<deployment, now, keys, owner, ended, revived>>

Tick ==
  /\ now < MaxTime
  /\ now' = now + 1
  /\ binding' = [s \in Sessions |->
       IF binding[s] # None /\ binding[s].expires <= now' THEN None ELSE binding[s]]
  /\ stored' = [s \in Sessions |-> IF stored[s] <= now' THEN 0 ELSE stored[s]]
  /\ UNCHANGED <<deployment, req, transport, bound, active, bounds, history>>

Step(r) ==
  \/ Prune(r) \/ CloseExpired(r)
  \/ VerifyLocal(r) \/ VerifyShared(r) \/ VerifyFails(r) \/ TouchLocal(r)
  \/ CheckCapacity(r) \/ Recheck(r) \/ CheckFails(r)
  \/ Serve(r) \/ OpenSession(r) \/ EndSession(r) \/ TransportFails(r)
  \/ BindLocal(r) \/ BindShared(r) \/ BindFails(r)
  \/ RemoveBinding(r) \/ RemoveFails(r)

Next ==
  \/ \E r \in Requests : Step(r) \/ Disconnect(r) \/ \E g \in Gateways : Admit(r, g)
  \/ \E g \in Gateways : Restart(g)
  \/ Tick

Spec == Init /\ [][Next]_vars

-----------------------------------------------------------------------------
(* Properties.                                                               *)

Shapes ==
  /\ redis \in BOOLEAN /\ up \subseteq Gateways /\ now \in 0..MaxTime
  /\ req \in [Requests -> Handlers]
  /\ transport \in [Gateways -> SUBSET Sessions]
  /\ bound \in [Gateways -> [Sessions -> LocalBindings \cup {None}]]
  /\ binding \in [Sessions -> SharedBindings \cup {None}]
  /\ stored \in [Sessions -> Nat] /\ active \in [Sessions -> Nat]
  /\ owner \in [Sessions -> Subjects \cup {None}]
  /\ ended \cup revived \subseteq Sessions
  /\ abandoned \subseteq Gateways \X Sessions
  /\ faults \in 0..MaxFaults /\ admitted \in 0..MaxRequests

Times ==
  \A s \in Sessions :
    /\ \A g \in Gateways : bound[g][s] # None => bound[g][s].seen <= now
    /\ binding[s] # None => binding[s].expires \in now + 1 .. now + TtlTicks
    /\ stored[s] \in {0} \cup (now + 1 .. now + TtlTicks)
    /\ active[s] <= (now + MaxLead) \div TicksPerSecond + Ttl

\* The type invariant.  A Redis key lives at most one TTL from now, and no
\* score is further away than a TTL from the fastest clock (redis_store.rs:64).
TypeOK == Shapes /\ Times

\* A session belongs to the subject that opened it: whichever of the local
\* bindings, the Redis binding and a request past its verification mentions
\* a session, it names that subject (README.md:243, remote.rs:528).
SessionKeepsItsSubject ==
  \A s \in Sessions :
    /\ \A g \in Gateways : (bound[g][s] # None => bound[g][s].subject = owner[s])
    /\ binding[s] # None => binding[s].subject = owner[s]
    /\ \A r \in Requests :
         req[r].session = s /\ req[r].stage \in {"touch", "run", "bind", "remove"}
           => req[r].subject = owner[s]

\* However many requests pass the capacity check together, one gateway binds
\* no more than max_sessions (remote.rs:564).
LocalCapacity == ~redis => \A g \in up : Cardinality(Bound(g)) <= MaxSessions

\* Several gateways keep the active set within max_sessions, whatever their
\* clocks show, apart from the sessions that a touch put back after they had
\* been swept.  And a session that can be used without being counted is about
\* to expire: a score is swept early by no more than the second it is rounded
\* to, what the clocks differ and what a script was late (redis_store.rs:64-170).
SharedCapacity ==
  /\ Cardinality(Members(active) \ revived) <= MaxSessions
  /\ \A s \in Sessions :
       binding[s] # None /\ stored[s] # 0 /\ active[s] = 0 =>
         binding[s].expires - now < TicksPerSecond + MaxLag + MaxLead

\* The limits that docs/operations.md lists: `active MCP session` is the size of
\* the active set, those that a touch put back included.
ActiveWithinLimit == Cardinality(Members(active)) <= MaxSessions

\* A gateway holds no transport session it has lost track of: each is bound,
\* so that pruning closes it, or a request in progress will bind or close it;
\* except those left by a request that was dropped or that stalled for a TTL,
\* or whose second capacity check met a Redis error (remote.rs:446-475).
NoLeakedSession ==
  \A g \in Gateways : \A s \in transport[g] :
    \/ bound[g][s] # None
    \/ <<g, s>> \in abandoned
    \/ \E r \in Requests :
         /\ At(r) = g
         /\ \/ s \in req[r].closing
            \/ req[r].session = s /\ req[r].stage \in {"recheck", "bind", "touchNew"}

\* Once a DELETE was answered with success, no request passes the session's
\* verification any more, on any gateway (remote.rs:417, 440).
EndedStaysEnded ==
  [][\A r \in Requests :
       req[r].stage = "verify" /\ req'[r].stage \in {"touch", "run"}
         => req[r].session \notin ended]_vars
===============================================================================
