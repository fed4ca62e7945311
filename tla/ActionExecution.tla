---------------------------- MODULE ActionExecution ----------------------------
(***************************************************************************)
(* The approval-gated execution of Actions: ApprovalApp (app/approval.rs), *)
(* its tickets and audit rows in metadata.db (infra/db/metadata.rs),       *)
(* ActionApp::run_for and its TicketExecutionGuard (app/action.rs), the    *)
(* request of ApiApp::call_with_options (app/api.rs) and the two local     *)
(* front doors, the CLI (main.rs) and the stdio MCP server (mcp/mod.rs).   *)
(*                                                                         *)
(* Every CLI invocation is a process of its own; all MCP invocations share *)
(* one process and run concurrently in it.  They meet only in SQLite,      *)
(* where each transaction is one step here.  A database error, a dropped   *)
(* future, a lost answer and a killed process can occur between any two.   *)
(***************************************************************************)
EXTENDS Integers

CONSTANTS
  Invocations,     (* calls of run_for / prepare, each used at most once     *)
  Tickets,         (* ids Uuid::new_v4 can draw                              *)
  Requests,        (* an Action (name, version, definition) with arguments   *)
  Writes,          (* the requests whose Action is not read-only             *)
  Providers,       (* provider ids                                           *)
  ProviderOf,      (* the provider each request's Action names               *)
  NoTicket,        (* the absent --approval-ticket / requestState            *)
  NoGrant,         (* a row that does not exist                              *)
  NoCall,          (* an invocation that has not begun                       *)
  TTL,             (* TICKET_TTL_MINUTES in ticks                            *)
  LockWait,        (* ticks a transaction may wait for SQLite's write lock   *)
  MaxTime,         (* bound on the clock                                     *)
  MaxGeneration,   (* bound on how often a provider id is registered         *)
  MaxDbErrors,     (* bound on failing database writes                       *)
  CanCancel,       (* whether the MCP server may drop a running call         *)
  CanCrash         (* whether processes may be killed                        *)

Clients == {"local-cli", "local-mcp"}
Outcomes == {"succeeded", "failed", "unknown"}
Open == {"pending", "approved"}
Claimed == {"executing"} \cup Outcomes
Statuses == {"absent", "denied", "expired"} \cup Open \cup Claimed
Settled == {"denied", "expired"} \cup Outcomes

\* Where an invocation stands.  "closed": ended without claiming anything;
\* "done", "stranded", "crashed": ended after the claim, normally, with the
\* guard's last write lost, or with its process.
Holding == {"claimed", "started", "routed", "resolved", "waiting", "settling",
            "aborting", "dropping"}
PastClaim == Holding \cup {"auditing", "done", "stranded", "crashed"}
Unclaimed == {"entered", "known", "admitted"}
Stages == {"idle", "closed"} \cup Unclaimed \cup PastClaim

Calls == [client : Clients, request : Requests, ticket : Tickets \cup {NoTicket}]
Grants == [client : Clients, request : Requests, expires : Int, generation : Int]

ASSUME ExecutionAssumption ==
  /\ Writes \subseteq Requests
  /\ ProviderOf \in [Requests -> Providers]
  /\ NoTicket \notin Tickets
  /\ NoGrant \notin Grants
  /\ NoCall \notin Calls
  /\ {TTL, LockWait, MaxTime, MaxDbErrors} \subseteq Nat
  /\ MaxGeneration \in Nat \ {0}
  /\ {CanCancel, CanCrash} \subseteq BOOLEAN

VARIABLES
  clock,        (* the wall clock, Utc::now()                              *)
  registered,   (* rows of providers                                       *)
  loggedIn,     (* provider ids the local subject has a session for        *)
  generation,   (* how often each provider id has been registered          *)
  status,       (* approval_tickets.status, "absent" when there is no row  *)
  grant,        (* the rest of the row: what the ticket is bound to        *)
  stage,        (* where each invocation stands                            *)
  call,         (* the arguments of run_for                                *)
  result,       (* the outcome run_for is about to record                  *)
  wire,         (* the request of an invocation as the upstream sees it    *)
  audit,        (* rows <<invocation, outcome>> of audit_events            *)
  dbErrors      (* database errors so far                                  *)

providerVars == <<registered, loggedIn, generation>>
ticketVars == <<status, grant>>
runVars == <<stage, call, result>>
vars == <<clock, providerVars, ticketVars, runVars, wire, audit, dbErrors>>

TypeOK ==
  /\ clock \in 0..MaxTime
  /\ registered \subseteq Providers
  /\ loggedIn \subseteq Providers
  /\ generation \in [Providers -> 0..MaxGeneration]
  /\ status \in [Tickets -> Statuses]
  /\ grant \in [Tickets -> Grants \cup {NoGrant}]
  /\ stage \in [Invocations -> Stages]
  /\ call \in [Invocations -> Calls \cup {NoCall}]
  /\ result \in [Invocations -> Outcomes]
  /\ wire \in [Invocations -> {"none", "inflight", "applied", "rejected"}]
  /\ audit \subseteq Invocations \X (Outcomes \cup {"started"})
  /\ dbErrors \in 0..MaxDbErrors

\* A broker that has been set up: every provider is registered once and the
\* local subject has logged in to it.
Init ==
  /\ clock = 0
  /\ registered = Providers
  /\ loggedIn = Providers
  /\ generation = [p \in Providers |-> 1]
  /\ status = [t \in Tickets |-> "absent"]
  /\ grant = [t \in Tickets |-> NoGrant]
  /\ stage = [r \in Invocations |-> "idle"]
  /\ call = [r \in Invocations |-> NoCall]
  /\ result = [r \in Invocations |-> "unknown"]
  /\ wire = [r \in Invocations |-> "none"]
  /\ audit = {}
  /\ dbErrors = 0

-------------------------------------------------------------------------------
(* Helpers                                                                 *)

IsWrite(r) == call[r].request \in Writes
ProviderFor(r) == ProviderOf[call[r].request]
GoTo(r, next) == stage' = [stage EXCEPT ![r] = next]

\* approve_ticket and consume_ticket read the clock first and may then wait
\* for the write lock: the time they compare with is up to LockWait old.
ClockReads == {at \in 0..clock : clock - at <= LockWait}

\* The UPDATE both run first: every open ticket whose time is over expires.
Swept(s, at) ==
  IF status[s] \in Open /\ grant[s].expires <= at THEN "expired" ELSE status[s]

SweepAndSet(moves, at, t, new) ==
  status' = [s \in Tickets |-> IF moves /\ s = t THEN new ELSE Swept(s, at)]

Approvable(t, client, at) ==
  /\ status[t] = "pending"
  /\ grant[t].client = client
  /\ grant[t].expires > at

\* Slip: a ticket that is being executed can be claimed again.
ClaimableTwice(r, t, at) ==
  /\ status[t] \in {"approved", "executing"}
  /\ grant[t].client = call[r].client
  /\ grant[t].request = call[r].request
  /\ grant[t].expires > at

\* Slip: the claim does not compare the arguments.
ClaimableForAny(r, t, at) ==
  /\ status[t] = "approved"
  /\ grant[t].client = call[r].client
  /\ grant[t].expires > at

\* Slip: the claim relies on an earlier expiry check.
ClaimableLate(r, t, at) ==
  /\ status[t] = "approved"
  /\ grant[t].client = call[r].client
  /\ grant[t].request = call[r].request

Claimable(r, t, at) ==
  /\ status[t] = "approved"
  /\ grant[t].client = call[r].client
  /\ grant[t].request = call[r].request
  /\ grant[t].expires > at

\* finish_ticket: only an executing ticket takes an outcome.
FinishTicket(t, outcome) ==
  status' = [status EXCEPT ![t] = IF @ = "executing" THEN outcome ELSE @]

DbError ==
  /\ dbErrors < MaxDbErrors
  /\ dbErrors' = dbErrors + 1

\* Slip: every error of the request is a failure.
AmbiguousIsFailure(r) == "failed"

\* Slip: the error code takes the place of the outcome.
AmbiguousIsCode(r) == "timeout"

\* The error of an ambiguous request is "unknown" for a write only.
Ambiguous(r) == IF IsWrite(r) THEN "unknown" ELSE "failed"

\* The request is over: a write settles its ticket first, a read has none.
Conclude(r, outcome) ==
  /\ result' = [result EXCEPT ![r] = outcome]
  /\ GoTo(r, IF IsWrite(r) THEN "settling" ELSE "auditing")

-------------------------------------------------------------------------------
(* Front doors                                                             *)

Begin(r, client, q, t) ==
  /\ stage[r] = "idle"
  /\ call' = [call EXCEPT ![r] = [client |-> client, request |-> q, ticket |-> t]]
  /\ UNCHANGED <<clock, providerVars, grant, result, wire, audit, dbErrors>>

\* `action run` and `action prepare`, and a tools/call without requestState.
\* A read-only Action takes no ticket.
RunFor(r, client, q, t) ==
  /\ t # NoTicket => client = "local-cli" /\ status[t] # "absent"
  /\ Begin(r, client, q, t)
  /\ GoTo(r, IF q \in Writes \/ t = NoTicket THEN "entered" ELSE "closed")
  /\ UNCHANGED status

\* tools/call with requestState and a confirmation: approve, then run_for.
McpConfirm(r, q, t, at) ==
  /\ q \in Writes /\ status[t] # "absent"
  /\ Begin(r, "local-mcp", q, t)
  /\ LET ok == Approvable(t, "local-mcp", at)
     IN  /\ SweepAndSet(ok, at, t, "approved")
         /\ GoTo(r, IF ok THEN "entered" ELSE "closed")

\* tools/call with requestState and anything but a confirmation: deny.
McpDecline(r, q, t) ==
  /\ q \in Writes /\ status[t] # "absent"
  /\ Begin(r, "local-mcp", q, t)
  /\ status' = [status EXCEPT ![t] =
                  IF @ = "pending" /\ grant[t].client = "local-mcp"
                  THEN "denied" ELSE @]
  /\ GoTo(r, "closed")

\* `action approve`, a process of its own.
CliApprove(t, at) ==
  /\ status[t] # "absent"
  /\ SweepAndSet(Approvable(t, "local-cli", at), at, t, "approved")
  /\ UNCHANGED <<clock, providerVars, grant, runVars, wire, audit, dbErrors>>

-------------------------------------------------------------------------------
(* ActionApp::run_for up to the claim                                      *)

\* is_available reads the session row, then the provider row.
CheckSession(r) ==
  /\ stage[r] = "entered"
  /\ ProviderFor(r) \in loggedIn
  /\ GoTo(r, "known")
  /\ UNCHANGED <<clock, providerVars, ticketVars, call, result, wire, audit, dbErrors>>

CheckProvider(r) ==
  /\ stage[r] = "known"
  /\ ProviderFor(r) \in registered
  /\ GoTo(r, IF IsWrite(r) THEN "admitted" ELSE "claimed")
  /\ UNCHANGED <<clock, providerVars, ticketVars, call, result, wire, audit, dbErrors>>

\* Any error return before the claim: schema, scopes, no credential, database.
Refuse(r) ==
  /\ stage[r] \in Unclaimed
  /\ GoTo(r, "closed")
  /\ UNCHANGED <<clock, providerVars, ticketVars, call, result, wire,
                 audit, dbErrors>>

\* A write without a ticket: insert a pending one and return ApprovalRequired.
Prepare(r, t) ==
  /\ stage[r] = "admitted"
  /\ call[r].ticket = NoTicket
  /\ status[t] = "absent"
  /\ status' = [status EXCEPT ![t] = "pending"]
  /\ grant' = [grant EXCEPT ![t] =
                 [client |-> call[r].client, request |-> call[r].request,
                  expires |-> clock + TTL,
                  generation |-> generation[ProviderFor(r)]]]
  /\ GoTo(r, "closed")
  /\ UNCHANGED <<clock, providerVars, call, result, wire, audit, dbErrors>>

\* consume_ticket: one transaction claims the ticket or refuses the call.
Claim(r, at) ==
  LET t == call[r].ticket
      ok == Claimable(r, t, at)
  IN  /\ stage[r] = "admitted"
      /\ t # NoTicket
      /\ SweepAndSet(ok, at, t, "executing")
      /\ GoTo(r, IF ok THEN "claimed" ELSE "closed")
      /\ UNCHANGED <<clock, providerVars, grant, call, result, wire, audit, dbErrors>>

-------------------------------------------------------------------------------
(* run_for after the claim: audit, build, send, wait                       *)

AuditStart(r) ==
  /\ stage[r] = "claimed"
  /\ audit' = audit \cup {<<r, "started">>}
  /\ GoTo(r, "started")
  /\ UNCHANGED <<clock, providerVars, ticketVars, call, result, wire, dbErrors>>

\* Without a "started" row nothing is sent: the ticket ends as failed, and no
\* terminal row is written.
AuditStartFails(r) ==
  /\ stage[r] = "claimed"
  /\ DbError
  /\ result' = [result EXCEPT ![r] = "failed"]
  /\ GoTo(r, IF IsWrite(r) THEN "aborting" ELSE "done")
  /\ UNCHANGED <<clock, providerVars, ticketVars, call, wire, audit>>

\* call_with_options reads the provider row, then the session row.
ResolveProvider(r) ==
  /\ stage[r] = "started"
  /\ ProviderFor(r) \in registered
  /\ GoTo(r, "routed")
  /\ UNCHANGED <<clock, providerVars, ticketVars, call, result, wire, audit, dbErrors>>

ResolveSession(r) ==
  /\ stage[r] = "routed"
  /\ ProviderFor(r) \in loggedIn
  /\ GoTo(r, "resolved")
  /\ UNCHANGED <<clock, providerVars, ticketVars, call, result, wire, audit, dbErrors>>

\* Every error before send(): request building, missing provider or session,
\* token refresh, vault, blocked URL, headers.
FailBeforeSend(r) ==
  /\ stage[r] \in {"started", "routed", "resolved"}
  /\ Conclude(r, "failed")
  /\ UNCHANGED <<clock, providerVars, ticketVars, call, wire, audit, dbErrors>>

Send(r) ==
  /\ stage[r] = "resolved"
  /\ wire' = [wire EXCEPT ![r] = "inflight"]
  /\ GoTo(r, "waiting")
  /\ UNCHANGED <<clock, providerVars, ticketVars, call, result, audit, dbErrors>>

ReceiveSuccess(r) ==
  /\ stage[r] = "waiting" /\ wire[r] = "applied"
  /\ Conclude(r, "succeeded")
  /\ UNCHANGED <<clock, providerVars, ticketVars, call, wire, audit, dbErrors>>

ReceiveError(r) ==
  /\ stage[r] = "waiting" /\ wire[r] = "rejected"
  /\ Conclude(r, "failed")
  /\ UNCHANGED <<clock, providerVars, ticketVars, call, wire, audit, dbErrors>>

\* Timeout, broken connection, oversized or unreadable body, output schema.
LoseAnswer(r) ==
  /\ stage[r] = "waiting"
  /\ Conclude(r, Ambiguous(r))
  /\ UNCHANGED <<clock, providerVars, ticketVars, call, wire, audit, dbErrors>>

-------------------------------------------------------------------------------
(* TicketExecutionGuard and the terminal audit row                         *)

\* guard.finish(outcome): when no row changed it is an error, still armed.
Finish(r) ==
  /\ stage[r] \in {"settling", "aborting"}
  /\ FinishTicket(call[r].ticket, result[r])
  /\ GoTo(r, IF status[call[r].ticket] # "executing" THEN "dropping"
             ELSE IF stage[r] = "settling" THEN "auditing" ELSE "done")
  /\ UNCHANGED <<clock, providerVars, grant, call, result, wire, audit, dbErrors>>

\* Slip: the error of finish() is ignored and the audit row written.
FinishFailsSilently(r) ==
  /\ stage[r] \in {"settling", "aborting"}
  /\ DbError
  /\ GoTo(r, "auditing")
  /\ UNCHANGED <<clock, providerVars, ticketVars, call, result, wire, audit>>

\* Slip: the guard is disarmed before its outcome is written.
FinishFailsDisarmed(r) ==
  /\ stage[r] \in {"settling", "aborting"}
  /\ DbError
  /\ GoTo(r, "done")
  /\ UNCHANGED <<clock, providerVars, ticketVars, call, result, wire, audit>>

FinishFails(r) ==
  /\ stage[r] \in {"settling", "aborting"}
  /\ DbError
  /\ GoTo(r, "dropping")
  /\ UNCHANGED <<clock, providerVars, ticketVars, call, result, wire, audit>>

\* Drop of an armed guard: finish("unknown"), its error ignored.
DropGuard(r) ==
  /\ stage[r] = "dropping"
  /\ FinishTicket(call[r].ticket, "unknown")
  /\ GoTo(r, "done")
  /\ UNCHANGED <<clock, providerVars, grant, call, result, wire, audit, dbErrors>>

DropGuardFails(r) ==
  /\ stage[r] = "dropping"
  /\ DbError
  /\ GoTo(r, "stranded")
  /\ UNCHANGED <<clock, providerVars, ticketVars, call, result, wire, audit>>

AuditEnd(r) ==
  /\ stage[r] = "auditing"
  /\ audit' = audit \cup {<<r, result[r]>>}
  /\ GoTo(r, "done")
  /\ UNCHANGED <<clock, providerVars, ticketVars, call, result, wire, dbErrors>>

AuditEndFails(r) ==
  /\ stage[r] = "auditing"
  /\ DbError
  /\ GoTo(r, "done")
  /\ UNCHANGED <<clock, providerVars, ticketVars, call, result, wire, audit>>

\* Slip: no guard survives the dropped future.
CancelUnguarded(r) ==
  /\ CanCancel
  /\ stage[r] \in {"resolved", "waiting"}
  /\ call[r].client = "local-mcp"
  /\ GoTo(r, "done")
  /\ UNCHANGED <<clock, providerVars, ticketVars, call, result, wire,
                 audit, dbErrors>>

\* The MCP server drops the future at one of its awaits: the token refresh or
\* the DNS lookup before the request, or the request itself.
Cancel(r) ==
  /\ CanCancel
  /\ stage[r] \in {"resolved", "waiting"}
  /\ call[r].client = "local-mcp"
  /\ GoTo(r, IF IsWrite(r) THEN "dropping" ELSE "done")
  /\ UNCHANGED <<clock, providerVars, ticketVars, call, result, wire,
                 audit, dbErrors>>

-------------------------------------------------------------------------------
(* Environment                                                             *)

\* A killed process takes its invocations with it; the MCP server runs many.
SameProcess(r, s) ==
  s = r \/ (call[r].client = "local-mcp" /\ call[s] # NoCall
            /\ call[s].client = "local-mcp")

Crash(r) ==
  /\ CanCrash
  /\ stage[r] \in Unclaimed \cup Holding \cup {"auditing"}
  /\ stage' = [s \in Invocations |->
                 IF ~SameProcess(r, s) THEN stage[s]
                 ELSE IF stage[s] \in Unclaimed THEN "closed"
                 ELSE IF stage[s] \in Holding \cup {"auditing"} THEN "crashed"
                 ELSE stage[s]]
  /\ UNCHANGED <<clock, providerVars, ticketVars, call, result, wire,
                 audit, dbErrors>>

\* The upstream service acts on a request whether or not anyone still waits.
UpstreamActs(r) ==
  /\ wire[r] = "inflight"
  /\ \E reply \in {"applied", "rejected"} : wire' = [wire EXCEPT ![r] = reply]
  /\ UNCHANGED <<clock, providerVars, ticketVars, runVars, audit, dbErrors>>

\* Slip: removal denies every ticket of the provider, settled ones included.
RemoveProviderDenyAll(p) ==
  /\ p \in registered
  /\ status' = [t \in Tickets |->
                  IF status[t] # "absent" /\ ProviderOf[grant[t].request] = p
                  THEN "denied" ELSE status[t]]
  /\ registered' = registered \ {p}
  /\ loggedIn' = loggedIn \ {p}
  /\ UNCHANGED <<clock, generation, grant, runVars, wire, audit, dbErrors>>

\* delete_provider: sessions, the provider row and its open tickets at once.
RemoveProvider(p) ==
  /\ p \in registered
  /\ status' = [t \in Tickets |->
                  IF status[t] \in Open /\ ProviderOf[grant[t].request] = p
                  THEN "denied" ELSE status[t]]
  /\ registered' = registered \ {p}
  /\ loggedIn' = loggedIn \ {p}
  /\ UNCHANGED <<clock, generation, grant, runVars, wire, audit, dbErrors>>

AddProvider(p) ==
  /\ p \notin registered
  /\ generation[p] < MaxGeneration
  /\ registered' = registered \cup {p}
  /\ generation' = [generation EXCEPT ![p] = @ + 1]
  /\ UNCHANGED <<clock, loggedIn, ticketVars, runVars, wire, audit, dbErrors>>

\* The session row of a login that found the provider registered when it began.
Login(p) ==
  /\ p \notin loggedIn
  /\ loggedIn' = loggedIn \cup {p}
  /\ UNCHANGED <<clock, registered, generation, ticketVars, runVars, wire, audit,
                 dbErrors>>

Tick ==
  /\ clock < MaxTime
  /\ clock' = clock + 1
  /\ UNCHANGED <<providerVars, ticketVars, runVars, wire, audit, dbErrors>>

-------------------------------------------------------------------------------

\* What the scheduler of a live process will eventually do for r.
Proceed(r) ==
  \/ CheckSession(r) \/ CheckProvider(r) \/ Refuse(r)
  \/ \E t \in Tickets : Prepare(r, t)
  \/ \E at \in ClockReads : Claim(r, at)
  \/ AuditStart(r) \/ ResolveProvider(r) \/ ResolveSession(r)
  \/ FailBeforeSend(r) \/ Send(r)
  \/ ReceiveSuccess(r) \/ ReceiveError(r) \/ LoseAnswer(r)
  \/ Finish(r) \/ DropGuard(r) \/ AuditEnd(r)

Interrupt(r) ==
  \/ AuditStartFails(r) \/ FinishFails(r) \/ DropGuardFails(r)
  \/ AuditEndFails(r) \/ Cancel(r) \/ Crash(r)

Enter(r) ==
  \E q \in Requests :
    \/ \E c \in Clients, t \in Tickets \cup {NoTicket} : RunFor(r, c, q, t)
    \/ \E t \in Tickets, at \in ClockReads : McpConfirm(r, q, t, at)
    \/ \E t \in Tickets : McpDecline(r, q, t)

Next ==
  \/ \E r \in Invocations : Enter(r) \/ Proceed(r) \/ Interrupt(r) \/ UpstreamActs(r)
  \/ \E t \in Tickets, at \in ClockReads : CliApprove(t, at)
  \/ \E p \in Providers : RemoveProvider(p) \/ AddProvider(p) \/ Login(p)
  \/ Tick

Spec == Init /\ [][Next]_vars

\* tokio polls every task, and reqwest's timeout ends every wait.
Fairness == \A r \in Invocations : WF_vars(Proceed(r))

FairSpec == Spec /\ Fairness
-------------------------------------------------------------------------------
(* Safety                                                                  *)

\* However many invocations present the same ticket, from however many
\* processes, the upstream service sees at most one request for it.
AtMostOneSend ==
  \A r, s \in Invocations :
    /\ wire[r] # "none" /\ IsWrite(r)
    /\ wire[s] # "none" /\ call[s].ticket = call[r].ticket
    => r = s

\* A write leaves the broker only for the client and the exact request that
\* were approved, under a ticket that was claimed: no denied, expired or
\* still-open ticket ever has a request on the wire.
SentUnderApproval ==
  \A r \in Invocations :
    wire[r] # "none" /\ IsWrite(r) =>
      LET t == call[r].ticket
      IN  /\ t \in Tickets
          /\ status[t] \in Claimed
          /\ grant[t].client = call[r].client
          /\ grant[t].request = call[r].request

\* The recorded outcome tells the truth about the upstream service whatever
\* was cancelled, lost or retried on the way: "succeeded" means it applied the
\* request, "failed" that it never got one or answered it with an error status.
OutcomeIsTruthful ==
  \A t \in Tickets :
    /\ status[t] = "succeeded" =>
         \E r \in Invocations : call[r] # NoCall /\ call[r].ticket = t /\ wire[r] = "applied"
    /\ status[t] = "failed" =>
         \A r \in Invocations :
           call[r] # NoCall /\ call[r].ticket = t => wire[r] \in {"none", "rejected"}

\* The audit log and the ticket table never disagree: nothing is sent before
\* its "started" row, and a terminal row of a write repeats its ticket's status.
AuditMatchesTicket ==
  /\ \A r \in Invocations : wire[r] # "none" => <<r, "started">> \in audit
  /\ \A r \in Invocations, o \in Outcomes :
       <<r, o>> \in audit =>
         /\ <<r, "started">> \in audit
         /\ IsWrite(r) => status[call[r].ticket] = o

\* A ticket is left executing only while an invocation still holds it, or by
\* a killed process, or when both writes of its guard were lost.
ExecutingIsAccountedFor ==
  \A t \in Tickets :
    status[t] = "executing" =>
      \E r \in Invocations :
        /\ call[r] # NoCall /\ call[r].ticket = t
        /\ stage[r] \in Holding \cup {"crashed", "stranded"}

\* A settled ticket stays as it is: no late approval, sweep, provider removal
\* or second outcome touches it.
SettledIsFinal ==
  [][\A t \in Tickets : status[t] \in Settled => status'[t] = status[t]]_vars

\* A ticket is claimed before its deadline, give or take the time the claiming
\* transaction waited for the write lock after it had read the clock.
ClaimBeforeDeadline ==
  [][\A t \in Tickets :
       status[t] # "executing" /\ status'[t] = "executing"
       => clock < grant[t].expires + LockWait]_vars

\* The executions implement the one-shot ticket.
Ticket == INSTANCE ApprovalTicket WITH
  phase <- [t \in Tickets |->
    CASE status[t] = "absent" -> "absent"
      [] status[t] = "pending" -> "offered"
      [] status[t] = "approved" -> "granted"
      [] status[t] = "executing" -> "claimed"
      [] status[t] \in {"denied", "expired"} -> "void"
      [] status[t] \in Outcomes -> status[t]],
  effect <- [t \in Tickets |->
    {r \in Invocations : call[r] # NoCall /\ call[r].ticket = t /\ wire[r] = "applied"}]

ImplementsTicket == Ticket!Spec

-------------------------------------------------------------------------------
(* Liveness                                                                *)

\* Every claimed ticket reaches an outcome, through any number of cancelled
\* calls and lost answers, unless every write of its guard failed.
ExecutingSettles ==
  \A t \in Tickets :
    status[t] = "executing" ~>
      \/ status[t] \in Outcomes
      \/ \E r \in Invocations :
           call[r] # NoCall /\ call[r].ticket = t /\ stage[r] = "stranded"
-------------------------------------------------------------------------------
(* What the documents claim and the code does not do                       *)

\* "network ambiguity is audited as unknown": when the request of a ticket
\* that ended as unknown was sent and its invocation is over, the audit log
\* has the terminal row.
AmbiguityIsAudited ==
  \A r \in Invocations :
    /\ stage[r] = "done" /\ wire[r] # "none"
    /\ IsWrite(r) /\ status[call[r].ticket] = "unknown"
    => <<r, "unknown">> \in audit

\* "deleting a provider revokes sessions and pending approvals": every open
\* ticket belongs to the registration of its provider that is in force.
RemovalRevokesApprovals ==
  \A t \in Tickets :
    status[t] \in Open =>
      LET p == ProviderOf[grant[t].request]
      IN  p \in registered /\ grant[t].generation = generation[p]
===============================================================================
