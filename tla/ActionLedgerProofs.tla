-------------------------- MODULE ActionLedgerProofs --------------------------
(***************************************************************************)
(* What the ticket table, the wire and the audit log of ActionExecution    *)
(* say of one another, and the refinement of ApprovalTicket, for any       *)
(* number of invocations, tickets, processes and faults.                   *)
(***************************************************************************)
EXTENDS ActionExecutionProofs

USE DEF Stages, Unclaimed, PastClaim, Holding

(* The ledger: what tickets, wire and audit log say of one another         *)

\* The ticket of a write that holds its claim is executing.
HoldersExecute ==
  \A r \in Invocations :
    stage[r] \in Holding /\ IsWrite(r) => status[call[r].ticket] = "executing"

\* The outcome about to be recorded is what happened.
ResultsAreTrue ==
  \A r \in Invocations :
    /\ stage[r] = "settling" /\ result[r] = "succeeded" => wire[r] = "applied"
    /\ stage[r] = "settling" /\ result[r] = "failed" => wire[r] \in {"none", "rejected"}
    /\ stage[r] = "aborting" => result[r] = "failed"

\* An invocation has its arguments from the moment it begins.
IdleIsNew == \A r \in Invocations : stage[r] = "idle" => call[r] = NoCall

LedgerInv == IInv /\ HoldersExecute /\ ResultsAreTrue /\ IdleIsNew

\* How an invocation comes to hold a claim, or keeps it.
LEMMA HolderSteps ==
  ASSUME TypeInv, [Next]_vars, NEW r \in Invocations,
         stage'[r] \in Holding, IsWrite(r)'
  PROVE  \/ \E at \in ClockReads : Claim(r, at) /\ stage'[r] = "claimed"
         \/ /\ stage[r] \in Holding /\ call'[r] = call[r]
            /\ ~DropGuard(r)
            /\ Finish(r) => status[call[r].ticket] # "executing"
<1> DEFINE Kept == /\ stage[r] \in Holding /\ call'[r] = call[r]
                   /\ ~DropGuard(r)
                   /\ Finish(r) => status[call[r].ticket] # "executing"
<1> USE DEF TypeInv, TypeOK, runVars, IsWrite
<1>0. Finish(r) => status[call[r].ticket] # "executing"
  BY DEF Finish, GoTo
<1>1. ~DropGuard(r)
  BY DEF DropGuard, GoTo
<1>2. ASSUME NEW s \in Invocations, Enter(s) PROVE Kept
  BY <1>2, <1>0, <1>1 DEF Enter, RunFor, McpConfirm, McpDecline, Begin, GoTo
<1>3. ASSUME NEW s \in Invocations, Proceed(s), ~ \E at \in ClockReads : Claim(s, at)
      PROVE  Kept
  <2>1. ASSUME NEW t \in Tickets, Prepare(s, t) PROVE Kept
    BY <2>1, <1>0, <1>1 DEF Prepare, GoTo
  <2>2. CASE CheckSession(s) \/ CheckProvider(s) \/ Refuse(s) \/ AuditStart(s)
    BY <2>2, <1>0, <1>1 DEF CheckSession, CheckProvider, Refuse, AuditStart, GoTo
  <2>3. CASE ResolveProvider(s) \/ ResolveSession(s) \/ FailBeforeSend(s) \/ Send(s)
    BY <2>3, <1>0, <1>1
    DEF ResolveProvider, ResolveSession, FailBeforeSend, Send, Conclude, GoTo
  <2>4. CASE ReceiveSuccess(s) \/ ReceiveError(s) \/ LoseAnswer(s) \/ AuditEnd(s)
    BY <2>4, <1>0, <1>1
    DEF ReceiveSuccess, ReceiveError, LoseAnswer, AuditEnd, Conclude, GoTo
  <2>5. CASE Finish(s) \/ DropGuard(s)
    BY <2>5, <1>0, <1>1 DEF Finish, DropGuard, GoTo
  <2> QED BY <1>3, <2>1, <2>2, <2>3, <2>4, <2>5 DEF Proceed
<1>4. ASSUME NEW s \in Invocations, NEW at \in ClockReads, Claim(s, at)
      PROVE  Kept \/ (s = r /\ stage'[r] = "claimed")
  BY <1>4, <1>0, <1>1 DEF Claim, GoTo
<1>5. ASSUME NEW s \in Invocations, Interrupt(s) \/ UpstreamActs(s) PROVE Kept
  BY <1>5, <1>0, <1>1 DEF Interrupt, AuditStartFails, FinishFails, DropGuardFails,
              AuditEndFails, Cancel, Crash, UpstreamActs, GoTo
<1>6. UNCHANGED runVars => Kept
  BY <1>0, <1>1
<1> QED BY <1>2, <1>3, <1>4, <1>5, <1>6
        DEF Next, CliApprove, RemoveProvider, AddProvider, Login, Tick, vars

LEMMA NextHolders ==
  ASSUME IInv, HoldersExecute, [Next]_vars
  PROVE  HoldersExecute'
<1> SUFFICES ASSUME NEW r \in Invocations, stage'[r] \in Holding, IsWrite(r)'
             PROVE  status'[call'[r].ticket] = "executing"
  BY DEF HoldersExecute
<1> USE DEF IInv, TypeInv, TypeOK, ClaimInv
<1>1. CASE \E at \in ClockReads : Claim(r, at) /\ stage'[r] = "claimed"
  <2>1. PICK at \in ClockReads : Claim(r, at) /\ stage'[r] = "claimed"
    BY <1>1
  <2>2. call[r].ticket \in Tickets
    BY <2>1 DEF Claim, Called, Calls
  <2> QED BY <2>1, <2>2 DEF Claim, SweepAndSet, GoTo
<1>2. CASE /\ stage[r] \in Holding /\ call'[r] = call[r]
           /\ ~DropGuard(r)
           /\ Finish(r) => status[call[r].ticket] # "executing"
  <2> DEFINE t == call[r].ticket
  <2>1. IsWrite(r)
    BY <1>2 DEF IsWrite
  <2>2. t \in Tickets /\ status[t] = "executing"
    BY <1>2, <2>1 DEF ClaimsAreApproved, HoldersExecute
  <2>3. ASSUME status'[t] # "executing" PROVE FALSE
    <3>1. PICK s \in Invocations : (Finish(s) \/ DropGuard(s)) /\ call[s].ticket = t
      BY <2>2, <2>3, ExecutingEnds
    <3>2. stage[s] \in Holding
      BY <3>1 DEF Finish, DropGuard
    <3>3. IsWrite(s)
      BY <3>1, <3>2, <2>2, ExecutionAssumption DEF ReadsCarryNoTicket
    <3>4. s = r
      BY <3>1, <3>2, <3>3, <1>2, <2>1 DEF ClaimsAreExclusive
    <3> QED BY <3>1, <3>4, <1>2, <2>2
  <2> QED BY <2>3, <1>2
<1> QED BY <1>1, <1>2, HolderSteps

LEMMA NextResults ==
  ASSUME LedgerInv, [Next]_vars
  PROVE  ResultsAreTrue' /\ IdleIsNew'
<1> USE DEF LedgerInv, IInv, TypeInv, TypeOK, ClaimInv, ResultsAreTrue, IdleIsNew, runVars
<1> DEFINE Goal == ResultsAreTrue' /\ IdleIsNew'
<1>1. ASSUME NEW r \in Invocations, Enter(r) PROVE Goal
  BY <1>1 DEF Enter, RunFor, McpConfirm, McpDecline, Begin, GoTo
<1>2. ASSUME NEW r \in Invocations, Proceed(r) PROVE Goal
  <2>1. ASSUME NEW t \in Tickets, Prepare(r, t) PROVE Goal
    BY <2>1 DEF Prepare, GoTo
  <2>2. ASSUME NEW at \in ClockReads, Claim(r, at) PROVE Goal
    BY <2>2 DEF Claim, GoTo
  <2>3. CASE CheckSession(r) \/ CheckProvider(r) \/ Refuse(r) \/ AuditStart(r)
    BY <2>3 DEF CheckSession, CheckProvider, Refuse, AuditStart, GoTo
  <2>4. CASE ResolveProvider(r) \/ ResolveSession(r) \/ AuditEnd(r)
    BY <2>4 DEF ResolveProvider, ResolveSession, AuditEnd, GoTo
  <2>5. CASE FailBeforeSend(r)
    BY <2>5 DEF FailBeforeSend, Conclude, GoTo, SilentBeforeSend
  <2>6. CASE Send(r)
    BY <2>6 DEF Send, GoTo
  <2>7. CASE ReceiveSuccess(r) \/ ReceiveError(r)
    BY <2>7 DEF ReceiveSuccess, ReceiveError, Conclude, GoTo
  <2>8. CASE LoseAnswer(r)
    BY <2>8 DEF LoseAnswer, Ambiguous, Conclude, GoTo
  <2>9. CASE Finish(r) \/ DropGuard(r)
    BY <2>9 DEF Finish, DropGuard, GoTo
  <2> QED BY <1>2, <2>1, <2>2, <2>3, <2>4, <2>5, <2>6, <2>7, <2>8, <2>9 DEF Proceed
<1>3. ASSUME NEW r \in Invocations, Interrupt(r) PROVE Goal
  <2>1. CASE AuditStartFails(r)
    BY <2>1 DEF AuditStartFails, GoTo
  <2>2. CASE FinishFails(r) \/ DropGuardFails(r) \/ AuditEndFails(r) \/ Cancel(r)
    BY <2>2 DEF FinishFails, DropGuardFails, AuditEndFails, Cancel, GoTo
  <2>3. CASE Crash(r)
    BY <2>3 DEF Crash
  <2> QED BY <1>3, <2>1, <2>2, <2>3 DEF Interrupt
<1>4. ASSUME NEW r \in Invocations, UpstreamActs(r) PROVE Goal
  BY <1>4 DEF UpstreamActs
<1>5. UNCHANGED <<runVars, wire>> => Goal
  OBVIOUS
<1> QED BY <1>1, <1>2, <1>3, <1>4, <1>5
        DEF Next, CliApprove, RemoveProvider, AddProvider, Login, Tick, vars

LEMMA LedgerInvariance == Spec => []LedgerInv
<1>1. Init => LedgerInv
  BY InitTypes, InitClaims DEF LedgerInv, IInv, Init, HoldersExecute, ResultsAreTrue, IdleIsNew
<1>2. LedgerInv /\ [Next]_vars => LedgerInv'
  BY NextTypes, NextClaims, NextHolders, NextResults DEF LedgerInv, IInv
<1> QED BY <1>1, <1>2, PTL DEF Spec

-------------------------------------------------------------------------------
(* One step seen from one ticket, one request, one invocation              *)

\* The life of a ticket.
Lifecycle(t) ==
  \/ status'[t] = status[t]
  \/ status[t] = "absent" /\ status'[t] = "pending"
  \/ status[t] = "pending" /\ status'[t] = "approved"
  \/ status[t] \in Open /\ status'[t] \in {"denied", "expired"}
  \/ status[t] = "approved" /\ status'[t] = "executing"
  \/ status[t] = "executing" /\ status'[t] \in Outcomes

LEMMA SweepLives ==
  ASSUME NEW moves, NEW at, NEW t, NEW new, NEW s \in Tickets,
         SweepAndSet(moves, at, t, new),
         moves => \/ status[t] = "pending" /\ new = "approved"
                  \/ status[t] = "approved" /\ new = "executing"
  PROVE  Lifecycle(s)
  BY DEF Lifecycle, SweepAndSet, Swept, Open

LEMMA TicketsLive ==
  ASSUME TypeInv, [Next]_vars, NEW s \in Tickets
  PROVE  Lifecycle(s)
<1> USE DEF TypeInv, TypeOK, ticketVars
<1>0. UNCHANGED status => Lifecycle(s)
  BY DEF Lifecycle
<1>1. ASSUME NEW r \in Invocations, Enter(r) PROVE Lifecycle(s)
  <2>1. ASSUME NEW q \in Requests, NEW c \in Clients,
               NEW t \in Tickets \cup {NoTicket}, RunFor(r, c, q, t)
        PROVE  Lifecycle(s)
    BY <2>1, <1>0 DEF RunFor
  <2>2. ASSUME NEW q \in Requests, NEW t \in Tickets, NEW at \in ClockReads,
               McpConfirm(r, q, t, at)
        PROVE  Lifecycle(s)
    BY <2>2, SweepLives DEF McpConfirm, Approvable
  <2>3. ASSUME NEW q \in Requests, NEW t \in Tickets, McpDecline(r, q, t)
        PROVE  Lifecycle(s)
    BY <2>3 DEF McpDecline, Lifecycle, Open
  <2> QED BY <1>1, <2>1, <2>2, <2>3 DEF Enter
<1>2. ASSUME NEW r \in Invocations, Proceed(r) PROVE Lifecycle(s)
  <2>1. ASSUME NEW t \in Tickets, Prepare(r, t) PROVE Lifecycle(s)
    BY <2>1 DEF Prepare, Lifecycle
  <2>2. ASSUME NEW at \in ClockReads, Claim(r, at) PROVE Lifecycle(s)
    BY <2>2, SweepLives DEF Claim, Claimable
  <2>3. CASE Finish(r) \/ DropGuard(r)
    BY <2>3 DEF Finish, DropGuard, FinishTicket, Lifecycle, Outcomes
  <2>4. CASE CheckSession(r) \/ CheckProvider(r) \/ Refuse(r) \/ AuditStart(r)
    BY <2>4, <1>0 DEF CheckSession, CheckProvider, Refuse, AuditStart
  <2>5. CASE FailBeforeSend(r) \/ Send(r) \/ ReceiveSuccess(r) \/ ReceiveError(r)
    BY <2>5, <1>0 DEF FailBeforeSend, Send, ReceiveSuccess, ReceiveError
  <2>6. CASE ResolveProvider(r) \/ ResolveSession(r) \/ LoseAnswer(r) \/ AuditEnd(r)
    BY <2>6, <1>0 DEF ResolveProvider, ResolveSession, LoseAnswer, AuditEnd
  <2> QED BY <1>2, <2>1, <2>2, <2>3, <2>4, <2>5, <2>6 DEF Proceed
<1>3. ASSUME NEW r \in Invocations, Interrupt(r) \/ UpstreamActs(r) PROVE Lifecycle(s)
  BY <1>3, <1>0 DEF Interrupt, AuditStartFails, FinishFails, DropGuardFails,
                    AuditEndFails, Cancel, Crash, UpstreamActs
<1>4. ASSUME NEW t \in Tickets, NEW at \in ClockReads, CliApprove(t, at)
      PROVE  Lifecycle(s)
  BY <1>4, SweepLives DEF CliApprove, Approvable
<1>5. ASSUME NEW p \in Providers, RemoveProvider(p) PROVE Lifecycle(s)
  BY <1>5 DEF RemoveProvider, Lifecycle
<1>6. ASSUME NEW p \in Providers, AddProvider(p) \/ Login(p) PROVE Lifecycle(s)
  BY <1>6, <1>0 DEF AddProvider, Login
<1>7. CASE Tick \/ UNCHANGED vars
  BY <1>7, <1>0 DEF Tick, vars
<1> QED BY <1>1, <1>2, <1>3, <1>4, <1>5, <1>6, <1>7 DEF Next

\* A request appears on the wire when it is sent and changes once.
LEMMA WireSteps ==
  ASSUME TypeInv, [Next]_vars, NEW r \in Invocations
  PROVE  \/ wire'[r] = wire[r]
         \/ Send(r) /\ wire'[r] = "inflight"
         \/ /\ UpstreamActs(r) /\ wire[r] = "inflight"
            /\ wire'[r] \in {"applied", "rejected"}
<1> DEFINE Goal == \/ wire'[r] = wire[r]
                   \/ Send(r) /\ wire'[r] = "inflight"
                   \/ /\ UpstreamActs(r) /\ wire[r] = "inflight"
                      /\ wire'[r] \in {"applied", "rejected"}
<1> USE DEF TypeInv, TypeOK
<1>0. UNCHANGED wire => Goal
  OBVIOUS
<1>1. ASSUME NEW s \in Invocations, Enter(s) PROVE Goal
  BY <1>1, <1>0 DEF Enter, RunFor, McpConfirm, McpDecline, Begin
<1>2. ASSUME NEW s \in Invocations, Proceed(s), ~Send(s) PROVE Goal
  BY <1>2, <1>0
  DEF Proceed, CheckSession, CheckProvider, Refuse, Prepare, Claim, AuditStart,
      ResolveProvider, ResolveSession, FailBeforeSend, ReceiveSuccess, ReceiveError,
      LoseAnswer, Finish, DropGuard, AuditEnd
<1>3. ASSUME NEW s \in Invocations, Send(s) PROVE Goal
  <2>1. wire' = [wire EXCEPT ![s] = "inflight"]
    BY <1>3 DEF Send
  <2>2. CASE s = r
    BY <2>1, <2>2, <1>3
  <2>3. CASE s # r
    BY <2>1, <2>3
  <2> QED BY <2>2, <2>3
<1>4. ASSUME NEW s \in Invocations, Interrupt(s) PROVE Goal
  BY <1>4, <1>0 DEF Interrupt, AuditStartFails, FinishFails, DropGuardFails,
                    AuditEndFails, Cancel, Crash
<1>5. ASSUME NEW s \in Invocations, UpstreamActs(s) PROVE Goal
  <2>1. PICK reply \in {"applied", "rejected"} : wire' = [wire EXCEPT ![s] = reply]
    BY <1>5 DEF UpstreamActs
  <2>2. wire[s] = "inflight"
    BY <1>5 DEF UpstreamActs
  <2>3. CASE s = r
    BY <2>1, <2>2, <2>3, <1>5
  <2>4. CASE s # r
    BY <2>1, <2>4
  <2> QED BY <2>3, <2>4
<1>6. (\E t \in Tickets, at \in ClockReads : CliApprove(t, at)) => Goal
  BY <1>0 DEF CliApprove
<1>7. (\E p \in Providers : RemoveProvider(p) \/ AddProvider(p) \/ Login(p)) => Goal
  BY <1>0 DEF RemoveProvider, AddProvider, Login
<1>8. (Tick \/ UNCHANGED vars) => Goal
  BY <1>0 DEF Tick, vars
<1> QED BY <1>1, <1>2, <1>3, <1>4, <1>5, <1>6, <1>7, <1>8 DEF Next

\* An invocation is called once, and begins off the wire.
LEMMA CallSteps ==
  ASSUME TypeInv, [Next]_vars, NEW r \in Invocations
  PROVE  call'[r] = call[r] \/ (stage[r] = "idle" /\ wire'[r] = wire[r])
<1> DEFINE Goal == call'[r] = call[r] \/ (stage[r] = "idle" /\ wire'[r] = wire[r])
<1> USE DEF TypeInv, TypeOK, runVars
<1>0. UNCHANGED call => Goal
  OBVIOUS
<1>1. ASSUME NEW s \in Invocations, Enter(s) PROVE Goal
  BY <1>1, <1>0 DEF Enter, RunFor, McpConfirm, McpDecline, Begin
<1>2. ASSUME NEW s \in Invocations, Proceed(s) PROVE Goal
  BY <1>2, <1>0
  DEF Proceed, CheckSession, CheckProvider, Refuse, Prepare, Claim, AuditStart,
      ResolveProvider, ResolveSession, FailBeforeSend, Send, ReceiveSuccess,
      ReceiveError, LoseAnswer, Finish, DropGuard, AuditEnd
<1>3. ASSUME NEW s \in Invocations, Interrupt(s) \/ UpstreamActs(s) PROVE Goal
  BY <1>3, <1>0 DEF Interrupt, AuditStartFails, FinishFails, DropGuardFails,
                    AuditEndFails, Cancel, Crash, UpstreamActs
<1>4. (\E t \in Tickets, at \in ClockReads : CliApprove(t, at)) => Goal
  BY <1>0 DEF CliApprove
<1>5. (\E p \in Providers : RemoveProvider(p) \/ AddProvider(p) \/ Login(p)) => Goal
  BY <1>0 DEF RemoveProvider, AddProvider, Login
<1>6. (Tick \/ UNCHANGED vars) => Goal
  BY <1>0 DEF Tick, vars
<1> QED BY <1>1, <1>2, <1>3, <1>4, <1>5, <1>6 DEF Next

-------------------------------------------------------------------------------
(* Outcomes                                                                *)

\* An invocation of a ticket is a write, and past its claim once it is on the
\* wire or holds the ticket; two of them are the same.
LEMMA TicketHolders ==
  ASSUME IInv, NEW r \in Invocations, NEW t \in Tickets, call[r].ticket = t
  PROVE  /\ stage[r] \notin {"idle", "closed"} => IsWrite(r)
         /\ wire[r] # "none" => stage[r] \in PastClaim /\ IsWrite(r)
         /\ \A s \in Invocations :
              /\ call[s].ticket = t
              /\ stage[r] \in PastClaim /\ stage[s] \in PastClaim
              => s = r
<1> USE ExecutionAssumption DEF IInv, TypeInv, TypeOK, ClaimInv
<1>1. ASSUME NEW s \in Invocations, call[s].ticket = t, stage[s] \notin {"idle", "closed"}
      PROVE  IsWrite(s)
  BY <1>1 DEF ReadsCarryNoTicket
<1>2. wire[r] # "none" => stage[r] \in PastClaim
  BY DEF SilentBeforeSend
<1>3. ASSUME NEW s \in Invocations, call[s].ticket = t,
             stage[r] \in PastClaim, stage[s] \in PastClaim
      PROVE  s = r
  BY <1>1, <1>3 DEF ClaimsAreExclusive
<1> QED BY <1>1, <1>2, <1>3

\* A ticket gets its outcome from the one invocation that holds it.
LEMMA OutcomeBegins ==
  ASSUME LedgerInv, [Next]_vars, NEW t \in Tickets,
         status'[t] # status[t], status'[t] \in Outcomes
  PROVE  \E r \in Invocations :
           /\ call[r] \in Calls /\ call[r].ticket = t /\ stage[r] \in PastClaim
           /\ UNCHANGED <<call, wire>>
           /\ status'[t] = "succeeded" => wire[r] = "applied"
           /\ status'[t] = "failed" => wire[r] \in {"none", "rejected"}
<1> USE DEF LedgerInv, IInv, TypeInv, TypeOK
<1>1. status[t] = "executing"
  BY TicketsLive DEF Lifecycle, Outcomes
<1>2. PICK r \in Invocations : (Finish(r) \/ DropGuard(r)) /\ call[r].ticket = t
  BY <1>1, ExecutingEnds DEF Outcomes
<1>3. stage[r] \in {"settling", "aborting", "dropping"} /\ UNCHANGED <<call, wire>>
  BY <1>2 DEF Finish, DropGuard
<1>4. call[r] \in Calls
  BY <1>3 DEF Called
<1>5. CASE Finish(r)
  <2>1. status'[t] = result[r] /\ stage[r] \in {"settling", "aborting"}
    BY <1>1, <1>2, <1>5 DEF Finish, FinishTicket
  <2>2. stage[r] = "aborting" => wire[r] = "none" /\ result[r] = "failed"
    BY DEF ClaimInv, SilentBeforeSend, ResultsAreTrue
  <2> QED BY <1>2, <1>3, <1>4, <2>1, <2>2 DEF ResultsAreTrue
<1>6. CASE DropGuard(r)
  <2>1. status'[t] = "unknown"
    BY <1>1, <1>2, <1>6 DEF DropGuard, FinishTicket
  <2> QED BY <1>2, <1>3, <1>4, <2>1
<1> QED BY <1>2, <1>5, <1>6

LEMMA NextOutcomes ==
  ASSUME LedgerInv, LedgerInv', OutcomeIsTruthful, [Next]_vars
  PROVE  OutcomeIsTruthful'
<1> USE DEF LedgerInv, IInv
<1>1. ASSUME NEW t \in Tickets, status'[t] = "succeeded"
      PROVE  \E r \in Invocations :
               call'[r] # NoCall /\ call'[r].ticket = t /\ wire'[r] = "applied"
  <2>1. CASE status[t] = "succeeded"
    <3>1. PICK r \in Invocations :
            call[r] # NoCall /\ call[r].ticket = t /\ wire[r] = "applied"
      BY <2>1 DEF OutcomeIsTruthful
    <3>2. call'[r] = call[r]
      BY <3>1, CallSteps DEF IdleIsNew
    <3>3. wire'[r] = "applied"
      BY <3>1, WireSteps DEF Send, ClaimInv, SilentBeforeSend
    <3> QED BY <3>1, <3>2, <3>3
  <2>2. CASE status[t] # "succeeded"
    BY <1>1, <2>2, OutcomeBegins, ExecutionAssumption DEF Outcomes
  <2> QED BY <2>1, <2>2
<1>2. ASSUME NEW t \in Tickets, status'[t] = "failed", NEW r \in Invocations,
             call'[r] # NoCall, call'[r].ticket = t
      PROVE  wire'[r] \in {"none", "rejected"}
  <2>1. CASE call'[r] # call[r]
    BY <2>1, CallSteps DEF ClaimInv, SilentBeforeSend
  <2>2. CASE call'[r] = call[r] /\ status[t] = "failed"
    <3>1. wire[r] \in {"none", "rejected"}
      BY <1>2, <2>2 DEF OutcomeIsTruthful
    <3>2. ~Send(r)
      <4>1. SUFFICES ASSUME stage[r] = "resolved" PROVE FALSE
        BY DEF Send
      <4>2. IsWrite(r)
        BY <4>1, <1>2, <2>2, TicketHolders
      <4> QED BY <4>1, <4>2, <1>2, <2>2 DEF HoldersExecute
    <3> QED BY <3>1, <3>2, WireSteps
  <2>3. CASE call'[r] = call[r] /\ status[t] # "failed"
    <3>1. PICK s \in Invocations :
            /\ call[s] \in Calls /\ call[s].ticket = t /\ stage[s] \in PastClaim
            /\ UNCHANGED <<call, wire>>
            /\ wire[s] \in {"none", "rejected"}
      BY <1>2, <2>3, OutcomeBegins DEF Outcomes
    <3>2. CASE wire[r] = "none"
      BY <3>1, <3>2
    <3>3. CASE wire[r] # "none"
      <4>1. r = s
        BY <3>1, <3>3, <1>2, <2>3, TicketHolders
      <4> QED BY <3>1, <4>1
    <3> QED BY <3>2, <3>3
  <2> QED BY <2>1, <2>2, <2>3
<1> QED BY <1>1, <1>2 DEF OutcomeIsTruthful

\* "succeeded" and "failed" are never wrong, whatever was lost or cancelled.
THEOREM TruthfulOutcomes == Spec => []OutcomeIsTruthful
<1>1. Init => OutcomeIsTruthful
  BY DEF Init, OutcomeIsTruthful
<1>2. LedgerInv /\ LedgerInv' /\ OutcomeIsTruthful /\ [Next]_vars => OutcomeIsTruthful'
  BY NextOutcomes
<1> QED BY <1>1, <1>2, LedgerInvariance, PTL DEF Spec

-------------------------------------------------------------------------------
(* Who still answers for an executing ticket                               *)

Answerable == Holding \cup {"crashed", "stranded"}

\* A write stops answering for its ticket only by settling it.
LEMMA AnswerableSteps ==
  ASSUME TypeInv, [Next]_vars, NEW r \in Invocations,
         stage[r] \in Answerable, IsWrite(r)
  PROVE  /\ call'[r] = call[r]
         /\ stage'[r] \in Answerable \/ Finish(r) \/ DropGuard(r)
<1> DEFINE Goal == /\ call'[r] = call[r]
                   /\ stage'[r] \in Answerable \/ Finish(r) \/ DropGuard(r)
<1> USE DEF TypeInv, TypeOK, runVars, IsWrite, Answerable
<1>1. ASSUME NEW s \in Invocations, Enter(s) PROVE Goal
  BY <1>1 DEF Enter, RunFor, McpConfirm, McpDecline, Begin, GoTo
<1>2. ASSUME NEW s \in Invocations, Proceed(s) PROVE Goal
  <2>1. ASSUME NEW t \in Tickets, Prepare(s, t) PROVE Goal
    BY <2>1 DEF Prepare, GoTo
  <2>2. ASSUME NEW at \in ClockReads, Claim(s, at) PROVE Goal
    BY <2>2 DEF Claim, GoTo
  <2>3. CASE CheckSession(s) \/ CheckProvider(s) \/ Refuse(s) \/ AuditStart(s)
    BY <2>3 DEF CheckSession, CheckProvider, Refuse, AuditStart, GoTo
  <2>4. CASE ResolveProvider(s) \/ ResolveSession(s) \/ FailBeforeSend(s) \/ Send(s)
    BY <2>4 DEF ResolveProvider, ResolveSession, FailBeforeSend, Send, Conclude, GoTo
  <2>5. CASE ReceiveSuccess(s) \/ ReceiveError(s) \/ LoseAnswer(s) \/ AuditEnd(s)
    BY <2>5 DEF ReceiveSuccess, ReceiveError, LoseAnswer, AuditEnd, Conclude, GoTo
  <2>6. CASE Finish(s) \/ DropGuard(s)
    <3>1. CASE s = r
      BY <2>6, <3>1 DEF Finish, DropGuard
    <3>2. CASE s # r
      BY <2>6, <3>2 DEF Finish, DropGuard, GoTo
    <3> QED BY <3>1, <3>2
  <2> QED BY <1>2, <2>1, <2>2, <2>3, <2>4, <2>5, <2>6 DEF Proceed
<1>3. ASSUME NEW s \in Invocations, Interrupt(s) \/ UpstreamActs(s) PROVE Goal
  BY <1>3 DEF Interrupt, AuditStartFails, FinishFails, DropGuardFails,
              AuditEndFails, Cancel, Crash, UpstreamActs, GoTo
<1>4. UNCHANGED runVars => Goal
  OBVIOUS
<1> QED BY <1>1, <1>2, <1>3, <1>4
        DEF Next, CliApprove, RemoveProvider, AddProvider, Login, Tick, vars

LEMMA NextAccounted ==
  ASSUME LedgerInv, ExecutingIsAccountedFor, [Next]_vars
  PROVE  ExecutingIsAccountedFor'
<1> SUFFICES ASSUME NEW t \in Tickets, status'[t] = "executing"
             PROVE  \E r \in Invocations :
                      /\ call'[r] # NoCall /\ call'[r].ticket = t
                      /\ stage'[r] \in Answerable
  BY DEF ExecutingIsAccountedFor, Answerable
<1> USE DEF LedgerInv, IInv, TypeInv, TypeOK, ClaimInv
<1>1. CASE status[t] # "executing"
  <2>1. PICK r \in Invocations, at \in ClockReads :
          Claim(r, at) /\ call[r].ticket = t /\ stage'[r] = "claimed"
    BY <1>1, ExecutingBegins
  <2>2. call'[r] = call[r] /\ call[r] # NoCall
    BY <2>1, ExecutionAssumption DEF Claim, Called
  <2> QED BY <2>1, <2>2 DEF Answerable
<1>2. CASE status[t] = "executing"
  <2>1. PICK r \in Invocations :
          call[r] # NoCall /\ call[r].ticket = t /\ stage[r] \in Answerable
    BY <1>2 DEF ExecutingIsAccountedFor, Answerable
  <2>2. IsWrite(r)
    BY <2>1, ExecutionAssumption DEF ReadsCarryNoTicket, Answerable
  <2>3. ~Finish(r)
    BY <2>1, <1>2 DEF Finish, FinishTicket, Outcomes
  <2>4. ~DropGuard(r)
    BY <2>1, <1>2 DEF DropGuard, FinishTicket
  <2> QED BY <2>1, <2>2, <2>3, <2>4, AnswerableSteps
<1> QED BY <1>1, <1>2

\* A ticket stays executing only in the hands of a live invocation, of a killed
\* process, or of one that lost every write of its guard.
THEOREM ExecutingAccounted == Spec => []ExecutingIsAccountedFor
<1>1. Init => ExecutingIsAccountedFor
  BY DEF Init, ExecutingIsAccountedFor
<1>2. LedgerInv /\ ExecutingIsAccountedFor /\ [Next]_vars => ExecutingIsAccountedFor'
  BY NextAccounted
<1> QED BY <1>1, <1>2, LedgerInvariance, PTL DEF Spec

-------------------------------------------------------------------------------
(* The audit log                                                           *)

\* From the "started" row to the terminal one.
Logged == {"started", "routed", "resolved", "waiting", "settling", "auditing"}

StartedIsLogged ==
  \A r \in Invocations : stage[r] \in Logged => <<r, "started">> \in audit

OnlyClaimsAreLogged ==
  \A r \in Invocations, o \in Outcomes \cup {"started"} :
    <<r, o>> \in audit => stage[r] \in PastClaim

AuditedIsSettled ==
  \A r \in Invocations :
    stage[r] = "auditing" /\ IsWrite(r) => status[call[r].ticket] = result[r]

AuditInv ==
  StartedIsLogged /\ OnlyClaimsAreLogged /\ AuditedIsSettled /\ AuditMatchesTicket

LEMMA AuditSteps ==
  ASSUME TypeInv, [Next]_vars
  PROVE  \/ UNCHANGED audit
         \/ \E r \in Invocations : AuditStart(r) \/ AuditEnd(r)
<1>1. ASSUME NEW r \in Invocations, Enter(r) PROVE UNCHANGED audit
  BY <1>1 DEF Enter, RunFor, McpConfirm, McpDecline, Begin
<1>2. ASSUME NEW r \in Invocations, Proceed(r), ~AuditStart(r), ~AuditEnd(r)
      PROVE  UNCHANGED audit
  BY <1>2
  DEF Proceed, CheckSession, CheckProvider, Refuse, Prepare, Claim, ResolveProvider,
      ResolveSession, FailBeforeSend, Send, ReceiveSuccess, ReceiveError, LoseAnswer,
      Finish, DropGuard
<1>3. ASSUME NEW r \in Invocations, Interrupt(r) \/ UpstreamActs(r)
      PROVE  UNCHANGED audit
  BY <1>3 DEF Interrupt, AuditStartFails, FinishFails, DropGuardFails, AuditEndFails,
              Cancel, Crash, UpstreamActs
<1> QED BY <1>1, <1>2, <1>3
        DEF Next, CliApprove, RemoveProvider, AddProvider, Login, Tick, vars

LEMMA StageSteps ==
  ASSUME TypeInv, [Next]_vars, NEW r \in Invocations
  PROVE  /\ stage[r] \in PastClaim => stage'[r] \in PastClaim
         /\ stage'[r] \in Logged => stage[r] \in Logged \/ AuditStart(r)
         /\ stage'[r] = "auditing" /\ IsWrite(r)' =>
              \/ stage[r] = "auditing" /\ call'[r] = call[r] /\ result'[r] = result[r]
              \/ Finish(r) /\ status[call[r].ticket] = "executing"
<1> DEFINE Goal ==
             /\ stage[r] \in PastClaim => stage'[r] \in PastClaim
             /\ stage'[r] \in Logged => stage[r] \in Logged \/ AuditStart(r)
             /\ stage'[r] = "auditing" /\ IsWrite(r)' =>
                  \/ /\ stage[r] = "auditing"
                     /\ call'[r] = call[r] /\ result'[r] = result[r]
                  \/ Finish(r) /\ status[call[r].ticket] = "executing"
<1> USE DEF TypeInv, TypeOK, runVars, IsWrite, Logged
<1>1. ASSUME NEW s \in Invocations, Enter(s) PROVE Goal
  BY <1>1 DEF Enter, RunFor, McpConfirm, McpDecline, Begin, GoTo
<1>2. ASSUME NEW s \in Invocations, Proceed(s) PROVE Goal
  <2>1. ASSUME NEW t \in Tickets, Prepare(s, t) PROVE Goal
    BY <2>1 DEF Prepare, GoTo
  <2>2. ASSUME NEW at \in ClockReads, Claim(s, at) PROVE Goal
    BY <2>2 DEF Claim, GoTo
  <2>3. CASE CheckSession(s) \/ CheckProvider(s) \/ Refuse(s)
    BY <2>3 DEF CheckSession, CheckProvider, Refuse, GoTo
  <2>4. CASE ResolveProvider(s) \/ ResolveSession(s) \/ FailBeforeSend(s) \/ Send(s)
    BY <2>4 DEF ResolveProvider, ResolveSession, FailBeforeSend, Send, Conclude, GoTo
  <2>5. CASE ReceiveSuccess(s) \/ ReceiveError(s) \/ LoseAnswer(s) \/ AuditEnd(s)
    BY <2>5 DEF ReceiveSuccess, ReceiveError, LoseAnswer, AuditEnd, Conclude, GoTo
  <2>6. CASE Finish(s)
    <3>1. CASE s = r
      BY <2>6, <3>1 DEF Finish, GoTo
    <3>2. CASE s # r
      BY <2>6, <3>2 DEF Finish, GoTo
    <3> QED BY <3>1, <3>2
  <2>7. CASE DropGuard(s)
    BY <2>7 DEF DropGuard, GoTo
  <2>8. CASE AuditStart(s)
    <3>1. CASE s = r
      BY <2>8, <3>1 DEF AuditStart, GoTo
    <3>2. CASE s # r
      BY <2>8, <3>2 DEF AuditStart, GoTo
    <3> QED BY <3>1, <3>2
  <2> QED BY <1>2, <2>1, <2>2, <2>3, <2>4, <2>5, <2>6, <2>7, <2>8 DEF Proceed
<1>3. ASSUME NEW s \in Invocations, Interrupt(s) \/ UpstreamActs(s) PROVE Goal
  BY <1>3 DEF Interrupt, AuditStartFails, FinishFails, DropGuardFails,
              AuditEndFails, Cancel, Crash, UpstreamActs, GoTo
<1>4. UNCHANGED runVars => Goal
  OBVIOUS
<1> QED BY <1>1, <1>2, <1>3, <1>4
        DEF Next, CliApprove, RemoveProvider, AddProvider, Login, Tick, vars

LEMMA NextAudit ==
  ASSUME LedgerInv, AuditInv, [Next]_vars
  PROVE  AuditInv'
<1> USE DEF LedgerInv, IInv, AuditInv
<1>1. audit \subseteq audit'
  BY AuditSteps DEF AuditStart, AuditEnd
<1>2. ASSUME NEW r \in Invocations, AuditStart(r) PROVE <<r, "started">> \in audit'
  BY <1>2 DEF AuditStart
<1>3. StartedIsLogged'
  BY <1>1, <1>2, StageSteps DEF StartedIsLogged
<1>4. OnlyClaimsAreLogged'
  <2> SUFFICES ASSUME NEW r \in Invocations, NEW o \in Outcomes \cup {"started"},
                      <<r, o>> \in audit'
               PROVE  stage'[r] \in PastClaim
    BY DEF OnlyClaimsAreLogged
  <2>1. \/ <<r, o>> \in audit
        \/ AuditStart(r) \/ AuditEnd(r)
    BY AuditSteps DEF AuditStart, AuditEnd
  <2> QED BY <2>1, StageSteps DEF OnlyClaimsAreLogged, AuditStart, AuditEnd
<1>5. AuditedIsSettled'
  <2> SUFFICES ASSUME NEW r \in Invocations, stage'[r] = "auditing", IsWrite(r)'
               PROVE  status'[call'[r].ticket] = result'[r]
    BY DEF AuditedIsSettled
  <2>1. CASE stage[r] = "auditing" /\ call'[r] = call[r] /\ result'[r] = result[r]
    <3>1. IsWrite(r)
      BY <2>1 DEF IsWrite
    <3>2. call[r].ticket \in Tickets /\ status[call[r].ticket] = result[r]
      BY <2>1, <3>1 DEF ClaimInv, ClaimsAreApproved, AuditedIsSettled
    <3>3. result[r] \in Settled
      BY DEF TypeInv, TypeOK, Settled
    <3> QED BY <2>1, <3>2, <3>3, TicketsKept DEF TicketKept
  <2>2. CASE Finish(r) /\ status[call[r].ticket] = "executing"
    <3>1. IsWrite(r)
      BY <2>2 DEF Finish, IsWrite
    <3>2. call[r].ticket \in Tickets
      BY <2>2, <3>1 DEF Finish, ClaimInv, ClaimsAreApproved
    <3> QED BY <2>2, <3>2 DEF Finish, FinishTicket, TypeInv, TypeOK
  <2> QED BY <2>1, <2>2, StageSteps
<1>6. AuditMatchesTicket'
  <2>1. ASSUME NEW r \in Invocations, wire'[r] # "none"
        PROVE  <<r, "started">> \in audit'
    <3>1. wire[r] # "none" \/ stage[r] = "resolved"
      BY <2>1, WireSteps DEF Send
    <3> QED BY <3>1, <1>1 DEF AuditMatchesTicket, StartedIsLogged, Logged
  <2>2. ASSUME NEW r \in Invocations, NEW o \in Outcomes, <<r, o>> \in audit'
        PROVE  <<r, "started">> \in audit' /\ (IsWrite(r)' => status'[call'[r].ticket] = o)
    <3>1. CASE <<r, o>> \in audit
      <4>1. stage[r] \in PastClaim
        BY <3>1 DEF OnlyClaimsAreLogged
      <4>2. call'[r] = call[r]
        BY <4>1, CallSteps
      <4>3. IsWrite(r)' => call[r].ticket \in Tickets /\ status[call[r].ticket] = o
        BY <3>1, <4>1, <4>2 DEF ClaimInv, ClaimsAreApproved, AuditMatchesTicket, IsWrite
      <4>4. o \in Settled
        BY DEF Settled
      <4>5. IsWrite(r)' => status'[call[r].ticket] = o
        BY <4>3, <4>4, TicketsKept DEF TicketKept
      <4> QED BY <1>1, <3>1, <4>2, <4>5 DEF AuditMatchesTicket
    <3>2. CASE <<r, o>> \notin audit
      <4>1. AuditEnd(r) /\ o = result[r]
        BY <2>2, <3>2, AuditSteps DEF AuditStart, AuditEnd, Outcomes
      <4>2. stage[r] = "auditing" /\ UNCHANGED <<call, status>>
        BY <4>1 DEF AuditEnd, ticketVars
      <4> QED BY <1>1, <4>1, <4>2 DEF StartedIsLogged, Logged, AuditedIsSettled, IsWrite
    <3> QED BY <3>1, <3>2
  <2> QED BY <2>1, <2>2 DEF AuditMatchesTicket
<1> QED BY <1>3, <1>4, <1>5, <1>6

\* Nothing is sent before its "started" row, and a terminal row of a write says
\* what its ticket says, for good.
THEOREM AuditAgrees == Spec => []AuditMatchesTicket
<1>1. Init => AuditInv
  BY DEF Init, AuditInv, StartedIsLogged, OnlyClaimsAreLogged, AuditedIsSettled,
         AuditMatchesTicket, Logged
<1>2. LedgerInv /\ AuditInv /\ [Next]_vars => AuditInv'
  BY NextAudit
<1>3. AuditInv => AuditMatchesTicket
  BY DEF AuditInv
<1> QED BY <1>1, <1>2, <1>3, LedgerInvariance, PTL DEF Spec

-------------------------------------------------------------------------------
(* Refinement                                                              *)

Effect(t) ==
  {r \in Invocations : call[r] # NoCall /\ call[r].ticket = t /\ wire[r] = "applied"}

\* The upstream changes on behalf of a ticket once, while the broker waits for
\* the answer or after it has given up on it.
LEMMA EffectSteps ==
  ASSUME LedgerInv, OutcomeIsTruthful, [Next]_vars, NEW t \in Tickets,
         Effect(t)' # Effect(t)
  PROVE  /\ \E r \in Invocations : Effect(t)' = {r}
         /\ Effect(t) = {}
         /\ status'[t] = status[t]
         /\ status[t] \in {"executing", "unknown"}
<1> USE DEF LedgerInv, IInv, TypeInv, TypeOK, ClaimInv, Effect
<1>1. \E r \in Invocations : wire'[r] # wire[r] \/ call'[r] # call[r]
  OBVIOUS
<1>2. \A r \in Invocations : wire[r] # "none" => call'[r] = call[r]
  BY CallSteps DEF SilentBeforeSend
<1>3. \A r \in Invocations : call'[r] # call[r] => wire'[r] = "none"
  BY CallSteps DEF SilentBeforeSend
<1>4. \A r \in Invocations : wire[r] = "applied" => wire'[r] = "applied"
  BY WireSteps DEF Send, SilentBeforeSend
<1>5. PICK r \in Invocations :
        /\ call'[r] # NoCall /\ call'[r].ticket = t
        /\ wire'[r] = "applied" /\ wire[r] # "applied"
  BY <1>2, <1>3, <1>4
<1>6. call'[r] = call[r]
  BY <1>3, <1>5
<1>7. wire[r] = "inflight" /\ UpstreamActs(r)
  BY <1>5, WireSteps
<1>8. stage[r] \in PastClaim /\ IsWrite(r)
  BY <1>5, <1>6, <1>7, TicketHolders
<1>9. \A s \in Invocations : call[s].ticket = t /\ wire[s] # "none" => s = r
  BY <1>5, <1>6, <1>8, TicketHolders
<1>10. Effect(t) = {}
  BY <1>7, <1>9
<1>11. Effect(t)' = {r}
  <2>1. \A s \in Invocations : s # r => wire'[s] = wire[s]
    BY <1>7 DEF UpstreamActs
  <2>2. call' = call
    BY <1>7 DEF UpstreamActs, runVars
  <2> QED BY <1>5, <1>9, <2>1, <2>2
<1>12. status'[t] = status[t]
  BY <1>7 DEF UpstreamActs, ticketVars
<1>13. status[t] \in Claimed
  BY <1>5, <1>6, <1>8 DEF ClaimsAreApproved
<1>14. status[t] # "succeeded"
  BY <1>10 DEF OutcomeIsTruthful
<1>15. status[t] # "failed"
  BY <1>5, <1>6, <1>7 DEF OutcomeIsTruthful
<1> QED BY <1>10, <1>11, <1>12, <1>13, <1>14, <1>15 DEF Claimed, Outcomes

\* The phase of the abstract ticket.
PhaseOf(s) ==
  CASE s = "absent" -> "absent"
    [] s = "pending" -> "offered"
    [] s = "approved" -> "granted"
    [] s = "executing" -> "claimed"
    [] s \in {"denied", "expired"} -> "void"
    [] s \in Outcomes -> s

LEMMA Phases ==
  /\ PhaseOf("absent") = "absent"
  /\ PhaseOf("pending") = "offered"
  /\ PhaseOf("approved") = "granted"
  /\ PhaseOf("executing") = "claimed"
  /\ PhaseOf("denied") = "void" /\ PhaseOf("expired") = "void"
  /\ PhaseOf("succeeded") = "succeeded"
  /\ PhaseOf("failed") = "failed"
  /\ PhaseOf("unknown") = "unknown"
  BY DEF PhaseOf, Outcomes

Phase(t) == PhaseOf(status[t])

\* The refinement mapping, one ticket at a time.
LEMMA Mapping ==
  ASSUME NEW t \in Tickets
  PROVE  /\ Ticket!Rest(t) <=> Phase(t)' = Phase(t) /\ Effect(t)' = Effect(t)
         /\ Ticket!TakeEffect(t) <=>
              /\ Phase(t) \in {"claimed", "unknown"} /\ Phase(t)' = Phase(t)
              /\ Effect(t) = {} /\ \E r \in Invocations : Effect(t)' = {r}
         /\ Ticket!Succeed(t) <=> Effect(t) # {} /\ Ticket!Becomes(t, {"claimed"}, "succeeded")
         /\ Ticket!Fail(t) <=> Effect(t) = {} /\ Ticket!Becomes(t, {"claimed"}, "failed")
<1> DEFINE ph == [s \in Tickets |-> Phase(s)]
           ef == [s \in Tickets |-> Effect(s)]
<1>1. ph[t] = Phase(t) /\ ef[t] = Effect(t) /\ ph'[t] = Phase(t)' /\ ef'[t] = Effect(t)'
  OBVIOUS
<1>2. /\ Ticket!Rest(t) <=> ph'[t] = ph[t] /\ ef'[t] = ef[t]
      /\ Ticket!TakeEffect(t) <=>
           /\ ph[t] \in {"claimed", "unknown"} /\ ef[t] = {}
           /\ \E r \in Invocations : ef'[t] = {r}
           /\ ph'[t] = ph[t]
      /\ Ticket!Succeed(t) <=> ef[t] # {} /\ Ticket!Becomes(t, {"claimed"}, "succeeded")
      /\ Ticket!Fail(t) <=> ef[t] = {} /\ Ticket!Becomes(t, {"claimed"}, "failed")
  BY Zenon
  DEF Ticket!Rest, Ticket!TakeEffect, Ticket!Succeed, Ticket!Fail, Phase, PhaseOf, Effect
<1> HIDE DEF ph, ef
<1> QED BY <1>1, <1>2

LEMMA BecomesMaps ==
  ASSUME NEW t \in Tickets, NEW from, NEW to,
         Phase(t) \in from, Phase(t)' = to, Effect(t)' = Effect(t)
  PROVE  Ticket!Becomes(t, from, to)
<1> DEFINE ph == [s \in Tickets |-> Phase(s)]
           ef == [s \in Tickets |-> Effect(s)]
<1>1. ph[t] \in from /\ ph'[t] = to /\ ef'[t] = ef[t]
  OBVIOUS
<1> QED BY Zenon, <1>1 DEF Ticket!Becomes, Phase, PhaseOf, Effect

\* Every step moves each ticket as the abstract specification allows.
LEMMA TicketRefines ==
  ASSUME LedgerInv, OutcomeIsTruthful, OutcomeIsTruthful', [Next]_vars,
         NEW t \in Tickets
  PROVE  Ticket!Move(t) \/ Ticket!Rest(t)
<1> USE DEF Phase, Ticket!Move
<1>1. CASE Effect(t)' # Effect(t)
  <2>1. PICK r \in Invocations : Effect(t)' = {r}
    BY <1>1, EffectSteps
  <2>2. Effect(t) = {} /\ status'[t] = status[t] /\ status[t] \in {"executing", "unknown"}
    BY <1>1, EffectSteps
  <2>3. Ticket!TakeEffect(t)
    BY <2>1, <2>2, Mapping, Phases
  <2> QED BY <2>3
<1>2. CASE Effect(t)' = Effect(t)
  <2>1. CASE status'[t] = status[t]
    BY <1>2, <2>1, Mapping
  <2>2. CASE status[t] = "absent" /\ status'[t] = "pending"
    BY <1>2, <2>2, BecomesMaps, Phases DEF Ticket!Offer
  <2>3. CASE status[t] = "pending" /\ status'[t] = "approved"
    BY <1>2, <2>3, BecomesMaps, Phases DEF Ticket!Grant
  <2>4. CASE status[t] \in Open /\ status'[t] \in {"denied", "expired"}
    BY <1>2, <2>4, BecomesMaps, Phases DEF Ticket!Withdraw, Open
  <2>5. CASE status[t] = "approved" /\ status'[t] = "executing"
    BY <1>2, <2>5, BecomesMaps, Phases DEF Ticket!Claim
  <2>6. CASE status[t] = "executing" /\ status'[t] = "succeeded"
    <3>1. Effect(t)' # {}
      BY <2>6 DEF OutcomeIsTruthful, Effect
    <3>2. Ticket!Becomes(t, {"claimed"}, "succeeded")
      BY <1>2, <2>6, BecomesMaps, Phases
    <3> QED BY <1>2, <3>1, <3>2, Mapping
  <2>7. CASE status[t] = "executing" /\ status'[t] = "failed"
    <3>1. Effect(t)' = {}
      BY <2>7 DEF OutcomeIsTruthful, Effect
    <3>2. Ticket!Becomes(t, {"claimed"}, "failed")
      BY <1>2, <2>7, BecomesMaps, Phases
    <3> QED BY <1>2, <3>1, <3>2, Mapping
  <2>8. CASE status[t] = "executing" /\ status'[t] = "unknown"
    BY <1>2, <2>8, BecomesMaps, Phases DEF Ticket!GiveUp
  <2> QED BY <2>1, <2>2, <2>3, <2>4, <2>5, <2>6, <2>7, <2>8, TicketsLive
          DEF Lifecycle, LedgerInv, IInv, Outcomes
<1> QED BY <1>1, <1>2

\* The executions implement the one-shot ticket.
THEOREM Refines == Spec => ImplementsTicket
<1>1. Init => Ticket!Init
  BY DEF Init, Ticket!Init
<1>2. LedgerInv /\ OutcomeIsTruthful /\ OutcomeIsTruthful' /\ [Next]_vars
      => [Ticket!Next]_(Ticket!ticketVars)
  BY TicketRefines DEF Ticket!Next
<1> QED BY <1>1, <1>2, LedgerInvariance, TruthfulOutcomes, PTL
        DEF Spec, ImplementsTicket, Ticket!Spec
===============================================================================
