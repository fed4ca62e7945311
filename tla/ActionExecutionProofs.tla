------------------------- MODULE ActionExecutionProofs -------------------------
(***************************************************************************)
(* What holds of ActionExecution for any number of invocations, tickets    *)
(* and processes, any clock and any number of faults.                      *)
(***************************************************************************)
EXTENDS ActionExecution, TLAPS

(***************************************************************************)
(* The inductive invariant.  Whether a request on the wire was approved    *)
(* cannot be seen in the step that sends it: that step looks neither at    *)
(* the ticket nor at other invocations.  It follows from what the claim    *)
(* left behind, so the invariant says what is known since the claim.       *)
(***************************************************************************)

\* An invocation that has begun has its arguments.
Called == \A r \in Invocations : stage[r] # "idle" => call[r] \in Calls

\* A ticket that has a row has all of it.
RowsAreComplete == \A t \in Tickets : status[t] # "absent" => grant[t] \in Grants

\* Reads that got past the front door carry no ticket.
ReadsCarryNoTicket ==
  \A r \in Invocations :
    stage[r] \notin {"idle", "closed"} /\ ~IsWrite(r) => call[r].ticket = NoTicket

\* Nothing is on the wire before Send.
SilentBeforeSend ==
  \A r \in Invocations :
    stage[r] \in Unclaimed \cup {"idle", "closed", "claimed", "started", "routed",
                               "resolved", "aborting"} => wire[r] = "none"

\* A write past its claim has a claimed ticket that was approved for it.
ClaimsAreApproved ==
  \A r \in Invocations :
    stage[r] \in PastClaim /\ IsWrite(r) =>
      LET t == call[r].ticket
      IN  /\ t \in Tickets
          /\ status[t] \in Claimed
          /\ grant[t].client = call[r].client
          /\ grant[t].request = call[r].request

\* No two of them have the same ticket.
ClaimsAreExclusive ==
  \A r, s \in Invocations :
    /\ stage[r] \in PastClaim /\ IsWrite(r)
    /\ stage[s] \in PastClaim /\ IsWrite(s)
    /\ call[r].ticket = call[s].ticket
    => r = s

TypeInv == TypeOK /\ Called /\ RowsAreComplete

ClaimInv ==
  /\ ReadsCarryNoTicket /\ SilentBeforeSend
  /\ ClaimsAreApproved /\ ClaimsAreExclusive

IInv == TypeInv /\ ClaimInv

-------------------------------------------------------------------------------
(* Types                                                                   *)

USE DEF Stages, Unclaimed, PastClaim, Holding

LEMMA InitTypes == Init => TypeInv
  BY ExecutionAssumption
  DEF Init, TypeInv, TypeOK, Called, RowsAreComplete, Statuses, Outcomes

LEMMA SweepTypes ==
  ASSUME TypeOK, NEW moves \in BOOLEAN, NEW at, NEW t, NEW new \in Statuses,
         SweepAndSet(moves, at, t, new)
  PROVE  status' \in [Tickets -> Statuses]
  BY DEF TypeOK, SweepAndSet, Swept, Statuses

LEMMA NextTypes == TypeInv /\ [Next]_vars => TypeInv'
<1> SUFFICES ASSUME TypeInv, [Next]_vars PROVE TypeInv'
  OBVIOUS
<1> USE ExecutionAssumption DEF TypeInv, TypeOK, Called, RowsAreComplete,
        providerVars, ticketVars, runVars
<1>1. ASSUME NEW r \in Invocations, Enter(r) PROVE TypeInv'
  <2>1. ASSUME NEW q \in Requests, NEW c \in Clients,
               NEW t \in Tickets \cup {NoTicket}, RunFor(r, c, q, t)
        PROVE  TypeInv'
    BY <2>1 DEF RunFor, Begin, GoTo, Calls
  <2>2. ASSUME NEW q \in Requests, NEW t \in Tickets, NEW at \in ClockReads,
               McpConfirm(r, q, t, at)
        PROVE  TypeInv'
    <3>1. status' \in [Tickets -> Statuses]
      BY <2>2, SweepTypes DEF McpConfirm, Approvable, Statuses, Open
    <3> QED
      BY <2>2, <3>1
      DEF McpConfirm, Begin, GoTo, Calls, Clients, SweepAndSet, Swept, Approvable, Open
  <2>3. ASSUME NEW q \in Requests, NEW t \in Tickets, McpDecline(r, q, t)
        PROVE  TypeInv'
    BY <2>3 DEF McpDecline, Begin, GoTo, Calls, Clients, Statuses
  <2> QED BY <1>1, <2>1, <2>2, <2>3 DEF Enter
<1>2. ASSUME NEW r \in Invocations, Proceed(r) PROVE TypeInv'
  <2>1. CASE CheckSession(r) \/ CheckProvider(r)
    BY <2>1 DEF CheckSession, CheckProvider, GoTo
  <2>2. CASE Refuse(r)
    BY <2>2 DEF Refuse, GoTo
  <2>3. ASSUME NEW t \in Tickets, Prepare(r, t) PROVE TypeInv'
    BY <2>3 DEF Prepare, GoTo, Statuses, Open, Grants, Calls, ProviderFor
  <2>4. ASSUME NEW at \in ClockReads, Claim(r, at) PROVE TypeInv'
    <3>1. status' \in [Tickets -> Statuses]
      BY <2>4, SweepTypes DEF Claim, Claimable, Statuses, Claimed
    <3> QED BY <2>4, <3>1 DEF Claim, GoTo, SweepAndSet, Swept, Claimable, Open
  <2>5. CASE AuditStart(r)
    BY <2>5 DEF AuditStart, GoTo
  <2>6. CASE ResolveProvider(r) \/ ResolveSession(r)
    BY <2>6 DEF ResolveProvider, ResolveSession, GoTo
  <2>7. CASE FailBeforeSend(r)
    BY <2>7 DEF FailBeforeSend, Conclude, GoTo, Outcomes
  <2>8. CASE Send(r)
    BY <2>8 DEF Send, GoTo
  <2>9. CASE ReceiveSuccess(r)
    BY <2>9 DEF ReceiveSuccess, Conclude, GoTo, Outcomes
  <2>10. CASE ReceiveError(r)
    BY <2>10 DEF ReceiveError, Conclude, GoTo, Outcomes
  <2>11. CASE LoseAnswer(r)
    BY <2>11 DEF LoseAnswer, Ambiguous, Conclude, GoTo, Outcomes
  <2>12. CASE Finish(r)
    BY <2>12 DEF Finish, FinishTicket, GoTo, Statuses, Claimed
  <2>13. CASE DropGuard(r)
    BY <2>13 DEF DropGuard, FinishTicket, GoTo, Statuses, Claimed, Outcomes
  <2>14. CASE AuditEnd(r)
    BY <2>14 DEF AuditEnd, GoTo
  <2> QED BY <1>2, <2>1, <2>2, <2>3, <2>4, <2>5, <2>6, <2>7, <2>8, <2>9, <2>10,
             <2>11, <2>12, <2>13, <2>14 DEF Proceed
<1>3. ASSUME NEW r \in Invocations, Interrupt(r) PROVE TypeInv'
  <2>1. CASE AuditStartFails(r)
    BY <2>1 DEF AuditStartFails, DbError, GoTo, Outcomes
  <2>2. CASE FinishFails(r) \/ DropGuardFails(r) \/ AuditEndFails(r)
    BY <2>2 DEF FinishFails, DropGuardFails, AuditEndFails, DbError, GoTo
  <2>3. CASE Cancel(r)
    BY <2>3 DEF Cancel, GoTo
  <2>4. CASE Crash(r)
    BY <2>4 DEF Crash
  <2> QED BY <1>3, <2>1, <2>2, <2>3, <2>4 DEF Interrupt
<1>4. ASSUME NEW r \in Invocations, UpstreamActs(r) PROVE TypeInv'
  BY <1>4 DEF UpstreamActs
<1>5. ASSUME NEW t \in Tickets, NEW at \in ClockReads, CliApprove(t, at)
      PROVE  TypeInv'
  <2>1. status' \in [Tickets -> Statuses]
    BY <1>5, SweepTypes DEF CliApprove, Approvable, Statuses, Open
  <2> QED BY <1>5, <2>1 DEF CliApprove, SweepAndSet, Swept, Approvable, Open
<1>6. ASSUME NEW p \in Providers, RemoveProvider(p) \/ AddProvider(p) \/ Login(p)
      PROVE  TypeInv'
  BY <1>6 DEF RemoveProvider, AddProvider, Login, Statuses, Open
<1>7. CASE Tick
  BY <1>7 DEF Tick
<1>8. CASE UNCHANGED vars
  BY <1>8 DEF vars
<1> QED BY <1>1, <1>2, <1>3, <1>4, <1>5, <1>6, <1>7, <1>8 DEF Next

\* Every reachable state is well typed.
THEOREM Types == Spec => []TypeOK
<1>1. TypeInv => TypeOK
  BY DEF TypeInv
<1> QED BY InitTypes, NextTypes, <1>1, PTL DEF Spec
-------------------------------------------------------------------------------
(* Tickets                                                                 *)

\* What any step may do to one ticket: a settled one stays as it is, a claimed
\* one stays claimed by the same client for the same request.
TicketKept(t) ==
  /\ status[t] \in Settled => status'[t] = status[t]
  /\ status[t] \in Claimed => status'[t] \in Claimed /\ grant'[t] = grant[t]

LEMMA SweepKeeps ==
  ASSUME NEW moves, NEW at, NEW t \in Tickets, NEW new,
         moves => status[t] \in Open,
         SweepAndSet(moves, at, t, new), UNCHANGED grant,
         NEW s \in Tickets
  PROVE  TicketKept(s)
  BY DEF TicketKept, SweepAndSet, Swept, Settled, Claimed, Outcomes, Open

LEMMA OutcomeKeeps ==
  ASSUME TypeOK, NEW t, NEW outcome \in Outcomes, FinishTicket(t, outcome),
         UNCHANGED grant, NEW s \in Tickets
  PROVE  TicketKept(s)
  BY DEF TypeOK, TicketKept, FinishTicket, Settled, Claimed, Outcomes

LEMMA TicketsKept ==
  ASSUME TypeInv, [Next]_vars, NEW s \in Tickets
  PROVE  TicketKept(s)
<1> USE DEF TypeInv, TypeOK, ticketVars
<1>0. UNCHANGED ticketVars => TicketKept(s)
  BY DEF TicketKept
<1>1. ASSUME NEW r \in Invocations, Enter(r) PROVE TicketKept(s)
  <2>1. ASSUME NEW q \in Requests, NEW c \in Clients,
               NEW t \in Tickets \cup {NoTicket}, RunFor(r, c, q, t)
        PROVE  TicketKept(s)
    BY <2>1, <1>0 DEF RunFor, Begin
  <2>2. ASSUME NEW q \in Requests, NEW t \in Tickets, NEW at \in ClockReads,
               McpConfirm(r, q, t, at)
        PROVE  TicketKept(s)
    BY <2>2, SweepKeeps DEF McpConfirm, Begin, Approvable, Open
  <2>3. ASSUME NEW q \in Requests, NEW t \in Tickets, McpDecline(r, q, t)
        PROVE  TicketKept(s)
    BY <2>3 DEF McpDecline, Begin, TicketKept, Settled, Claimed, Outcomes
  <2> QED BY <1>1, <2>1, <2>2, <2>3 DEF Enter
<1>2. ASSUME NEW r \in Invocations, Proceed(r) PROVE TicketKept(s)
  <2>1. ASSUME NEW t \in Tickets, Prepare(r, t) PROVE TicketKept(s)
    BY <2>1 DEF Prepare, TicketKept, Settled, Claimed, Outcomes
  <2>2. ASSUME NEW at \in ClockReads, Claim(r, at) PROVE TicketKept(s)
    <3> DEFINE t == call[r].ticket
    <3>1. t \in Tickets
      BY <2>2 DEF Claim, Called, Calls
    <3>2. Claimable(r, t, at) => status[t] \in Open
      BY DEF Claimable, Open
    <3> QED BY <2>2, <3>1, <3>2, SweepKeeps DEF Claim
  <2>3. CASE Finish(r) \/ DropGuard(r)
    BY <2>3, OutcomeKeeps DEF Finish, DropGuard, Outcomes
  <2>4. CASE CheckSession(r) \/ CheckProvider(r) \/ Refuse(r) \/ AuditStart(r)
    BY <2>4, <1>0 DEF CheckSession, CheckProvider, Refuse, AuditStart
  <2>5. CASE FailBeforeSend(r) \/ Send(r) \/ ReceiveSuccess(r) \/ ReceiveError(r)
    BY <2>5, <1>0 DEF FailBeforeSend, Send, ReceiveSuccess, ReceiveError
  <2>6. CASE ResolveProvider(r) \/ ResolveSession(r) \/ LoseAnswer(r) \/ AuditEnd(r)
    BY <2>6, <1>0 DEF ResolveProvider, ResolveSession, LoseAnswer, AuditEnd
  <2> QED BY <1>2, <2>1, <2>2, <2>3, <2>4, <2>5, <2>6 DEF Proceed
<1>3. ASSUME NEW r \in Invocations, Interrupt(r) PROVE TicketKept(s)
  BY <1>3, <1>0 DEF Interrupt, AuditStartFails, FinishFails, DropGuardFails,
                    AuditEndFails, Cancel, Crash
<1>4. ASSUME NEW r \in Invocations, UpstreamActs(r) PROVE TicketKept(s)
  BY <1>4, <1>0 DEF UpstreamActs
<1>5. ASSUME NEW t \in Tickets, NEW at \in ClockReads, CliApprove(t, at)
      PROVE  TicketKept(s)
  BY <1>5, SweepKeeps DEF CliApprove, Approvable, Open
<1>6. ASSUME NEW p \in Providers, RemoveProvider(p) PROVE TicketKept(s)
  BY <1>6 DEF RemoveProvider, TicketKept, Settled, Claimed, Outcomes, Open
<1>7. ASSUME NEW p \in Providers, AddProvider(p) \/ Login(p) PROVE TicketKept(s)
  BY <1>7, <1>0 DEF AddProvider, Login
<1>8. CASE Tick \/ UNCHANGED vars
  BY <1>8, <1>0 DEF Tick, vars
<1> QED BY <1>1, <1>2, <1>3, <1>4, <1>5, <1>6, <1>7, <1>8 DEF Next

\* No step ever touches a settled ticket.
THEOREM SettledStays == Spec => SettledIsFinal
<1>1. TypeInv /\ [Next]_vars
      => [\A t \in Tickets : status[t] \in Settled => status'[t] = status[t]]_vars
  BY TicketsKept DEF TicketKept
<1> QED BY InitTypes, NextTypes, <1>1, PTL DEF Spec, SettledIsFinal

-------------------------------------------------------------------------------
(* Claims                                                                  *)

LEMMA InitClaims == Init => ClaimInv
  BY DEF Init, ClaimInv, ReadsCarryNoTicket, SilentBeforeSend, ClaimsAreApproved,
         ClaimsAreExclusive

\* Steps of other parts of the system leave the invocations alone.
LEMMA ClaimsUndisturbed ==
  ASSUME TypeInv, ClaimInv, [Next]_vars, UNCHANGED <<stage, call, wire>>
  PROVE  ClaimInv'
<1> USE DEF ClaimInv, IsWrite
<1>1. ReadsCarryNoTicket' /\ SilentBeforeSend' /\ ClaimsAreExclusive'
  BY DEF ReadsCarryNoTicket, SilentBeforeSend, ClaimsAreExclusive
<1>2. ClaimsAreApproved'
  BY TicketsKept DEF ClaimsAreApproved, TicketKept
<1> QED BY <1>1, <1>2

\* Neither does an invocation that stays on its side of the claim.
LEMMA ClaimsCarriedOn ==
  ASSUME TypeInv, ClaimInv, [Next]_vars, NEW r \in Invocations,
         NEW next \in Stages, GoTo(r, next), UNCHANGED call,
         next = "closed" \/ stage[r] \notin {"idle", "closed"},
         next \in PastClaim /\ IsWrite(r) => stage[r] \in PastClaim,
         \A s \in Invocations \ {r} : wire'[s] = wire[s],
         next \in {"closed", "known", "admitted", "claimed", "started", "routed",
                  "resolved", "aborting"} => wire'[r] = "none",
         next \notin {"idle", "entered"}
  PROVE  ClaimInv'
<1> USE DEF TypeInv, TypeOK, ClaimInv, GoTo, IsWrite
<1>1. ReadsCarryNoTicket'
  BY DEF ReadsCarryNoTicket
<1>2. SilentBeforeSend'
  BY DEF SilentBeforeSend
<1>3. ClaimsAreApproved'
  BY TicketsKept DEF ClaimsAreApproved, TicketKept
<1>4. ClaimsAreExclusive'
  BY DEF ClaimsAreExclusive
<1> QED BY <1>1, <1>2, <1>3, <1>4

LEMMA EnterClaims ==
  ASSUME TypeInv, ClaimInv, [Next]_vars, NEW r \in Invocations, Enter(r)
  PROVE  ClaimInv'
<1> DEFINE Begun(c) ==
             /\ stage[r] = "idle"
             /\ UNCHANGED wire
             /\ call' = [call EXCEPT ![r] = c]
             /\ \/ GoTo(r, "closed")
                \/ GoTo(r, "entered") /\ (c.request \in Writes \/ c.ticket = NoTicket)
<1>1. PICK c \in Calls : Begun(c)
  <2>1. ASSUME NEW q \in Requests, NEW client \in Clients,
               NEW t \in Tickets \cup {NoTicket}, RunFor(r, client, q, t)
        PROVE  \E c \in Calls : Begun(c)
    <3> [client |-> client, request |-> q, ticket |-> t] \in Calls
      BY DEF Calls
    <3> QED BY <2>1 DEF RunFor, Begin
  <2>2. ASSUME NEW q \in Requests, NEW t \in Tickets, NEW at \in ClockReads,
               McpConfirm(r, q, t, at)
        PROVE  \E c \in Calls : Begun(c)
    <3> [client |-> "local-mcp", request |-> q, ticket |-> t] \in Calls
      BY DEF Calls, Clients
    <3> QED BY <2>2 DEF McpConfirm, Begin
  <2>3. ASSUME NEW q \in Requests, NEW t \in Tickets, McpDecline(r, q, t)
        PROVE  \E c \in Calls : Begun(c)
    <3> [client |-> "local-mcp", request |-> q, ticket |-> t] \in Calls
      BY DEF Calls, Clients
    <3> QED BY <2>3 DEF McpDecline, Begin
  <2> QED BY <2>1, <2>2, <2>3 DEF Enter
<1> USE <1>1 DEF TypeInv, TypeOK, ClaimInv, GoTo, IsWrite
<1>2. ReadsCarryNoTicket'
  BY DEF ReadsCarryNoTicket
<1>3. SilentBeforeSend'
  BY DEF SilentBeforeSend
<1>4. ClaimsAreApproved'
  BY TicketsKept DEF ClaimsAreApproved, TicketKept
<1>5. ClaimsAreExclusive'
  BY DEF ClaimsAreExclusive
<1> QED BY <1>2, <1>3, <1>4, <1>5

\* The claim itself: its ticket was approved, so nobody else had claimed it.
LEMMA ClaimClaims ==
  ASSUME TypeInv, ClaimInv, [Next]_vars,
         NEW r \in Invocations, NEW at \in ClockReads, Claim(r, at)
  PROVE  ClaimInv'
<1> DEFINE t == call[r].ticket
<1>1. t \in Tickets
  BY DEF TypeInv, TypeOK, Claim, Called, Calls
<1>2. CASE ~Claimable(r, t, at)
  BY <1>2, ClaimsCarriedOn DEF Claim, ClaimInv, SilentBeforeSend, TypeInv, TypeOK
<1>3. CASE Claimable(r, t, at)
  <2> USE <1>1, <1>3 DEF TypeInv, TypeOK, ClaimInv, IsWrite
  <2>1. /\ stage[r] = "admitted" /\ status[t] = "approved"
        /\ stage' = [stage EXCEPT ![r] = "claimed"]
        /\ status'[t] = "executing"
        /\ grant[t].client = call[r].client /\ grant[t].request = call[r].request
        /\ UNCHANGED <<grant, call, wire>>
    BY DEF Claim, Claimable, GoTo, SweepAndSet
  <2>2. ReadsCarryNoTicket' /\ SilentBeforeSend'
    BY <2>1 DEF ReadsCarryNoTicket, SilentBeforeSend
  <2>3. ClaimsAreApproved'
    BY <2>1, TicketsKept DEF ClaimsAreApproved, TicketKept, Claimed
  <2>4. \A s \in Invocations :
          stage[s] \in PastClaim /\ IsWrite(s) => call[s].ticket # t
    BY <2>1 DEF ClaimsAreApproved, Claimed, Outcomes
  <2>5. ClaimsAreExclusive'
    BY <2>1, <2>4 DEF ClaimsAreExclusive
  <2> QED BY <2>2, <2>3, <2>5
<1> QED BY <1>2, <1>3

LEMMA NextClaims == TypeInv /\ ClaimInv /\ [Next]_vars => ClaimInv'
<1> SUFFICES ASSUME TypeInv, ClaimInv, [Next]_vars PROVE ClaimInv'
  OBVIOUS
<1> USE DEF runVars
<1>1. ASSUME NEW r \in Invocations, Enter(r) PROVE ClaimInv'
  BY <1>1, EnterClaims
<1>2. ASSUME NEW r \in Invocations, Proceed(r) PROVE ClaimInv'
  <2> USE ClaimsCarriedOn DEF TypeInv, TypeOK, ClaimInv, SilentBeforeSend
  <2>1. CASE CheckSession(r) \/ CheckProvider(r)
    BY <2>1 DEF CheckSession, CheckProvider
  <2>2. CASE Refuse(r)
    BY <2>2 DEF Refuse
  <2>3. ASSUME NEW t \in Tickets, Prepare(r, t) PROVE ClaimInv'
    BY <2>3 DEF Prepare
  <2>4. ASSUME NEW at \in ClockReads, Claim(r, at) PROVE ClaimInv'
    BY <2>4, ClaimClaims
  <2>5. CASE AuditStart(r)
    BY <2>5 DEF AuditStart
  <2>6. CASE ResolveProvider(r) \/ ResolveSession(r)
    BY <2>6 DEF ResolveProvider, ResolveSession
  <2>7. CASE FailBeforeSend(r)
    BY <2>7 DEF FailBeforeSend, Conclude
  <2>8. CASE Send(r)
    BY <2>8 DEF Send
  <2>9. CASE ReceiveSuccess(r) \/ ReceiveError(r) \/ LoseAnswer(r)
    BY <2>9 DEF ReceiveSuccess, ReceiveError, LoseAnswer, Conclude
  <2>10. CASE Finish(r)
    BY <2>10 DEF Finish
  <2>11. CASE DropGuard(r)
    BY <2>11 DEF DropGuard
  <2>12. CASE AuditEnd(r)
    BY <2>12 DEF AuditEnd
  <2> QED BY <1>2, <2>1, <2>2, <2>3, <2>4, <2>5, <2>6, <2>7, <2>8, <2>9, <2>10,
             <2>11, <2>12 DEF Proceed
<1>3. ASSUME NEW r \in Invocations, Interrupt(r) PROVE ClaimInv'
  <2>1. CASE AuditStartFails(r)
    BY <2>1, ClaimsCarriedOn
    DEF AuditStartFails, TypeInv, TypeOK, ClaimInv, SilentBeforeSend
  <2>2. CASE FinishFails(r) \/ DropGuardFails(r) \/ AuditEndFails(r)
    BY <2>2, ClaimsCarriedOn DEF FinishFails, DropGuardFails, AuditEndFails
  <2>3. CASE Cancel(r)
    BY <2>3, ClaimsCarriedOn DEF Cancel
  <2>4. CASE Crash(r)
    <3> USE <2>4 DEF Crash, TypeInv, TypeOK, ClaimInv, IsWrite
    <3>1. \A s \in Invocations :
            /\ stage'[s] # stage[s] =>
                 \/ stage'[s] = "closed" /\ stage[s] \in Unclaimed
                 \/ stage'[s] = "crashed" /\ stage[s] \in PastClaim
            /\ call'[s] = call[s] /\ wire'[s] = wire[s]
      OBVIOUS
    <3>2. ReadsCarryNoTicket'
      BY <3>1 DEF ReadsCarryNoTicket
    <3>3. SilentBeforeSend'
      BY <3>1 DEF SilentBeforeSend
    <3>4. ClaimsAreApproved'
      BY <3>1 DEF ClaimsAreApproved, ticketVars
    <3>5. ClaimsAreExclusive'
      BY <3>1 DEF ClaimsAreExclusive
    <3> QED BY <3>2, <3>3, <3>4, <3>5
  <2> QED BY <1>3, <2>1, <2>2, <2>3, <2>4 DEF Interrupt
<1>4. ASSUME NEW r \in Invocations, UpstreamActs(r) PROVE ClaimInv'
  <2> USE <1>4 DEF UpstreamActs, TypeInv, TypeOK, ClaimInv, IsWrite
  <2>1. \A s \in Invocations : wire[s] = "none" => wire'[s] = "none"
    OBVIOUS
  <2>2. SilentBeforeSend'
    BY <2>1 DEF SilentBeforeSend
  <2>3. ReadsCarryNoTicket' /\ ClaimsAreApproved' /\ ClaimsAreExclusive'
    BY DEF ReadsCarryNoTicket, ClaimsAreApproved, ClaimsAreExclusive, ticketVars
  <2> QED BY <2>2, <2>3
<1>5. ASSUME NEW t \in Tickets, NEW at \in ClockReads, CliApprove(t, at)
      PROVE  ClaimInv'
  BY <1>5, ClaimsUndisturbed DEF CliApprove
<1>6. ASSUME NEW p \in Providers, RemoveProvider(p) \/ AddProvider(p) \/ Login(p)
      PROVE  ClaimInv'
  BY <1>6, ClaimsUndisturbed DEF RemoveProvider, AddProvider, Login
<1>7. CASE Tick \/ UNCHANGED vars
  BY <1>7, ClaimsUndisturbed DEF Tick, vars
<1> QED BY <1>1, <1>2, <1>3, <1>4, <1>5, <1>6, <1>7 DEF Next

LEMMA Invariance == Spec => []IInv
<1>1. Init => IInv
  BY InitTypes, InitClaims DEF IInv
<1>2. IInv /\ [Next]_vars => IInv'
  BY NextTypes, NextClaims DEF IInv
<1> QED BY <1>1, <1>2, PTL DEF Spec

-------------------------------------------------------------------------------
(* Theorems                                                                *)

\* A write leaves the broker only under a claimed ticket approved for it.
THEOREM ApprovedSends == Spec => []SentUnderApproval
<1>1. IInv => SentUnderApproval
  BY DEF IInv, TypeInv, TypeOK, ClaimInv, SilentBeforeSend, ClaimsAreApproved,
         SentUnderApproval
<1> QED BY Invariance, <1>1, PTL

\* One ticket, one request on the wire, whoever presents the ticket.
THEOREM OneSend == Spec => []AtMostOneSend
<1>1. ASSUME IInv, NEW r \in Invocations, NEW s \in Invocations,
             wire[r] # "none", IsWrite(r), wire[s] # "none",
             call[s].ticket = call[r].ticket
      PROVE  r = s
  <2> USE <1>1 DEF IInv, TypeInv, TypeOK, ClaimInv
  <2>1. stage[r] \in PastClaim /\ stage[s] \in PastClaim
    BY DEF SilentBeforeSend
  <2>2. call[r].ticket \in Tickets
    BY <2>1 DEF ClaimsAreApproved
  <2>3. IsWrite(s)
    BY <2>1, <2>2, ExecutionAssumption DEF ReadsCarryNoTicket
  <2> QED BY <2>1, <2>3 DEF ClaimsAreExclusive
<1>2. IInv => AtMostOneSend
  BY <1>1 DEF AtMostOneSend
<1> QED BY Invariance, <1>2, PTL
-------------------------------------------------------------------------------
(* What makes a ticket start and stop executing                            *)

LEMMA ExecutingBegins ==
  ASSUME TypeInv, [Next]_vars, NEW t \in Tickets,
         status[t] # "executing", status'[t] = "executing"
  PROVE  \E r \in Invocations, at \in ClockReads :
           /\ Claim(r, at) /\ call[r].ticket = t
           /\ Claimable(r, t, at)
           /\ stage'[r] = "claimed"
<1> USE DEF TypeInv, TypeOK, ticketVars
<1>1. ASSUME NEW r \in Invocations, NEW at \in ClockReads, Claim(r, at)
      PROVE  call[r].ticket = t /\ Claimable(r, t, at) /\ stage'[r] = "claimed"
  BY <1>1 DEF Claim, SweepAndSet, Swept, GoTo
<1>2. ASSUME NEW r \in Invocations, Enter(r) PROVE FALSE
  BY <1>2 DEF Enter, RunFor, McpConfirm, McpDecline, Begin, SweepAndSet, Swept
<1>3. ASSUME NEW r \in Invocations, Finish(r) \/ DropGuard(r) PROVE FALSE
  BY <1>3 DEF Finish, DropGuard, FinishTicket
<1>4. ASSUME NEW r \in Invocations, Interrupt(r) \/ UpstreamActs(r) PROVE FALSE
  BY <1>4 DEF Interrupt, AuditStartFails, FinishFails, DropGuardFails, AuditEndFails,
              Cancel, Crash, UpstreamActs
<1>5. ASSUME NEW r \in Invocations, Proceed(r)
      PROVE  \/ \E at \in ClockReads : Claim(r, at)
             \/ Finish(r) \/ DropGuard(r)
  <2>1. ~ \E s \in Tickets : Prepare(r, s)
    BY DEF Prepare
  <2> QED BY <1>5, <2>1
          DEF Proceed, CheckSession, CheckProvider, Refuse, AuditStart, ResolveProvider,
              ResolveSession, FailBeforeSend, Send, ReceiveSuccess, ReceiveError,
              LoseAnswer, AuditEnd
<1>6. ASSUME NEW s \in Tickets, NEW at \in ClockReads, CliApprove(s, at) PROVE FALSE
  BY <1>6 DEF CliApprove, SweepAndSet, Swept
<1>7. ASSUME NEW p \in Providers, RemoveProvider(p) \/ AddProvider(p) \/ Login(p)
      PROVE  FALSE
  BY <1>7 DEF RemoveProvider, AddProvider, Login
<1>8. ~ (Tick \/ UNCHANGED vars)
  BY DEF Tick, vars
<1> QED BY <1>1, <1>2, <1>3, <1>4, <1>5, <1>6, <1>7, <1>8 DEF Next

LEMMA ExecutingEnds ==
  ASSUME TypeInv, [Next]_vars, NEW t \in Tickets,
         status[t] = "executing", status'[t] # "executing"
  PROVE  \E r \in Invocations :
           /\ Finish(r) \/ DropGuard(r)
           /\ call[r].ticket = t
<1> USE DEF TypeInv, TypeOK, ticketVars
<1>1. ASSUME NEW r \in Invocations, Finish(r) \/ DropGuard(r)
      PROVE  call[r].ticket = t
  BY <1>1 DEF Finish, DropGuard, FinishTicket
<1>2. ASSUME NEW r \in Invocations, Enter(r) PROVE FALSE
  BY <1>2 DEF Enter, RunFor, McpConfirm, McpDecline, Begin, SweepAndSet, Swept, Open,
              Approvable
<1>3. ASSUME NEW r \in Invocations, NEW at \in ClockReads, Claim(r, at) PROVE FALSE
  BY <1>3 DEF Claim, SweepAndSet, Swept, Open
<1>4. ASSUME NEW r \in Invocations, Interrupt(r) \/ UpstreamActs(r) PROVE FALSE
  BY <1>4 DEF Interrupt, AuditStartFails, FinishFails, DropGuardFails, AuditEndFails,
              Cancel, Crash, UpstreamActs
<1>5. ASSUME NEW r \in Invocations, Proceed(r)
      PROVE  \/ \E at \in ClockReads : Claim(r, at)
             \/ Finish(r) \/ DropGuard(r)
  <2>1. ~ \E s \in Tickets : Prepare(r, s)
    BY DEF Prepare
  <2> QED BY <1>5, <2>1
          DEF Proceed, CheckSession, CheckProvider, Refuse, AuditStart, ResolveProvider,
              ResolveSession, FailBeforeSend, Send, ReceiveSuccess, ReceiveError,
              LoseAnswer, AuditEnd
<1>6. ASSUME NEW s \in Tickets, NEW at \in ClockReads, CliApprove(s, at) PROVE FALSE
  BY <1>6 DEF CliApprove, SweepAndSet, Swept, Open, Approvable
<1>7. ASSUME NEW p \in Providers, RemoveProvider(p) \/ AddProvider(p) \/ Login(p)
      PROVE  FALSE
  BY <1>7 DEF RemoveProvider, AddProvider, Login, Open
<1>8. ~ (Tick \/ UNCHANGED vars)
  BY DEF Tick, vars
<1> QED BY <1>1, <1>2, <1>3, <1>4, <1>5, <1>6, <1>7, <1>8 DEF Next

\* A ticket is claimed before its deadline, up to the wait for the write lock.
THEOREM ClaimsAreTimely == Spec => ClaimBeforeDeadline
<1>1. ASSUME TypeInv, [Next]_vars, NEW t \in Tickets,
             status[t] # "executing", status'[t] = "executing"
      PROVE  clock < grant[t].expires + LockWait
  <2>1. PICK r \in Invocations, at \in ClockReads : Claimable(r, t, at)
    BY <1>1, ExecutingBegins
  <2>2. grant[t] \in Grants
    BY <1>1, <2>1 DEF TypeInv, RowsAreComplete, Claimable
  <2>3. at \in Nat /\ clock \in Nat /\ clock - at <= LockWait
    BY <1>1, ExecutionAssumption DEF ClockReads, TypeInv, TypeOK
  <2>4. grant[t].expires \in Int /\ grant[t].expires > at
    BY <2>1, <2>2 DEF Claimable, Grants
  <2> QED BY <2>3, <2>4, ExecutionAssumption
<1>2. TypeInv /\ [Next]_vars
      => [\A t \in Tickets :
            status[t] # "executing" /\ status'[t] = "executing"
            => clock < grant[t].expires + LockWait]_vars
  BY <1>1
<1> QED BY InitTypes, NextTypes, <1>2, PTL DEF Spec, ClaimBeforeDeadline
===============================================================================
