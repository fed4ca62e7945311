---------------------------- MODULE ApprovalTicket ----------------------------
(***************************************************************************)
(* What an approval ticket promises, with no clock, process, database or   *)
(* network in sight: a ticket is offered, granted, claimed at most once,   *)
(* and while it is claimed the upstream service may be changed on its      *)
(* behalf at most once.  The recorded ending never lies about the change:  *)
(* "succeeded" is recorded only after it, "failed" only when it neither    *)
(* has happened nor can happen later, and anything else is "unknown".      *)
(*                                                                         *)
(* The status column of approval_tickets (src/src/infra/db/metadata.rs)    *)
(* is the phase; ActionExecution implements this specification.            *)
(***************************************************************************)
CONSTANTS
  Tickets,      (* ticket ids                                               *)
  Invocations   (* executions that may change the upstream service          *)

VARIABLES
  phase,        (* phase[t]: where ticket t is in its life                  *)
  effect        (* effect[t]: the invocations that changed upstream by t    *)

ticketVars == <<phase, effect>>

Phases == {"absent", "offered", "granted", "claimed", "void",
           "succeeded", "failed", "unknown"}

Init ==
  /\ phase = [t \in Tickets |-> "absent"]
  /\ effect = [t \in Tickets |-> {}]

Becomes(t, from, to) ==
  /\ phase[t] \in from
  /\ phase'[t] = to
  /\ effect'[t] = effect[t]

Offer(t)    == Becomes(t, {"absent"}, "offered")
Grant(t)    == Becomes(t, {"offered"}, "granted")
Withdraw(t) == Becomes(t, {"offered", "granted"}, "void")
Claim(t)    == Becomes(t, {"granted"}, "claimed")
GiveUp(t)   == Becomes(t, {"claimed"}, "unknown")

Succeed(t) ==
  /\ effect[t] # {}
  /\ Becomes(t, {"claimed"}, "succeeded")

Fail(t) ==
  /\ effect[t] = {}
  /\ Becomes(t, {"claimed"}, "failed")

\* The one change of the upstream service.  It may still arrive after the
\* broker has given up waiting, never after it recorded a failure.
TakeEffect(t) ==
  /\ phase[t] \in {"claimed", "unknown"}
  /\ effect[t] = {}
  /\ \E r \in Invocations : effect'[t] = {r}
  /\ phase'[t] = phase[t]

Rest(t) ==
  /\ phase'[t] = phase[t]
  /\ effect'[t] = effect[t]

Move(t) ==
  \/ Offer(t) \/ Grant(t) \/ Withdraw(t) \/ Claim(t)
  \/ TakeEffect(t) \/ Succeed(t) \/ Fail(t) \/ GiveUp(t)

\* One transaction may move several tickets: the expiry sweep that precedes
\* every approval and claim, and the removal of a provider.
Next == \A t \in Tickets : Move(t) \/ Rest(t)

Spec == Init /\ [][Next]_ticketVars

===============================================================================
