------------------------- MODULE CredentialStoreProofs -------------------------
(***************************************************************************)
(* What holds of CredentialStore for any number of workers, processes,     *)
(* accounts and secrets: first whatever the faults, then as long as there  *)
(* are none, when nothing is left behind in the vault and, where the       *)
(* endpoint rotates refresh tokens, no process presents one twice.         *)
(***************************************************************************)
EXTENDS CredentialStore, TLAPS

(***************************************************************************)
(* The inductive invariant.  A secret is in the vault before any row names *)
(* it and after its last row is gone; who deletes it has seen only its own *)
(* database.  So the invariant follows each secret: in a worker's hands,   *)
(* in force, doomed, gone.                                                 *)
(***************************************************************************)

\* What a worker has read is a row that there was, and it deletes what there was.
IdsWereDrawn ==
  \A w \in Workers :
    /\ doomed[w] \subseteq used
    /\ stage[w] \notin {"idle", "authorizing", "sweeping"} =>
         snap[w] \in Sessions /\ snap[w].secret \in used

\* A worker between its two databases: it has stored a secret that no row names.
InHand(w) == stage[w] \in {"storing", "swapping"}

FreshIsStored ==
  \A w \in Workers :
    InHand(w) => fresh[w] \in vault /\ \A s \in sessions : s.secret # fresh[w]

FreshIsOwn ==
  \A w, v \in Workers :
    InHand(w) => /\ fresh[w] \notin doomed[v]
                 /\ InHand(v) /\ fresh[v] = fresh[w] => v = w

\* The row a login is about to insert, and the login a refresh goes on from.
LoginsAreNew ==
  \A w \in Workers :
    stage[w] = "storing" =>
      /\ snap[w].id = fresh[w] /\ snap[w].secret = fresh[w]
      /\ snap[w].account = account[w]
      /\ lineage[fresh[w]] = fresh[w]

RefreshesDescend ==
  \A w \in Workers :
    stage[w] = "swapping" => lineage[fresh[w]] = lineage[snap[w].secret]

\* What a worker will delete, no row names any more.
DoomedAreDead ==
  \A w \in Workers : \A s \in sessions : s.secret \notin doomed[w]

MissingAreGone == \A w \in Workers : stage[w] = "missing" => snap[w].secret \notin vault

HandInv == FreshIsStored /\ FreshIsOwn /\ LoginsAreNew /\ RefreshesDescend

RowInv ==
  /\ NoDanglingSession /\ OneSessionPerAccount /\ SessionKeepsItsLogin
  /\ DoomedAreDead /\ MissingAreGone

StoreInv == TypeOK /\ IdsWereDrawn /\ HandInv /\ RowInv

-------------------------------------------------------------------------------
(* Types                                                                   *)

USE DEF InHand

\* At first there are no rows, no secrets and no work.
LEMMA InitStore == Init => StoreInv
  BY StoreAssumption
  DEF Init, StoreInv, TypeOK, IdsWereDrawn, HandInv, RowInv, FreshIsStored, FreshIsOwn,
      LoginsAreNew, RefreshesDescend, NoDanglingSession, OneSessionPerAccount,
      SessionKeepsItsLogin, DoomedAreDead, MissingAreGone, Stages

\* A row of the table names a secret that has been drawn.
LEMMA RowsAreKnown ==
  ASSUME StoreInv, NEW s \in sessions
  PROVE  s \in Sessions /\ s.secret \in Secrets /\ s.secret \in vault /\ s.secret \in used
  BY DEF StoreInv, TypeOK, RowInv, NoDanglingSession, Sessions

\* Another secret and expiry leave a row a row.
LEMMA RowWith ==
  ASSUME NEW s \in Sessions, NEW k \in Secrets, NEW e \in Expiries
  PROVE  LET r == [s EXCEPT !.secret = k, !.expiry = e] IN
         r \in Sessions /\ r.id = s.id /\ r.account = s.account /\ r.secret = k
  BY DEF Sessions

\* So has the secret in a worker's hands.
LEMMA FreshIsKnown ==
  ASSUME StoreInv, NEW w \in Workers, InHand(w)
  PROVE  fresh[w] \in Secrets /\ fresh[w] \in used
  BY DEF StoreInv, TypeOK, HandInv, FreshIsStored

\* Every step keeps the types, and handles only ids that have been drawn.
LEMMA NextTypes == StoreInv /\ [Next]_vars => TypeOK' /\ IdsWereDrawn'
<1> SUFFICES ASSUME StoreInv, [Next]_vars PROVE TypeOK' /\ IdsWereDrawn'
  OBVIOUS
<1> USE StoreAssumption, RowsAreKnown DEF StoreInv, TypeOK, IdsWereDrawn, Stages, Expiries,
        metadataVars, vaultVars, workVars, GoTo, Doom, Fault
<1>1. ASSUME NEW w \in Workers, NEW a \in Accounts, LoginBegin(w, a)
      PROVE TypeOK' /\ IdsWereDrawn'
  BY <1>1 DEF LoginBegin
<1>2. ASSUME NEW w \in Workers, LoginAbort(w) PROVE TypeOK' /\ IdsWereDrawn'
  BY <1>2 DEF LoginAbort
<1>3. ASSUME NEW w \in Workers, NEW k \in Secrets, NEW e \in {"fresh", "never"},
             LoginStore(w, k, e)
      PROVE TypeOK' /\ IdsWereDrawn'
  BY <1>3 DEF LoginStore, PutSecret, Sessions
<1>4. ASSUME NEW w \in Workers, LoginCommit(w) PROVE TypeOK' /\ IdsWereDrawn'
  BY <1>4 DEF LoginCommit, SessionsOf
<1>5. ASSUME NEW w \in Workers, LoginCommitFails(w) PROVE TypeOK' /\ IdsWereDrawn'
  <2>1. fresh[w] \in Secrets /\ fresh[w] \in used
    BY <1>5, FreshIsKnown DEF LoginCommitFails
  <2> QED
    BY <1>5, <2>1 DEF LoginCommitFails
<1>6. ASSUME NEW w \in Workers, NEW k \in Secrets, Sweep(w, k)
      PROVE TypeOK' /\ IdsWereDrawn'
  BY <1>6 DEF Sweep, DropSecret
<1>7. ASSUME NEW w \in Workers, NEW k \in Secrets, SweepFails(w, k)
      PROVE TypeOK' /\ IdsWereDrawn'
  BY <1>7 DEF SweepFails
<1>8. ASSUME NEW w \in Workers, SweepDone(w) PROVE TypeOK' /\ IdsWereDrawn'
  BY <1>8 DEF SweepDone
<1>9. ASSUME NEW w \in Workers, NEW a \in Accounts, NEW s \in sessions, CallBegin(w, a, s)
      PROVE TypeOK' /\ IdsWereDrawn'
  BY <1>9 DEF CallBegin, SessionsOf
<1>10. ASSUME NEW w \in Workers, Fetch(w) PROVE TypeOK' /\ IdsWereDrawn'
  BY <1>10 DEF Fetch
<1>11. ASSUME NEW w \in Workers, ReportMissing(w) PROVE TypeOK' /\ IdsWereDrawn'
  BY <1>11 DEF ReportMissing
<1>12. ASSUME NEW w \in Workers, Reread(w) PROVE TypeOK' /\ IdsWereDrawn'
  <2>1. CASE /\ SessionsOf(account[w]) = {} /\ UNCHANGED snap
             /\ stage' = [stage EXCEPT ![w] = "idle"]
    BY <1>12, <2>1 DEF Reread
  <2>2. ASSUME NEW s \in SessionsOf(account[w]), snap' = [snap EXCEPT ![w] = s],
               NEW next \in {"idle", "fetching"}, GoTo(w, next)
        PROVE  TypeOK' /\ IdsWereDrawn'
    <3>1. s \in Sessions /\ s.secret \in used
      BY <2>2, RowsAreKnown DEF SessionsOf
    <3> QED
      BY <1>12, <2>2, <3>1 DEF Reread
  <2> QED
    BY <1>12, <2>1, <2>2 DEF Reread
<1>13. ASSUME NEW w \in Workers, AcquireRefresh(w) PROVE TypeOK' /\ IdsWereDrawn'
  <2>1. CASE EndRefresh(w, "failed") /\ UNCHANGED snap
    BY <1>13, <2>1 DEF AcquireRefresh, EndRefresh
  <2>2. ASSUME NEW s \in SessionsOf(account[w]), snap' = [snap EXCEPT ![w] = s],
               NEW next \in {"releasing", "reading"}, GoTo(w, next),
               refreshed' \in [Workers -> {"ok", "lost", "failed"}]
        PROVE  TypeOK' /\ IdsWereDrawn'
    <3>1. s \in Sessions /\ s.secret \in used
      BY <2>2, RowsAreKnown DEF SessionsOf
    <3> QED
      BY <1>13, <2>2, <3>1 DEF AcquireRefresh
  <2> QED
    BY <1>13, <2>1, <2>2 DEF AcquireRefresh, EndRefresh
<1>14. ASSUME NEW w \in Workers, ReadRefreshToken(w) PROVE TypeOK' /\ IdsWereDrawn'
  BY <1>14 DEF ReadRefreshToken, EndRefresh
<1>15. ASSUME NEW w \in Workers, NEW rotates \in Rotates, EndpointGrants(w, rotates)
       PROVE TypeOK' /\ IdsWereDrawn'
  BY <1>15 DEF EndpointGrants
<1>16. ASSUME NEW w \in Workers, EndpointRefuses(w) PROVE TypeOK' /\ IdsWereDrawn'
  BY <1>16 DEF EndpointRefuses
<1>17. ASSUME NEW w \in Workers, ReturnRefused(w) PROVE TypeOK' /\ IdsWereDrawn'
  BY <1>17 DEF ReturnRefused, EndRefresh
<1>18. ASSUME NEW w \in Workers, RefreshFails(w) PROVE TypeOK' /\ IdsWereDrawn'
  BY <1>18 DEF RefreshFails, EndRefresh
<1>19. ASSUME NEW w \in Workers, NEW k \in Secrets, StoreRefreshed(w, k)
       PROVE TypeOK' /\ IdsWereDrawn'
  BY <1>19 DEF StoreRefreshed, PutSecret, Sessions
<1>20. ASSUME NEW w \in Workers, NEW e \in {"fresh", "never"}, Swap(w, e)
       PROVE TypeOK' /\ IdsWereDrawn'
  <2>1. /\ fresh[w] \in Secrets /\ snap[w].secret \in Secrets
        /\ fresh[w] \in used /\ snap[w].secret \in used
    BY <1>20, FreshIsKnown DEF Swap
  <2>2. ASSUME NEW s \in Current(w)
        PROVE  [s EXCEPT !.secret = fresh[w], !.expiry = e] \in Sessions
    <3>1. s \in Sessions
      BY RowsAreKnown DEF Current
    <3> QED
      BY <2>1, <3>1, RowWith
  <2>3. sessions' \subseteq Sessions
    <3>1. sessions' = (sessions \ Current(w)) \cup
                        {[s EXCEPT !.secret = fresh[w], !.expiry = e] : s \in Current(w)}
      BY <1>20 DEF Swap
    <3>2. sessions \subseteq Sessions
      OBVIOUS
    <3> HIDE DEF StoreInv, TypeOK
    <3> QED
      BY <3>1, <3>2, <2>2
  <2>4. /\ stage[w] = "swapping" /\ stage' = [stage EXCEPT ![w] = "cleaning"]
        /\ UNCHANGED <<used, snap>>
    BY <1>20 DEF Swap
  <2>5. /\ doomed' \in [Workers -> SUBSET Secrets]
        /\ refreshed' \in [Workers -> {"ok", "lost", "failed"}]
        /\ \A v \in Workers : doomed'[v] \subseteq used
    <3>1. PICK k \in {fresh[w], snap[w].secret}, how \in {"ok", "lost"} :
            doomed' = [doomed EXCEPT ![w] = {k}] /\ refreshed' = [refreshed EXCEPT ![w] = how]
      BY <1>20 DEF Swap
    <3>2. \A v \in Workers : doomed'[v] = IF v = w THEN {k} ELSE doomed[v]
      BY <3>1
    <3>3. k \in Secrets /\ k \in used
      BY <2>1
    <3> QED
      BY <3>1, <3>2, <3>3
  <2>6. IdsWereDrawn'
    BY <2>1, <2>4, <2>5
  <2> QED
    <3>1. UNCHANGED <<registered, vaultVars, spent, lock, account, snap, fresh, faults>>
      BY <1>20 DEF Swap
    <3> QED
      BY <2>3, <2>4, <2>5, <2>6, <3>1
<1>21. ASSUME NEW w \in Workers, SwapFails(w) PROVE TypeOK' /\ IdsWereDrawn'
  <2>1. fresh[w] \in Secrets /\ fresh[w] \in used
    BY <1>21, FreshIsKnown DEF SwapFails
  <2> QED
    BY <1>21, <2>1 DEF SwapFails
<1>22. ASSUME NEW w \in Workers, ReleaseRefresh(w) PROVE TypeOK' /\ IdsWereDrawn'
  BY <1>22 DEF ReleaseRefresh
<1>23. ASSUME NEW w \in Workers, Cancel(w) PROVE TypeOK' /\ IdsWereDrawn'
  BY <1>23 DEF Cancel
<1>24. ASSUME NEW w \in Workers, NEW p \in Providers, RemoveProvider(w, p)
       PROVE TypeOK' /\ IdsWereDrawn'
  <2> DEFINE gone == {s.secret : s \in {s \in sessions : ProviderOf[s.account] = p}}
  <2>1. gone \subseteq used
    BY RowsAreKnown
  <2>2. doomed' = [doomed EXCEPT ![w] = gone]
    BY <1>24 DEF RemoveProvider
  <2> HIDE DEF gone
  <2>3. doomed' \in [Workers -> SUBSET Secrets] /\ \A v \in Workers : doomed'[v] \subseteq used
    BY <2>1, <2>2
  <2>4. sessions' \subseteq Sessions /\ registered' \subseteq Providers
    BY <1>24 DEF RemoveProvider
  <2>5. /\ stage' = [stage EXCEPT ![w] = "sweeping"]
        /\ UNCHANGED <<vaultVars, spent, lock, account, snap, fresh, refreshed, faults>>
    BY <1>24 DEF RemoveProvider
  <2>6. IdsWereDrawn'
    BY <2>3, <2>5
  <2> QED
    BY <2>3, <2>4, <2>5, <2>6
<1>25. ASSUME NEW p \in Providers, AddProvider(p) PROVE TypeOK' /\ IdsWereDrawn'
  BY <1>25 DEF AddProvider
<1>26. ASSUME NEW p \in Processes, Crash(p) PROVE TypeOK' /\ IdsWereDrawn'
  BY <1>26 DEF Crash
<1>27. ASSUME NEW s \in sessions, Expire(s) PROVE TypeOK' /\ IdsWereDrawn'
  BY <1>27 DEF Expire, Sessions
<1>28. CASE UNCHANGED vars
  BY <1>28 DEF vars
<1> HIDE DEF StoreInv, TypeOK, IdsWereDrawn, GoTo, Doom, Fault
<1>29. ASSUME NEW w \in Workers, Login(w) \/ Cleanup(w) PROVE TypeOK' /\ IdsWereDrawn'
  BY <1>1, <1>2, <1>3, <1>4, <1>5, <1>6, <1>7, <1>8, <1>29 DEF Login, Cleanup
<1>30. ASSUME NEW w \in Workers, Call(w) PROVE TypeOK' /\ IdsWereDrawn'
  BY <1>9, <1>10, <1>11, <1>12, <1>30 DEF Call
<1>31. ASSUME NEW w \in Workers, Refresh(w) PROVE TypeOK' /\ IdsWereDrawn'
  BY <1>13, <1>14, <1>15, <1>16, <1>17, <1>18, <1>19, <1>20, <1>21, <1>22, <1>31 DEF Refresh
<1> QED
  BY <1>23, <1>24, <1>25, <1>26, <1>27, <1>28, <1>29, <1>30, <1>31 DEF Next

-------------------------------------------------------------------------------
(* Secrets between the two databases                                       *)

\* A step of one worker that touches no secret and no row leads into no
\* worker's hands.
LEMMA QuietStep ==
  ASSUME StoreInv, TypeOK', NEW w \in Workers,
         \A v \in Workers \ {w} : /\ stage'[v] = stage[v] /\ snap'[v] = snap[v]
                                  /\ account'[v] = account[v],
         stage'[w] \notin {"storing", "swapping", "missing"},
         UNCHANGED <<sessions, vault, used, lineage, fresh, doomed>>
  PROVE  HandInv' /\ RowInv'
<1> USE DEF StoreInv, HandInv, RowInv
<1>1. FreshIsStored' /\ FreshIsOwn'
  BY DEF FreshIsStored, FreshIsOwn
<1>2. LoginsAreNew' /\ RefreshesDescend'
  BY DEF LoginsAreNew, RefreshesDescend
<1>3. NoDanglingSession' /\ OneSessionPerAccount' /\ SessionKeepsItsLogin'
  BY DEF NoDanglingSession, OneSessionPerAccount, SessionKeepsItsLogin
<1>4. DoomedAreDead' /\ MissingAreGone'
  BY DEF DoomedAreDead, MissingAreGone
<1> QED
  BY <1>1, <1>2, <1>3, <1>4

\* Of what w has in its hands it lets go.
LEMMA LetGo ==
  ASSUME StoreInv, NEW w \in Workers, InHand(w),
         UNCHANGED <<sessions, vault, used, lineage, fresh, snap, account>>,
         doomed' = [doomed EXCEPT ![w] = {fresh[w]}],
         NEW next \in {"sweeping", "cleaning"}, stage' = [stage EXCEPT ![w] = next]
  PROVE  HandInv' /\ RowInv'
<1> USE DEF StoreInv, HandInv, RowInv, TypeOK
<1>1. FreshIsStored'
  BY DEF FreshIsStored
<1>2. FreshIsOwn'
  BY DEF FreshIsOwn
<1>3. LoginsAreNew' /\ RefreshesDescend'
  BY DEF LoginsAreNew, RefreshesDescend
<1>4. NoDanglingSession' /\ OneSessionPerAccount' /\ SessionKeepsItsLogin'
  BY DEF NoDanglingSession, OneSessionPerAccount, SessionKeepsItsLogin
<1>5. DoomedAreDead'
  BY DEF DoomedAreDead, FreshIsStored
<1>6. MissingAreGone'
  BY DEF MissingAreGone
<1> QED
  BY <1>1, <1>2, <1>3, <1>4, <1>5, <1>6

\* A new secret is nobody else's.
LEMMA TakeNew ==
  ASSUME StoreInv, NEW w \in Workers, NEW k \in Secrets,
         NEW login \in Secrets, NEW refreshToken,
         PutSecret(w, k, login, refreshToken), UNCHANGED <<sessions, doomed, account>>,
         \A v \in Workers \ {w} : snap'[v] = snap[v],
         NEW next \in {"storing", "swapping"}, stage' = [stage EXCEPT ![w] = next],
         next = "storing" =>
           /\ snap'[w].id = k /\ snap'[w].secret = k /\ snap'[w].account = account[w]
           /\ login = k,
         next = "swapping" =>
           /\ snap'[w] = snap[w] /\ snap[w].secret # k
           /\ lineage[snap[w].secret] = login
  PROVE  HandInv' /\ RowInv'
<1> USE DEF StoreInv, HandInv, RowInv, TypeOK
<1>1. /\ k \notin used /\ fresh' = [fresh EXCEPT ![w] = k]
      /\ vault' = vault \cup {k} /\ lineage' = [lineage EXCEPT ![k] = login]
  BY DEF PutSecret
<1>2. \A v \in Workers : InHand(v) => fresh[v] # k
  BY <1>1 DEF FreshIsStored
<1>3. \A s \in sessions : s.secret # k /\ s.secret \in Secrets
  BY <1>1, RowsAreKnown
<1>4. FreshIsStored'
  BY <1>1, <1>3 DEF FreshIsStored
<1>5. FreshIsOwn'
  BY <1>1, <1>2 DEF FreshIsOwn, IdsWereDrawn
<1>6. LoginsAreNew'
  BY <1>1, <1>2 DEF LoginsAreNew
<1>7. RefreshesDescend'
  BY <1>1, <1>2 DEF RefreshesDescend, IdsWereDrawn
<1>8. NoDanglingSession' /\ OneSessionPerAccount' /\ DoomedAreDead'
  BY <1>1 DEF NoDanglingSession, OneSessionPerAccount, DoomedAreDead
<1>9. SessionKeepsItsLogin'
  BY <1>1, <1>3 DEF SessionKeepsItsLogin
<1>10. MissingAreGone'
  BY <1>1 DEF MissingAreGone, IdsWereDrawn
<1> QED
  BY <1>4, <1>5, <1>6, <1>7, <1>8, <1>9, <1>10

\* A row goes, and its worker deletes the secret; nobody else has it.
LEMMA DropRows ==
  ASSUME StoreInv, NEW w \in Workers, ~InHand(w), NEW gone \in SUBSET sessions,
         sessions' = sessions \ gone,
         doomed' = [doomed EXCEPT ![w] = {s.secret : s \in gone}],
         stage' = [stage EXCEPT ![w] = "sweeping"],
         UNCHANGED <<vault, used, lineage, fresh, snap, account>>
  PROVE  HandInv' /\ RowInv'
<1> USE DEF StoreInv, HandInv, RowInv, TypeOK
<1> DEFINE ks == {s.secret : s \in gone}
<1>1. \A v \in Workers : doomed'[v] = IF v = w THEN ks ELSE doomed[v]
  OBVIOUS
<1>2. \A v \in Workers : InHand(v) => fresh[v] \notin ks
  BY DEF FreshIsStored
<1>3. \A s \in sessions' : s.secret \notin ks
  BY DEF OneSessionPerAccount
<1> HIDE DEF ks
<1>4. FreshIsStored' /\ FreshIsOwn'
  BY <1>1, <1>2 DEF FreshIsStored, FreshIsOwn
<1>5. LoginsAreNew' /\ RefreshesDescend'
  BY DEF LoginsAreNew, RefreshesDescend
<1>6. NoDanglingSession' /\ OneSessionPerAccount' /\ SessionKeepsItsLogin'
  BY DEF NoDanglingSession, OneSessionPerAccount, SessionKeepsItsLogin
<1>7. DoomedAreDead' /\ MissingAreGone'
  BY <1>1, <1>3 DEF DoomedAreDead, MissingAreGone
<1> QED
  BY <1>4, <1>5, <1>6, <1>7

\* Every step keeps what workers hold and what the rows name.
LEMMA NextSecrets == StoreInv /\ [Next]_vars => HandInv' /\ RowInv'
<1> SUFFICES ASSUME StoreInv, [Next]_vars PROVE HandInv' /\ RowInv'
  OBVIOUS
<1>0. TypeOK /\ TypeOK' /\ IdsWereDrawn'
  BY NextTypes DEF StoreInv
<1> USE DEF GoTo, Doom, metadataVars, vaultVars, workVars
<1>1. ASSUME NEW w \in Workers, NEW a \in Accounts, LoginBegin(w, a)
      PROVE HandInv' /\ RowInv'
  BY <1>0, <1>1, QuietStep DEF LoginBegin, TypeOK, Stages
<1>2. ASSUME NEW w \in Workers, LoginAbort(w) PROVE HandInv' /\ RowInv'
  BY <1>0, <1>2, QuietStep DEF LoginAbort, TypeOK, Stages
<1>3. ASSUME NEW w \in Workers, SweepDone(w) PROVE HandInv' /\ RowInv'
  BY <1>0, <1>3, QuietStep DEF SweepDone, TypeOK, Stages
<1>4. ASSUME NEW w \in Workers, NEW a \in Accounts, NEW s \in sessions, CallBegin(w, a, s)
      PROVE HandInv' /\ RowInv'
  BY <1>0, <1>4, QuietStep DEF CallBegin, TypeOK, Stages
<1>5. ASSUME NEW w \in Workers, ReportMissing(w) PROVE HandInv' /\ RowInv'
  BY <1>0, <1>5, QuietStep DEF ReportMissing, TypeOK, Stages
<1>6. ASSUME NEW w \in Workers, Reread(w) PROVE HandInv' /\ RowInv'
  BY <1>0, <1>6, QuietStep DEF Reread, TypeOK, Stages
<1>7. ASSUME NEW w \in Workers, AcquireRefresh(w) PROVE HandInv' /\ RowInv'
  BY <1>0, <1>7, QuietStep DEF AcquireRefresh, TypeOK, Stages, EndRefresh
<1>8. ASSUME NEW w \in Workers, ReadRefreshToken(w) PROVE HandInv' /\ RowInv'
  BY <1>0, <1>8, QuietStep DEF ReadRefreshToken, TypeOK, Stages, EndRefresh
<1>9. ASSUME NEW w \in Workers, NEW rotates \in Rotates, EndpointGrants(w, rotates)
      PROVE HandInv' /\ RowInv'
  BY <1>0, <1>9, QuietStep DEF EndpointGrants, TypeOK, Stages
<1>10. ASSUME NEW w \in Workers, EndpointRefuses(w) PROVE HandInv' /\ RowInv'
  BY <1>0, <1>10, QuietStep DEF EndpointRefuses, TypeOK, Stages
<1>11. ASSUME NEW w \in Workers, ReturnRefused(w) PROVE HandInv' /\ RowInv'
  BY <1>0, <1>11, QuietStep DEF ReturnRefused, TypeOK, Stages, EndRefresh
<1>12. ASSUME NEW w \in Workers, RefreshFails(w) PROVE HandInv' /\ RowInv'
  BY <1>0, <1>12, QuietStep DEF RefreshFails, TypeOK, Stages, EndRefresh
<1>13. ASSUME NEW w \in Workers, ReleaseRefresh(w) PROVE HandInv' /\ RowInv'
  BY <1>0, <1>13, QuietStep DEF ReleaseRefresh, TypeOK, Stages
<1>14. ASSUME NEW w \in Workers, Cancel(w) PROVE HandInv' /\ RowInv'
  BY <1>0, <1>14, QuietStep DEF Cancel, TypeOK, Stages
<1>15. ASSUME NEW w \in Workers, NEW k \in Secrets, NEW e \in {"fresh", "never"},
              LoginStore(w, k, e)
       PROVE HandInv' /\ RowInv'
  BY <1>0, <1>15, TakeNew DEF LoginStore, TypeOK
<1>16. ASSUME NEW w \in Workers, NEW k \in Secrets, StoreRefreshed(w, k)
       PROVE HandInv' /\ RowInv'
  <2>1. snap[w] \in Sessions /\ snap[w].secret \in used /\ k \notin used
    BY <1>16 DEF StoreRefreshed, StoreInv, IdsWereDrawn, PutSecret
  <2>2. lineage[snap[w].secret] \in Secrets
    BY <1>0, <2>1 DEF TypeOK, Sessions
  <2> QED
    BY <1>0, <1>16, <2>1, <2>2, TakeNew DEF StoreRefreshed
<1>17. ASSUME NEW w \in Workers, LoginCommitFails(w) PROVE HandInv' /\ RowInv'
  BY <1>17, LetGo DEF LoginCommitFails
<1>18. ASSUME NEW w \in Workers, SwapFails(w) PROVE HandInv' /\ RowInv'
  BY <1>18, LetGo DEF SwapFails
<1>19. ASSUME NEW w \in Workers, NEW p \in Providers, RemoveProvider(w, p)
       PROVE HandInv' /\ RowInv'
  BY <1>19, DropRows DEF RemoveProvider
<1>20. ASSUME NEW w \in Workers, NEW k \in Secrets, Sweep(w, k)
       PROVE HandInv' /\ RowInv'
  <2> USE <1>0, <1>20 DEF Sweep, DropSecret, StoreInv, HandInv, RowInv
  <2>1. FreshIsStored' /\ FreshIsOwn'
    BY DEF FreshIsStored, FreshIsOwn, TypeOK
  <2>2. LoginsAreNew' /\ RefreshesDescend'
    BY DEF LoginsAreNew, RefreshesDescend
  <2>3. NoDanglingSession' /\ OneSessionPerAccount' /\ SessionKeepsItsLogin'
    BY DEF NoDanglingSession, OneSessionPerAccount, SessionKeepsItsLogin, DoomedAreDead
  <2>4. DoomedAreDead' /\ MissingAreGone'
    BY DEF DoomedAreDead, MissingAreGone, TypeOK
  <2> QED
    BY <2>1, <2>2, <2>3, <2>4
<1>21. ASSUME NEW w \in Workers, NEW k \in Secrets, SweepFails(w, k)
       PROVE HandInv' /\ RowInv'
  <2> USE <1>0, <1>21 DEF SweepFails, StoreInv, HandInv, RowInv
  <2>1. FreshIsStored' /\ FreshIsOwn'
    BY DEF FreshIsStored, FreshIsOwn, TypeOK
  <2>2. LoginsAreNew' /\ RefreshesDescend'
    BY DEF LoginsAreNew, RefreshesDescend
  <2>3. NoDanglingSession' /\ OneSessionPerAccount' /\ SessionKeepsItsLogin'
    BY DEF NoDanglingSession, OneSessionPerAccount, SessionKeepsItsLogin
  <2>4. DoomedAreDead' /\ MissingAreGone'
    BY DEF DoomedAreDead, MissingAreGone, TypeOK
  <2> QED
    BY <2>1, <2>2, <2>3, <2>4
<1>22. ASSUME NEW w \in Workers, Fetch(w) PROVE HandInv' /\ RowInv'
  <2> USE <1>0, <1>22 DEF Fetch, StoreInv, HandInv, RowInv
  <2>1. FreshIsStored' /\ FreshIsOwn'
    BY DEF FreshIsStored, FreshIsOwn, TypeOK
  <2>2. LoginsAreNew' /\ RefreshesDescend'
    BY DEF LoginsAreNew, RefreshesDescend, TypeOK
  <2>3. NoDanglingSession' /\ OneSessionPerAccount' /\ SessionKeepsItsLogin'
    BY DEF NoDanglingSession, OneSessionPerAccount, SessionKeepsItsLogin
  <2>4. DoomedAreDead' /\ MissingAreGone'
    BY DEF DoomedAreDead, MissingAreGone, TypeOK
  <2> QED
    BY <2>1, <2>2, <2>3, <2>4
<1>23. ASSUME NEW p \in Providers, AddProvider(p) PROVE HandInv' /\ RowInv'
  BY <1>23
  DEF AddProvider, StoreInv, HandInv, RowInv, FreshIsStored, FreshIsOwn, LoginsAreNew,
      RefreshesDescend, NoDanglingSession, OneSessionPerAccount, SessionKeepsItsLogin,
      DoomedAreDead, MissingAreGone
<1>24. ASSUME NEW p \in Processes, Crash(p) PROVE HandInv' /\ RowInv'
  <2> USE <1>0, <1>24 DEF Crash, StoreInv, HandInv, RowInv
  <2>1. FreshIsStored' /\ FreshIsOwn'
    BY DEF FreshIsStored, FreshIsOwn
  <2>2. LoginsAreNew' /\ RefreshesDescend'
    BY DEF LoginsAreNew, RefreshesDescend
  <2>3. NoDanglingSession' /\ OneSessionPerAccount' /\ SessionKeepsItsLogin'
    BY DEF NoDanglingSession, OneSessionPerAccount, SessionKeepsItsLogin
  <2>4. DoomedAreDead' /\ MissingAreGone'
    BY DEF DoomedAreDead, MissingAreGone
  <2> QED
    BY <2>1, <2>2, <2>3, <2>4
<1>25. ASSUME NEW s \in sessions, Expire(s) PROVE HandInv' /\ RowInv'
  <2> DEFINE r == [s EXCEPT !.expiry = "stale"]
  <2>1. s \in Sessions
    BY RowsAreKnown
  <2>2. r.id = s.id /\ r.account = s.account /\ r.secret = s.secret
    BY <2>1 DEF Sessions
  <2>3. sessions' = (sessions \ {s}) \cup {r}
    BY <1>25 DEF Expire
  <2> HIDE DEF r
  <2>4. UNCHANGED <<vault, lineage, stage, account, snap, fresh, doomed>>
    BY <1>25 DEF Expire
  <2> USE <2>2, <2>3, <2>4 DEF StoreInv, HandInv, RowInv
  <2>5. FreshIsStored' /\ FreshIsOwn'
    BY DEF FreshIsStored, FreshIsOwn
  <2>6. LoginsAreNew' /\ RefreshesDescend'
    BY DEF LoginsAreNew, RefreshesDescend
  <2>7. NoDanglingSession' /\ OneSessionPerAccount' /\ SessionKeepsItsLogin'
    BY DEF NoDanglingSession, OneSessionPerAccount, SessionKeepsItsLogin
  <2>8. DoomedAreDead' /\ MissingAreGone'
    BY DEF DoomedAreDead, MissingAreGone
  <2> QED
    BY <2>5, <2>6, <2>7, <2>8
<1>26. ASSUME NEW w \in Workers, LoginCommit(w) PROVE HandInv' /\ RowInv'
  <2> DEFINE old == SessionsOf(account[w])
             ks == {s.secret : s \in old}
  <2>1. /\ stage[w] = "storing" /\ stage' = [stage EXCEPT ![w] = "sweeping"]
        /\ sessions' = (sessions \ old) \cup {snap[w]}
        /\ doomed' = [doomed EXCEPT ![w] = ks]
        /\ UNCHANGED <<vault, used, lineage, account, snap, fresh>>
    BY <1>26 DEF LoginCommit
  <2>2. /\ snap[w].id = fresh[w] /\ snap[w].secret = fresh[w]
        /\ snap[w].account = account[w] /\ lineage[fresh[w]] = fresh[w]
    BY <2>1 DEF StoreInv, HandInv, LoginsAreNew
  <2>3. fresh[w] \in vault /\ \A s \in sessions : s.secret # fresh[w]
    BY <2>1 DEF StoreInv, HandInv, FreshIsStored
  <2>4. \A s \in sessions : s \in old <=> s.account = account[w]
    BY DEF SessionsOf
  <2>5. \A s \in sessions \ old : s.secret \notin ks
    BY DEF StoreInv, RowInv, OneSessionPerAccount, SessionsOf
  <2>6. \A v \in Workers : InHand(v) => fresh[v] \notin ks
    BY DEF StoreInv, HandInv, FreshIsStored, SessionsOf
  <2>7. fresh[w] \notin ks
    BY <2>3 DEF SessionsOf
  <2>8. \A v \in Workers : doomed'[v] = IF v = w THEN ks ELSE doomed[v]
    BY <1>0, <2>1 DEF TypeOK
  <2>9. \A v \in Workers : stage'[v] = IF v = w THEN "sweeping" ELSE stage[v]
    BY <1>0, <2>1 DEF TypeOK
  <2> HIDE DEF old, ks
  <2> USE <2>1, <2>2, <2>3, <2>8, <2>9 DEF StoreInv, HandInv, RowInv
  <2>10. FreshIsStored' /\ FreshIsOwn'
    BY <2>6 DEF FreshIsStored, FreshIsOwn
  <2>11. LoginsAreNew' /\ RefreshesDescend'
    BY DEF LoginsAreNew, RefreshesDescend
  <2>12. NoDanglingSession' /\ SessionKeepsItsLogin'
    BY DEF NoDanglingSession, SessionKeepsItsLogin
  <2>13. OneSessionPerAccount'
    BY <2>4 DEF OneSessionPerAccount
  <2>14. DoomedAreDead'
    BY <2>5, <2>7 DEF DoomedAreDead, FreshIsOwn
  <2>15. MissingAreGone'
    BY DEF MissingAreGone
  <2> QED
    BY <2>10, <2>11, <2>12, <2>13, <2>14, <2>15
<1>27. ASSUME NEW w \in Workers, NEW e \in {"fresh", "never"}, Swap(w, e)
       PROVE HandInv' /\ RowInv'
  <2>1. CASE Current(w) = {}
    <3>1. sessions' = sessions /\ doomed' = [doomed EXCEPT ![w] = {fresh[w]}]
      BY <1>27, <2>1 DEF Swap
    <3> QED
      BY <1>27, <3>1, LetGo DEF Swap
  <2>2. CASE Current(w) # {}
    <3>1. PICK s \in sessions :
            Current(w) = {s} /\ s.id = snap[w].id /\ s.secret = snap[w].secret
      BY <2>2 DEF Current, StoreInv, RowInv, OneSessionPerAccount
    <3> DEFINE r == [s EXCEPT !.secret = fresh[w], !.expiry = e]
    <3>2. /\ fresh[w] \in Secrets /\ fresh[w] \in vault
          /\ \A q \in sessions : q.secret # fresh[w]
      BY <1>0, <1>27 DEF Swap, StoreInv, TypeOK, HandInv, FreshIsStored
    <3>3. r.id = s.id /\ r.account = s.account /\ r.secret = fresh[w]
      <4>1. s \in Sessions
        BY RowsAreKnown
      <4> QED
        BY <4>1 DEF Sessions
    <3>4. sessions' = (sessions \ {s}) \cup {r}
      BY <1>27, <3>1 DEF Swap
    <3>5. /\ stage[w] = "swapping" /\ stage' = [stage EXCEPT ![w] = "cleaning"]
          /\ doomed' = [doomed EXCEPT ![w] = {s.secret}]
          /\ UNCHANGED <<vault, used, lineage, account, snap, fresh>>
      BY <1>27, <2>2, <3>1 DEF Swap
    <3>6. \A v \in Workers : doomed'[v] = IF v = w THEN {s.secret} ELSE doomed[v]
      BY <1>0, <3>5 DEF TypeOK
    <3>7. \A v \in Workers : stage'[v] = IF v = w THEN "cleaning" ELSE stage[v]
      BY <1>0, <3>5 DEF TypeOK
    <3>8. lineage[fresh[w]] = s.id
      BY <3>1, <3>5 DEF StoreInv, HandInv, RefreshesDescend, RowInv, SessionKeepsItsLogin
    <3> HIDE DEF r
    <3> USE <3>2, <3>3, <3>4, <3>5, <3>6, <3>7 DEF StoreInv, HandInv, RowInv
    <3>9. FreshIsStored' /\ FreshIsOwn'
      BY DEF FreshIsStored, FreshIsOwn
    <3>10. LoginsAreNew' /\ RefreshesDescend'
      BY DEF LoginsAreNew, RefreshesDescend
    <3>11. NoDanglingSession' /\ OneSessionPerAccount'
      BY DEF NoDanglingSession, OneSessionPerAccount
    <3>12. SessionKeepsItsLogin'
      BY <3>8 DEF SessionKeepsItsLogin
    <3>13. DoomedAreDead'
      <4>1. \A q \in sessions \ {s} : q.secret # s.secret
        BY DEF OneSessionPerAccount
      <4>2. \A v \in Workers : fresh[w] \notin doomed[v]
        BY DEF FreshIsOwn
      <4> QED
        BY <4>1, <4>2 DEF DoomedAreDead
    <3>14. MissingAreGone'
      BY DEF MissingAreGone
    <3> QED
      BY <3>9, <3>10, <3>11, <3>12, <3>13, <3>14
  <2> QED
    BY <2>1, <2>2
<1>28. CASE UNCHANGED vars
  BY <1>28
  DEF vars, StoreInv, HandInv, RowInv, FreshIsStored, FreshIsOwn, LoginsAreNew,
      RefreshesDescend, NoDanglingSession, OneSessionPerAccount, SessionKeepsItsLogin,
      DoomedAreDead, MissingAreGone
<1> HIDE DEF GoTo, Doom
<1>29. ASSUME NEW w \in Workers, Login(w) \/ Cleanup(w) PROVE HandInv' /\ RowInv'
  BY <1>1, <1>2, <1>15, <1>26, <1>17, <1>20, <1>21, <1>3, <1>29 DEF Login, Cleanup
<1>30. ASSUME NEW w \in Workers, Call(w) PROVE HandInv' /\ RowInv'
  BY <1>4, <1>22, <1>5, <1>6, <1>30 DEF Call
<1>31. ASSUME NEW w \in Workers, Refresh(w) PROVE HandInv' /\ RowInv'
  BY <1>7, <1>8, <1>9, <1>10, <1>11, <1>12, <1>16, <1>27, <1>18, <1>13, <1>31 DEF Refresh
<1> QED
  BY <1>14, <1>19, <1>23, <1>24, <1>25, <1>28, <1>29, <1>30, <1>31 DEF Next

-------------------------------------------------------------------------------
(* The theorems                                                            *)

\* The inductive invariant of the store (see above) holds of the specification.
THEOREM StoreInvariant == Spec => []StoreInv
<1>1. StoreInv /\ [Next]_vars => StoreInv'
  BY NextTypes, NextSecrets DEF StoreInv
<1> QED
  BY InitStore, <1>1, PTL DEF Spec

\* The rows, secrets and workers keep their types.
THEOREM StoreTypes == Spec => []TypeOK
<1>1. StoreInv => TypeOK
  BY DEF StoreInv
<1> QED
  BY <1>1, StoreInvariant, PTL

\* Every session row names a secret that the vault holds, whatever is
\* interleaved, fails or is killed (auth.rs:592-651).
THEOREM SecretsAreThere == Spec => []NoDanglingSession
<1>1. StoreInv => NoDanglingSession
  BY DEF StoreInv, RowInv
<1> QED
  BY <1>1, StoreInvariant, PTL

\* One row per account, one account per secret (metadata.rs, the transaction of
\* replace_session_for_subject).
THEOREM OneSession == Spec => []OneSessionPerAccount
<1>1. StoreInv => OneSessionPerAccount
  BY DEF StoreInv, RowInv
<1> QED
  BY <1>1, StoreInvariant, PTL

\* No refresh overwrites a newer login (auth.rs:592).
THEOREM LoginsAreKept == Spec => []SessionKeepsItsLogin
<1>1. StoreInv => SessionKeepsItsLogin
  BY DEF StoreInv, RowInv
<1> QED
  BY <1>1, StoreInvariant, PTL

\* A secret is reported as missing only for a row that has been superseded
\* (api.rs:260).
THEOREM MissingIsSuperseded == Spec => []MissingOnlyWhenSuperseded
<1>1. StoreInv => MissingOnlyWhenSuperseded
  BY DEF StoreInv, RowInv, MissingOnlyWhenSuperseded, MissingAreGone, NoDanglingSession, InForce
<1> QED
  BY <1>1, StoreInvariant, PTL

-------------------------------------------------------------------------------
(* Nothing is left behind                                                  *)

\* The secrets that a worker at work will put into force or delete.
HeldBy(w) ==
  IF InHand(w) THEN {fresh[w]}
  ELSE IF stage[w] \in {"sweeping", "cleaning"} THEN doomed[w] ELSE {}

\* A secret of the vault that is not in force is some worker's.
Accounted ==
  faults = 0 =>
    \A k \in vault : k \in InForce \/ \E w \in Workers : k \in HeldBy(w)

\* A step of one worker, which may hand a secret on to the rows or take over
\* what they named, as long as it loses none.
LEMMA NoneIsLost ==
  ASSUME Accounted, NEW w \in Workers, faults' = faults,
         \A v \in Workers \ {w} : /\ stage'[v] = stage[v] /\ fresh'[v] = fresh[v]
                                  /\ doomed'[v] = doomed[v],
         \A k \in vault' : k \in vault \/ k \in HeldBy(w)',
         \A k \in vault' :
           k \in InForce \/ k \in HeldBy(w) => k \in InForce' \/ k \in HeldBy(w)'
  PROVE  Accounted'
<1>1. \A v \in Workers \ {w} : HeldBy(v)' = HeldBy(v)
  BY DEF HeldBy
<1> QED
  BY <1>1 DEF Accounted

\* A step of a worker that holds nothing, before or after it.
LEMMA NothingHeld ==
  ASSUME StoreInv, Accounted, NEW w \in Workers,
         HeldBy(w) = {}, UNCHANGED <<sessions, vault, fresh, doomed, faults>>,
         \A v \in Workers \ {w} : stage'[v] = stage[v]
  PROVE  Accounted'
<1>1. InForce' = InForce
  BY DEF InForce
<1> QED
  BY <1>1, NoneIsLost

\* After an injected fault nothing is promised.
LEMMA AfterFault == ASSUME TypeOK, Fault PROVE Accounted'
  BY StoreAssumption DEF TypeOK, Fault, Accounted

\* Every step keeps account of the secrets.
LEMMA NextAccounted == StoreInv /\ Accounted /\ [Next]_vars => Accounted'
<1> SUFFICES ASSUME StoreInv, Accounted, [Next]_vars PROVE Accounted'
  OBVIOUS
<1>0. TypeOK
  BY DEF StoreInv
<1> USE DEF GoTo, Doom, metadataVars, vaultVars, workVars
<1>1. ASSUME NEW w \in Workers, NEW a \in Accounts, LoginBegin(w, a) PROVE Accounted'
  BY <1>0, <1>1, NothingHeld DEF LoginBegin, TypeOK, HeldBy
<1>2. ASSUME NEW w \in Workers, LoginAbort(w) PROVE Accounted'
  BY <1>0, <1>2, NothingHeld DEF LoginAbort, TypeOK, HeldBy
<1>3. ASSUME NEW w \in Workers, SweepDone(w) PROVE Accounted'
  BY <1>0, <1>3, NothingHeld DEF SweepDone, TypeOK, HeldBy
<1>4. ASSUME NEW w \in Workers, NEW a \in Accounts, NEW s \in sessions, CallBegin(w, a, s)
      PROVE Accounted'
  BY <1>0, <1>4, NothingHeld DEF CallBegin, TypeOK, HeldBy
<1>5. ASSUME NEW w \in Workers, ReportMissing(w) PROVE Accounted'
  BY <1>0, <1>5, NothingHeld DEF ReportMissing, TypeOK, HeldBy
<1>6. ASSUME NEW w \in Workers, Reread(w) PROVE Accounted'
  BY <1>0, <1>6, NothingHeld DEF Reread, TypeOK, HeldBy
<1>7. ASSUME NEW w \in Workers, AcquireRefresh(w) PROVE Accounted'
  BY <1>0, <1>7, NothingHeld DEF AcquireRefresh, TypeOK, HeldBy, EndRefresh
<1>8. ASSUME NEW w \in Workers, ReadRefreshToken(w) PROVE Accounted'
  BY <1>0, <1>8, NothingHeld DEF ReadRefreshToken, TypeOK, HeldBy, EndRefresh
<1>9. ASSUME NEW w \in Workers, NEW rotates \in Rotates, EndpointGrants(w, rotates)
      PROVE Accounted'
  BY <1>0, <1>9, NothingHeld DEF EndpointGrants, TypeOK, HeldBy
<1>10. ASSUME NEW w \in Workers, EndpointRefuses(w) PROVE Accounted'
  BY <1>0, <1>10, NothingHeld DEF EndpointRefuses, TypeOK, HeldBy
<1>11. ASSUME NEW w \in Workers, ReturnRefused(w) PROVE Accounted'
  BY <1>0, <1>11, NothingHeld DEF ReturnRefused, TypeOK, HeldBy, EndRefresh
<1>12. ASSUME NEW w \in Workers, ReleaseRefresh(w) PROVE Accounted'
  BY <1>0, <1>12, NothingHeld DEF ReleaseRefresh, TypeOK, HeldBy
<1>13. ASSUME NEW w \in Workers, Fetch(w) PROVE Accounted'
  BY <1>0, <1>13, NothingHeld DEF Fetch, TypeOK, HeldBy
<1>14. ASSUME NEW w \in Workers, NEW k \in Secrets, NEW e \in {"fresh", "never"},
              LoginStore(w, k, e)
       PROVE Accounted'
  <2>1. /\ HeldBy(w) = {} /\ HeldBy(w)' = {k} /\ vault' = vault \cup {k}
        /\ InForce' = InForce
    BY <1>0, <1>14 DEF LoginStore, PutSecret, TypeOK, HeldBy, InForce
  <2> QED
    BY <1>0, <1>14, <2>1, NoneIsLost DEF LoginStore, PutSecret, TypeOK
<1>15. ASSUME NEW w \in Workers, NEW k \in Secrets, StoreRefreshed(w, k) PROVE Accounted'
  <2>1. /\ HeldBy(w) = {} /\ HeldBy(w)' = {k} /\ vault' = vault \cup {k}
        /\ InForce' = InForce
    BY <1>0, <1>15 DEF StoreRefreshed, PutSecret, TypeOK, HeldBy, InForce
  <2> QED
    BY <1>0, <1>15, <2>1, NoneIsLost DEF StoreRefreshed, PutSecret, TypeOK
<1>16. ASSUME NEW w \in Workers, NEW k \in Secrets, Sweep(w, k) PROVE Accounted'
  <2>1. /\ HeldBy(w)' = HeldBy(w) \ {k} /\ vault' = vault \ {k} /\ InForce' = InForce
    BY <1>0, <1>16 DEF Sweep, DropSecret, TypeOK, HeldBy, InForce
  <2> QED
    BY <1>0, <1>16, <2>1, NoneIsLost DEF Sweep, TypeOK
<1>17. ASSUME NEW w \in Workers, NEW p \in Providers, RemoveProvider(w, p) PROVE Accounted'
  <2> DEFINE gone == {s \in sessions : ProviderOf[s.account] = p}
  <2>1. HeldBy(w) = {} /\ HeldBy(w)' = {s.secret : s \in gone}
    BY <1>0, <1>17 DEF RemoveProvider, TypeOK, HeldBy
  <2>2. sessions' = sessions \ gone
    BY <1>17 DEF RemoveProvider
  <2>3. \A k \in InForce : k \in InForce' \/ k \in HeldBy(w)'
    BY <2>1, <2>2 DEF InForce
  <2> QED
    BY <1>0, <1>17, <2>1, <2>3, NoneIsLost DEF RemoveProvider, TypeOK
<1>18. ASSUME NEW w \in Workers, LoginCommit(w) PROVE Accounted'
  <2> DEFINE old == SessionsOf(account[w])
  <2>1. HeldBy(w) = {fresh[w]} /\ HeldBy(w)' = {s.secret : s \in old}
    BY <1>0, <1>18 DEF LoginCommit, TypeOK, HeldBy
  <2>2. sessions' = (sessions \ old) \cup {snap[w]} /\ snap[w].secret = fresh[w]
    BY <1>18 DEF LoginCommit, StoreInv, HandInv, LoginsAreNew
  <2>3. \A k : k \in InForce \/ k \in HeldBy(w) => k \in InForce' \/ k \in HeldBy(w)'
    BY <2>1, <2>2 DEF InForce
  <2> QED
    BY <1>0, <1>18, <2>3, NoneIsLost DEF LoginCommit, TypeOK
<1>19. ASSUME NEW w \in Workers, NEW e \in {"fresh", "never"}, Swap(w, e) PROVE Accounted'
  <2>1. HeldBy(w) = {fresh[w]} /\ HeldBy(w)' = doomed'[w]
    BY <1>0, <1>19 DEF Swap, TypeOK, HeldBy
  <2>2. \A k : k \in InForce \/ k \in HeldBy(w) => k \in InForce' \/ k \in HeldBy(w)'
    <3>1. CASE Current(w) = {}
      <4>1. sessions' = sessions /\ doomed'[w] = {fresh[w]}
        BY <1>0, <1>19, <3>1 DEF Swap, TypeOK
      <4> QED
        BY <2>1, <4>1 DEF InForce
    <3>2. CASE Current(w) # {}
      <4>1. doomed'[w] = {snap[w].secret}
        BY <1>0, <1>19, <3>2 DEF Swap, TypeOK
      <4>2. \A s \in sessions \ Current(w) : s \in sessions'
        BY <1>19 DEF Swap
      <4>3. PICK s \in Current(w) : TRUE
        BY <3>2
      <4>4. [s EXCEPT !.secret = fresh[w], !.expiry = e] \in sessions'
        BY <1>19, <4>3 DEF Swap
      <4>5. [s EXCEPT !.secret = fresh[w], !.expiry = e].secret = fresh[w]
        BY <4>3, RowsAreKnown DEF Current, Sessions
      <4>6. fresh[w] \in InForce'
        BY <4>4, <4>5 DEF InForce
      <4>7. \A q \in Current(w) : q.secret = snap[w].secret
        BY DEF Current
      <4> QED
        BY <2>1, <4>1, <4>2, <4>6, <4>7 DEF InForce
    <3> QED
      BY <3>1, <3>2
  <2>3. UNCHANGED <<vault, fresh, faults>>
    BY <1>19 DEF Swap
  <2>4. \A v \in Workers \ {w} : stage'[v] = stage[v] /\ doomed'[v] = doomed[v]
    BY <1>0, <1>19 DEF Swap, TypeOK
  <2> QED
    BY <2>2, <2>3, <2>4, NoneIsLost
<1>20. ASSUME NEW s \in sessions, Expire(s) PROVE Accounted'
  <2>1. [s EXCEPT !.expiry = "stale"].secret = s.secret
    BY RowsAreKnown DEF Sessions
  <2>2. InForce' = InForce
    BY <1>20, <2>1 DEF Expire, InForce
  <2> QED
    BY <1>20, <2>2 DEF Expire, Accounted, HeldBy
<1>21. ASSUME NEW p \in Providers, AddProvider(p) PROVE Accounted'
  BY <1>21 DEF AddProvider, Accounted, HeldBy, InForce
<1>22. CASE UNCHANGED vars
  BY <1>22 DEF vars, Accounted, HeldBy, InForce
<1>23. ASSUME Fault PROVE Accounted'
  BY <1>0, <1>23, AfterFault
<1>24. ASSUME NEW w \in Workers, Login(w) PROVE Accounted'
  BY <1>1, <1>2, <1>14, <1>18, <1>23, <1>24 DEF Login, LoginCommitFails
<1>25. ASSUME NEW w \in Workers, Cleanup(w) PROVE Accounted'
  BY <1>16, <1>3, <1>23, <1>25 DEF Cleanup, SweepFails
<1>26. ASSUME NEW w \in Workers, Call(w) PROVE Accounted'
  BY <1>4, <1>13, <1>5, <1>6, <1>26 DEF Call
<1>27. ASSUME NEW w \in Workers, Refresh(w) PROVE Accounted'
  BY <1>7, <1>8, <1>9, <1>10, <1>11, <1>12, <1>15, <1>19, <1>23, <1>27
  DEF Refresh, RefreshFails, SwapFails
<1>28. ASSUME NEW w \in Workers, Cancel(w) PROVE Accounted'
  BY <1>23, <1>28 DEF Cancel
<1>29. ASSUME NEW p \in Processes, Crash(p) PROVE Accounted'
  BY <1>23, <1>29 DEF Crash
<1> QED
  BY <1>17, <1>20, <1>21, <1>22, <1>24, <1>25, <1>26, <1>27, <1>28, <1>29 DEF Next

\* Without faults the vault at rest holds the secrets of the rows and no others:
\* logins, refreshes, lost races and removals clean up after themselves
\* (auth.rs:612-625, provider.rs).
THEOREM NothingIsLeft == Spec => []NoOrphanSecret
<1>1. Init => Accounted
  BY DEF Init, Accounted
<1>2. StoreInv /\ Accounted => NoOrphanSecret
  BY DEF StoreInv, RowInv, NoDanglingSession, InForce, Accounted, HeldBy, NoOrphanSecret
<1> QED
  BY <1>1, <1>2, NextAccounted, StoreInvariant, PTL DEF Spec

-------------------------------------------------------------------------------
(* Refresh tokens                                                          *)

\* Where the endpoint rotates, each secret has a refresh token of its own, and
\* it is spent once an answer for it has been received.
TokensAreOwn ==
  /\ \A k \in Secrets : token[k] = k
  /\ \A w \in Workers : stage[w] = "received" => ProcessOf[w] \in spent[snap[w].secret]

\* A token is spent only after its secret has left the hands that made it.
SpentWasStored ==
  /\ \A k \in Secrets : spent[k] # {} => k \in used
  /\ \A w \in Workers : InHand(w) => spent[fresh[w]] = {}

\* A worker in its refresh has the lock of its process, and works for a row
\* that there was.
RefreshesAreLocked ==
  \A w \in Workers :
    /\ stage[w] \in InRefresh => lock[ProcessOf[w]] = w
    /\ stage[w] \in {"reading", "posting", "received", "swapping"} =>
         /\ snap[w].id = lineage[snap[w].secret]
         /\ \A v \in Workers : InHand(v) => fresh[v] # snap[w].secret

TokenInv == TokensAreOwn /\ SpentWasStored /\ RefreshesAreLocked

\* The token of a row is spent by the worker that is about to replace it.
SpentIsReplaced ==
  \A s \in sessions :
    spent[s.secret] # {} =>
      \E w \in Workers :
        /\ stage[w] \in {"received", "swapping"}
        /\ snap[w].secret = s.secret
        /\ spent[s.secret] = {ProcessOf[w]}

\* Who holds the lock presents a token that its process has not spent.
PresentsUnspent ==
  \A w \in Workers :
    stage[w] \in {"reading", "posting", "refused"} =>
      ProcessOf[w] \notin spent[snap[w].secret]

QuietInv == faults = 0 => SpentIsReplaced /\ PresentsUnspent

\* Every step keeps what is known of tokens and of the lock.
LEMMA NextTokens ==
  ASSUME StoreInv, TokenInv, FALSE \notin Rotates, [Next]_vars
  PROVE  TokenInv'
<1>0. /\ TypeOK /\ IdsWereDrawn /\ FreshIsStored /\ SessionKeepsItsLogin
  BY DEF StoreInv, HandInv, RowInv
<1> USE <1>0, StoreAssumption
    DEF GoTo, Doom, metadataVars, vaultVars, workVars, TypeOK, TokenInv, TokensAreOwn,
        SpentWasStored, RefreshesAreLocked, InRefresh, Stages
<1>1. ASSUME NEW w \in Workers, NEW a \in Accounts, LoginBegin(w, a) PROVE TokenInv'
  BY <1>1 DEF LoginBegin, IdsWereDrawn, Sessions
<1>2. ASSUME NEW w \in Workers, LoginAbort(w) PROVE TokenInv'
  BY <1>2 DEF LoginAbort, IdsWereDrawn, Sessions
<1>3. ASSUME NEW w \in Workers, NEW k \in Secrets, NEW e \in {"fresh", "never"},
             LoginStore(w, k, e)
      PROVE  TokenInv'
  <2>1. /\ stage[w] = "authorizing" /\ stage' = [stage EXCEPT ![w] = "storing"]
        /\ k \notin used /\ used' = used \cup {k}
        /\ lineage' = [lineage EXCEPT ![k] = k] /\ token' = [token EXCEPT ![k] = k]
        /\ fresh' = [fresh EXCEPT ![w] = k]
        /\ \A v \in Workers \ {w} : snap'[v] = snap[v]
        /\ UNCHANGED <<spent, lock>>
    BY <1>3 DEF LoginStore, PutSecret
  <2>2. \A v \in Workers : stage[v] \in InRefresh =>
          snap[v].secret \in Secrets /\ snap[v].secret # k
    BY <2>1 DEF IdsWereDrawn, Sessions
  <2>3. TokensAreOwn' /\ SpentWasStored'
    BY <2>1
  <2>4. RefreshesAreLocked'
    BY <2>1, <2>2
  <2> QED
    BY <2>3, <2>4
<1>4. ASSUME NEW w \in Workers, LoginCommit(w) PROVE TokenInv'
  BY <1>4 DEF LoginCommit, IdsWereDrawn, Sessions
<1>5. ASSUME NEW w \in Workers, LoginCommitFails(w) PROVE TokenInv'
  BY <1>5 DEF LoginCommitFails, IdsWereDrawn, Sessions
<1>6. ASSUME NEW w \in Workers, NEW k \in Secrets, Sweep(w, k) PROVE TokenInv'
  BY <1>6 DEF Sweep, IdsWereDrawn, Sessions
<1>7. ASSUME NEW w \in Workers, NEW k \in Secrets, SweepFails(w, k) PROVE TokenInv'
  BY <1>7 DEF SweepFails, IdsWereDrawn, Sessions
<1>8. ASSUME NEW w \in Workers, SweepDone(w) PROVE TokenInv'
  BY <1>8 DEF SweepDone, IdsWereDrawn, Sessions
<1>9. ASSUME NEW w \in Workers, NEW a \in Accounts, NEW s \in sessions,
             CallBegin(w, a, s)
      PROVE  TokenInv'
  BY <1>9 DEF CallBegin, IdsWereDrawn, Sessions
<1>10. ASSUME NEW w \in Workers, Fetch(w) PROVE TokenInv'
  BY <1>10 DEF Fetch, IdsWereDrawn, Sessions
<1>11. ASSUME NEW w \in Workers, ReportMissing(w) PROVE TokenInv'
  BY <1>11 DEF ReportMissing, IdsWereDrawn, Sessions
<1>12. ASSUME NEW w \in Workers, Reread(w) PROVE TokenInv'
  BY <1>12 DEF Reread, IdsWereDrawn, Sessions
<1>13. ASSUME NEW w \in Workers, AcquireRefresh(w) PROVE TokenInv'
  <2>1. /\ stage[w] = "locking" /\ lock[ProcessOf[w]] = NoWorker
        /\ lock' = [lock EXCEPT ![ProcessOf[w]] = w]
        /\ UNCHANGED <<vaultVars, spent, fresh>>
    BY <1>13 DEF AcquireRefresh
  <2>2. CASE stage' = [stage EXCEPT ![w] = "releasing"] /\ snap' = snap
    BY <2>1, <2>2
  <2>3. ASSUME NEW s \in sessions, snap' = [snap EXCEPT ![w] = s],
               NEW next \in {"releasing", "reading"}, stage' = [stage EXCEPT ![w] = next]
        PROVE  TokenInv'
    <3>1. s.id = lineage[s.secret] /\ \A v \in Workers : InHand(v) => fresh[v] # s.secret
      BY DEF SessionKeepsItsLogin, FreshIsStored
    <3> QED
      BY <2>1, <2>3, <3>1
  <2> QED
    BY <1>13, <2>2, <2>3 DEF AcquireRefresh, EndRefresh, SessionsOf
<1>14. ASSUME NEW w \in Workers, ReadRefreshToken(w) PROVE TokenInv'
  BY <1>14 DEF ReadRefreshToken, EndRefresh, IdsWereDrawn, Sessions
<1>15. ASSUME NEW w \in Workers, NEW rotates \in Rotates,
             EndpointGrants(w, rotates)
      PROVE  TokenInv'
  <2> DEFINE k == snap[w].secret
  <2>1. /\ stage[w] = "posting" /\ stage' = [stage EXCEPT ![w] = "received"]
        /\ UNCHANGED <<vaultVars, lock, snap, fresh>>
    BY <1>15 DEF EndpointGrants
  <2>2. k \in used /\ k \in Secrets /\ token[k] = k
    BY <2>1 DEF IdsWereDrawn, Sessions
  <2>3. spent[k] = {} /\ spent' = [spent EXCEPT ![k] = {ProcessOf[w]}]
    BY <1>15, <2>2 DEF EndpointGrants
  <2>4. \A v \in Workers : InHand(v) => fresh[v] # k
    BY <2>1
  <2>5. \A i \in Secrets : spent'[i] = IF i = k THEN {ProcessOf[w]} ELSE spent[i]
    BY <2>3
  <2>6. \A v \in Workers : stage[v] = "received" => snap[v].secret \in Secrets
    BY DEF IdsWereDrawn, Sessions
  <2>7. \A v \in Workers : InHand(v) => fresh[v] \in Secrets
    BY FreshIsKnown
  <2> HIDE DEF k
  <2>8. TokensAreOwn'
    <3>1. \A v \in Workers \ {w} : stage'[v] = stage[v]
      BY <2>1
    <3>2. ProcessOf[w] \in spent'[k]
      BY <2>2, <2>5
    <3>3. snap[w].secret = k
      BY DEF k
    <3>4. \A v \in Workers \ {w} : stage[v] = "received" =>
            ProcessOf[v] \in spent'[snap[v].secret]
      BY <2>3, <2>5, <2>6
    <3> QED
      BY <2>1, <3>1, <3>2, <3>3, <3>4
  <2>9. SpentWasStored'
    BY <2>1, <2>2, <2>4, <2>5, <2>7
  <2>10. RefreshesAreLocked'
    BY <2>1
  <2> QED
    BY <2>8, <2>9, <2>10
<1>16. ASSUME NEW w \in Workers, EndpointRefuses(w) PROVE TokenInv'
  BY <1>16 DEF EndpointRefuses, IdsWereDrawn, Sessions
<1>17. ASSUME NEW w \in Workers, ReturnRefused(w) PROVE TokenInv'
  BY <1>17 DEF ReturnRefused, EndRefresh, IdsWereDrawn, Sessions
<1>18. ASSUME NEW w \in Workers, RefreshFails(w) PROVE TokenInv'
  BY <1>18 DEF RefreshFails, EndRefresh, IdsWereDrawn, Sessions
<1>19. ASSUME NEW w \in Workers, NEW k \in Secrets, StoreRefreshed(w, k) PROVE TokenInv'
  BY <1>19 DEF StoreRefreshed, PutSecret, IdsWereDrawn, Sessions
<1>20. ASSUME NEW w \in Workers, NEW e \in {"fresh", "never"}, Swap(w, e) PROVE TokenInv'
  <2>1. /\ stage[w] = "swapping" /\ stage' = [stage EXCEPT ![w] = "cleaning"]
        /\ UNCHANGED <<vaultVars, spent, lock, snap, fresh>>
    BY <1>20 DEF Swap
  <2> QED
    BY <2>1
<1>21. ASSUME NEW w \in Workers, SwapFails(w) PROVE TokenInv'
  BY <1>21 DEF SwapFails, IdsWereDrawn, Sessions
<1>22. ASSUME NEW w \in Workers, ReleaseRefresh(w) PROVE TokenInv'
  BY <1>22 DEF ReleaseRefresh, IdsWereDrawn, Sessions
<1>23. ASSUME NEW w \in Workers, Cancel(w) PROVE TokenInv'
  BY <1>23 DEF Cancel, IdsWereDrawn, Sessions
<1>24. ASSUME NEW w \in Workers, NEW p \in Providers, RemoveProvider(w, p) PROVE TokenInv'
  BY <1>24 DEF RemoveProvider, IdsWereDrawn, Sessions
<1>25. ASSUME NEW p \in Providers, AddProvider(p) PROVE TokenInv'
  BY <1>25 DEF AddProvider, IdsWereDrawn, Sessions
<1>26. ASSUME NEW p \in Processes, Crash(p) PROVE TokenInv'
  BY <1>26 DEF Crash, IdsWereDrawn, Sessions
<1>27. ASSUME NEW s \in sessions, Expire(s) PROVE TokenInv'
  BY <1>27 DEF Expire, IdsWereDrawn, Sessions
<1>28. CASE UNCHANGED vars
  BY <1>28 DEF vars
<1> HIDE DEF TokenInv, TypeOK, GoTo, Doom
<1>29. ASSUME NEW w \in Workers, Login(w) \/ Cleanup(w) PROVE TokenInv'
  BY <1>1, <1>2, <1>3, <1>4, <1>5, <1>6, <1>7, <1>8, <1>29 DEF Login, Cleanup
<1>30. ASSUME NEW w \in Workers, Call(w) PROVE TokenInv'
  BY <1>9, <1>10, <1>11, <1>12, <1>30 DEF Call
<1>31. ASSUME NEW w \in Workers, Refresh(w) PROVE TokenInv'
  BY <1>13, <1>14, <1>15, <1>16, <1>17, <1>18, <1>19, <1>20, <1>21, <1>22, <1>31 DEF Refresh
<1> QED
  BY <1>23, <1>24, <1>25, <1>26, <1>27, <1>28, <1>29, <1>30, <1>31 DEF Next

\* A step that spends nothing and gives no row another secret, of a worker that
\* has no answer yet and reads no token anew.
LEMMA NothingSpent ==
  ASSUME SpentIsReplaced, PresentsUnspent, NEW w \in Workers,
         sessions' \subseteq sessions, spent' = spent,
         \A v \in Workers \ {w} : stage'[v] = stage[v] /\ snap'[v] = snap[v],
         stage[w] \notin {"received", "swapping"},
         stage'[w] \in {"reading", "posting", "refused"} =>
           stage[w] \in {"reading", "posting"} /\ snap'[w] = snap[w]
  PROVE  SpentIsReplaced' /\ PresentsUnspent'
<1>1. SpentIsReplaced'
  BY DEF SpentIsReplaced
<1>2. PresentsUnspent'
  BY DEF PresentsUnspent
<1> QED
  BY <1>1, <1>2

\* Without faults every step keeps what is known of spent tokens.
LEMMA NextSpent ==
  ASSUME StoreInv, TokenInv, FALSE \notin Rotates,
         SpentIsReplaced, PresentsUnspent, [Next]_vars, ~Fault
  PROVE  SpentIsReplaced' /\ PresentsUnspent'
<1> DEFINE Goal == SpentIsReplaced' /\ PresentsUnspent'
<1>0. TypeOK /\ IdsWereDrawn /\ RefreshesAreLocked
  BY DEF StoreInv, TokenInv
<1> USE DEF GoTo, metadataVars, vaultVars, workVars
<1>1. ASSUME NEW w \in Workers, NEW a \in Accounts, LoginBegin(w, a) PROVE Goal
  BY <1>0, <1>1, NothingSpent DEF LoginBegin, TypeOK
<1>2. ASSUME NEW w \in Workers, LoginAbort(w) PROVE Goal
  BY <1>0, <1>2, NothingSpent DEF LoginAbort, TypeOK
<1>3. ASSUME NEW w \in Workers, NEW k \in Secrets, NEW e \in {"fresh", "never"},
             LoginStore(w, k, e)
      PROVE  Goal
  BY <1>0, <1>3, NothingSpent DEF LoginStore, PutSecret, TypeOK
<1>4. ASSUME NEW w \in Workers, NEW k \in Secrets, Sweep(w, k) PROVE Goal
  BY <1>0, <1>4, NothingSpent DEF Sweep, TypeOK
<1>5. ASSUME NEW w \in Workers, SweepDone(w) PROVE Goal
  BY <1>0, <1>5, NothingSpent DEF SweepDone, TypeOK
<1>6. ASSUME NEW w \in Workers, NEW a \in Accounts, NEW s \in sessions,
             CallBegin(w, a, s)
      PROVE  Goal
  BY <1>0, <1>6, NothingSpent DEF CallBegin, TypeOK
<1>7. ASSUME NEW w \in Workers, Fetch(w) PROVE Goal
  BY <1>0, <1>7, NothingSpent DEF Fetch, TypeOK
<1>8. ASSUME NEW w \in Workers, ReportMissing(w) PROVE Goal
  BY <1>0, <1>8, NothingSpent DEF ReportMissing, TypeOK
<1>9. ASSUME NEW w \in Workers, Reread(w) PROVE Goal
  BY <1>0, <1>9, NothingSpent DEF Reread, TypeOK
<1>10. ASSUME NEW w \in Workers, ReturnRefused(w) PROVE Goal
  BY <1>0, <1>10, NothingSpent DEF ReturnRefused, EndRefresh, TypeOK
<1>11. ASSUME NEW w \in Workers, ReleaseRefresh(w) PROVE Goal
  BY <1>0, <1>11, NothingSpent DEF ReleaseRefresh, TypeOK
<1>12. ASSUME NEW w \in Workers, NEW p \in Providers, RemoveProvider(w, p) PROVE Goal
  BY <1>0, <1>12, NothingSpent DEF RemoveProvider, TypeOK
<1>13. ASSUME NEW w \in Workers, ReadRefreshToken(w) PROVE Goal
  BY <1>0, <1>13, NothingSpent DEF ReadRefreshToken, EndRefresh, TypeOK
<1>14. ASSUME NEW w \in Workers, EndpointRefuses(w) PROVE Goal
  BY <1>0, <1>14, NothingSpent DEF EndpointRefuses, TypeOK
<1>15. ASSUME NEW w \in Workers, LoginCommit(w) PROVE Goal
  <2>1. snap[w].secret = fresh[w] /\ spent[fresh[w]] = {}
    BY <1>15 DEF LoginCommit, StoreInv, HandInv, LoginsAreNew, TokenInv, SpentWasStored
  <2>2. \A s \in sessions' : s \in sessions \/ s = snap[w]
    BY <1>15 DEF LoginCommit
  <2>3. /\ stage[w] = "storing" /\ stage' = [stage EXCEPT ![w] = "sweeping"]
        /\ UNCHANGED <<spent, snap>>
    BY <1>15 DEF LoginCommit
  <2>4. SpentIsReplaced'
    BY <1>0, <2>1, <2>2, <2>3 DEF SpentIsReplaced, TypeOK
  <2>5. PresentsUnspent'
    BY <1>0, <2>3 DEF PresentsUnspent, TypeOK
  <2> QED
    BY <2>4, <2>5
<1>16. ASSUME NEW w \in Workers, AcquireRefresh(w) PROVE Goal
  <2>1. /\ stage[w] = "locking" /\ lock[ProcessOf[w]] = NoWorker
        /\ UNCHANGED <<sessions, spent>>
    BY <1>16 DEF AcquireRefresh
  <2>2. CASE stage' = [stage EXCEPT ![w] = "releasing"] /\ snap' = snap
    BY <1>0, <2>1, <2>2, NothingSpent DEF TypeOK
  <2>3. ASSUME NEW s \in sessions, snap' = [snap EXCEPT ![w] = s],
               NEW next \in {"releasing", "reading"}, stage' = [stage EXCEPT ![w] = next]
        PROVE  Goal
    <3>1. ProcessOf[w] \notin spent[s.secret]
      <4>1. SUFFICES ASSUME ProcessOf[w] \in spent[s.secret] PROVE FALSE
        OBVIOUS
      <4>2. PICK v \in Workers : /\ stage[v] \in {"received", "swapping"}
                                 /\ spent[s.secret] = {ProcessOf[v]}
        BY <4>1 DEF SpentIsReplaced
      <4>3. ProcessOf[v] = ProcessOf[w] /\ lock[ProcessOf[v]] = v
        BY <1>0, <4>1, <4>2 DEF RefreshesAreLocked, InRefresh
      <4> QED
        BY <2>1, <4>3, StoreAssumption
    <3>2. SpentIsReplaced'
      BY <1>0, <2>1, <2>3 DEF SpentIsReplaced, TypeOK
    <3>3. PresentsUnspent'
      BY <1>0, <2>1, <2>3, <3>1 DEF PresentsUnspent, TypeOK
    <3> QED
      BY <3>2, <3>3
  <2> QED
    BY <1>16, <2>2, <2>3 DEF AcquireRefresh, EndRefresh, SessionsOf
<1>17. ASSUME NEW w \in Workers, NEW rotates \in Rotates, EndpointGrants(w, rotates)
       PROVE  Goal
  <2> DEFINE k == snap[w].secret
  <2>1. /\ stage[w] = "posting" /\ stage' = [stage EXCEPT ![w] = "received"]
        /\ UNCHANGED <<sessions, snap>>
    BY <1>17 DEF EndpointGrants
  <2>2. k \in Secrets /\ token[k] = k
    BY <1>0, <2>1 DEF IdsWereDrawn, TypeOK, TokenInv, TokensAreOwn
  <2>3. spent[k] = {} /\ spent' = [spent EXCEPT ![k] = {ProcessOf[w]}]
    BY <1>17, <2>2, StoreAssumption DEF EndpointGrants
  <2>4. \A i \in Secrets : spent'[i] = IF i = k THEN {ProcessOf[w]} ELSE spent[i]
    BY <1>0, <2>3 DEF TypeOK
  <2>5. \A v \in Workers : stage'[v] = IF v = w THEN "received" ELSE stage[v]
    BY <1>0, <2>1 DEF TypeOK
  <2>6. SpentIsReplaced'
    <3>1. SUFFICES ASSUME NEW s \in sessions, spent'[s.secret] # {}
          PROVE  \E v \in Workers : /\ stage'[v] \in {"received", "swapping"}
                                    /\ snap[v].secret = s.secret
                                    /\ spent'[s.secret] = {ProcessOf[v]}
      BY <2>1 DEF SpentIsReplaced
    <3>2. s.secret \in Secrets
      BY RowsAreKnown
    <3>3. CASE s.secret = k
      BY <2>4, <2>5, <3>2, <3>3
    <3>4. CASE s.secret # k
      <4>1. PICK v \in Workers : /\ stage[v] \in {"received", "swapping"}
                                 /\ snap[v].secret = s.secret
                                 /\ spent[s.secret] = {ProcessOf[v]}
        BY <2>4, <3>1, <3>2, <3>4 DEF SpentIsReplaced
      <4>2. v # w
        BY <2>1, <4>1
      <4> QED
        BY <2>4, <2>5, <3>2, <3>4, <4>1, <4>2
    <3> QED
      BY <3>3, <3>4
  <2>7. PresentsUnspent'
    <3>1. SUFFICES ASSUME NEW v \in Workers \ {w},
                          stage[v] \in {"reading", "posting", "refused"}
          PROVE  ProcessOf[v] \notin spent'[snap[v].secret]
      BY <2>1, <2>5 DEF PresentsUnspent
    <3>2. ProcessOf[v] # ProcessOf[w]
      BY <1>0, <2>1, <3>1 DEF RefreshesAreLocked, InRefresh
    <3>3. snap[v].secret \in Secrets /\ ProcessOf[v] \notin spent[snap[v].secret]
      BY <1>0, <3>1 DEF PresentsUnspent, IdsWereDrawn, TypeOK
    <3> QED
      BY <2>4, <3>2, <3>3
  <2> QED
    BY <2>6, <2>7
<1>18. ASSUME NEW w \in Workers, NEW k \in Secrets, StoreRefreshed(w, k) PROVE Goal
  <2>1. /\ stage[w] = "received" /\ stage' = [stage EXCEPT ![w] = "swapping"]
        /\ UNCHANGED <<sessions, spent, snap>>
    BY <1>18 DEF StoreRefreshed
  <2>2. \A v \in Workers : stage'[v] = IF v = w THEN "swapping" ELSE stage[v]
    BY <1>0, <2>1 DEF TypeOK
  <2>3. SpentIsReplaced'
    BY <2>1, <2>2 DEF SpentIsReplaced
  <2>4. PresentsUnspent'
    BY <2>1, <2>2 DEF PresentsUnspent
  <2> QED
    BY <2>3, <2>4
<1>19. ASSUME NEW w \in Workers, NEW e \in {"fresh", "never"}, Swap(w, e) PROVE Goal
  <2>1. /\ stage[w] = "swapping" /\ stage' = [stage EXCEPT ![w] = "cleaning"]
        /\ UNCHANGED <<spent, snap>>
    BY <1>19 DEF Swap
  <2>2. \A v \in Workers : stage'[v] = IF v = w THEN "cleaning" ELSE stage[v]
    BY <1>0, <2>1 DEF TypeOK
  <2>3. \A s \in sessions : s.secret = snap[w].secret => s \in Current(w)
    BY <1>0, <2>1
    DEF RefreshesAreLocked, StoreInv, RowInv, SessionKeepsItsLogin, Current
  <2>4. spent[fresh[w]] = {}
    BY <2>1 DEF TokenInv, SpentWasStored
  <2>5. ASSUME NEW s \in sessions'
        PROVE  s.secret = fresh[w] \/ (s \in sessions /\ s.secret # snap[w].secret)
    <3>1. CASE s \in sessions \ Current(w)
      BY <2>3, <3>1
    <3>2. ASSUME NEW q \in Current(w), s = [q EXCEPT !.secret = fresh[w], !.expiry = e]
          PROVE  s.secret = fresh[w]
      BY <3>2, RowsAreKnown DEF Current, Sessions
    <3> QED
      BY <1>19, <3>1, <3>2 DEF Swap
  <2>6. SpentIsReplaced'
    BY <2>1, <2>2, <2>4, <2>5 DEF SpentIsReplaced
  <2>7. PresentsUnspent'
    BY <2>1, <2>2 DEF PresentsUnspent
  <2> QED
    BY <2>6, <2>7
<1>20. ASSUME NEW s \in sessions, Expire(s) PROVE Goal
  <2>1. [s EXCEPT !.expiry = "stale"].secret = s.secret
    BY RowsAreKnown DEF Sessions
  <2>2. \A q \in sessions' : \E t \in sessions : t.secret = q.secret
    BY <1>20, <2>1 DEF Expire
  <2>3. UNCHANGED <<stage, spent, snap>>
    BY <1>20 DEF Expire
  <2>4. SpentIsReplaced' /\ PresentsUnspent'
    BY <2>2, <2>3 DEF SpentIsReplaced, PresentsUnspent
  <2> QED
    BY <2>4
<1>21. ASSUME NEW p \in Providers, AddProvider(p) PROVE Goal
  BY <1>21 DEF AddProvider, SpentIsReplaced, PresentsUnspent
<1>22. ASSUME UNCHANGED vars PROVE Goal
  BY <1>22 DEF vars, SpentIsReplaced, PresentsUnspent
<1> HIDE DEF Goal, GoTo
<1>23. ASSUME NEW w \in Workers, Login(w) \/ Cleanup(w) PROVE Goal
  BY <1>1, <1>2, <1>3, <1>15, <1>4, <1>5, <1>23
  DEF Login, Cleanup, LoginCommitFails, SweepFails
<1>24. ASSUME NEW w \in Workers, Call(w) PROVE Goal
  BY <1>6, <1>7, <1>8, <1>9, <1>24 DEF Call
<1>25. ASSUME NEW w \in Workers, Refresh(w) PROVE Goal
  BY <1>16, <1>13, <1>17, <1>14, <1>10, <1>18, <1>19, <1>11, <1>25
  DEF Refresh, RefreshFails, SwapFails
<1>26. ASSUME NEW w \in Workers, Cancel(w) PROVE Goal
  BY <1>26 DEF Cancel
<1>27. ASSUME NEW p \in Processes, Crash(p) PROVE Goal
  BY <1>27 DEF Crash
<1>28. Goal
  BY <1>12, <1>20, <1>21, <1>22, <1>23, <1>24, <1>25, <1>26, <1>27 DEF Next
<1> QED
  BY <1>28 DEF Goal

\* So does the promise that there were none.
LEMMA NextQuiet ==
  StoreInv /\ TokenInv /\ QuietInv /\ FALSE \notin Rotates /\ [Next]_vars => QuietInv'
<1> SUFFICES ASSUME StoreInv, TokenInv, QuietInv, FALSE \notin Rotates, [Next]_vars,
                    faults' = 0
             PROVE  SpentIsReplaced' /\ PresentsUnspent'
  BY DEF QuietInv
<1>1. faults \in Nat
  BY StoreAssumption DEF StoreInv, TypeOK
<1>2. ~Fault
  BY <1>1 DEF Fault
<1>3. faults = 0
  BY <1>2
  DEF Next, Login, Cleanup, Call, Refresh, Cancel, RemoveProvider, AddProvider, Crash,
      Expire, vars, LoginBegin, LoginAbort, LoginStore, LoginCommit, LoginCommitFails,
      Sweep, SweepFails, SweepDone, CallBegin, Fetch, ReportMissing, Reread,
      AcquireRefresh, ReadRefreshToken, EndpointGrants, EndpointRefuses, ReturnRefused,
      RefreshFails, StoreRefreshed, Swap, SwapFails, ReleaseRefresh
<1> QED
  BY <1>2, <1>3, NextSpent DEF QuietInv

\* The inductive invariant of tokens holds where the endpoint rotates.
LEMMA TokensInvariant ==
  ASSUME FALSE \notin Rotates
  PROVE  Spec => [](StoreInv /\ TokenInv /\ QuietInv)
<1>1. Init => TokenInv /\ QuietInv
  BY DEF Init, TokenInv, TokensAreOwn, SpentWasStored, RefreshesAreLocked, InRefresh,
         QuietInv, SpentIsReplaced, PresentsUnspent
<1>2. StoreInv /\ TokenInv /\ QuietInv /\ [Next]_vars => TokenInv' /\ QuietInv'
  BY NextTokens, NextQuiet
<1> QED
  BY <1>1, <1>2, StoreInvariant, PTL DEF Spec

\* Where the endpoint rotates and nothing fails, the refresh token of a session
\* is live, or its worker is about to replace it (auth.rs:499-625).
THEOREM StoredTokensLive ==
  ASSUME FALSE \notin Rotates
  PROVE  Spec => []StoredTokenIsLive
<1>1. StoreInv /\ TokenInv /\ QuietInv => StoredTokenIsLive
  <2> SUFFICES ASSUME StoreInv, TokenInv, QuietInv, faults = 0, NEW s \in sessions,
                      spent[token[s.secret]] # {}
               PROVE  \E w \in Workers : /\ stage[w] \in {"received", "swapping"}
                                         /\ snap[w].secret = s.secret
    BY DEF StoredTokenIsLive
  <2>1. token[s.secret] = s.secret
    BY RowsAreKnown DEF TokenInv, TokensAreOwn
  <2> QED
    BY <2>1 DEF QuietInv, SpentIsReplaced
<1> QED
  BY <1>1, TokensInvariant, PTL

\* And the lock of a process keeps its tasks from presenting one refresh token
\* twice (auth.rs:498).
THEOREM NoReplays ==
  ASSUME FALSE \notin Rotates
  PROVE  Spec => []NoReplayInProcess
<1>1. StoreInv /\ TokenInv /\ QuietInv => NoReplayInProcess
  <2> SUFFICES ASSUME StoreInv, TokenInv, QuietInv, faults = 0, NEW w \in Workers,
                      stage[w] = "refused"
               PROVE  ProcessOf[w] \notin spent[token[snap[w].secret]]
    BY DEF NoReplayInProcess
  <2>1. token[snap[w].secret] = snap[w].secret
    BY DEF StoreInv, TypeOK, IdsWereDrawn, TokenInv, TokensAreOwn
  <2> QED
    BY <2>1 DEF QuietInv, PresentsUnspent
<1> QED
  BY <1>1, TokensInvariant, PTL
===============================================================================
