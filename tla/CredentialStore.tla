---------------------------- MODULE CredentialStore ----------------------------
(***************************************************************************)
(* Credentials in two databases: session rows in metadata.db, which name a *)
(* secret, and the encrypted secrets in vault.db.  No transaction spans    *)
(* both, so login and OAuth refresh (app/auth.rs), provider removal        *)
(* (app/provider.rs) and the lookup of every API call (app/api.rs) are     *)
(* sequences of single-database steps that interleave freely: CLI commands *)
(* are processes, MCP calls are tasks of one process that share the        *)
(* refresh_lock.  The OAuth token endpoint is external: it may rotate the  *)
(* refresh token, after which the old one is spent.                        *)
(***************************************************************************)
EXTENDS Integers

CONSTANTS
  Workers,      (* tasks, each running one operation at a time              *)
  Operators,    (* those that log in and remove providers: CLI commands     *)
  Callers,      (* those that call APIs: CLI commands and MCP tasks         *)
  Processes,
  ProcessOf,    (* the process a worker runs in                             *)
  Accounts,     (* (provider, principal, tenant): the subject of a session  *)
  Providers,
  ProviderOf,   (* the provider of an account                               *)
  Secrets,      (* ids that Uuid::new_v4 can draw, for secrets and sessions *)
  Rotates,      (* whether a token refresh replaces the refresh token: the
                   answers the token endpoint may give                      *)
  NoSecret,
  NoSession,    (* no session row read                                      *)
  NoWorker,     (* the refresh lock is free                                 *)
  MaxFaults     (* bound on faults: errors, lost answers, cancels, crashes  *)

Expiries == {"fresh", "stale", "never"}
Sessions == [id : Secrets, account : Accounts, secret : Secrets, expiry : Expiries]

ASSUME StoreAssumption ==
  /\ Operators \subseteq Workers /\ Callers \subseteq Workers
  /\ ProcessOf \in [Workers -> Processes]
  /\ Rotates \subseteq BOOLEAN
  /\ ProviderOf \in [Accounts -> Providers]
  /\ NoSecret \notin Secrets
  /\ NoSession \notin Sessions
  /\ NoWorker \notin Workers
  /\ MaxFaults \in Nat

VARIABLES
  registered,   (* provider rows                                            *)
  sessions,     (* session rows                                             *)
  vault,        (* secret ids that vault.db holds                           *)
  used,         (* ids drawn so far                                         *)
  lineage,      (* the login a secret descends from                         *)
  token,        (* the refresh token inside a secret, named by its first secret *)
  spent,        (* spent[k]: the processes that used up refresh token k     *)
  lock,         (* refresh_lock of each process                             *)
  stage,        (* what each worker is doing                                *)
  account,      (* the account it works for                                 *)
  snap,         (* the session row it read                                  *)
  fresh,        (* the secret it has put in the vault                       *)
  doomed,       (* secrets it still has to delete                           *)
  refreshed,    (* how its token refresh ended                              *)
  faults

metadataVars == <<registered, sessions>>
vaultVars == <<vault, used, lineage, token>>
workVars == <<stage, account, snap, fresh, doomed, refreshed>>
vars == <<metadataVars, vaultVars, spent, lock, workVars, faults>>

Stages == {"idle", "authorizing", "storing", "sweeping", "locking", "reading",
           "posting", "received", "refused", "swapping", "cleaning",
           "releasing", "rereading", "fetching", "missing"}
InRefresh == {"reading", "posting", "received", "refused", "swapping",
              "cleaning", "releasing"}

TypeOK ==
  /\ registered \subseteq Providers
  /\ sessions \subseteq Sessions
  /\ used \subseteq Secrets /\ vault \subseteq used
  /\ lineage \in [Secrets -> Secrets]
  /\ token \in [Secrets -> Secrets]
  /\ spent \in [Secrets -> SUBSET Processes]
  /\ lock \in [Processes -> Workers \cup {NoWorker}]
  /\ stage \in [Workers -> Stages]
  /\ account \in [Workers -> Accounts]
  /\ snap \in [Workers -> Sessions \cup {NoSession}]
  /\ fresh \in [Workers -> Secrets \cup {NoSecret}]
  /\ doomed \in [Workers -> SUBSET Secrets]
  /\ refreshed \in [Workers -> {"ok", "lost", "failed"}]
  /\ faults \in 0..MaxFaults

Init ==
  /\ registered = Providers
  /\ sessions = {} /\ vault = {} /\ used = {}
  /\ lineage = [k \in Secrets |-> k]
  /\ token = [k \in Secrets |-> k]
  /\ spent = [k \in Secrets |-> {}]
  /\ lock = [p \in Processes |-> NoWorker]
  /\ stage = [w \in Workers |-> "idle"]
  /\ account \in [Workers -> Accounts]
  /\ snap = [w \in Workers |-> NoSession]
  /\ fresh = [w \in Workers |-> NoSecret]
  /\ doomed = [w \in Workers |-> {}]
  /\ refreshed = [w \in Workers |-> "ok"]
  /\ faults = 0

-------------------------------------------------------------------------------

GoTo(w, next) == stage' = [stage EXCEPT ![w] = next]

Fault ==
  /\ faults < MaxFaults
  /\ faults' = faults + 1

SessionsOf(a) == {s \in sessions : s.account = a}
InForce == {s.secret : s \in sessions}

\* insert_secret under a new id.
PutSecret(w, k, login, refreshToken) ==
  /\ k \notin used
  /\ used' = used \cup {k}
  /\ vault' = vault \cup {k}
  /\ lineage' = [lineage EXCEPT ![k] = login]
  /\ token' = [token EXCEPT ![k] = refreshToken]
  /\ fresh' = [fresh EXCEPT ![w] = k]

DropSecret(k) == vault' = vault \ {k}

Doom(w, ks) == doomed' = [doomed EXCEPT ![w] = ks]

-------------------------------------------------------------------------------
(* Login: AuthApp::login_api_key_for, login_oauth_pkce_for                 *)

\* get_provider, then the user types a key or authorises in a browser.
LoginBegin(w, a) ==
  /\ w \in Operators /\ stage[w] = "idle"
  /\ ProviderOf[a] \in registered
  /\ account' = [account EXCEPT ![w] = a]
  /\ GoTo(w, "authorizing")
  /\ UNCHANGED <<metadataVars, vaultVars, spent, lock, snap, fresh, doomed,
                 refreshed, faults>>

\* Callback timeout, refused authorization, failed exchange, vault error.
LoginAbort(w) ==
  /\ stage[w] = "authorizing"
  /\ GoTo(w, "idle")
  /\ UNCHANGED <<metadataVars, vaultVars, spent, lock, account, snap, fresh,
                 doomed, refreshed, faults>>

\* persist_new_session, first half: the secret goes to the vault.
LoginStore(w, k, expiry) ==
  /\ stage[w] = "authorizing"
  /\ PutSecret(w, k, k, k)
  /\ snap' = [snap EXCEPT ![w] =
       [id |-> k, account |-> account[w], secret |-> k, expiry |-> expiry]]
  /\ GoTo(w, "storing")
  /\ UNCHANGED <<metadataVars, spent, lock, account, doomed, refreshed, faults>>

\* Slip: the account's earlier rows are left in place.
LoginCommitKeepsRows(w) ==
  /\ stage[w] = "storing"
  /\ sessions' = sessions \cup {snap[w]}
  /\ GoTo(w, "sweeping")
  /\ UNCHANGED <<registered, vaultVars, spent, lock, account, snap, fresh, doomed,
                 refreshed, faults>>

\* replace_session_for_subject: one transaction installs the new row, deletes
\* the account's other rows and returns the secrets they named.
LoginCommit(w) ==
  /\ stage[w] = "storing"
  /\ LET old == SessionsOf(account[w])
     IN  /\ sessions' = (sessions \ old) \cup {snap[w]}
         /\ Doom(w, {s.secret : s \in old})
  /\ GoTo(w, "sweeping")
  /\ UNCHANGED <<registered, vaultVars, spent, lock, account, snap, fresh,
                 refreshed, faults>>

LoginCommitFails(w) ==
  /\ stage[w] = "storing"
  /\ Fault
  /\ Doom(w, {fresh[w]})
  /\ GoTo(w, "sweeping")
  /\ UNCHANGED <<metadataVars, vaultVars, spent, lock, account, snap, fresh,
                 refreshed>>

\* delete_secret for each id in turn; an error is logged and the next tried.
Sweep(w, k) ==
  /\ stage[w] \in {"sweeping", "cleaning"}
  /\ k \in doomed[w]
  /\ DropSecret(k)
  /\ Doom(w, doomed[w] \ {k})
  /\ UNCHANGED <<metadataVars, used, lineage, token, spent, lock, stage, account,
                 snap, fresh, refreshed, faults>>

SweepFails(w, k) ==
  /\ stage[w] \in {"sweeping", "cleaning"}
  /\ k \in doomed[w]
  /\ Fault
  /\ Doom(w, doomed[w] \ {k})
  /\ UNCHANGED <<metadataVars, vaultVars, spent, lock, stage, account, snap,
                 fresh, refreshed>>

SweepDone(w) ==
  /\ stage[w] \in {"sweeping", "cleaning"}
  /\ doomed[w] = {}
  /\ GoTo(w, IF stage[w] = "sweeping" THEN "idle" ELSE "releasing")
  /\ UNCHANGED <<metadataVars, vaultVars, spent, lock, account, snap, fresh,
                 doomed, refreshed, faults>>

-------------------------------------------------------------------------------
(* Providers: ProviderApp::add_provider, remove_provider                   *)

AddProvider(p) ==
  /\ p \notin registered
  /\ registered' = registered \cup {p}
  /\ UNCHANGED <<sessions, vaultVars, spent, lock, workVars, faults>>

\* delete_provider commits first, then the secrets it returned are deleted.
RemoveProvider(w, p) ==
  /\ w \in Operators /\ stage[w] = "idle"
  /\ LET gone == {s \in sessions : ProviderOf[s.account] = p}
     IN  /\ sessions' = sessions \ gone
         /\ Doom(w, {s.secret : s \in gone})
  /\ registered' = registered \ {p}
  /\ GoTo(w, "sweeping")
  /\ UNCHANGED <<vaultVars, spent, lock, account, snap, fresh, refreshed, faults>>

-------------------------------------------------------------------------------
(* API call: ApiApp::call_with_options up to the decrypted credential      *)

CallBegin(w, a, s) ==
  /\ w \in Callers /\ stage[w] = "idle"
  /\ ProviderOf[a] \in registered
  /\ s \in SessionsOf(a)
  /\ account' = [account EXCEPT ![w] = a]
  /\ snap' = [snap EXCEPT ![w] = s]
  /\ GoTo(w, IF s.expiry = "stale" THEN "locking" ELSE "fetching")
  /\ UNCHANGED <<metadataVars, vaultVars, spent, lock, fresh, doomed, refreshed,
                 faults>>

\* get_secret and decrypt; the row read may have been superseded meanwhile.
Fetch(w) ==
  /\ stage[w] = "fetching"
  /\ GoTo(w, IF snap[w].secret \in vault THEN "idle" ELSE "missing")
  /\ UNCHANGED <<metadataVars, vaultVars, spent, lock, account, snap, fresh,
                 doomed, refreshed, faults>>

\* The call returns VaultError("Secret not found").
ReportMissing(w) ==
  /\ stage[w] = "missing"
  /\ GoTo(w, "idle")
  /\ UNCHANGED <<metadataVars, vaultVars, spent, lock, account, snap, fresh,
                 doomed, refreshed, faults>>

-------------------------------------------------------------------------------
(* AuthApp::refresh_oauth_token_for, under the lock of its process         *)

EndRefresh(w, how) ==
  /\ refreshed' = [refreshed EXCEPT ![w] = how]
  /\ GoTo(w, "releasing")

\* Slip: the refresh does not wait for the lock.
AcquireRefreshUnlocked(w) ==
  /\ stage[w] = "locking"
  /\ \E s \in SessionsOf(account[w]) :
       /\ snap' = [snap EXCEPT ![w] = s]
       /\ IF s.expiry = "fresh" THEN EndRefresh(w, "ok")
          ELSE GoTo(w, "reading") /\ UNCHANGED refreshed
  /\ UNCHANGED <<metadataVars, vaultVars, spent, lock, account, fresh, doomed, faults>>

\* Lock, read provider and session again; another task may have refreshed.
\* A session that never expires is not skipped.
AcquireRefresh(w) ==
  /\ stage[w] = "locking"
  /\ lock[ProcessOf[w]] = NoWorker
  /\ lock' = [lock EXCEPT ![ProcessOf[w]] = w]
  /\ \/ /\ ProviderOf[account[w]] \notin registered \/ SessionsOf(account[w]) = {}
        /\ EndRefresh(w, "failed")
        /\ UNCHANGED snap
     \/ /\ ProviderOf[account[w]] \in registered
        /\ \E s \in SessionsOf(account[w]) :
             /\ snap' = [snap EXCEPT ![w] = s]
             /\ IF s.expiry = "fresh" THEN EndRefresh(w, "ok")
                ELSE GoTo(w, "reading") /\ UNCHANGED refreshed
  /\ UNCHANGED <<metadataVars, vaultVars, spent, account, fresh, doomed, faults>>

\* The refresh token comes out of the vault, if it is still there.
ReadRefreshToken(w) ==
  /\ stage[w] = "reading"
  /\ IF snap[w].secret \in vault
     THEN GoTo(w, "posting") /\ UNCHANGED refreshed
     ELSE EndRefresh(w, "failed")
  /\ UNCHANGED <<metadataVars, vaultVars, spent, lock, account, snap, fresh,
                 doomed, faults>>

\* External: the token endpoint grants a live refresh token once if it
\* rotates, any number of times if it does not, and refuses a spent one.
EndpointGrants(w, rotates) ==
  LET k == token[snap[w].secret]
  IN  /\ stage[w] = "posting"
      /\ spent[k] = {}
      /\ spent' = IF rotates THEN [spent EXCEPT ![k] = {ProcessOf[w]}] ELSE spent
      /\ GoTo(w, "received")
      /\ UNCHANGED <<metadataVars, vaultVars, lock, account, snap, fresh, doomed,
                     refreshed, faults>>

EndpointRefuses(w) ==
  /\ stage[w] = "posting"
  /\ spent[token[snap[w].secret]] # {}
  /\ GoTo(w, "refused")
  /\ UNCHANGED <<metadataVars, vaultVars, spent, lock, account, snap, fresh,
                 doomed, refreshed, faults>>

ReturnRefused(w) ==
  /\ stage[w] = "refused"
  /\ EndRefresh(w, "failed")
  /\ UNCHANGED <<metadataVars, vaultVars, spent, lock, account, snap, fresh,
                 doomed, faults>>

\* The answer is lost or malformed, or the vault rejects the new secret.
RefreshFails(w) ==
  /\ stage[w] \in {"posting", "received"}
  /\ Fault
  /\ EndRefresh(w, "failed")
  /\ UNCHANGED <<metadataVars, vaultVars, spent, lock, account, snap, fresh, doomed>>

\* Slip: the returned refresh token is not looked at.
StoreRefreshedOldToken(w, k) ==
  LET old == snap[w].secret
  IN  /\ stage[w] = "received"
      /\ PutSecret(w, k, lineage[old], token[old])
      /\ GoTo(w, "swapping")
      /\ UNCHANGED <<metadataVars, spent, lock, account, snap, doomed, refreshed,
                     faults>>

\* Slip: the new secret takes the place of the old one before the row is swapped.
StoreRefreshedInPlace(w, k) ==
  LET old == snap[w].secret
  IN  /\ stage[w] = "received"
      /\ k \notin used
      /\ used' = used \cup {k}
      /\ vault' = (vault \cup {k}) \ {old}
      /\ lineage' = [lineage EXCEPT ![k] = lineage[old]]
      /\ token' = [token EXCEPT ![k] = k]
      /\ fresh' = [fresh EXCEPT ![w] = k]
      /\ GoTo(w, "swapping")
      /\ UNCHANGED <<metadataVars, spent, lock, account, snap, doomed, refreshed,
                     faults>>

\* insert_secret with the returned refresh token, or the old one when the
\* endpoint returned none.
StoreRefreshed(w, k) ==
  LET old == snap[w].secret
  IN  /\ stage[w] = "received"
      /\ PutSecret(w, k, lineage[old],
                   IF ProcessOf[w] \in spent[token[old]] THEN k ELSE token[old])
      /\ GoTo(w, "swapping")
      /\ UNCHANGED <<metadataVars, spent, lock, account, snap, doomed, refreshed,
                     faults>>

\* Slip: the row is found by its account.
CurrentByAccount(w) == SessionsOf(account[w])

\* The row that update_session_if_secret_is_current would replace.
Current(w) == {s \in sessions : s.id = snap[w].id /\ s.secret = snap[w].secret}

\* Slip: the row is updated without the id of the new secret.
SwapForgetsSecret(w, expiry) ==
  /\ stage[w] = "swapping"
  /\ sessions' = (sessions \ Current(w)) \cup
       {[s EXCEPT !.secret = NoSecret, !.expiry = expiry] : s \in Current(w)}
  /\ GoTo(w, "cleaning")
  /\ UNCHANGED <<registered, vaultVars, spent, lock, account, snap, fresh, doomed,
                 refreshed, faults>>

\* Slip: the loser leaves the secret it has stored.
SwapLoserKeepsSecret(w, expiry) ==
  /\ stage[w] = "swapping"
  /\ sessions' = (sessions \ Current(w)) \cup
       {[s EXCEPT !.secret = fresh[w], !.expiry = expiry] : s \in Current(w)}
  /\ Doom(w, IF Current(w) # {} THEN {snap[w].secret} ELSE {})
  /\ GoTo(w, "cleaning")
  /\ UNCHANGED <<registered, vaultVars, spent, lock, account, snap, fresh,
                 refreshed, faults>>

\* Slip: the loser deletes the secret it lost against.
SwapLoserDeletesWinner(w, expiry) ==
  /\ stage[w] = "swapping"
  /\ sessions' = (sessions \ Current(w)) \cup
       {[s EXCEPT !.secret = fresh[w], !.expiry = expiry] : s \in Current(w)}
  /\ Doom(w, IF Current(w) # {} THEN {snap[w].secret}
             ELSE {s.secret : s \in SessionsOf(account[w])})
  /\ GoTo(w, "cleaning")
  /\ UNCHANGED <<registered, vaultVars, spent, lock, account, snap, fresh,
                 refreshed, faults>>

\* Compare-and-swap of the session row; the loser deletes its own secret.
Swap(w, expiry) ==
  /\ stage[w] = "swapping"
  /\ sessions' = (sessions \ Current(w)) \cup
       {[s EXCEPT !.secret = fresh[w], !.expiry = expiry] : s \in Current(w)}
  /\ IF Current(w) # {}
     THEN /\ Doom(w, {snap[w].secret})
          /\ refreshed' = [refreshed EXCEPT ![w] = "ok"]
     ELSE /\ Doom(w, {fresh[w]})
          /\ refreshed' = [refreshed EXCEPT ![w] = "lost"]
  /\ GoTo(w, "cleaning")
  /\ UNCHANGED <<registered, vaultVars, spent, lock, account, snap, fresh, faults>>

SwapFails(w) ==
  /\ stage[w] = "swapping"
  /\ Fault
  /\ Doom(w, {fresh[w]})
  /\ refreshed' = [refreshed EXCEPT ![w] = "failed"]
  /\ GoTo(w, "cleaning")
  /\ UNCHANGED <<metadataVars, vaultVars, spent, lock, account, snap, fresh>>

\* The guard is dropped.  A lost race counts as success when the account has
\* another secret by now.
ReleaseRefresh(w) ==
  /\ stage[w] = "releasing"
  /\ lock' = [lock EXCEPT ![ProcessOf[w]] = NoWorker]
  /\ refreshed' = [refreshed EXCEPT ![w] =
       IF @ = "lost"
       THEN IF \E s \in SessionsOf(account[w]) : s.secret # snap[w].secret
            THEN "ok" ELSE "failed"
       ELSE @]
  /\ GoTo(w, "rereading")
  /\ UNCHANGED <<metadataVars, vaultVars, spent, account, snap, fresh, doomed, faults>>

\* call_with_options reads the session again: AuthRequired without one,
\* AuthExpired when the refresh failed and the row is not freshly dated.
Reread(w) ==
  /\ stage[w] = "rereading"
  /\ \/ /\ SessionsOf(account[w]) = {}
        /\ GoTo(w, "idle") /\ UNCHANGED snap
     \/ \E s \in SessionsOf(account[w]) :
          /\ snap' = [snap EXCEPT ![w] = s]
          /\ GoTo(w, IF refreshed[w] = "failed" /\ s.expiry # "fresh"
                     THEN "idle" ELSE "fetching")
  /\ UNCHANGED <<metadataVars, vaultVars, spent, lock, account, fresh, doomed,
                 refreshed, faults>>

-------------------------------------------------------------------------------
(* Environment                                                             *)

\* Time passes: an access token is within 30 seconds of its expiry.
Expire(s) ==
  /\ s \in sessions /\ s.expiry = "fresh"
  /\ sessions' = (sessions \ {s}) \cup {[s EXCEPT !.expiry = "stale"]}
  /\ UNCHANGED <<registered, vaultVars, spent, lock, workVars, faults>>

\* A task is dropped at an await: waiting for the user, the lock, the endpoint.
Cancel(w) ==
  /\ stage[w] \in {"authorizing", "locking", "posting", "received"}
  /\ Fault
  /\ GoTo(w, "idle")
  /\ lock' = [p \in Processes |-> IF lock[p] = w THEN NoWorker ELSE lock[p]]
  /\ UNCHANGED <<metadataVars, vaultVars, spent, account, snap, fresh, doomed, refreshed>>

\* A process is killed between any two steps of its workers.
Crash(p) ==
  /\ Fault
  /\ \E w \in Workers : ProcessOf[w] = p /\ stage[w] # "idle"
  /\ stage' = [w \in Workers |-> IF ProcessOf[w] = p THEN "idle" ELSE stage[w]]
  /\ doomed' = [w \in Workers |-> IF ProcessOf[w] = p THEN {} ELSE doomed[w]]
  /\ lock' = [lock EXCEPT ![p] = NoWorker]
  /\ UNCHANGED <<metadataVars, vaultVars, spent, account, snap, fresh, refreshed>>

-------------------------------------------------------------------------------

Login(w) ==
  \/ \E a \in Accounts : LoginBegin(w, a)
  \/ LoginAbort(w) \/ LoginCommit(w) \/ LoginCommitFails(w)
  \/ \E k \in Secrets, e \in {"fresh", "never"} : LoginStore(w, k, e)

Cleanup(w) ==
  \/ \E k \in Secrets : Sweep(w, k) \/ SweepFails(w, k)
  \/ SweepDone(w)

Call(w) ==
  \/ \E a \in Accounts, s \in sessions : CallBegin(w, a, s)
  \/ Fetch(w) \/ ReportMissing(w) \/ Reread(w)

Refresh(w) ==
  \/ AcquireRefresh(w) \/ ReadRefreshToken(w)
  \/ \E rotates \in Rotates : EndpointGrants(w, rotates)
  \/ EndpointRefuses(w) \/ ReturnRefused(w) \/ RefreshFails(w)
  \/ \E k \in Secrets : StoreRefreshed(w, k)
  \/ \E e \in {"fresh", "never"} : Swap(w, e)
  \/ SwapFails(w) \/ ReleaseRefresh(w)

Next ==
  \/ \E w \in Workers : Login(w) \/ Cleanup(w) \/ Call(w) \/ Refresh(w) \/ Cancel(w)
  \/ \E w \in Workers, p \in Providers : RemoveProvider(w, p)
  \/ \E p \in Providers : AddProvider(p)
  \/ \E p \in Processes : Crash(p)
  \/ \E s \in sessions : Expire(s)

Spec == Init /\ [][Next]_vars
-------------------------------------------------------------------------------
(* Safety                                                                  *)

\* Whatever interleaves, fails or is killed between the two databases, every
\* session row names a secret that the vault still holds.
NoDanglingSession == \A s \in sessions : s.secret \in vault

\* An account has one session row, and no two rows share a secret: deleting a
\* superseded secret can never take the credential of another session.
OneSessionPerAccount ==
  \A s, t \in sessions : s.account = t.account \/ s.secret = t.secret => s = t

\* A refresh never overwrites a newer login: the secret of a session always
\* descends from the login that created the row.
SessionKeepsItsLogin == \A s \in sessions : lineage[s.secret] = s.id

\* "Secret not found" is only ever reported for a row that has been superseded
\* since it was read.
MissingOnlyWhenSuperseded ==
  \A w \in Workers : stage[w] = "missing" => snap[w].secret \notin InForce

\* Without faults nothing is left behind: when all is quiet the vault holds
\* the secrets of the session rows and no others.
NoOrphanSecret ==
  faults = 0 /\ (\A w \in Workers : stage[w] = "idle") => vault = InForce

\* With a rotating endpoint and no faults, a session whose refresh token is
\* spent is about to be replaced by whoever spent it.
StoredTokenIsLive ==
  faults = 0 =>
    \A s \in sessions :
      spent[token[s.secret]] # {} =>
        \E w \in Workers :
          /\ stage[w] \in {"received", "swapping"}
          /\ snap[w].secret = s.secret

\* Two tasks of one process never present the same refresh token twice: the
\* second one waits for the lock and sees the new session.
NoReplayInProcess ==
  faults = 0 =>
    \A w \in Workers :
      stage[w] = "refused" => ProcessOf[w] \notin spent[token[snap[w].secret]]

-------------------------------------------------------------------------------
(* What the documents claim and the code does not do                       *)

\* "removing a provider revokes its sessions": no session row outlives the
\* provider it belongs to.
SessionHasProvider == \A s \in sessions : ProviderOf[s.account] \in registered
===============================================================================
