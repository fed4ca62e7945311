-------------------------------- MODULE Startup --------------------------------
(***************************************************************************)
(* Processes of one user starting at once, on a new or an existing         *)
(* configuration directory (main.rs): each opens metadata.db and then      *)
(* vault.db, bringing their schemas up to date (infra/db/metadata.rs,      *)
(* infra/db/vault.rs), asks whether the vault holds secrets, and loads or  *)
(* mints the vault key under a file lock (infra/crypto.rs).  A process may *)
(* be killed or meet an I/O error at any step, older and newer programs    *)
(* share the directory, and the user may lose the key file, its marker or  *)
(* the keyring entry.                                                      *)
(*                                                                         *)
(* A key is named by the process that minted it.  Directories and the      *)
(* permissions of the files are not modelled.                              *)
(***************************************************************************)
EXTENDS Integers, Sequences

CONSTANTS
  Openers,        (* processes: each starts once                            *)
  OldOpeners,     (* those of them whose program knows one version less     *)
  Nobody,         (* no process, no key                                     *)
  MetadataSteps,  (* the newest schema version of metadata.db               *)
  MaxCrashes,     (* bound on processes killed or stopped by an I/O error   *)
  MaxLosses       (* bound on files and keyring entries lost                *)

ASSUME StartupAssumption ==
  /\ OldOpeners \subseteq Openers
  /\ Nobody \notin Openers /\ "torn" \notin Openers \union {Nobody}
  /\ MetadataSteps \in Nat \ {0}

VARIABLES
  at, db,      (* where p is, and the database it opens                     *)
  seen,        (* seen[p]: the schema version in p's transaction            *)
  had,         (* had[p]: has_secrets, as p read it                         *)
  key,         (* key[p]: its VaultCrypto                                   *)
  why,         (* why[p]: the error that p's start failed with              *)
  applied,     (* applied[d]: migrations committed, in order                *)
  wal,         (* wal[d]: the journal mode of the file                      *)
  writer,      (* writer[d]: who holds SQLite's write lock                  *)
  initLock,    (* vault.lock                                                *)
  marker,      (* vault.keyring: absent, created and empty, or written      *)
  keyFile,     (* vault.key: Nobody, "torn" or a key                        *)
  entry,       (* the keyring entry: Nobody or a key                        *)
  secrets,     (* the keys that the vault's secrets are encrypted with      *)
  crashes, lost  (* history: processes killed or stopped, what was lost     *)

process == <<at, db, seen, had, key, why>>
schemas == <<applied, wal, writer>>
keys == <<marker, keyFile, entry>>
faults == <<crashes, lost>>
startupVars == <<process, schemas, initLock, keys, secrets, faults>>

Databases == {"metadata", "vault"}
Latest(p, d) ==
  IF d = "vault" THEN 1
  ELSE IF p \in OldOpeners THEN MetadataSteps - 1 ELSE MetadataSteps
Ended == {"running", "failed", "killed"}
InKeyring == {"load", "mint", "newMarker", "writeMarker"}
Locked == {"decide", "newFile", "writeFile"} \union InKeyring

StartupInit ==
  /\ at = [p \in Openers |-> "absent"]
  /\ db = [p \in Openers |-> "metadata"]
  /\ seen = [p \in Openers |-> 0]
  /\ had = [p \in Openers |-> FALSE]
  /\ key = [p \in Openers |-> Nobody]
  /\ why = [p \in Openers |-> "none"]
  /\ applied = [d \in Databases |-> << >>]
  /\ wal = [d \in Databases |-> FALSE]
  /\ writer = [d \in Databases |-> Nobody]
  /\ initLock = Nobody
  /\ marker = "absent" /\ keyFile = Nobody /\ entry = Nobody
  /\ secrets = {}
  /\ crashes = 0 /\ lost = << >>

Free(lock, p) == IF lock = p THEN Nobody ELSE lock
Move(p, stage) == at' = [at EXCEPT ![p] = stage]

\* An error ends the start; the locks go with the values that hold them.
Fail(p, reason) ==
  /\ Move(p, "failed")
  /\ why' = [why EXCEPT ![p] = reason]
  /\ writer' = [d \in Databases |-> Free(writer[d], p)]
  /\ initLock' = Free(initLock, p)
  /\ UNCHANGED <<db, seen, had, key, applied, wal, secrets, lost>>

FailWith(p, reason) == Fail(p, reason) /\ UNCHANGED <<keys, crashes>>

Spawn(p) ==
  /\ at[p] = "absent"
  /\ Move(p, "table")
  /\ UNCHANGED <<db, seen, had, key, why, schemas, initLock, keys, secrets, faults>>

-----------------------------------------------------------------------------
(* migrate, for each database in turn.                                       *)

\* CREATE TABLE IF NOT EXISTS schema_version
CreateVersionTable(p) ==
  /\ at[p] = "table" /\ writer[db[p]] = Nobody
  /\ Move(p, "journal")
  /\ UNCHANGED <<db, seen, had, key, why, schemas, initLock, keys, secrets, faults>>

EnableWal(p) ==
  /\ at[p] = "journal"
  /\ wal' = [wal EXCEPT ![db[p]] = TRUE]
  /\ Move(p, "begin")
  /\ UNCHANGED <<db, seen, had, key, why, applied, writer, initLock, keys, secrets, faults>>

\* The journal mode needs the file alone; all retries met another process that
\* initialises it.
EnableWalFails(p) ==
  /\ at[p] = "journal" /\ ~wal[db[p]]
  /\ \E q \in Openers \ {p} : db[q] = db[p] /\ at[q] \in {"table", "journal"}
  /\ FailWith(p, "busy")

\* busy_timeout runs out.
LockTimesOut(p) ==
  /\ at[p] \in {"table", "begin"} /\ writer[db[p]] \notin {Nobody, p}
  /\ FailWith(p, "busy")

\* Slip: the version is read in a transaction that does not lock the writers out.
BeginDeferred(p) ==
  /\ at[p] = "begin"
  /\ writer' = [writer EXCEPT ![db[p]] = p]
  /\ seen' = [seen EXCEPT ![p] = Len(applied[db[p]])]
  /\ Move(p, "migrate")
  /\ UNCHANGED <<db, had, key, why, applied, wal, initLock, keys, secrets, faults>>

\* BEGIN IMMEDIATE, and the version read under it
Begin(p) ==
  /\ at[p] = "begin" /\ writer[db[p]] = Nobody
  /\ writer' = [writer EXCEPT ![db[p]] = p]
  /\ seen' = [seen EXCEPT ![p] = Len(applied[db[p]])]
  /\ Move(p, "migrate")
  /\ UNCHANGED <<db, had, key, why, applied, wal, initLock, keys, secrets, faults>>

RefuseNewer(p) ==
  /\ at[p] = "migrate" /\ seen[p] > Latest(p, db[p])
  /\ FailWith(p, "newer")

\* The pending migrations, all in one transaction that a crash rolls back; the
\* version it read goes with it.
Commit(p) ==
  LET d == db[p]
      n == Latest(p, d) IN
  /\ at[p] = "migrate" /\ seen[p] <= n
  /\ applied' = [applied EXCEPT ![d] = @ \o [i \in 1..(n - seen[p]) |-> seen[p] + i]]
  /\ writer' = [writer EXCEPT ![d] = Free(@, p)]
  /\ Move(p, IF d = "metadata" THEN "table" ELSE "ask")
  /\ db' = [db EXCEPT ![p] = "vault"]
  /\ seen' = [seen EXCEPT ![p] = 0]
  /\ UNCHANGED <<had, key, why, wal, initLock, keys, secrets, faults>>

OpenDatabases(p) ==
  \/ CreateVersionTable(p) \/ EnableWal(p) \/ EnableWalFails(p) \/ LockTimesOut(p)
  \/ Begin(p) \/ RefuseNewer(p) \/ Commit(p)

-----------------------------------------------------------------------------
(* load_or_create_preferred_for_vault.                                       *)

\* main.rs asks before the initialisation lock is taken.
AskForSecrets(p) ==
  /\ at[p] = "ask"
  /\ had' = [had EXCEPT ![p] = secrets # {}]
  /\ Move(p, "lock")
  /\ UNCHANGED <<db, seen, key, why, schemas, initLock, keys, secrets, faults>>

\* Slip: the lock file is opened and not locked.
AcquireWithoutWaiting(p) ==
  /\ at[p] = "lock"
  /\ initLock' = p
  /\ Move(p, "decide")
  /\ UNCHANGED <<db, seen, had, key, why, schemas, keys, secrets, faults>>

AcquireInitializationLock(p) ==
  /\ at[p] = "lock" /\ initLock = Nobody
  /\ initLock' = p
  /\ Move(p, "decide")
  /\ UNCHANGED <<db, seen, had, key, why, schemas, keys, secrets, faults>>

Under(p, stage) == at[p] = stage /\ UNCHANGED <<db, seen, had, schemas, secrets, faults>>

Takes(p, k) == key' = [key EXCEPT ![p] = k]

Done(p) ==
  /\ initLock' = Free(initLock, p)
  /\ Move(p, "running")
  /\ UNCHANGED why

GoOn(p, stage) == Move(p, stage) /\ UNCHANGED <<why, initLock>>

\* A marker decides for the keyring and a key file for the file, whatever
\* the environment says now.
UseMarker(p) ==
  /\ Under(p, "decide") /\ marker = "valid"
  /\ GoOn(p, "load")
  /\ UNCHANGED <<key, keys>>

UseKeyFile(p) ==
  /\ Under(p, "decide") /\ marker = "absent" /\ keyFile \in Openers
  /\ Takes(p, keyFile) /\ Done(p)
  /\ UNCHANGED keys

\* "refusing to replace": a file that somebody has left half written.
RefuseTorn(p) ==
  /\ at[p] = "decide"
  /\ marker = "torn" \/ (marker = "absent" /\ keyFile = "torn")
  /\ FailWith(p, "torn")

\* Neither exists: API_CLI_VAULT_KEY_BACKEND=file, or the keyring first.
ForceFile(p) ==
  /\ Under(p, "decide") /\ marker = "absent" /\ keyFile = Nobody /\ ~had[p]
  /\ GoOn(p, "newFile")
  /\ UNCHANGED <<key, keys>>

PreferKeyring(p) ==
  /\ Under(p, "decide") /\ marker = "absent" /\ keyFile = Nobody
  /\ GoOn(p, "mint")
  /\ UNCHANGED <<key, keys>>

\* Any other value of that variable.
UnknownBackend(p) ==
  /\ at[p] = "decide" /\ marker = "absent" /\ keyFile = Nobody
  /\ FailWith(p, "environment")

LoadMarked(p) ==
  /\ Under(p, "load") /\ entry # Nobody
  /\ Takes(p, entry) /\ Done(p)
  /\ UNCHANGED keys

\* The keyring is out of reach, or its entry is gone.
KeyUnavailable(p) == at[p] = "load" /\ FailWith(p, "unavailable")

\* Slip: the marker is forgotten.
AdoptUnmarked(p) ==
  /\ Under(p, "mint") /\ entry # Nobody
  /\ Takes(p, entry) /\ Done(p)
  /\ UNCHANGED keys

AdoptEntry(p) ==
  /\ Under(p, "mint") /\ entry # Nobody
  /\ Takes(p, entry) /\ GoOn(p, "newMarker")
  /\ UNCHANGED keys

MintEntry(p) ==
  /\ Under(p, "mint") /\ entry = Nobody /\ ~had[p]
  /\ entry' = p
  /\ Takes(p, p) /\ GoOn(p, "newMarker")
  /\ UNCHANGED <<marker, keyFile>>

\* The keyring is out of reach or refuses the new key.
FallBack(p) ==
  /\ Under(p, "mint") /\ ~had[p]
  /\ GoOn(p, "newFile")
  /\ UNCHANGED <<key, keys>>

\* No key is to be found, and the vault holds secrets.
KeyMissing(p) ==
  /\ had[p]
  /\ at[p] = "mint" \/ (at[p] = "decide" /\ marker = "absent" /\ keyFile = Nobody)
  /\ FailWith(p, "missing")

\* Both files are made with create_new, written and synced.
CreateMarker(p) ==
  /\ Under(p, "newMarker") /\ marker = "absent"
  /\ marker' = "torn"
  /\ GoOn(p, "writeMarker")
  /\ UNCHANGED <<key, keyFile, entry>>

WriteMarker(p) ==
  /\ Under(p, "writeMarker")
  /\ marker' = "valid"
  /\ Done(p)
  /\ UNCHANGED <<key, keyFile, entry>>

CreateKeyFile(p) ==
  /\ Under(p, "newFile") /\ keyFile = Nobody
  /\ keyFile' = "torn"
  /\ GoOn(p, "writeFile")
  /\ UNCHANGED <<key, marker, entry>>

WriteKeyFile(p) ==
  /\ Under(p, "writeFile")
  /\ keyFile' = p
  /\ Takes(p, p) /\ Done(p)
  /\ UNCHANGED <<marker, entry>>

LoadKey(p) ==
  \/ AskForSecrets(p) \/ AcquireInitializationLock(p)
  \/ UseMarker(p) \/ UseKeyFile(p) \/ RefuseTorn(p)
  \/ ForceFile(p) \/ PreferKeyring(p) \/ UnknownBackend(p)
  \/ LoadMarked(p) \/ KeyUnavailable(p) \/ AdoptEntry(p) \/ MintEntry(p) \/ FallBack(p)
  \/ KeyMissing(p) \/ CreateMarker(p) \/ WriteMarker(p) \/ CreateKeyFile(p) \/ WriteKeyFile(p)

-----------------------------------------------------------------------------
(* Afterwards, and what may happen at any time.                              *)

\* A login encrypts a secret; a logout or a removed provider may delete the last.
UseVault(p) ==
  /\ at[p] = "running"
  /\ secrets' \in {secrets \union {key[p]}, {}}
  /\ UNCHANGED <<process, schemas, initLock, keys, faults>>

\* Slip: the lock is a file that exists, and stays.
CrashKeepsLock(p) ==
  /\ at[p] \notin Ended \union {"absent"} /\ crashes < MaxCrashes
  /\ Move(p, "killed")
  /\ crashes' = crashes + 1
  /\ writer' = [d \in Databases |-> Free(writer[d], p)]
  /\ UNCHANGED <<db, seen, had, key, why, applied, wal, initLock, keys, secrets, lost>>

\* SQLite rolls the transaction back, the system frees the file lock.
StartKilled(p) ==
  /\ at[p] \notin Ended \union {"absent"} /\ crashes < MaxCrashes
  /\ Move(p, "killed")
  /\ crashes' = crashes + 1
  /\ writer' = [d \in Databases |-> Free(writer[d], p)]
  /\ initLock' = Free(initLock, p)
  /\ UNCHANGED <<db, seen, had, key, why, applied, wal, keys, secrets, lost>>

Interrupted(p) ==
  /\ at[p] \notin Ended \union {"absent"} /\ crashes < MaxCrashes
  /\ crashes' = crashes + 1
  /\ Fail(p, "io")

\* write_all fails and leaves the file short, or sync_all fails and it is whole.
FileWriteFails(p) ==
  /\ Interrupted(p)
  /\ \/ /\ at[p] = "writeMarker" /\ marker' \in {"torn", "valid"}
        /\ UNCHANGED keyFile
     \/ /\ at[p] = "writeFile" /\ keyFile' \in {"torn", p}
        /\ UNCHANGED marker
  /\ UNCHANGED entry

\* Any other read, creation or statement meets an error; SQLite rolls the
\* transaction back.  The keyring's own errors are KeyUnavailable and FallBack.
DiskFails(p) ==
  /\ at[p] \notin {"load", "mint", "writeMarker", "writeFile"}
  /\ Interrupted(p)
  /\ UNCHANGED keys

Loses(what) ==
  /\ lost' = Append(lost, what) /\ Len(lost) < MaxLosses
  /\ UNCHANGED <<process, schemas, initLock, secrets, crashes>>

LoseKeyFile ==
  /\ keyFile \in Openers /\ keyFile' = Nobody
  /\ Loses("file") /\ UNCHANGED <<marker, entry>>

LoseMarker ==
  /\ marker = "valid" /\ marker' = "absent"
  /\ Loses("marker") /\ UNCHANGED <<keyFile, entry>>

LoseEntry ==
  /\ entry # Nobody /\ entry' = Nobody
  /\ Loses("entry") /\ UNCHANGED <<marker, keyFile>>

Start(p) == OpenDatabases(p) \/ LoadKey(p)

StartupNext ==
  \/ \E p \in Openers : \/ Spawn(p) \/ Start(p) \/ UseVault(p)
                       \/ StartKilled(p) \/ FileWriteFails(p) \/ DiskFails(p)
  \/ LoseKeyFile \/ LoseMarker \/ LoseEntry

\* The system runs every process that is not waiting for a lock.
StartupFairness == \A p \in Openers : WF_startupVars(Start(p))

StartupSpec == StartupInit /\ [][StartupNext]_startupVars /\ StartupFairness

-----------------------------------------------------------------------------
(* Properties.                                                               *)

\* The type invariant: the locks are held exactly where the code holds them.
StartupTypeOK ==
  /\ key \in [Openers -> Openers \union {Nobody}]
  /\ marker \in {"absent", "torn", "valid"}
  /\ keyFile \in Openers \union {Nobody, "torn"}
  /\ entry \in Openers \union {Nobody}
  /\ secrets \subseteq Openers
  /\ \A p \in Openers :
       /\ initLock = p <=> at[p] \in Locked
       /\ \A d \in Databases : writer[d] = p <=> (at[p] = "migrate" /\ db[p] = d)

\* However many programs open a database at once, old and new, and whoever
\* is killed: each migration is committed once and in order, and a program
\* that got past it finds the version it knows (metadata.rs:129).
SchemaInOrder ==
  /\ \A d \in Databases : \A i \in DOMAIN applied[d] : applied[d][i] = i
  /\ \A p \in Openers : at[p] \in Locked \union {"ask", "lock", "running"} =>
       \A d \in Databases : Len(applied[d]) >= Latest(p, d)

Lost(what) == \E i \in DOMAIN lost : lost[i] = what

\* As long as neither key file nor marker is lost, the running processes and
\* the stored secrets share one key, and a key that encrypts secrets is the
\* one the next start will load (crypto.rs:32).
OneVaultKey ==
  LET running == {p \in Openers : at[p] = "running"}
      used == secrets \union {key[p] : p \in running} IN
  ~Lost("file") /\ ~Lost("marker") =>
    \A k \in used :
      /\ used = {k}
      /\ marker # "valid" => keyFile = k
      /\ marker = "valid" => entry = k \/ Lost("entry")

\* A start is refused for a reason that is there: a half-written file means that
\* its writer was killed or stopped by an I/O error, never that another one is just
\* writing it (crypto.rs:116, 145); and the key of a vault with secrets is missing
\* only if its file or marker was lost.
RefusalsAreExplained ==
  \A p \in Openers :
    /\ why[p] = "torn" => \E q \in Openers : at[q] = "killed" \/ why[q] = "io"
    /\ why[p] = "missing" => Lost("file") \/ Lost("marker")
    /\ why[p] = "newer" => p \in OldOpeners

\* Every start ends: a process killed while it holds the initialisation lock
\* or SQLite's does not leave the others waiting (crypto.rs:235).  Each starts
\* once, so this says that no start goes on for ever.
StartupEnds == []<>(\A p \in Openers : at[p] \in Ended \union {"absent"})
===============================================================================
