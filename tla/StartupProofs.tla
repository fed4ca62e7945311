------------------------------ MODULE StartupProofs ------------------------------
(***************************************************************************)
(* What holds of Startup for any number of processes, migrations, killed   *)
(* processes, I/O errors and losses.                                                   *)
(***************************************************************************)
EXTENDS Startup, SequenceTheorems, TLAPS

Stages == Ended \union Locked \union {"absent", "table", "journal", "begin", "migrate",
                                      "ask", "lock"}

Reasons == {"none", "busy", "newer", "torn", "environment", "unavailable", "missing",
            "io"}

\* Every variable is in its domain, and each lock is where its holder says.
Shape ==
  /\ at \in [Openers -> Stages] /\ db \in [Openers -> Databases]
  /\ seen \in [Openers -> Nat] /\ had \in [Openers -> BOOLEAN]
  /\ why \in [Openers -> Reasons]
  /\ applied \in [Databases -> Seq(Nat)]
  /\ writer \in [Databases -> Openers \union {Nobody}]
  /\ initLock \in Openers \union {Nobody}
  /\ crashes \in Nat /\ lost \in Seq({"file", "marker", "entry"})
  /\ StartupTypeOK
  /\ \A p \in Openers :
       at[p] \in {"newMarker", "writeMarker", "running"} => key[p] \in Openers

USE DEF Databases, Ended, InKeyring, Locked

-------------------------------------------------------------------------------
(* Types and locks                                                         *)

LEMMA InitShape == StartupInit => Shape
  BY StartupAssumption DEF StartupInit, Shape, StartupTypeOK, Stages, Reasons

Pending(p) == [i \in 1..(Latest(p, db[p]) - seen[p]) |-> seen[p] + i]

\* What Commit appends.
LEMMA PendingSteps ==
  ASSUME Shape, NEW p \in Openers, seen[p] <= Latest(p, db[p])
  PROVE  /\ Latest(p, db[p]) \in Nat
         /\ Pending(p) \in Seq(Nat)
         /\ Len(Pending(p)) = Latest(p, db[p]) - seen[p]
         /\ \A i \in 1..Len(Pending(p)) : Pending(p)[i] = seen[p] + i
<1>1. Latest(p, db[p]) \in Nat
  BY StartupAssumption DEF Shape, Latest
<1>2. seen[p] \in Nat
  BY DEF Shape
<1> QED
  BY <1>1, <1>2 DEF Pending

LEMMA CommitShape ==
  ASSUME Shape, NEW p \in Openers, Commit(p)
  PROVE  Shape'
<1> USE StartupAssumption DEF Shape, StartupTypeOK, Stages, Reasons, Move, Free, keys, faults
<1>1. /\ db[p] \in Databases
      /\ applied' = [applied EXCEPT ![db[p]] = @ \o Pending(p)]
      /\ Pending(p) \in Seq(Nat)
  BY PendingSteps DEF Commit, Pending
<1>2. applied' \in [Databases -> Seq(Nat)]
  BY <1>1, SMT
<1>3. /\ at' = [at EXCEPT ![p] = IF db[p] = "metadata" THEN "table" ELSE "ask"]
      /\ db' = [db EXCEPT ![p] = "vault"] /\ at[p] = "migrate"
      /\ writer' = [writer EXCEPT ![db[p]] = Free(@, p)]
      /\ seen' = [seen EXCEPT ![p] = 0]
      /\ UNCHANGED <<had, key, why, wal, initLock, marker, keyFile, entry, secrets, crashes,
                     lost>>
  BY DEF Commit
<1>4. ASSUME NEW q \in Openers, NEW d \in Databases
      PROVE  writer'[d] = q <=> (at'[q] = "migrate" /\ db'[q] = d)
  BY <1>3, <1>4
<1>5. at' \in [Openers -> Stages] /\ db' \in [Openers -> Databases]
      /\ writer' \in [Databases -> Openers \union {Nobody}]
  BY <1>3
<1>6. ASSUME NEW q \in Openers
      PROVE  /\ initLock' = q <=> at'[q] \in Locked
             /\ at'[q] \in {"newMarker", "writeMarker", "running"} => key'[q] \in Openers
  BY <1>3
<1> QED
  BY <1>2, <1>3, <1>4, <1>5, <1>6

LEMMA FailShape ==
  ASSUME Shape, NEW p \in Openers, NEW reason \in Reasons, Fail(p, reason),
         at[p] # "absent", crashes' \in Nat,
         marker' \in {"absent", "torn", "valid"}, keyFile' \in Openers \union {Nobody, "torn"},
         UNCHANGED entry
  PROVE  Shape'
<1> USE StartupAssumption
    DEF Shape, StartupTypeOK, Stages, Reasons, Move, Free, Fail, keys, faults
<1>1. /\ at' \in [Openers -> Stages] /\ why' \in [Openers -> Reasons]
      /\ writer' \in [Databases -> Openers \union {Nobody}]
      /\ initLock' \in Openers \union {Nobody}
  OBVIOUS
<1>2. ASSUME NEW q \in Openers PROVE initLock' = q <=> at'[q] \in Locked
  BY Zenon, <1>2
<1>3. ASSUME NEW q \in Openers, NEW d \in Databases
      PROVE  writer'[d] = q <=> (at'[q] = "migrate" /\ db'[q] = d)
  BY <1>3
<1> QED
  BY <1>1, <1>2, <1>3

LEMMA FailWithShape ==
  ASSUME Shape, NEW p \in Openers, NEW reason \in Reasons, FailWith(p, reason),
         at[p] # "absent"
  PROVE  Shape'
<1>1. /\ Fail(p, reason) /\ UNCHANGED <<marker, keyFile, entry, crashes>>
  BY DEF FailWith, keys
<1>2. /\ crashes \in Nat /\ marker \in {"absent", "torn", "valid"}
      /\ keyFile \in Openers \union {Nobody, "torn"}
  BY DEF Shape, StartupTypeOK
<1> QED
  BY <1>1, <1>2, FailShape

\* What an I/O error leaves of the two files.
LEMMA InterruptedFiles ==
  ASSUME Shape, NEW p \in Openers, FileWriteFails(p) \/ DiskFails(p)
  PROVE  /\ Fail(p, "io") /\ UNCHANGED entry
         /\ at[p] \notin Ended \union {"absent"}
         /\ crashes' \in Nat
         /\ \/ UNCHANGED <<marker, keyFile>>
            \/ at[p] = "writeMarker" /\ marker' \in {"torn", "valid"} /\ UNCHANGED keyFile
            \/ at[p] = "writeFile" /\ keyFile' \in {"torn", p} /\ UNCHANGED marker
  BY DEF Shape, FileWriteFails, DiskFails, Interrupted, keys

LEMMA InterruptedShape ==
  ASSUME Shape, NEW p \in Openers, FileWriteFails(p) \/ DiskFails(p) PROVE Shape'
<1>1. /\ Fail(p, "io") /\ UNCHANGED entry /\ crashes' \in Nat /\ at[p] # "absent"
      /\ marker' \in {"absent", "torn", "valid"}
      /\ keyFile' \in Openers \union {Nobody, "torn"}
  <2>1. /\ marker \in {"absent", "torn", "valid"}
        /\ keyFile \in Openers \union {Nobody, "torn"}
    BY DEF Shape, StartupTypeOK
  <2> QED
    BY <2>1, InterruptedFiles
<1>2. "io" \in Reasons
  BY DEF Reasons
<1> QED
  BY <1>1, <1>2, FailShape

LEMMA NextShape == ASSUME Shape, [StartupNext]_startupVars PROVE Shape'
<1> USE StartupAssumption
    DEF Shape, StartupTypeOK, Stages, Reasons, Move, Free, Under, Takes, Done, GoOn,
        process, schemas, keys, faults
<1>1. ASSUME NEW p \in Openers, Spawn(p) PROVE Shape'
  BY <1>1 DEF Spawn
<1>2. ASSUME NEW p \in Openers, CreateVersionTable(p) PROVE Shape'
  BY <1>2 DEF CreateVersionTable
<1>3. ASSUME NEW p \in Openers, EnableWal(p) PROVE Shape'
  BY <1>3 DEF EnableWal
<1>4. ASSUME NEW p \in Openers, EnableWalFails(p) PROVE Shape'
  BY <1>4, FailWithShape DEF EnableWalFails
<1>5. ASSUME NEW p \in Openers, LockTimesOut(p) PROVE Shape'
  BY <1>5, FailWithShape DEF LockTimesOut
<1>6. ASSUME NEW p \in Openers, Begin(p) PROVE Shape'
  BY <1>6 DEF Begin
<1>7. ASSUME NEW p \in Openers, RefuseNewer(p) PROVE Shape'
  BY <1>7, FailWithShape DEF RefuseNewer
<1>8. ASSUME NEW p \in Openers, Commit(p) PROVE Shape'
  BY <1>8, CommitShape
<1>9. ASSUME NEW p \in Openers, AskForSecrets(p) PROVE Shape'
  BY <1>9 DEF AskForSecrets
<1>10. ASSUME NEW p \in Openers, AcquireInitializationLock(p) PROVE Shape'
  BY <1>10 DEF AcquireInitializationLock
<1>11. ASSUME NEW p \in Openers, UseMarker(p) PROVE Shape'
  BY <1>11 DEF UseMarker
<1>12. ASSUME NEW p \in Openers, UseKeyFile(p) PROVE Shape'
  BY <1>12 DEF UseKeyFile
<1>13. ASSUME NEW p \in Openers, RefuseTorn(p) PROVE Shape'
  BY <1>13, FailWithShape DEF RefuseTorn
<1>14. ASSUME NEW p \in Openers, ForceFile(p) PROVE Shape'
  BY <1>14 DEF ForceFile
<1>15. ASSUME NEW p \in Openers, PreferKeyring(p) PROVE Shape'
  BY <1>15 DEF PreferKeyring
<1>16. ASSUME NEW p \in Openers, UnknownBackend(p) PROVE Shape'
  BY <1>16, FailWithShape DEF UnknownBackend
<1>17. ASSUME NEW p \in Openers, LoadMarked(p) PROVE Shape'
  BY <1>17 DEF LoadMarked
<1>18. ASSUME NEW p \in Openers, KeyUnavailable(p) PROVE Shape'
  BY <1>18, FailWithShape DEF KeyUnavailable
<1>19. ASSUME NEW p \in Openers, AdoptEntry(p) PROVE Shape'
  BY <1>19 DEF AdoptEntry
<1>20. ASSUME NEW p \in Openers, MintEntry(p) PROVE Shape'
  BY <1>20 DEF MintEntry
<1>21. ASSUME NEW p \in Openers, FallBack(p) PROVE Shape'
  BY <1>21 DEF FallBack
<1>22. ASSUME NEW p \in Openers, KeyMissing(p) PROVE Shape'
  BY <1>22, FailWithShape DEF KeyMissing
<1>23. ASSUME NEW p \in Openers, CreateMarker(p) PROVE Shape'
  BY <1>23 DEF CreateMarker
<1>24. ASSUME NEW p \in Openers, WriteMarker(p) PROVE Shape'
  BY <1>24 DEF WriteMarker
<1>25. ASSUME NEW p \in Openers, CreateKeyFile(p) PROVE Shape'
  BY <1>25 DEF CreateKeyFile
<1>26. ASSUME NEW p \in Openers, WriteKeyFile(p) PROVE Shape'
  BY <1>26 DEF WriteKeyFile
<1>27. ASSUME NEW p \in Openers, UseVault(p) PROVE Shape'
  BY <1>27 DEF UseVault
<1>28. ASSUME NEW p \in Openers, StartKilled(p) PROVE Shape'
  BY <1>28 DEF StartKilled
<1>29. ASSUME LoseKeyFile PROVE Shape'
  BY <1>29 DEF LoseKeyFile, Loses
<1>30. ASSUME LoseMarker PROVE Shape'
  BY <1>30 DEF LoseMarker, Loses
<1>31. ASSUME LoseEntry PROVE Shape'
  BY <1>31 DEF LoseEntry, Loses
<1>32. ASSUME UNCHANGED startupVars PROVE Shape'
  BY <1>32 DEF startupVars
<1> HIDE DEF Shape
<1>33. ASSUME NEW p \in Openers, OpenDatabases(p) PROVE Shape'
  BY <1>2, <1>3, <1>4, <1>5, <1>6, <1>7, <1>8, <1>33 DEF OpenDatabases
<1>34. ASSUME NEW p \in Openers, LoadKey(p) PROVE Shape'
  BY <1>9, <1>10, <1>11, <1>12, <1>13, <1>14, <1>15, <1>16, <1>17, <1>18, <1>19, <1>20,
     <1>21, <1>22, <1>23, <1>24, <1>25, <1>26, <1>34 DEF LoadKey
<1> QED
  BY <1>1, <1>27, <1>28, <1>29, <1>30, <1>31, <1>32, <1>33, <1>34, InterruptedShape
  DEF StartupNext, Start

\* The locks are held exactly where the code holds them, and a key is what some
\* process minted, for any number of processes (crypto.rs:32).
THEOREM StartupTypes == StartupSpec => []StartupTypeOK
<1>1. Shape => StartupTypeOK
  BY DEF Shape
<1> QED
  BY InitShape, NextShape, <1>1, PTL DEF StartupSpec

LEMMA OneHolder ==
  ASSUME Shape, NEW p \in Openers, NEW q \in Openers, at[p] \in Locked, at[q] \in Locked
  PROVE  p = q
  BY DEF Shape, StartupTypeOK

-------------------------------------------------------------------------------
(* The schemas                                                             *)

Past(p, d) == \/ at[p] \in Locked \union {"ask", "lock", "running"}
              \/ d = "metadata" /\ db[p] = "vault"

Newest(d) == IF d = "vault" THEN 1 ELSE MetadataSteps

\* What is committed is a prefix of the migrations, the open transaction has
\* read how long it is, and who is past a database knows no more than it.
Schema ==
  /\ \A d \in Databases :
       /\ Len(applied[d]) <= Newest(d)
       /\ \A i \in 1..Len(applied[d]) : applied[d][i] = i
  /\ \A p \in Openers : at[p] = "migrate" => seen[p] = Len(applied[db[p]])
  /\ \A p \in Openers, d \in Databases : Past(p, d) => Len(applied[d]) >= Latest(p, d)

\* A step that leaves the databases alone and takes nobody past one.
SchemaFrame ==
  /\ UNCHANGED <<applied, db, seen>>
  /\ \A q \in Openers :
       /\ at'[q] = "migrate" => at[q] = "migrate"
       /\ \A d \in Databases : Past(q, d)' => Past(q, d)

LEMMA SchemaUnderFrame == ASSUME Schema, SchemaFrame PROVE Schema'
  BY DEF Schema, SchemaFrame, Newest, Latest

LEMMA FailSchema ==
  ASSUME Shape, Schema, NEW p \in Openers, NEW reason \in Reasons, Fail(p, reason)
  PROVE  Schema'
<1>1. SchemaFrame
  BY DEF Fail, Move, Shape, SchemaFrame, Past
<1> QED
  BY <1>1, SchemaUnderFrame

LEMMA BeginSchema ==
  ASSUME Shape, Schema, NEW p \in Openers, Begin(p) PROVE Schema'
  BY DEF Begin, Move, Shape, Schema, Past, Newest, Latest

LEMMA CommitSchema ==
  ASSUME Shape, Schema, NEW p \in Openers, Commit(p) PROVE Schema'
<1> DEFINE c == db[p]  n == Latest(p, c)
<1>1. /\ c \in Databases /\ at[p] = "migrate" /\ seen[p] = Len(applied[c])
      /\ seen[p] <= n /\ n \in Nat /\ n <= Newest(c) /\ applied[c] \in Seq(Nat)
  BY StartupAssumption DEF Commit, Shape, Schema, Latest, Newest
<1>2. /\ applied' = [applied EXCEPT ![c] = @ \o Pending(p)]
      /\ at' = [at EXCEPT ![p] = IF c = "metadata" THEN "table" ELSE "ask"]
      /\ db' = [db EXCEPT ![p] = "vault"] /\ seen' = [seen EXCEPT ![p] = 0]
  BY DEF Commit, Pending, Move
<1>3. /\ Pending(p) \in Seq(Nat) /\ Len(Pending(p)) = n - seen[p]
      /\ \A i \in 1..Len(Pending(p)) : Pending(p)[i] = seen[p] + i
  BY <1>1, PendingSteps
<1>4. applied'[c] = applied[c] \o Pending(p)
  BY <1>1, <1>2 DEF Shape
<1>5. \A d \in Databases : d # c => applied'[d] = applied[d]
  BY <1>2 DEF Shape
<1> HIDE DEF c, n
<1>6. /\ Len(applied'[c]) = n
      /\ \A i \in 1..n : applied'[c][i] = i
  <2>1. Len(applied'[c]) = n
    BY <1>1, <1>3, <1>4
  <2>2. ASSUME NEW i \in 1..n, i <= seen[p] PROVE applied'[c][i] = i
    BY <1>1, <1>3, <1>4, <2>2 DEF Schema, Shape
  <2>3. ASSUME NEW i \in 1..n, ~(i <= seen[p]) PROVE applied'[c][i] = i
    <3>1. i - seen[p] \in 1..Len(Pending(p)) /\ seen[p] \in Nat
      BY <1>1, <1>3, <2>3 DEF Shape
    <3>2. applied'[c][i] = Pending(p)[i - seen[p]]
      BY <1>1, <1>3, <1>4, <2>3, <3>1
    <3> QED
      BY <1>3, <3>1, <3>2
  <2> QED
    BY <2>1, <2>2, <2>3
<1>7. ASSUME NEW d \in Databases
      PROVE  /\ Len(applied'[d]) <= Newest(d)
             /\ \A i \in 1..Len(applied'[d]) : applied'[d][i] = i
  BY <1>1, <1>5, <1>6 DEF Schema
<1>8. ASSUME NEW q \in Openers, at'[q] = "migrate"
      PROVE  seen'[q] = Len(applied'[db'[q]])
  <2>1. q # p /\ at[q] = "migrate" /\ db'[q] = db[q] /\ db[q] \in Databases
    BY <1>1, <1>2, <1>8 DEF Shape
  <2>2. db[q] # c
    BY <1>1, <2>1 DEF Shape, StartupTypeOK, c
  <2>3. seen'[q] = seen[q]
    BY <1>2, <2>1 DEF Shape
  <2> QED
    BY <1>5, <2>1, <2>2, <2>3 DEF Schema
<1>9. ASSUME NEW q \in Openers, NEW d \in Databases, Past(q, d)'
      PROVE  Len(applied'[d]) >= Latest(q, d)
  <2>1. Len(applied'[d]) >= Len(applied[d])
    BY <1>1, <1>5, <1>6 DEF Shape
  <2>2. CASE Past(q, d)
    BY <1>1, <1>5, <1>6, <2>1, <2>2, StartupAssumption DEF Schema, Shape, Latest
  <2>3. CASE ~Past(q, d)
    <3>1. q = p /\ d = c
      BY <1>1, <1>2, <1>9, <2>3 DEF Past, Shape, c
    <3> QED
      BY <1>1, <1>6, <3>1 DEF n
  <2> QED
    BY <2>2, <2>3
<1> QED
  BY <1>7, <1>8, <1>9 DEF Schema, Latest, Newest

LEMMA NextSchema == ASSUME Shape, Schema, [StartupNext]_startupVars PROVE Schema'
<1>1. CASE \E p \in Openers : OpenDatabases(p)
  <2>1. PICK p \in Openers : OpenDatabases(p)
    BY <1>1
  <2>2. CASE CreateVersionTable(p) \/ EnableWal(p)
    <3>1. SchemaFrame
      BY <2>2 DEF CreateVersionTable, EnableWal, Move, Shape, SchemaFrame, Past, schemas
    <3> QED
      BY <3>1, SchemaUnderFrame
  <2>3. CASE EnableWalFails(p) \/ LockTimesOut(p) \/ RefuseNewer(p)
    BY <2>3, FailSchema DEF FailWith, EnableWalFails, LockTimesOut, RefuseNewer, Reasons
  <2> QED
    BY <2>1, <2>2, <2>3, BeginSchema, CommitSchema DEF OpenDatabases
<1>2. CASE \E p \in Openers : LoadKey(p)
  <2>1. PICK p \in Openers : LoadKey(p)
    BY <1>2
  <2>2. CASE RefuseTorn(p) \/ UnknownBackend(p) \/ KeyUnavailable(p) \/ KeyMissing(p)
    BY <2>2, FailSchema DEF FailWith, RefuseTorn, UnknownBackend, KeyUnavailable, KeyMissing, Reasons
  <2>3. CASE AskForSecrets(p) \/ AcquireInitializationLock(p)
    <3>1. SchemaFrame
      BY <2>3 DEF AskForSecrets, AcquireInitializationLock, Move, Shape, SchemaFrame, Past, schemas
    <3> QED
      BY <3>1, SchemaUnderFrame
  <2>4. CASE UseMarker(p) \/ UseKeyFile(p) \/ ForceFile(p) \/ PreferKeyring(p)
               \/ LoadMarked(p) \/ AdoptEntry(p) \/ MintEntry(p) \/ FallBack(p)
    <3>1. SchemaFrame
      BY <2>4 DEF UseMarker, UseKeyFile, ForceFile, PreferKeyring, LoadMarked, AdoptEntry,
        MintEntry, FallBack, Under, GoOn, Done, Move, Shape, SchemaFrame, Past, schemas
    <3> QED
      BY <3>1, SchemaUnderFrame
  <2>5. CASE CreateMarker(p) \/ WriteMarker(p) \/ CreateKeyFile(p) \/ WriteKeyFile(p)
    <3>1. SchemaFrame
      BY <2>5 DEF CreateMarker, WriteMarker, CreateKeyFile, WriteKeyFile, Under, GoOn, Done,
        Move, Shape, SchemaFrame, Past, schemas
    <3> QED
      BY <3>1, SchemaUnderFrame
  <2> QED
    BY <2>1, <2>2, <2>3, <2>4, <2>5 DEF LoadKey
<1>3. CASE \E p \in Openers : Spawn(p) \/ StartKilled(p)
  <2>1. SchemaFrame
    BY <1>3 DEF Spawn, StartKilled, Move, Shape, SchemaFrame, Past, schemas
  <2> QED
    BY <2>1, SchemaUnderFrame
<1>4. CASE \/ \E p \in Openers : UseVault(p)
           \/ LoseKeyFile \/ LoseMarker \/ LoseEntry \/ UNCHANGED startupVars
  <2>1. SchemaFrame
    BY <1>4 DEF UseVault, LoseKeyFile, LoseMarker, LoseEntry, Loses, startupVars, process, schemas,
      SchemaFrame, Past
  <2> QED
    BY <2>1, SchemaUnderFrame
<1>5. CASE \E p \in Openers : FileWriteFails(p) \/ DiskFails(p)
  BY <1>5, InterruptedFiles, FailSchema DEF Reasons
<1> QED
  BY <1>1, <1>2, <1>3, <1>4, <1>5 DEF StartupNext, Start

LEMMA InitSchema == StartupInit => Schema
  BY StartupAssumption DEF StartupInit, Schema, Past, Newest

\* Any number of programs, old and new, may open and migrate a new database at
\* once, and any of them may be killed: each migration is committed once and in
\* order, and who is past a database finds the version it knows (metadata.rs:129).
THEOREM SchemasInOrder == StartupSpec => []SchemaInOrder
<1>1. ASSUME Shape, Schema PROVE SchemaInOrder
  <2>1. \A d \in Databases : DOMAIN applied[d] = 1..Len(applied[d])
    BY <1>1 DEF Shape
  <2>2. ASSUME NEW d \in Databases, NEW i \in DOMAIN applied[d] PROVE applied[d][i] = i
    <3>1. i \in 1..Len(applied[d])
      BY <2>1, <2>2
    <3> QED
      BY <1>1, <3>1 DEF Schema
  <2>3. ASSUME NEW p \in Openers, at[p] \in Locked \union {"ask", "lock", "running"},
               NEW d \in Databases
        PROVE  Len(applied[d]) >= Latest(p, d)
    <3>1. Past(p, d)
      BY <2>3 DEF Past
    <3> QED
      BY <1>1, <3>1 DEF Schema
  <2> QED
    BY <2>2, <2>3 DEF SchemaInOrder
<1> QED
  BY InitShape, NextShape, InitSchema, NextSchema, <1>1, PTL DEF StartupSpec

-------------------------------------------------------------------------------
(* The vault key                                                           *)

Intact == ~Lost("file") /\ ~Lost("marker")

InUse(k) == k \in secrets \/ \E p \in Openers : at[p] = "running" /\ key[p] = k

\* The files as each stage under the lock has found or left them.
Stage ==
  \A p \in Openers :
    /\ at[p] = "load" => marker = "valid"
    /\ at[p] \in {"mint", "newMarker", "newFile"} => marker = "absent" /\ keyFile = Nobody
    /\ at[p] = "writeMarker" => marker = "torn" /\ keyFile = Nobody
    /\ at[p] = "writeFile" => marker = "absent" /\ keyFile = "torn"
    /\ at[p] \in {"newMarker", "writeMarker"} =>
         key[p] = entry \/ (entry = Nobody /\ Lost("entry"))

\* A key in use is the one that the file or, through the marker, the keyring
\* names; so there is no other.
Agreed ==
  /\ keyFile \in Openers => marker = "absent"
  /\ \A k \in Openers : InUse(k) =>
       \/ keyFile = k
       \/ marker = "valid" /\ (entry = k \/ (entry = Nobody /\ Lost("entry")))
  /\ \A k, l \in Openers : InUse(k) /\ InUse(l) => k = l

\* Who has seen secrets can count on a key.
Remembered == \A p \in Openers : had[p] => marker = "valid" \/ keyFile \in Openers

VaultKey == Intact => Stage /\ Agreed /\ Remembered

\* A step that leaves the keys alone, and takes nobody to a stage above.
KeyFrame ==
  /\ UNCHANGED <<marker, keyFile, entry, secrets, key, lost>>
  /\ \A q \in Openers :
       at'[q] \in (Locked \ {"decide"}) \union {"running"} => at'[q] = at[q]

LEMMA KeyUnderFrame ==
  ASSUME VaultKey, KeyFrame, UNCHANGED had PROVE VaultKey'
<1>1. Intact' = Intact /\ Lost("entry")' = Lost("entry")
  BY DEF KeyFrame, Intact, Lost
<1>2. Stage => Stage'
  BY <1>1 DEF KeyFrame, Stage
<1>3. \A k \in Openers : InUse(k)' => InUse(k)
  BY DEF KeyFrame, InUse
<1>4. Agreed => Agreed'
  BY <1>1, <1>3 DEF KeyFrame, Agreed
<1>5. Remembered => Remembered'
  BY DEF KeyFrame, Remembered
<1> QED
  BY <1>1, <1>2, <1>4, <1>5 DEF VaultKey

LEMMA FailWithKey ==
  ASSUME Shape, VaultKey, NEW p \in Openers, NEW reason \in Reasons, FailWith(p, reason)
  PROVE  VaultKey'
<1>1. KeyFrame /\ UNCHANGED had
  BY DEF FailWith, Fail, Move, Shape, KeyFrame, keys, faults
<1> QED
  BY <1>1, KeyUnderFrame

\* Somebody who reads secrets # {} has seen a key in use.
LEMMA AskKey ==
  ASSUME Shape, VaultKey, NEW p \in Openers, AskForSecrets(p) PROVE VaultKey'
<1>1. /\ UNCHANGED <<marker, keyFile, entry, secrets, key, lost>>
      /\ at' = [at EXCEPT ![p] = "lock"] /\ had' = [had EXCEPT ![p] = secrets # {}]
  BY DEF AskForSecrets, Move, keys, faults
<1>2. Intact' = Intact /\ Lost("entry")' = Lost("entry")
  BY <1>1 DEF Intact, Lost
<1>3. Stage => Stage'
  BY <1>1, <1>2 DEF Shape, Stage
<1>4. Agreed => Agreed'
  BY <1>1, <1>2 DEF Shape, Agreed, InUse
<1>5. ASSUME Agreed, secrets # {} PROVE marker = "valid" \/ keyFile \in Openers
  BY <1>5 DEF Shape, StartupTypeOK, Agreed, InUse
<1>6. Agreed /\ Remembered => Remembered'
  BY <1>1, <1>5 DEF Shape, Remembered
<1> QED
  BY <1>2, <1>3, <1>4, <1>6 DEF VaultKey

\* Steps of the holder of vault.lock that change no file.
LEMMA DecideKey ==
  ASSUME Shape, VaultKey, NEW p \in Openers,
         UseMarker(p) \/ ForceFile(p) \/ PreferKeyring(p) \/ FallBack(p)
  PROVE  VaultKey'
<1>1. /\ UNCHANGED <<marker, keyFile, entry, secrets, key, lost, had>>
      /\ \E stage \in {"load", "newFile", "mint"} : at' = [at EXCEPT ![p] = stage]
  BY DEF UseMarker, ForceFile, PreferKeyring, FallBack, Under, GoOn, Move, keys, faults
<1>2. Intact' = Intact /\ Lost("entry")' = Lost("entry")
  BY <1>1 DEF Intact, Lost
<1>3. Stage => Stage'
  BY <1>2 DEF Shape, Stage, UseMarker, ForceFile, PreferKeyring, FallBack, Under, GoOn, Move,
    keys, faults
<1>6. \A k \in Openers : InUse(k)' => InUse(k)
  BY <1>1 DEF Shape, InUse
<1>4. Agreed => Agreed'
  BY <1>1, <1>2, <1>6 DEF Agreed
<1>5. Remembered => Remembered'
  BY <1>1 DEF Remembered
<1> QED
  BY <1>2, <1>3, <1>4, <1>5 DEF VaultKey

LEMMA Alone ==
  ASSUME Shape, NEW p \in Openers, at[p] \in Locked
  PROVE  \A q \in Openers : at[q] \in Locked => q = p
  BY OneHolder

LEMMA UseKeyFileKey ==
  ASSUME Shape, VaultKey, NEW p \in Openers, UseKeyFile(p) PROVE VaultKey'
<1>1. /\ UNCHANGED <<marker, keyFile, entry, secrets, lost, had>>
      /\ at' = [at EXCEPT ![p] = "running"] /\ key' = [key EXCEPT ![p] = keyFile]
      /\ keyFile \in Openers
  BY DEF UseKeyFile, Under, Takes, Done, Move, keys, faults
<1>2. Intact' = Intact /\ Lost("entry")' = Lost("entry")
  BY <1>1 DEF Intact, Lost
<1>3. Stage => Stage'
  BY <1>1, <1>2 DEF Shape, Stage, StartupTypeOK
<1>4. \A k \in Openers : InUse(k)' => InUse(k) \/ k = keyFile
  BY <1>1 DEF Shape, InUse, StartupTypeOK
<1>5. ASSUME Agreed PROVE \A k \in Openers : InUse(k) => k = keyFile
  BY <1>1, <1>5 DEF Agreed
<1>6. Agreed => Agreed'
  BY <1>1, <1>2, <1>4, <1>5 DEF Agreed
<1>7. Remembered => Remembered'
  BY <1>1 DEF Remembered
<1> QED
  BY <1>2, <1>3, <1>6, <1>7 DEF VaultKey

LEMMA LoadMarkedKey ==
  ASSUME Shape, VaultKey, NEW p \in Openers, LoadMarked(p) PROVE VaultKey'
<1>1. /\ UNCHANGED <<marker, keyFile, entry, secrets, lost, had>>
      /\ at' = [at EXCEPT ![p] = "running"] /\ key' = [key EXCEPT ![p] = entry]
      /\ entry \in Openers /\ entry # Nobody /\ at[p] = "load"
  BY DEF LoadMarked, Under, Takes, Done, Move, keys, faults, Shape, StartupTypeOK
<1>2. Intact' = Intact /\ Lost("entry")' = Lost("entry")
  BY <1>1 DEF Intact, Lost
<1>3. Stage => Stage'
  BY <1>1, <1>2 DEF Shape, Stage, StartupTypeOK
<1>4. \A k \in Openers : InUse(k)' => InUse(k) \/ k = entry
  BY <1>1 DEF Shape, InUse, StartupTypeOK
<1>5. ASSUME Stage, Agreed
      PROVE  marker = "valid" /\ \A k \in Openers : InUse(k) => k = entry
  BY <1>1, <1>5 DEF Stage, Agreed
<1>6. ASSUME Stage, Agreed PROVE Agreed'
  BY <1>1, <1>2, <1>4, <1>5, <1>6 DEF Agreed
<1>7. Remembered => Remembered'
  BY <1>1 DEF Remembered
<1> QED
  BY <1>2, <1>3, <1>6, <1>7 DEF VaultKey

LEMMA EntryKey ==
  ASSUME Shape, VaultKey, NEW p \in Openers, AdoptEntry(p) \/ MintEntry(p) PROVE VaultKey'
<1>1. /\ UNCHANGED <<marker, keyFile, secrets, lost, had>>
      /\ at' = [at EXCEPT ![p] = "newMarker"] /\ at[p] = "mint"
      /\ key' = [key EXCEPT ![p] = entry']
      /\ entry' = entry \/ entry = Nobody
  BY DEF AdoptEntry, MintEntry, Under, Takes, GoOn, Move, keys, faults
<1>2. Intact' = Intact /\ Lost("entry")' = Lost("entry")
  BY <1>1 DEF Intact, Lost
<1>3. \A q \in Openers : at[q] \in Locked => q = p
  BY <1>1, Alone
<1>4. Stage => Stage'
  BY <1>1, <1>2, <1>3 DEF Shape, Stage, StartupTypeOK
<1>5. \A k \in Openers : InUse(k)' => InUse(k)
  BY <1>1 DEF Shape, InUse, StartupTypeOK
<1>6. ASSUME Stage PROVE marker = "absent"
  BY <1>1, <1>6 DEF Stage
<1>7. ASSUME Stage, Agreed PROVE Agreed'
  BY <1>1, <1>5, <1>6, <1>7 DEF Agreed
<1>8. Remembered => Remembered'
  BY <1>1 DEF Remembered
<1> QED
  BY <1>2, <1>4, <1>7, <1>8 DEF VaultKey

LEMMA CreateKey ==
  ASSUME Shape, VaultKey, NEW p \in Openers, CreateMarker(p) \/ CreateKeyFile(p)
  PROVE  VaultKey'
<1>1. /\ UNCHANGED <<key, entry, secrets, lost, had>>
      /\ \/ /\ at[p] = "newMarker" /\ marker' = "torn" /\ UNCHANGED keyFile
            /\ at' = [at EXCEPT ![p] = "writeMarker"]
         \/ /\ at[p] = "newFile" /\ keyFile' = "torn" /\ UNCHANGED marker
            /\ at' = [at EXCEPT ![p] = "writeFile"]
  BY DEF CreateMarker, CreateKeyFile, Under, GoOn, Move, keys, faults
<1>2. Intact' = Intact /\ Lost("entry")' = Lost("entry")
  BY <1>1 DEF Intact, Lost
<1>3. \A q \in Openers : at[q] \in Locked => q = p
  BY <1>1, Alone
<1>4. Stage => Stage'
  BY <1>1, <1>2, <1>3 DEF Shape, Stage, StartupTypeOK
<1>5. \A k \in Openers : InUse(k)' => InUse(k)
  BY <1>1 DEF Shape, InUse
<1>6. ASSUME Stage PROVE marker = "absent" /\ keyFile = Nobody
  BY <1>1, <1>6 DEF Stage
<1>7. ASSUME Stage, Agreed PROVE (\A k \in Openers : ~InUse(k)) /\ Agreed'
  BY <1>1, <1>5, <1>6, <1>7, StartupAssumption DEF Agreed
<1>8. ASSUME Stage, Remembered PROVE Remembered'
  BY <1>1, <1>6, <1>8, StartupAssumption DEF Remembered
<1> QED
  BY <1>2, <1>4, <1>7, <1>8 DEF VaultKey

LEMMA WriteMarkerKey ==
  ASSUME Shape, VaultKey, NEW p \in Openers, WriteMarker(p) PROVE VaultKey'
<1>1. /\ UNCHANGED <<key, keyFile, entry, secrets, lost, had>>
      /\ at[p] = "writeMarker" /\ marker' = "valid" /\ at' = [at EXCEPT ![p] = "running"]
  BY DEF WriteMarker, Under, Done, Move, keys, faults
<1>2. Intact' = Intact /\ Lost("entry")' = Lost("entry")
  BY <1>1 DEF Intact, Lost
<1>3. \A q \in Openers : at[q] \in Locked => q = p
  BY <1>1, Alone
<1>4. Stage => Stage'
  BY <1>1, <1>2, <1>3 DEF Shape, Stage
<1>5. \A k \in Openers : InUse(k)' => InUse(k) \/ k = key[p]
  BY <1>1 DEF Shape, InUse
<1>6. ASSUME Stage, Agreed
      PROVE  /\ keyFile = Nobody
             /\ \A k \in Openers : ~InUse(k)
             /\ key[p] = entry \/ (entry = Nobody /\ Lost("entry"))
  BY <1>1, <1>6, StartupAssumption DEF Stage, Agreed
<1>7. ASSUME Stage, Agreed PROVE Agreed'
  BY <1>1, <1>2, <1>5, <1>6, <1>7, StartupAssumption DEF Agreed
<1>8. Remembered => Remembered'
  BY <1>1 DEF Remembered
<1> QED
  BY <1>2, <1>4, <1>7, <1>8 DEF VaultKey

LEMMA WriteKeyFileKey ==
  ASSUME Shape, VaultKey, NEW p \in Openers, WriteKeyFile(p) PROVE VaultKey'
<1>1. /\ UNCHANGED <<marker, entry, secrets, lost, had>>
      /\ at[p] = "writeFile" /\ keyFile' = p /\ at' = [at EXCEPT ![p] = "running"]
      /\ key' = [key EXCEPT ![p] = p]
  BY DEF WriteKeyFile, Under, Takes, Done, Move, keys, faults
<1>2. Intact' = Intact /\ Lost("entry")' = Lost("entry")
  BY <1>1 DEF Intact, Lost
<1>3. \A q \in Openers : at[q] \in Locked => q = p
  BY <1>1, Alone
<1>4. Stage => Stage'
  BY <1>1, <1>2, <1>3 DEF Shape, Stage, StartupTypeOK
<1>5. \A k \in Openers : InUse(k)' => InUse(k) \/ k = p
  BY <1>1 DEF Shape, InUse, StartupTypeOK
<1>6. ASSUME Stage, Agreed
      PROVE  marker = "absent" /\ \A k \in Openers : ~InUse(k)
  BY <1>1, <1>6, StartupAssumption DEF Stage, Agreed
<1>7. ASSUME Stage, Agreed PROVE Agreed'
  BY <1>1, <1>2, <1>5, <1>6, <1>7 DEF Agreed
<1>8. Remembered => Remembered'
  BY <1>1 DEF Remembered
<1> QED
  BY <1>2, <1>4, <1>7, <1>8 DEF VaultKey

\* A file that is whole or valid though its writer failed names the key of nobody yet.
LEMMA InterruptedKey ==
  ASSUME Shape, VaultKey, NEW p \in Openers, FileWriteFails(p) \/ DiskFails(p) PROVE VaultKey'
<1>1. /\ UNCHANGED <<key, entry, secrets, lost, had>>
      /\ at' = [at EXCEPT ![p] = "failed"]
      /\ \/ UNCHANGED <<marker, keyFile>>
         \/ at[p] = "writeMarker" /\ marker' \in {"torn", "valid"} /\ UNCHANGED keyFile
         \/ at[p] = "writeFile" /\ keyFile' \in {"torn", p} /\ UNCHANGED marker
  BY InterruptedFiles DEF Fail, Move
<1>2. CASE UNCHANGED <<marker, keyFile>>
  <2>1. KeyFrame
    BY <1>1, <1>2 DEF KeyFrame, Shape
  <2> QED
    BY <1>1, <2>1, KeyUnderFrame
<1>3. CASE at[p] \in {"writeMarker", "writeFile"}
  <2>1. Intact' = Intact /\ Lost("entry")' = Lost("entry")
    BY <1>1 DEF Intact, Lost
  <2>2. \A q \in Openers : at[q] \in Locked => q = p
    BY <1>3, Alone
  <2>3. \A q \in Openers : at'[q] \notin Locked
    BY <1>1, <2>2 DEF Shape
  <2>4. Stage'
    BY <2>3 DEF Stage
  <2>5. \A k \in Openers : InUse(k)' => InUse(k)
    BY <1>1 DEF Shape, InUse
  <2>6. ASSUME Stage, Agreed
        PROVE  /\ \A k \in Openers : ~InUse(k)
               /\ keyFile \notin Openers
               /\ at[p] = "writeMarker" => keyFile = Nobody /\ marker = "torn"
               /\ at[p] = "writeFile" => keyFile = "torn" /\ marker = "absent"
    BY <1>3, <2>6, StartupAssumption DEF Stage, Agreed
  <2>7. ASSUME Stage, Agreed PROVE Agreed'
    BY <1>1, <1>3, <2>5, <2>6, <2>7, StartupAssumption DEF Agreed
  <2>8. ASSUME Stage, Agreed, Remembered PROVE Remembered'
    BY <1>1, <1>3, <2>6, <2>8, StartupAssumption DEF Remembered
  <2> QED
    BY <2>1, <2>4, <2>7, <2>8 DEF VaultKey
<1> QED
  BY <1>1, <1>2, <1>3

LEMMA UseVaultKey ==
  ASSUME Shape, VaultKey, NEW p \in Openers, UseVault(p) PROVE VaultKey'
<1>1. /\ UNCHANGED <<at, key, marker, keyFile, entry, lost, had>> /\ at[p] = "running"
      /\ secrets' \in {secrets \union {key[p]}, {}}
  BY DEF UseVault, process, keys, faults
<1>2. Intact' = Intact /\ Lost("entry")' = Lost("entry")
  BY <1>1 DEF Intact, Lost
<1>3. Stage => Stage'
  BY <1>1, <1>2 DEF Stage
<1>4. \A k \in Openers : InUse(k)' => InUse(k)
  BY <1>1 DEF InUse
<1>5. Agreed => Agreed'
  BY <1>1, <1>2, <1>4 DEF Agreed
<1>6. Remembered => Remembered'
  BY <1>1 DEF Remembered
<1> QED
  BY <1>2, <1>3, <1>5, <1>6 DEF VaultKey

\* What is lost stays lost.
LEMMA LosesLost ==
  ASSUME Shape, NEW what \in {"file", "marker", "entry"}, Loses(what)
  PROVE  Lost(what)' /\ \A other \in {"file", "marker", "entry"} : Lost(other) => Lost(other)'
<1>1. /\ lost \in Seq({"file", "marker", "entry"}) /\ lost' = Append(lost, what)
      /\ DOMAIN lost = 1..Len(lost) /\ Len(lost) \in Nat
      /\ DOMAIN lost' = 1..(Len(lost) + 1)
      /\ lost'[Len(lost) + 1] = what
      /\ \A i \in 1..Len(lost) : lost'[i] = lost[i]
  BY DEF Shape, Loses
<1>2. Lost(what)'
  BY <1>1 DEF Lost
<1>3. ASSUME NEW other \in {"file", "marker", "entry"}, Lost(other) PROVE Lost(other)'
  <2>1. PICK i \in DOMAIN lost : lost[i] = other
    BY <1>3 DEF Lost
  <2>2. i \in DOMAIN lost' /\ lost'[i] = other
    BY <1>1, <2>1
  <2> QED
    BY <2>2 DEF Lost
<1> QED
  BY <1>2, <1>3

LEMMA LoseKey ==
  ASSUME Shape, VaultKey, LoseKeyFile \/ LoseMarker \/ LoseEntry PROVE VaultKey'
<1>1. CASE LoseKeyFile
  BY <1>1, LosesLost DEF LoseKeyFile, VaultKey, Intact
<1>2. CASE LoseMarker
  BY <1>2, LosesLost DEF LoseMarker, VaultKey, Intact
<1>3. CASE LoseEntry
  <2>1. /\ UNCHANGED <<at, key, had, marker, keyFile, secrets>> /\ entry' = Nobody
        /\ Lost("entry")' /\ (Intact' => Intact)
    BY <1>3, LosesLost DEF LoseEntry, Loses, process, Intact
  <2>2. Stage => Stage'
    BY <2>1 DEF Stage
  <2>3. \A k \in Openers : InUse(k)' => InUse(k)
    BY <2>1 DEF InUse
  <2>4. Agreed => Agreed'
    BY <2>1, <2>3 DEF Agreed
  <2>5. Remembered => Remembered'
    BY <2>1 DEF Remembered
  <2> QED
    BY <2>1, <2>2, <2>4, <2>5 DEF VaultKey
<1> QED
  BY <1>1, <1>2, <1>3

LEMMA InitKey == StartupInit => VaultKey
  BY StartupAssumption DEF StartupInit, VaultKey, Stage, Agreed, Remembered, InUse

LEMMA NextKey == ASSUME Shape, VaultKey, [StartupNext]_startupVars PROVE VaultKey'
<1>1. CASE \E p \in Openers : OpenDatabases(p)
  <2>1. PICK p \in Openers : OpenDatabases(p)
    BY <1>1
  <2>2. CASE CreateVersionTable(p) \/ EnableWal(p) \/ Begin(p) \/ Commit(p)
    <3>1. KeyFrame /\ UNCHANGED had
      BY <2>2 DEF CreateVersionTable, EnableWal, Begin, Commit, Move, Shape, KeyFrame, keys, faults
    <3> QED
      BY <3>1, KeyUnderFrame
  <2>3. CASE EnableWalFails(p) \/ LockTimesOut(p) \/ RefuseNewer(p)
    BY <2>3, FailWithKey DEF EnableWalFails, LockTimesOut, RefuseNewer, Reasons
  <2> QED
    BY <2>1, <2>2, <2>3 DEF OpenDatabases
<1>2. CASE \E p \in Openers : LoadKey(p)
  <2>1. PICK p \in Openers : LoadKey(p)
    BY <1>2
  <2>2. CASE RefuseTorn(p) \/ UnknownBackend(p) \/ KeyUnavailable(p) \/ KeyMissing(p)
    BY <2>2, FailWithKey DEF RefuseTorn, UnknownBackend, KeyUnavailable, KeyMissing, Reasons
  <2>3. CASE AcquireInitializationLock(p)
    <3>1. KeyFrame /\ UNCHANGED had
      BY <2>3 DEF AcquireInitializationLock, Move, Shape, KeyFrame, keys, faults
    <3> QED
      BY <3>1, KeyUnderFrame
  <2> QED
    BY <2>1, <2>2, <2>3, AskKey, DecideKey, UseKeyFileKey, LoadMarkedKey, EntryKey, CreateKey,
       WriteMarkerKey, WriteKeyFileKey DEF LoadKey
<1>3. CASE \E p \in Openers : Spawn(p) \/ StartKilled(p)
  <2>1. KeyFrame /\ UNCHANGED had
    BY <1>3 DEF Spawn, StartKilled, Move, Shape, KeyFrame, keys, faults
  <2> QED
    BY <2>1, KeyUnderFrame
<1>4. CASE UNCHANGED startupVars
  <2>1. KeyFrame /\ UNCHANGED had
    BY <1>4 DEF startupVars, process, keys, faults, KeyFrame
  <2> QED
    BY <2>1, KeyUnderFrame
<1> QED
  BY <1>1, <1>2, <1>3, <1>4, UseVaultKey, LoseKey, InterruptedKey DEF StartupNext, Start

\* However many processes start at once on a new directory, whoever is killed
\* between two of its files and whatever the keyring answers: the running
\* processes and the stored secrets share the key that the next start loads,
\* until the user loses the key file or its marker (crypto.rs:32).
THEOREM OneKey == StartupSpec => []OneVaultKey
<1>1. ASSUME Shape, VaultKey PROVE OneVaultKey
  <2> DEFINE used == secrets \union {key[p] : p \in {q \in Openers : at[q] = "running"}}
  <2>1. SUFFICES ASSUME Intact, NEW k \in used
                 PROVE  /\ used = {k}
                        /\ marker # "valid" => keyFile = k
                        /\ marker = "valid" => entry = k \/ Lost("entry")
    BY DEF OneVaultKey, Intact
  <2>2. \A l : l \in used <=> InUse(l)
    BY DEF InUse
  <2>3. used \subseteq Openers
    BY <1>1 DEF Shape, StartupTypeOK
  <2>4. Agreed
    BY <1>1, <2>1 DEF VaultKey
  <2> HIDE DEF used
  <2>5. used = {k}
    BY <2>1, <2>2, <2>3, <2>4 DEF Agreed
  <2>6. \/ keyFile = k /\ marker = "absent"
        \/ marker = "valid" /\ (entry = k \/ Lost("entry"))
    BY <2>1, <2>2, <2>3, <2>4 DEF Agreed
  <2> QED
    BY <2>5, <2>6
<1> QED
  BY InitShape, NextShape, InitKey, NextKey, <1>1, PTL DEF StartupSpec

-------------------------------------------------------------------------------
(* Refusals                                                                *)

\* Somebody was killed or stopped by an I/O error.
Died == \E q \in Openers : at[q] = "killed" \/ why[q] = "io"

\* A half-written file has its writer, or somebody has died.
TornHasWriter ==
  /\ marker = "torn" => Died \/ \E p \in Openers : at[p] = "writeMarker"
  /\ keyFile = "torn" => Died \/ \E p \in Openers : at[p] = "writeFile"
  /\ \A q \in Openers : why[q] # "none" => at[q] = "failed"

Explained == TornHasWriter /\ RefusalsAreExplained

\* An error that has nothing to do with the key, a file or the schema.
LEMMA OtherFailure ==
  ASSUME Shape, Explained, NEW p \in Openers, NEW reason \in Reasons \ {"none"},
         FailWith(p, reason), at[p] \notin Ended \union {"writeMarker", "writeFile"},
         reason = "torn" => Died,
         reason = "missing" => ~Intact,
         reason = "newer" => p \in OldOpeners
  PROVE  Explained'
<1>1. /\ UNCHANGED <<marker, keyFile, lost>>
      /\ at' = [at EXCEPT ![p] = "failed"] /\ why' = [why EXCEPT ![p] = reason]
  BY DEF FailWith, Fail, Move, keys, faults
<1>2. Died => Died'
  BY <1>1 DEF Shape, Explained, TornHasWriter, Died
<1>3. TornHasWriter'
  BY <1>1, <1>2 DEF Shape, Explained, TornHasWriter
<1>4. Lost("file")' = Lost("file") /\ Lost("marker")' = Lost("marker")
  BY <1>1 DEF Lost
<1>5. RefusalsAreExplained'
  BY <1>1, <1>2, <1>4 DEF Shape, Explained, RefusalsAreExplained, Intact, Died
<1> QED
  BY <1>3, <1>5 DEF Explained

LEMMA TornMeansDied ==
  ASSUME Shape, TornHasWriter, NEW p \in Openers, at[p] = "decide",
         marker = "torn" \/ keyFile = "torn"
  PROVE  Died
<1>1. \A q \in Openers : at[q] \notin {"writeMarker", "writeFile"}
  BY Alone
<1> QED
  BY <1>1 DEF TornHasWriter

LEMMA MissingMeansLost ==
  ASSUME VaultKey, NEW p \in Openers, had[p],
         at[p] = "mint" \/ (at[p] = "decide" /\ marker = "absent" /\ keyFile = Nobody)
  PROVE  ~Intact
  BY StartupAssumption DEF VaultKey, Stage, Remembered

LEMMA NewerMeansOld ==
  ASSUME Shape, Schema, NEW p \in Openers, RefuseNewer(p)
  PROVE  p \in OldOpeners
  BY StartupAssumption DEF Shape, Schema, RefuseNewer, Latest, Newest

LEMMA FailureExplained ==
  ASSUME Shape, Schema, VaultKey, Explained, NEW p \in Openers,
         \/ EnableWalFails(p) \/ LockTimesOut(p) \/ RefuseNewer(p) \/ RefuseTorn(p)
         \/ UnknownBackend(p) \/ KeyUnavailable(p) \/ KeyMissing(p)
  PROVE  Explained'
<1>1. CASE EnableWalFails(p) \/ LockTimesOut(p)
  BY <1>1, OtherFailure DEF EnableWalFails, LockTimesOut, Reasons
<1>2. CASE RefuseNewer(p)
  BY <1>2, OtherFailure, NewerMeansOld DEF RefuseNewer, Reasons
<1>3. CASE RefuseTorn(p)
  BY <1>3, OtherFailure, TornMeansDied DEF RefuseTorn, Reasons, Explained
<1>4. CASE UnknownBackend(p) \/ KeyUnavailable(p)
  BY <1>4, OtherFailure DEF UnknownBackend, KeyUnavailable, Reasons
<1>5. CASE KeyMissing(p)
  BY <1>5, OtherFailure, MissingMeansLost DEF KeyMissing, Reasons
<1> QED
  BY <1>1, <1>2, <1>3, <1>4, <1>5

\* A step that fails nobody, kills nobody and changes neither file but as given.
ExplainedFrame ==
  /\ UNCHANGED why
  /\ \A q \in Openers : (at[q] \in {"killed", "failed"}) => at'[q] = at[q]
  /\ \A what \in {"file", "marker"} : Lost(what) => Lost(what)'
  /\ marker' = "torn" =>
       \/ \E q \in Openers : at'[q] = "writeMarker"
       \/ marker = "torn" /\ \A q \in Openers : at[q] = "writeMarker" => at'[q] = at[q]
  /\ keyFile' = "torn" =>
       \/ \E q \in Openers : at'[q] = "writeFile"
       \/ keyFile = "torn" /\ \A q \in Openers : at[q] = "writeFile" => at'[q] = at[q]

LEMMA ExplainedUnderFrame ==
  ASSUME Shape, Explained, ExplainedFrame PROVE Explained'
<1>1. Died => Died'
  BY DEF ExplainedFrame, Died
<1>2. TornHasWriter'
  BY <1>1 DEF Explained, ExplainedFrame, TornHasWriter
<1>3. RefusalsAreExplained'
  BY <1>1 DEF Explained, ExplainedFrame, RefusalsAreExplained, Died
<1> QED
  BY <1>2, <1>3 DEF Explained

\* A process killed or stopped explains whatever it leaves.
LEMMA DeathExplains ==
  ASSUME Shape, Explained, NEW p \in Openers, at[p] \notin Ended, UNCHANGED lost,
         \/ at' = [at EXCEPT ![p] = "killed"] /\ UNCHANGED why
         \/ at' = [at EXCEPT ![p] = "failed"] /\ why' = [why EXCEPT ![p] = "io"]
  PROVE  Explained'
<1>1. Died'
  BY DEF Shape, Died
<1>2. TornHasWriter'
  BY <1>1 DEF Shape, Explained, TornHasWriter
<1>3. Lost("file")' = Lost("file") /\ Lost("marker")' = Lost("marker")
  BY DEF Lost
<1>4. RefusalsAreExplained'
  BY <1>1, <1>3 DEF Shape, Explained, RefusalsAreExplained, Died
<1> QED
  BY <1>2, <1>4 DEF Explained

LEMMA NextExplained ==
  ASSUME Shape, Schema, VaultKey, Explained, [StartupNext]_startupVars PROVE Explained'
<1>1. ASSUME NEW p \in Openers, OpenDatabases(p) PROVE Explained'
  <2>1. CASE CreateVersionTable(p) \/ EnableWal(p) \/ Begin(p) \/ Commit(p)
    <3>1. ExplainedFrame
      BY <2>1 DEF CreateVersionTable, EnableWal, Begin, Commit, Move, Shape, keys, faults,
        ExplainedFrame, Lost
    <3> QED
      BY <3>1, ExplainedUnderFrame
  <2> QED
    BY <1>1, <2>1, FailureExplained DEF OpenDatabases
<1>2. ASSUME NEW p \in Openers, LoadKey(p) PROVE Explained'
  <2>1. CASE CreateMarker(p) \/ CreateKeyFile(p)
    <3>1. /\ UNCHANGED <<why, lost>>
          /\ \/ /\ at' = [at EXCEPT ![p] = "writeMarker"] /\ UNCHANGED keyFile
                /\ at[p] = "newMarker"
             \/ /\ at' = [at EXCEPT ![p] = "writeFile"] /\ UNCHANGED marker
                /\ at[p] = "newFile"
      BY <2>1 DEF CreateMarker, CreateKeyFile, Under, GoOn, Move, Shape, faults
    <3>2. ExplainedFrame
      BY <3>1 DEF Shape, ExplainedFrame, Lost
    <3> QED
      BY <3>2, ExplainedUnderFrame
  <2>2. CASE WriteMarker(p) \/ WriteKeyFile(p)
    <3>1. /\ UNCHANGED <<why, lost>>
          /\ at' = [at EXCEPT ![p] = "running"]
          /\ \/ at[p] = "writeMarker" /\ marker' = "valid" /\ UNCHANGED keyFile
             \/ at[p] = "writeFile" /\ keyFile' # "torn" /\ UNCHANGED marker
      BY <2>2, StartupAssumption DEF WriteMarker, WriteKeyFile, Under, Done, Move, Shape, faults
    <3>2. ExplainedFrame
      BY <3>1 DEF Shape, ExplainedFrame, Lost
    <3> QED
      BY <3>2, ExplainedUnderFrame
  <2>3. CASE \/ AskForSecrets(p) \/ AcquireInitializationLock(p) \/ UseMarker(p)
             \/ UseKeyFile(p) \/ ForceFile(p) \/ PreferKeyring(p) \/ LoadMarked(p)
             \/ AdoptEntry(p) \/ MintEntry(p) \/ FallBack(p)
    <3>1. ExplainedFrame
      BY <2>3 DEF AskForSecrets, AcquireInitializationLock, UseMarker, UseKeyFile, ForceFile,
        PreferKeyring, LoadMarked, AdoptEntry, MintEntry, FallBack, Under, Done, GoOn, Move, Shape,
        keys, faults, ExplainedFrame, Lost
    <3> QED
      BY <3>1, ExplainedUnderFrame
  <2> QED
    BY <1>2, <2>1, <2>2, <2>3, FailureExplained DEF LoadKey
<1>3. ASSUME NEW p \in Openers, Spawn(p) \/ UseVault(p) PROVE Explained'
  <2>1. ExplainedFrame
    BY <1>3 DEF Spawn, UseVault, Move, Shape, process, keys, faults, ExplainedFrame, Lost
  <2> QED
    BY <2>1, ExplainedUnderFrame
<1>4. ASSUME NEW p \in Openers, StartKilled(p) PROVE Explained'
  BY <1>4, DeathExplains DEF StartKilled, Move
<1>5. ASSUME NEW p \in Openers, FileWriteFails(p) \/ DiskFails(p) PROVE Explained'
  BY <1>5, InterruptedFiles, DeathExplains DEF Fail, Move
<1>6. ASSUME LoseKeyFile \/ LoseMarker \/ LoseEntry PROVE Explained'
  <2>1. /\ UNCHANGED <<at, why>>
        /\ marker' \in {marker, "absent"} /\ keyFile' \in {keyFile, Nobody}
    BY <1>6 DEF LoseKeyFile, LoseMarker, LoseEntry, Loses, process
  <2>2. \A what \in {"file", "marker"} : Lost(what) => Lost(what)'
    BY <1>6, LosesLost DEF LoseKeyFile, LoseMarker, LoseEntry
  <2>3. ExplainedFrame
    BY <2>1, <2>2, StartupAssumption DEF ExplainedFrame
  <2> QED
    BY <2>3, ExplainedUnderFrame
<1>7. ASSUME UNCHANGED startupVars PROVE Explained'
  <2>1. ExplainedFrame
    BY <1>7 DEF startupVars, process, keys, faults, ExplainedFrame, Lost
  <2> QED
    BY <2>1, ExplainedUnderFrame
<1> QED
  BY <1>1, <1>2, <1>3, <1>4, <1>5, <1>6, <1>7 DEF StartupNext, Start

LEMMA InitExplained == StartupInit => Explained
  BY StartupAssumption DEF StartupInit, Explained, TornHasWriter, RefusalsAreExplained

\* A start is refused for a reason that is there: "refusing to replace" only
\* after a process was killed or stopped by an I/O error, never because another one is just writing the
\* file; a missing key only if its file or marker was lost; and only an old
\* program finds the schema too new (crypto.rs:99, metadata.rs:129).
THEOREM RefusalsExplained == StartupSpec => []RefusalsAreExplained
<1>1. Explained => RefusalsAreExplained
  BY DEF Explained
<1> QED
  BY InitShape, NextShape, InitSchema, NextSchema, InitKey, NextKey, InitExplained,
     NextExplained, <1>1, PTL DEF StartupSpec
===============================================================================
