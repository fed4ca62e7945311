---------------------------- MODULE DefinitionProofs ----------------------------
(***************************************************************************)
(* What holds of an Action's definition, from the file it is in to the     *)
(* request it builds and the answer it masks, for any directory, arguments *)
(* and answers.                                                            *)
(***************************************************************************)
EXTENDS ActionFiles, ActionRequest, ResponseMask, FiniteSetTheorems, FunctionTheorems,
        WellFoundedInduction, TLAPS

-------------------------------------------------------------------------------
(* The directory of Action files                                           *)

Contents == [name : Names, by : Importers \union {Operator}, whole : BOOLEAN]

FileStages ==
  {"new", "unused", "check", "create", "write", "undo", "undone", "imported", "killed",
   "read", "loaded", "failed"}

FilesType ==
  /\ dir \in [Files -> {NoFile} \union Contents] /\ IsFiniteSet(Present)
  /\ stage \in [Processes -> FileStages]
  /\ \A i \in Importers : stage[i] \notin {"read", "loaded"}
  /\ \A p \in Loaders : stage[p] \in {"new", "unused", "read", "loaded", "failed"}
  /\ plan \in [Importers -> Seq(Names)]
  /\ DOMAIN todo = Processes
  /\ \A i \in Importers :
       /\ todo[i] \in Seq(Names)
       /\ stage[i] \in {"write", "undo"} => todo[i] # << >>
  /\ \A p \in Loaders : todo[p] \in Seq(Files)
  /\ output \in [Importers -> Seq(Files)]
  /\ actions \in [Loaders -> SUBSET (Names \X Files)]
  /\ edits \in Nat
  /\ steady \in [Loaders -> SUBSET Files]

LEMMA BoundedIsSeq ==
  ASSUME NEW s \in BoundedSeq(Names, MaxOperations) PROVE s \in Seq(Names)
  BY DEF BoundedSeq, SeqOf

LEMMA TypeNames ==
  ASSUME FilesType, NEW i \in Importers, todo[i] # << >>
  PROVE  /\ Head(todo[i]) \in Names /\ Target(i) \in Files /\ Tail(todo[i]) \in Seq(Names)
         /\ Head(todo[i]) = todo[i][1] /\ 1 \in 1..Len(todo[i])
  BY FilesAssumption DEF FilesType, Target

LEMMA FilesInitType == FilesInit => FilesType
<1> SUFFICES ASSUME FilesInit PROVE FilesType
  OBVIOUS
<1>1. Present = {}
  BY DEF FilesInit, Present
<1>2. IsFiniteSet(Present)
  BY <1>1, FS_EmptySet
<1>3. dir \in [Files -> {NoFile} \union Contents] /\ stage \in [Processes -> FileStages]
  BY DEF FilesInit, FileStages
<1>4. \A p \in Processes : stage[p] \in {"new", "unused"} /\ todo[p] = << >>
  BY DEF FilesInit
<1>5. DOMAIN todo = Processes /\ Importers \subseteq Processes /\ Loaders \subseteq Processes
  BY DEF FilesInit, Processes
<1>6. /\ plan \in [Importers -> Seq(Names)] /\ output \in [Importers -> Seq(Files)]
      /\ actions \in [Loaders -> SUBSET (Names \X Files)] /\ edits \in Nat
      /\ steady \in [Loaders -> SUBSET Files]
  BY DEF FilesInit
<1>0. << >> \in Seq(Names) /\ << >> \in Seq(Files)
  OBVIOUS
<1>7. \A i \in Importers :
        /\ stage[i] \notin {"read", "loaded"} /\ todo[i] \in Seq(Names)
        /\ stage[i] \in {"write", "undo"} => todo[i] # << >>
  BY <1>0, <1>4, <1>5
<1>8. \A p \in Loaders :
        /\ stage[p] \in {"new", "unused", "read", "loaded", "failed"} /\ todo[p] \in Seq(Files)
  BY <1>0, <1>4, <1>5
<1> QED
  BY <1>2, <1>3, <1>5, <1>6, <1>7, <1>8 DEF FilesType

\* One file changes at a time.
LEMMA OneFile ==
  ASSUME FilesType, NEW f \in Files, NEW c \in {NoFile} \union Contents,
         dir' = [dir EXCEPT ![f] = c]
  PROVE  dir' \in [Files -> {NoFile} \union Contents] /\ IsFiniteSet(Present')
<1>1. dir' \in [Files -> {NoFile} \union Contents]
  BY DEF FilesType
<1>2. Present' \subseteq Present \union {f}
  BY DEF FilesType, Present
<1>3. IsFiniteSet(Present \union {f})
  BY FS_AddElement DEF FilesType
<1>4. IsFiniteSet(Present')
  BY <1>2, <1>3, FS_Subset
<1> QED
  BY <1>1, <1>4

LEMMA SameFiles ==
  ASSUME FilesType, dir' = dir
  PROVE  dir' \in [Files -> {NoFile} \union Contents] /\ IsFiniteSet(Present')
<1>1. Present' = Present
  BY DEF Present
<1> QED
  BY <1>1 DEF FilesType

LEMMA SteadyType ==
  ASSUME FilesType, FilesNext
  PROVE  steady' \in [Loaders -> SUBSET Files]
<1>1. ASSUME NEW p \in Loaders PROVE Steady(p) \in SUBSET Files
  BY DEF FilesType, Steady, Present
<1> QED
  BY <1>1 DEF FilesNext


\* What a step of one import does to the types.
LEMMA ImportTypeStep ==
  ASSUME FilesType, NEW i \in Importers,
         DOMAIN stage' = Processes, DOMAIN todo' = Processes,
         stage'[i] \in FileStages \ {"read", "loaded"}, todo'[i] \in Seq(Names),
         stage'[i] \in {"write", "undo"} => todo'[i] # << >>,
         \A q \in Processes \ {i} : stage'[q] = stage[q] /\ todo'[q] = todo[q],
         stage' \in [Processes -> FileStages],
         plan' \in [Importers -> Seq(Names)],
         output' \in [Importers -> Seq(Files)],
         dir' \in [Files -> {NoFile} \union Contents], IsFiniteSet(Present'),
         actions' = actions, edits' = edits,
         steady' \in [Loaders -> SUBSET Files]
  PROVE  FilesType'
<1>1. i \in Processes /\ i \notin Loaders /\ Importers \subseteq Processes /\ Loaders \subseteq Processes
  BY FilesAssumption DEF Processes
<1>3. ASSUME NEW j \in Importers
      PROVE  /\ stage'[j] \notin {"read", "loaded"} /\ todo'[j] \in Seq(Names)
             /\ stage'[j] \in {"write", "undo"} => todo'[j] # << >>
  BY <1>1 DEF FilesType
<1>4. ASSUME NEW p \in Loaders
      PROVE  /\ stage'[p] \in {"new", "unused", "read", "loaded", "failed"}
             /\ todo'[p] \in Seq(Files)
  BY <1>1 DEF FilesType
<1>5. actions' \in [Loaders -> SUBSET (Names \X Files)] /\ edits' \in Nat
  BY DEF FilesType
<1> QED
  BY <1>3, <1>4, <1>5 DEF FilesType

LEMMA ImportType ==
  ASSUME FilesType, FilesNext, NEW i \in Importers, ImportDocument(i) \/ ImportKilled(i)
  PROVE  FilesType'
<1>a. i \in Processes
  BY DEF Processes
<1>b. /\ todo[i] \in Seq(Names) /\ DOMAIN todo = Processes /\ stage \in [Processes -> FileStages]
      /\ plan \in [Importers -> Seq(Names)] /\ output \in [Importers -> Seq(Files)]
      /\ stage[i] \notin {"read", "loaded"}
  BY DEF FilesType
<1>s. steady' \in [Loaders -> SUBSET Files]
  BY SteadyType
<1>u. dir' = dir => dir' \in [Files -> {NoFile} \union Contents] /\ IsFiniteSet(Present')
  BY SameFiles
<1> USE <1>a, <1>b, <1>s, <1>u, FilesAssumption DEF Enter, history, FileStages
<1>1. CASE ParseOperations(i)
  <2>1. CASE Enter(i, "failed") /\ UNCHANGED <<plan, todo>>
    BY <1>1, <2>1, ImportTypeStep DEF ParseOperations
  <2>2. CASE \E names \in BoundedSeq(Names, MaxOperations) :
               /\ plan' = [plan EXCEPT ![i] = names]
               /\ todo' = [todo EXCEPT ![i] = names]
               /\ Enter(i, "check")
    <3>1. PICK names \in BoundedSeq(Names, MaxOperations) :
               /\ plan' = [plan EXCEPT ![i] = names]
               /\ todo' = [todo EXCEPT ![i] = names]
               /\ Enter(i, "check")
      BY <2>2
    <3>2. names \in Seq(Names)
      BY BoundedIsSeq
    <3> QED
      BY <1>1, <3>1, <3>2, ImportTypeStep DEF ParseOperations
  <2> QED
    BY <1>1, <2>1, <2>2 DEF ParseOperations
<1>2. CASE CheckTarget(i)
  <2>1. CASE Enter(i, "failed") /\ UNCHANGED todo
    BY <1>2, <2>1, ImportTypeStep DEF CheckTarget
  <2>2. CASE todo' = [todo EXCEPT ![i] = Tail(@)] /\ UNCHANGED stage
    BY <1>2, <2>2, ImportTypeStep, TypeNames DEF CheckTarget
  <2> QED
    BY <1>2, <2>1, <2>2 DEF CheckTarget
<1>3. CASE Serialize(i)
  BY <1>3, ImportTypeStep DEF Serialize
<1>4. CASE CreateDraft(i)
  <2>1. Half(Head(todo[i]), i) \in Contents
    BY <1>4, TypeNames DEF CreateDraft, Half, Contents
  <2>2. dir' \in [Files -> {NoFile} \union Contents] /\ IsFiniteSet(Present')
    BY <1>4, <2>1, TypeNames, OneFile DEF CreateDraft
  <2> QED
    BY <1>4, <2>2, ImportTypeStep DEF CreateDraft
<1>5. CASE WriteDraft(i)
  <2>0. todo[i] # << >>
    BY <1>5 DEF WriteDraft, FilesType
  <2>1. Whole(Head(todo[i]), i) \in Contents
    BY <2>0, TypeNames DEF Whole, Contents
  <2>2. dir' \in [Files -> {NoFile} \union Contents] /\ IsFiniteSet(Present')
    BY <1>5, <2>0, <2>1, TypeNames, OneFile DEF WriteDraft
  <2>3. output' \in [Importers -> Seq(Files)]
    BY <1>5, <2>0, TypeNames DEF WriteDraft, FilesType
  <2>4. /\ stage' = [stage EXCEPT ![i] = "create"] /\ todo' = [todo EXCEPT ![i] = Tail(todo[i])]
        /\ plan' = plan /\ actions' = actions /\ edits' = edits
    BY <1>5 DEF WriteDraft
  <2> QED
    BY <2>0, <2>2, <2>3, <2>4, TypeNames, ImportTypeStep
<1>6. CASE WriteFails(i)
  <2>1. todo[i] # << >> /\ UNCHANGED <<dir, plan, todo, output, actions, edits>>
        /\ stage' = [stage EXCEPT ![i] = "undo"]
    BY <1>6 DEF WriteFails
  <2> QED
    BY <2>1, ImportTypeStep
<1>7. CASE UndoTarget(i)
  <2>0. todo[i] # << >>
    BY <1>7 DEF UndoTarget, FilesType
  <2>1. dir' \in [Files -> {NoFile} \union Contents] /\ IsFiniteSet(Present')
    BY <1>7, <2>0, TypeNames, OneFile DEF UndoTarget, RemoveFile
  <2> QED
    BY <1>7, <2>1, ImportTypeStep DEF UndoTarget
<1>8. CASE UndoCreated(i)
  <2>1. /\ Head(output[i]) \in Files
        /\ output' \in [Importers -> Seq(Files)]
    BY <1>8 DEF UndoCreated, FilesType
  <2>2. dir' \in [Files -> {NoFile} \union Contents] /\ IsFiniteSet(Present')
    BY <1>8, <2>1, OneFile DEF UndoCreated, RemoveFile
  <2> QED
    BY <1>8, <2>1, <2>2, ImportTypeStep DEF UndoCreated
<1>9. CASE EndImport(i)
  <2>1. PICK s \in {"failed", "imported"} : stage' = [stage EXCEPT ![i] = s]
    BY <1>9 DEF EndImport
  <2>2. UNCHANGED <<dir, plan, todo, output, actions, edits>>
    BY <1>9 DEF EndImport
  <2> QED
    BY <2>1, <2>2, ImportTypeStep
<1>10. CASE ImportKilled(i)
  BY <1>10, ImportTypeStep DEF ImportKilled
<1> QED
  BY <1>1, <1>2, <1>3, <1>4, <1>5, <1>6, <1>7, <1>8, <1>9, <1>10 DEF ImportDocument

LEMMA LoadTypeStep ==
  ASSUME FilesType, NEW p \in Loaders, UNCHANGED <<dir, plan, output, edits>>,
         stage' \in [Processes -> FileStages], DOMAIN todo' = Processes,
         stage'[p] \in {"read", "loaded", "failed"}, todo'[p] \in Seq(Files),
         \A q \in Processes \ {p} : stage'[q] = stage[q] /\ todo'[q] = todo[q],
         actions' \in [Loaders -> SUBSET (Names \X Files)],
         steady' \in [Loaders -> SUBSET Files]
  PROVE  FilesType'
<1>1. p \in Processes /\ p \notin Importers /\ Importers \subseteq Processes /\ Loaders \subseteq Processes
  BY FilesAssumption DEF Processes
<1>2. dir' \in [Files -> {NoFile} \union Contents] /\ IsFiniteSet(Present')
  BY SameFiles
<1>3. ASSUME NEW j \in Importers
      PROVE  /\ stage'[j] \notin {"read", "loaded"} /\ todo'[j] \in Seq(Names)
             /\ stage'[j] \in {"write", "undo"} => todo'[j] # << >>
  BY <1>1 DEF FilesType
<1>4. ASSUME NEW q \in Loaders
      PROVE  /\ stage'[q] \in {"new", "unused", "read", "loaded", "failed"}
             /\ todo'[q] \in Seq(Files)
  BY <1>1 DEF FilesType
<1>5. plan' \in [Importers -> Seq(Names)] /\ output' \in [Importers -> Seq(Files)] /\ edits' \in Nat
  BY DEF FilesType
<1> QED
  BY <1>2, <1>3, <1>4, <1>5 DEF FilesType

\* A set written down as a sequence.
LEMMA AllAreListed ==
  ASSUME NEW S, IsFiniteSet(S), NEW s \in SetToSeqs(S)
  PROVE  /\ s \in Seq(S) /\ ToSet(s) = S
         /\ \A i, j \in DOMAIN s : i # j => s[i] # s[j]
<1> DEFINE n == Cardinality(S)
<1>1. n \in Nat
  BY FS_CardinalityType
<1>2. s \in [1..n -> S] /\ \A a, b \in 1..n : a # b => s[a] # s[b]
  BY DEF SetToSeqs
<1>3. Cardinality(1..n) = n /\ IsFiniteSet(1..n)
  BY <1>1, FS_Interval
<1>4. s \in Injection(1..n, S)
  BY <1>2, Fun_IsInj
<1>5. s \in Surjection(1..n, S)
  BY <1>1, <1>3, <1>4, FS_Injection
<1>6. \A e \in S : \E m \in 1..n : s[m] = e
  BY <1>5 DEF Surjection
<1> HIDE DEF n
<1> QED
  BY <1>1, <1>2, <1>6 DEF ToSet

\* The listing names every file, once.
LEMMA ListingIsComplete ==
  ASSUME FilesType, NEW paths \in SetToSeqs(Present)
  PROVE  paths \in Seq(Files) /\ \A f \in Present : \E m \in 1..Len(paths) : paths[m] = f
<1>1. IsFiniteSet(Present) /\ Present \subseteq Files
  BY DEF FilesType, Present
<1>2. paths \in Seq(Present) /\ ToSet(paths) = Present
  BY <1>1, AllAreListed
<1> QED
  BY <1>1, <1>2 DEF ToSet

LEMMA LoadType ==
  ASSUME FilesType, FilesNext, NEW p \in Loaders, Load(p)
  PROVE  FilesType'
<1>a. p \in Processes
  BY DEF Processes
<1>b. /\ todo[p] \in Seq(Files) /\ DOMAIN todo = Processes /\ stage \in [Processes -> FileStages]
      /\ actions \in [Loaders -> SUBSET (Names \X Files)]
      /\ dir \in [Files -> {NoFile} \union Contents]
  BY DEF FilesType
<1>s. steady' \in [Loaders -> SUBSET Files]
  BY SteadyType
<1> USE <1>a, <1>b, <1>s DEF Enter, history, FileStages
<1>1. CASE ListFiles(p)
  <2>1. UNCHANGED <<dir, plan, output, actions, edits>>
    BY <1>1 DEF ListFiles
  <2>2. CASE \E paths \in SetToSeqs(Present) :
               /\ stage' = [stage EXCEPT ![p] = "read"]
               /\ todo' = [todo EXCEPT ![p] = paths]
    <3>1. PICK paths \in SetToSeqs(Present) :
               /\ stage' = [stage EXCEPT ![p] = "read"]
               /\ todo' = [todo EXCEPT ![p] = paths]
      BY <2>2
    <3>2. paths \in Seq(Files)
      BY ListingIsComplete
    <3> QED
      BY <2>1, <3>1, <3>2, LoadTypeStep
  <2>3. CASE stage' = [stage EXCEPT ![p] = "failed"] /\ todo' = todo
    BY <2>1, <2>3, LoadTypeStep
  <2> QED
    BY <1>1, <2>2, <2>3 DEF ListFiles
<1>2. CASE ReadFile(p)
  <2> DEFINE path == Head(todo[p])
             file == dir[path]
  <2>1. todo[p] # << >> /\ path \in Files /\ Tail(todo[p]) \in Seq(Files)
    BY <1>2 DEF ReadFile
  <2>2. UNCHANGED <<dir, plan, output, edits>> /\ todo' = [todo EXCEPT ![p] = Tail(todo[p])]
    BY <1>2 DEF ReadFile
  <2>3. CASE Enter(p, "failed") /\ UNCHANGED actions
    BY <2>1, <2>2, <2>3, LoadTypeStep
  <2>4. CASE /\ file # NoFile /\ UNCHANGED stage /\ stage[p] = "read"
             /\ actions' = [actions EXCEPT ![p] = @ \union {<<file.name, path>>}]
    <3>1. file \in Contents
      BY <2>1, <2>4
    <3>2. <<file.name, path>> \in Names \X Files
      BY <2>1, <3>1 DEF Contents
    <3>3. actions' \in [Loaders -> SUBSET (Names \X Files)]
      BY <2>4, <3>2
    <3> QED
      BY <2>1, <2>2, <2>4, <3>3, LoadTypeStep
  <2> QED
    BY <1>2, <2>3, <2>4 DEF ReadFile
<1>3. CASE EndLoad(p)
  BY <1>3, LoadTypeStep DEF EndLoad
<1> QED
  BY <1>1, <1>2, <1>3 DEF Load

LEMMA EditType == ASSUME FilesType, FilesNext, EditFile PROVE FilesType'
<1>1. PICK f \in Files, c \in {NoFile} \union Contents : dir' = [dir EXCEPT ![f] = c]
  BY DEF EditFile, Whole, Contents
<1>2. dir' \in [Files -> {NoFile} \union Contents] /\ IsFiniteSet(Present')
  BY <1>1, OneFile
<1>3. edits' \in Nat /\ UNCHANGED <<stage, plan, todo, output, actions>>
  BY DEF EditFile, FilesType
<1>4. steady' \in [Loaders -> SUBSET Files]
  BY SteadyType
<1> QED
  BY <1>2, <1>3, <1>4 DEF FilesType

LEMMA FilesTypeStep == ASSUME FilesType, [FilesNext]_filesVars PROVE FilesType'
<1>1. CASE UNCHANGED filesVars
  BY <1>1, SameFiles DEF filesVars, FilesType
<1> QED
  BY <1>1, ImportType, LoadType, EditType DEF FilesNext


\* The files that an import has put there; those it has still to answer for are
\* the ones it knows that it created and the one it is about.
Own(i) == {f \in Files : dir[f] # NoFile /\ dir[f].by = i}
Known(i) ==
  CASE stage[i] \in {"create", "undone"} -> ToSet(output[i])
    [] stage[i] \in {"write", "undo"} -> ToSet(output[i]) \union {Target(i)}
    [] OTHER -> {}

OwnIsKnown(i) ==
  stage[i] \notin {"imported", "killed"} =>
    \A f \in Own(i) : f \in Known(i) \/ <<i, f>> \in stuck

\* A draft that was written is there, or somebody else has taken it away.
Taken(f) == edits > 0 \/ \E j \in Importers : <<j, f>> \in deleted
Done(i) == Len(plan[i]) - Len(todo[i])

WrittenIsThere(i) ==
  stage[i] \in {"create", "write", "imported"} =>
    /\ Len(todo[i]) <= Len(plan[i])
    /\ \A m \in 1..Len(todo[i]) : todo[i][m] = plan[i][Done(i) + m]
    /\ \A m \in 1..Done(i) :
         dir[FileOf[plan[i][m]]] = Whole(plan[i][m], i) \/ Taken(FileOf[plan[i][m]])
    /\ stage[i] = "write" => dir[Target(i)] = Half(Head(todo[i]), i) \/ Taken(Target(i))
    /\ stage[i] = "imported" => todo[i] = << >>

\* What is left of the listing and what was read make up what did not change.
Listed(p) ==
  stage[p] \in {"read", "loaded"} =>
    /\ \A f \in steady[p] :
         (\E m \in 1..Len(todo[p]) : todo[p][m] = f) \/ <<dir[f].name, f>> \in actions[p]
    /\ stage[p] = "loaded" => todo[p] = << >>

OneOfEach(p) ==
  /\ IsFiniteSet(actions[p])
  /\ \A d, e \in actions[p] : d[1] = e[1] => d = e

FilesInv ==
  /\ FilesType
  /\ \A i \in Importers : OwnIsKnown(i) /\ WrittenIsThere(i)
  /\ \A p \in Loaders : Listed(p) /\ OneOfEach(p)

\* A step that leaves i alone: it puts no file there in i's name, and says so when
\* it takes one away.
Spares(i) ==
  /\ stage'[i] = stage[i] /\ plan'[i] = plan[i] /\ todo'[i] = todo[i] /\ output'[i] = output[i]
  /\ stuck \subseteq stuck'
  /\ \A f \in Files :
       /\ dir'[f] # NoFile /\ dir'[f].by = i => dir'[f] = dir[f]
       /\ dir[f] # NoFile /\ dir[f].by = i /\ dir'[f] # dir[f] => Taken(f)'
       /\ Taken(f) => Taken(f)'

LEMMA SparedKeeps ==
  ASSUME FilesType, NEW i \in Importers, OwnIsKnown(i), WrittenIsThere(i), Spares(i)
  PROVE  OwnIsKnown(i)' /\ WrittenIsThere(i)'
<1>1. OwnIsKnown(i)'
  BY DEF OwnIsKnown, Spares, Own, Known, Target
<1>2. ASSUME NEW n \in Names, NEW w \in BOOLEAN,
             dir[FileOf[n]] = [name |-> n, by |-> i, whole |-> w] \/ Taken(FileOf[n])
      PROVE  dir'[FileOf[n]] = [name |-> n, by |-> i, whole |-> w] \/ Taken(FileOf[n])'
  <2>1. FileOf[n] \in Files /\ [name |-> n, by |-> i, whole |-> w] \in Contents
    BY FilesAssumption DEF Contents
  <2> QED
    BY <1>2, <2>1, FilesAssumption DEF Spares, Contents
<1>5. /\ \A n \in Names : dir[FileOf[n]] = Whole(n, i) \/ Taken(FileOf[n]) =>
           dir'[FileOf[n]] = Whole(n, i) \/ Taken(FileOf[n])'
      /\ \A n \in Names : dir[FileOf[n]] = Half(n, i) \/ Taken(FileOf[n]) =>
           dir'[FileOf[n]] = Half(n, i) \/ Taken(FileOf[n])'
  BY <1>2 DEF Whole, Half
<1>3. \A m \in 1..Len(plan[i]) : plan[i][m] \in Names
  BY DEF FilesType
<1>4. WrittenIsThere(i)'
  <2> SUFFICES ASSUME stage[i] \in {"create", "write", "imported"} PROVE WrittenIsThere(i)'
    BY DEF WrittenIsThere, Spares
  <2>1. plan[i] \in Seq(Names) /\ todo[i] \in Seq(Names)
    BY DEF FilesType
  <2>2. \A m \in 1..Done(i) : m \in 1..Len(plan[i])
    BY <2>1 DEF Done
  <2>3. \A m \in 1..Done(i) :
          dir'[FileOf[plan[i][m]]] = Whole(plan[i][m], i) \/ Taken(FileOf[plan[i][m]])'
    <3>1. plan'[i] = plan[i]
      BY DEF Spares
    <3> QED
      BY <1>3, <1>5, <2>2, <3>1 DEF WrittenIsThere, Taken
  <2>4. stage[i] = "write" => dir'[Target(i)] = Half(Head(todo[i]), i) \/ Taken(Target(i))'
    <3>1. stage[i] = "write" => Head(todo[i]) \in Names
      BY TypeNames DEF FilesType
    <3> QED
      BY <1>5, <3>1 DEF WrittenIsThere, Target, Spares
  <2> QED
    BY <2>3, <2>4 DEF WrittenIsThere, Spares, Done, Target, Taken
<1> QED
  BY <1>1, <1>4

LEMMA OthersSpare ==
  ASSUME FilesType, NEW i \in Importers, NEW j \in Importers \ {i},
         ImportDocument(j) \/ ImportKilled(j)
  PROVE  Spares(i)
<1>1. i \in Processes /\ j \in Processes
  BY DEF Processes
<1>2. /\ stage'[i] = stage[i] /\ plan'[i] = plan[i] /\ todo'[i] = todo[i] /\ output'[i] = output[i]
      /\ stuck \subseteq stuck' /\ edits' = edits /\ deleted \subseteq deleted'
  BY <1>1 DEF FilesType, ImportDocument, ParseOperations, CheckTarget, Serialize, CreateDraft,
    WriteDraft, WriteFails, UndoTarget, UndoCreated, RemoveFile, EndImport, ImportKilled, Enter,
    history
<1>3. ASSUME NEW f \in Files
      PROVE  /\ dir'[f] # NoFile /\ dir'[f].by = i => dir'[f] = dir[f]
             /\ dir[f] # NoFile /\ dir[f].by = i /\ dir'[f] # dir[f] => <<j, f>> \in deleted'
  <2>1. CASE dir' = dir
    BY <2>1
  <2>2. CASE CreateDraft(j)
    BY <2>2, TypeNames DEF CreateDraft, FilesType, Half
  <2>3. CASE WriteDraft(j)
    BY <2>3, TypeNames DEF WriteDraft, FilesType, Half, Whole
  <2>4. ASSUME NEW g \in Files, RemoveFile(j, g) PROVE <1>3!2
    BY <2>4 DEF RemoveFile, FilesType, Present
  <2>5. CASE UndoTarget(j)
    BY <2>4, <2>5, TypeNames DEF UndoTarget, FilesType
  <2>6. CASE UndoCreated(j)
    <3>1. Head(output[j]) \in Files
      BY <2>6 DEF UndoCreated, FilesType
    <3> QED
      BY <2>4, <2>6, <3>1 DEF UndoCreated
  <2> QED
    BY <2>1, <2>2, <2>3, <2>5, <2>6 DEF ImportDocument, ParseOperations, CheckTarget, Serialize,
      WriteFails, EndImport, ImportKilled
<1> QED
  BY <1>2, <1>3 DEF Spares, Taken

LEMMA ToSetFacts ==
  ASSUME NEW S, NEW s \in Seq(S)
  PROVE  /\ \A x \in S : ToSet(Append(s, x)) = ToSet(s) \union {x}
         /\ s # << >> => Head(s) \in S /\ ToSet(s) = ToSet(Tail(s)) \union {Head(s)}
         /\ s = << >> => ToSet(s) = {}
<1>1. ASSUME NEW x \in S PROVE ToSet(Append(s, x)) = ToSet(s) \union {x}
  <2> DEFINE t == Append(s, x)
  <2>1. /\ DOMAIN s = 1..Len(s) /\ DOMAIN t = 1..(Len(s) + 1) /\ Len(s) \in Nat
        /\ t[Len(s) + 1] = x /\ \A m \in DOMAIN s : t[m] = s[m]
    OBVIOUS
  <2>2. ASSUME NEW y \in ToSet(t) PROVE y \in ToSet(s) \union {x}
    <3>1. PICK m \in DOMAIN t : y = t[m]
      BY DEF ToSet
    <3>2. m = Len(s) + 1 \/ m \in DOMAIN s
      BY <2>1
    <3> QED
      BY <2>1, <3>1, <3>2 DEF ToSet
  <2>3. ASSUME NEW y \in ToSet(s) \union {x} PROVE y \in ToSet(t)
    <3>1. Len(s) + 1 \in DOMAIN t /\ \A m \in DOMAIN s : m \in DOMAIN t
      BY <2>1
    <3> HIDE DEF t
    <3> QED
      BY <2>1, <3>1 DEF ToSet
  <2> QED
    BY <2>2, <2>3
<1>2. ASSUME s # << >> PROVE Head(s) \in S /\ ToSet(s) = ToSet(Tail(s)) \union {Head(s)}
  <2>1. /\ Head(s) \in S /\ s[1] = Head(s) /\ 1 \in DOMAIN s
        /\ \A m \in DOMAIN Tail(s) : m + 1 \in DOMAIN s /\ Tail(s)[m] = s[m + 1]
        /\ \A m \in DOMAIN s : m = 1 \/ (m - 1 \in DOMAIN Tail(s) /\ Tail(s)[m - 1] = s[m])
    BY <1>2
  <2> DEFINE t == Tail(s)
  <2>2. ASSUME NEW y \in ToSet(s) PROVE y \in ToSet(t) \union {Head(s)}
    <3>1. PICK m \in DOMAIN s : y = s[m]
      BY DEF ToSet
    <3> HIDE DEF t
    <3> QED
      BY <2>1, <3>1 DEF ToSet, t
  <2>3. ASSUME NEW y \in ToSet(t) \union {Head(s)} PROVE y \in ToSet(s)
    <3>1. \/ y = Head(s)
          \/ \E m \in DOMAIN t : y = t[m]
      BY DEF ToSet
    <3>2. \E m \in DOMAIN s : y = s[m]
      BY <2>1, <3>1
    <3> QED
      BY <3>2 DEF ToSet
  <2> QED
    BY <2>1, <2>2, <2>3
<1>3. s = << >> => ToSet(s) = {}
  BY DEF ToSet
<1> QED
  BY <1>1, <1>2, <1>3

\* An import knows what it creates until it has removed it.
LEMMA OwnIsKnownStep ==
  ASSUME FilesType, NEW i \in Importers, OwnIsKnown(i), ImportDocument(i) \/ ImportKilled(i)
  PROVE  OwnIsKnown(i)'
<1>a. /\ i \in Processes /\ output[i] \in Seq(Files) /\ stage[i] \in FileStages
      /\ stage \in [Processes -> FileStages] /\ output \in [Importers -> Seq(Files)]
  BY DEF FilesType, Processes
<1> USE <1>a DEF Enter, history, FileStages
<1>1. CASE /\ stage[i] \in {"new", "check"}
           /\ stage'[i] \in {"check", "create", "failed"} /\ UNCHANGED <<dir, stuck>>
  BY <1>1 DEF OwnIsKnown, Own, Known
<1>2. CASE CreateDraft(i)
  <2>1. Target(i)' = Target(i) /\ output'[i] = output[i] /\ stage'[i] = "write" /\ stuck' = stuck
        /\ \A f \in Files : f # Target(i) => dir'[f] = dir[f]
    BY <1>2 DEF CreateDraft, Target, FilesType
  <2> QED
    BY <1>2, <2>1 DEF OwnIsKnown, Own, Known, CreateDraft
<1>3. CASE WriteDraft(i)
  <2>1. todo[i] # << >> /\ Target(i) \in Files
    BY <1>3, TypeNames DEF WriteDraft, FilesType
  <2>2. ToSet(output'[i]) = ToSet(output[i]) \union {Target(i)}
    BY <1>3, <2>1, ToSetFacts DEF WriteDraft
  <2>3. stage'[i] = "create" /\ stage[i] = "write" /\ stuck' = stuck
        /\ \A f \in Files : f # Target(i) => dir'[f] = dir[f]
    BY <1>3 DEF WriteDraft, FilesType
  <2> QED
    BY <2>2, <2>3 DEF OwnIsKnown, Own, Known
<1>4. CASE WriteFails(i)
  <2>1. Target(i)' = Target(i) /\ UNCHANGED <<output, stuck, dir>>
        /\ stage'[i] = "undo" /\ stage[i] \in {"create", "write"}
    BY <1>4 DEF WriteFails, Target
  <2> QED
    BY <2>1 DEF OwnIsKnown, Own, Known
<1>5. ASSUME NEW f \in Files, RemoveFile(i, f)
      PROVE  /\ f \in Own(i)' => <<i, f>> \in stuck'
             /\ stuck \subseteq stuck' /\ Own(i)' \subseteq Own(i)
  BY <1>5 DEF RemoveFile, Own, FilesType
<1>6. CASE UndoTarget(i)
  <2>1. todo[i] # << >> /\ Target(i) \in Files
    BY <1>6, TypeNames DEF UndoTarget, FilesType
  <2>2. stage'[i] = "undone" /\ stage[i] = "undo" /\ output' = output
    BY <1>6 DEF UndoTarget
  <2> QED
    BY <1>5, <1>6, <2>1, <2>2 DEF OwnIsKnown, Known, UndoTarget
<1>7. CASE UndoCreated(i)
  <2>1. Head(output[i]) \in Files
        /\ ToSet(output[i]) = ToSet(output'[i]) \union {Head(output[i])}
    BY <1>7, ToSetFacts DEF UndoCreated
  <2>2. stage'[i] = "undone" /\ stage[i] = "undone"
    BY <1>7 DEF UndoCreated
  <2> QED
    BY <1>5, <1>7, <2>1, <2>2 DEF OwnIsKnown, Known, UndoCreated
<1>8. CASE EndImport(i)
  <2>1. /\ stage[i] \in {"create", "undone"} /\ UNCHANGED <<dir, output, stuck>>
        /\ stage'[i] = "imported" \/ (stage'[i] = "failed" /\ output[i] = << >>)
    BY <1>8 DEF EndImport
  <2> QED
    BY <2>1, ToSetFacts DEF OwnIsKnown, Own, Known
<1>9. CASE ImportKilled(i)
  BY <1>9 DEF ImportKilled, OwnIsKnown
<1>10. CASE ParseOperations(i) \/ CheckTarget(i) \/ Serialize(i)
  BY <1>1, <1>10 DEF ParseOperations, CheckTarget, Serialize
<1> QED
  BY <1>2, <1>3, <1>4, <1>6, <1>7, <1>8, <1>9, <1>10 DEF ImportDocument

\* Half of a draft, the whole of it and no file are three things.
LEMMA DraftsDiffer ==
  ASSUME NEW i \in Importers, NEW n \in Names, NEW k \in Names
  PROVE  Whole(n, i) # NoFile /\ Half(n, i) # NoFile /\ Whole(n, i) # Half(k, i)
<1>1. Whole(n, i) \in Contents /\ Half(n, i) \in Contents
  BY DEF Whole, Half, Contents
<1>2. Whole(n, i).whole # Half(k, i).whole
  BY DEF Whole, Half
<1> QED
  BY <1>1, <1>2, FilesAssumption DEF Contents

LEMMA WrittenStep ==
  ASSUME FilesType, NEW i \in Importers, WrittenIsThere(i), ImportDocument(i) \/ ImportKilled(i)
  PROVE  WrittenIsThere(i)'
<1>a. /\ i \in Processes /\ plan[i] \in Seq(Names) /\ todo[i] \in Seq(Names)
      /\ stage \in [Processes -> FileStages] /\ dir \in [Files -> {NoFile} \union Contents]
      /\ DOMAIN todo = Processes
  BY DEF FilesType, Processes
<1> USE <1>a DEF Enter, history
<1>1. CASE stage'[i] \notin {"create", "write", "imported"}
  BY <1>1 DEF WrittenIsThere
<1>2. CASE Serialize(i)
  <2>1. CASE stage'[i] = "create"
    <3>1. todo'[i] = plan[i] /\ plan'[i] = plan[i]
      BY <1>2 DEF Serialize, FilesType
    <3> QED
      BY <2>1, <3>1 DEF WrittenIsThere, Done
  <2> QED
    BY <1>1, <1>2, <2>1 DEF Serialize
<1>3. CASE CreateDraft(i)
  <2>1. /\ plan' = plan /\ todo' = todo /\ edits' = edits /\ deleted' = deleted
        /\ stage[i] = "create" /\ stage'[i] = "write" /\ dir[Target(i)] = NoFile
        /\ \A f \in Files \ {Target(i)} : dir'[f] = dir[f]
        /\ dir'[Target(i)] = Half(Head(todo[i]), i)
    BY <1>3, TypeNames DEF CreateDraft
  <2>2. \A m \in 1..Done(i) : m \in 1..Len(plan[i]) /\ plan[i][m] \in Names
    BY DEF Done
  <2>3. ASSUME NEW m \in 1..Done(i)
        PROVE  dir'[FileOf[plan[i][m]]] = Whole(plan[i][m], i) \/ Taken(FileOf[plan[i][m]])
    BY <2>1, <2>2, DraftsDiffer, FilesAssumption DEF WrittenIsThere
  <2> QED
    BY <2>1, <2>3 DEF WrittenIsThere, Done, Target, Taken
<1>4. CASE WriteDraft(i)
  <2> DEFINE n == Head(todo[i])
  <2>0. todo[i] # << >> /\ n \in Names /\ n = todo[i][1] /\ Target(i) = FileOf[n]
    BY <1>4, TypeNames DEF WriteDraft, FilesType, Target
  <2>1. /\ plan' = plan /\ todo'[i] = Tail(todo[i]) /\ edits' = edits /\ deleted' = deleted
        /\ stage[i] = "write" /\ stage'[i] = "create"
        /\ \A f \in Files \ {Target(i)} : dir'[f] = dir[f]
        /\ IF dir[Target(i)] = Half(n, i) THEN dir'[Target(i)] = Whole(n, i)
           ELSE dir'[Target(i)] = dir[Target(i)]
    BY <1>4, <2>0, TypeNames DEF WriteDraft
  <2>2. /\ Done(i)' = Done(i) + 1 /\ Done(i) \in Nat /\ Done(i) + 1 <= Len(plan[i])
        /\ plan[i][Done(i) + 1] = n
        /\ Len(todo'[i]) = Len(todo[i]) - 1
        /\ \A m \in 1..Len(todo'[i]) : todo'[i][m] = todo[i][m + 1] /\ m + 1 \in 1..Len(todo[i])
    BY <2>0, <2>1 DEF Done, WrittenIsThere
  <2>3. \A m \in 1..Done(i) : m \in 1..Len(plan[i]) /\ plan[i][m] \in Names
    BY DEF Done
  <2>4. ASSUME NEW m \in 1..Done(i)
        PROVE  dir'[FileOf[plan[i][m]]] = Whole(plan[i][m], i) \/ Taken(FileOf[plan[i][m]])
    BY <2>0, <2>1, <2>3, DraftsDiffer, FilesAssumption DEF WrittenIsThere
  <2>5. dir'[FileOf[n]] = Whole(n, i) \/ Taken(FileOf[n])
    BY <2>0, <2>1 DEF WrittenIsThere
  <2>6. \A m \in 1..(Done(i) + 1) : m \in 1..Done(i) \/ m = Done(i) + 1
    BY <2>2
  <2>7. \A m \in 1..Done(i)' :
          dir'[FileOf[plan[i][m]]] = Whole(plan[i][m], i) \/ Taken(FileOf[plan[i][m]])
    BY <2>2, <2>4, <2>5, <2>6
  <2>8. \A m \in 1..Len(todo'[i]) : todo'[i][m] = plan[i][Done(i)' + m]
    <3> TAKE m \in 1..Len(todo'[i])
    <3>1. m + 1 \in 1..Len(todo[i]) /\ todo'[i][m] = todo[i][m + 1]
      BY <2>2
    <3>2. todo[i][m + 1] = plan[i][Done(i) + (m + 1)]
      BY <2>1, <3>1 DEF WrittenIsThere
    <3>3. Done(i)' + m = Done(i) + (m + 1)
      BY <2>2
    <3> QED
      BY <3>1, <3>2, <3>3
  <2>9. Len(todo'[i]) <= Len(plan[i])
    BY <2>1, <2>2 DEF WrittenIsThere
  <2> HIDE DEF n
  <2> QED
    BY <2>1, <2>7, <2>8, <2>9 DEF WrittenIsThere, Taken
<1>5. CASE EndImport(i)
  <2>1. CASE stage'[i] = "imported"
    <3>1. /\ stage[i] = "create" /\ todo[i] = << >>
          /\ UNCHANGED <<dir, plan, todo, output, edits, deleted>>
      BY <1>5, <2>1 DEF EndImport
    <3> QED
      BY <2>1, <3>1 DEF WrittenIsThere, Done, Taken
  <2> QED
    BY <1>1, <1>5, <2>1 DEF EndImport
<1>6. CASE \/ ParseOperations(i) \/ CheckTarget(i) \/ WriteFails(i)
           \/ UndoTarget(i) \/ UndoCreated(i) \/ ImportKilled(i)
  BY <1>1, <1>6 DEF ParseOperations, CheckTarget, WriteFails, UndoTarget, UndoCreated, ImportKilled
<1> QED
  BY <1>2, <1>3, <1>4, <1>5, <1>6 DEF ImportDocument

\* A listing loses only what was read or what has changed since.
LEMMA ListedStep ==
  ASSUME FilesType, FilesNext, NEW p \in Loaders, Listed(p)
  PROVE  Listed(p)'
<1>a. /\ p \in Processes /\ todo[p] \in Seq(Files) /\ stage \in [Processes -> FileStages]
      /\ actions \in [Loaders -> SUBSET (Names \X Files)] /\ DOMAIN todo = Processes
  BY DEF FilesType, Processes
<1>b. steady'[p] = Steady(p)
  BY DEF FilesNext
<1> USE <1>a DEF Enter
<1>1. CASE stage'[p] = stage[p] /\ todo'[p] = todo[p] /\ actions'[p] = actions[p]
  BY <1>1, <1>b DEF Listed, Steady
<1>2. CASE stage'[p] \notin {"read", "loaded"}
  BY <1>2 DEF Listed
<1>3. CASE ListFiles(p)
  <2>1. CASE stage'[p] = "read"
    <3>1. /\ todo'[p] \in SetToSeqs(Present) /\ stage[p] = "new"
      BY <1>3, <2>1 DEF ListFiles
    <3>2. steady'[p] = Present
      BY <1>b, <3>1 DEF Steady
    <3> QED
      BY <2>1, <3>1, <3>2, ListingIsComplete DEF Listed
  <2> QED
    BY <1>2, <1>3, <2>1 DEF ListFiles
<1>4. CASE ReadFile(p)
  <2>1. CASE stage'[p] = "read"
    <3> DEFINE path == Head(todo[p])
    <3>1. /\ stage[p] = "read" /\ todo[p] # << >> /\ todo'[p] = Tail(todo[p]) /\ dir' = dir
          /\ actions'[p] = actions[p] \union {<<dir[path].name, path>>}
      BY <1>4, <2>1 DEF ReadFile
    <3>2. steady'[p] \subseteq steady[p]
      BY <1>b, <3>1 DEF Steady
    <3>3. \A m \in 1..Len(todo[p]) :
            todo[p][m] = path \/ (m - 1 \in 1..Len(todo'[p]) /\ todo'[p][m - 1] = todo[p][m])
      BY <3>1
    <3>4. ASSUME NEW f \in steady'[p]
          PROVE  \/ \E m \in 1..Len(todo'[p]) : todo'[p][m] = f
                 \/ <<dir[f].name, f>> \in actions'[p]
      <4>1. CASE \E m \in 1..Len(todo[p]) : todo[p][m] = f
        BY <3>1, <3>3, <4>1
      <4>2. CASE <<dir[f].name, f>> \in actions[p]
        BY <3>1, <4>2
      <4> QED
        BY <3>1, <3>2, <4>1, <4>2 DEF Listed
    <3> QED
      BY <2>1, <3>1, <3>4 DEF Listed
  <2> QED
    BY <1>2, <1>4, <2>1 DEF ReadFile, FilesType
<1>5. CASE EndLoad(p)
  <2>1. /\ stage[p] = "read" /\ todo[p] = << >> /\ stage'[p] = "loaded"
        /\ UNCHANGED <<dir, todo, actions>>
    BY <1>5 DEF EndLoad
  <2>2. steady'[p] \subseteq steady[p]
    BY <1>b, <2>1 DEF Steady
  <2> QED
    BY <2>1, <2>2 DEF Listed
<1>6. ASSUME NEW q \in Loaders, q # p, Load(q) PROVE Listed(p)'
  <2>1. stage'[p] = stage[p] /\ todo'[p] = todo[p] /\ actions'[p] = actions[p]
    BY <1>6 DEF Load, ListFiles, ReadFile, EndLoad
  <2> QED
    BY <1>1, <2>1
<1>7. ASSUME NEW i \in Importers, ImportDocument(i) \/ ImportKilled(i) PROVE Listed(p)'
  <2>0. i # p
    BY FilesAssumption
  <2>1. stage'[p] = stage[p] /\ todo'[p] = todo[p] /\ actions'[p] = actions[p]
    BY <1>7, <2>0 DEF ImportDocument, ParseOperations, CheckTarget, Serialize, CreateDraft,
      WriteDraft, WriteFails, UndoTarget, UndoCreated, EndImport, ImportKilled
  <2> QED
    BY <1>1, <2>1
<1>8. CASE EditFile
  BY <1>1, <1>8 DEF EditFile
<1> QED
  BY <1>3, <1>4, <1>5, <1>6, <1>7, <1>8 DEF FilesNext, Load

LEMMA OneOfEachStep ==
  ASSUME FilesType, FilesNext, NEW p \in Loaders, OneOfEach(p)
  PROVE  OneOfEach(p)'
<1>1. CASE actions'[p] = actions[p]
  BY <1>1 DEF OneOfEach
<1>2. CASE ReadFile(p) /\ actions'[p] # actions[p]
  <2>1. PICK n, f : actions'[p] = actions[p] \union {<<n, f>>} /\ n \notin NamesIn(p)
    BY <1>2 DEF ReadFile, FilesType
  <2>2. IsFiniteSet(actions'[p])
    <3>1. IsFiniteSet(actions[p])
      BY DEF OneOfEach
    <3>2. IsFiniteSet(actions[p] \union {<<n, f>>})
      BY <3>1, FS_AddElement
    <3> QED
      BY <2>1, <3>2
  <2>3. \A e \in actions[p] : e[1] # n
    BY <2>1 DEF NamesIn
  <2> QED
    BY <2>1, <2>2, <2>3 DEF OneOfEach
<1>3. ASSUME NEW q \in Loaders, Load(q) PROVE ReadFile(p) \/ actions'[p] = actions[p]
  BY <1>3 DEF Load, ListFiles, ReadFile, EndLoad, FilesType
<1>4. ASSUME NEW i \in Importers, ImportDocument(i) \/ ImportKilled(i)
      PROVE  actions'[p] = actions[p]
  BY <1>4 DEF ImportDocument, ParseOperations, CheckTarget, Serialize, CreateDraft,
    WriteDraft, WriteFails, UndoTarget, UndoCreated, EndImport, ImportKilled
<1>5. EditFile => actions'[p] = actions[p]
  BY DEF EditFile
<1> QED
  BY <1>1, <1>2, <1>3, <1>4, <1>5 DEF FilesNext

LEMMA OneOfEachCounts ==
  ASSUME NEW p \in Loaders, OneOfEach(p)
  PROVE  Cardinality(NamesIn(p)) = Cardinality(actions[p])
<1> DEFINE first == [e \in actions[p] |-> e[1]]
<1>1. first \in Bijection(actions[p], NamesIn(p))
  <2>1. first \in [actions[p] -> NamesIn(p)]
    BY DEF NamesIn
  <2>2. \A d, e \in actions[p] : first[d] = first[e] => d = e
    BY DEF OneOfEach
  <2>3. \A n \in NamesIn(p) : \E e \in actions[p] : first[e] = n
    BY DEF NamesIn
  <2>4. first \in Surjection(actions[p], NamesIn(p))
    BY <2>1, <2>3 DEF Surjection
  <2> QED
    BY <2>1, <2>2, <2>4, Fun_IsInj DEF Bijection
<1> QED
  BY <1>1, FS_Bijection, Fun_ExistsBij DEF OneOfEach

LEMMA FilesInitInv == FilesInit => FilesInv
<1> SUFFICES ASSUME FilesInit PROVE FilesInv
  OBVIOUS
<1>1. ASSUME NEW i \in Importers PROVE OwnIsKnown(i) /\ WrittenIsThere(i)
  BY DEF FilesInit, Processes, OwnIsKnown, WrittenIsThere, Own
<1>2. ASSUME NEW p \in Loaders PROVE Listed(p) /\ OneOfEach(p)
  BY FS_EmptySet DEF FilesInit, Processes, Listed, OneOfEach
<1> QED
  BY <1>1, <1>2, FilesInitType DEF FilesInv

LEMMA FilesInvStep == ASSUME FilesInv, [FilesNext]_filesVars PROVE FilesInv'
<1>1. FilesType'
  BY FilesTypeStep DEF FilesInv
<1>2. ASSUME NEW i \in Importers PROVE OwnIsKnown(i)' /\ WrittenIsThere(i)'
  <2>1. ASSUME NEW j \in Importers, ImportDocument(j) \/ ImportKilled(j)
        PROVE  OwnIsKnown(i)' /\ WrittenIsThere(i)'
    <3>1. CASE j = i
      BY <2>1, <3>1, OwnIsKnownStep, WrittenStep DEF FilesInv
    <3>2. CASE j # i
      BY <2>1, <3>2, OthersSpare, SparedKeeps DEF FilesInv
    <3> QED
      BY <3>1, <3>2
  <2>2. CASE UNCHANGED filesVars \/ \E p \in Loaders : Load(p)
    <3>1. \A p \in Loaders : p # i
      BY FilesAssumption
    <3>2. i \in Processes
      BY DEF Processes
    <3>3. /\ UNCHANGED <<dir, plan, output, edits, deleted, stuck>>
          /\ stage'[i] = stage[i] /\ todo'[i] = todo[i]
      BY <2>2, <3>1, <3>2 DEF filesVars, history, Load, ListFiles, ReadFile, EndLoad, Enter,
        FilesInv, FilesType
    <3> QED
      BY <3>3, SparedKeeps DEF FilesInv, Spares, Taken
  <2>3. CASE EditFile
    <3>1. PICK f \in Files, c \in {NoFile} \union Contents :
            dir' = [dir EXCEPT ![f] = c] /\ (c = NoFile \/ c.by # i)
      <4>1. PICK f \in Files :
              \/ \E n \in Names : dir' = [dir EXCEPT ![f] = Whole(n, Operator)]
              \/ dir' = [dir EXCEPT ![f] = NoFile]
        BY <2>3 DEF EditFile
      <4>2. \A n \in Names : /\ Whole(n, Operator) \in {NoFile} \union Contents
                             /\ Whole(n, Operator).by # i
        BY FilesAssumption DEF Whole, Contents
      <4> QED
        BY <4>1, <4>2
    <3>2. UNCHANGED <<stage, plan, todo, output, deleted, stuck>>
      BY <2>3 DEF EditFile, history
    <3>5. dir \in [Files -> {NoFile} \union Contents] /\ edits \in Nat
      BY DEF FilesInv, FilesType
    <3>6. edits' > 0
      BY <2>3, <3>5 DEF EditFile
    <3>3. \A g \in Files : dir'[g] # NoFile /\ dir'[g].by = i => dir'[g] = dir[g]
      BY <3>1, <3>5
    <3>4. Spares(i)
      BY <3>2, <3>3, <3>6 DEF Spares, Taken
    <3> QED
      BY <3>4, SparedKeeps DEF FilesInv
  <2> QED
    BY <2>1, <2>2, <2>3 DEF FilesNext
<1>3. ASSUME NEW p \in Loaders PROVE Listed(p)' /\ OneOfEach(p)'
  <2>1. CASE UNCHANGED filesVars
    BY <2>1 DEF FilesInv, filesVars, Listed, OneOfEach
  <2> QED
    BY <2>1, ListedStep, OneOfEachStep DEF FilesInv
<1> QED
  BY <1>1, <1>2, <1>3 DEF FilesInv

LEMMA FilesAlways == FilesSpec => []FilesInv
  BY FilesInitInv, FilesInvStep, PTL DEF FilesSpec

\* An import that fails has taken back all it put there, and one that succeeds has
\* put all of it there (openapi.rs:75-92), for any number of imports at once, with
\* loading processes, an operator and kills at any step.
THEOREM AllOrNothing == FilesSpec => []ImportIsAllOrNothing
<1>1. FilesInv => ImportIsAllOrNothing
  <2> SUFFICES ASSUME FilesInv, NEW i \in Importers
               PROVE  /\ stage[i] = "failed" =>
                           \A f \in Present : dir[f].by = i => <<i, f>> \in stuck
                      /\ stage[i] = "imported" =>
                           \A n \in ToSet(plan[i]) :
                             \/ dir[FileOf[n]] = Whole(n, i)
                             \/ edits > 0
                             \/ \E j \in Importers : <<j, FileOf[n]>> \in deleted
    BY DEF ImportIsAllOrNothing
  <2>1. ASSUME stage[i] = "failed", NEW f \in Present, dir[f].by = i PROVE <<i, f>> \in stuck
    BY <2>1 DEF FilesInv, OwnIsKnown, Own, Known, Present
  <2>2. ASSUME stage[i] = "imported", NEW n \in ToSet(plan[i])
        PROVE  dir[FileOf[n]] = Whole(n, i) \/ Taken(FileOf[n])
    <3>1. todo[i] = << >> /\ plan[i] \in Seq(Names)
      BY <2>2 DEF FilesInv, FilesType, WrittenIsThere
    <3>2. Done(i) = Len(plan[i])
      BY <3>1 DEF Done
    <3>3. PICK m \in 1..Len(plan[i]) : plan[i][m] = n
      BY <2>2, <3>1 DEF ToSet
    <3> QED
      BY <2>2, <3>2, <3>3 DEF FilesInv, WrittenIsThere
  <2> QED
    BY <2>1, <2>2 DEF Taken
<1> QED
  BY <1>1, FilesAlways, PTL

\* A registry that was loaded while imports and the operator were changing the
\* directory has every definition that stayed as it was listed, and one of each
\* name (action.rs:22-83), for any number of files and processes.
THEOREM LoadedIsComplete == FilesSpec => []LoadIsComplete
<1>1. FilesInv => LoadIsComplete
  <2> SUFFICES ASSUME FilesInv, NEW p \in Loaders, stage[p] = "loaded"
               PROVE  /\ \A f \in steady[p] : <<dir[f].name, f>> \in actions[p]
                      /\ Cardinality(NamesIn(p)) = Cardinality(actions[p])
    BY DEF LoadIsComplete
  <2>1. todo[p] = << >>
    BY DEF FilesInv, Listed
  <2> QED
    BY <2>1, OneOfEachCounts DEF FilesInv, Listed
<1> QED
  BY <1>1, FilesAlways, PTL

-------------------------------------------------------------------------------
(* The request                                                             *)

Definitions ==
  [method : Verbs, risk : Risks, approval : Approvals, allowPrivileged : BOOLEAN,
   enabled : BOOLEAN, placeholders : SUBSET Arguments, required : SUBSET Arguments,
   ifMatch : Arguments \union {NoArgument}, schema : [Arguments -> Schemas],
   location : [Arguments -> Locations]]

\* A definition that passed validation still satisfies it, and what was built from it
\* says what was given.
RequestInv ==
  /\ action \in Definitions
  /\ step \in {"valid", "built", "failed"} => Valid(action)
  /\ ArgumentsAreSentOnce

LEMMA BlankIsDefinition == Blank \in Definitions
  BY ArgumentsAssumption DEF Blank, Definitions, Verbs, Risks, Approvals, Schemas, Locations

LEMMA ValidateStep ==
  ASSUME NEW d \in Definitions, Validate(d), step \in {"new", "written"}
  PROVE  RequestInv'
  BY BlankIsDefinition DEF Validate, RequestInv, ArgumentsAreSentOnce

LEMMA WriteStep == ASSUME Write PROVE RequestInv'
<1>1. PICK m \in Verbs, r \in Risks, how \in Approvals, allow \in BOOLEAN :
        LET d == [Blank EXCEPT !.method = m, !.risk = r, !.approval = how,
                               !.allowPrivileged = allow] IN
        /\ action' = IF RiskIsConsistent(d) THEN d ELSE Blank
        /\ step' = IF RiskIsConsistent(d) THEN "written" ELSE "refused"
  BY DEF Write
<1>2. [Blank EXCEPT !.method = m, !.risk = r, !.approval = how, !.allowPrivileged = allow]
        \in Definitions
  BY BlankIsDefinition DEF Definitions
<1>3. action' \in Definitions /\ step' \in {"written", "refused"}
  BY <1>1, <1>2, BlankIsDefinition
<1> QED
  BY <1>3 DEF RequestInv, ArgumentsAreSentOnce

LEMMA ReadDefinitionStep == ASSUME RequestInv, ReadDefinition PROVE RequestInv'
<1>1. PICK s \in [Arguments -> Schemas], l \in [Arguments -> Locations],
           places, req \in SUBSET Arguments, etag \in Arguments \union {NoArgument} :
        Validate([action EXCEPT !.schema = s, !.location = l, !.placeholders = places,
                                !.required = req, !.ifMatch = etag])
  BY DEF ReadDefinition
<1>2. [action EXCEPT !.schema = s, !.location = l, !.placeholders = places,
                     !.required = req, !.ifMatch = etag] \in Definitions
  BY DEF RequestInv, Definitions
<1> QED
  BY <1>1, <1>2, ValidateStep DEF ReadDefinition

LEMMA DraftIsDefinition ==
  ASSUME NEW m \in Verbs, NEW places \in SUBSET Arguments, NEW flagged \in SUBSET Arguments,
         NEW body \in Schemas, NEW in \in [Arguments -> {"none", "path", "query", "other"}],
         NEW kinds \in [Arguments -> Schemas \ {"absent"}],
         \A a \in Arguments : in[a] # "other"
  PROVE  Draft(m, places, in, kinds, flagged, body) \in Definitions
<1> DEFINE d == Draft(m, places, in, kinds, flagged, body)
           declared == {a \in Arguments : in[a] # "none"}
           s == [a \in Arguments |->
                  IF a \in declared THEN kinds[a] ELSE IF a = BodyArgument THEN body ELSE "absent"]
           l == [a \in Arguments |->
                  IF a = BodyArgument /\ body # "absent" THEN "body" ELSE in[a]]
           r == {a \in declared : a \in flagged \/ in[a] = "path"}
                  \union (IF body # "absent" THEN flagged \intersect {BodyArgument} ELSE {})
           risk == IF m = "GET" THEN "read"
                   ELSE IF m = "DELETE" THEN "destructive" ELSE "reversible-write"
           how == IF risk = "read" THEN "never" ELSE "always"
<1>1. s \in [Arguments -> Schemas] /\ l \in [Arguments -> Locations] /\ r \in SUBSET Arguments
  BY DEF Schemas, Locations
<1>2. risk \in Risks /\ how \in Approvals
  BY DEF Risks, Approvals
<1>3. d = [Blank EXCEPT !.method = m, !.risk = risk, !.enabled = FALSE, !.placeholders = places,
                        !.approval = how, !.schema = s, !.location = l, !.required = r]
  BY DEF Draft
<1> HIDE DEF d, s, l, r, risk, how
<1> QED
  BY <1>1, <1>2, <1>3, BlankIsDefinition DEF Definitions, d

LEMMA ImportStep == ASSUME RequestInv, Import PROVE RequestInv'
<1>1. CASE action' = Blank /\ step' = "refused"
  BY <1>1, BlankIsDefinition DEF RequestInv, ArgumentsAreSentOnce
<1>2. CASE ~(action' = Blank /\ step' = "refused")
  <2>1. PICK m \in Verbs, places, flagged \in SUBSET Arguments, body \in Schemas,
             in \in [Arguments -> {"none", "path", "query", "other"}],
             kinds \in [Arguments -> Schemas \ {"absent"}] :
          /\ \A a \in Arguments : in[a] # "other"
          /\ Validate(Draft(m, places, in, kinds, flagged, body))
    BY <1>2 DEF Import
  <2> QED
    BY <2>1, DraftIsDefinition, ValidateStep DEF Import
<1> QED
  BY <1>1, <1>2

LEMMA EnableStep == ASSUME RequestInv, Enable PROVE RequestInv'
<1>1. /\ action' = [action EXCEPT !.enabled = TRUE] /\ action' \in Definitions
      /\ step = "valid" /\ step' = "valid"
  BY DEF Enable, RequestInv, Definitions
<1>2. Valid(action) => Valid(action')
  BY <1>1 DEF RequestInv, Definitions, Valid, RiskIsConsistent, InputIsClosed, PathIsMapped,
    ParametersAreLocated, PreconditionIsGiven, Properties, Scalars, At
<1> QED
  BY <1>1, <1>2 DEF RequestInv, ArgumentsAreSentOnce

\* What validation promises the building of the request.
LEMMA ValidBuilds ==
  ASSUME NEW d \in Definitions, Valid(d), NEW g \in SUBSET Arguments, Admits(d, g)
  PROVE  /\ ~CannotBuild(d, g)
         /\ \A a \in g \ d.placeholders : Place(d, a) \in {"query", "body"}
         /\ d.method = "GET" => \A a \in g \ d.placeholders : Place(d, a) # "body"
<1>1. /\ d.placeholders \subseteq g /\ d.placeholders \subseteq Scalars(d)
      /\ At(d, "path") \subseteq d.placeholders /\ At(d, "query") \subseteq Scalars(d)
      /\ d.method = "GET" => At(d, "body") = {} /\ g \subseteq Scalars(d)
      /\ d.ifMatch # NoArgument => d.ifMatch \in g \intersect Scalars(d)
  BY DEF Valid, PathIsMapped, ParametersAreLocated, PreconditionIsGiven, Admits
<1>2. ASSUME NEW a \in g \ d.placeholders
      PROVE  /\ Place(d, a) \in {"query", "body"}
             /\ Place(d, a) = "query" => a \in Scalars(d)
             /\ d.method = "GET" => Place(d, a) # "body"
  <2>1. a \in Arguments /\ d.location[a] \in Locations /\ d.location[a] # "path"
    BY <1>1 DEF Definitions, At
  <2>2. CASE d.location[a] = "none"
    BY <1>1, <2>2 DEF Place
  <2>3. CASE d.location[a] # "none"
    BY <1>1, <2>1, <2>3 DEF Place, At, Locations
  <2> QED
    BY <2>2, <2>3
<1> QED
  BY <1>1, <1>2 DEF CannotBuild

LEMMA RunStep == ASSUME RequestInv, Run PROVE RequestInv'
<1>1. /\ step = "valid" /\ UNCHANGED action /\ action \in Definitions /\ Valid(action)
      /\ given' \in SUBSET Arguments /\ Admits(action, given')
  BY DEF Run, RequestInv
<1> DEFINE inPath == given' \intersect action.placeholders
           inHeader == {action.ifMatch} \intersect given'
           rest == given' \ (inPath \union inHeader)
<1>2. /\ ~CannotBuild(action, given')
      /\ \A a \in rest : Place(action, a) \in {"query", "body"}
      /\ action.method = "GET" => \A a \in rest : Place(action, a) # "body"
  BY <1>1, ValidBuilds
<1>3. /\ step' = "built"
      /\ built' = [path |-> inPath, header |-> inHeader,
           query |-> {a \in rest : Place(action, a) = "query"},
           body |-> {a \in rest : Place(action, a) = "body"}]
  BY <1>2 DEF Run
<1>4. ArgumentsAreSentOnce'
  BY <1>1, <1>2, <1>3 DEF ArgumentsAreSentOnce
<1> QED
  BY <1>1, <1>3, <1>4 DEF RequestInv

\* Whatever a definition says, once it is accepted its requests say all that was
\* approved, each argument in one place (action.rs:1073 relies on
\* action.rs:286-345), for any set of arguments.
THEOREM SentOnce == RequestSpec => []ArgumentsAreSentOnce
<1>1. RequestInit => RequestInv
  BY BlankIsDefinition DEF RequestInit, RequestInv, ArgumentsAreSentOnce
<1>2. ASSUME RequestInv, [RequestNext]_requestVars PROVE RequestInv'
  <2>1. CASE UNCHANGED requestVars
    BY <1>2, <2>1 DEF requestVars, RequestInv, ArgumentsAreSentOnce
  <2> QED
    BY <1>2, <2>1, WriteStep, ReadDefinitionStep, ImportStep, EnableStep, RunStep DEF RequestNext
<1>3. RequestInv => ArgumentsAreSentOnce
  BY DEF RequestInv
<1> QED
  BY <1>1, <1>2, <1>3, PTL DEF RequestSpec


-------------------------------------------------------------------------------
(* The masks of its answer                                                       *)

LEMMA SameSeq ==
  ASSUME NEW S, NEW s \in Seq(S), NEW t \in Seq(S), Len(s) = Len(t),
         \A i \in 1..Len(s) : s[i] = t[i]
  PROVE  s = t
  OBVIOUS

LEMMA KeyFacts ==
  ASSUME NEW k \in Keys
  PROVE  /\ IsIndex(k) => k[2] \in Nat /\ k = Index(k[2])
         /\ \A n \in Nat : /\ Index(n) \in Keys /\ IsIndex(Index(n)) /\ Index(n)[2] = n
                           /\ k = Index(n) => IsIndex(k) /\ k[2] = n
         /\ \A t : k = Name(t) => ~IsIndex(k) /\ k[2] = t
  BY DEF Keys, IsIndex, Index, Name

LEMMA AncestorFacts ==
  ASSUME NEW q \in Seq(Keys), NEW n \in 0..Len(q)
  PROVE  /\ Ancestor(q, n) \in Seq(Keys) /\ Len(Ancestor(q, n)) = n
         /\ \A i \in 1..n : Ancestor(q, n)[i] = q[i]
  BY DEF Ancestor

LEMMA SameAncestor ==
  ASSUME NEW q \in Seq(Keys), NEW r \in Seq(Keys), NEW n \in Nat, n <= Len(q), n <= Len(r)
  PROVE  Ancestor(q, n) = Ancestor(r, n) <=> \A i \in 1..n : q[i] = r[i]
<1>0. n \in 0..Len(q) /\ n \in 0..Len(r)
  OBVIOUS
<1>1. ASSUME Ancestor(q, n) = Ancestor(r, n), NEW i \in 1..n PROVE q[i] = r[i]
  BY <1>0, <1>1, AncestorFacts
<1>2. ASSUME \A i \in 1..n : q[i] = r[i] PROVE Ancestor(q, n) = Ancestor(r, n)
  <2>1. /\ Ancestor(q, n) \in Seq(Keys) /\ Len(Ancestor(q, n)) = n
        /\ Ancestor(r, n) \in Seq(Keys) /\ Len(Ancestor(r, n)) = n
        /\ \A i \in 1..n : Ancestor(q, n)[i] = Ancestor(r, n)[i]
    BY <1>0, <1>2, AncestorFacts
  <2> QED
    BY <2>1, SameSeq
<1> QED
  BY <1>1, <1>2

LEMMA SiblingFacts ==
  ASSUME NEW q \in Seq(Keys), NEW i \in DOMAIN q, NEW k \in Nat
  PROVE  /\ Sibling(q, i, k) \in Seq(Keys) /\ Len(Sibling(q, i, k)) = i
         /\ Sibling(q, i, k)[i] = Index(k)
         /\ \A j \in 1..(i - 1) : Sibling(q, i, k)[j] = q[j]
<1> DEFINE a == Ancestor(q, i - 1)
<1>1. i - 1 \in 0..Len(q)
  OBVIOUS
<1>2. a \in Seq(Keys) /\ Len(a) = i - 1 /\ \A j \in 1..(i - 1) : a[j] = q[j]
  BY <1>1, AncestorFacts
<1>3. Index(k) \in Keys
  BY DEF Index, Keys
<1> HIDE DEF a
<1> QED
  BY <1>2, <1>3 DEF Sibling, a

LEMMA PrefixFacts ==
  ASSUME NEW q \in Seq(Keys), NEW r \in Seq(Keys)
  PROVE  IsPrefix(q, r) <=> Len(q) <= Len(r) /\ \A i \in 1..Len(q) : q[i] = r[i]
<1>1. IsPrefix(q, r) <=> Len(q) <= Len(r) /\ Ancestor(q, Len(q)) = Ancestor(r, Len(q))
  BY DEF IsPrefix, Ancestor
<1> QED
  BY <1>1, SameAncestor

\* Positions and pointers are sequences.
LEMMA PositionsArePositions ==
  ASSUME original \in Documents
  PROVE  /\ \A q \in original : q \in Seq(Keys)
         /\ \A q, r \in original : \A i \in DOMAIN q \intersect DOMAIN r :
              Ancestor(q, i - 1) = Ancestor(r, i - 1) => IsIndex(q[i]) = IsIndex(r[i])
  BY MaskAssumption DEF IsTree

LEMMA TokensNameKeys ==
  ASSUME NEW p \in Pointers, NEW q \in Seq(Keys), Denotes(p, q), NEW i \in DOMAIN p
  PROVE  /\ i \in DOMAIN q
         /\ \/ q[i] = Name(p[i]) /\ ~IsIndex(q[i])
            \/ /\ Numeric(p[i]) /\ IndexOf[p[i]] \in Nat
               /\ q[i] = Index(IndexOf[p[i]]) /\ IsIndex(q[i]) /\ q[i][2] = IndexOf[p[i]]
<1>1. p \in Seq(ToSet(Tokens)) /\ i \in DOMAIN q /\ q[i] \in Keys
  BY MaskAssumption DEF Denotes
<1>2. Numeric(p[i]) => IndexOf[p[i]] \in Nat
  BY MaskAssumption DEF Numeric
<1> QED
  BY <1>1, <1>2, KeyFacts DEF Denotes

\* What a removal finds under a node, the reference's way.
Gone(pointers, q, i) == {k \in 0..(q[i][2] - 1) : Sibling(q, i, k) \in Hit(pointers)}

LEMMA PlaceFacts ==
  ASSUME original \in Documents, NEW S, NEW q \in original
  PROVE  /\ MovedTo(S, q) \in Seq(Keys) /\ Len(MovedTo(S, q)) = Len(q) /\ DOMAIN MovedTo(S, q) = DOMAIN q
         /\ \A i \in DOMAIN q :
              /\ IsIndex(MovedTo(S, q)[i]) = IsIndex(q[i])
              /\ ~IsIndex(q[i]) => MovedTo(S, q)[i] = q[i]
              /\ IsIndex(q[i]) =>
                   /\ IsFiniteSet(Gone(S, q, i)) /\ Cardinality(Gone(S, q, i)) \in Nat
                   /\ Cardinality(Gone(S, q, i)) <= q[i][2]
                   /\ MovedTo(S, q)[i] = Index(q[i][2] - Cardinality(Gone(S, q, i)))
                   /\ MovedTo(S, q)[i][2] = q[i][2] - Cardinality(Gone(S, q, i))
<1>1. q \in Seq(Keys)
  BY PositionsArePositions
<1>2. MovedTo(S, q) = [i \in DOMAIN q |->
         IF IsIndex(q[i]) THEN Index(q[i][2] - Cardinality(Gone(S, q, i))) ELSE q[i]]
  BY DEF MovedTo, Gone
<1>3. ASSUME NEW i \in DOMAIN q, IsIndex(q[i])
      PROVE  /\ IsFiniteSet(Gone(S, q, i)) /\ Cardinality(Gone(S, q, i)) \in Nat
             /\ Cardinality(Gone(S, q, i)) <= q[i][2] /\ q[i][2] \in Nat
  <2>1. q[i][2] \in Nat
    BY <1>1, <1>3, KeyFacts
  <2>2. IsFiniteSet(0..(q[i][2] - 1)) /\ Cardinality(0..(q[i][2] - 1)) = q[i][2]
    <3> DEFINE m == q[i][2] - 1
    <3>1. m \in Int /\ (IF 0 > m THEN 0 ELSE m - 0 + 1) = q[i][2]
      BY <2>1
    <3> HIDE DEF m
    <3>2. IsFiniteSet(0..m) /\ Cardinality(0..m) = q[i][2]
      BY <3>1, FS_Interval
    <3> QED
      BY <3>2 DEF m
  <2>3. Gone(S, q, i) \in SUBSET (0..(q[i][2] - 1))
    BY DEF Gone
  <2>4. IsFiniteSet(Gone(S, q, i)) /\ Cardinality(Gone(S, q, i)) <= q[i][2]
    BY <2>2, <2>3, FS_Subset
  <2> QED
    BY <2>1, <2>4, FS_CardinalityType
<1>4. ASSUME NEW i \in DOMAIN q
      PROVE  /\ MovedTo(S, q)[i] \in Keys /\ IsIndex(MovedTo(S, q)[i]) = IsIndex(q[i])
             /\ ~IsIndex(q[i]) => MovedTo(S, q)[i] = q[i]
             /\ IsIndex(q[i]) =>
                   /\ MovedTo(S, q)[i] = Index(q[i][2] - Cardinality(Gone(S, q, i)))
                   /\ MovedTo(S, q)[i][2] = q[i][2] - Cardinality(Gone(S, q, i))
  <2>1. q[i] \in Keys
    BY <1>1
  <2>2. CASE IsIndex(q[i])
    <3>1. q[i][2] - Cardinality(Gone(S, q, i)) \in Nat
      BY <1>3, <2>2
    <3>2. MovedTo(S, q)[i] = Index(q[i][2] - Cardinality(Gone(S, q, i)))
      BY <1>2, <2>2
    <3> QED
      BY <2>1, <2>2, <3>1, <3>2, KeyFacts
  <2>3. CASE ~IsIndex(q[i])
    BY <1>2, <2>1, <2>3
  <2> QED
    BY <2>2, <2>3
<1>5. DOMAIN MovedTo(S, q) = DOMAIN q
  BY <1>2
<1>6. MovedTo(S, q) \in Seq(Keys) /\ Len(MovedTo(S, q)) = Len(q)
  <2>1. DOMAIN q = 1..Len(q) /\ Len(q) \in Nat
    BY <1>1
  <2>2. MovedTo(S, q) \in [1..Len(q) -> Keys]
    BY <1>2, <1>4, <2>1
  <2> QED
    BY <2>1, <2>2
<1> QED
  BY <1>3, <1>4, <1>5, <1>6

LEMMA LeastNat ==
  ASSUME NEW T \in SUBSET Nat, T # {}
  PROVE  \E n \in T : \A m \in T : n <= m
<1>1. \E n \in T : \A m \in T : <<m, n>> \notin OpToRel(<, Nat)
  BY NatLessThanWellFounded, WFMin
<1>2. ASSUME NEW n \in T, NEW m \in T, <<m, n>> \notin OpToRel(<, Nat) PROVE n <= m
  <2>1. n \in Nat /\ m \in Nat /\ ~(m < n)
    BY <1>2 DEF OpToRel
  <2> QED
    BY <2>1
<1> QED
  BY <1>1, <1>2

\* Two pointers of one node are one, and two nodes of one pointer too.
LEMMA OnePointer ==
  ASSUME OneSpelling, masks \subseteq Pointers, NEW p \in masks, NEW s \in masks,
         NEW q \in Seq(Keys), NEW r \in Seq(Keys), Denotes(p, q), Denotes(s, r),
         NEW i \in DOMAIN p, i \in DOMAIN s, q[i] = r[i]
  PROVE  p[i] = s[i]
<1>1. p \in Pointers /\ s \in Pointers
  OBVIOUS
<1>2. /\ \/ q[i] = Name(p[i]) /\ ~IsIndex(q[i])
         \/ /\ Numeric(p[i]) /\ IsIndex(q[i]) /\ q[i][2] = IndexOf[p[i]]
      /\ \/ r[i] = Name(s[i]) /\ ~IsIndex(r[i])
         \/ /\ Numeric(s[i]) /\ IsIndex(r[i]) /\ r[i][2] = IndexOf[s[i]]
  BY <1>1, TokensNameKeys
<1>3. CASE q[i] = Name(p[i]) /\ r[i] = Name(s[i])
  <2>1. Name(p[i])[2] = p[i] /\ Name(s[i])[2] = s[i]
    BY DEF Name
  <2>2. Name(p[i]) = Name(s[i])
    BY <1>3
  <2> QED
    BY <2>1, <2>2
<1>4. CASE Numeric(p[i]) /\ Numeric(s[i]) /\ IndexOf[p[i]] = IndexOf[s[i]]
  BY <1>4 DEF OneSpelling
<1> QED
  BY <1>2, <1>3, <1>4

LEMMA OneNode ==
  ASSUME original \in Documents, NEW p \in Pointers,
         NEW q \in original, NEW r \in original, Denotes(p, q), Denotes(p, r)
  PROVE  q = r
<1>1. q \in Seq(Keys) /\ r \in Seq(Keys) /\ p \in Seq(ToSet(Tokens))
  BY PositionsArePositions, MaskAssumption
<1>2. Len(q) = Len(p) /\ Len(r) = Len(p)
  BY DEF Denotes
<1> DEFINE T == {i \in 1..Len(q) : q[i] # r[i]}
<1>3. CASE T = {}
  BY <1>1, <1>2, <1>3, SameSeq
<1>4. CASE T # {}
  <2>1. PICK i \in T : \A j \in T : i <= j
    <3>1. T \in SUBSET Nat
      OBVIOUS
    <3> HIDE DEF T
    <3> QED
      BY <1>4, <3>1, LeastNat
  <2>2. i \in DOMAIN q \intersect DOMAIN r /\ i \in DOMAIN p /\ q[i] # r[i]
    BY <1>1, <1>2
  <2>3. \A j \in 1..(i - 1) : q[j] = r[j]
    BY <1>1, <2>1
  <2>4. Ancestor(q, i - 1) = Ancestor(r, i - 1)
    <3>1. i - 1 \in Nat /\ i - 1 <= Len(q) /\ i - 1 <= Len(r)
      BY <1>1, <1>2
    <3> QED
      BY <1>1, <2>3, <3>1, SameAncestor
  <2>5. IsIndex(q[i]) = IsIndex(r[i])
    BY <2>2, <2>4, PositionsArePositions
  <2>6. /\ (q[i] = Name(p[i]) /\ ~IsIndex(q[i])) \/ (q[i] = Index(IndexOf[p[i]]) /\ IsIndex(q[i]))
        /\ (r[i] = Name(p[i]) /\ ~IsIndex(r[i])) \/ (r[i] = Index(IndexOf[p[i]]) /\ IsIndex(r[i]))
    BY <1>1, <2>2, TokensNameKeys
  <2> QED
    BY <2>2, <2>5, <2>6
<1> QED
  BY <1>3, <1>4

-----------------------------------------------------------------------------
\* S are the masks applied before p.
Turn(S, p) ==
  /\ original \in Documents /\ masks \subseteq Pointers /\ OneSpelling
  /\ S \subseteq masks /\ p \in masks \ S /\ p # << >>
  /\ \A s \in S : GoesFirst(s, p)

LEMMA PointerFacts ==
  ASSUME masks \subseteq Pointers, NEW p \in masks
  PROVE  /\ p \in Pointers /\ p \in Seq(ToSet(Tokens)) /\ Len(p) \in Nat /\ DOMAIN p = 1..Len(p)
         /\ p # << >> => Len(p) \in DOMAIN p
  BY MaskAssumption

LEMMA DeepHits ==
  ASSUME NEW S, NEW p, Turn(S, p), NEW r \in Hit(S)
  PROVE  Len(r) >= Len(p) /\ r \in original
<1>1. PICK s \in S : Denotes(s, r)
  BY DEF Hit
<1>2. s \in masks /\ p \in masks /\ Len(s) \in Nat /\ Len(p) \in Nat /\ GoesFirst(s, p)
  BY PointerFacts DEF Turn
<1>3. Len(s) >= Len(p)
  BY <1>2 DEF GoesFirst
<1> QED
  BY <1>1, <1>3 DEF Denotes, Hit

\* Above the depth of p nothing has moved.
LEMMA FrontStays ==
  ASSUME NEW S, NEW p, Turn(S, p), NEW q \in original, NEW i \in DOMAIN q, i < Len(p)
  PROVE  MovedTo(S, q)[i] = q[i]
<1>0. q \in Seq(Keys) /\ original \in Documents /\ Len(p) \in Nat
  BY PositionsArePositions, PointerFacts DEF Turn
<1>1. CASE ~IsIndex(q[i])
  BY <1>0, <1>1, PlaceFacts
<1>2. CASE IsIndex(q[i])
  <2>1. q[i][2] \in Nat /\ q[i] = Index(q[i][2])
    BY <1>0, <1>2, KeyFacts
  <2>2. ASSUME NEW k \in 0..(q[i][2] - 1) PROVE Sibling(q, i, k) \notin Hit(S)
    <3>1. k \in Nat
      BY <2>1
    <3>2. Len(Sibling(q, i, k)) = i
      BY <1>0, <3>1, SiblingFacts
    <3> QED
      BY <1>0, <3>2, DeepHits
  <2>3. Gone(S, q, i) = {}
    BY <2>2 DEF Gone
  <2>4. Cardinality(Gone(S, q, i)) = 0
    BY <2>3, FS_EmptySet
  <2> QED
    BY <1>0, <1>2, <2>1, <2>4, PlaceFacts
<1> QED
  BY <1>1, <1>2

\* At the depth of p, what has been removed beside the node of p was behind it.
LEMMA HigherGone ==
  ASSUME NEW S, NEW p, Turn(S, p), NEW q \in original, Len(q) >= Len(p), IsIndex(q[Len(p)]),
         Numeric(p[Len(p)]),
         NEW r \in Seq(Keys), Denotes(p, r), \A i \in 1..(Len(p) - 1) : q[i] = r[i],
         NEW k \in Gone(S, q, Len(p))
  PROVE  k \in Nat /\ k > IndexOf[p[Len(p)]]
<1> DEFINE n == Len(p)
           b == Sibling(q, n, k)
<1>0. /\ q \in Seq(Keys) /\ p \in masks /\ masks \subseteq Pointers /\ OneSpelling
      /\ n \in Nat /\ n \in DOMAIN q /\ n \in DOMAIN p /\ DOMAIN p = 1..n
      /\ p \in Seq(ToSet(Tokens)) /\ p \in Pointers
  BY PositionsArePositions, PointerFacts DEF Turn
<1>1. k \in Nat /\ b \in Hit(S)
  <2>1. q[n][2] \in Nat
    BY <1>0, KeyFacts
  <2> QED
    BY <2>1 DEF Gone
<1>2. b \in Seq(Keys) /\ Len(b) = n /\ b[n] = Index(k) /\ \A i \in 1..(n - 1) : b[i] = q[i]
  BY <1>0, <1>1, SiblingFacts
<1>3. PICK s \in S : Denotes(s, b)
  BY <1>1 DEF Hit
<1>4. s \in masks /\ s \in Pointers /\ Len(s) = n /\ DOMAIN s = 1..n /\ GoesFirst(s, p)
      /\ s \in Seq(ToSet(Tokens))
  BY <1>2, <1>3, PointerFacts DEF Turn, Denotes
<1>5. \A i \in 1..(n - 1) : s[i] = p[i]
  <2> TAKE i \in 1..(n - 1)
  <2>1. i \in DOMAIN p /\ i \in DOMAIN s /\ b[i] = r[i]
    BY <1>0, <1>2, <1>4
  <2> QED
    BY <1>0, <1>2, <1>3, <1>4, <2>1, OnePointer
<1>6. Numeric(s[n]) /\ IndexOf[s[n]] = k
  <2>1. \/ b[n] = Name(s[n]) /\ ~IsIndex(b[n])
        \/ Numeric(s[n]) /\ IsIndex(b[n]) /\ b[n][2] = IndexOf[s[n]]
    BY <1>0, <1>2, <1>3, <1>4, TokensNameKeys
  <2>2. IsIndex(b[n]) /\ b[n][2] = k
    BY <1>2 DEF Index, IsIndex
  <2> QED
    BY <2>1, <2>2
<1>7. Parent(s) = Parent(p)
  <2>1. Parent(s) = SubSeq(s, 1, n - 1) /\ Parent(p) = SubSeq(p, 1, n - 1)
    BY <1>4 DEF Parent, Ancestor
  <2> QED
    BY <1>0, <1>4, <1>5, <2>1
<1>8. Last(s) = s[n] /\ Last(p) = p[n]
  BY <1>4 DEF Last
<1>9. IndexOf[s[n]] > IndexOf[p[n]]
  BY <1>0, <1>4, <1>6, <1>7, <1>8 DEF GoesFirst
<1> QED
  BY <1>1, <1>6, <1>9

\* How far the removals before p have moved a node, at the depth of p: not past the
\* place where the node of p would be.
LEMMA PlaceAtDepth ==
  ASSUME NEW S, NEW p, Turn(S, p), NEW q \in original, Len(q) >= Len(p), IsIndex(q[Len(p)]),
         Numeric(p[Len(p)]),
         NEW r \in Seq(Keys), Denotes(p, r), \A i \in 1..(Len(p) - 1) : q[i] = r[i]
  PROVE  LET n == Len(p)
             v == IndexOf[p[n]]
             j == q[n][2]
             c == MovedTo(S, q)[n][2] IN
         /\ v \in Nat /\ j \in Nat /\ c \in Nat
         /\ j <= v => c = j
         /\ j > v => c > v /\ v \notin Gone(S, q, n)
<1> DEFINE n == Len(p)
           v == IndexOf[p[n]]
           j == q[n][2]
           g == Gone(S, q, n)
<1>0. /\ q \in Seq(Keys) /\ original \in Documents /\ p \in Pointers /\ p \in Seq(ToSet(Tokens))
      /\ n \in Nat /\ n \in DOMAIN q /\ n \in DOMAIN p
  BY PositionsArePositions, PointerFacts DEF Turn
<1>1. v \in Nat /\ j \in Nat
  BY <1>0, KeyFacts, MaskAssumption DEF Numeric
<1>2. /\ MovedTo(S, q)[n][2] = j - Cardinality(g) /\ IsFiniteSet(g)
      /\ Cardinality(g) \in Nat /\ Cardinality(g) <= j
  BY <1>0, PlaceFacts
<1>3. \A k \in g : k \in Nat /\ k > v /\ k < j
  <2>1. \A k \in g : k \in Nat /\ k > v
    BY HigherGone
  <2>2. \A k \in g : k < j
    BY <1>1 DEF Gone
  <2> QED
    BY <2>1, <2>2
<1> HIDE DEF v, j, g
<1>4. ASSUME j <= v PROVE Cardinality(g) = 0
  <2>1. g = {}
    BY <1>1, <1>3, <1>4
  <2> QED
    BY <2>1, FS_EmptySet
<1>5. ASSUME j > v PROVE j - Cardinality(g) > v /\ v \notin g
  <2>1. g \in SUBSET ((v + 1)..(j - 1))
    BY <1>1, <1>3
  <2>2. v + 1 \in Int /\ j - 1 \in Int
    BY <1>1
  <2>3. /\ IsFiniteSet((v + 1)..(j - 1))
        /\ Cardinality((v + 1)..(j - 1)) =
             IF v + 1 > j - 1 THEN 0 ELSE (j - 1) - (v + 1) + 1
    BY <2>2, FS_Interval
  <2>4. Cardinality(g) <= Cardinality((v + 1)..(j - 1))
    BY <2>1, <2>3, FS_Subset
  <2>5. Cardinality((v + 1)..(j - 1)) = j - 1 - v
    BY <1>1, <1>5, <2>3
  <2> QED
    BY <1>1, <1>2, <1>3, <1>5, <2>4, <2>5
<1>6. MovedTo(S, q)[n][2] \in Nat
  BY <1>1, <1>2
<1> QED
  BY <1>1, <1>2, <1>4, <1>5, <1>6 DEF v, j, g

\* A pointer whose turn it is finds what it denoted in the answer.
LEMMA SameTarget ==
  ASSUME NEW S, NEW p, Turn(S, p), NEW q \in original
  PROVE  /\ Denotes(p, MovedTo(S, q)) <=> Denotes(p, q)
         /\ Denotes(p, q) => MovedTo(S, q) = q
<1> DEFINE n == Len(p)
           r == MovedTo(S, q)
<1>0. /\ q \in Seq(Keys) /\ original \in Documents /\ p \in Pointers /\ p \in Seq(ToSet(Tokens))
      /\ n \in Nat /\ n \in DOMAIN p /\ DOMAIN p = 1..n /\ p # << >>
  BY PositionsArePositions, PointerFacts DEF Turn
<1>1. r \in Seq(Keys) /\ Len(r) = Len(q) /\ DOMAIN r = DOMAIN q
  BY <1>0, PlaceFacts
<1>2. \A i \in DOMAIN q : i < n => r[i] = q[i]
  BY FrontStays
<1>3. ASSUME Denotes(p, q) \/ Denotes(p, r) PROVE r = q
  <2>1. Len(q) = n /\ n \in DOMAIN q /\ DOMAIN q = 1..n
    <3>1. Len(q) = n
      BY <1>1, <1>3 DEF Denotes
    <3> QED
      BY <1>0, <3>1
  <2>2. CASE ~IsIndex(q[n])
    <3>1. r[n] = q[n]
      BY <1>0, <2>1, <2>2, PlaceFacts
    <3> QED
      BY <1>0, <1>1, <1>2, <2>1, <3>1, SameSeq
  <2>3. CASE IsIndex(q[n])
    <3>1. PICK t \in {q, r} : Denotes(p, t)
      BY <1>3
    <3>2. t \in Seq(Keys) /\ \A i \in 1..(n - 1) : q[i] = t[i]
      BY <1>0, <1>1, <1>2, <2>1
    <3>3. IsIndex(r[n])
      BY <1>0, <2>1, <2>3, PlaceFacts
    <3>4. Numeric(p[n]) /\ t[n][2] = IndexOf[p[n]]
      BY <1>0, <2>3, <3>1, <3>2, <3>3, TokensNameKeys
    <3>5. /\ r[n][2] \in Nat /\ q[n][2] \in Nat /\ IndexOf[p[n]] \in Nat
          /\ q[n][2] <= IndexOf[p[n]] => r[n][2] = q[n][2]
          /\ q[n][2] > IndexOf[p[n]] => r[n][2] > IndexOf[p[n]]
      BY <2>1, <2>3, <3>1, <3>2, <3>4, PlaceAtDepth, <1>0
    <3>6. r[n][2] = q[n][2]
      BY <3>1, <3>4, <3>5
    <3>7. r[n] = q[n]
      BY <1>0, <1>1, <2>1, <2>3, <3>3, <3>6, KeyFacts
    <3> QED
      BY <1>0, <1>1, <1>2, <2>1, <3>7, SameSeq
  <2> QED
    BY <2>2, <2>3
<1> QED
  BY <1>3

\* Nothing that p denotes has been removed before.
LEMMA TargetIsKept ==
  ASSUME NEW S, NEW p, Turn(S, p), NEW q \in original, Denotes(p, q)
  PROVE  q \in Kept(S) /\ q \notin Hit(S)
<1>0. /\ q \in Seq(Keys) /\ p \in masks /\ masks \subseteq Pointers /\ OneSpelling
      /\ p \in Seq(ToSet(Tokens)) /\ DOMAIN p = 1..Len(p) /\ Len(q) = Len(p) /\ Len(p) \in Nat
  BY PositionsArePositions, PointerFacts DEF Turn, Denotes
<1>1. q \notin Hit(S)
  <2>1. SUFFICES ASSUME NEW s \in S, Denotes(s, q) PROVE FALSE
    BY DEF Hit
  <2>2. s \in masks /\ s \in Seq(ToSet(Tokens)) /\ Len(s) = Len(p) /\ DOMAIN s = 1..Len(p) /\ s # p
    BY <1>0, <2>1, PointerFacts DEF Turn, Denotes
  <2>3. \A i \in 1..Len(p) : s[i] = p[i]
    BY <1>0, <2>1, <2>2, OnePointer
  <2> QED
    BY <1>0, <2>2, <2>3, SameSeq
<1>2. ASSUME NEW i \in DOMAIN q, Ancestor(q, i) \in Hit(S) PROVE FALSE
  <2>1. i \in 0..Len(q) /\ i <= Len(q)
    BY <1>0
  <2>2. Ancestor(q, i) \in Seq(Keys) /\ Len(Ancestor(q, i)) = i
        /\ \A j \in 1..i : Ancestor(q, i)[j] = q[j]
    BY <1>0, <2>1, AncestorFacts
  <2>3. i >= Len(p)
    BY <1>2, <2>2, DeepHits
  <2>4. i = Len(q)
    BY <1>0, <2>1, <2>3
  <2>5. Ancestor(q, i) = q
    BY <1>0, <2>2, <2>4, SameSeq
  <2> QED
    BY <1>1, <1>2, <2>5
<1> QED
  BY <1>1, <1>2 DEF Kept

\* One more mask is applied: what is below its node goes, and what comes behind it
\* moves up by one.
LEMMA OneMore ==
  ASSUME NEW S, NEW p, Turn(S, p), NEW d \in original, Denotes(p, d), NEW q \in original
  PROVE  /\ IsPrefix(d, MovedTo(S, q)) <=> IsPrefix(d, q)
         /\ ~IsPrefix(d, q) => After(d, MovedTo(S, q)) = MovedTo(S \union {p}, q)
<1> DEFINE n == Len(p)
           r == MovedTo(S, q)
           T == S \union {p}
<1>0. /\ q \in Seq(Keys) /\ d \in Seq(Keys) /\ original \in Documents /\ Len(d) = n
      /\ p \in Pointers /\ p \in Seq(ToSet(Tokens)) /\ n \in Nat /\ n \in DOMAIN p /\ n >= 1
      /\ n \in DOMAIN d /\ DOMAIN q = 1..Len(q) /\ Len(q) \in Nat
  BY PositionsArePositions, PointerFacts DEF Turn, Denotes
<1>1. r \in Seq(Keys) /\ Len(r) = Len(q) /\ DOMAIN r = DOMAIN q
  BY <1>0, PlaceFacts
<1>2. \A i \in DOMAIN q : i < n => r[i] = q[i]
  BY FrontStays
<1>3. Hit(T) = Hit(S) \union {d} /\ d \notin Hit(S)
  <2>1. \A e \in original : Denotes(p, e) => e = d
    BY <1>0, OneNode
  <2>2. d \notin Hit(S)
    BY TargetIsKept
  <2> QED
    BY <2>1, <2>2 DEF Hit
<1> DEFINE Beside == Len(q) >= n /\ \A i \in 1..(n - 1) : q[i] = d[i]
           Behind == /\ Beside /\ IsIndex(d[n]) /\ IsIndex(q[n]) /\ q[n][2] > d[n][2]
\* What is beside d, or below what is beside it, compares with it as before.
<1>4. ASSUME Beside, IsIndex(d[n]), IsIndex(q[n])
      PROVE  /\ d[n][2] \in Nat /\ q[n][2] \in Nat /\ r[n][2] \in Nat /\ d[n] = Index(d[n][2])
             /\ q[n][2] <= d[n][2] => r[n] = q[n]
             /\ q[n][2] > d[n][2] => r[n][2] > d[n][2] /\ d[n][2] \notin Gone(S, q, n)
  <2>1. Numeric(p[n]) /\ d[n] = Index(IndexOf[p[n]]) /\ d[n][2] = IndexOf[p[n]]
    BY <1>0, <1>4, TokensNameKeys
  <2>2. n \in DOMAIN q
    BY <1>0, <1>4
  <2>3. /\ d[n][2] \in Nat /\ q[n][2] \in Nat /\ r[n][2] \in Nat
        /\ q[n][2] <= d[n][2] => r[n][2] = q[n][2]
        /\ q[n][2] > d[n][2] => r[n][2] > d[n][2] /\ d[n][2] \notin Gone(S, q, n)
    <3>1. /\ Len(q) >= Len(p) /\ IsIndex(q[Len(p)]) /\ Numeric(p[Len(p)])
          /\ \A i \in 1..(Len(p) - 1) : q[i] = d[i]
      BY <1>4, <2>1
    <3>2. LET v == IndexOf[p[n]]
              c == MovedTo(S, q)[n][2] IN
          /\ v \in Nat /\ q[n][2] \in Nat /\ c \in Nat
          /\ q[n][2] <= v => c = q[n][2]
          /\ q[n][2] > v => c > v /\ v \notin Gone(S, q, n)
      BY <1>0, <3>1, PlaceAtDepth
    <3> QED
      BY <2>1, <3>2
  <2>4. IsIndex(r[n]) /\ r[n] \in Keys /\ q[n] \in Keys
    <3>1. IsIndex(r[n])
      BY <1>0, <1>4, <2>2, PlaceFacts
    <3> HIDE DEF r, n
    <3> QED
      BY <1>0, <1>1, <2>2, <3>1
  <2>5. r[n] = Index(r[n][2]) /\ q[n] = Index(q[n][2])
    BY <1>4, <2>4, KeyFacts
  <2> QED
    BY <2>1, <2>3, <2>5
<1>5. IsPrefix(d, r) <=> IsPrefix(d, q)
  <2>1. CASE ~Beside
    <3>1. ~IsPrefix(d, q)
      BY <1>0, <2>1, PrefixFacts
    <3>2. ~IsPrefix(d, r)
      <4>1. CASE Len(q) < n
        BY <1>0, <1>1, <4>1, PrefixFacts
      <4>2. CASE Len(q) >= n
        <5>1. PICK i \in 1..(n - 1) : q[i] # d[i]
          BY <2>1, <4>2
        <5>2. i \in DOMAIN q /\ i < n /\ i \in 1..n
          BY <1>0, <4>2
        <5>3. r[i] # d[i]
          BY <1>2, <5>1, <5>2
        <5> QED
          BY <1>0, <1>1, <5>2, <5>3, PrefixFacts
      <4> QED
        BY <1>0, <4>1, <4>2
    <3> QED
      BY <3>1, <3>2
  <2>2. CASE Beside
    <3>1. n \in DOMAIN q /\ \A i \in 1..(n - 1) : r[i] = d[i]
      BY <1>0, <1>2, <2>2
    <3>5. n \in 1..n /\ \A i \in 1..n : i = n \/ i \in 1..(n - 1)
      BY <1>0
    <3>6. /\ IsPrefix(d, r) <=> \A i \in 1..n : d[i] = r[i]
          /\ IsPrefix(d, q) <=> \A i \in 1..n : d[i] = q[i]
      BY <1>0, <1>1, <2>2, PrefixFacts
    <3>2. IsPrefix(d, r) <=> r[n] = d[n]
      BY <3>1, <3>5, <3>6
    <3>3. IsPrefix(d, q) <=> q[n] = d[n]
      BY <2>2, <3>5, <3>6
    <3>4. r[n] = d[n] <=> q[n] = d[n]
      <4>1. IsIndex(r[n]) = IsIndex(q[n]) /\ (~IsIndex(q[n]) => r[n] = q[n])
        BY <1>0, <3>1, PlaceFacts
      <4>2. CASE IsIndex(d[n]) /\ IsIndex(q[n])
        BY <1>4, <2>2, <4>2
      <4> QED
        BY <4>1, <4>2
    <3> QED
      BY <3>2, <3>3, <3>4
  <2> QED
    BY <2>1, <2>2
\* Elements that come behind d lose one sibling, the others none.
<1>6. ASSUME NEW i \in DOMAIN q, IsIndex(q[i])
      PROVE  Gone(T, q, i) = IF Behind /\ i = n THEN Gone(S, q, i) \union {d[n][2]}
                             ELSE Gone(S, q, i)
  <2>1. q[i][2] \in Nat /\ \A k \in 0..(q[i][2] - 1) : k \in Nat
    BY <1>0, <1>6, KeyFacts
  <2>2. \A k \in Nat :
          Sibling(q, i, k) = d <=> i = n /\ Beside /\ d[n] = Index(k)
    <3> TAKE k \in Nat
    <3> DEFINE b == Sibling(q, i, k)
    <3>1. b \in Seq(Keys) /\ Len(b) = i /\ b[i] = Index(k) /\ \A j \in 1..(i - 1) : b[j] = q[j]
      BY <1>0, SiblingFacts
    <3> HIDE DEF b
    <3>2. ASSUME b = d PROVE i = n /\ Beside /\ d[n] = Index(k)
      BY <1>0, <3>1, <3>2
    <3>3. ASSUME i = n, Beside, d[n] = Index(k) PROVE b = d
      <4>1. \A j \in 1..Len(b) : b[j] = d[j]
        BY <1>0, <3>1, <3>3
      <4> QED
        BY <1>0, <3>1, <3>3, <4>1, SameSeq
    <3> QED
      BY <3>2, <3>3 DEF b
  <2>3. \A k \in 0..(q[i][2] - 1) :
          Sibling(q, i, k) = d <=> i = n /\ Behind /\ k = d[n][2]
    <3> TAKE k \in 0..(q[i][2] - 1)
    <3>1. k \in Nat /\ k < q[i][2] /\ d[n] \in Keys
      BY <1>0, <2>1
    <3>2. d[n] = Index(k) <=> IsIndex(d[n]) /\ d[n][2] = k
      BY <3>1, KeyFacts
    <3> QED
      BY <1>6, <2>2, <3>1, <3>2
  <2>4. Behind /\ i = n => d[n][2] \in 0..(q[i][2] - 1)
    BY <1>4, <2>1
  <2> HIDE DEF Behind, Beside
  <2> QED
    BY <1>3, <2>3, <2>4 DEF Gone
<1>7. After(d, r) = IF Behind THEN [r EXCEPT ![n] = Index(r[n][2] - 1)] ELSE r
  <2>1. ASSUME Len(q) >= n PROVE Ancestor(r, n - 1) = Parent(d) <=> Beside
    <3>1. n - 1 \in Nat /\ n - 1 <= Len(r) /\ n - 1 <= Len(d)
      BY <1>0, <1>1, <2>1
    <3>2. Ancestor(r, n - 1) = Ancestor(d, n - 1) <=> \A i \in 1..(n - 1) : r[i] = d[i]
      BY <1>0, <1>1, <3>1, SameAncestor
    <3>3. \A i \in 1..(n - 1) : r[i] = q[i]
      BY <1>0, <1>2, <2>1
    <3> QED
      BY <1>0, <2>1, <3>2, <3>3 DEF Parent
  <2>2. ASSUME Len(q) >= n PROVE IsIndex(r[n]) = IsIndex(q[n])
    BY <1>0, <2>2, PlaceFacts
  <2>3. ASSUME Beside, IsIndex(d[n]), IsIndex(q[n])
        PROVE  r[n][2] > d[n][2] <=> q[n][2] > d[n][2]
    BY <1>4, <2>3
  <2>4. Len(d) = n /\ Len(r) = Len(q)
    BY <1>0, <1>1
  <2> QED
    BY <2>1, <2>2, <2>3, <2>4 DEF After
<1>8. ASSUME ~IsPrefix(d, q) PROVE After(d, r) = MovedTo(T, q)
  <2>1. /\ MovedTo(T, q) \in Seq(Keys) /\ Len(MovedTo(T, q)) = Len(q)
    BY <1>0, PlaceFacts
  <2>2. ASSUME NEW i \in DOMAIN q, ~(Behind /\ i = n) PROVE MovedTo(T, q)[i] = r[i]
    <3>1. IsIndex(q[i]) => Gone(T, q, i) = Gone(S, q, i)
      BY <1>6, <2>2
    <3> QED
      BY <1>0, <3>1, PlaceFacts
  <2>3. ASSUME Behind PROVE n \in DOMAIN q /\ MovedTo(T, q)[n] = Index(r[n][2] - 1)
    <3>1. n \in DOMAIN q /\ IsIndex(q[n])
      BY <1>0, <2>3
    <3>2. Gone(T, q, n) = Gone(S, q, n) \union {d[n][2]} /\ d[n][2] \notin Gone(S, q, n)
      BY <1>4, <1>6, <2>3, <3>1
    <3>3. IsFiniteSet(Gone(S, q, n)) /\ Cardinality(Gone(S, q, n)) \in Nat
          /\ r[n][2] = q[n][2] - Cardinality(Gone(S, q, n))
          /\ MovedTo(T, q)[n] = Index(q[n][2] - Cardinality(Gone(T, q, n)))
      BY <1>0, <3>1, PlaceFacts
    <3>4. Cardinality(Gone(T, q, n)) = Cardinality(Gone(S, q, n)) + 1
      BY <3>2, <3>3, FS_AddElement
    <3>5. q[n][2] \in Nat
      BY <1>4, <2>3
    <3>6. q[n][2] - Cardinality(Gone(T, q, n)) = r[n][2] - 1
      BY <3>3, <3>4, <3>5
    <3> QED
      BY <3>1, <3>3, <3>6
  <2>4. CASE Behind
    <3> DEFINE w == Index(r[n][2] - 1)
               a == [r EXCEPT ![n] = w]
    <3>1. w \in Keys
      <4>1. n \in 1..Len(MovedTo(T, q)) /\ MovedTo(T, q)[n] = w
        BY <1>0, <2>1, <2>3, <2>4
      <4> HIDE DEF w
      <4> QED
        BY <2>1, <4>1
    <3>2. a \in Seq(Keys) /\ Len(a) = Len(q) /\ \A i \in DOMAIN q : a[i] = IF i = n THEN w ELSE r[i]
      <4>1. r \in Seq(Keys) /\ Len(r) = Len(q) /\ Len(q) \in Nat /\ n \in 1..Len(q) /\ DOMAIN q = 1..Len(q)
        BY <1>0, <1>1, <2>3, <2>4
      <4> HIDE DEF w, r
      <4>2. r \in [1..Len(q) -> Keys]
        BY <4>1
      <4>3. a \in [1..Len(q) -> Keys] /\ \A i \in 1..Len(q) : a[i] = IF i = n THEN w ELSE r[i]
        BY <3>1, <4>1, <4>2
      <4> HIDE DEF a
      <4>4. a \in Seq(Keys) /\ DOMAIN a = 1..Len(q)
        BY <4>1, <4>3
      <4>5. Len(a) = Len(q)
        BY <4>1, <4>4
      <4> QED
        BY <4>1, <4>3, <4>4, <4>5
    <3>3. \A i \in 1..Len(q) : a[i] = MovedTo(T, q)[i]
      BY <1>0, <2>2, <2>3, <2>4, <3>2
    <3>4. a = MovedTo(T, q)
      BY <2>1, <3>2, <3>3, SameSeq
    <3> QED
      BY <1>7, <2>4, <3>4
  <2>5. CASE ~Behind
    <3>1. r = MovedTo(T, q)
      BY <1>0, <1>1, <2>1, <2>2, <2>5, SameSeq
    <3> QED
      BY <1>7, <2>5, <3>1
  <2> QED
    BY <2>4, <2>5
<1> QED
  BY <1>5, <1>8

-----------------------------------------------------------------------------
\* The masks that were applied, and what is left at any time: what the reference
\* says of them.
Applied == masks \ ToSet(pending)

MaskInv ==
  /\ original \in Documents /\ masks \subseteq Pointers
  /\ pending \in Seq(masks)
  /\ \A i, j \in DOMAIN pending : i # j => pending[i] # pending[j]
  /\ Ordered =>
       /\ \A i, j \in DOMAIN pending : i < j => GoesFirst(pending[i], pending[j])
       /\ \A s \in Applied : \A i \in DOMAIN pending : GoesFirst(s, pending[i])
  /\ Ordered /\ OneSpelling => remaining = [q \in Kept(Applied) |-> MovedTo(Applied, q)]

LEMMA NothingApplied ==
  ASSUME original \in Documents
  PROVE  [q \in original |-> q] = [q \in Kept({}) |-> MovedTo({}, q)]
<1>1. Hit({}) = {}
  BY DEF Hit
<1>2. Kept({}) = original
  BY <1>1 DEF Kept
<1>3. ASSUME NEW q \in original PROVE MovedTo({}, q) = q
  <2>1. q \in Seq(Keys) /\ MovedTo({}, q) \in Seq(Keys) /\ Len(MovedTo({}, q)) = Len(q)
    BY PositionsArePositions, PlaceFacts
  <2>2. ASSUME NEW i \in DOMAIN q PROVE MovedTo({}, q)[i] = q[i]
    <3>1. CASE IsIndex(q[i])
      <4>1. q[i][2] \in Nat /\ q[i] = Index(q[i][2])
        BY <2>1, <3>1, KeyFacts
      <4>2. Gone({}, q, i) = {}
        BY <1>1 DEF Gone
      <4>3. Cardinality(Gone({}, q, i)) = 0
        BY <4>2, FS_EmptySet
      <4> QED
        BY <3>1, <4>1, <4>3, PlaceFacts
    <3>2. CASE ~IsIndex(q[i])
      BY <3>2, PlaceFacts
    <3> QED
      BY <3>1, <3>2
  <2> QED
    BY <2>1, <2>2, SameSeq
<1> QED
  BY <1>2, <1>3

LEMMA InitMask == MaskInit => MaskInv
<1> SUFFICES ASSUME MaskInit PROVE MaskInv
  OBVIOUS
<1>1. /\ pending \in SetToSeqs(masks) /\ IsFiniteSet(masks)
      /\ Ordered => \A i, j \in DOMAIN pending : i < j => GoesFirst(pending[i], pending[j])
  BY DEF MaskInit, SortedMasks
<1>2. /\ pending \in Seq(masks) /\ ToSet(pending) = masks
      /\ \A i, j \in DOMAIN pending : i # j => pending[i] # pending[j]
  BY <1>1, AllAreListed
<1>3. Applied = {}
  BY <1>2 DEF Applied
<1>4. remaining = [q \in Kept(Applied) |-> MovedTo(Applied, q)]
  BY <1>3, NothingApplied DEF MaskInit
<1> QED
  BY <1>1, <1>2, <1>3, <1>4 DEF MaskInv, MaskInit

\* What applying the next mask does to what is left.
LEMMA RemovesNext ==
  ASSUME NEW S, NEW p, \/ Turn(S, p)
                       \/ original \in Documents /\ p = << >>,
         remaining = [q \in Kept(S) |-> MovedTo(S, q)],
         IF \E q \in DOMAIN remaining : Denotes(p, remaining[q])
           THEN \E q \in DOMAIN remaining :
                  Denotes(p, remaining[q]) /\ remaining' = WithoutNode(remaining[q])
           ELSE UNCHANGED remaining
  PROVE  remaining' = [q \in Kept(S \union {p}) |-> MovedTo(S \union {p}, q)]
<1> DEFINE T == S \union {p}
<1>0. DOMAIN remaining = Kept(S) /\ \A q \in Kept(S) : remaining[q] = MovedTo(S, q) /\ q \in original
  BY DEF Kept
<1>1. CASE \A d \in original : ~Denotes(p, d)
  <2>1. Hit(T) = Hit(S)
    BY <1>1 DEF Hit
  <2>2. Kept(T) = Kept(S) /\ \A q \in Kept(S) : MovedTo(T, q) = MovedTo(S, q)
    BY <2>1 DEF Kept, MovedTo
  <2>3. \A q \in Kept(S) : ~Denotes(p, remaining[q])
    BY <1>0, <1>1, SameTarget DEF Denotes
  <2> QED
    BY <1>0, <2>2, <2>3
<1>2. CASE \E d \in original : Denotes(p, d)
  <2>0. Turn(S, p) /\ original \in Documents /\ p \in Pointers
    BY <1>2 DEF Denotes, Turn
  <2>1. PICK d \in original : Denotes(p, d)
    BY <1>2
  <2>2. d \in Kept(S) /\ d \notin Hit(S) /\ MovedTo(S, d) = d /\ Denotes(p, remaining[d])
    BY <1>0, <2>0, <2>1, TargetIsKept, SameTarget
  <2>3. PICK q \in Kept(S) : Denotes(p, remaining[q]) /\ remaining' = WithoutNode(remaining[q])
    BY <1>0, <2>2
  <2>4. q = d
    BY <1>0, <2>0, <2>1, <2>3, SameTarget, OneNode
  <2>5. remaining' = WithoutNode(d)
    BY <1>0, <2>2, <2>3, <2>4
  <2>6. Hit(T) = Hit(S) \union {d}
    BY <2>0, <2>1, OneNode DEF Hit
  <2>7. ASSUME NEW r \in original
        PROVE  r \in Kept(T) <=> r \in Kept(S) /\ ~IsPrefix(d, r)
    <3>1. r \in Seq(Keys) /\ d \in Seq(Keys) /\ d # << >>
      BY <2>0, <2>1, PositionsArePositions DEF Denotes
    <3>2. ASSUME NEW i \in DOMAIN r, Ancestor(r, i) = d PROVE IsPrefix(d, r)
      <4>1. i \in 0..Len(r)
        BY <3>1
      <4>2. Len(d) = i /\ \A j \in 1..i : d[j] = r[j]
        BY <3>1, <3>2, <4>1, AncestorFacts
      <4> QED
        BY <3>1, <4>1, <4>2, PrefixFacts
    <3>3. ASSUME IsPrefix(d, r) PROVE Len(d) \in DOMAIN r /\ Ancestor(r, Len(d)) = d
      <4>1. Len(d) <= Len(r) /\ \A i \in 1..Len(d) : d[i] = r[i]
        BY <3>1, <3>3, PrefixFacts
      <4>2. Len(d) \in 0..Len(r) /\ Len(d) \in DOMAIN r
        BY <3>1, <4>1
      <4>3. /\ Ancestor(r, Len(d)) \in Seq(Keys) /\ Len(Ancestor(r, Len(d))) = Len(d)
            /\ \A i \in 1..Len(d) : Ancestor(r, Len(d))[i] = r[i]
        BY <3>1, <4>2, AncestorFacts
      <4> QED
        BY <3>1, <4>1, <4>2, <4>3, SameSeq
    <3> QED
      BY <2>6, <3>2, <3>3 DEF Kept
  <2>8. Kept(T) = {r \in Kept(S) : ~IsPrefix(d, remaining[r])}
    BY <1>0, <2>0, <2>1, <2>7, OneMore DEF Kept
  <2>9. \A r \in Kept(T) : After(d, remaining[r]) = MovedTo(T, r)
    BY <1>0, <2>0, <2>1, <2>7, <2>8, OneMore
  <2>10. WithoutNode(d) = [r \in Kept(T) |-> After(d, remaining[r])]
    <3>1. {r \in DOMAIN remaining : ~IsPrefix(d, remaining[r])} = Kept(T)
      BY <1>0, <2>8
    <3> HIDE DEF T
    <3> QED
      BY <3>1 DEF WithoutNode
  <2> HIDE DEF T
  <2>11. [r \in Kept(T) |-> After(d, remaining[r])] = [r \in Kept(T) |-> MovedTo(T, r)]
    BY <2>9
  <2>12. remaining' = [r \in Kept(T) |-> MovedTo(T, r)]
    BY <2>5, <2>10, <2>11
  <2> QED
    BY <2>12 DEF T
<1> QED
  BY <1>1, <1>2

\* The reference is about the answer and the masks only.
LEMMA SameReference ==
  ASSUME original' = original
  PROVE  [q \in Kept(Applied) |-> MovedTo(Applied, q)]' =
           [q \in Kept(Applied') |-> MovedTo(Applied', q)]
<1>1. Hit(Applied)' = Hit(Applied')
  BY DEF Hit
<1>2. Kept(Applied)' = Kept(Applied')
  BY <1>1 DEF Kept
<1>3. \A q : MovedTo(Applied, q)' = MovedTo(Applied', q)
  BY <1>1 DEF MovedTo
<1> QED
  BY <1>2, <1>3

\* Each mask leaves what the reference says of those applied up to it.
LEMMA StepMask == MaskInv /\ [MaskNext]_maskVars => MaskInv'
<1> SUFFICES ASSUME MaskInv, [MaskNext]_maskVars PROVE MaskInv'
  OBVIOUS
<1>1. CASE UNCHANGED maskVars
  <2>1. Applied' = Applied /\ Ordered' = Ordered /\ OneSpelling' = OneSpelling
    BY <1>1 DEF maskVars, Applied, Ordered, OneSpelling
  <2>2. [q \in Kept(Applied) |-> MovedTo(Applied, q)]' = [q \in Kept(Applied) |-> MovedTo(Applied, q)]
    BY <1>1, <2>1, SameReference DEF maskVars
  <2> QED
    BY <1>1, <2>1, <2>2 DEF MaskInv, maskVars
<1>2. CASE MaskNext
  <2> DEFINE p == Head(pending)
             S == Applied
             T == S \union {p}
  <2>1. /\ original' = original /\ masks' = masks /\ pending # << >> /\ pending' = Tail(pending)
        /\ original \in Documents /\ masks \subseteq Pointers
        /\ pending \in Seq(masks)
        /\ \A i, j \in DOMAIN pending : i # j => pending[i] # pending[j]
    BY <1>2 DEF MaskNext, ApplyMask, MaskInv
  <2>2. /\ 1 \in DOMAIN pending /\ p = pending[1] /\ p \in masks
        /\ pending' \in Seq(masks) /\ Len(pending') = Len(pending) - 1
        /\ \A i \in DOMAIN pending' : i + 1 \in DOMAIN pending /\ pending'[i] = pending[i + 1]
        /\ \A i \in DOMAIN pending : i = 1 \/ (i - 1 \in DOMAIN pending' /\ pending[i] = pending'[i - 1])
    BY <2>1
  <2>3. \A i, j \in DOMAIN pending' : i # j => pending'[i] # pending'[j]
    BY <2>1, <2>2
  <2>4. Applied' = T
    <3>1. ToSet(pending) = {pending[i] : i \in DOMAIN pending}
      BY DEF ToSet
    <3>2. ToSet(pending)' = {pending'[i] : i \in DOMAIN pending'}
      BY DEF ToSet
    <3>3. p \notin ToSet(pending)'
      <4>1. ASSUME NEW i \in DOMAIN pending' PROVE pending'[i] # p
        <5>1. i \in Nat /\ i >= 1
          BY <2>2
        <5> QED
          BY <2>1, <2>2, <5>1
      <4> QED
        BY <3>2, <4>1
    <3>4. ToSet(pending) = ToSet(pending)' \union {p}
      <4>1. ASSUME NEW i \in DOMAIN pending PROVE pending[i] \in ToSet(pending)' \union {p}
        BY <2>2, <3>2
      <4>2. ASSUME NEW i \in DOMAIN pending' PROVE pending'[i] \in ToSet(pending)
        BY <2>2, <3>1
      <4>3. p \in ToSet(pending)
        BY <2>2, <3>1
      <4> HIDE DEF p
      <4> QED
        BY <3>1, <3>2, <4>1, <4>2, <4>3
    <3> HIDE DEF p
    <3>5. masks \ ToSet(pending)' = (masks \ ToSet(pending)) \union {p}
      BY <2>2, <3>3, <3>4
    <3> QED
      BY <2>1, <3>5 DEF Applied
  <2>5. Ordered' = Ordered /\ OneSpelling' = OneSpelling
    BY <2>1 DEF Ordered, OneSpelling
  <2>6. p \notin S /\ S \subseteq masks
    BY <2>2 DEF Applied, ToSet
  <2>7. ASSUME Ordered
        PROVE  /\ \A i, j \in DOMAIN pending' : i < j => GoesFirst(pending'[i], pending'[j])
               /\ \A s \in T : \A i \in DOMAIN pending' : GoesFirst(s, pending'[i])
               /\ \A s \in S : GoesFirst(s, p)
    <3>1. /\ \A i, j \in DOMAIN pending : i < j => GoesFirst(pending[i], pending[j])
          /\ \A s \in S : \A i \in DOMAIN pending : GoesFirst(s, pending[i])
      BY <2>7 DEF MaskInv
    <3>2. \A i \in DOMAIN pending' : i \in Nat /\ i >= 1
      BY <2>2
    <3>3. \A i, j \in DOMAIN pending' : i < j => GoesFirst(pending'[i], pending'[j])
      BY <2>2, <3>1, <3>2
    <3>4. \A i \in DOMAIN pending' : GoesFirst(p, pending'[i])
      <4> TAKE i \in DOMAIN pending'
      <4>1. i \in Nat /\ i >= 1
        BY <3>2
      <4>2. 1 < i + 1 /\ i + 1 \in DOMAIN pending /\ 1 \in DOMAIN pending
        BY <2>2, <4>1
      <4>3. GoesFirst(pending[1], pending[i + 1])
        BY <3>1, <4>2
      <4> QED
        BY <2>2, <4>3
    <3>5. ASSUME NEW s \in T, NEW i \in DOMAIN pending' PROVE GoesFirst(s, pending'[i])
      <4>1. CASE s = p
        BY <3>4, <4>1
      <4>2. CASE s \in S
        BY <2>2, <3>1, <4>2
      <4> QED
        BY <4>1, <4>2
    <3>6. \A s \in S : GoesFirst(s, p)
      BY <2>2, <3>1
    <3> HIDE DEF T, S, p
    <3> QED
      BY <3>3, <3>5, <3>6
  <2>8. ASSUME Ordered, OneSpelling PROVE remaining' = [q \in Kept(T) |-> MovedTo(T, q)]
    <3>1. Turn(S, p) \/ (original \in Documents /\ p = << >>)
      BY <2>1, <2>2, <2>6, <2>7, <2>8 DEF Turn
    <3>2. remaining = [q \in Kept(S) |-> MovedTo(S, q)]
      BY <2>8 DEF MaskInv
    <3>3. IF \E q \in DOMAIN remaining : Denotes(p, remaining[q])
            THEN \E q \in DOMAIN remaining :
                   Denotes(p, remaining[q]) /\ remaining' = WithoutNode(remaining[q])
            ELSE UNCHANGED remaining
      BY <1>2 DEF MaskNext, ApplyMask
    <3> HIDE DEF p, S
    <3> QED
      BY <3>1, <3>2, <3>3, RemovesNext
  <2>9. [q \in Kept(Applied) |-> MovedTo(Applied, q)]' = [q \in Kept(T) |-> MovedTo(T, q)]
    BY <2>1, <2>4, SameReference
  <2> HIDE DEF T
  <2> QED
    BY <2>1, <2>2, <2>3, <2>4, <2>5, <2>7, <2>8, <2>9 DEF MaskInv
<1> QED
  BY <1>1, <1>2

\* MaskRemovesExactly is never violated: what is left in the end is what the masks do
\* not point to in the answer as it was, moved up to where it belongs.
THEOREM MasksRemoveExactly == MaskSpec => []MaskRemovesExactly
<1>1. MaskInv => MaskRemovesExactly
  <2> SUFFICES ASSUME MaskInv, pending = << >>, Ordered, OneSpelling
               PROVE  remaining = [q \in Kept(masks) |-> MovedTo(masks, q)]
    BY DEF MaskRemovesExactly
  <2>1. Applied = masks
    BY DEF Applied, ToSet
  <2> QED
    BY <2>1 DEF MaskInv
<1> QED
  BY <1>1, InitMask, StepMask, PTL DEF MaskSpec
===============================================================================
