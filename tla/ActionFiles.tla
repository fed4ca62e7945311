------------------------------ MODULE ActionFiles ------------------------------
(***************************************************************************)
(* The directory of Action files: `openapi import` commands write drafts   *)
(* into it (app/openapi.rs), the operator edits and deletes files in it,   *)
(* and processes read it into a registry as they start (app/action.rs).    *)
(* All of them at once, step by step; a process may be killed at any.      *)
(*                                                                         *)
(* A file is half written, or whole with the name of its Action and who    *)
(* wrote it.  What the definition says is ActionRequest's subject.         *)
(***************************************************************************)
EXTENDS Integers, Sequences, FiniteSets, FiniteSetsExt, SequencesExt

CONSTANTS
  Importers,       (* processes that import a document                      *)
  Loaders,         (* processes that load a registry                        *)
  Operator,        (* who edits files by hand                               *)
  Names, Files,    (* of Actions, of the files in the directory             *)
  FileOf,          (* FileOf[n]: '.' of a name becomes '_', and ".yaml"     *)
  NoFile,
  MaxOperations,   (* bound on the operations of a document                 *)
  MaxEdits,        (* bound on the operator's edits                         *)
  MaxFaults        (* bound on killed processes and failing file operations *)

ASSUME FilesAssumption ==
  /\ FileOf \in [Names -> Files]
  /\ Operator \notin Importers /\ Importers \intersect Loaders = {}
  /\ NoFile \notin [name : Names, by : Importers \union {Operator}, whole : BOOLEAN]

VARIABLES
  dir,       (* dir[f]: NoFile, or [name, by, whole]                        *)
  stage,     (* where a process is                                          *)
  plan,      (* plan[i]: the names in i's document, still to be looked at   *)
  todo,      (* the names still to be written, or the files still to be read *)
  output,    (* output[i]: the files i has created, in order                *)
  actions,   (* actions[p]: p's registry, <<name, file>>                    *)
  edits, mishaps,
  deleted,   (* history: <<i, f>>, f was removed by i and not made by it    *)
  stuck,     (* history: <<i, f>>, i could not remove f                     *)
  steady     (* history: the files unchanged since p listed them            *)

history == <<deleted, stuck>>
filesVars == <<dir, stage, plan, todo, output, actions, edits, mishaps, history, steady>>

Processes == Importers \union Loaders
Present == {f \in Files : dir[f] # NoFile}
Half(n, p) == [name |-> n, by |-> p, whole |-> FALSE]
Whole(n, p) == [name |-> n, by |-> p, whole |-> TRUE]

FilesInit ==
  /\ dir = [f \in Files |-> NoFile]
  /\ stage \in [Processes -> {"new", "unused"}]
  /\ plan = [i \in Importers |-> << >>]
  /\ todo = [p \in Processes |-> << >>]
  /\ output = [i \in Importers |-> << >>]
  /\ actions = [p \in Loaders |-> {}]
  /\ edits = 0 /\ mishaps = 0 /\ deleted = {} /\ stuck = {}
  /\ steady = [p \in Loaders |-> {}]

Enter(p, next) == stage' = [stage EXCEPT ![p] = next]
Mishap == mishaps < MaxFaults /\ mishaps' = mishaps + 1

-----------------------------------------------------------------------------
(* import_document.                                                          *)

\* parse_operations, or an error of it.
ParseOperations(i) ==
  /\ stage[i] = "new"
  /\ \/ /\ \E names \in BoundedSeq(Names, MaxOperations) :
             /\ plan' = [plan EXCEPT ![i] = names]
             /\ todo' = [todo EXCEPT ![i] = names]
        /\ Enter(i, "check")
     \/ Enter(i, "failed") /\ UNCHANGED <<plan, todo>>
  /\ UNCHANGED <<dir, output, actions, edits, mishaps, history>>

Target(i) == FileOf[Head(todo[i])]

\* No two operations may have one file, and none may have a file that exists.
CheckTarget(i) ==
  LET seen == SubSeq(plan[i], 1, Len(plan[i]) - Len(todo[i])) IN
  /\ stage[i] = "check" /\ todo[i] # << >>
  /\ IF dir[Target(i)] # NoFile \/ \E n \in ToSet(seen) : FileOf[n] = Target(i)
       THEN Enter(i, "failed") /\ UNCHANGED todo
       ELSE todo' = [todo EXCEPT ![i] = Tail(@)] /\ UNCHANGED stage
  /\ UNCHANGED <<dir, plan, output, actions, edits, mishaps, history>>

\* Every draft is written down in memory first; one may be too large.
Serialize(i) ==
  /\ stage[i] = "check" /\ todo[i] = << >>
  /\ Enter(i, "create") \/ Enter(i, "failed")
  /\ todo' = [todo EXCEPT ![i] = plan[i]]
  /\ UNCHANGED <<dir, plan, output, actions, edits, mishaps, history>>

\* create_new
CreateDraft(i) ==
  /\ stage[i] = "create" /\ todo[i] # << >> /\ dir[Target(i)] = NoFile
  /\ dir' = [dir EXCEPT ![Target(i)] = Half(Head(todo[i]), i)]
  /\ Enter(i, "write")
  /\ UNCHANGED <<plan, todo, output, actions, edits, mishaps, history>>

\* write_all and sync_all go to the file that was created, which may have been
\* deleted or replaced meanwhile.
WriteDraft(i) ==
  /\ stage[i] = "write"
  /\ dir' = IF dir[Target(i)] = Half(Head(todo[i]), i)
            THEN [dir EXCEPT ![Target(i)] = Whole(Head(todo[i]), i)] ELSE dir
  /\ output' = [output EXCEPT ![i] = Append(@, Target(i))]
  /\ todo' = [todo EXCEPT ![i] = Tail(@)]
  /\ Enter(i, "create")
  /\ UNCHANGED <<plan, actions, edits, mishaps, history>>

\* The file exists by now, or cannot be created or written.
WriteFails(i) ==
  /\ \/ stage[i] = "create" /\ todo[i] # << >> /\ dir[Target(i)] # NoFile /\ UNCHANGED mishaps
     \/ stage[i] \in {"create", "write"} /\ todo[i] # << >> /\ Mishap
  /\ Enter(i, "undo")
  /\ UNCHANGED <<dir, plan, todo, output, actions, edits, history>>

\* remove_file, whose errors are ignored.
RemoveFile(i, f) ==
  \/ /\ dir' = [dir EXCEPT ![f] = NoFile]
     /\ deleted' = IF f \in Present /\ dir[f].by # i THEN deleted \union {<<i, f>>} ELSE deleted
     /\ UNCHANGED <<mishaps, stuck>>
  \/ /\ f \in Present /\ Mishap
     /\ stuck' = stuck \union {<<i, f>>}
     /\ UNCHANGED <<dir, deleted>>

\* Slip: what was created before is removed, and not the file that failed.
UndoTargetKept(i) ==
  /\ stage[i] = "undo"
  /\ Enter(i, "undone")
  /\ UNCHANGED <<dir, plan, todo, output, actions, edits, mishaps, history>>

\* The target first, whoever made it, then what was created before it.
UndoTarget(i) ==
  /\ stage[i] = "undo"
  /\ RemoveFile(i, Target(i))
  /\ Enter(i, "undone")
  /\ UNCHANGED <<plan, todo, output, actions, edits>>

UndoCreated(i) ==
  /\ stage[i] = "undone" /\ output[i] # << >>
  /\ RemoveFile(i, Head(output[i]))
  /\ output' = [output EXCEPT ![i] = Tail(@)]
  /\ UNCHANGED <<stage, plan, todo, actions, edits>>

\* A document without operations is an error, and so is what was undone.
EndImport(i) ==
  /\ \/ stage[i] = "create" /\ todo[i] = << >>
        /\ Enter(i, IF output[i] = << >> THEN "failed" ELSE "imported")
     \/ stage[i] = "undone" /\ output[i] = << >> /\ Enter(i, "failed")
  /\ UNCHANGED <<dir, plan, todo, output, actions, edits, mishaps, history>>

ImportDocument(i) ==
  \/ ParseOperations(i) \/ CheckTarget(i) \/ Serialize(i)
  \/ CreateDraft(i) \/ WriteDraft(i) \/ WriteFails(i)
  \/ UndoTarget(i) \/ UndoCreated(i) \/ EndImport(i)

-----------------------------------------------------------------------------
(* ActionRegistry::load.                                                     *)

\* read_dir, and the paths sorted; a directory that cannot be read, or has too
\* many files, is an error.
ListFiles(p) ==
  /\ stage[p] = "new"
  /\ \/ /\ \E paths \in SetToSeqs(Present) : todo' = [todo EXCEPT ![p] = paths]
        /\ Enter(p, "read")
     \/ Enter(p, "failed") /\ UNCHANGED todo
  /\ UNCHANGED <<dir, plan, output, actions, edits, mishaps, history>>

NamesIn(p) == {entry[1] : entry \in actions[p]}

\* Slip: of two definitions of one Action the last is taken.
ReadFileReplaces(p) ==
  LET path == Head(todo[p])  file == dir[path] IN
  /\ stage[p] = "read" /\ todo[p] # << >>
  /\ IF file = NoFile \/ ~file.whole
       THEN Enter(p, "failed") /\ UNCHANGED actions
       ELSE /\ actions' = [actions EXCEPT ![p] =
                 {entry \in @ : entry[1] # file.name} \union {<<file.name, path>>}]
            /\ UNCHANGED stage
  /\ todo' = [todo EXCEPT ![p] = Tail(@)]
  /\ UNCHANGED <<dir, plan, output, edits, mishaps, history>>

\* read_definition: a file that is gone, half written or a second one for its
\* Action fails the whole registry.
ReadFile(p) ==
  LET path == Head(todo[p])  file == dir[path] IN
  /\ stage[p] = "read" /\ todo[p] # << >>
  /\ IF file = NoFile \/ ~file.whole \/ file.name \in NamesIn(p)
       THEN Enter(p, "failed") /\ UNCHANGED actions
       ELSE /\ actions' = [actions EXCEPT ![p] = @ \union {<<file.name, path>>}]
            /\ UNCHANGED stage
  /\ todo' = [todo EXCEPT ![p] = Tail(@)]
  /\ UNCHANGED <<dir, plan, output, edits, mishaps, history>>

EndLoad(p) ==
  /\ stage[p] = "read" /\ todo[p] = << >>
  /\ Enter(p, "loaded")
  /\ UNCHANGED <<dir, plan, todo, output, actions, edits, mishaps, history>>

Load(p) == ListFiles(p) \/ ReadFile(p) \/ EndLoad(p)

-----------------------------------------------------------------------------

\* The operator saves a file of any name, or deletes one.
EditFile ==
  /\ edits < MaxEdits /\ edits' = edits + 1
  /\ \E f \in Files :
       \/ \E n \in Names : dir' = [dir EXCEPT ![f] = Whole(n, Operator)]
       \/ dir[f] # NoFile /\ dir' = [dir EXCEPT ![f] = NoFile]
  /\ UNCHANGED <<stage, plan, todo, output, actions, mishaps, history>>

ImportKilled(i) ==
  /\ stage[i] \in {"create", "write", "undo", "undone"} /\ Mishap
  /\ Enter(i, "killed")
  /\ UNCHANGED <<dir, plan, todo, output, actions, edits, history>>

Steady(p) ==
  IF stage[p] = "new" THEN Present
  ELSE {f \in steady[p] : dir'[f] = dir[f]}

FilesNext ==
  /\ \/ \E i \in Importers : ImportDocument(i) \/ ImportKilled(i)
     \/ \E p \in Loaders : Load(p)
     \/ EditFile
  /\ steady' = [p \in Loaders |-> Steady(p)]

FilesSpec == FilesInit /\ [][FilesNext]_filesVars

-----------------------------------------------------------------------------
(* Properties.                                                               *)

\* An import that fails leaves nothing behind, apart from files it was not
\* allowed to remove; one that succeeds has written all of its drafts, and
\* only the operator's edits or another import's clean-up take one away
\* (openapi.rs:75-92).
ImportIsAllOrNothing ==
  \A i \in Importers :
    /\ stage[i] = "failed" =>
         \A f \in Present : dir[f].by = i => <<i, f>> \in stuck
    /\ stage[i] = "imported" =>
         \A n \in ToSet(plan[i]) :
           \/ dir[FileOf[n]] = Whole(n, i)
           \/ edits > 0
           \/ \E j \in Importers : <<j, FileOf[n]>> \in deleted

\* A registry that was loaded while the directory changed has every definition that
\* stayed as it was, and no two of one Action (action.rs:22-83).
LoadIsComplete ==
  \A p \in Loaders :
    stage[p] = "loaded" =>
      /\ \A f \in steady[p] : <<dir[f].name, f>> \in actions[p]
      /\ Cardinality(NamesIn(p)) = Cardinality(actions[p])

\* The documents' rule that an import leaves existing Actions alone
\* (docs/capability-broker-implementation-plan.md:383): it removes no file
\* that it did not make.
ImportSparesOthers == deleted = {}
===============================================================================
