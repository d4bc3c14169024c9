----------------------------- MODULE PythonFiles -----------------------------
(***************************************************************************)
(* Python's open() (modules/nwos/nwos_open.c): what a script writes is     *)
(* held in RAM and saved on flush(), close(), at the end of what was       *)
(* entered or run (mp_port.c), and when the Python app is left             *)
(* (python_app.c); with modos.c and the PC, which change the same files.   *)
(* While a script runs the PC is not served.  What a script computes and   *)
(* prints is the interpreter's.                                            *)
(***************************************************************************)
EXTENDS AppState, SequencesExt

CONSTANTS
  MAX_OPEN,        \* writers at a time
  PY_WRITE_MAX,    \* what a script may write to one
  PyBytes,         \* the characters it writes
  PyUploads        \* what the PC sends

ASSUME WriterSizes == {MAX_OPEN, PY_WRITE_MAX} \subseteq Nat

VARIABLES
  running,         \* what runs: "nothing", "entry" of the prompt, "file"
  writers,         \* nwos_open_files: [name, data, dirty], or NoWriter
  forget,          \* s_left: the next entry imports again
  loaded,          \* the modules that were imported: what their file held then, or NoFile
  raised,          \* the last call raised an exception, or the note was printed
  owed             \* history: the writers with data that is not in the file, accepted since

scripts == <<running, writers, forget, loaded, raised, owed>>

NoWriter == [name |-> "", data |-> <<>>, dirty |-> FALSE]
Slots == 1 .. MAX_OPEN
Open(s) == writers[s] # NoWriter
Running == running # "nothing" /\ UNCHANGED <<app, prefsVars, running, forget>>
Exists(n) == files[n] # NoFile

-----------------------------------------------------------------------------
(* Calls of a script.                                                      *)

(* open(n, "w") empties the file even if nothing is written; "a" starts    *)
(* with what is there.  No slot is left: EMFILE.                           *)
PyOpen ==
  /\ Running /\ UNCHANGED <<files, loaded>>
  /\ IF \A s \in Slots : Open(s) THEN raised' = TRUE /\ UNCHANGED <<writers, owed>>
     ELSE LET s == CHOOSE s \in Slots : ~Open(s) /\ \A t \in 1 .. s - 1 : Open(t)
          IN  /\ raised' = FALSE
              /\ \E n \in Names :
                   \/ /\ writers' = [writers EXCEPT ![s] = [name |-> n, data |-> <<>>, dirty |-> TRUE]]
                      /\ owed' = owed \cup {s}
                   \/ /\ writers' = [writers EXCEPT ![s] =
                           [name |-> n, data |-> IF Exists(n) THEN files[n] ELSE <<>>, dirty |-> FALSE]]
                      /\ UNCHANGED owed

\* mutant: a file that was saved before counts as saved
PyWriteClean(s, c) ==
  /\ Running /\ Open(s) /\ UNCHANGED <<files, loaded>>
  /\ IF Len(writers[s].data) + 1 > PY_WRITE_MAX THEN raised' = TRUE /\ UNCHANGED <<writers, owed>>
     ELSE /\ writers' = [writers EXCEPT ![s].data = Append(@, c)]
          /\ raised' = FALSE /\ owed' = owed \cup {s}

(* write(); ENOSPC.                                                        *)
PyWrite(s, c) ==
  /\ Running /\ Open(s) /\ UNCHANGED <<files, loaded>>
  /\ IF Len(writers[s].data) + 1 > PY_WRITE_MAX THEN raised' = TRUE /\ UNCHANGED <<writers, owed>>
     ELSE /\ writers' = [writers EXCEPT ![s].data = Append(@, c), ![s].dirty = TRUE]
          /\ raised' = FALSE /\ owed' = owed \cup {s}

(* flush() saves; close() saves and forgets, whether it was saved or not.  *)
PyFlush(s) ==
  /\ Running /\ Open(s) /\ UNCHANGED loaded
  /\ \/ /\ files' = [files EXCEPT ![writers[s].name] = writers[s].data]
        /\ writers' = [writers EXCEPT ![s].dirty = FALSE] /\ raised' = FALSE /\ owed' = owed \ {s}
     \/ raised' = TRUE /\ UNCHANGED <<files, writers, owed>>

PyClose(s) ==
  /\ Running /\ Open(s) /\ writers' = [writers EXCEPT ![s] = NoWriter] /\ owed' = owed \ {s}
  /\ UNCHANGED loaded
  /\ \/ files' = [files EXCEPT ![writers[s].name] = writers[s].data] /\ raised' = FALSE
     \/ raised' = TRUE /\ UNCHANGED files

(* os.remove(), os.rename(): ENOENT, EEXIST, EIO.                          *)
PyOs ==
  /\ Running /\ UNCHANGED <<writers, loaded, owed>>
  /\ \/ raised' = TRUE /\ UNCHANGED files
     \/ \E n \in Names : Exists(n) /\ files' = [files EXCEPT ![n] = NoFile] /\ raised' = FALSE
     \/ \E n, to \in Names :
          /\ Exists(n) /\ ~Exists(to)
          /\ files' = [files EXCEPT ![n] = NoFile, ![to] = files[n]] /\ raised' = FALSE

(* import: a module that was loaded is not read again.                     *)
PyImport ==
  /\ Running /\ UNCHANGED <<files, writers, owed>>
  /\ \E n \in Names :
       IF loaded[n] # NoFile THEN raised' = FALSE /\ UNCHANGED loaded
       ELSE loaded' = [loaded EXCEPT ![n] = files[n]] /\ raised' = ~Exists(n)

-----------------------------------------------------------------------------
(* The files after the writers W were saved in the order of their slots,   *)
(* but for those of F.                                                     *)
SavedAll(W, F) ==
  LET S == {s \in W : s \notin F}
      lastOf(n) == {s \in S : writers[s].name = n /\ \A t \in S : writers[t].name = n => t <= s}
  IN  [n \in Names |-> IF lastOf(n) = {} THEN files[n] ELSE writers[CHOOSE s \in lastOf(n) : TRUE].data]

OpenSlots == {s \in Slots : Open(s)}

(* run_block(): after the user was away, imports read their files again.   *)
PyEnter ==
  /\ app = "python" /\ running = "nothing" /\ running' = "entry" /\ forget' = FALSE
  /\ loaded' = (IF forget THEN [n \in Names |-> NoFile] ELSE loaded) /\ raised' = FALSE
  /\ UNCHANGED <<files, app, prefsVars, writers, owed>>

(* mp_exec_repl(): nwos_flush_files(), and a note if one failed.           *)
PyEntryEnds ==
  /\ running = "entry" /\ running' = "nothing"
  /\ LET W == {s \in OpenSlots : writers[s].dirty}
     IN  \E F \in SUBSET W :
           /\ files' = SavedAll(W, F) /\ raised' = (F # {}) /\ owed' = owed \ (W \ F)
           /\ writers' = [s \in Slots |-> IF s \in W \ F THEN [writers[s] EXCEPT !.dirty = FALSE] ELSE writers[s]]
  /\ UNCHANGED <<app, prefsVars, forget, loaded>>

\* mutant: those that were not saved stay in their slots
CloseAllSaved(F) ==
  /\ files' = SavedAll(OpenSlots, F) /\ raised' = (F # {})
  /\ writers' = [s \in Slots |-> IF s \in F THEN writers[s] ELSE NoWriter] /\ owed' = owed \cap F

(* mp_close_files(), with its note.                                        *)
CloseAll(F) ==
  /\ files' = SavedAll(OpenSlots, F) /\ raised' = (F # {})
  /\ writers' = [s \in Slots |-> NoWriter] /\ owed' = {}

(* mp_exec_file(), from the files, the editor or the shell.                *)
PyRunFile ==
  /\ app # "python" /\ running = "nothing" /\ running' = "file" /\ \E n \in Names : Exists(n)
  /\ loaded' = [n \in Names |-> NoFile] /\ raised' = FALSE
  /\ UNCHANGED <<files, app, prefsVars, writers, forget, owed>>
PyFileEnds ==
  /\ running = "file" /\ running' = "nothing" /\ (\E F \in SUBSET OpenSlots : CloseAll(F))
  /\ UNCHANGED <<app, prefsVars, forget, loaded>>

(* HOME, BACK in the Python app.                                           *)
ScriptsLeave ==
  /\ app = "python" /\ running = "nothing" /\ app' = "home" /\ forget' = TRUE
  /\ (\E F \in SUBSET OpenSlots : CloseAll(F)) /\ UNCHANGED <<prefsVars, running, loaded>>

PcFile ==
  /\ running = "nothing"
  /\ \E n \in Names, to \in PyUploads \cup {NoFile} : files' = [files EXCEPT ![n] = to]
  /\ UNCHANGED <<app, prefsVars, scripts>>

PythonInit ==
  /\ running = "nothing" /\ writers = [s \in Slots |-> NoWriter] /\ forget = FALSE
  /\ loaded = [n \in Names |-> NoFile] /\ raised = FALSE /\ owed = {}

PythonStep ==
  \/ PyOpen \/ (\E s \in Slots, c \in PyBytes : PyWrite(s, c)) \/ (\E s \in Slots : PyFlush(s) \/ PyClose(s))
  \/ PyOs \/ PyImport \/ PyEnter \/ PyEntryEnds \/ PyRunFile \/ PyFileEnds \/ ScriptsLeave \/ PcFile

-----------------------------------------------------------------------------
(* What write() took is not lost silently: when its writer is closed, by   *)
(* the script or at the end, and when the prompt comes back, it is in the  *)
(* file - or a writer of the same file that was opened in a later slot     *)
(* saved after it - or the script or the user was told.                    *)
WrittenIsSaved ==
  \A s \in owed :
    (writers'[s] = NoWriter \/ (running' = "nothing" /\ running # "nothing")) =>
      \/ raised'
      \/ files'[writers[s].name] = writers[s].data
      \/ \E t \in OpenSlots : t > s /\ writers[t].name = writers[s].name

(* Scripts do not use up the slots: outside the Python app, and its        *)
(* scripts, none is taken.                                                 *)
SlotsComeBack == running = "nothing" /\ app # "python" => OpenSlots = {}
=============================================================================
