------------------------------ MODULE AppState ------------------------------
(***************************************************************************)
(* What the apps share: which of them is on the screen (kernel.c), the     *)
(* files, as module FileStore promises them (a write is done or not), and  *)
(* the settings with the best scores, in RAM and in the file .settings     *)
(* (apps/settings/prefs.c).  A setting has a key, a default and the values *)
(* it may have; a key of the file may have no line, or one that is no such *)
(* value.                                                                  *)
(***************************************************************************)
EXTENDS Integers, Sequences, FiniteSets

CONSTANTS
  Names,         \* the names of files, none of which starts with a dot
  NoFile,        \* what a name has that no file has
  PrefKeys,      \* the keys of the file
  Allowed,       \* what number() and prefs_parse() accept for a key
  Default,       \* DEFAULTS
  NoLine,        \* a key without a line, or with one that is not understood
  StartFiles     \* what the file may hold at first

ASSUME PrefsAllowed ==
  Default = [k \in PrefKeys |-> Default[k]] /\ \A k \in PrefKeys : Default[k] \in Allowed[k] /\ NoLine \notin Allowed[k]

(* A best score has the width of a score, and number() takes all of it.    *)
Games == {"tetris", "snake", "2048"}
ASSUME BestAllowed == \A game \in Games : game \in PrefKeys /\ Allowed[game] = Nat

VARIABLES
  files,         \* the file system: a text, or NoFile, for each name
  app,           \* g_kernel.app_state
  redraw,        \* s_redraw_pending
  prefs,         \* g_prefs
  prefsFile,     \* the file: for each key a value or NoLine
  mounted,       \* flashfs_mounted()
  outside        \* history: a save failed, or the PC wrote the file

prefsVars == <<prefs, prefsFile, mounted, outside>>

(* prefs_parse(); no file is an empty one.                                 *)
Parsed(file) == [k \in PrefKeys |-> IF file[k] \in Allowed[k] THEN file[k] ELSE Default[k]]

(* prefs_load(): without a file system the defaults.                       *)
PrefsLoaded == IF mounted THEN Parsed(prefsFile) ELSE Default

\* mutant: a file of the same length is taken for the same file
PrefsSaveLength ==
  \/ mounted /\ prefsFile' = (IF NoLine \in {prefsFile[k] : k \in PrefKeys} THEN prefs' ELSE prefsFile) /\ outside' = FALSE
  \/ (mounted => prefsFile # prefs') /\ outside' = TRUE /\ UNCHANGED prefsFile

(* prefs_save(): what is in g_prefs now; the write may fail.               *)
PrefsSave ==
  \/ mounted /\ prefsFile' = prefs' /\ outside' = FALSE
  \/ (mounted => prefsFile # prefs') /\ outside' = TRUE /\ UNCHANGED prefsFile

(* prefs_new_best(): saved at once if it is better.                        *)
NewBest(game, score) ==
  /\ UNCHANGED mounted
  /\ IF score > prefs[game] THEN prefs' = [prefs EXCEPT ![game] = score] /\ PrefsSave
     ELSE UNCHANGED <<prefs, prefsFile, outside>>

(* The PC sends another file, or deletes it.                               *)
PcWrites(file) ==
  /\ mounted /\ prefsFile' = file /\ outside' = TRUE /\ UNCHANGED <<files, app, redraw, prefs, mounted>>

PrefsInit ==
  /\ mounted \in BOOLEAN /\ prefsFile \in StartFiles /\ prefs = PrefsLoaded
  /\ outside = FALSE
=============================================================================
