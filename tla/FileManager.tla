----------------------------- MODULE FileManager -----------------------------
(***************************************************************************)
(* ui/filemanager.c and the other apps of kernel.c's task_shell() that     *)
(* change files or switch between apps: the home screen and the shell.     *)
(* The PC changes files too (usb_cdc.c, between two keys), and the file    *)
(* manager is not told: its list is as old as its last fm_redraw().        *)
(***************************************************************************)
EXTENDS TextEditor, SequencesExt

CONSTANTS
  FM_VISIBLE_ROWS,
  Uploads            \* what the PC and the shell write

ASSUME ListSizes == FM_VISIBLE_ROWS \in Nat \ {0} /\ IsFiniteSet(Names)
ASSUME UploadedTexts == Uploads \subseteq Seq(Chars)

VARIABLES
  items,             \* s_items: the list as it was loaded
  cursor, top,       \* s_cursor, s_scroll
  armed,             \* s_del_armed
  question           \* the name in the footer's question, or NoName

list == <<items, cursor, top>>
manager == <<list, armed, question>>
vars == <<files, app, editor, manager, redraw>>

-----------------------------------------------------------------------------
(* The list.                                                               *)

InList(n) == files[n] # NoFile

\* mutant: the last entry's place, one too far
ClampedLate(c, n) == IF c > n THEN IF n > 0 THEN n - 1 ELSE 0 ELSE c

Clamped(c, n) == IF c >= n THEN IF n > 0 THEN n - 1 ELSE 0 ELSE c

TopFor(t, c) ==
  IF t > c THEN c ELSE IF c >= t + FM_VISIBLE_ROWS THEN c - FM_VISIBLE_ROWS + 1 ELSE t

(* draw_footer()                                                           *)
Asked(a, l, c) == IF a /\ l # <<>> THEN l[c + 1] ELSE NoName

\* mutant: the footer is not drawn again
FmRedrawList(present) ==
  /\ items' \in SetToSeqs(present)
  /\ cursor' = Clamped(cursor, Len(items')) /\ top' = TopFor(top, cursor')
  /\ UNCHANGED question

(* fm_redraw(): the files there are now, in the order of the directory,    *)
(* then the footer.                                                        *)
FmRedraw(present) ==
  /\ items' \in SetToSeqs(present)
  /\ cursor' = Clamped(cursor, Len(items')) /\ top' = TopFor(top, cursor')
  /\ question' = Asked(armed', items', cursor')

FilesNow == {n \in Names : files'[n] # NoFile}

(* kernel_set_app(): the app's redraw; only the file manager's reads.      *)
SetApp(a) ==
  /\ app' = a /\ UNCHANGED armed
  /\ IF a = "files" THEN FmRedraw(FilesNow) ELSE UNCHANGED <<list, question>>

-----------------------------------------------------------------------------
(* fm_handle_event().  Any key ends the question (and draws the footer).   *)

Browsing == app = "files"
Disarmed == armed' = FALSE /\ question' = NoName

(* SHIFT a second time: fm_delete().                                       *)
FmDelete ==
  /\ Browsing /\ armed /\ armed' = FALSE
  /\ IF items = <<>> THEN UNCHANGED <<files, kept, list>> /\ question' = NoName
     ELSE LET n == items[cursor + 1]
          IN  /\ \/ InList(n) /\ files' = [files EXCEPT ![n] = NoFile] /\ ChangedByOthers({n})
                 \/ UNCHANGED <<files, kept>>
              /\ FmRedraw(FilesNow)
  /\ UNCHANGED <<app, page, filename, modified, shift, asking, redraw>>

FmShift ==
  /\ Browsing /\ ~armed /\ armed' = (items # <<>>) /\ question' = Asked(armed', items, cursor)
  /\ UNCHANGED <<files, app, editor, list, redraw>>

FmDown ==
  /\ Browsing /\ Disarmed
  /\ IF cursor < Len(items) - 1
     THEN cursor' = cursor + 1 /\ top' = IF cursor' >= top + FM_VISIBLE_ROWS THEN top + 1 ELSE top
     ELSE UNCHANGED <<cursor, top>>
  /\ UNCHANGED <<files, app, editor, items, redraw>>

FmUp ==
  /\ Browsing /\ Disarmed
  /\ IF cursor > 0 THEN cursor' = cursor - 1 /\ top' = IF cursor' < top THEN top - 1 ELSE top
     ELSE UNCHANGED <<cursor, top>>
  /\ UNCHANGED <<files, app, editor, items, redraw>>

(* EXE: fm_open().  The file may be gone, or be another than in the list.  *)
FmOpen ==
  /\ Browsing /\ Disarmed
  /\ IF items # <<>> /\ Opens(items[cursor + 1])
     THEN Opened(items[cursor + 1]) /\ app' = "editor" ELSE UNCHANGED <<app, editor>>
  /\ UNCHANGED <<files, list, redraw>>

(* VAR: a new document.                                                    *)
FmNew ==
  /\ Browsing /\ Disarmed /\ NewText /\ app' = "editor" /\ UNCHANGED <<files, list, redraw>>

FmLeave == Browsing /\ Disarmed /\ app' = "home" /\ UNCHANGED <<files, editor, list, redraw>>

FmKey == FmDelete \/ FmShift \/ FmDown \/ FmUp \/ FmOpen \/ FmNew \/ FmLeave

-----------------------------------------------------------------------------
(* Home and shell.                                                         *)

(* home_handle_event(): EXE starts the selected app.                       *)
HomeOpen ==
  /\ app = "home" /\ UNCHANGED <<files, editor, redraw>>
  /\ \E a \in {"files", "editor", "shell"} : SetApp(a)

(* The change of one file by somebody else than the editor.                *)
Changes(n, to) ==
  /\ files[n] # to /\ files' = [files EXCEPT ![n] = to] /\ ChangedByOthers({n})
  /\ UNCHANGED <<app, page, filename, modified, shift, asking, manager>>

(* execute(): touch and rm; shell_puts() asks for a redraw.  `fm' opens    *)
(* the file manager; the echo of the command asked for the redraw before.  *)
ShellFile ==
  /\ app = "shell" /\ redraw' = TRUE
  /\ \E n \in Names : \/ files[n] = NoFile /\ Changes(n, <<>>)
                      \/ files[n] # NoFile /\ Changes(n, NoFile)

ShellFm == app = "shell" /\ redraw' = TRUE /\ UNCHANGED <<files, editor>> /\ SetApp("files")

ShellLeave == app = "shell" /\ UNCHANGED <<files, editor, redraw>> /\ SetApp("home")

-----------------------------------------------------------------------------
(* kernel.c: keys first, then the redraw that was asked for, then USB.     *)

Redraw ==
  /\ redraw /\ redraw' = FALSE /\ UNCHANGED <<files, editor>> /\ SetApp(app)

(* power_sleep() ends: the app is drawn again, keys from before are gone.  *)
Wake == redraw' = TRUE /\ UNCHANGED <<files, app, editor, manager>>

(* usb_cdc_process(): SEND and DEL; also while the calculator sleeps.      *)
Usb ==
  /\ ~redraw /\ UNCHANGED redraw
  /\ \E n \in Names, to \in Uploads \cup {NoFile} : Changes(n, to)

Init ==
  /\ files \in [Names -> Uploads \cup {NoFile}] /\ app \in {"home", "shell"} /\ EditorInit
  /\ items = <<>> /\ cursor = 0 /\ top = 0 /\ armed = FALSE /\ question = NoName
  /\ redraw = FALSE

Next ==
  \/ EditorKey /\ UNCHANGED <<manager, redraw>>
  \/ FmKey \/ HomeOpen \/ ShellFile \/ ShellFm \/ ShellLeave \/ Redraw \/ Wake \/ Usb

Spec == Init /\ [][Next]_vars

-----------------------------------------------------------------------------
(* The file manager deletes no file but the one its question names on the  *)
(* screen, whatever became of the list since SHIFT was pressed first: it   *)
(* is loaded again on waking up, with other files in other places.         *)
DeletesWhatWasAsked ==
  [][Browsing /\ manager' # manager =>
       \A n \in Names : InList(n) /\ files'[n] = NoFile => question = n]_vars

(* The list's cursor is on an entry, and that entry on the screen, however *)
(* the list shrinks and the keys move; a question asks about that entry.   *)
ListCursor ==
  /\ armed => app = "files"
  /\ app = "files" =>
       /\ items # <<>> => (cursor < Len(items) /\ cursor \in top .. top + FM_VISIBLE_ROWS - 1)
       /\ question = Asked(armed, items, cursor)

(* The editor's and the file manager's cursors are on the screen, and move *)
(* by lines and entries that exist.                                        *)
CursorsShown == CursorShown /\ MovesByLine /\ ListCursor
=============================================================================
