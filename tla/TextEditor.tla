----------------------------- MODULE TextEditor -----------------------------
(***************************************************************************)
(* apps/text_editor/text_editor.c: the text and its cursor, the part of    *)
(* the text on the screen, and saving, which asks a new document for its   *)
(* name.  A character is a glyph or NL; a name is typed by picking one     *)
(* (NamingType, NamingErase); ALPHA only picks the glyph.                  *)
(***************************************************************************)
EXTENDS AppState, FiniteSetsExt

CONSTANTS
  NoName,        \* the empty name
  Glyphs, NL,    \* the characters of a text
  MaxBytes,      \* EDITOR_MAX_BYTES
  ROWS, COLS,    \* lines and columns on the screen
  LEFT_CONTEXT   \* columns kept to the left of the cursor when scrolling left

ASSUME EditorNames == NoName \notin Names
ASSUME EditorSizes ==
  /\ MaxBytes \in Nat /\ ROWS \in Nat \ {0} /\ COLS \in Nat \ {0}
  /\ LEFT_CONTEXT \in 0 .. COLS - 1

VARIABLES
  text, cpos,        \* s_text[0 .. s_tlen - 1], s_cpos
  scroll, hscroll,   \* s_scroll, s_hscroll
  filename,          \* s_filename
  modified,          \* s_modified
  shift,             \* s_shift
  naming, name,      \* s_naming, s_name
  kept               \* history: nobody else has changed the file of that name
                     \* since the editor loaded or saved it

page == <<text, cpos, scroll, hscroll>>
asking == <<naming, name>>
editor == <<page, filename, modified, shift, asking, kept>>

Chars == Glyphs \cup {NL}

-----------------------------------------------------------------------------
(* Lines.                                                                  *)

LineAt(t, p) == Cardinality({i \in 1 .. p : t[i] = NL})
CountLines(t) == LineAt(t, Len(t)) + 1

(* line_start(): a line that is not there starts at the end.               *)
LineStart(t, l) == Min({p \in 0 .. Len(t) : LineAt(t, p) = l} \cup {Len(t)})

Column(t, p) == p - LineStart(t, LineAt(t, p))

Inserted(t, p, c) == SubSeq(t, 1, p) \o <<c>> \o SubSeq(t, p + 1, Len(t))
Deleted(t, p) == SubSeq(t, 1, p - 1) \o SubSeq(t, p + 1, Len(t))

Least(a, b) == IF a < b THEN a ELSE b

UpOf(t, p) ==
  LET l    == LineAt(t, p)
      room == LineStart(t, l) - 1 - LineStart(t, l - 1)
  IN  IF l > 0 THEN LineStart(t, l - 1) + Least(Column(t, p), room) ELSE p

\* mutant: every line below is taken to end with a newline
LengthBelowNL(t, l) == LineStart(t, l + 2) - LineStart(t, l + 1) - 1

LengthBelow(t, l) ==
  IF l + 2 < CountLines(t) THEN LineStart(t, l + 2) - LineStart(t, l + 1) - 1
  ELSE Len(t) - LineStart(t, l + 1)

DownOf(t, p) ==
  LET l == LineAt(t, p)
  IN  IF l < CountLines(t) - 1
      THEN LineStart(t, l + 1) + Least(Column(t, p), LengthBelow(t, l)) ELSE p

(* The end of text_editor_handle_event(): keep the cursor on the screen.   *)
RowScroll(l) ==
  IF l < scroll THEN l ELSE IF l >= scroll + ROWS THEN l - ROWS + 1 ELSE scroll

\* mutant: only scrolls to the right
ColumnScrollRight(c) == IF c >= hscroll + COLS THEN c - COLS + 1 ELSE hscroll

ColumnScroll(c) ==
  IF c < hscroll THEN IF c > LEFT_CONTEXT THEN c - LEFT_CONTEXT ELSE 0
  ELSE IF c >= hscroll + COLS THEN c - COLS + 1 ELSE hscroll

(* The text and the cursor after a key.                                    *)
Page(t, p) ==
  /\ text' = t /\ cpos' = p
  /\ scroll' = RowScroll(LineAt(t, p)) /\ hscroll' = ColumnScroll(Column(t, p))

-----------------------------------------------------------------------------
(* Keys.  Every action is one call of text_editor_handle_event().          *)

Editing == app = "editor" /\ ~naming

(* insert_char(): a full text stays as it is.                              *)
Insert(c) ==
  /\ Editing /\ (c = NL => ~shift)
  /\ IF Len(text) >= MaxBytes THEN Page(text, cpos) /\ UNCHANGED modified
     ELSE Page(Inserted(text, cpos, c), cpos + 1) /\ modified' = TRUE
  /\ shift' = FALSE
  /\ UNCHANGED <<files, app, filename, asking, kept>>

\* mutant: the change is not marked
BackspaceUnmarked ==
  /\ Editing
  /\ IF cpos = 0 THEN Page(text, cpos) ELSE Page(Deleted(text, cpos), cpos - 1)
  /\ UNCHANGED <<files, app, filename, modified, shift, asking, kept>>

Backspace ==
  /\ Editing
  /\ IF cpos = 0 THEN Page(text, cpos) /\ UNCHANGED modified
     ELSE Page(Deleted(text, cpos), cpos - 1) /\ modified' = TRUE
  /\ UNCHANGED <<files, app, filename, shift, asking, kept>>

Moved(p) == Page(text, p) /\ UNCHANGED <<files, app, filename, modified, shift, asking, kept>>

Left == Editing /\ cpos > 0 /\ Moved(cpos - 1)
Right == Editing /\ cpos < Len(text) /\ Moved(cpos + 1)
Up == Editing /\ Moved(UpOf(text, cpos))
Down == Editing /\ Moved(DownOf(text, cpos))

Shift ==
  /\ app = "editor" /\ shift' = ~shift
  /\ UNCHANGED <<files, app, page, filename, modified, asking, kept>>

(* save_file(), once there is a name: the text is written, or not.         *)
Written(n) == files' = [files EXCEPT ![n] = text] /\ modified' = FALSE /\ kept' = TRUE
NotWritten == UNCHANGED <<files, modified, kept>>

(* SHIFT+EXE: save, or ask for a name first.                               *)
Save ==
  /\ Editing /\ shift /\ shift' = FALSE
  /\ IF filename = NoName
     THEN naming' = TRUE /\ name' = NoName /\ NotWritten
     ELSE (Written(filename) \/ NotWritten) /\ UNCHANGED asking
  /\ UNCHANGED <<app, page, filename>>

Naming == app = "editor" /\ naming

NamingStop ==
  /\ Naming /\ naming' = FALSE
  /\ UNCHANGED <<files, app, page, filename, modified, shift, name, kept>>

NamingType ==
  /\ Naming /\ name' \in Names /\ shift' = FALSE
  /\ UNCHANGED <<files, app, page, filename, modified, naming, kept>>

NamingErase ==
  /\ Naming /\ name # NoName /\ name' \in (Names \cup {NoName}) \ {name}
  /\ UNCHANGED <<files, app, page, filename, modified, shift, naming, kept>>

(* EXE: a name that is free becomes the document's, unless the changes     *)
(* could not be saved.  A name that is not free is asked for again.        *)
NamingDone ==
  /\ Naming /\ name \in Names /\ files[name] = NoFile /\ naming' = FALSE
  /\ \/ Written(name) /\ filename' = name
     \/ NotWritten /\ filename' = IF modified THEN NoName ELSE name
  /\ UNCHANGED <<app, page, shift, name>>

-----------------------------------------------------------------------------
(* What the file manager calls.                                            *)

Opens(n) == n \in Names /\ files[n] # NoFile /\ Len(files[n]) <= MaxBytes

(* text_editor_open(): does not touch s_shift and s_naming.                *)
Opened(n) ==
  /\ text' = files[n] /\ filename' = n /\ modified' = FALSE /\ kept' = TRUE
  /\ cpos' = 0 /\ scroll' = 0 /\ hscroll' = 0
  /\ UNCHANGED <<shift, asking>>

(* text_editor_new()                                                       *)
NewText ==
  /\ text' = <<>> /\ filename' = NoName /\ modified' = FALSE /\ kept' = TRUE
  /\ cpos' = 0 /\ scroll' = 0 /\ hscroll' = 0
  /\ naming' = FALSE /\ UNCHANGED <<shift, name>>

\* mutant: HOME is looked at before the question
EditorLeaveAnytime == app = "editor" /\ app' = "home" /\ UNCHANGED <<files, editor>>

(* HOME and BACK: the text stays, saved or not.                            *)
EditorLeave == Editing /\ app' = "home" /\ UNCHANGED <<files, editor>>

(* Somebody else changed the files F: is it still as the editor knows it?  *)
ChangedByOthers(F) == kept' = (kept /\ filename \notin F)

EditorInit ==
  /\ text = <<>> /\ cpos = 0 /\ scroll = 0 /\ hscroll = 0
  /\ filename = NoName /\ modified = FALSE /\ shift = FALSE
  /\ naming = FALSE /\ name = NoName /\ kept = TRUE

EditorKey ==
  \/ \E c \in Chars : Insert(c)
  \/ Backspace \/ Left \/ Right \/ Up \/ Down \/ Shift \/ Save
  \/ NamingStop \/ NamingType \/ NamingErase \/ NamingDone \/ EditorLeave

-----------------------------------------------------------------------------
(* The cursor is in the text, and the place where it stands is one of      *)
(* those on the screen, after any typing, moving, saving and opening.      *)
CursorShown ==
  /\ cpos \in 0 .. Len(text) /\ Len(text) <= MaxBytes
  /\ LineAt(text, cpos) \in scroll .. scroll + ROWS - 1
  /\ Column(text, cpos) \in hscroll .. hscroll + COLS - 1

(* UP and DOWN go to the next line, to the same column or, when that line  *)
(* is shorter, to its end: for every text and cursor that keys can reach.  *)
Reaches(p, l) ==
  /\ LineAt(text, p) = l /\ Column(text, p) <= Column(text, cpos)
  /\ Column(text, p) < Column(text, cpos) => (p = Len(text) \/ text[p + 1] = NL)

MovesByLine ==
  LET l == LineAt(text, cpos)
  IN  /\ l > 0 => Reaches(UpOf(text, cpos), l - 1)
      /\ l < CountLines(text) - 1 => Reaches(DownOf(text, cpos), l + 1)

(* A title without the star for unsaved changes is true: unless somebody   *)
(* else changed the file since, it holds the text on the screen.  (A new,  *)
(* empty document whose first save failed keeps the name it was given:     *)
(* text_editor.c:310 only takes the name back from a modified one.)        *)
ShownSaved ==
  filename # NoName /\ ~modified /\ kept =>
    files[filename] = text \/ (text = <<>> /\ files[filename] = NoFile)

(* Only a document without a name is asked for one, and only while the     *)
(* editor is shown: opening a file does not end the question, so a         *)
(* question left behind would take the next file's keys.                   *)
NamingIsNew == naming => app = "editor" /\ filename = NoName
=============================================================================
