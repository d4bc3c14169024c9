----------------------------- MODULE Statistics -----------------------------
(***************************************************************************)
(* apps/statistics/statistics.c: the table and its editing, the tabs, the  *)
(* file the table is kept in.                                              *)
(* A number is a member of Numbers, an empty cell is Empty; a line of the  *)
(* file is two of these, or Nan where it has the number that is none. What *)
(* is typed is a number, or Wrong when the cell does not take it.          *)
(***************************************************************************)
EXTENDS AppState, SequencesExt, FiniteSetsExt

CONSTANTS
  STATS_MAX, VIS_ROWS,
  Numbers,
  Infinite,          \* the numbers that a cell does not take
  Rounded,           \* a number as "%.10g" writes it and strtod() reads it
  Empty, Nan, Wrong,
  StatsUploads       \* what the PC makes of the file: lines, any number of them

CellValues == Numbers \cup {Empty}
TableRows == CellValues \X CellValues
FileLines == (CellValues \cup {Nan}) \X (CellValues \cup {Nan})
NoRow == <<Empty, Empty>>

ASSUME StatsSizes ==
  /\ {STATS_MAX, VIS_ROWS} \subseteq Nat \ {0} /\ Infinite \subseteq Numbers
  /\ Numbers \cap {Empty, Nan, Wrong} = {} /\ Empty \notin {Nan, Wrong} /\ Nan # Wrong
  /\ Rounded \in [Numbers -> Numbers] /\ \A v \in Numbers : Rounded[Rounded[v]] = Rounded[v]
  /\ StatsUploads \subseteq Seq(FileLines)

VARIABLES
  table,             \* s_x, s_y, s_rows: pairs
  tab, inTabs,       \* s_tab, s_in_tabs
  srow, scol, stop,  \* s_row, s_col, s_top
  editing, typed,    \* s_editing; s_buf while editing: Empty, a number, or Wrong
  sdirty,            \* s_dirty
  statsFile,         \* STATS_FILE: its lines; no file has none
  strange,           \* history: the table was read from a file with a Nan
  apart              \* history: the PC wrote the file, or deleting it failed

edit == <<editing, typed>>
place == <<srow, scol, stop>>
statistics == <<table, tab, inTabs, place, edit, sdirty, statsFile, strange, apart>>

-----------------------------------------------------------------------------
(* statistics_set_text(): a line counts when it has an x, be it Nan, or a  *)
(* y that is a number; a Nan is then an empty cell.                        *)
IsRow(l) == l[1] # Empty \/ l[2] \in Numbers
AsRow(l) == <<IF l[1] = Nan THEN Empty ELSE l[1], IF l[2] = Nan THEN Empty ELSE l[2]>>
Loaded(file) ==
  LET rows[i \in 0 .. Len(file)] ==
        IF i = 0 THEN <<>>
        ELSE IF ~IsRow(file[i]) \/ Len(rows[i - 1]) = STATS_MAX THEN rows[i - 1]
        ELSE Append(rows[i - 1], AsRow(file[i]))
  IN  rows[Len(file)]

(* format_row(): ten digits of each number.                                *)
TenDigits(c) == IF c = Empty THEN Empty ELSE Rounded[c]
FormatRow(r) == <<TenDigits(r[1]), TenDigits(r[2])>>

\* mutant: the row that is not full is not written
FormattedPairs(t) == [i \in 1 .. Len(t) |-> IF Empty \in {t[i][1], t[i][2]} THEN NoRow ELSE FormatRow(t[i])]

(* The rows as save() writes them.                                         *)
Formatted(t) == [i \in 1 .. Len(t) |-> FormatRow(t[i])]

(* save(): the stream begins and is written, or the table stays dirty;     *)
(* deleting the file is taken for done.                                    *)
StatsSave(t, d) ==
  IF ~d THEN UNCHANGED <<statsFile, apart>> /\ sdirty' = d
  ELSE \/ t # <<>> /\ statsFile' = Formatted(t) /\ sdirty' = FALSE /\ apart' = FALSE
       \/ t # <<>> /\ sdirty' = d /\ UNCHANGED <<statsFile, apart>>
       \/ t = <<>> /\ statsFile' = <<>> /\ sdirty' = FALSE /\ apart' = FALSE
       \/ t = <<>> /\ sdirty' = FALSE /\ apart' = TRUE /\ UNCHANGED statsFile

-----------------------------------------------------------------------------
(* commit(): is what is typed stored, if anything is; and the table then.  *)
Commits == ~editing \/ typed # Wrong
Stores == editing /\ typed \notin {Empty, Wrong}
WithCell(t, v) ==
  IF srow = Len(t) THEN Append(t, IF scol = 0 THEN <<v, Empty>> ELSE <<Empty, v>>)
  ELSE [t EXCEPT ![srow + 1][scol + 1] = v]

\* mutant: the table is not marked
CommitUnmarked ==
  /\ table' = (IF Stores THEN WithCell(table, typed) ELSE table) /\ UNCHANGED sdirty
  /\ editing' = FALSE /\ typed' = Empty

Commit ==
  /\ table' = (IF Stores THEN WithCell(table, typed) ELSE table) /\ sdirty' = (sdirty \/ Stores)
  /\ editing' = FALSE /\ typed' = Empty

(* scroll_to_row() *)
Scroll(r) == stop' = IF r < stop THEN r ELSE IF r >= stop + VIS_ROWS THEN r - VIS_ROWS + 1 ELSE stop

InTable ==
  /\ app = "statistics" /\ ~inTabs /\ tab = 0
  /\ UNCHANGED <<app, redraw, files, prefsVars, statsFile, strange, apart, tab>>

(* UP, LEFT and RIGHT, DOWN, OK; each stores first, or nothing happens.    *)
Next0(t) == IF srow < Len(t) /\ srow < STATS_MAX - 1 THEN srow + 1 ELSE srow
StatsUp ==
  /\ InTable /\ Commits /\ Commit /\ UNCHANGED scol
  /\ IF srow = 0 THEN inTabs' = TRUE /\ UNCHANGED <<srow, stop>>
     ELSE srow' = srow - 1 /\ Scroll(srow') /\ UNCHANGED inTabs
StatsSide == InTable /\ Commits /\ Commit /\ scol' \in {0, 1} /\ UNCHANGED srow /\ Scroll(srow) /\ UNCHANGED inTabs
StatsDown == InTable /\ Commits /\ Commit /\ srow' = Next0(table') /\ Scroll(srow') /\ UNCHANGED <<scol, inTabs>>

(* OK on a cell that is not edited: edit the text of what is there.        *)
TextOf(c) == IF c = Empty THEN Empty ELSE IF Rounded[c] \in Infinite THEN Wrong ELSE Rounded[c]
StatsEdit ==
  /\ InTable /\ ~editing /\ editing' = TRUE
  /\ typed' = (IF srow < Len(table) THEN TextOf(table[srow + 1][scol + 1]) ELSE Empty)
  /\ UNCHANGED <<table, sdirty, place, inTabs>>
StatsType ==
  /\ InTable /\ editing' = TRUE /\ typed' \in (Numbers \ Infinite) \cup {Wrong}
  /\ UNCHANGED <<table, sdirty, place, inTabs>>
StatsErase ==
  /\ InTable /\ editing /\ typed # Empty /\ typed' \in (Numbers \ Infinite) \cup {Empty, Wrong}
  /\ UNCHANGED <<editing, table, sdirty, place, inTabs>>
StatsCancel ==
  /\ app = "statistics" /\ editing /\ editing' = FALSE /\ typed' = Empty
  /\ UNCHANGED <<app, redraw, files, prefsVars, table, tab, inTabs, place, sdirty, statsFile, strange, apart>>

(* BACKSPACE on a cell that is not edited.                                 *)
StatsClear ==
  /\ InTable /\ ~editing /\ srow < Len(table) /\ sdirty' = TRUE
  /\ LET t == [table EXCEPT ![srow + 1][scol + 1] = Empty]
     IN  table' = IF t[srow + 1] = NoRow THEN RemoveAt(t, srow + 1) ELSE t
  /\ Scroll(srow) /\ UNCHANGED <<srow, scol, edit, inTabs>>

(* The tab bar, and the tabs that show a calculation.                      *)
StatsTabs ==
  /\ app = "statistics" /\ (inTabs \/ tab # 0)
  /\ \/ tab' \in {(tab + 1) % 3, (tab + 2) % 3} /\ UNCHANGED inTabs
     \/ inTabs' = ~inTabs /\ UNCHANGED tab
  /\ UNCHANGED <<app, redraw, files, prefsVars, table, place, edit, sdirty, statsFile, strange, apart>>

(* HOME, and BACK unless it ends an edit: an edit that is wrong goes on    *)
(* when the app is opened again.                                           *)
StatsLeave ==
  /\ app = "statistics" /\ app' = "home" /\ UNCHANGED <<redraw, files, prefsVars, tab, inTabs, place, strange>>
  /\ IF Commits
     THEN LET t == IF Stores THEN WithCell(table, typed) ELSE table
          IN  table' = t /\ editing' = FALSE /\ typed' = Empty /\ StatsSave(t, sdirty \/ Stores)
     ELSE StatsSave(table, sdirty) /\ UNCHANGED <<table, edit>>

(* The PC writes or deletes the file, which is not read before a restart.  *)
StatsUpload ==
  /\ statsFile' \in StatsUploads /\ apart' = TRUE
  /\ UNCHANGED <<app, redraw, files, prefsVars, table, tab, inTabs, place, edit, sdirty, strange>>

(* A restart: statistics_init(), which is load().                          *)
NanLine(file) == \E i \in 1 .. Len(file) : file[i][1] = Nan
StatsRestart ==
  /\ app' = "home" /\ table' = Loaded(statsFile) /\ strange' = NanLine(statsFile) /\ apart' = FALSE
  /\ tab' = 0 /\ inTabs' = FALSE /\ srow' = 0 /\ scol' = 0 /\ stop' = 0
  /\ editing' = FALSE /\ typed' = Empty /\ sdirty' = FALSE
  /\ UNCHANGED <<redraw, files, prefsVars, statsFile>>

StatsInit ==
  /\ statsFile \in StatsUploads /\ table = Loaded(statsFile) /\ tab = 0 /\ inTabs = FALSE
  /\ srow = 0 /\ scol = 0 /\ stop = 0 /\ editing = FALSE /\ typed = Empty /\ sdirty = FALSE
  /\ strange = NanLine(statsFile) /\ apart = FALSE

StatsStep ==
  \/ StatsUp \/ StatsSide \/ StatsDown \/ StatsEdit \/ StatsType \/ StatsErase \/ StatsCancel
  \/ StatsClear \/ StatsTabs \/ StatsLeave \/ StatsUpload \/ StatsRestart

-----------------------------------------------------------------------------
(* What is back after a restart: every row with a number, in its place,    *)
(* and ten digits of each number.                                          *)
IsBack(read, t) ==
  LET full == {i \in 1 .. Len(t) : t[i] # NoRow}
  IN  /\ Len(read) = Cardinality(full)
      /\ \A i \in full : read[Cardinality({j \in full : j <= i})] = FormatRow(t[i])

(* The table has no empty row, unless a Nan of the file gave it one; the   *)
(* cursor is on one of its rows or the one below, on the screen, and an    *)
(* edit only where its cell is shown; and out of the app a restart reads   *)
(* the table that was read or saved last, unless saving failed (and will   *)
(* be tried again) or the PC wrote the file.                               *)
StatsKept ==
  /\ Len(table) <= STATS_MAX /\ (~strange => \A i \in DOMAIN table : table[i] # NoRow)
  /\ srow \in 0 .. Len(table) /\ srow \in stop .. stop + VIS_ROWS - 1
  /\ editing => tab = 0 /\ ~inTabs
  /\ app # "statistics" /\ ~sdirty /\ ~apart =>
       Loaded(statsFile) = table \/ IsBack(Loaded(statsFile), table)
=============================================================================
