------------------------------- MODULE Menus --------------------------------
(***************************************************************************)
(* The home screen (apps/home/home.c), of which a key redraws two cells or *)
(* scrolls, the menu of games (apps/games/games.c), and the pages of help  *)
(* (apps/docs_app/docs_app.c), whose number of lines is all that counts of *)
(* them here.                                                              *)
(***************************************************************************)
EXTENDS AppState

CONSTANTS N_ITEMS, COLUMNS, ROWS_SHOWN, N_GAMES, NLines, SHOWN

ASSUME MenuSizes ==
  {N_ITEMS, COLUMNS, ROWS_SHOWN, N_GAMES, SHOWN} \subseteq Nat \ {0} /\ NLines \in Seq(Nat) \ {<<>>}

VARIABLES
  selected, firstRow,    \* s_cur, s_top
  cells,                 \* on the screen: an item, and whether it is marked; beyond the last none is
  game, drawnGame,       \* s_sel of games.c, and the row that is marked
  docs, drawnDocs        \* s_page and s_scroll; the page and the lines on the screen

menus == <<selected, firstRow, cells, game, drawnGame, docs, drawnDocs>>
N_ROWS == (N_ITEMS + COLUMNS - 1) \div COLUMNS
Places == 0 .. ROWS_SHOWN * COLUMNS - 1

(* draw_cell(), draw_grid() *)
Cell(i, s) == [item |-> i, marked |-> i = s]
Grid(t, s) == [p \in Places |-> Cell(t * COLUMNS + p, s)]
DrawnCells(old, t, drawn, s) ==
  [p \in Places |-> IF t * COLUMNS + p \in drawn THEN Cell(t * COLUMNS + p, s) ELSE old[p]]

\* mutant: the old cell stays marked
MoveOneCell(to) ==
  /\ selected' = to
  /\ LET r == to \div COLUMNS
     IN  IF r \in firstRow .. firstRow + ROWS_SHOWN - 1
         THEN UNCHANGED firstRow /\ cells' = DrawnCells(cells, firstRow, {to}, to)
         ELSE /\ firstRow' = (IF r < firstRow THEN r ELSE r - ROWS_SHOWN + 1)
              /\ cells' = Grid(IF r < firstRow THEN r ELSE r - ROWS_SHOWN + 1, to)

(* The end of home_handle_event(): scroll a row, or draw two cells.        *)
MoveTo(to) ==
  /\ selected' = to
  /\ LET r == to \div COLUMNS
     IN  IF r \in firstRow .. firstRow + ROWS_SHOWN - 1
         THEN UNCHANGED firstRow /\ cells' = DrawnCells(cells, firstRow, {selected, to}, to)
         ELSE /\ firstRow' = (IF r < firstRow THEN r ELSE r - ROWS_SHOWN + 1)
              /\ cells' = Grid(IF r < firstRow THEN r ELSE r - ROWS_SHOWN + 1, to)

(* The arrows: along the items row after row, and by a row; from the last  *)
(* row but one down to the last item if there is none below.               *)
HomeMoves ==
  {i \in {selected - 1, selected + 1, selected - COLUMNS, selected + COLUMNS} : i \in 0 .. N_ITEMS - 1}
    \cup (IF selected + COLUMNS >= N_ITEMS /\ selected \div COLUMNS < N_ROWS - 1 THEN {N_ITEMS - 1} ELSE {})

MenuKey(a) == app = a /\ UNCHANGED <<files, redraw, prefsVars>>

HomeMove ==
  /\ MenuKey("home") /\ UNCHANGED <<app, game, drawnGame, docs, drawnDocs>> /\ \E i \in HomeMoves : i # selected /\ MoveTo(i)

(* EXE on an item, of which one is the games; and back: home_redraw().     *)
HomeGames ==
  /\ MenuKey("home") /\ app' = "games" /\ drawnGame' = game
  /\ UNCHANGED <<selected, firstRow, cells, game, docs, drawnDocs>>
GamesMove ==
  /\ MenuKey("games") /\ game' \in {game - 1, game + 1} \cap 0 .. N_GAMES - 1 /\ drawnGame' = game'
  /\ UNCHANGED <<app, selected, firstRow, cells, docs, drawnDocs>>
GamesLeave ==
  /\ MenuKey("games") /\ app' = "home" /\ cells' = Grid(firstRow, selected)
  /\ UNCHANGED <<selected, firstRow, game, drawnGame, docs, drawnDocs>>

(* docs_redraw(): the lines from the first one on, as many as there is room for. *)
PageOf(p) == [page |-> p, lines |-> {i \in 0 .. NLines[p.at + 1] - 1 : i >= p.scroll /\ i < p.scroll + SHOWN}]

\* mutant: the next page begins where the last one was
DocsTurnOnly ==
  /\ MenuKey("docs") /\ UNCHANGED <<app, selected, firstRow, cells, game, drawnGame>>
  /\ \E p \in {docs.at - 1, docs.at + 1} \cap 0 .. Len(NLines) - 1 : docs' = [docs EXCEPT !.at = p]
  /\ drawnDocs' = PageOf(docs')

(* LEFT, RIGHT: another page, from its first line; UP, DOWN.               *)
DocsTurn ==
  /\ MenuKey("docs") /\ UNCHANGED <<app, selected, firstRow, cells, game, drawnGame>>
  /\ \E p \in {docs.at - 1, docs.at + 1} \cap 0 .. Len(NLines) - 1 : docs' = [at |-> p, scroll |-> 0]
  /\ drawnDocs' = PageOf(docs')
DocsScroll ==
  /\ MenuKey("docs") /\ UNCHANGED <<app, selected, firstRow, cells, game, drawnGame>>
  /\ \/ docs.scroll + SHOWN < NLines[docs.at + 1] /\ docs' = [docs EXCEPT !.scroll = @ + 1]
     \/ docs.scroll > 0 /\ docs' = [docs EXCEPT !.scroll = @ - 1]
  /\ drawnDocs' = PageOf(docs')
DocsOpen ==
  /\ MenuKey("home") /\ app' = "docs" /\ drawnDocs' = PageOf(docs)
  /\ UNCHANGED <<selected, firstRow, cells, game, drawnGame, docs>>
DocsLeave ==
  /\ MenuKey("docs") /\ app' = "home" /\ cells' = Grid(firstRow, selected)
  /\ UNCHANGED <<selected, firstRow, game, drawnGame, docs, drawnDocs>>

MenusInit ==
  /\ selected = 0 /\ firstRow = 0 /\ cells = Grid(0, 0) /\ game = 0 /\ drawnGame = 0
  /\ docs = [at |-> 0, scroll |-> 0] /\ drawnDocs = PageOf(docs)

MenusStep ==
  HomeMove \/ HomeGames \/ GamesMove \/ GamesLeave \/ DocsOpen \/ DocsTurn \/ DocsScroll \/ DocsLeave

-----------------------------------------------------------------------------
(* Wherever the arrows went, the home screen shows the rows that are on    *)
(* it, with the selected item among them and that one marked, no other;    *)
(* and a page of help shows as many lines as there is room for.            *)
MenusTell ==
  /\ selected \in 0 .. N_ITEMS - 1 /\ firstRow \in 0 .. N_ROWS - 1
  /\ app = "home" => cells = Grid(firstRow, selected) /\ \E p \in Places : cells[p].marked
  /\ app = "docs" =>
       /\ drawnDocs = PageOf(docs)
       /\ Cardinality(drawnDocs.lines) = Cardinality({i \in 1 .. NLines[docs.at + 1] : i <= SHOWN})
  /\ app = "games" => drawnGame = game /\ game \in 0 .. N_GAMES - 1
=============================================================================
