------------------------------ MODULE Graphing ------------------------------
(***************************************************************************)
(* apps/functions/functions.c: the list of functions with the row that is  *)
(* edited, the graph with trace and analysis, the table.  A text is one of *)
(* Texts, which parse, or WrongText, which does not, or NoText.  The       *)
(* window's numbers and the graph's banner are left out: follow_cursor()   *)
(* brings the cursor into the window whenever it moves.                    *)
(***************************************************************************)
EXTENDS AppState, SequencesExt

CONSTANTS MAX_FNS, Texts, WrongText, NoText, AN_COUNT

ASSUME GraphSizes == MAX_FNS \in Nat \ {0} /\ {WrongText, NoText} \cap Texts = {}

VARIABLES
  fns, fsel,             \* s_fn, s_nfn; s_sel
  view,                  \* s_view
  entry, erow, emsg,     \* s_entry, s_row; s_msg is not empty
  eshift,                \* s_shift
  tracing, menu,         \* s_trace; s_menu_sel, or -1 without s_menu
  drawnFns               \* what is on the screen

enter == <<entry, erow, emsg, eshift>>
functions == <<fns, fsel, view, enter, tracing, menu, drawnFns>>

-----------------------------------------------------------------------------
(* draw_enter(), draw_table() and draw_graph(), each with its header: what *)
(* they read.  The row that is edited shows the entry.                     *)
Listed(f, r, e) == IF r < Len(f) THEN [f EXCEPT ![r + 1] = e] ELSE Append(f, e)

FnView(v, f, s, e, r, m, sh, tr, mn) ==
  IF v = "enter" THEN <<v, sh, Listed(f, r, e), r, m>>
  ELSE IF v = "table" THEN <<v, sh, f, s>> ELSE <<v, sh, f, s, tr, mn>>

(* functions_redraw(), once the rest is known.                             *)
FnShown == drawnFns' = FnView(view', fns', fsel', entry', erow', emsg', eshift', tracing', menu')

InFunctions(v) == app = "functions" /\ view = v /\ UNCHANGED <<app, files, redraw, prefsVars>>

-----------------------------------------------------------------------------
(* The list.                                                               *)

\* mutant: the row below the last is there even when the list is full
SelectRowBelow(r, f) ==
  /\ erow' = (IF r < 0 THEN 0 ELSE IF r > Len(f) THEN Len(f) ELSE r)
  /\ entry' = (IF erow' < Len(f) THEN f[erow' + 1] ELSE NoText)

(* select_row() *)
SelectRow(r, f) ==
  LET last == IF Len(f) < MAX_FNS THEN Len(f) ELSE MAX_FNS - 1
  IN  /\ erow' = (IF r < 0 THEN 0 ELSE IF r > last THEN last ELSE r)
      /\ entry' = (IF erow' < Len(f) THEN f[erow' + 1] ELSE NoText)

Entering == InFunctions("enter") /\ UNCHANGED <<view, tracing, menu>>

FnRow ==
  /\ Entering /\ emsg' = FALSE /\ UNCHANGED <<fns, fsel, eshift>>
  /\ (\E d \in {-1, 1} : SelectRow(erow + d, fns)) /\ FnShown

(* SHIFT, a key that inserts, BACKSPACE.                                   *)
FnShift == Entering /\ eshift' = ~eshift /\ emsg' = FALSE /\ UNCHANGED <<fns, fsel, entry, erow>> /\ FnShown
FnType ==
  /\ Entering /\ entry' \in Texts \cup {WrongText} /\ eshift' = FALSE /\ emsg' = FALSE
  /\ UNCHANGED <<fns, fsel, erow>> /\ FnShown
FnErase ==
  /\ Entering /\ entry # NoText /\ entry' \in Texts \cup {WrongText, NoText} /\ emsg' = FALSE
  /\ UNCHANGED <<fns, fsel, erow, eshift>> /\ FnShown

(* EXE on an emptied row, on a text that parses, on one that does not.     *)
FnDelete ==
  /\ Entering /\ entry = NoText /\ erow < Len(fns) /\ fns' = RemoveAt(fns, erow + 1)
  /\ fsel' = (IF fsel >= Len(fns') THEN 0 ELSE fsel)
  /\ SelectRow(erow, fns') /\ emsg' = FALSE /\ UNCHANGED eshift /\ FnShown
FnStore ==
  /\ Entering /\ entry \in Texts /\ fns' = Listed(fns, erow, entry)
  /\ SelectRow(Len(fns'), fns') /\ emsg' = FALSE /\ UNCHANGED <<fsel, eshift>> /\ FnShown
FnRefuse == Entering /\ entry = WrongText /\ emsg' = TRUE /\ UNCHANGED <<fns, fsel, entry, erow, eshift>> /\ FnShown

-----------------------------------------------------------------------------
(* From one view to another: TOOLBOX and VAR from the list or the table,   *)
(* VAR from the graph, ALPHA, and BACK or HOME.                            *)
ToView(v) == view' = v /\ UNCHANGED <<fns, enter, tracing>> /\ FnShown

FnSwitch ==
  /\ InFunctions("enter") \/ InFunctions("table")
  /\ fsel' = (IF fsel >= Len(fns) THEN 0 ELSE fsel) /\ UNCHANGED menu
  /\ \E v \in {"graph", "table"} : ToView(v)
FnSwitchGraph ==
  /\ InFunctions("graph") /\ menu' = -1 /\ UNCHANGED fsel /\ \E v \in {"enter", "table"} : ToView(v)

(* BACK ends the trace first; while the menu is open it is the menu's.     *)
FnBack ==
  /\ menu = -1 /\ UNCHANGED <<menu, fsel, fns, enter>>
  /\ \/ InFunctions("graph") /\ tracing' = FALSE /\ (IF tracing THEN UNCHANGED view ELSE view' = "enter") /\ FnShown
     \/ InFunctions("table") /\ UNCHANGED tracing /\ view' = "enter" /\ FnShown
FnHome == \E v \in {"graph", "table"} : InFunctions(v) /\ UNCHANGED <<fsel, menu>> /\ ToView("enter")

(* UP and DOWN in the table.                                               *)
FnTable ==
  /\ InFunctions("table") /\ UNCHANGED <<view, fns, enter, tracing, menu>>
  /\ \/ fsel > 0 /\ fsel' = fsel - 1
     \/ fsel < Len(fns) - 1 /\ fsel' = fsel + 1
  /\ FnShown

FnLeave ==
  /\ app = "functions" /\ view = "enter" /\ app' = "home" /\ UNCHANGED <<files, redraw, prefsVars, functions>>

-----------------------------------------------------------------------------
(* graph_key() *)

OnGraph == InFunctions("graph") /\ menu = -1 /\ UNCHANGED <<view, fns, enter>>

FnTrace ==
  /\ OnGraph /\ fns # <<>> /\ tracing' = ~tracing /\ UNCHANGED <<fsel, menu>> /\ FnShown

(* UP and DOWN while tracing.  Without a function this is a remainder by   *)
(* zero: undefined, and on the processor the dividend (sdiv gives 0).      *)
FnPick ==
  /\ OnGraph /\ tracing /\ UNCHANGED <<tracing, menu>>
  /\ \E d \in {1, Len(fns) - 1} :
       IF fns = <<>> THEN fsel' = fsel + d /\ fsel' \in -1 .. MAX_FNS ELSE fsel' = (fsel + d) % Len(fns)
  /\ FnShown

(* The menu of analyses; what is found puts the cursor there.              *)
FnMenu == OnGraph /\ fns # <<>> /\ menu' = 0 /\ UNCHANGED <<fsel, tracing>> /\ FnShown
FnMenuKey ==
  /\ InFunctions("graph") /\ menu >= 0 /\ UNCHANGED <<view, fns, fsel, enter>>
  /\ \/ menu' \in {menu - 1, menu + 1, -1} \cap -1 .. AN_COUNT - 1 /\ UNCHANGED tracing
     \/ menu' = -1 /\ tracing' \in {tracing, tracing \/ (fns # <<>> /\ (menu < AN_COUNT - 1 \/ Len(fns) > 1))}
  /\ FnShown

FnInit ==
  /\ fns = <<>> /\ fsel = 0 /\ view = "enter" /\ entry = NoText /\ erow = 0 /\ emsg = FALSE /\ eshift = FALSE
  /\ tracing = FALSE /\ menu = -1 /\ drawnFns = FnView(view, fns, fsel, entry, erow, emsg, eshift, tracing, menu)

FnStep ==
  \/ FnRow \/ FnShift \/ FnType \/ FnErase \/ FnDelete \/ FnStore \/ FnRefuse \/ FnSwitch \/ FnSwitchGraph
  \/ FnTable \/ FnBack \/ FnHome \/ FnLeave \/ FnTrace \/ FnPick \/ FnMenu \/ FnMenuKey

-----------------------------------------------------------------------------
(* The screen shows the view as it is; the row that is edited is a         *)
(* function's or the first empty one, and what is stored there fits; the   *)
(* graph and the table never name a function that was deleted.             *)
FunctionsTell ==
  /\ Len(fns) <= MAX_FNS /\ erow <= Len(fns) /\ erow < MAX_FNS
  /\ app = "functions" => drawnFns = FnView(view, fns, fsel, entry, erow, emsg, eshift, tracing, menu)
  /\ view # "enter" /\ fns # <<>> => fsel < Len(fns)

(* functions.c:7-8: "trace: a cursor on the selected function ... (UP/DOWN *)
(* picks another function)": what is picked is a function, and while there *)
(* is none, nothing is.                                                    *)
PicksAFunction == fsel = 0 \/ fsel \in 1 .. Len(fns) - 1
=============================================================================
