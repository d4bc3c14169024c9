----------------------------- MODULE Calculator -----------------------------
(***************************************************************************)
(* apps/calculator/calculator.c: the line that is typed, the history of    *)
(* calculations with the selected one, the error box, and what of it is on *)
(* the screen.  What an expression is worth is module Formulas'.           *)
(***************************************************************************)
EXTENDS AppState, SequencesExt

CONSTANTS
  HIST_MAX, HIST_ROWS, EXPR_MAX,
  Keytexts,          \* what keys insert: short sequences
  Results            \* what a calculation may give, as texts

ASSUME CalcSizes ==
  /\ {HIST_MAX, EXPR_MAX} \subseteq Nat /\ HIST_ROWS \in 1 .. HIST_MAX
  /\ Keytexts \cup Results \subseteq Seq(UNION {Range(t) : t \in Keytexts \cup Results})

VARIABLES
  hist, hsel, onResult,            \* s_hist (oldest first), s_sel, s_sel_result
  expr, failed,                    \* s_expr; s_msg is not empty
  shifted, alpha,                  \* s_shift, s_alpha
  drawnHist, drawnInput, drawnMods \* what is on the screen

browse == <<hist, hsel, onResult>>
drawnCalc == <<drawnHist, drawnInput, drawnMods>>
calculator == <<browse, expr, failed, shifted, alpha, drawnCalc>>

-----------------------------------------------------------------------------
(* draw_history(): the entry of the rows, newest at the bottom unless an    *)
(* older one is selected, the row and part marked, and the error's box.    *)
Bottom(h, s) == IF s >= 0 /\ s < Len(h) - HIST_ROWS + 1 THEN s + HIST_ROWS - 1 ELSE Len(h) - 1

First(h, s) == Bottom(h, s) - HIST_ROWS + 1

HistView(h, s, r, f) ==
  [rows |-> SubSeq(h, (IF First(h, s) < 0 THEN 0 ELSE First(h, s)) + 1, Bottom(h, s) + 1),
   marked |-> IF s < 0 THEN <<>> ELSE <<s - First(h, s), r>>, box |-> f]

DrawHistory == drawnHist' = HistView(hist', hsel', onResult', failed')

(* draw_input(): the line, with the cursor unless an entry is selected.    *)
DrawInput == drawnInput' = <<expr', hsel' < 0>>
DrawBoth == DrawHistory /\ DrawInput
DrawTitle == drawnMods' = <<shifted', alpha'>>

(* calculator_redraw() *)
CalcShown == DrawHistory /\ DrawInput /\ DrawTitle

-----------------------------------------------------------------------------
(* insert(), or not at all *)
WithText(t) == IF Len(expr) + Len(t) > EXPR_MAX THEN expr ELSE expr \o t

InCalc == app = "calculator" /\ UNCHANGED <<app, files, redraw, prefsVars>>

(* UP *)
CalcUp ==
  /\ InCalc /\ hist # <<>> /\ failed' = FALSE
  /\ IF hsel < 0 THEN hsel' = Len(hist) - 1 /\ onResult' = TRUE
     ELSE hsel' = (IF hsel > 0 THEN hsel - 1 ELSE 0) /\ UNCHANGED onResult
  /\ UNCHANGED <<hist, expr, shifted, alpha, drawnMods>> /\ DrawBoth

(* DOWN, LEFT and RIGHT, EXE, BACKSPACE while an entry is selected.        *)
Selected == InCalc /\ hsel >= 0 /\ UNCHANGED <<failed, shifted, alpha, drawnMods>>

CalcDown ==
  /\ Selected /\ hsel' = (IF hsel + 1 < Len(hist) THEN hsel + 1 ELSE -1) /\ UNCHANGED <<hist, onResult, expr>>
  /\ DrawBoth
CalcSide == Selected /\ onResult' \in BOOLEAN /\ UNCHANGED <<hist, hsel, expr>> /\ DrawBoth
CalcCopy ==
  /\ Selected /\ hsel' = -1 /\ expr' = WithText(hist[hsel + 1][IF onResult THEN 2 ELSE 1])
  /\ UNCHANGED <<hist, onResult>> /\ DrawBoth

\* mutant: the selection stays where it was
CalcRemoveLast ==
  Selected /\ hist' = RemoveAt(hist, hsel + 1) /\ UNCHANGED <<hsel, onResult, expr>> /\ DrawBoth

(* hist_remove() *)
CalcRemove ==
  /\ Selected /\ hist' = RemoveAt(hist, hsel + 1)
  /\ hsel' = (IF hsel >= Len(hist') THEN Len(hist') - 1 ELSE hsel) /\ UNCHANGED <<onResult, expr>>
  /\ DrawBoth

(* Any key on the input line closes the error.                             *)
OnLine == InCalc /\ hsel < 0 /\ UNCHANGED <<hsel, onResult>>
BoxGone == UNCHANGED hist /\ failed' = FALSE /\ IF failed THEN DrawHistory ELSE UNCHANGED drawnHist

CalcMods ==
  /\ OnLine /\ BoxGone /\ UNCHANGED <<expr, drawnInput>>
  /\ \/ shifted' = ~shifted /\ UNCHANGED alpha
     \/ alpha' = ~alpha /\ UNCHANGED shifted
  /\ DrawTitle

(* EXE: evaluate() and hist_add(), or the error; the line stays then.      *)
CalcEvaluate ==
  /\ OnLine /\ UNCHANGED <<shifted, alpha, drawnMods>>
  /\ \/ expr = <<>> /\ failed' = FALSE /\ UNCHANGED <<hist, expr>>
     \/ expr # <<>> /\ failed' = TRUE /\ UNCHANGED <<hist, expr>>
     \/ /\ expr # <<>> /\ failed' = FALSE /\ expr' = <<>>
        /\ \E r \in Results :
             hist' = Append(IF Len(hist) = HIST_MAX THEN Tail(hist) ELSE hist, <<expr, r>>)
  /\ DrawBoth

CalcErase ==
  /\ OnLine /\ BoxGone /\ expr' = (IF expr = <<>> THEN expr ELSE Front(expr)) /\ DrawInput
  /\ UNCHANGED <<shifted, alpha, drawnMods>>

CalcType ==
  /\ OnLine /\ BoxGone /\ (\E t \in Keytexts : expr' = WithText(t)) /\ DrawInput
  /\ shifted' = FALSE /\ UNCHANGED alpha /\ IF shifted THEN DrawTitle ELSE UNCHANGED drawnMods

(* BACK leaves the history first, HOME leaves the app.                     *)
CalcBack ==
  /\ InCalc /\ hsel >= 0 /\ hsel' = -1 /\ UNCHANGED <<hist, onResult, expr, failed, shifted, alpha>> /\ CalcShown
CalcLeave == app = "calculator" /\ app' = "home" /\ UNCHANGED <<files, redraw, prefsVars, calculator>>

CalcInit ==
  /\ hist = <<>> /\ hsel = -1 /\ onResult = TRUE /\ expr = <<>> /\ failed = FALSE
  /\ shifted = FALSE /\ alpha = FALSE
  /\ drawnHist = HistView(hist, hsel, onResult, failed) /\ drawnInput = <<expr, TRUE>> /\ drawnMods = <<FALSE, FALSE>>

CalcStep ==
  \/ CalcUp \/ CalcDown \/ CalcSide \/ CalcCopy \/ CalcRemove \/ CalcMods \/ CalcEvaluate
  \/ CalcErase \/ CalcType \/ CalcBack \/ CalcLeave

-----------------------------------------------------------------------------
(* The screen shows the line, the history and the error as they are, the   *)
(* selected entry among the rows, although most keys draw only a part; and *)
(* no error covers a selection.                                            *)
CalcTells ==
  /\ hsel \in -1 .. Len(hist) - 1 /\ (failed => hsel < 0)
  /\ Len(hist) <= HIST_MAX /\ Len(expr) <= EXPR_MAX
  /\ app = "calculator" =>
       /\ drawnHist = HistView(hist, hsel, onResult, failed)
       /\ drawnInput = <<expr, hsel < 0>> /\ drawnMods = <<shifted, alpha>>
       /\ hsel >= 0 => First(hist, hsel) <= hsel /\ hsel <= Bottom(hist, hsel)
=============================================================================
