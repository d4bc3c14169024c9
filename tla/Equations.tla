----------------------------- MODULE Equations ------------------------------
(***************************************************************************)
(* apps/equations/equations.c: three modes, their fields, the editing of   *)
(* one, and the answers on the screen.  A field holds an integer, or       *)
(* WrongField for a text that is no number; the single equation is solved  *)
(* or not.  A root is u/d + v/d * sqrt(D), kept as <<u, v, d>>: what the   *)
(* code computes in doubles, and shows as a complex pair when D < 0.       *)
(***************************************************************************)
EXTENDS AppState

CONSTANTS FieldValues, WrongField, QuadStart, LinearStart

ASSUME FieldTypes ==
  FieldValues \subseteq Int /\ QuadStart \subseteq Int \X Int \X Int /\ LinearStart \subseteq Int \X Int \X Int \X Int \X Int \X Int

VARIABLES
  mode, field,           \* s_mode: 0 quadratic, 1 linear, 2 single; s_field
  fields,                \* s_quad_*, s_lin, s_single
  editingField, input,   \* s_editing, s_input
  answers,               \* s_result, with the fields they answer; NoAnswers when s_nresult is 0
  drawnEq                \* what is on the screen, but for the title's SHIFT

equations == <<mode, field, fields, editingField, input, answers, drawnEq>>
NoAnswers == [for |-> <<>>, is |-> {}]
Every == <<0, 0, 0>>
Failed == <<0, 0, -1>>
AnyText == FieldValues \cup {WrongField}

-----------------------------------------------------------------------------
(* solve_quad(): every x, none, one, or the roots of D = b*b - 4*a*c.      *)
Discriminant(q) == q[2] * q[2] - 4 * q[1] * q[3]

SolveQuad(q) ==
  IF q[1] = 0
  THEN IF q[2] = 0 THEN (IF q[3] = 0 THEN {Every} ELSE {}) ELSE {<<-q[3], 0, q[2]>>}
  ELSE IF Discriminant(q) = 0 THEN {<<-q[2], 0, 2 * q[1]>>}
  ELSE {<<-q[2], 1, 2 * q[1]>>, <<-q[2], -1, 2 * q[1]>>}

\* mutant: Cramer's rule with two columns exchanged
SolveLinearSwapped(l) ==
  LET det == l[1] * l[5] - l[2] * l[4]
  IN  IF det = 0 THEN {} ELSE {<<l[3] * l[5] - l[2] * l[6], l[3] * l[4] - l[1] * l[6], det>>}

(* solve_linear(): Cramer's rule, x and y over the determinant.            *)
SolveLinear(l) ==
  LET det == l[1] * l[5] - l[2] * l[4]
  IN  IF det = 0 THEN {} ELSE {<<l[3] * l[5] - l[2] * l[6], l[1] * l[6] - l[3] * l[4], det>>}

(* With a text that is no number only the error is shown.                  *)
Solved(m, f) ==
  IF WrongField \in {f[i] : i \in DOMAIN f} THEN {Failed}
  ELSE IF m = 0 THEN SolveQuad(f) ELSE SolveLinear(f)

-----------------------------------------------------------------------------
FieldCount == <<3, 6, 1>>[mode + 1]

(* equations_redraw(): the mode's fields, the one that is edited as typed, *)
(* and the answers, whichever they are.                                    *)
EqView(m, f, texts, ed, in, ans) ==
  <<m, IF ed THEN [texts[m] EXCEPT ![f + 1] = in] ELSE texts[m], f, ed, ans>>
EqShown == drawnEq' = EqView(mode', field', fields', editingField', input', answers')

InEquations(ed) == app = "equations" /\ editingField = ed /\ UNCHANGED <<app, files, redraw, prefsVars>>

\* mutant: the answers stay
EqModeOnly ==
  /\ InEquations(FALSE) /\ mode' \in {(mode + 1) % 3, (mode + 2) % 3} /\ field' = 0 /\ UNCHANGED answers
  /\ UNCHANGED <<fields, editingField, input>> /\ EqShown

(* LEFT, RIGHT; UP, DOWN: not while editing.                               *)
EqMode ==
  /\ InEquations(FALSE) /\ mode' \in {(mode + 1) % 3, (mode + 2) % 3} /\ field' = 0 /\ answers' = NoAnswers
  /\ UNCHANGED <<fields, editingField, input>> /\ EqShown
EqField ==
  /\ InEquations(FALSE) /\ field' \in {(field + 1) % FieldCount, (field + FieldCount - 1) % FieldCount}
  /\ UNCHANGED <<mode, fields, editingField, input, answers>> /\ EqShown

(* EXE: the answers take the place of earlier ones, on the screen too.     *)
EqSolve ==
  /\ InEquations(FALSE)
  /\ \E is \in (IF mode < 2 THEN {Solved(mode, fields[mode])}
                ELSE IF fields[2][1] = WrongField THEN {{Failed}} ELSE {{<<1, 0, 1>>}, {}}) :
       answers' = [for |-> <<mode, fields[mode]>>, is |-> is]
  /\ drawnEq' = [drawnEq EXCEPT ![5] = answers'] /\ UNCHANGED <<mode, field, fields, editingField, input>>

(* ALPHA begins with the field's text, or gives up.                        *)
EqEdit ==
  /\ InEquations(FALSE) /\ editingField' = TRUE /\ input' = fields[mode][field + 1]
  /\ UNCHANGED <<mode, field, fields, answers>> /\ EqShown
EqCancel ==
  /\ InEquations(TRUE) /\ editingField' = FALSE /\ UNCHANGED <<mode, field, fields, input, answers>> /\ EqShown

(* A key that inserts, BACKSPACE; EXE stores the text in its field.        *)
EqType ==
  /\ InEquations(TRUE) /\ input' \in AnyText /\ UNCHANGED <<mode, field, fields, editingField, answers>> /\ EqShown
EqCommit ==
  /\ InEquations(TRUE) /\ fields' = [fields EXCEPT ![mode][field + 1] = input] /\ editingField' = FALSE
  /\ input' = WrongField /\ UNCHANGED <<mode, field, answers>> /\ EqShown

(* HOME, BACK: an edit goes on when the app is opened again.               *)
EqLeave == app = "equations" /\ app' = "home" /\ UNCHANGED <<files, redraw, prefsVars, equations>>

(* equations_init(), with fields as they may become.                       *)
EqStart(q, l) == [m \in 0 .. 2 |-> <<q, l, <<WrongField>>>>[m + 1]]
EqInit ==
  /\ mode = 0 /\ field = 0 /\ editingField = FALSE /\ answers = NoAnswers /\ input = WrongField
  /\ \E q \in QuadStart, l \in LinearStart : fields = EqStart(q, l)
  /\ drawnEq = EqView(mode, field, fields, editingField, input, answers)

EqStep ==
  EqMode \/ EqField \/ EqSolve \/ EqEdit \/ EqCancel \/ EqType \/ EqCommit \/ EqLeave

-----------------------------------------------------------------------------
(* d*d times a*x*x + b*x + c for x = (u + v*sqrt(D))/d, as a number and a  *)
(* multiple of sqrt(D).                                                    *)
QuadAt(q, x) ==
  LET u == x[1]  v == x[2]  d == x[3]  D == Discriminant(q)
  IN  <<q[1] * (u * u + v * v * D) + q[2] * u * d + q[3] * d * d, 2 * q[1] * u * v + q[2] * v * d>>

(* The answers are of the mode on the screen; the roots of a quadratic     *)
(* solve it, there is one for each and none is missed, complex ones too;   *)
(* a linear system's answer solves both equations, and where there is none *)
(* they are parallel; and what is on the screen is the state.              *)
EquationsTell ==
  /\ app = "equations" => drawnEq = EqView(mode, field, fields, editingField, input, answers)
  /\ answers # NoAnswers =>
       LET q == answers.for[2]
           is == answers.is
       IN  /\ answers.for[1] = mode
           /\ mode = 0 /\ WrongField \notin {q[i] : i \in 1 .. 3} =>
                /\ \A x \in is \ {Every} : x[3] # 0 /\ QuadAt(q, x) = <<0, 0>>
                /\ Every \in is <=> q = <<0, 0, 0>>
                /\ q[1] # 0 => Cardinality(is) = (IF Discriminant(q) = 0 THEN 1 ELSE 2)
                /\ is = {} => q[1] = 0 /\ q[2] = 0 /\ q[3] # 0
           /\ mode = 1 /\ WrongField \notin {q[i] : i \in 1 .. 6} =>
                /\ \A x \in is : /\ q[1] * x[1] + q[2] * x[2] = q[3] * x[3]
                                 /\ q[4] * x[1] + q[5] * x[2] = q[6] * x[3]
                /\ is = {} <=> q[1] * q[5] = q[2] * q[4]
=============================================================================
