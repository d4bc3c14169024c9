------------------------------- MODULE MCApps -------------------------------
(***************************************************************************)
(* Two files, of which the PC also sends one that the editor cannot open,  *)
(* and small screens, boards, tables and histories.  Formulas is a part of *)
(* its own: no app's state depends on it, and nothing is proved about it.  *)
(***************************************************************************)
EXTENDS Apps, Formulas

CONSTANTS n1, n2, gl, blank, nan, bad, t1, t2
AllParts == {"files", "tetris", "2048", "snake", "settings", "scripts", "shell", "statistics",
             "calculator", "functions", "equations", "menus", "python", "console", "input", "colours", "formulas"}

MCUploads == {<<gl>>, <<gl, gl, gl>>}
MCPyUploads == {<<gl, gl>>}

(* Settings and best scores; a file without a line, and one that is whole. *)
MCPrefKeys == {"led", "brightness", "lang", "tetris", "2048", "snake"}
MCAllowed == [k \in MCPrefKeys |->
  CASE k = "led" -> 0 .. 1 [] k = "brightness" -> 0 .. 1 [] k = "lang" -> {"nl", "en"} [] OTHER -> Nat]
MCDefault == [k \in MCPrefKeys |-> IF k = "lang" THEN "nl" ELSE IF k = "snake" THEN 20 ELSE IF k \in {"tetris", "2048"} THEN 999 ELSE 1]
MCWholeFile == [MCDefault EXCEPT !["led"] = 0, !["lang"] = "en"]
MCStartFiles == {MCWholeFile, [MCWholeFile EXCEPT !["led"] = NoLine, !["brightness"] = NoLine]}
MCThresholds == <<100, 200, 300>>

MCOutputs == {<<>>, <<"a", "a", "nl">>}
MCStatsUploads == {<<>>, <<<<nan, blank>>, <<blank, nan>>, <<3, 2>>, <<1, 1>>>>}
MCRounded == [v \in {1, 2, 3} |-> IF v = 2 THEN 1 ELSE v]

(* A page of help that fits, and two that scroll.                          *)
MCNLines == <<3, 1, 4>>

MCKeytexts == {<<"1">>}
MCResults == {<<"r">>}

(* A line of code has room for a keyword, and for a builtin.              *)
MCKeywords == {<<"a">>}
MCBuiltins == {<<"a", "a">>}

(* Quadratics with every sign of a discriminant, systems with and without  *)
(* an answer; of those only one is not the plain one.                      *)
MCQuadStart == (-1 .. 1) \X (-2 .. 1) \X (-1 .. 1)
MCLinearStart == {<<1, 0, 0, 0, 1, 1>>, <<1, 1, 1, 1, 1, 2>>, <<0, 1, 1, 1, 1, 2>>, <<1, 0, 1, 1, 1, 2>>}
OneStart == fields[0] = <<1, 0, 0>> \/ fields[1] = <<1, 0, 0, 0, 1, 1>>

(* What a behaviour may change, without what is read no more before it is  *)
(* set again: the list while another app is shown, the name typed when     *)
(* none is asked for, the text of a field when none is edited.             *)
LiveView ==
  <<part, app, redraw,
    CASE part = "files" ->
           <<files, page, filename, modified, shift, naming, armed, question, cursor, top,
             IF naming THEN name ELSE NoName, filename # NoName /\ kept, IF app = "files" THEN items ELSE <<>> >>
      [] part = "tetris" -> <<prefsVars, tetris>>
      [] part = "2048" -> <<prefsVars, g2048>>
      [] part = "snake" -> <<prefsVars, snake>>
      [] part = "settings" -> <<prefsVars, settings>>
      [] part = "scripts" -> <<files, scripts>>
      [] part = "shell" -> <<files, shell>>
      [] part = "statistics" -> statistics
      [] part = "calculator" -> calculator
      [] part = "functions" -> functions
      [] part = "equations" ->
           <<mode, field, fields, editingField, IF editingField THEN input ELSE WrongField, answers, drawnEq>>
      [] part = "menus" -> menus
      [] part = "python" -> python
      [] part = "console" -> console
      [] part = "input" -> lineInput
      [] part = "colours" -> code
      [] part = "formulas" -> formulas>>

(* The bounds: at most one file has a text that was typed, and not one as  *)
(* long as a text may be; at most one field of an equation is edited.      *)
TypedText(n) == files[n] \notin Uploads \cup {NoFile, <<>>}
OneTyped == part = "files" => Cardinality({n \in Names : TypedText(n)}) <= 1
ShortTyped == part = "files" => \A n \in Names : TypedText(n) => Len(files[n]) < MaxBytes
EditedFields == {<<m, i>> \in {<<0, 1>>, <<0, 2>>, <<0, 3>>} \cup ({1} \X (1 .. 6)) : fields[m][i] \in AnyText}
OneEdited == part = "equations" => OneStart /\ Cardinality(EditedFields) <= 1

(* What the battery does is looked at with the settings as they were read; *)
(* what the shell does to files, and scripts to modules, with one of them. *)
OneSetting ==
  part = "settings" => prefs \in {Parsed(file) : file \in StartFiles} \/ (turned.mv \in {0, 95} /\ ~usb)
OneShellFile == part = "shell" => files[n2] = NoFile
OneModule == part = "scripts" => loaded[n2] = NoFile

(* A number that loses digits in the file is a y only.                     *)
LongAreY == part = "statistics" => \A i \in DOMAIN table : table[i][1] # 2

-----------------------------------------------------------------------------
(* The apps, or what an app asks of apps/common.                           *)
EveryInit == AppsInit /\ FormulasInit
EveryNext ==
  \/ AppsNext /\ UNCHANGED formulas
  \/ part = "formulas" /\ FormulasStep /\ UNCHANGED appsVars
EverySpec == EveryInit /\ [][EveryNext]_<<appsVars, formulas>>

(* What is read from a text or a list is what it means: the expressions    *)
(* and figures of apps/common, and the colours of a line of Python.        *)
ReadsRight ==
  /\ part = "formulas" => FormulasRight
  /\ part = "colours" => CodeShown
=============================================================================
