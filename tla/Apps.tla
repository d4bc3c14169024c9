-------------------------------- MODULE Apps --------------------------------
(***************************************************************************)
(* The apps together (apps/, ui/filemanager.c, shell/): one is on the      *)
(* screen, and the others keep their state until they are opened again;    *)
(* they share the files and the settings with the best scores.  What is    *)
(* looked at in one behaviour is one part: a bound, as a user does not     *)
(* lose anything in an app that is not opened.                             *)
(***************************************************************************)
EXTENDS FileManager, Tetris, G2048, Snake, Settings, PythonFiles, Shell, Statistics,
        Calculator, Graphing, Equations, Menus, PythonApp,
        Console, LineInput, CodeColours

CONSTANT Parts        \* those that are looked at

VARIABLE part

appsVars ==
  <<part, vars, prefsVars, tetris, g2048, snake, settings, scripts, shell, statistics,
    calculator, functions, equations, menus, python,
    console, lineInput, code>>

-----------------------------------------------------------------------------
(* A step of part p; the state of the others stays as it is.               *)
In(p) ==
  /\ part = p /\ UNCHANGED part
  /\ IF p = "files" THEN UNCHANGED prefsVars ELSE UNCHANGED <<editor, manager>>
  /\ IF p = "tetris" THEN UNCHANGED <<files, redraw>> ELSE UNCHANGED tetris
  /\ IF p = "2048" THEN UNCHANGED <<files, redraw>> ELSE UNCHANGED g2048
  /\ IF p = "snake" THEN UNCHANGED <<files, redraw>> ELSE UNCHANGED snake
  /\ IF p = "settings" THEN UNCHANGED <<files, redraw>> ELSE UNCHANGED settings
  /\ IF p = "scripts" THEN UNCHANGED redraw ELSE UNCHANGED scripts
  /\ IF p \in {"console", "input", "colours"} THEN UNCHANGED <<files, app, redraw, prefsVars>> ELSE TRUE
  /\ IF p = "console" THEN TRUE ELSE UNCHANGED console
  /\ IF p = "input" THEN TRUE ELSE UNCHANGED lineInput
  /\ IF p = "colours" THEN TRUE ELSE UNCHANGED code
  /\ IF p = "shell" THEN TRUE ELSE UNCHANGED shell
  /\ IF p = "statistics" THEN TRUE ELSE UNCHANGED statistics
  /\ IF p = "calculator" THEN TRUE ELSE UNCHANGED calculator
  /\ IF p = "functions" THEN TRUE ELSE UNCHANGED functions
  /\ IF p = "equations" THEN TRUE ELSE UNCHANGED equations
  /\ IF p = "menus" THEN TRUE ELSE UNCHANGED menus
  /\ IF p = "python" THEN TRUE ELSE UNCHANGED python

-----------------------------------------------------------------------------
(* kernel_set_app() from the home screen or the menu of games: the app is  *)
(* drawn, as it is.                                                        *)
Opening(a) == app \in {"home", "games", "files"} /\ app' = a

OpenTetris == In("tetris") /\ Opening("tetris") /\ UNCHANGED prefsVars /\ TetrisShown
Open2048 == In("2048") /\ Opening("2048") /\ UNCHANGED <<prefsVars, g2048>>
OpenSnake == In("snake") /\ Opening("snake") /\ UNCHANGED prefsVars /\ SnakeShown
OpenSettings == In("settings") /\ Opening("settings") /\ ~suspended /\ UNCHANGED <<prefsVars, settings>>
OpenScripts == In("scripts") /\ Opening("python") /\ running = "nothing" /\ UNCHANGED <<files, prefsVars, scripts>>

OpenShell == In("shell") /\ Opening("shell") /\ UNCHANGED <<files, redraw, prefsVars>> /\ ShellShown
OpenStatistics == In("statistics") /\ Opening("statistics") /\ UNCHANGED <<files, redraw, prefsVars, statistics>>
OpenCalculator ==
  /\ In("calculator") /\ Opening("calculator")
  /\ UNCHANGED <<files, redraw, prefsVars, browse, expr, failed, shifted, alpha>> /\ CalcShown
OpenFunctions ==
  /\ In("functions") /\ Opening("functions")
  /\ UNCHANGED <<files, redraw, prefsVars, fns, fsel, view, enter, tracing, menu>> /\ FnShown
OpenEquations ==
  /\ In("equations") /\ Opening("equations")
  /\ UNCHANGED <<files, redraw, prefsVars, mode, field, fields, editingField, input, answers>> /\ EqShown
OpenPython == In("python") /\ Opening("python") /\ UNCHANGED <<files, redraw, prefsVars, python>>

OpenApp ==
  \/ OpenTetris \/ Open2048 \/ OpenSnake \/ OpenSettings \/ OpenScripts \/ OpenShell \/ OpenStatistics
  \/ OpenCalculator \/ OpenFunctions \/ OpenEquations \/ OpenPython

-----------------------------------------------------------------------------
(* An app that is not looked at starts with any state it may start with.   *)
Idle(p, v, S) == IF part = p THEN TRUE ELSE v = CHOOSE s \in S : TRUE

AppsInit ==
  /\ part \in Parts
  /\ Idle("tetris", piece, Pieces) /\ Idle("2048", tiles, Starts) /\ Idle("snake", apple, Field \ StartCells)
  /\ Idle("statistics", statsFile, StatsUploads) /\ Idle("settings", prefsFile, StartFiles)
  /\ Idle("files", files, {[n \in Names |-> NoFile]}) /\ Idle("files", app, {"home"}) /\ Idle("settings", mounted, {TRUE})
  /\ Idle("equations", fields, {EqStart(CHOOSE q \in QuadStart : TRUE, CHOOSE l \in LinearStart : TRUE)})
  /\ Init /\ PrefsInit
  /\ TetrisInit /\ G2048Init /\ SnakeInit /\ SettingsInit /\ PythonInit /\ ShellInit /\ StatsInit
  /\ CalcInit /\ FnInit /\ EqInit /\ MenusInit /\ PyInit /\ ConsoleInit /\ LineInputInit /\ CodeInit

AppsNext ==
  \/ In("files") /\ Next
  \/ In("tetris") /\ TetrisStep
  \/ In("2048") /\ G2048Step
  \/ In("snake") /\ SnakeNext
  \/ In("settings") /\ SettingsStep
  \/ In("settings") /\ UNCHANGED settings /\ app # "restart" /\ \E file \in StartFiles : PcWrites(file)
  \/ In("scripts") /\ PythonStep
  \/ In("shell") /\ ShellStep
  \/ In("statistics") /\ StatsStep
  \/ In("calculator") /\ CalcStep
  \/ In("functions") /\ FnStep
  \/ In("equations") /\ EqStep
  \/ In("menus") /\ MenusStep
  \/ In("python") /\ PyStep
  \/ In("console") /\ ConsoleStep
  \/ In("input") /\ LineInputStep
  \/ In("colours") /\ CodeStep
  \/ OpenApp

AppsSpec == AppsInit /\ [][AppsNext]_appsVars

-----------------------------------------------------------------------------
(* The three games keep count: of Tetris's cells and cleared lines, of the *)
(* snake's cells, apples and score, of 2048's tiles and points.  (What is  *)
(* not looked at is as it started.)                                        *)
GamesAddUp ==
  /\ part = "tetris" => TetrisAddsUp
  /\ part = "snake" => SnakeWhole
  /\ part = "2048" => G2048AddsUp

(* What is in use is what a restart would load and what the LED shows.     *)
SettingsTell ==
  /\ part \in {"settings", "tetris", "snake", "2048"} => SettingsKept
  /\ part = "settings" => LampTells

(* The shell's screen is the end of what was printed, and its history what *)
(* was typed last.  (To the part of the files the shell is its commands.)  *)
ShellShows == part = "shell" => ShellTells /\ ShellRecalls

(* Apps that draw only what a key changes show their whole state, also     *)
(* when they are opened again: calculator, functions, equations, home and  *)
(* games; the Python prompt shows the block that it will run; output,      *)
(* input() and drawing of a script are on the screen as they should be.    *)
ScreensTell ==
  /\ part = "calculator" => CalcTells
  /\ part = "functions" => FunctionsTell
  /\ part = "equations" => EquationsTell
  /\ part = "menus" => MenusTell
  /\ part = "python" => RunsWhatIsShown
  /\ part = "console" => ConsoleTells
  /\ part = "input" => LineTells

(* What scripts wrote is saved or its loss is told, and their files are    *)
(* closed in the end.                                                      *)
ScriptsSave == [][WrittenIsSaved /\ SlotsComeBack']_<<app, files, scripts>>
=============================================================================
