------------------------------ MODULE Settings ------------------------------
(***************************************************************************)
(* apps/settings/settings.c over the LED (hal/led.c), the battery          *)
(* (hal/battery.c), the backlight's level and the language: what the user  *)
(* chose, what the hardware shows, and what comes back after a restart.    *)
(* Sleep is module Kernel's; here it only switches the LED.                *)
(***************************************************************************)
EXTENDS AppState

CONSTANTS
  Colours,         \* led_colour_t: 0 is off
  BACKLIGHT_MAX,
  Millivolts,      \* what battery_mv() may read; 0 when the ADC does not answer
  Thresholds,      \* THRESHOLDS_MV
  HYSTERESIS_MV

ASSUME SettingsAllowed ==
  /\ Colours \in Nat \ {0} /\ BACKLIGHT_MAX \in Nat /\ {"led", "brightness", "lang"} \subseteq PrefKeys
  /\ Allowed["led"] = 0 .. Colours - 1 /\ Allowed["brightness"] = 0 .. BACKLIGHT_MAX /\ Allowed["lang"] = {"nl", "en"}
ASSUME BatterySizes ==
  /\ Millivolts \subseteq Nat /\ HYSTERESIS_MV \in Nat
  /\ \A i \in 1 .. 3 : Thresholds[i] \in Nat
  /\ Thresholds[1] <= Thresholds[2] /\ Thresholds[2] <= Thresholds[3]

VARIABLES
  row, lamp,       \* s_cursor; s_lamp
  colour, charge, suspended,   \* hal/led.c
  pwm,             \* what the LED shows
  wanted, lang,    \* backlight_level(); g_lang
  usb, level,      \* s_usb, s_level of hal/battery.c
  turned           \* history: the level before its last change, and the reading at that change

led == <<colour, charge, suspended, pwm>>
battery == <<usb, level, turned>>
settings == <<row, lamp, led, wanted, lang, battery>>

-----------------------------------------------------------------------------
(* hal/led.c *)

(* show(): the charge state goes before sleep, sleep before the colour.    *)
Show(c, ch, s) ==
  IF ch # "none" THEN <<"charge", ch>> ELSE <<"colour", IF s THEN 0 ELSE c>>

LedSet(c) == colour' = c /\ pwm' = Show(c, charge, suspended) /\ UNCHANGED <<charge, suspended>>

\* mutant: shown only if it is a charge state
LedSetChargeOn(ch) ==
  /\ charge' = ch /\ pwm' = (IF ch = "none" THEN pwm ELSE Show(colour, ch, suspended))
  /\ UNCHANGED <<colour, suspended>>
LedSetCharge(ch) == charge' = ch /\ pwm' = Show(colour, ch, suspended) /\ UNCHANGED <<colour, suspended>>

(* led_suspend(), led_resume() *)
LedSleep ==
  /\ app # "restart"
  /\ suspended' = ~suspended /\ pwm' = Show(colour, charge, suspended')
  /\ UNCHANGED <<app, prefsVars, row, lamp, colour, charge, wanted, lang, battery>>

-----------------------------------------------------------------------------
(* hal/battery.c: levels 0 (empty) to 3 (full).                            *)

LevelOf(t, mv) ==
  IF \E i \in 1 .. 3 : mv < t[i] THEN (CHOOSE i \in 1 .. 3 : mv < t[i] /\ \A j \in 1 .. i - 1 : mv >= t[j]) - 1 ELSE 3

\* mutant: the thresholds are the same up and down
LevelForPlain(mv, previous) == LevelOf(Thresholds, mv)

(* battery_level_for() *)
LevelFor(mv, previous) ==
  LevelOf([i \in 1 .. 3 |-> IF i <= previous THEN Thresholds[i] - HYSTERESIS_MV ELSE Thresholds[i] + HYSTERESIS_MV], mv)

(* battery_poll(), awake or asleep: voltage, cable and charger.            *)
BatteryPoll ==
  /\ app # "restart"
  /\ \E mv \in Millivolts :
       /\ level' = LevelFor(mv, level)
       /\ turned' = IF level' = level THEN turned ELSE [from |-> level, mv |-> mv]
  /\ usb' \in BOOLEAN
  /\ \E charging \in BOOLEAN :
       LedSetCharge(IF ~usb' THEN "none" ELSE IF charging THEN "charging" ELSE "full")
  /\ UNCHANGED <<app, prefsVars, row, lamp, wanted, lang>>

-----------------------------------------------------------------------------
(* settings_handle_event() *)

InSettings(r) == app = "settings" /\ ~suspended /\ row = r /\ UNCHANGED <<battery, mounted>>

SettingsRow ==
  /\ app = "settings" /\ ~suspended /\ row' \in {row - 1, row + 1} \cap 0 .. 4
  /\ UNCHANGED <<app, prefsVars, lamp, led, wanted, lang, battery>>

\* mutant: the file will not have the colour
SettingsLampOnly ==
  /\ InSettings(0)
  /\ \E step \in {1, Colours - 1} : lamp' = (lamp + step) % Colours
  /\ LedSet(lamp') /\ UNCHANGED <<app, prefsVars, row, wanted, lang>>

(* LEFT and RIGHT, row by row.                                             *)
SettingsLamp ==
  /\ InSettings(0)
  /\ \E step \in {1, Colours - 1} : lamp' = (lamp + step) % Colours
  /\ LedSet(lamp') /\ prefs' = [prefs EXCEPT !["led"] = lamp']
  /\ UNCHANGED <<app, prefsFile, outside, row, wanted, lang>>

SettingsBright ==
  /\ InSettings(1)
  /\ wanted' \in {wanted - 1, wanted + 1} \cap 0 .. BACKLIGHT_MAX
  /\ prefs' = [prefs EXCEPT !["brightness"] = wanted']
  /\ UNCHANGED <<app, prefsFile, outside, row, lamp, led, lang>>

SettingsLang ==
  /\ InSettings(2)
  /\ lang' = (IF lang = "en" THEN "nl" ELSE "en") /\ prefs' = [prefs EXCEPT !["lang"] = lang']
  /\ UNCHANGED <<app, prefsFile, outside, row, lamp, led, wanted>>

(* HOME, BACK *)
SettingsLeave ==
  /\ app = "settings" /\ ~suspended /\ app' = "home" /\ UNCHANGED <<prefs, mounted>> /\ PrefsSave
  /\ UNCHANGED settings

-----------------------------------------------------------------------------
(* A start: prefs_load(), prefs_apply() and settings_init(), after the     *)
(* drivers; battery_init() begins with the plain thresholds.               *)
SettingsStart(p) ==
  /\ row' = 0 /\ lamp' = p["led"] /\ colour' = p["led"] /\ suspended' = FALSE
  /\ wanted' = p["brightness"] /\ lang' = p["lang"]
  /\ \E first, mv \in Millivolts :
       level' = LevelFor(mv, LevelOf(Thresholds, first)) /\ turned' = [from |-> level', mv |-> mv]
  /\ usb' \in BOOLEAN /\ charge' \in (IF usb' THEN {"charging", "full"} ELSE {"none"})
  /\ pwm' = Show(colour', charge', FALSE)

(* The row "Herstarten", which saves, or the reset button, which does not. *)
SettingsReset ==
  /\ app = "settings" /\ row = 4 /\ ~suspended /\ UNCHANGED <<prefs, mounted>> /\ PrefsSave
  /\ app' = "restart" /\ UNCHANGED settings

PowerUp ==
  /\ app = "restart" /\ app' = "home" /\ prefs' = PrefsLoaded
  /\ SettingsStart(prefs') /\ UNCHANGED <<prefsFile, mounted, outside>>

ResetButton == app # "restart" /\ app' = "restart" /\ UNCHANGED <<prefsVars, settings>>

SettingsInit ==
  /\ row = 0 /\ lamp = prefs["led"] /\ colour = prefs["led"] /\ suspended = FALSE
  /\ wanted = prefs["brightness"] /\ lang = prefs["lang"] /\ usb = FALSE /\ charge = "none"
  /\ pwm = Show(colour, charge, FALSE) /\ level = 3 /\ turned = [from |-> 3, mv |-> 0]

SettingsStep ==
  \/ SettingsRow \/ SettingsLamp \/ SettingsBright \/ SettingsLang \/ SettingsLeave \/ SettingsReset
  \/ LedSleep \/ BatteryPoll \/ PowerUp \/ ResetButton

-----------------------------------------------------------------------------
(* What a restart would load is what is in use, best scores included,      *)
(* anywhere but in the settings screen, unless a save failed or the PC     *)
(* changed the file; and whatever the file holds, no value is used that a  *)
(* setting may not have.                                                   *)
SettingsKept ==
  /\ app \notin {"settings", "restart"} /\ mounted /\ ~outside => Parsed(prefsFile) = prefs
  /\ \A k \in PrefKeys : prefs[k] \in Allowed[k]

(* The LED shows the charger while USB power is there, whether asleep or   *)
(* not, else the chosen colour, and nothing while asleep; the backlight    *)
(* and the language are the chosen ones, also after a restart.             *)
LampTells ==
  app # "restart" =>
    /\ pwm = (IF usb THEN <<"charge", charge>> ELSE <<"colour", IF suspended THEN 0 ELSE prefs["led"]>>)
    /\ usb <=> charge # "none"
    /\ wanted = prefs["brightness"] /\ lang = prefs["lang"] /\ lamp = colour

(* A voltage that wavers around a threshold does not make the battery's    *)
(* symbol waver: the level goes back only after twice the hysteresis.      *)
LevelSteady ==
  [][app # "restart" /\ level' # level /\ level' = turned.from =>
       turned'.mv - turned.mv >= 2 * HYSTERESIS_MV \/ turned.mv - turned'.mv >= 2 * HYSTERESIS_MV]_battery
=============================================================================
