------------------------------ MODULE Display -------------------------------
(***************************************************************************)
(* hal/display.c: drawing goes to the framebuffer and grows the dirty      *)
(* rectangle; display_flush() sends that window to the panel, which        *)
(* forgets everything when its power is cut for sleep.                     *)
(***************************************************************************)
EXTENDS Integers, Sequences, FiniteSets

CONSTANTS
  LCD_WIDTH, LCD_HEIGHT, Shades, Black,
  Asks        \* the rectangles <<x, y, w, h>> that are asked for, on the screen or off it

ASSUME ScreenSize ==
  LCD_WIDTH \in Nat \ {0} /\ LCD_HEIGHT \in Nat \ {0} /\ Black \in Shades /\ Asks \subseteq Int \X Int \X Int \X Int

VARIABLES
  fb,          \* g_framebuf
  dirty,       \* s_dirty with s_x0, s_y0, s_x1, s_y1, or Clean
  panel,       \* external: the panel's memory
  powered      \* external: it has power and its pins are driven

display == <<fb, dirty, panel, powered>>
Clean == <<>>
Pixels == (0 .. LCD_WIDTH - 1) \X (0 .. LCD_HEIGHT - 1)
Inside(r) == IF r = Clean THEN {} ELSE {p \in Pixels : p[1] \in r[1] .. r[3] /\ p[2] \in r[2] .. r[4]}
Less(a, b) == IF a < b THEN a ELSE b
More(a, b) == IF a > b THEN a ELSE b

-----------------------------------------------------------------------------
(* clip_mark(): the part on the screen, or Clean; and the rectangle grown. *)
Clip(x, y, w, h) ==
  LET r == <<More(x, 0), More(y, 0), Less(x + w - 1, LCD_WIDTH - 1), Less(y + h - 1, LCD_HEIGHT - 1)>>
  IN  IF r[1] > r[3] \/ r[2] > r[4] THEN Clean ELSE r

\* mutant: the right and lower edges are the last rectangle's
GrownLast(d, r) ==
  IF r = Clean THEN d ELSE IF d = Clean THEN r ELSE <<Less(d[1], r[1]), Less(d[2], r[2]), r[3], r[4]>>

Grown(d, r) ==
  IF r = Clean THEN d ELSE IF d = Clean THEN r
  ELSE <<Less(d[1], r[1]), Less(d[2], r[2]), More(d[3], r[3]), More(d[4], r[4])>>

WholeScreen == <<0, 0, LCD_WIDTH - 1, LCD_HEIGHT - 1>>    \* mark_all()

-----------------------------------------------------------------------------
(* display_fill_rect(), and lines and pixels by it.                        *)
FillRect ==
  \E a \in Asks, c \in Shades :
    LET r == IF a[3] <= 0 \/ a[4] <= 0 THEN Clean ELSE Clip(a[1], a[2], a[3], a[4])
    IN  /\ fb' = [p \in Pixels |-> IF p \in Inside(r) THEN c ELSE fb[p]]
        /\ dirty' = Grown(dirty, r) /\ UNCHANGED <<panel, powered>>

(* display_rect(): four lines, of which some may be off the screen.        *)
Frame ==
  \E a \in Asks, c \in Shades :
    /\ a[3] > 0 /\ a[4] > 0
    /\ LET top == Clip(a[1], a[2], a[3], 1)
           low == Clip(a[1], a[2] + a[4] - 1, a[3], 1)
           left == Clip(a[1], a[2], 1, a[4])
           right == Clip(a[1] + a[3] - 1, a[2], 1, a[4])
       IN  /\ fb' = [p \in Pixels |-> IF \E r \in {top, low, left, right} : p \in Inside(r) THEN c ELSE fb[p]]
           /\ dirty' = Grown(Grown(Grown(Grown(dirty, top), low), left), right)
    /\ UNCHANGED <<panel, powered>>

(* display_char(), draw_glyph(), display_image(): pixels of any shades, of *)
(* which the part on the screen is copied; two shades in every second      *)
(* place stand for a picture.                                              *)
Image ==
  \E a \in Asks :
    /\ a[3] > 0 /\ a[4] > 0
    /\ LET r == Clip(a[1], a[2], a[3], a[4])
       IN  /\ \E even, odd \in Shades :
                fb' = [p \in Pixels |-> IF p \notin Inside(r) THEN fb[p] ELSE IF (p[1] + p[2]) % 2 = 0 THEN even ELSE odd]
           /\ dirty' = Grown(dirty, r)
    /\ UNCHANGED <<panel, powered>>

Sent(r, f, old, on) == [p \in Pixels |-> IF on /\ p \in Inside(r) THEN f[p] ELSE old[p]]

(* display_flush(); with the pins parked nothing arrives.                  *)
Flush ==
  /\ dirty # Clean /\ panel' = Sent(dirty, fb, panel, powered) /\ dirty' = Clean /\ UNCHANGED <<fb, powered>>

\* mutant: only what is dirty is sent
PowerOnDirty ==
  /\ ~powered /\ powered' = TRUE /\ dirty' = Clean /\ UNCHANGED fb
  /\ \E lost \in {panel, [p \in Pixels |-> Black]} : panel' = Sent(dirty, fb, lost, TRUE)

(* display_power(): on, with whatever the panel's memory holds then.       *)
PowerOn ==
  /\ ~powered /\ powered' = TRUE /\ dirty' = Clean /\ UNCHANGED fb
  /\ \E lost \in {panel, [p \in Pixels |-> Black]} : panel' = Sent(WholeScreen, fb, lost, TRUE)
PowerOff == powered /\ powered' = FALSE /\ UNCHANGED <<fb, dirty, panel>>

(* display_init() *)
DisplayInit ==
  /\ powered = TRUE /\ dirty = Clean /\ fb = [p \in Pixels |-> Black] /\ panel = fb

DisplayStep == FillRect \/ Frame \/ Image \/ Flush \/ PowerOn \/ PowerOff

-----------------------------------------------------------------------------
(* The panel shows the framebuffer, but for what was drawn since the last  *)
(* flush, and that is in the dirty rectangle, which lies on the screen:    *)
(* whatever was drawn, clipped, off the screen or while the panel was off. *)
PanelShows ==
  /\ powered => \A p \in Pixels : panel[p] # fb[p] => p \in Inside(dirty)
  /\ dirty # Clean => {<<dirty[1], dirty[2]>>, <<dirty[3], dirty[4]>>} \subseteq Pixels
=============================================================================
