----------------------------- MODULE AppsProofs ------------------------------
(***************************************************************************)
(* Theorems about the editor and the file manager, for any names, texts    *)
(* and sizes, whatever the PC and the shell do to the files; and about the *)
(* other apps, a part at a time: statistics, shell, the apps' screens and  *)
(* what scripts write.                                                     *)
(***************************************************************************)
EXTENDS GamesProofs

-----------------------------------------------------------------------------
(* The question for a name                                                 *)

LEMMA NamingInit == Init => NamingIsNew
BY DEF Init, EditorInit, NamingIsNew

LEMMA NamingNext == NamingIsNew /\ [Next]_vars => NamingIsNew'
<1> SUFFICES ASSUME NamingIsNew, [Next]_vars PROVE NamingIsNew'
  OBVIOUS
<1>. USE DEF NamingIsNew
<1>1. ASSUME EditorKey PROVE NamingIsNew'
  <2>1. CASE \E c \in Chars : Insert(c)
    BY <2>1 DEF Insert, Editing, asking
  <2>2. CASE Backspace
    BY <2>2 DEF Backspace, Editing, asking
  <2>3. CASE Left \/ Right \/ Up \/ Down
    BY <2>3 DEF Left, Right, Up, Down, Moved, Editing, asking
  <2>4. CASE Shift
    BY <2>4 DEF Shift, asking
  <2>5. CASE Save
    BY <2>5 DEF Save, Editing, asking
  <2>6. CASE NamingStop \/ NamingDone
    BY <2>6 DEF NamingStop, NamingDone
  <2>7. CASE NamingType \/ NamingErase
    BY <2>7 DEF NamingType, NamingErase
  <2>8. CASE EditorLeave
    BY <2>8 DEF EditorLeave, Editing, editor, asking
  <2>. QED BY <1>1, <2>1, <2>2, <2>3, <2>4, <2>5, <2>6, <2>7, <2>8 DEF EditorKey
<1>2. ASSUME FmKey PROVE NamingIsNew'
  <2>1. ~naming
    BY <1>2 DEF FmKey, FmDelete, FmShift, FmDown, FmUp, FmOpen, FmNew, FmLeave, Browsing
  <2>2. ~naming'
    BY <1>2, <2>1 DEF FmKey, FmDelete, FmShift, FmDown, FmUp, FmOpen, FmNew, FmLeave,
      Opened, NewText, editor, asking
  <2>. QED BY <2>2
<1>3. ASSUME HomeOpen \/ ShellFm \/ ShellLeave PROVE NamingIsNew'
  BY <1>3 DEF HomeOpen, ShellFm, ShellLeave, editor, asking
<1>4. ASSUME ShellFile \/ Usb PROVE NamingIsNew'
  BY <1>4 DEF ShellFile, Usb, Changes, asking
<1>5. ASSUME Redraw \/ Wake PROVE NamingIsNew'
  BY <1>5 DEF Redraw, Wake, SetApp, editor, asking
<1>6. CASE UNCHANGED vars
  BY <1>6 DEF vars, editor, asking
<1>. QED BY <1>1, <1>2, <1>3, <1>4, <1>5, <1>6 DEF Next

(* Only a document without a name is asked for one, while it is shown.     *)
THEOREM QuestionIsForNew == Spec => []NamingIsNew
BY NamingInit, NamingNext, PTL DEF Spec

-----------------------------------------------------------------------------
(* Deleting                                                                *)

(* What the footer asks is about the entry under the cursor of the list as *)
(* it was loaded last.                                                     *)
QuestionInv ==
  /\ armed => app = "files"
  /\ app = "files" => question = Asked(armed, items, cursor)

LEMMA QuestionInit == Init => QuestionInv
BY DEF Init, QuestionInv

LEMMA Answered == Disarmed => question' = Asked(armed', items', cursor')
BY DEF Disarmed, Asked

LEMMA AppShown ==
  ASSUME NEW a, SetApp(a), armed => a = "files" PROVE QuestionInv'
BY DEF SetApp, FmRedraw, QuestionInv, Asked

LEMMA QuestionNext == QuestionInv /\ [Next]_vars => QuestionInv'
<1> SUFFICES ASSUME QuestionInv, [Next]_vars PROVE QuestionInv'
  OBVIOUS
<1>1. ASSUME EditorKey, UNCHANGED <<manager, redraw>> PROVE QuestionInv'
  <2>1. app = "editor" /\ app' # "files"
    BY <1>1 DEF EditorKey, Insert, Backspace, Left, Right, Up, Down, Moved, Shift, Save,
      NamingStop, NamingType, NamingErase, NamingDone, EditorLeave, Editing, Naming
  <2>. QED BY <1>1, <2>1 DEF QuestionInv, Asked, manager, list
<1>2. ASSUME FmDelete PROVE QuestionInv'
  <2>1. app' = "files" /\ ~armed'
    BY <1>2 DEF FmDelete, Browsing
  <2>2. CASE items = <<>>
    BY <1>2, <2>1, <2>2 DEF FmDelete, QuestionInv, Asked, list
  <2>3. CASE items # <<>>
    BY <1>2, <2>1, <2>3 DEF FmDelete, QuestionInv, FmRedraw, Asked
  <2>. QED BY <2>2, <2>3
<1>3. ASSUME FmShift PROVE QuestionInv'
  BY <1>3 DEF FmShift, Browsing, QuestionInv, Asked, list
<1>4. ASSUME FmDown \/ FmUp \/ FmOpen \/ FmNew \/ FmLeave PROVE QuestionInv'
  <2>1. Disarmed
    BY <1>4 DEF FmDown, FmUp, FmOpen, FmNew, FmLeave
  <2>. QED BY <2>1, Answered DEF QuestionInv, Asked, Disarmed
<1>5. ASSUME HomeOpen \/ ShellFm \/ ShellLeave PROVE QuestionInv'
  BY <1>5, AppShown DEF HomeOpen, ShellFm, ShellLeave, QuestionInv
<1>6. ASSUME Redraw PROVE QuestionInv'
  BY <1>6, AppShown DEF Redraw, QuestionInv
<1>7. ASSUME ShellFile \/ Usb PROVE QuestionInv'
  <2>1. UNCHANGED <<app, manager>>
    BY <1>7 DEF ShellFile, Usb, Changes
  <2>. QED BY <2>1 DEF QuestionInv, Asked, manager, list
<1>8. ASSUME Wake PROVE QuestionInv'
  BY <1>8 DEF Wake, QuestionInv, Asked, manager, list
<1>9. CASE UNCHANGED vars
  BY <1>9 DEF vars, manager, list, QuestionInv, Asked
<1>. QED
  BY <1>1, <1>2, <1>3, <1>4, <1>5, <1>6, <1>7, <1>8, <1>9 DEF Next, FmKey

(* Every name has a file or NoFile.                                        *)
FilesNamed == DOMAIN files = Names

LEMMA FilesInit == Init => FilesNamed
BY DEF Init, FilesNamed

LEMMA FilesNext == FilesNamed /\ [Next]_vars => FilesNamed'
<1> SUFFICES ASSUME FilesNamed, [Next]_vars PROVE FilesNamed'
  OBVIOUS
<1>1. DOMAIN files' = DOMAIN files
  <2>1. ASSUME EditorKey PROVE DOMAIN files' = DOMAIN files
    BY <2>1 DEF EditorKey, Insert, Backspace, Left, Right, Up, Down, Moved, Shift, Save,
      Written, NotWritten, NamingStop, NamingType, NamingErase, NamingDone, EditorLeave
  <2>2. ASSUME FmKey PROVE DOMAIN files' = DOMAIN files
    BY <2>2 DEF FmKey, FmDelete, FmShift, FmDown, FmUp, FmOpen, FmNew, FmLeave
  <2>3. ASSUME HomeOpen \/ ShellFm \/ ShellLeave \/ Redraw \/ Wake
        PROVE  DOMAIN files' = DOMAIN files
    BY <2>3 DEF HomeOpen, ShellFm, ShellLeave, Redraw, Wake
  <2>4. ASSUME ShellFile \/ Usb PROVE DOMAIN files' = DOMAIN files
    BY <2>4 DEF ShellFile, Usb, Changes
  <2>. QED BY <2>1, <2>2, <2>3, <2>4 DEF Next, vars
<1>. QED BY <1>1 DEF FilesNamed

(* A file is only deleted by the key that answers the question about it.   *)
LEMMA DeleteStep ==
  ASSUME QuestionInv, FilesNamed, [Next]_vars, Browsing, manager' # manager,
         NEW n \in Names, InList(n), files'[n] = NoFile
  PROVE  question = n
<1>1. FmDelete
  <2>1. files'[n] # files[n]
    BY DEF InList
  <2>2. UNCHANGED files \/ FmDelete \/ UNCHANGED manager
    <3>1. EditorKey => ~Browsing
      BY DEF EditorKey, Insert, Backspace, Left, Right, Up, Down, Moved, Shift, Save,
        NamingStop, NamingType, NamingErase, NamingDone, EditorLeave, Editing, Naming, Browsing
    <3>2. FmKey => UNCHANGED files \/ FmDelete
      BY DEF FmKey, FmShift, FmDown, FmUp, FmOpen, FmNew, FmLeave
    <3>3. HomeOpen \/ ShellFm \/ ShellLeave \/ Redraw \/ Wake => UNCHANGED files
      BY DEF HomeOpen, ShellFm, ShellLeave, Redraw, Wake
    <3>4. ShellFile \/ Usb => UNCHANGED manager
      BY DEF ShellFile, Usb, Changes
    <3>. QED BY <3>1, <3>2, <3>3, <3>4 DEF Next, vars
  <2>. QED BY <2>1, <2>2
<1>2. armed /\ items # <<>>
  BY <1>1 DEF FmDelete, InList
<1>3. question = items[cursor + 1]
  BY <1>2 DEF QuestionInv, Asked, Browsing
<1>4. files' = [files EXCEPT ![items[cursor + 1]] = NoFile] \/ files' = files
  BY <1>1, <1>2 DEF FmDelete
<1>5. n # items[cursor + 1] => files'[n] = files[n]
  BY <1>4 DEF FilesNamed
<1>. QED BY <1>3, <1>5 DEF InList

(* No file is deleted but the one that the question on the screen names.   *)
THEOREM DeletesAsked == Spec => DeletesWhatWasAsked
<1>1. QuestionInv /\ FilesNamed /\ [Next]_vars =>
        [Browsing /\ manager' # manager =>
           \A n \in Names : InList(n) /\ files'[n] = NoFile => question = n]_vars
  BY DeleteStep
<1>. QED BY <1>1, QuestionInit, QuestionNext, FilesInit, FilesNext, PTL DEF Spec, DeletesWhatWasAsked

-----------------------------------------------------------------------------
(* The title                                                               *)

(* What makes ShownSaved inductive: a document without a name and without  *)
(* changes is empty, so a name that it gets is a new file's.               *)
SavedInv ==
  /\ FilesNamed /\ NamingIsNew /\ ShownSaved
  /\ filename \in Names \cup {NoName}
  /\ filename = NoName /\ ~modified => text = <<>>

LEMMA SavedInit == Init => SavedInv
BY FilesInit, NamingInit, EditorNames DEF Init, EditorInit, SavedInv, ShownSaved

LEMMA SavedNext == SavedInv /\ [Next]_vars => SavedInv'
<1> SUFFICES ASSUME SavedInv, [Next]_vars PROVE SavedInv'
  OBVIOUS
<1>0. FilesNamed' /\ NamingIsNew'
  BY FilesNext, NamingNext DEF SavedInv
<1>. USE <1>0 DEF SavedInv
<1>1. ASSUME EditorKey PROVE SavedInv'
  <2>1. CASE \E c \in Chars : Insert(c)
    BY <2>1 DEF Insert, Page, ShownSaved
  <2>2. CASE Backspace
    BY <2>2 DEF Backspace, Page, ShownSaved
  <2>3. CASE Left \/ Right \/ Up \/ Down
    BY <2>3 DEF Left, Right, Up, Down, Moved, Page, ShownSaved
  <2>4. CASE Shift \/ EditorLeave
    BY <2>4 DEF Shift, EditorLeave, editor, page, ShownSaved
  <2>5. CASE Save
    <3>1. filename # NoName => (Written(filename) => files'[filename] = text)
      BY DEF Written, FilesNamed
    <3>. QED BY <2>5, <3>1 DEF Save, Written, NotWritten, page, ShownSaved
  <2>6. CASE NamingStop \/ NamingType \/ NamingErase
    BY <2>6 DEF NamingStop, NamingType, NamingErase, page, ShownSaved
  <2>7. CASE NamingDone
    <3>1. Written(name) => files'[name] = text
      BY <2>7 DEF NamingDone, Written, FilesNamed
    <3>2. filename = NoName
      BY <2>7 DEF NamingDone, Naming, NamingIsNew
    <3>. QED BY <2>7, <3>1, <3>2, EditorNames DEF NamingDone, Written, NotWritten, page, ShownSaved
  <2>. QED BY <1>1, <2>1, <2>2, <2>3, <2>4, <2>5, <2>6, <2>7 DEF EditorKey
<1>2. ASSUME NEW n, NEW to, files' = [files EXCEPT ![n] = to], ChangedByOthers({n}),
             UNCHANGED <<page, filename, modified>>
      PROVE  SavedInv'
  <2>1. filename # n => files'[filename] = files[filename]
    BY <1>2 DEF FilesNamed
  <2>. QED BY <1>2, <2>1 DEF ChangedByOthers, page, ShownSaved
<1>3. ASSUME UNCHANGED <<files, page, filename, modified, kept>> PROVE SavedInv'
  BY <1>3 DEF page, ShownSaved
<1>4. ASSUME FmKey PROVE SavedInv'
  <2>1. CASE FmDelete
    <3>1. \/ UNCHANGED <<files, kept>>
          \/ /\ files' = [files EXCEPT ![items[cursor + 1]] = NoFile]
             /\ ChangedByOthers({items[cursor + 1]})
      BY <2>1 DEF FmDelete
    <3>2. UNCHANGED <<page, filename, modified>>
      BY <2>1 DEF FmDelete
    <3>. QED BY <1>2, <1>3, <3>1, <3>2
  <2>2. CASE FmShift \/ FmDown \/ FmUp \/ FmLeave
    BY <1>3, <2>2 DEF FmShift, FmDown, FmUp, FmLeave, editor
  <2>3. CASE FmOpen
    BY <1>3, <2>3, EditorNames DEF FmOpen, Opens, Opened, editor, ShownSaved
  <2>4. CASE FmNew
    BY <2>4 DEF FmNew, NewText, ShownSaved
  <2>. QED BY <1>4, <2>1, <2>2, <2>3, <2>4 DEF FmKey
<1>5. ASSUME ShellFile \/ Usb PROVE SavedInv'
  BY <1>2, <1>5 DEF ShellFile, Usb, Changes
<1>6. ASSUME HomeOpen \/ ShellFm \/ ShellLeave \/ Redraw \/ Wake PROVE SavedInv'
  BY <1>3, <1>6 DEF HomeOpen, ShellFm, ShellLeave, Redraw, Wake, editor
<1>7. CASE UNCHANGED vars
  BY <1>3, <1>7 DEF vars, editor
<1>. QED BY <1>1, <1>4, <1>5, <1>6, <1>7 DEF Next

(* A title without the star is true, whoever else changes files.           *)
THEOREM TitleIsTrue == Spec => []ShownSaved
<1>1. SavedInv => ShownSaved
  BY DEF SavedInv
<1>. QED BY <1>1, SavedInit, SavedNext, PTL DEF Spec

-----------------------------------------------------------------------------
(* Lines                                                                   *)

(* A set of numbers has a least one: what stands for induction here.       *)
LEMMA MinIsLeast ==
  ASSUME NEW S \in SUBSET Nat, S # {}
  PROVE  Min(S) \in S /\ \A y \in S : Min(S) <= y
<1>1. PICK x \in S : \A y \in S : ~(<<y, x>> \in OpToRel(<, Nat))
  BY NatLessThanWellFounded, WFMin, Zenon
<1>2. \A y \in S : x <= y
  <2> SUFFICES ASSUME NEW y \in S, y < x PROVE FALSE
    OBVIOUS
  <2>1. <<y, x>> \in OpToRel(<, Nat)
    BY DEF OpToRel
  <2>. QED BY <1>1, <2>1
<1>. QED BY <1>2 DEF Min

(* The newlines before a place: one more after a newline, never fewer. *)
LEMMA NewlinesFinite ==
  ASSUME NEW t, NEW p \in Nat
  PROVE  IsFiniteSet({i \in 1 .. p : t[i] = NL})
<1> DEFINE S == {i \in 1 .. p : t[i] = NL}
<1>1. IsFiniteSet(1 .. p) /\ S \in SUBSET (1 .. p)
  BY FS_Interval
<1>. HIDE DEF S
<1>2. IsFiniteSet(S)
  BY <1>1, FS_Subset
<1>. QED BY <1>2 DEF S

LEMMA LineAtNat ==
  ASSUME NEW t, NEW p \in Nat
  PROVE  LineAt(t, p) \in Nat
BY NewlinesFinite, FS_CardinalityType DEF LineAt

LEMMA LineAtStart == \A t : LineAt(t, 0) = 0
<1> TAKE t
<1>1. {i \in 1 .. 0 : t[i] = NL} = {}
  OBVIOUS
<1>. QED BY <1>1, FS_EmptySet DEF LineAt

LEMMA LineAtNext ==
  ASSUME NEW t, NEW p \in Nat
  PROVE  LineAt(t, p + 1) = IF t[p + 1] = NL THEN LineAt(t, p) + 1 ELSE LineAt(t, p)
<1> DEFINE S == {i \in 1 .. p : t[i] = NL}
<1>1. CASE t[p + 1] = NL
  <2>1. {i \in 1 .. p + 1 : t[i] = NL} = S \cup {p + 1}
    BY <1>1
  <2>2. p + 1 \notin S
    OBVIOUS
  <2>. QED BY <1>1, <2>1, <2>2, NewlinesFinite, FS_AddElement DEF LineAt
<1>2. CASE t[p + 1] # NL
  <2>1. {i \in 1 .. p + 1 : t[i] = NL} = S
    BY <1>2
  <2>. QED BY <1>2, <2>1 DEF LineAt
<1>. QED BY <1>1, <1>2

LEMMA LineAtGrows ==
  ASSUME NEW t, NEW p \in Nat, NEW q \in Nat, p <= q
  PROVE  LineAt(t, p) <= LineAt(t, q)
<1> DEFINE S(x) == {i \in 1 .. x : t[i] = NL}
<1>1. S(p) \in SUBSET S(q)
  OBVIOUS
<1>. QED BY <1>1, NewlinesFinite, FS_Subset DEF LineAt

(* A line that is there: no later than one that is. *)
LEMMA LineThere ==
  ASSUME NEW t, NEW q \in Nat, NEW l \in Nat, l <= LineAt(t, q)
  PROVE  \E p \in 0 .. q : LineAt(t, p) = l
<1> DEFINE S == {p \in 0 .. q : LineAt(t, p) >= l}
<1>1. S \in SUBSET Nat /\ q \in S
  BY LineAtNat
<1> DEFINE m == Min(S)
<1>2. m \in S /\ \A y \in S : m <= y
  BY <1>1, MinIsLeast
<1>3. CASE m = 0
  BY <1>2, <1>3, LineAtStart
<1>4. CASE m # 0
  <2>1. m - 1 \in Nat /\ m - 1 \notin S /\ (m - 1) + 1 = m
    BY <1>2, <1>4
  <2>2. LineAt(t, m - 1) < l /\ LineAt(t, m - 1) \in Nat
    BY <1>2, <2>1, LineAtNat
  <2>3. LineAt(t, m) <= LineAt(t, m - 1) + 1
    BY <2>1, <2>2, LineAtNext
  <2>. QED BY <1>2, <2>2, <2>3, LineAtNat
<1>. QED BY <1>3, <1>4

(* Where a line starts. *)
LEMMA StartOfLine ==
  ASSUME NEW t, Len(t) \in Nat, NEW l \in Nat, l <= LineAt(t, Len(t))
  PROVE  /\ LineStart(t, l) \in 0 .. Len(t) /\ LineAt(t, LineStart(t, l)) = l
         /\ \A p \in 0 .. Len(t) : LineAt(t, p) = l => LineStart(t, l) <= p
<1> DEFINE S == {p \in 0 .. Len(t) : LineAt(t, p) = l} \cup {Len(t)}
<1>1. S \in SUBSET Nat /\ S # {}
  OBVIOUS
<1>2. LineStart(t, l) \in S /\ \A y \in S : LineStart(t, l) <= y
  BY <1>1, MinIsLeast DEF LineStart
<1>3. PICK p \in 0 .. Len(t) : LineAt(t, p) = l
  BY LineThere
<1>. HIDE DEF LineStart
<1>. QED BY <1>2, <1>3

(* A line that is not the first starts behind a newline, that ends the one before. *)
LEMMA BehindNewline ==
  ASSUME NEW t, Len(t) \in Nat, NEW l \in Nat, l + 1 <= LineAt(t, Len(t))
  PROVE  /\ LineStart(t, l) < LineStart(t, l + 1)
         /\ t[LineStart(t, l + 1)] = NL
         /\ LineAt(t, LineStart(t, l + 1) - 1) = l
<1> DEFINE s == LineStart(t, l + 1)
<1>0. LineAt(t, Len(t)) \in Nat
  BY LineAtNat
<1>1. s \in 0 .. Len(t) /\ LineAt(t, s) = l + 1 /\ \A p \in 0 .. Len(t) : LineAt(t, p) = l + 1 => s <= p
  BY StartOfLine
<1>2. LineStart(t, l) \in 0 .. Len(t) /\ \A p \in 0 .. Len(t) : LineAt(t, p) = l => LineStart(t, l) <= p
  BY <1>0, StartOfLine
<1>3. s # 0
  BY <1>1, LineAtStart
<1>4. s - 1 \in 0 .. Len(t) /\ (s - 1) + 1 = s
  BY <1>1, <1>3
<1>5. LineAt(t, s - 1) # l + 1
  BY <1>1, <1>4
<1>. HIDE DEF s
<1>6. t[s] = NL /\ LineAt(t, s) = LineAt(t, s - 1) + 1
  BY <1>1, <1>4, <1>5, LineAtNext
<1>7. LineAt(t, s - 1) = l
  BY <1>1, <1>4, <1>6, LineAtNat
<1>8. LineStart(t, l) <= s - 1
  BY <1>2, <1>4, <1>7
<1>. QED BY <1>1, <1>2, <1>4, <1>6, <1>7, <1>8 DEF s

(* Places between two of a line are on that line. *)
LEMMA WithinLine ==
  ASSUME NEW t, NEW p \in Nat, NEW q \in Nat, NEW r \in Nat, p <= q, q <= r,
         LineAt(t, p) = LineAt(t, r)
  PROVE  LineAt(t, q) = LineAt(t, p)
BY LineAtGrows, LineAtNat

LEMMA ColumnNat ==
  ASSUME NEW t, Len(t) \in Nat, NEW p \in 0 .. Len(t)
  PROVE  Column(t, p) \in Nat /\ p = LineStart(t, LineAt(t, p)) + Column(t, p)
<1>1. LineAt(t, p) \in Nat /\ LineAt(t, p) <= LineAt(t, Len(t))
  BY LineAtNat, LineAtGrows
<1>2. LineStart(t, LineAt(t, p)) \in 0 .. Len(t) /\ LineStart(t, LineAt(t, p)) <= p
  BY <1>1, StartOfLine
<1>. QED BY <1>2 DEF Column

(* A column of a line that ends at e, or the end if it is shorter. *)
Kept(t, l, e, c) == LineStart(t, l) + Least(c, e - LineStart(t, l))

LEMMA KeepsColumn ==
  ASSUME NEW t, Len(t) \in Nat, NEW e \in 0 .. Len(t), NEW l, LineAt(t, e) = l, NEW c \in Nat
  PROVE  /\ Kept(t, l, e, c) \in 0 .. Len(t) /\ LineAt(t, Kept(t, l, e, c)) = l
         /\ Column(t, Kept(t, l, e, c)) <= c
         /\ Column(t, Kept(t, l, e, c)) < c => Kept(t, l, e, c) = e
<1> DEFINE s == LineStart(t, l)
           k == Kept(t, l, e, c)
<1>1. l \in Nat /\ l <= LineAt(t, Len(t))
  BY LineAtNat, LineAtGrows
<1>2. s \in 0 .. Len(t) /\ LineAt(t, s) = l /\ s <= e
  BY <1>1, StartOfLine
<1>3. k = s + Least(c, e - s)
  BY DEF Kept
<1>. HIDE DEF s, k
<1>4. k \in 0 .. Len(t) /\ s <= k /\ k <= e /\ k - s <= c /\ (k - s < c => k = e)
  BY <1>2, <1>3 DEF Least
<1>5. LineAt(t, k) = l
  BY <1>2, <1>4, WithinLine
<1>6. Column(t, k) = k - s
  BY <1>5 DEF Column, s
<1>. QED BY <1>4, <1>5, <1>6 DEF k

(* UP: the end of the line above is in front of the newline that starts this one. *)
LEMMA UpGoesUp ==
  ASSUME NEW t, Len(t) \in Nat, NEW p \in 0 .. Len(t), LineAt(t, p) > 0
  PROVE  /\ UpOf(t, p) \in 0 .. Len(t) /\ LineAt(t, UpOf(t, p)) = LineAt(t, p) - 1
         /\ Column(t, UpOf(t, p)) <= Column(t, p)
         /\ Column(t, UpOf(t, p)) < Column(t, p) => t[UpOf(t, p) + 1] = NL
<1> DEFINE l == LineAt(t, p) - 1
           e == LineStart(t, l + 1) - 1
<1>1. LineAt(t, p) \in Nat /\ LineAt(t, Len(t)) \in Nat /\ LineAt(t, p) <= LineAt(t, Len(t))
  BY LineAtNat, LineAtGrows
<1>2. l \in Nat /\ l + 1 <= LineAt(t, Len(t)) /\ l + 1 = LineAt(t, p)
  BY <1>1
<1>3. LineStart(t, l + 1) \in 0 .. Len(t) /\ LineStart(t, l) \in 0 .. Len(t)
  BY <1>1, <1>2, StartOfLine
<1>4. LineStart(t, l) < LineStart(t, l + 1) /\ t[LineStart(t, l + 1)] = NL /\ LineAt(t, e) = l
  BY <1>2, BehindNewline
<1>5. e \in 0 .. Len(t) /\ t[e + 1] = NL
  BY <1>3, <1>4
<1>6. UpOf(t, p) = Kept(t, l, e, Column(t, p))
  BY <1>1, <1>2 DEF UpOf, Kept
<1>. HIDE DEF l, e
<1>7. LineAt(t, e) = l /\ Column(t, p) \in Nat
  BY <1>4, ColumnNat
<1>8. /\ Kept(t, l, e, Column(t, p)) \in 0 .. Len(t) /\ LineAt(t, Kept(t, l, e, Column(t, p))) = l
      /\ Column(t, Kept(t, l, e, Column(t, p))) <= Column(t, p)
      /\ Column(t, Kept(t, l, e, Column(t, p))) < Column(t, p) => Kept(t, l, e, Column(t, p)) = e
  BY <1>5, <1>7, KeepsColumn
<1>. QED BY <1>5, <1>6, <1>8 DEF l

(* DOWN: the line below ends in front of a newline, or with the text. *)
LEMMA DownGoesDown ==
  ASSUME NEW t, Len(t) \in Nat, NEW p \in 0 .. Len(t), LineAt(t, p) < CountLines(t) - 1
  PROVE  /\ DownOf(t, p) \in 0 .. Len(t) /\ LineAt(t, DownOf(t, p)) = LineAt(t, p) + 1
         /\ Column(t, DownOf(t, p)) <= Column(t, p)
         /\ Column(t, DownOf(t, p)) < Column(t, p) =>
              (DownOf(t, p) = Len(t) \/ t[DownOf(t, p) + 1] = NL)
<1> DEFINE l == LineAt(t, p)
           e == IF l + 2 < CountLines(t) THEN LineStart(t, l + 2) - 1 ELSE Len(t)
<1>1. l \in Nat /\ LineAt(t, Len(t)) \in Nat /\ l + 1 <= LineAt(t, Len(t))
  BY LineAtNat DEF CountLines
<1>2. e \in 0 .. Len(t) /\ LineAt(t, e) = l + 1 /\ (e = Len(t) \/ t[e + 1] = NL)
  <2>1. CASE l + 2 < CountLines(t)
    <3>1. (l + 1) + 1 <= LineAt(t, Len(t)) /\ (l + 1) + 1 = l + 2
      BY <1>1, <2>1 DEF CountLines
    <3>2. LineStart(t, l + 2) \in 0 .. Len(t) /\ LineStart(t, l + 1) \in 0 .. Len(t)
      BY <1>1, <3>1, StartOfLine
    <3>3. /\ LineStart(t, l + 1) < LineStart(t, l + 2) /\ t[LineStart(t, l + 2)] = NL
          /\ LineAt(t, LineStart(t, l + 2) - 1) = l + 1
      BY <1>1, <3>1, BehindNewline
    <3>. QED BY <2>1, <3>2, <3>3
  <2>2. CASE ~(l + 2 < CountLines(t))
    BY <1>1, <2>2 DEF CountLines
  <2>. QED BY <2>1, <2>2
<1>3. DownOf(t, p) = Kept(t, l + 1, e, Column(t, p))
  <2>1. LineStart(t, l + 1) \in Int /\ (l + 2 < CountLines(t) => LineStart(t, l + 2) \in Int)
    BY <1>1, StartOfLine DEF CountLines
  <2>2. LengthBelow(t, l) = e - LineStart(t, l + 1)
    BY <2>1 DEF LengthBelow
  <2>. QED BY <1>1, <2>2 DEF DownOf, Kept, CountLines
<1>4. Column(t, p) \in Nat
  BY ColumnNat
<1>. HIDE DEF l, e
<1>5. /\ Kept(t, l + 1, e, Column(t, p)) \in 0 .. Len(t) /\ LineAt(t, Kept(t, l + 1, e, Column(t, p))) = l + 1
      /\ Column(t, Kept(t, l + 1, e, Column(t, p))) <= Column(t, p)
      /\ Column(t, Kept(t, l + 1, e, Column(t, p))) < Column(t, p) => Kept(t, l + 1, e, Column(t, p)) = e
  BY <1>2, <1>4, KeepsColumn
<1>. QED BY <1>2, <1>3, <1>5 DEF l

LEMMA UpStays ==
  ASSUME NEW t, Len(t) \in Nat, NEW p \in 0 .. Len(t) PROVE UpOf(t, p) \in 0 .. Len(t)
<1>1. LineAt(t, p) \in Nat
  BY LineAtNat
<1>2. CASE LineAt(t, p) > 0
  BY <1>2, UpGoesUp
<1>3. CASE ~(LineAt(t, p) > 0)
  BY <1>3 DEF UpOf
<1>. QED BY <1>2, <1>3

LEMMA DownStays ==
  ASSUME NEW t, Len(t) \in Nat, NEW p \in 0 .. Len(t) PROVE DownOf(t, p) \in 0 .. Len(t)
<1>1. CASE LineAt(t, p) < CountLines(t) - 1
  BY <1>1, DownGoesDown
<1>2. CASE ~(LineAt(t, p) < CountLines(t) - 1)
  BY <1>2 DEF DownOf
<1>. QED BY <1>1, <1>2

-----------------------------------------------------------------------------
(* The editor's cursor                                                     *)

(* Texts, also those in files, are sequences; the cursor is on the screen. *)
PageInv ==
  /\ text \in Seq(Chars) /\ scroll \in Nat /\ hscroll \in Nat
  /\ files \in [Names -> Seq(Chars) \cup {NoFile}]
  /\ CursorShown

LEMMA PartOfText ==
  ASSUME NEW t \in Seq(Chars), NEW m \in 1 .. Len(t) + 1, NEW n \in m - 1 .. Len(t)
  PROVE  SubSeq(t, m, n) \in Seq(Chars) /\ Len(SubSeq(t, m, n)) = n - m + 1
<1>1. m \in Int /\ n \in Int /\ \A i \in m .. n : t[i] \in Chars
  BY ElementOfSeq
<1>. QED BY <1>1, SubSeqProperties

LEMMA InsertedText ==
  ASSUME NEW t \in Seq(Chars), NEW p \in 0 .. Len(t), NEW c \in Chars
  PROVE  Inserted(t, p, c) \in Seq(Chars) /\ Len(Inserted(t, p, c)) = Len(t) + 1
<1> DEFINE a == SubSeq(t, 1, p)
           b == SubSeq(t, p + 1, Len(t))
<1>1. a \in Seq(Chars) /\ Len(a) = p
  BY PartOfText
<1>2. b \in Seq(Chars) /\ Len(b) = Len(t) - p
  BY PartOfText
<1>. HIDE DEF a, b
<1>3. <<c>> \in Seq(Chars) /\ Len(<<c>>) = 1
  OBVIOUS
<1>4. a \o <<c>> \in Seq(Chars) /\ Len(a \o <<c>>) = p + 1
  BY <1>1, <1>3, ConcatProperties
<1>5. (a \o <<c>>) \o b \in Seq(Chars) /\ Len((a \o <<c>>) \o b) = Len(a \o <<c>>) + Len(b)
  BY <1>2, <1>4, ConcatProperties
<1>6. p + 1 + (Len(t) - p) = Len(t) + 1
  BY LenProperties
<1>. QED BY <1>2, <1>4, <1>5, <1>6 DEF Inserted, a, b

LEMMA DeletedText ==
  ASSUME NEW t \in Seq(Chars), NEW p \in 1 .. Len(t)
  PROVE  Deleted(t, p) \in Seq(Chars) /\ Len(Deleted(t, p)) = Len(t) - 1
<1> DEFINE a == SubSeq(t, 1, p - 1)
           b == SubSeq(t, p + 1, Len(t))
<1>1. a \in Seq(Chars) /\ Len(a) = p - 1
  BY PartOfText
<1>2. b \in Seq(Chars) /\ Len(b) = Len(t) - p
  BY PartOfText
<1>. HIDE DEF a, b
<1>3. a \o b \in Seq(Chars) /\ Len(a \o b) = Len(a) + Len(b)
  BY <1>1, <1>2, ConcatProperties
<1>4. (p - 1) + (Len(t) - p) = Len(t) - 1
  BY LenProperties
<1>. QED BY <1>1, <1>2, <1>3, <1>4 DEF Deleted, a, b

LEMMA PageShows ==
  ASSUME NEW t \in Seq(Chars), Len(t) <= MaxBytes, NEW p \in 0 .. Len(t), Page(t, p),
         scroll \in Nat, hscroll \in Nat,
         files' \in [Names -> Seq(Chars) \cup {NoFile}]
  PROVE  PageInv'
<1>1. LineAt(t, p) \in Nat /\ Column(t, p) \in Nat
  BY LineAtNat, ColumnNat
<1>2. scroll' \in Nat /\ LineAt(t, p) \in scroll' .. scroll' + ROWS - 1
  BY <1>1, EditorSizes DEF Page, RowScroll
<1>3. hscroll' \in Nat /\ Column(t, p) \in hscroll' .. hscroll' + COLS - 1
  BY <1>1, EditorSizes DEF Page, ColumnScroll
<1>. QED BY <1>2, <1>3 DEF Page, PageInv, CursorShown

LEMMA TopShows ==
  ASSUME NEW t \in Seq(Chars), Len(t) <= MaxBytes, text' = t, cpos' = 0, scroll' = 0, hscroll' = 0,
         files' \in [Names -> Seq(Chars) \cup {NoFile}]
  PROVE  PageInv'
<1>1. LineAt(t, 0) = 0 /\ Column(t, 0) = 0
  <2>1. LineAt(t, Len(t)) \in Nat /\ 0 \in 0 .. Len(t)
    BY LineAtNat
  <2>2. LineStart(t, 0) = 0
    BY <2>1, LineAtStart, StartOfLine
  <2>. QED BY <2>2, LineAtStart DEF Column
<1>. QED BY <1>1, EditorSizes DEF PageInv, CursorShown

LEMMA PageInit == Init => PageInv
<1> SUFFICES ASSUME Init PROVE PageInv
  OBVIOUS
<1>1. LineAt(<<>>, 0) = 0 /\ Column(<<>>, 0) = 0
  <2>1. LineAt(<<>>, Len(<<>>)) \in Nat /\ 0 \in 0 .. Len(<<>>)
    BY LineAtNat
  <2>2. LineStart(<<>>, 0) = 0
    BY <2>1, LineAtStart, StartOfLine
  <2>. QED BY <2>2, LineAtStart DEF Column
<1>. QED BY <1>1, EditorSizes, UploadedTexts DEF Init, EditorInit, PageInv, CursorShown

LEMMA PageNext == PageInv /\ [Next]_vars => PageInv'
<1> SUFFICES ASSUME PageInv, [Next]_vars PROVE PageInv'
  OBVIOUS
<1>. USE DEF PageInv
<1>0. /\ Len(text) \in Nat /\ Len(text) <= MaxBytes /\ cpos \in 0 .. Len(text)
      /\ text \in Seq(Chars)
  BY DEF CursorShown
<1>1. ASSUME UNCHANGED page, files' \in [Names -> Seq(Chars) \cup {NoFile}] PROVE PageInv'
  BY <1>1 DEF page, CursorShown
<1>2. ASSUME EditorKey PROVE PageInv'
  <2>1. ASSUME NEW c \in Chars, Insert(c) PROVE PageInv'
    <3>1. CASE Len(text) >= MaxBytes
      BY <1>0, <2>1, <3>1, PageShows DEF Insert
    <3>2. CASE Len(text) < MaxBytes
      <4>1. /\ Inserted(text, cpos, c) \in Seq(Chars)
            /\ Len(Inserted(text, cpos, c)) = Len(text) + 1
        BY <1>0, InsertedText
      <4>2. Page(Inserted(text, cpos, c), cpos + 1)
        BY <1>0, <2>1, <3>2, EditorSizes DEF Insert
      <4>3. files' = files
        BY <2>1 DEF Insert
      <4>. QED BY <1>0, <3>2, <4>1, <4>2, <4>3, EditorSizes, PageShows
    <3>. QED BY <1>0, <3>1, <3>2, EditorSizes
  <2>2. CASE Backspace
    <3>0. files' = files
      BY <2>2 DEF Backspace
    <3>1. CASE cpos = 0
      BY <1>0, <2>2, <3>0, <3>1, PageShows DEF Backspace
    <3>2. CASE cpos # 0
      <4>1. /\ Deleted(text, cpos) \in Seq(Chars)
            /\ Len(Deleted(text, cpos)) = Len(text) - 1
        BY <1>0, <3>2, DeletedText
      <4>2. Page(Deleted(text, cpos), cpos - 1)
        BY <2>2, <3>2 DEF Backspace
      <4>. QED BY <1>0, <3>0, <3>2, <4>1, <4>2, EditorSizes, PageShows
    <3>. QED BY <3>1, <3>2
  <2>3. CASE Left \/ Right \/ Up \/ Down
    <3>1. PICK p \in 0 .. Len(text) : Moved(p)
      <4>1. UpOf(text, cpos) \in 0 .. Len(text) /\ DownOf(text, cpos) \in 0 .. Len(text)
        BY <1>0, UpStays, DownStays
      <4>. QED BY <1>0, <2>3, <4>1 DEF Left, Right, Up, Down
    <3>. QED BY <1>0, <3>1, PageShows DEF Moved
  <2>4. CASE Save \/ NamingDone
    BY <1>0, <1>1, <2>4 DEF Save, NamingDone, Written, NotWritten, page
  <2>5. CASE Shift \/ NamingStop \/ NamingType \/ NamingErase \/ EditorLeave
    BY <1>1, <2>5 DEF Shift, NamingStop, NamingType, NamingErase, EditorLeave, editor
  <2>. QED BY <1>2, <2>1, <2>2, <2>3, <2>4, <2>5 DEF EditorKey
<1>3. ASSUME FmKey PROVE PageInv'
  <2>1. CASE FmDelete
    BY <1>1, <2>1 DEF FmDelete
  <2>2. CASE FmShift \/ FmDown \/ FmUp \/ FmLeave
    BY <1>1, <2>2 DEF FmShift, FmDown, FmUp, FmLeave, editor
  <2>3. CASE FmOpen
    <3>1. files' = files
      BY <2>3 DEF FmOpen
    <3>2. CASE items # <<>> /\ Opens(items[cursor + 1])
      <4>1. files[items[cursor + 1]] \in Seq(Chars) /\ Len(files[items[cursor + 1]]) <= MaxBytes
        BY <3>2 DEF Opens
      <4>2. Opened(items[cursor + 1])
        BY <2>3, <3>2 DEF FmOpen
      <4>. QED BY <3>1, <4>1, <4>2, TopShows DEF Opened
    <3>3. CASE ~(items # <<>> /\ Opens(items[cursor + 1]))
      BY <1>1, <2>3, <3>1, <3>3 DEF FmOpen, editor
    <3>. QED BY <3>2, <3>3
  <2>4. CASE FmNew
    <3>1. <<>> \in Seq(Chars) /\ Len(<<>>) <= MaxBytes
      BY EditorSizes
    <3>. QED BY <2>4, <3>1, TopShows DEF FmNew, NewText
  <2>. QED BY <1>3, <2>1, <2>2, <2>3, <2>4 DEF FmKey
<1>4. ASSUME ShellFile \/ Usb PROVE PageInv'
  <2>1. PICK n \in Names, to \in Uploads \cup {NoFile, <<>>} : Changes(n, to)
    BY <1>4 DEF ShellFile, Usb
  <2>2. to \in Seq(Chars) \cup {NoFile}
    <3>1. <<>> \in Seq(Chars)
      OBVIOUS
    <3>. QED BY <3>1, UploadedTexts
  <2>3. files' = [files EXCEPT ![n] = to] /\ UNCHANGED page
    BY <2>1 DEF Changes
  <2>. QED BY <1>1, <2>2, <2>3
<1>5. ASSUME HomeOpen \/ ShellFm \/ ShellLeave \/ Redraw \/ Wake PROVE PageInv'
  BY <1>1, <1>5 DEF HomeOpen, ShellFm, ShellLeave, Redraw, Wake, editor
<1>6. CASE UNCHANGED vars
  BY <1>1, <1>6 DEF vars, editor
<1>. QED BY <1>2, <1>3, <1>4, <1>5, <1>6 DEF Next

LEMMA PageMoves == PageInv => MovesByLine
<1> SUFFICES ASSUME PageInv PROVE MovesByLine
  OBVIOUS
<1>1. Len(text) \in Nat /\ cpos \in 0 .. Len(text)
  BY DEF PageInv, CursorShown
<1>. QED BY <1>1, UpGoesUp, DownGoesDown DEF MovesByLine, Reaches

-----------------------------------------------------------------------------
(* The list's cursor                                                       *)

ListInv ==
  /\ items \in Seq(Names) /\ cursor \in Nat /\ top \in Nat
  /\ app = "files" =>
       cursor \in top .. top + FM_VISIBLE_ROWS - 1 /\ (items # <<>> => cursor < Len(items))

(* What fm_redraw() sets, whatever is in the directory.                    *)
LEMMA RedrawShows ==
  ASSUME NEW present \in SUBSET Names, FmRedraw(present), cursor \in Nat, top \in Nat
  PROVE  ListInv'
<1>1. IsFiniteSet(present) /\ Cardinality(present) \in Nat
  BY ListSizes, FS_Subset, FS_CardinalityType
<1>2. items' \in Seq(present)
  BY <1>1 DEF FmRedraw, SetToSeqs
<1>3. items' \in Seq(Names) /\ Len(items') \in Nat /\ (items' # <<>> => Len(items') > 0)
  BY <1>2, SeqMonotonic, EmptySeq, LenProperties
<1>4. cursor' = Clamped(cursor, Len(items')) /\ top' = TopFor(top, cursor')
  BY DEF FmRedraw
<1>5. cursor' \in Nat /\ (items' # <<>> => cursor' < Len(items'))
  BY <1>3, <1>4 DEF Clamped
<1>6. top' \in Nat /\ cursor' \in top' .. top' + FM_VISIBLE_ROWS - 1
  BY <1>4, <1>5, ListSizes DEF TopFor
<1>. QED BY <1>3, <1>5, <1>6 DEF ListInv

LEMMA ListInit == Init => ListInv
BY DEF Init, ListInv

LEMMA ListNext == ListInv /\ [Next]_vars => ListInv'
<1> SUFFICES ASSUME ListInv, [Next]_vars PROVE ListInv'
  OBVIOUS
<1>. USE DEF ListInv
<1>1. ASSUME UNCHANGED list, app' # "files" \/ app' = app PROVE ListInv'
  BY <1>1 DEF list
<1>2. ASSUME NEW a, SetApp(a) PROVE ListInv'
  <2>1. CASE a = "files"
    <3>1. FmRedraw(FilesNow) /\ FilesNow \in SUBSET Names
      BY <1>2, <2>1 DEF SetApp, FilesNow
    <3>. QED BY <3>1, RedrawShows
  <2>2. CASE a # "files"
    BY <1>1, <1>2, <2>2 DEF SetApp
  <2>. QED BY <2>1, <2>2
<1>3. ASSUME EditorKey, UNCHANGED manager PROVE ListInv'
  <2>1. app' # "files" \/ app' = app
    BY <1>3 DEF EditorKey, Insert, Backspace, Left, Right, Up, Down, Moved, Shift, Save,
      NamingStop, NamingType, NamingErase, NamingDone, EditorLeave
  <2>. QED BY <1>1, <1>3, <2>1 DEF manager
<1>4. ASSUME FmKey PROVE ListInv'
  <2>1. CASE FmDelete
    <3>1. CASE items = <<>>
      BY <1>1, <2>1, <3>1 DEF FmDelete
    <3>2. CASE items # <<>>
      <4>1. FmRedraw(FilesNow) /\ FilesNow \in SUBSET Names
        BY <2>1, <3>2 DEF FmDelete, FilesNow
      <4>. QED BY <4>1, RedrawShows
    <3>. QED BY <3>1, <3>2
  <2>2. CASE FmShift
    BY <1>1, <2>2 DEF FmShift
  <2>3. CASE FmDown
    <3>1. Len(items) \in Nat
      BY LenProperties
    <3>. QED BY <2>3, <3>1, ListSizes DEF FmDown, Browsing
  <2>4. CASE FmUp
    <3>1. Len(items) \in Nat
      BY LenProperties
    <3>. QED BY <2>4, <3>1, ListSizes DEF FmUp, Browsing
  <2>5. CASE FmOpen \/ FmNew \/ FmLeave
    BY <1>1, <2>5 DEF FmOpen, FmNew, FmLeave
  <2>. QED BY <1>4, <2>1, <2>2, <2>3, <2>4, <2>5 DEF FmKey
<1>5. ASSUME HomeOpen \/ ShellFm \/ ShellLeave \/ Redraw PROVE ListInv'
  BY <1>2, <1>5 DEF HomeOpen, ShellFm, ShellLeave, Redraw
<1>6. ASSUME ShellFile \/ Usb \/ Wake PROVE ListInv'
  BY <1>1, <1>6 DEF ShellFile, Usb, Wake, Changes, manager
<1>7. CASE UNCHANGED vars
  BY <1>1, <1>7 DEF vars, manager
<1>. QED BY <1>3, <1>4, <1>5, <1>6, <1>7 DEF Next

(* Both cursors stay on the screen, and UP and DOWN of the editor go to    *)
(* the next line, for every text that can be typed, sent or opened.        *)
THEOREM CursorsStayShown == Spec => []CursorsShown
<1>1. PageInv /\ ListInv /\ QuestionInv => CursorsShown
  BY PageMoves DEF PageInv, ListInv, QuestionInv, CursorsShown, ListCursor
<1>. QED
  BY <1>1, PageInit, PageNext, ListInit, ListNext, QuestionInit, QuestionNext, PTL DEF Spec

-----------------------------------------------------------------------------
(***************************************************************************)
(* Statistics.  What load() takes from a file is a table as it should be,  *)
(* and from one that save() wrote it takes every row with a number.        *)
(***************************************************************************)
Tables == {t \in Seq(TableRows) : Len(t) <= STATS_MAX}

(* A line read more.                                                       *)
RowRead(t, l) == IF ~IsRow(l) \/ Len(t) = STATS_MAX THEN t ELSE Append(t, AsRow(l))

LEMMA LineRow ==
  ASSUME NEW l \in FileLines
  PROVE  AsRow(l) \in TableRows /\ (l[1] # Nan /\ IsRow(l) => AsRow(l) # NoRow)
<1>1. PICK a \in CellValues \cup {Nan}, b \in CellValues \cup {Nan} : l = <<a, b>>
  BY DEF FileLines
<1>2. Empty # Nan /\ Empty \notin Numbers /\ Nan \notin Numbers
  BY StatsSizes
<1>3. l[1] = a /\ l[2] = b
  BY <1>1
<1>. QED BY <1>2, <1>3 DEF AsRow, IsRow, TableRows, CellValues, NoRow

LEMMA RowReadType ==
  ASSUME NEW t \in Tables, NEW l \in FileLines
  PROVE  /\ RowRead(t, l) \in Tables /\ Len(RowRead(t, l)) >= Len(t)
         /\ \A i \in 1 .. Len(t) : RowRead(t, l)[i] = t[i]
         /\ \A i \in 1 .. Len(RowRead(t, l)) : i <= Len(t) \/ (IsRow(l) /\ RowRead(t, l)[i] = AsRow(l))
<1>1. t \in Seq(TableRows) /\ Len(t) <= STATS_MAX /\ AsRow(l) \in TableRows /\ Len(t) \in Nat
  BY LineRow DEF Tables
<1>2. CASE ~IsRow(l) \/ Len(t) = STATS_MAX
  BY <1>1, <1>2 DEF RowRead, Tables
<1>3. CASE IsRow(l) /\ Len(t) # STATS_MAX
  <2> DEFINE u == Append(t, AsRow(l))
  <2>1. /\ u \in Seq(TableRows) /\ Len(u) = Len(t) + 1 /\ u[Len(t) + 1] = AsRow(l)
        /\ \A i \in 1 .. Len(t) : u[i] = t[i]
    BY <1>1, AppendProperties
  <2>2. Len(u) <= STATS_MAX
    BY <1>1, <1>3, <2>1, StatsSizes
  <2>3. RowRead(t, l) = u
    BY <1>3 DEF RowRead
  <2>. HIDE DEF u
  <2>4. u \in Tables
    BY <2>1, <2>2 DEF Tables
  <2>. QED BY <1>1, <1>3, <2>1, <2>3, <2>4
<1>. QED BY <1>2, <1>3

LEMMA NoTable == <<>> \in Tables
BY StatsSizes DEF Tables

(* The loop of statistics_set_text() has values.                           *)
LEMMA LoadedLoop ==
  ASSUME NEW file \in Seq(FileLines)
  PROVE  \E rows : /\ rows \in [0 .. Len(file) -> Tables] /\ rows[0] = <<>>
                   /\ \A i \in 1 .. Len(file) : rows[i] = RowRead(rows[i - 1], file[i])
                   /\ Loaded(file) = rows[Len(file)]
<1> DEFINE n == Len(file)
           step == [p \in Tables \X (1 .. n) |-> RowRead(p[1], file[p[2]])]
           F(f) == [i \in 0 .. Len(file) |->
                      IF i = 0 THEN <<>>
                      ELSE IF ~IsRow(file[i]) \/ Len(f[i - 1]) = STATS_MAX THEN f[i - 1]
                      ELSE Append(f[i - 1], AsRow(file[i]))]
<1>1. n \in Nat /\ \A i \in 1 .. n : file[i] \in FileLines
  OBVIOUS
<1>2. step \in [Tables \X (1 .. n) -> Tables]
  BY <1>1, RowReadType
<1>3. \A t \in Tables, i \in 1 .. n : step[<<t, i>>] = RowRead(t, file[i])
  OBVIOUS
<1>4. PICK f \in [0 .. n -> Tables] : f[0] = <<>> /\ \A i \in 1 .. n : f[i] = step[<<f[i - 1], i>>]
  <2> DEFINE start == <<>>
  <2>1. start \in Tables
    BY NoTable
  <2>. HIDE DEF n, step, start
  <2>2. n \in Nat /\ Steps(step, Tables, n)
    BY <1>1, <1>2 DEF Steps
  <2>3. \E f : Goes(f, Tables, start, step, n)
    BY ONLY <2>1, <2>2, Recursion
  <2>. QED BY <2>3 DEF start, Goes
<1>. HIDE DEF step
<1>5. \A i \in 1 .. n : f[i] = RowRead(f[i - 1], file[i])
  <2> TAKE i \in 1 .. n
  <2>1. i - 1 \in 0 .. n
    BY <1>1
  <2>2. f[i - 1] \in Tables
    BY <2>1, <1>4
  <2>. QED BY <1>3, <1>4, <2>2
<1>6. f = F(f)
  <2>1. ASSUME NEW i \in 0 .. n PROVE f[i] = F(f)[i]
    <3>1. CASE i = 0
      BY <1>4, <3>1
    <3>2. CASE i # 0
      <4>1. i \in 1 .. n
        BY <3>2, <1>1
      <4>. QED BY <1>5, <3>2, <4>1 DEF RowRead
    <3>. QED BY <3>1, <3>2
  <2>. QED BY <2>1, <1>4
<1> DEFINE g == CHOOSE g : g = F(g)
<1>7. Loaded(file) = g[n]
  BY DEF Loaded
<1>8. g = F(g)
  BY <1>6
<1>9. g[0] = <<>> /\ \A i \in 1 .. n : g[i] = RowRead(g[i - 1], file[i])
  <2>1. ASSUME NEW h PROVE F(h)[0] = <<>> /\ \A i \in 1 .. n : F(h)[i] = RowRead(h[i - 1], file[i])
    BY <1>1 DEF RowRead
  <2>. HIDE DEF g, F
  <2>. QED BY <1>8, <2>1
<1> DEFINE P == {j \in 0 .. n : g[j] \in Tables}
<1>10. \A i \in 0 .. n : i \in P
  <2>. HIDE DEF g
  <2>1. \A i \in 0 .. n - 1 : i \in P => i + 1 \in P
    <3> SUFFICES ASSUME NEW i \in 0 .. n - 1, g[i] \in Tables PROVE g[i + 1] \in Tables
      OBVIOUS
    <3>1. i + 1 \in 1 .. n /\ (i + 1) - 1 = i
      BY <1>1
    <3>2. g[i + 1] = RowRead(g[i], file[i + 1])
      BY <1>9, <3>1
    <3>. QED BY <1>1, <3>1, <3>2, RowReadType
  <2>2. 0 \in P
    BY <1>1, <1>9, NoTable
  <2>. HIDE DEF P, n
  <2>. QED BY <1>1, <2>1, <2>2, UpTo0
<1>11. g \in [0 .. n -> Tables]
  <2>. HIDE DEF g
  <2>. QED BY <1>8, <1>10
<1>. HIDE DEF g
<1>. QED BY <1>7, <1>9, <1>11

(* The table that is read has no empty row but where the file has a Nan.   *)
LEMMA LoadedType ==
  ASSUME NEW file \in Seq(FileLines)
  PROVE  /\ Loaded(file) \in Tables
         /\ ~NanLine(file) => \A i \in 1 .. Len(Loaded(file)) : Loaded(file)[i] # NoRow
<1>1. Len(file) \in Nat
  OBVIOUS
<1>2. PICK rows : /\ rows \in [0 .. Len(file) -> Tables] /\ rows[0] = <<>>
                  /\ \A i \in 1 .. Len(file) : rows[i] = RowRead(rows[i - 1], file[i])
                  /\ Loaded(file) = rows[Len(file)]
  BY LoadedLoop
<1>3. Loaded(file) \in Tables
  BY <1>1, <1>2
<1>4. ASSUME ~NanLine(file) PROVE \A i \in 1 .. Len(Loaded(file)) : Loaded(file)[i] # NoRow
  <2> DEFINE P == {j \in 0 .. Len(file) : \A i \in 1 .. Len(rows[j]) : rows[j][i] # NoRow}
  <2>1. 0 \in P
    BY <1>1, <1>2
  <2>2. ASSUME NEW j \in 0 .. Len(file) - 1, j \in P PROVE j + 1 \in P
    <3>1. j + 1 \in 1 .. Len(file) /\ (j + 1) - 1 = j /\ j + 1 \in 0 .. Len(file) /\ j \in 0 .. Len(file)
      BY <1>1
    <3>2. rows[j + 1] = RowRead(rows[j], file[j + 1]) /\ rows[j] \in Tables /\ file[j + 1] \in FileLines
      BY <1>2, <3>1
    <3>3. IsRow(file[j + 1]) => AsRow(file[j + 1]) # NoRow
      <4>1. file[j + 1][1] # Nan
        BY <1>4, <3>1 DEF NanLine
      <4>. QED BY <3>2, <4>1, LineRow
    <3>4. \A i \in 1 .. Len(rows[j]) : rows[j][i] # NoRow
      BY <2>2
    <3>5. Len(rows[j]) \in Nat
      BY <3>2 DEF Tables
    <3> DEFINE u == RowRead(rows[j], file[j + 1])
    <3>6. /\ u \in Tables /\ \A i \in 1 .. Len(rows[j]) : u[i] = rows[j][i]
          /\ \A i \in 1 .. Len(u) : i <= Len(rows[j]) \/ (IsRow(file[j + 1]) /\ u[i] = AsRow(file[j + 1]))
      BY <3>2, RowReadType
    <3>. HIDE DEF u
    <3>7. Len(u) \in Nat
      BY <3>6 DEF Tables
    <3>8. \A i \in 1 .. Len(u) : u[i] # NoRow
      BY <3>3, <3>4, <3>5, <3>6, <3>7
    <3>. QED BY <3>1, <3>2, <3>8 DEF u
  <2>. HIDE DEF P
  <2>3. \A j \in 0 .. Len(file) : j \in P
    BY <1>1, <2>1, <2>2, UpTo0
  <2>4. Len(file) \in P
    BY <1>1, <2>3
  <2>. QED BY <1>2, <2>4 DEF P
<1>. QED BY <1>3, <1>4

(* What save() writes.                                                     *)
LEMMA RowWritten ==
  ASSUME NEW r \in TableRows
  PROVE  /\ FormatRow(r) \in FileLines /\ FormatRow(r) \in TableRows /\ AsRow(FormatRow(r)) = FormatRow(r)
         /\ IsRow(FormatRow(r)) <=> r # NoRow
<1>1. PICK a \in CellValues, b \in CellValues : r = <<a, b>>
  BY DEF TableRows
<1>2. /\ Empty # Nan /\ Empty \notin Numbers /\ Nan \notin Numbers /\ \A v \in Numbers : Rounded[v] \in Numbers
  BY StatsSizes
<1>3. ASSUME NEW c \in CellValues PROVE TenDigits(c) \in CellValues /\ TenDigits(c) # Nan /\ (TenDigits(c) \in Numbers <=> c # Empty)
                                    /\ (TenDigits(c) = Empty <=> c = Empty)
  BY <1>2 DEF TenDigits, CellValues
<1> DEFINE p == TenDigits(a)
           q == TenDigits(b)
<1>4. FormatRow(r) = <<p, q>> /\ FormatRow(r)[1] = p /\ FormatRow(r)[2] = q
  BY <1>1 DEF FormatRow
<1>5. /\ p \in CellValues /\ p # Nan /\ q \in CellValues /\ q # Nan
      /\ (p = Empty <=> a = Empty) /\ (q \in Numbers <=> b # Empty)
  BY <1>3
<1>. HIDE DEF p, q
<1>6. IsRow(FormatRow(r)) <=> (a # Empty \/ b # Empty)
  BY <1>4, <1>5 DEF IsRow
<1>7. r # NoRow <=> (a # Empty \/ b # Empty)
  BY <1>1 DEF NoRow
<1>. QED BY <1>4, <1>5, <1>6, <1>7 DEF FileLines, TableRows, AsRow

LEMMA LinesWritten ==
  ASSUME NEW t \in Tables
  PROVE  /\ Formatted(t) \in Seq(FileLines) /\ Len(Formatted(t)) = Len(t)
         /\ \A i \in 1 .. Len(t) : Formatted(t)[i] = FormatRow(t[i])
<1>1. Len(t) \in Nat /\ \A i \in 1 .. Len(t) : t[i] \in TableRows
  BY DEF Tables
<1>2. \A i \in 1 .. Len(t) : FormatRow(t[i]) \in FileLines
  BY <1>1, RowWritten
<1>3. Formatted(t) \in [1 .. Len(t) -> FileLines]
  BY <1>2 DEF Formatted
<1>. QED BY <1>1, <1>3 DEF Formatted

(* Every row with a number comes back: of the first i lines as many as are *)
(* not empty, each in its place.                                           *)
LEMMA LoadedBack == ASSUME NEW t \in Tables PROVE IsBack(Loaded(Formatted(t)), t)
<1> DEFINE n == Len(t)
           file == Formatted(t)
           NotBlank(i) == {j \in 1 .. i : t[j] # NoRow}
<1>1. n \in Nat /\ n <= STATS_MAX /\ STATS_MAX \in Nat /\ \A i \in 1 .. n : t[i] \in TableRows
  BY StatsSizes DEF Tables
<1>2. file \in Seq(FileLines) /\ Len(file) = n /\ \A i \in 1 .. n : file[i] = FormatRow(t[i])
  BY LinesWritten
<1>. HIDE DEF file
<1>3. PICK rows : /\ rows \in [0 .. n -> Tables] /\ rows[0] = <<>>
                  /\ \A i \in 1 .. n : rows[i] = RowRead(rows[i - 1], file[i])
                  /\ Loaded(file) = rows[n]
  BY <1>2, LoadedLoop
<1>4. \A i \in 0 .. n : IsFiniteSet(NotBlank(i)) /\ Cardinality(NotBlank(i)) \in 0 .. i
  <2> TAKE i \in 0 .. n
  <2>1. IsFiniteSet(1 .. i) /\ Cardinality(1 .. i) = i
    BY <1>1, FS_Interval
  <2>2. NotBlank(i) \subseteq 1 .. i
    OBVIOUS
  <2>. QED BY <2>1, <2>2, FS_Subset, FS_CardinalityType
<1> DEFINE Back(i) == /\ Len(rows[i]) = Cardinality(NotBlank(i))
                      /\ \A j \in NotBlank(i) : rows[i][Cardinality(NotBlank(j))] = FormatRow(t[j])
<1>5. Back(0)
  <2>1. NotBlank(0) = {}
    BY <1>1
  <2>. QED BY <1>3, <2>1, FS_EmptySet
<1>6. ASSUME NEW i \in 0 .. n - 1, Back(i) PROVE Back(i + 1)
  <2>1. i + 1 \in 1 .. n /\ (i + 1) - 1 = i /\ i \in 0 .. n /\ i + 1 \in 0 .. n /\ i \in Nat /\ i < n
    BY <1>1
  <2>2. rows[i + 1] = RowRead(rows[i], FormatRow(t[i + 1])) /\ rows[i] \in Tables /\ t[i + 1] \in TableRows
    BY <1>1, <1>2, <1>3, <2>1
  <2>3. /\ FormatRow(t[i + 1]) \in FileLines /\ AsRow(FormatRow(t[i + 1])) = FormatRow(t[i + 1])
        /\ FormatRow(t[i + 1]) \in TableRows /\ (IsRow(FormatRow(t[i + 1])) <=> t[i + 1] # NoRow)
    BY <2>2, RowWritten
  <2>4. CASE t[i + 1] = NoRow
    <3>1. rows[i + 1] = rows[i]
      BY <2>2, <2>3, <2>4 DEF RowRead
    <3>2. NotBlank(i + 1) = NotBlank(i)
      BY <2>1, <2>4
    <3>. HIDE DEF NotBlank
    <3>. QED BY <1>6, <3>1, <3>2
  <2>5. CASE t[i + 1] # NoRow
    <3>1. NotBlank(i + 1) = NotBlank(i) \cup {i + 1} /\ i + 1 \notin NotBlank(i)
      BY <2>1, <2>5
    <3>2. Cardinality(NotBlank(i + 1)) = Cardinality(NotBlank(i)) + 1 /\ Cardinality(NotBlank(i)) \in 0 .. i
      <4>1. IsFiniteSet(NotBlank(i)) /\ Cardinality(NotBlank(i)) \in 0 .. i
        BY <1>4, <2>1
      <4>. HIDE DEF NotBlank
      <4>. QED BY <3>1, <4>1, FS_AddElement
    <3>3. Len(rows[i]) # STATS_MAX
      BY <1>1, <1>6, <2>1, <3>2
    <3>4. rows[i + 1] = Append(rows[i], FormatRow(t[i + 1])) /\ rows[i] \in Seq(TableRows)
      BY <2>2, <2>3, <2>5, <3>3 DEF RowRead, Tables
    <3>5. /\ Len(rows[i + 1]) = Len(rows[i]) + 1 /\ rows[i + 1][Len(rows[i]) + 1] = FormatRow(t[i + 1])
          /\ \A k \in 1 .. Len(rows[i]) : rows[i + 1][k] = rows[i][k]
      BY <2>3, <3>4, AppendProperties
    <3>6. ASSUME NEW j \in NotBlank(i) PROVE Cardinality(NotBlank(j)) \in 1 .. Len(rows[i])
      <4>1. j \in 1 .. i /\ j \in 0 .. n /\ NotBlank(j) \subseteq NotBlank(i) /\ j \in NotBlank(j)
        BY <2>1
      <4>2. IsFiniteSet(NotBlank(i)) /\ IsFiniteSet(NotBlank(j)) /\ Cardinality(NotBlank(j)) \in Nat
        <5>1. IsFiniteSet(NotBlank(i))
          BY <1>4, <2>1
        <5>2. IsFiniteSet(NotBlank(j)) /\ Cardinality(NotBlank(j)) \in 0 .. j
          BY <1>4, <4>1
        <5>. HIDE DEF NotBlank
        <5>. QED BY <4>1, <5>1, <5>2
      <4>3. Cardinality(NotBlank(j)) <= Cardinality(NotBlank(i)) /\ Cardinality(NotBlank(j)) # 0
        <5>. HIDE DEF NotBlank
        <5>. QED BY <4>1, <4>2, FS_Subset, FS_EmptySet
      <4>. QED BY <1>6, <4>2, <4>3
    <3>7. ASSUME NEW j \in NotBlank(i + 1) PROVE rows[i + 1][Cardinality(NotBlank(j))] = FormatRow(t[j])
      <4>. HIDE DEF NotBlank
      <4>1. CASE j = i + 1
        <5>1. Len(rows[i]) = Cardinality(NotBlank(i))
          BY <1>6
        <5>2. Cardinality(NotBlank(j)) = Len(rows[i]) + 1
          BY ONLY <3>2, <4>1, <5>1
        <5>. QED BY ONLY <3>5, <4>1, <5>2
      <4>2. CASE j # i + 1
        <5>1. j \in NotBlank(i)
          BY <3>1, <4>2
        <5>. QED BY <1>6, <3>5, <3>6, <5>1
      <4>. QED BY <4>1, <4>2
    <3>. HIDE DEF NotBlank
    <3>. QED BY <1>6, <3>2, <3>5, <3>7
  <2>. QED BY <2>4, <2>5
<1> DEFINE P == {i \in 0 .. n : Back(i)}
<1>7. n \in P
  <2>. HIDE DEF Back
  <2>1. 0 \in P /\ \A i \in 0 .. n - 1 : i \in P => i + 1 \in P
    BY <1>1, <1>5, <1>6
  <2>. HIDE DEF P, n
  <2>2. \A i \in 0 .. n : i \in P
    BY <1>1, <2>1, UpTo0
  <2>. QED BY <1>1, <2>2
<1>8. Back(n) /\ Loaded(Formatted(t)) = rows[n]
  BY <1>3, <1>7 DEF file
<1>9. \A i \in NotBlank(n) : {j \in NotBlank(n) : j <= i} = NotBlank(i)
  BY <1>1
<1>. QED BY <1>8, <1>9 DEF IsBack

-----------------------------------------------------------------------------
(* A step is one of this app's or leaves its state alone.                  *)
LEMMA StatsFrame == ASSUME [AppsNext]_appsVars PROVE StatsStep \/ UNCHANGED statistics
<1>1. CASE UNCHANGED appsVars
  BY <1>1 DEF appsVars
<1>2. CASE \E p \in {"files", "tetris", "2048", "snake", "settings", "scripts", "shell", "calculator",
                     "functions", "equations", "menus", "python", "console", "input", "colours"} : In(p)
  BY <1>2 DEF In
<1>3. CASE In("statistics") /\ StatsStep
  BY <1>3
<1>4. CASE OpenStatistics
  BY <1>4 DEF OpenStatistics
<1>5. OpenApp => OpenStatistics \/ \E p \in {"tetris", "2048", "snake", "settings", "scripts", "shell",
                        "calculator", "functions", "equations", "python"} : In(p)
  BY DEF OpenApp, OpenTetris, Open2048, OpenSnake, OpenSettings, OpenScripts, OpenShell, OpenCalculator,
         OpenFunctions, OpenEquations, OpenPython
<1>. QED BY <1>1, <1>2, <1>3, <1>4, <1>5 DEF AppsNext

StatsFiles == statsFile \in Seq(FileLines)
(* The table of the file; and the table as it is after a restart.          *)
FullRows == ~strange => \A i \in 1 .. Len(table) : table[i] # NoRow
OnFile == ~sdirty /\ ~apart => Loaded(statsFile) = table \/ IsBack(Loaded(statsFile), table)
StatsFlags ==
  /\ inTabs \in BOOLEAN /\ editing \in BOOLEAN /\ sdirty \in BOOLEAN /\ strange \in BOOLEAN /\ apart \in BOOLEAN
  /\ typed \in Numbers \cup {Empty, Wrong}
  /\ editing => tab = 0 /\ ~inTabs
StatsPlace ==
  /\ tab \in 0 .. 2 /\ scol \in {0, 1} /\ stop \in Nat
  /\ srow \in 0 .. Len(table) /\ srow < STATS_MAX /\ srow \in stop .. stop + VIS_ROWS - 1
StatsInv ==
  /\ table \in Tables /\ StatsFiles /\ StatsFlags /\ StatsPlace /\ FullRows /\ OnFile

LEMMA StatsInvHolds == StatsInv => StatsKept
<1> SUFFICES ASSUME StatsInv PROVE StatsKept
  OBVIOUS
<1>1. table \in Seq(TableRows) /\ Len(table) <= STATS_MAX
  BY DEF StatsInv, Tables
<1>2. DOMAIN table = 1 .. Len(table)
  BY <1>1
<1>. QED BY <1>1, <1>2 DEF StatsInv, StatsFlags, StatsPlace, FullRows, OnFile, StatsKept

LEMMA StatsStart == AppsInit => StatsInv
<1> SUFFICES ASSUME StatsInit PROVE StatsInv
  BY DEF AppsInit
<1>1. statsFile \in Seq(FileLines)
  BY StatsSizes DEF StatsInit
<1>2. table \in Tables /\ FullRows
  BY <1>1, LoadedType DEF StatsInit, FullRows
<1>3. Len(table) \in Nat
  BY <1>2 DEF Tables
<1>4. VIS_ROWS \in Nat \ {0} /\ STATS_MAX \in Nat \ {0}
  BY StatsSizes
<1>5. StatsPlace
  BY <1>3, <1>4 DEF StatsInit, StatsPlace
<1>6. StatsFlags
  BY DEF StatsInit, StatsFlags, NanLine
<1>7. OnFile
  BY DEF StatsInit, OnFile
<1>. QED BY <1>1, <1>2, <1>5, <1>6, <1>7 DEF StatsInv, StatsFiles

(* A number in a cell: of a row that is there, or of the one below.        *)
LEMMA CellStored ==
  ASSUME StatsInv, NEW v \in Numbers
  PROVE  /\ WithCell(table, v) \in Tables /\ Len(WithCell(table, v)) >= Len(table)
         /\ srow < Len(WithCell(table, v))
         /\ ~strange => \A i \in 1 .. Len(WithCell(table, v)) : WithCell(table, v)[i] # NoRow
<1>1. table \in Seq(TableRows) /\ Len(table) \in Nat /\ Len(table) <= STATS_MAX /\ FullRows
  BY DEF StatsInv, Tables
<1>2. srow \in 0 .. Len(table) /\ srow < STATS_MAX /\ scol \in {0, 1}
  BY DEF StatsInv, StatsFlags, StatsPlace
<1>3. v # Empty /\ STATS_MAX \in Nat /\ v \in CellValues /\ Empty \in CellValues
  BY StatsSizes DEF CellValues
<1>4. CASE srow = Len(table)
  <2> DEFINE r == IF scol = 0 THEN <<v, Empty>> ELSE <<Empty, v>>
  <2>1. r \in TableRows /\ r # NoRow
    BY <1>3 DEF TableRows, NoRow
  <2>3. WithCell(table, v) = Append(table, r)
    BY <1>4 DEF WithCell
  <2>. HIDE DEF r
  <2>4. /\ WithCell(table, v) \in Seq(TableRows) /\ Len(WithCell(table, v)) = Len(table) + 1
        /\ WithCell(table, v)[Len(table) + 1] = r
        /\ \A i \in 1 .. Len(table) : WithCell(table, v)[i] = table[i]
    BY <1>1, <2>1, <2>3, AppendProperties
  <2>5. WithCell(table, v) \in Tables
    BY <1>1, <1>2, <1>3, <1>4, <2>4 DEF Tables
  <2>6. ~strange => \A i \in 1 .. Len(WithCell(table, v)) : WithCell(table, v)[i] # NoRow
    BY <1>1, <2>1, <2>4 DEF FullRows
  <2>. QED BY <1>1, <1>4, <2>4, <2>5, <2>6
<1>5. CASE srow < Len(table)
  <2> DEFINE r == [table[srow + 1] EXCEPT ![scol + 1] = v]
             u == [table EXCEPT ![srow + 1] = r]
  <2>1. srow + 1 \in 1 .. Len(table)
    BY <1>1, <1>2, <1>5
  <2>2. WithCell(table, v) = u
    BY <1>2, <1>5 DEF WithCell
  <2>3. r \in TableRows /\ r # NoRow
    <3>1. PICK a \in CellValues, b \in CellValues : table[srow + 1] = <<a, b>>
      BY <1>1, <2>1 DEF TableRows
    <3>2. r = IF scol = 0 THEN <<v, b>> ELSE <<a, v>>
      BY <1>2, <3>1
    <3>. HIDE DEF r
    <3>. QED BY <1>3, <3>2 DEF TableRows, NoRow
  <2>. HIDE DEF r
  <2>4. u \in Seq(TableRows) /\ Len(u) = Len(table)
    BY <1>1, <2>1, <2>3
  <2>5. ~strange => \A i \in 1 .. Len(u) : u[i] # NoRow
    BY <1>1, <2>1, <2>3 DEF FullRows
  <2>. HIDE DEF u
  <2>6. u \in Tables
    BY <1>1, <2>4 DEF Tables
  <2>. QED BY <1>1, <1>5, <2>2, <2>4, <2>5, <2>6
<1>. QED BY <1>1, <1>2, <1>4, <1>5

(* What commit() leaves.                                                   *)
LEMMA CommitKeeps ==
  ASSUME StatsInv, Commits, NEW t, t = IF Stores THEN WithCell(table, typed) ELSE table
  PROVE  /\ t \in Tables /\ Len(t) >= Len(table) /\ Len(t) \in Nat
         /\ ~strange => \A i \in 1 .. Len(t) : t[i] # NoRow
<1>1. Stores => typed \in Numbers
  BY DEF Stores, StatsInv, StatsFlags, StatsPlace
<1>2. Len(table) \in Nat
  BY DEF StatsInv, Tables
<1>3. t \in Tables /\ Len(t) >= Len(table) /\ (~strange => \A i \in 1 .. Len(t) : t[i] # NoRow)
  <2>1. CASE Stores
    BY <1>1, <2>1, CellStored
  <2>2. CASE ~Stores
    BY <1>2, <2>2 DEF StatsInv, FullRows
  <2>. QED BY <2>1, <2>2
<1>. QED BY <1>3 DEF Tables

LEMMA StatsKeeps == ASSUME StatsInv, [AppsNext]_appsVars PROVE StatsInv'
<1>0. StatsStep \/ UNCHANGED statistics
  BY StatsFrame
<1>1. VIS_ROWS \in Nat \ {0} /\ STATS_MAX \in Nat \ {0}
  BY StatsSizes
<1>2. table \in Tables /\ Len(table) \in Nat /\ Len(table) <= STATS_MAX
  BY DEF StatsInv, Tables
<1>3. CASE UNCHANGED statistics
  BY <1>3 DEF statistics, place, edit, StatsInv, StatsFiles, StatsFlags, StatsPlace, FullRows, OnFile, Stores
(* The cursor after a move to row r.                                       *)
<1>4. ASSUME InTable, Commits, Commit, NEW r \in Nat, r <= Len(table'), r < STATS_MAX, srow' = r,
             scol' \in {0, 1}, inTabs' \in BOOLEAN, Scroll(r)
      PROVE  StatsInv'
  <2>1. table' \in Tables /\ Len(table') \in Nat /\ (~strange => \A i \in 1 .. Len(table') : table'[i] # NoRow)
    <3>1. table' = IF Stores THEN WithCell(table, typed) ELSE table
      BY <1>4 DEF Commit
    <3>. QED BY <1>4, <3>1, CommitKeeps
  <2>2. stop' \in Nat /\ r \in stop' .. stop' + VIS_ROWS - 1
    BY <1>1, <1>4 DEF Scroll, StatsInv, StatsFlags, StatsPlace
  <2>3. (sdirty' = (sdirty \/ Stores)) /\ editing' = FALSE /\ typed' = Empty
        /\ UNCHANGED <<statsFile, strange, apart, tab>>
    BY <1>4 DEF Commit, InTable
  <2>4. StatsFlags'
    <3>1. sdirty' \in BOOLEAN
      BY <2>3 DEF StatsInv, StatsFlags
    <3>. QED BY <1>4, <2>3, <3>1 DEF StatsInv, StatsFlags
  <2>6. StatsPlace'
    BY <1>4, <2>1, <2>2, <2>3 DEF StatsInv, StatsPlace
  <2>5. OnFile'
    <3>1. ~sdirty' => ~sdirty /\ table' = table
      BY <1>4, <2>3 DEF Commit
    <3>. QED BY <2>3, <3>1 DEF OnFile, StatsInv
  <2>7. FullRows'
    BY <2>1, <2>3 DEF FullRows
  <2>. QED BY <2>1, <2>3, <2>4, <2>5, <2>6, <2>7 DEF StatsInv, StatsFiles
<1>5. srow \in Nat /\ srow <= Len(table) /\ srow < STATS_MAX /\ scol \in {0, 1} /\ inTabs \in BOOLEAN
  BY <1>2 DEF StatsInv, StatsFlags, StatsPlace
<1>6. ASSUME Commits, Commit PROVE Len(table') \in Nat /\ Len(table') >= Len(table)
  <2>1. table' = IF Stores THEN WithCell(table, typed) ELSE table
    BY <1>6 DEF Commit
  <2>. QED BY <1>6, <2>1, CommitKeeps
<1>7. CASE StatsUp
  <2>1. CASE srow = 0
    <3>1. stop' = stop /\ srow' = 0 /\ scol' = scol /\ inTabs' = TRUE /\ InTable /\ Commits /\ Commit
      BY <1>7, <2>1 DEF StatsUp
    <3>2. Scroll(0)
      BY <1>1, <2>1, <3>1 DEF Scroll, StatsInv, StatsFlags, StatsPlace
    <3>. QED BY <1>1, <1>2, <1>4, <1>5, <1>6, <3>1, <3>2
  <2>2. CASE srow # 0
    <3>1. /\ srow' = srow - 1 /\ Scroll(srow') /\ inTabs' = inTabs /\ scol' = scol
          /\ InTable /\ Commits /\ Commit
      BY <1>7, <2>2 DEF StatsUp
    <3>2. srow - 1 \in Nat /\ srow - 1 <= Len(table') /\ srow - 1 < STATS_MAX
      BY <1>1, <1>2, <1>5, <1>6, <2>2, <3>1
    <3>. QED BY <1>4, <1>5, <3>1, <3>2
  <2>. QED BY <2>1, <2>2
<1>8. CASE StatsSide
  BY <1>2, <1>4, <1>5, <1>6, <1>8 DEF StatsSide
<1>9. CASE StatsDown
  <2>1. Next0(table') \in Nat /\ Next0(table') <= Len(table') /\ Next0(table') < STATS_MAX
    BY <1>1, <1>2, <1>5, <1>6, <1>9 DEF StatsDown, Next0
  <2>. QED BY <1>4, <1>5, <1>9, <2>1 DEF StatsDown
<1>10. CASE StatsEdit
  <2>1. typed' \in Numbers \cup {Empty, Wrong}
    <3>1. CASE srow < Len(table)
      <4>1. srow + 1 \in 1 .. Len(table) /\ table \in Seq(TableRows)
        BY <1>2, <1>5, <3>1 DEF Tables
      <4>2. PICK a \in CellValues, b \in CellValues : table[srow + 1] = <<a, b>>
        BY <4>1 DEF TableRows
      <4>3. table[srow + 1][scol + 1] \in {a, b}
        BY <1>5, <4>2
      <4>4. \A c \in CellValues : TextOf(c) \in Numbers \cup {Empty, Wrong}
        BY StatsSizes DEF TextOf, CellValues
      <4>. QED BY <1>10, <3>1, <4>2, <4>3, <4>4 DEF StatsEdit
    <3>2. CASE ~(srow < Len(table))
      BY <1>10, <3>2 DEF StatsEdit
    <3>. QED BY <3>1, <3>2
  <2>. QED BY <1>10, <2>1 DEF StatsEdit, InTable, place, StatsInv, StatsFiles, StatsFlags, StatsPlace, FullRows, OnFile
<1>11. CASE StatsType
  BY <1>11 DEF StatsType, InTable, place, StatsInv, StatsFiles, StatsFlags, StatsPlace, FullRows, OnFile
<1>12. CASE StatsErase
  BY <1>12 DEF StatsErase, InTable, place, StatsInv, StatsFiles, StatsFlags, StatsPlace, FullRows, OnFile
<1>13. CASE StatsCancel
  BY <1>13 DEF StatsCancel, place, StatsInv, StatsFiles, StatsFlags, StatsPlace, FullRows, OnFile
<1>14. CASE StatsClear
  <2>0. srow + 1 \in 1 .. Len(table) /\ table \in Seq(TableRows)
    BY <1>2, <1>5, <1>14 DEF StatsClear, Tables
  <2> DEFINE r == [table[srow + 1] EXCEPT ![scol + 1] = Empty]
             u == [table EXCEPT ![srow + 1] = r]
  <2>1. r \in TableRows
    <3>1. PICK a \in CellValues, b \in CellValues : table[srow + 1] = <<a, b>>
      BY <2>0 DEF TableRows
    <3>2. r = IF scol = 0 THEN <<Empty, b>> ELSE <<a, Empty>>
      BY <1>5, <3>1
    <3>. HIDE DEF r
    <3>. QED BY <3>2 DEF TableRows, CellValues
  <2>. HIDE DEF r
  <2>2. u \in Seq(TableRows) /\ Len(u) = Len(table) /\ u[srow + 1] = r
    BY <2>0, <2>1
  <2>3. ~strange => \A i \in 1 .. Len(u) : i # srow + 1 => u[i] # NoRow
    BY <1>2, <2>0 DEF StatsInv, FullRows
  <2>. HIDE DEF u
  <2>4. table' = IF r = NoRow THEN RemoveAt(u, srow + 1) ELSE u
    BY <1>14, <2>2 DEF StatsClear, u, r
  <2>5. /\ table' \in Tables /\ Len(table') \in Nat /\ srow <= Len(table')
        /\ ~strange => \A i \in 1 .. Len(table') : table'[i] # NoRow
    <3>1. CASE r # NoRow
      <4>1. table' = u /\ (~strange => \A i \in 1 .. Len(u) : u[i] # NoRow)
        BY <2>2, <2>3, <2>4, <3>1
      <4>. QED BY <1>2, <1>5, <2>2, <4>1 DEF Tables
    <3>2. CASE r = NoRow
      <4> DEFINE w == RemoveAt(u, srow + 1)
      <4>1. /\ w \in Seq(TableRows) /\ Len(w) = Len(u) - 1
            /\ \A i \in 1 .. Len(w) : w[i] = IF i < srow + 1 THEN u[i] ELSE u[i + 1]
        <5>1. w = SubSeq(u, 1, srow) \o SubSeq(u, srow + 2, Len(u))
          <6>1. (srow + 1) - 1 = srow /\ (srow + 1) + 1 = srow + 2
            BY <1>5
          <6>. QED BY <6>1 DEF RemoveAt
        <5> DEFINE a == SubSeq(u, 1, srow)
                   b == SubSeq(u, srow + 2, Len(u))
        <5>2. a \in Seq(TableRows) /\ Len(a) = srow /\ \A i \in 1 .. srow : a[i] = u[i]
          BY <1>2, <1>5, <2>0, <2>2
        <5>3. /\ b \in Seq(TableRows) /\ Len(b) = Len(u) - (srow + 1)
              /\ \A i \in 1 .. Len(u) - (srow + 1) : b[i] = u[srow + 1 + i]
          BY <1>2, <1>5, <2>0, <2>2
        <5>. HIDE DEF a, b, w
        <5>4. w = a \o b
          BY <5>1 DEF a, b
        <5>5. /\ w \in Seq(TableRows) /\ Len(w) = Len(a) + Len(b)
              /\ \A i \in 1 .. Len(w) : w[i] = IF i <= Len(a) THEN a[i] ELSE b[i - Len(a)]
          <6>1. a \in Seq(TableRows) /\ b \in Seq(TableRows)
            BY <5>2, <5>3
          <6>. QED BY ONLY <6>1, <5>4
        <5>6. Len(w) = Len(u) - 1 /\ srow \in Nat /\ srow + 1 <= Len(u) /\ Len(u) \in Nat
          BY <1>2, <1>5, <2>0, <2>2, <5>2, <5>3, <5>5
        <5>7. ASSUME NEW i \in 1 .. Len(w) PROVE w[i] = IF i < srow + 1 THEN u[i] ELSE u[i + 1]
          <6>1. CASE i < srow + 1
            <7>1. i \in 1 .. srow /\ i <= srow
              BY <5>6, <6>1
            <7>. QED BY <5>2, <5>5, <6>1, <7>1
          <6>2. CASE ~(i < srow + 1)
            <7>1. i - srow \in 1 .. Len(u) - (srow + 1) /\ ~(i <= srow) /\ (srow + 1) + (i - srow) = i + 1
              BY <5>6, <6>2
            <7>. QED BY <5>2, <5>3, <5>5, <6>2, <7>1
          <6>. QED BY <6>1, <6>2
        <5>. QED BY <5>5, <5>6, <5>7
      <4>. HIDE DEF w
      <4>2. table' = w
        BY <2>4, <3>2 DEF w
      <4>3. ~strange => \A i \in 1 .. Len(w) : w[i] # NoRow
        <5> SUFFICES ASSUME ~strange, NEW i \in 1 .. Len(w) PROVE w[i] # NoRow
          OBVIOUS
        <5>1. CASE i < srow + 1
          BY <1>2, <1>5, <2>2, <2>3, <4>1, <5>1
        <5>2. CASE ~(i < srow + 1)
          <6>1. i + 1 \in 1 .. Len(u) /\ i + 1 # srow + 1
            BY <1>2, <1>5, <2>2, <4>1, <5>2
          <6>. QED BY <2>3, <4>1, <5>2, <6>1
        <5>. QED BY <5>1, <5>2
      <4>. QED BY <1>1, <1>2, <1>5, <2>0, <2>2, <4>1, <4>2, <4>3 DEF Tables
    <3>. QED BY <3>1, <3>2
  <2>6. sdirty' = TRUE /\ UNCHANGED <<srow, scol, editing, typed, inTabs, tab, statsFile, strange, apart>> /\ Scroll(srow)
    BY <1>14 DEF StatsClear, InTable, edit
  <2>7. stop' = stop
    BY <1>1, <1>5, <2>6 DEF Scroll, StatsInv, StatsFlags, StatsPlace
  <2>8. FullRows' /\ OnFile'
    BY <2>5, <2>6 DEF FullRows, OnFile
  <2>. QED BY <1>1, <1>5, <2>5, <2>6, <2>7, <2>8 DEF StatsInv, StatsFiles, StatsFlags, StatsPlace
<1>15. CASE StatsTabs
  <2>1. UNCHANGED <<table, srow, scol, stop, editing, typed, sdirty, statsFile, strange, apart>>
        /\ (inTabs \/ tab # 0)
    BY <1>15 DEF StatsTabs, place, edit
  <2>2. tab' \in 0 .. 2 /\ inTabs' \in BOOLEAN
    <3>1. tab \in 0 .. 2 /\ inTabs \in BOOLEAN
      BY DEF StatsInv, StatsFlags, StatsPlace
    <3>2. (tab + 1) % 3 \in 0 .. 2 /\ (tab + 2) % 3 \in 0 .. 2
      BY <3>1
    <3>3. \/ tab' \in {(tab + 1) % 3, (tab + 2) % 3} /\ inTabs' = inTabs
          \/ inTabs' = ~inTabs /\ tab' = tab
      BY <1>15 DEF StatsTabs
    <3>. QED BY <3>1, <3>2, <3>3
  <2>3. FullRows' /\ OnFile'
    BY <2>1 DEF FullRows, OnFile, StatsInv
  <2>. QED BY <2>1, <2>2, <2>3 DEF StatsInv, StatsFiles, StatsFlags, StatsPlace
<1>16. CASE StatsLeave
  <2> DEFINE t == IF Commits /\ Stores THEN WithCell(table, typed) ELSE table
             d == IF Commits THEN sdirty \/ Stores ELSE sdirty
  <2>1. /\ t \in Tables /\ Len(t) \in Nat /\ Len(t) >= Len(table)
        /\ d \in BOOLEAN /\ (~d => t = table /\ ~sdirty)
        /\ ~strange => \A i \in 1 .. Len(t) : t[i] # NoRow
    <3>1. CASE Commits
      <4>1. t = IF Stores THEN WithCell(table, typed) ELSE table
        BY <3>1
      <4>. QED BY <3>1, <4>1, CommitKeeps DEF StatsInv, StatsFlags, StatsPlace, Stores
    <3>2. CASE ~Commits
      BY <1>2, <3>2 DEF StatsInv, StatsFlags, StatsPlace, FullRows
    <3>. QED BY <3>1, <3>2
  <2>2. /\ table' = t /\ StatsSave(t, d) /\ UNCHANGED <<tab, inTabs, srow, scol, stop, strange>>
        /\ (editing' = FALSE /\ typed' = Empty) \/ (editing' = editing /\ typed' = typed)
    BY <1>16 DEF StatsLeave, place, edit
  <2>. HIDE DEF t, d
  <2>3. statsFile' \in Seq(FileLines) /\ sdirty' \in BOOLEAN /\ apart' \in BOOLEAN /\ OnFile'
    <3>1. CASE ~d
      BY <2>1, <2>2, <3>1 DEF StatsSave, StatsInv, StatsFiles, StatsFlags, OnFile
    <3>2. CASE d /\ statsFile' = Formatted(t) /\ sdirty' = FALSE /\ apart' = FALSE
      <4>1. Formatted(t) \in Seq(FileLines) /\ IsBack(Loaded(Formatted(t)), t)
        BY <2>1, LinesWritten, LoadedBack
      <4>. QED BY <2>2, <3>2, <4>1 DEF OnFile
    <3>3. CASE d /\ sdirty' = d /\ UNCHANGED <<statsFile, apart>>
      BY <2>2, <3>3 DEF StatsInv, StatsFiles, StatsFlags, OnFile
    <3>4. CASE d /\ sdirty' = FALSE /\ apart' = TRUE /\ UNCHANGED statsFile
      BY <2>2, <3>4 DEF StatsInv, StatsFiles, OnFile
    <3>5. t = <<>> => Formatted(t) = <<>>
      <4>1. ASSUME t = <<>> PROVE Formatted(t) = <<>>
        <5>1. Len(Formatted(t)) = 0 /\ Formatted(t) \in Seq(FileLines)
          BY <2>1, <4>1, LinesWritten
        <5>. QED BY <5>1, EmptySeq
      <4>. QED BY <4>1
    <3>. QED BY <2>2, <3>1, <3>2, <3>3, <3>4, <3>5 DEF StatsSave
  <2>4. srow' \in 0 .. Len(table')
    BY <1>2, <1>5, <2>1, <2>2
  <2>5. StatsPlace'
    BY <2>2, <2>4 DEF StatsInv, StatsPlace
  <2>6. StatsFlags'
    <3>1. CASE editing' = FALSE /\ typed' = Empty
      BY <2>2, <2>3, <3>1 DEF StatsInv, StatsFlags
    <3>2. CASE editing' = editing /\ typed' = typed
      BY <2>2, <2>3, <3>2 DEF StatsInv, StatsFlags
    <3>. QED BY <2>2, <3>1, <3>2
  <2>7. FullRows'
    BY <2>1, <2>2 DEF FullRows
  <2>. QED BY <2>1, <2>2, <2>3, <2>5, <2>6, <2>7 DEF StatsInv, StatsFiles
<1>17. CASE StatsUpload
  BY <1>17, StatsSizes DEF StatsUpload, place, edit, StatsInv, StatsFiles, StatsFlags, StatsPlace, FullRows, OnFile
<1>18. CASE StatsRestart
  <2>1. /\ Loaded(statsFile) \in Tables
        /\ ~NanLine(statsFile) => \A i \in 1 .. Len(Loaded(statsFile)) : Loaded(statsFile)[i] # NoRow
    BY LoadedType DEF StatsInv, StatsFiles
  <2>2. Len(Loaded(statsFile)) \in Nat
    BY <2>1 DEF Tables
  <2>3. /\ table' = Loaded(statsFile) /\ statsFile' = statsFile /\ apart' = FALSE /\ sdirty' = FALSE
        /\ tab' = 0 /\ inTabs' = FALSE /\ srow' = 0 /\ scol' = 0 /\ stop' = 0
        /\ editing' = FALSE /\ typed' = Empty /\ strange' = NanLine(statsFile)
    BY <1>18 DEF StatsRestart
  <2>4. StatsPlace'
    BY <1>1, <2>1, <2>2, <2>3 DEF StatsPlace
  <2>5. StatsFlags'
    BY <2>3 DEF StatsFlags, NanLine
  <2>6. FullRows' /\ OnFile'
    BY <2>1, <2>3 DEF FullRows, OnFile
  <2>. QED BY <2>1, <2>3, <2>4, <2>5, <2>6 DEF StatsInv, StatsFiles
<1>. QED BY <1>0, <1>3, <1>7, <1>8, <1>9, <1>10, <1>11, <1>12, <1>13, <1>14, <1>15, <1>16, <1>17, <1>18 DEF StatsStep

(* In every state of the apps the table of statistics has no row without a *)
(* number but for a Nan of the file, its cursor is shown, an edit is in the*)
(* table, and a restart has every row with a number again, unless the table*)
(* is still to be saved or the PC wrote the file.                          *)
THEOREM StatisticsKept == AppsSpec => []StatsKept
<1>. QED BY StatsStart, StatsKeeps, StatsInvHolds, PTL DEF AppsSpec

-----------------------------------------------------------------------------
(* Division with a remainder.                                              *)
LEMMA DivMod ==
  ASSUME NEW a \in Nat, NEW m \in Nat \ {0}
  PROVE  a % m \in 0 .. m - 1 /\ a \div m \in Nat /\ a = m * (a \div m) + (a % m)
<1>1. a % m \in 0 .. m - 1
  OBVIOUS
<1>2. a \div m \in Int /\ a = m * (a \div m) + (a % m)
  OBVIOUS
<1>3. \A q \in Int : q < 0 => m * q <= 0 - m
  OBVIOUS
<1>4. ~(a \div m < 0)
  BY <1>1, <1>2, <1>3
<1>. QED BY <1>1, <1>2, <1>4

Divided(a, m, q, x) == a = m * q + x
LEMMA ModIs ==
  ASSUME NEW m \in Nat \ {0}, NEW a \in Nat, NEW q \in Nat, NEW x \in 0 .. m - 1, Divided(a, m, q, x)
  PROVE  a % m = x
<1> DEFINE d == a \div m
           r == a % m
<1>1. r \in 0 .. m - 1 /\ d \in Nat /\ a = m * d + r
  BY DivMod
<1>. HIDE DEF d, r
<1>0. a = m * q + x
  BY DEF Divided
<1>2. \A b, c \in Nat : b >= c + 1 => m * b >= m * c + m
  OBVIOUS
<1>3. m * d \in Nat /\ m * q \in Nat
  BY <1>1
<1>4. ~(d >= q + 1) /\ ~(q >= d + 1)
  <2>1. d >= q + 1 => m * d >= m * q + m
    BY <1>1, <1>2
  <2>2. q >= d + 1 => m * q >= m * d + m
    BY <1>1, <1>2
  <2>. QED BY <1>0, <1>1, <1>3, <2>1, <2>2
<1>5. d = q
  BY <1>1, <1>4
<1>6. r = x
  BY <1>0, <1>1, <1>3, <1>5
<1>. QED BY <1>6 DEF r

LEMMA ModNext ==
  ASSUME NEW m \in Nat \ {0}, NEW a \in Nat
  PROVE  (a + 1) % m = (IF a % m = m - 1 THEN 0 ELSE (a % m) + 1) /\ a % m \in 0 .. m - 1
<1> DEFINE d == a \div m
           r == a % m
<1>1. r \in 0 .. m - 1 /\ d \in Nat /\ a = m * d + r
  BY DivMod
<1>. HIDE DEF d, r
<1>2. m * d \in Nat /\ m * (d + 1) = m * d + m
  BY <1>1
<1>3. CASE r = m - 1
  <2>1. Divided(a + 1, m, d + 1, 0) /\ d + 1 \in Nat /\ 0 \in 0 .. m - 1
    BY <1>1, <1>2, <1>3 DEF Divided
  <2>2. (a + 1) % m = 0
    BY <2>1, ModIs
  <2>. QED BY <1>1, <1>3, <2>2 DEF r
<1>4. CASE r # m - 1
  <2> DEFINE x == r + 1
             k == a + 1
  <2>1. Divided(k, m, d, x) /\ x \in 0 .. m - 1 /\ k \in Nat
    BY <1>1, <1>2, <1>4 DEF Divided
  <2>. HIDE DEF x, k
  <2>2. k % m = x
    BY <1>1, <2>1, ModIs
  <2>. QED BY <1>1, <1>4, <2>2 DEF r, x, k
<1>. QED BY <1>3, <1>4

LEMMA ModWhole ==
  ASSUME NEW m \in Nat \ {0}, NEW x \in 0 .. m - 1
  PROVE  (m + x) % m = x /\ x % m = x
<1>1. Divided(m + x, m, 1, x) /\ Divided(x, m, 0, x)
  BY DEF Divided
<1>2. (m + x) % m = x
  BY <1>1, ModIs
<1>3. x % m = x
  BY <1>1, ModIs
<1>. QED BY <1>2, <1>3

(* Going back from a by less than m.                                       *)
Back(r, i, m) == IF r >= i THEN r - i ELSE r - i + m
LEMMA ModBack ==
  ASSUME NEW m \in Nat \ {0}, NEW a \in Nat, NEW i \in 0 .. m - 1, i <= a
  PROVE  (a - i) % m = Back(a % m, i, m) /\ a % m \in 0 .. m - 1
<1> DEFINE d == a \div m
           r == a % m
<1>1. r \in 0 .. m - 1 /\ d \in Nat /\ a = m * d + r
  BY DivMod
<1>. HIDE DEF d, r
<1>2. m * d \in Nat
  BY <1>1
<1>3. CASE r >= i
  <2>1. Divided(a - i, m, d, r - i) /\ r - i \in 0 .. m - 1 /\ a - i \in Nat
    BY <1>1, <1>2, <1>3 DEF Divided
  <2>2. (a - i) % m = r - i
    BY <1>1, <2>1, ModIs
  <2>. QED BY <1>1, <1>3, <2>2 DEF r, Back
<1>4. CASE ~(r >= i)
  <2>1. d # 0
    <3>1. d = 0 => m * d = 0
      OBVIOUS
    <3>. QED BY <1>1, <1>4, <3>1
  <2>2. d - 1 \in Nat /\ m * (d - 1) = m * d - m
    BY <1>1, <2>1
  <2>3. Divided(a - i, m, d - 1, r - i + m) /\ r - i + m \in 0 .. m - 1 /\ a - i \in Nat
    BY <1>1, <1>2, <1>4, <2>2 DEF Divided
  <2>4. (a - i) % m = r - i + m
    BY <2>2, <2>3, ModIs
  <2>. QED BY <1>1, <1>4, <2>4 DEF r, Back
<1>. QED BY <1>3, <1>4

-----------------------------------------------------------------------------
(* The shell's ring of lines against the paper.                            *)
ShellChars == Typeable \cup {Newline, Prompt} \cup UNION {Range(t) : t \in Outputs}
ShellLines == [0 .. SHELL_ROWS - 1 -> Seq(ShellChars)]
RingTyped(r) == r = [n |-> r.n, lines |-> r.lines] /\ r.n \in Nat /\ r.lines \in ShellLines
PaperTyped(p) == p \in Seq(Seq(ShellChars)) /\ Len(p) \in 1 .. SHELL_ROWS

(* r holds the lines of p, the last of which is not full.                  *)
Holds(r, p) ==
  /\ RingTyped(r) /\ PaperTyped(p) /\ Len(p) <= r.n + 1
  /\ \A i \in 0 .. Len(p) - 1 : r.lines[(r.n - i) % SHELL_ROWS] = p[Len(p) - i]

RowIs(r) == r.n % SHELL_ROWS

(* From the row after a, one more back is the same row.                    *)
LEMMA BackNext ==
  ASSUME NEW m \in Nat \ {0}, NEW a \in 0 .. m - 1, NEW b, b = IF a = m - 1 THEN 0 ELSE a + 1,
         NEW i \in 1 .. m - 1
  PROVE  Back(b, i, m) = Back(a, i - 1, m) /\ Back(b, i, m) \in 0 .. m - 1 /\ Back(b, i, m) # b
<1>1. CASE a = m - 1
  BY <1>1 DEF Back
<1>2. CASE a # m - 1
  BY <1>2 DEF Back
<1>. QED BY <1>1, <1>2

LEMMA HoldsLast ==
  ASSUME NEW r, NEW p, Holds(r, p)
  PROVE  /\ RowIs(r) \in 0 .. SHELL_ROWS - 1 /\ r.lines[RowIs(r)] = p[Len(p)] /\ p[Len(p)] \in Seq(ShellChars)
         /\ Len(p) \in 1 .. SHELL_ROWS /\ Len(p) \in 1 .. Len(p) /\ SHELL_ROWS \in Nat \ {0} /\ r.n \in Nat
<1>1. SHELL_ROWS \in Nat \ {0} /\ r.n \in Nat /\ p \in Seq(Seq(ShellChars)) /\ Len(p) \in 1 .. SHELL_ROWS
  BY ShellSizes DEF Holds, RingTyped, PaperTyped
<1>2. RowIs(r) \in 0 .. SHELL_ROWS - 1
  BY <1>1, DivMod DEF RowIs
<1>3. Len(p) \in 1 .. Len(p) /\ 0 \in 0 .. Len(p) - 1 /\ r.n - 0 = r.n /\ Len(p) - 0 = Len(p)
  BY <1>1
<1>4. r.lines[(r.n - 0) % SHELL_ROWS] = p[Len(p) - 0]
  BY <1>3 DEF Holds
<1>. QED BY <1>1, <1>2, <1>3, <1>4 DEF RowIs

(* One more character on the last line.                                    *)
Longer(r, p, c, s, q) == s = [r EXCEPT !.lines[RowIs(r)] = Append(@, c)] /\ q = [p EXCEPT ![Len(p)] = Append(@, c)]

LEMMA HoldsMore ==
  ASSUME NEW r, NEW p, Holds(r, p), NEW c \in ShellChars, NEW s, NEW q, Longer(r, p, c, s, q)
  PROVE  /\ Holds(s, q) /\ s.n = r.n /\ Len(q) = Len(p) /\ q[Len(q)] = Append(p[Len(p)], c)
         /\ s.lines[RowIs(r)] = q[Len(q)]
<1> DEFINE m == SHELL_ROWS
           n == Len(p)
           at == RowIs(r)
           u == Append(p[n], c)
<1>0. s = [r EXCEPT !.lines[at] = Append(@, c)] /\ q = [p EXCEPT ![n] = Append(@, c)]
  BY DEF Longer
<1>1. /\ at \in 0 .. m - 1 /\ r.lines[at] = p[n] /\ p[n] \in Seq(ShellChars)
      /\ n \in 1 .. m /\ n \in 1 .. n /\ m \in Nat \ {0} /\ r.n \in Nat
  BY HoldsLast
<1>2. r = [n |-> r.n, lines |-> r.lines] /\ r.lines \in ShellLines /\ p \in Seq(Seq(ShellChars)) /\ n <= r.n + 1
  BY DEF Holds, RingTyped, PaperTyped
<1>3. u \in Seq(ShellChars)
  BY <1>1, AppendProperties
<1>4. s.n = r.n /\ s.lines = [r.lines EXCEPT ![at] = u] /\ s = [n |-> s.n, lines |-> s.lines]
  <2>1. s = [n |-> r.n, lines |-> [r.lines EXCEPT ![at] = Append(r.lines[at], c)]]
    BY <1>0, <1>2
  <2>2. Append(r.lines[at], c) = u
    BY <1>1
  <2>. HIDE DEF u, at
  <2>3. s = [n |-> r.n, lines |-> [r.lines EXCEPT ![at] = u]]
    BY <2>1, <2>2, Zenon
  <2> DEFINE v == [r.lines EXCEPT ![at] = u]
  <2>4. s = [n |-> r.n, lines |-> v]
    BY <2>3
  <2>. HIDE DEF v
  <2>5. s.n = r.n /\ s.lines = v
    BY ONLY <2>4
  <2>6. s = [n |-> s.n, lines |-> s.lines]
    BY ONLY <2>4, <2>5, Zenon
  <2>. QED BY <2>5, <2>6 DEF v
<1>5. q = [p EXCEPT ![n] = u]
  BY <1>0
<1>. HIDE DEF u, at, n, m
<1>6. q \in Seq(Seq(ShellChars)) /\ Len(q) = n /\ q[n] = u /\ \A k \in 1 .. n : k # n => q[k] = p[k]
  <2>1. Len(p) = n
    BY DEF n
  <2>. QED BY <1>1, <1>2, <1>3, <1>5, <2>1
<1>7. s.lines \in ShellLines /\ s.lines[at] = u /\ \A k \in 0 .. m - 1 : k # at => s.lines[k] = r.lines[k]
  BY <1>1, <1>2, <1>3, <1>4 DEF ShellLines, m
<1>8. ASSUME NEW i \in 0 .. n - 1 PROVE s.lines[(r.n - i) % m] = q[n - i]
  <2>1. r.lines[(r.n - i) % m] = p[n - i]
    BY <1>8 DEF Holds, m, n
  <2>2. i \in 0 .. m - 1 /\ i <= r.n /\ n - i \in 1 .. n
    <3>1. n \in 1 .. m /\ m \in Nat /\ r.n \in Nat /\ n <= r.n + 1
      BY <1>1, <1>2
    <3>. QED BY ONLY <1>8, <3>1
  <2>3. (r.n - i) % m = Back(at, i, m)
    BY <1>1, <2>2, ModBack DEF at, RowIs, m
  <2>4. CASE i = 0
    <3>1. (r.n - i) % m = at /\ n - i = n
      BY <1>1, <2>3, <2>4 DEF Back
    <3>. QED BY <1>6, <1>7, <3>1
  <2>5. CASE i # 0
    <3>1. (r.n - i) % m \in 0 .. m - 1 /\ (r.n - i) % m # at /\ n - i # n
      <4>1. at \in 0 .. m - 1 /\ m \in Nat \ {0} /\ n \in Nat
        BY <1>1
      <4>2. Back(at, i, m) \in 0 .. m - 1 /\ Back(at, i, m) # at /\ n - i # n
        BY ONLY <4>1, <2>2, <2>5, i \in 0 .. n - 1 DEF Back
      <4>. QED BY <2>3, <4>2
    <3>. QED BY <1>6, <1>7, <2>1, <2>2, <3>1
  <2>. QED BY <2>4, <2>5
<1>9. Holds(s, q)
  <2>1. \A i \in 0 .. Len(q) - 1 : s.lines[(s.n - i) % SHELL_ROWS] = q[Len(q) - i]
    BY <1>4, <1>6, <1>8 DEF m
  <2>2. RingTyped(s) /\ PaperTyped(q) /\ Len(q) <= s.n + 1
    BY <1>1, <1>2, <1>4, <1>6, <1>7 DEF RingTyped, PaperTyped, m
  <2>. QED BY <2>1, <2>2 DEF Holds
<1>10. q[Len(q)] = Append(p[Len(p)], c) /\ Len(q) = Len(p) /\ s.lines[RowIs(r)] = q[Len(q)]
  <2>1. q[Len(q)] = u /\ s.lines[at] = u /\ Len(q) = n
    BY <1>6, <1>7
  <2>. QED BY <2>1 DEF u, n, at
<1>. QED BY <1>4, <1>9, <1>10

LEMMA FeedIs ==
  ASSUME NEW p, PaperTyped(p)
  PROVE  /\ PaperTyped(Feed(p)) /\ Feed(p)[Len(Feed(p))] = <<>>
         /\ Len(Feed(p)) = (IF Len(p) < SHELL_ROWS THEN Len(p) + 1 ELSE Len(p))
         /\ \A i \in 1 .. Len(Feed(p)) - 1 : Feed(p)[Len(Feed(p)) - i] = p[Len(p) - (i - 1)]
<1> DEFINE m == SHELL_ROWS
           t == IF Len(p) < m THEN p ELSE Tail(p)
           f == Append(t, <<>>)
<1>1. m \in Nat \ {0} /\ p \in Seq(Seq(ShellChars)) /\ Len(p) \in 1 .. m /\ <<>> \in Seq(ShellChars)
  BY ShellSizes DEF PaperTyped
<1>2. t \in Seq(Seq(ShellChars)) /\ Len(t) = (IF Len(p) < m THEN Len(p) ELSE Len(p) - 1)
      /\ \A k \in 1 .. Len(t) : t[k] = IF Len(p) < m THEN p[k] ELSE p[k + 1]
  <2>1. CASE Len(p) < m
    BY <1>1, <2>1
  <2>2. CASE ~(Len(p) < m)
    <3>1. p # <<>>
      BY <1>1
    <3>2. Tail(p) \in Seq(Seq(ShellChars)) /\ Len(Tail(p)) = Len(p) - 1 /\ \A k \in 1 .. Len(Tail(p)) : Tail(p)[k] = p[k + 1]
      BY <1>1, <3>1, HeadTailProperties
    <3>3. t = Tail(p)
      BY <2>2
    <3>. HIDE DEF t, m
    <3>. QED BY <2>2, <3>2, <3>3
  <2>. QED BY <2>1, <2>2
<1>3. Feed(p) = f
  BY DEF Feed
<1>. HIDE DEF t
<1>4. f \in Seq(Seq(ShellChars)) /\ Len(f) = Len(t) + 1 /\ f[Len(t) + 1] = <<>> /\ \A k \in 1 .. Len(t) : f[k] = t[k]
  BY <1>1, <1>2, AppendProperties
<1>. HIDE DEF f, m
<1>5. Len(f) \in 1 .. m /\ Len(f) = (IF Len(p) < m THEN Len(p) + 1 ELSE Len(p))
  BY <1>1, <1>2, <1>4
<1>6. ASSUME NEW i \in 1 .. Len(f) - 1 PROVE f[Len(f) - i] = p[Len(p) - (i - 1)]
  <2>1. Len(f) - i \in 1 .. Len(t)
    BY <1>1, <1>4, <1>5
  <2>2. f[Len(f) - i] = IF Len(p) < m THEN p[Len(f) - i] ELSE p[(Len(f) - i) + 1]
    BY <1>2, <1>4, <2>1
  <2>3. IF Len(p) < m THEN Len(f) - i = Len(p) - (i - 1) ELSE (Len(f) - i) + 1 = Len(p) - (i - 1)
    BY <1>1, <1>5
  <2>. QED BY <2>2, <2>3
<1>7. PaperTyped(f)
  BY <1>4, <1>5 DEF PaperTyped, m
<1>8. f[Len(f)] = <<>>
  BY <1>4
<1>. QED BY <1>3, <1>5, <1>6, <1>7, <1>8 DEF m

(* A line ends, and the next begins.                                       *)
LEMMA HoldsNext ==
  ASSUME NEW r, NEW p, Holds(r, p)
  PROVE  Holds(NextLine(r), Feed(p)) /\ Feed(p)[Len(Feed(p))] = <<>>
<1> DEFINE m == SHELL_ROWS
           n == IF r.n + 1 > LineLimit THEN m + ((r.n + 1) % m) ELSE r.n + 1
           at == n % m
           f == Feed(p)
           s == NextLine(r)
           x == (r.n + 1) % m
<1>1. /\ m \in Nat \ {0} /\ r.n \in Nat /\ RowIs(r) \in 0 .. m - 1 /\ Len(p) \in 1 .. m
      /\ PaperTyped(p) /\ r.lines \in ShellLines /\ Len(p) <= r.n + 1 /\ r = [n |-> r.n, lines |-> r.lines]
  BY HoldsLast DEF Holds, RingTyped
<1>2. /\ PaperTyped(f) /\ f[Len(f)] = <<>> /\ Len(f) = (IF Len(p) < m THEN Len(p) + 1 ELSE Len(p))
      /\ \A i \in 1 .. Len(f) - 1 : f[Len(f) - i] = p[Len(p) - (i - 1)]
  BY <1>1, FeedIs
<1>. HIDE DEF f
<1>3. x = (IF RowIs(r) = m - 1 THEN 0 ELSE RowIs(r) + 1) /\ x \in 0 .. m - 1
  <2>1. x = IF r.n % m = m - 1 THEN 0 ELSE (r.n % m) + 1
    BY <1>1, ModNext
  <2>. HIDE DEF x, m
  <2>. QED BY <1>1, <2>1 DEF RowIs, m
<1>4. n \in Nat /\ at = x /\ n >= Len(p) /\ n + 1 >= Len(f)
  <2>1. CASE r.n + 1 > LineLimit
    <3>1. n = m + x
      BY <2>1
    <3>. HIDE DEF n, x, m
    <3>2. (m + x) % m = x
      BY <1>1, <1>3, ModWhole
    <3>3. n % m = x
      BY <3>1, <3>2
    <3>4. Len(f) \in Nat /\ Len(f) <= m
      BY <1>1, <1>2 DEF PaperTyped, m
    <3>5. m \in Nat /\ x \in Nat /\ Len(p) \in Nat /\ Len(p) <= m
      BY <1>1, <1>3
    <3>6. n \in Nat /\ n >= Len(p) /\ n + 1 >= Len(f)
      BY ONLY <3>1, <3>4, <3>5
    <3>. QED BY <3>3, <3>6
  <2>2. CASE ~(r.n + 1 > LineLimit)
    <3>1. n = r.n + 1
      BY <2>2
    <3>2. at = x
      BY <3>1, Zenon
    <3>. HIDE DEF n, x, at, m
    <3>. QED BY <1>1, <1>2, <3>1, <3>2
  <2>. QED BY <2>1, <2>2
<1>5. s = [n |-> n, lines |-> [r.lines EXCEPT ![at] = <<>>]]
  BY DEF NextLine
<1>. HIDE DEF n, at, x, s
<1>6. s.n = n /\ s.lines = [r.lines EXCEPT ![at] = <<>>] /\ s = [n |-> s.n, lines |-> s.lines]
  BY <1>5
<1>7. s.lines \in ShellLines /\ s.lines[at] = <<>> /\ \A k \in 0 .. m - 1 : k # at => s.lines[k] = r.lines[k]
  <2>1. <<>> \in Seq(ShellChars) /\ at \in 0 .. m - 1
    BY <1>3, <1>4
  <2>. QED BY <1>1, <1>6, <2>1 DEF ShellLines
<1>. HIDE DEF m
<1>8. ASSUME NEW i \in 0 .. Len(f) - 1 PROVE s.lines[(n - i) % m] = f[Len(f) - i]
  <2>0. Len(f) \in 1 .. m
    BY <1>2 DEF PaperTyped, m
  <2>1. i \in 0 .. m - 1 /\ i <= n
    BY <1>1, <1>4, <2>0
  <2>2. (n - i) % m = Back(at, i, m)
    BY <1>1, <1>4, <2>1, ModBack DEF at
  <2>3. CASE i = 0
    <3>1. (n - i) % m = at /\ Len(f) - i = Len(f)
      BY <1>1, <1>3, <1>4, <2>0, <2>2, <2>3 DEF Back
    <3>. QED BY <1>2, <1>7, <3>1
  <2>4. CASE i # 0
    <3> DEFINE j == i - 1
    <3>1. j \in 0 .. Len(p) - 1 /\ j \in 0 .. m - 1 /\ j <= r.n /\ i \in 1 .. Len(f) - 1
      BY <1>1, <1>2, <2>0, <2>1, <2>4
    <3>2. f[Len(f) - i] = p[Len(p) - j]
      BY <1>2, <3>1
    <3>. HIDE DEF j
    <3>3. (r.n - j) % m = Back(RowIs(r), j, m)
      <4>1. m \in Nat \ {0} /\ r.n \in Nat
        BY <1>1
      <4>2. (r.n - j) % m = Back(r.n % m, j, m)
        BY <3>1, <4>1, ModBack
      <4>. QED BY <4>2 DEF RowIs, m
    <3>4. r.lines[(r.n - j) % m] = p[Len(p) - j]
      BY <3>1 DEF Holds, m
    <3>5. /\ Back(at, i, m) = Back(RowIs(r), j, m)
          /\ Back(at, i, m) \in 0 .. m - 1 /\ Back(at, i, m) # at
      <4> DEFINE c == RowIs(r)
      <4>1. m \in Nat \ {0} /\ c \in 0 .. m - 1 /\ at = IF c = m - 1 THEN 0 ELSE c + 1
        BY <1>1, <1>3, <1>4
      <4>2. i \in 1 .. m - 1 /\ j = i - 1
        BY <2>1, <2>4 DEF j
      <4>. HIDE DEF c
      <4>3. Back(at, i, m) = Back(c, i - 1, m) /\ Back(at, i, m) \in 0 .. m - 1 /\ Back(at, i, m) # at
        BY <4>1, <4>2, BackNext
      <4>. QED BY <4>2, <4>3 DEF c
    <3>7. s.lines[Back(at, i, m)] = r.lines[Back(at, i, m)]
      BY <1>7, <3>5
    <3>. QED BY <2>2, <3>2, <3>3, <3>4, <3>5, <3>7
  <2>. QED BY <2>3, <2>4
<1>9. Holds(s, f)
  <2>1. \A i \in 0 .. Len(f) - 1 : s.lines[(s.n - i) % SHELL_ROWS] = f[Len(f) - i]
    BY <1>6, <1>8 DEF m
  <2>2. Len(f) \in 1 .. m
    BY <1>2 DEF PaperTyped, m
  <2>3. RingTyped(s) /\ Len(f) <= s.n + 1
    BY <1>1, <1>4, <1>6, <1>7, <2>2 DEF RingTyped
  <2>. QED BY <1>2, <2>1, <2>3 DEF Holds
<1>. QED BY <1>2, <1>9 DEF s, f

-----------------------------------------------------------------------------
(* The shell: text that is printed, character by character.                *)
Free(r, p) == Holds(r, p) /\ Len(p[Len(p)]) < SHELL_COLS
Rings == [ring : [n : Nat, lines : ShellLines], full : BOOLEAN]
Papers == [paper : Seq(Seq(ShellChars)), full : BOOLEAN]
Pairs == {q \in Rings \X Papers : Free(q[1].ring, q[2].paper) /\ q[1].full = q[2].full}

LEMMA PairIs ==
  ASSUME NEW r, NEW p, Free(r, p), NEW full \in BOOLEAN
  PROVE  <<[ring |-> r, full |-> full], [paper |-> p, full |-> full]>> \in Pairs
<1>1. r \in [n : Nat, lines : ShellLines] /\ p \in Seq(Seq(ShellChars))
  BY DEF Free, Holds, RingTyped, PaperTyped
<1>2. [ring |-> r, full |-> full] \in Rings /\ [paper |-> p, full |-> full] \in Papers
  BY <1>1 DEF Rings, Papers
<1> DEFINE a == [ring |-> r, full |-> full]
           b == [paper |-> p, full |-> full]
<1>3. a.ring = r /\ b.paper = p /\ a.full = b.full
  OBVIOUS
<1>. HIDE DEF a, b
<1>4. a \in Rings /\ b \in Papers
  BY <1>2 DEF a, b
<1>5. <<a, b>> \in Rings \X Papers /\ <<a, b>>[1] = a /\ <<a, b>>[2] = b
  BY <1>4
<1>6. Free(a.ring, b.paper)
  BY <1>3
<1>7. <<a, b>> \in Pairs
  BY <1>3, <1>5, <1>6 DEF Pairs
<1>. QED BY <1>7 DEF a, b

LEMMA NextFree ==
  ASSUME NEW r, NEW p, Holds(r, p) PROVE Free(NextLine(r), Feed(p))
<1>1. Holds(NextLine(r), Feed(p)) /\ Feed(p)[Len(Feed(p))] = <<>>
  BY HoldsNext
<1>2. Len(<<>>) < SHELL_COLS
  BY ShellSizes
<1>3. Len(Feed(p)[Len(Feed(p))]) < SHELL_COLS
  BY <1>1, <1>2, Zenon
<1>. QED BY <1>1, <1>3 DEF Free

LEMMA PutSame ==
  ASSUME NEW a, NEW b, <<a, b>> \in Pairs, NEW c \in ShellChars
  PROVE  <<Put(a, c), PutOnPaper(b, c)>> \in Pairs
<1>1. Free(a.ring, b.paper) /\ a.full = b.full /\ a.full \in BOOLEAN
  <2>1. a \in Rings /\ <<a, b>>[1] = a /\ <<a, b>>[2] = b
    BY DEF Pairs
  <2>2. Free(<<a, b>>[1].ring, <<a, b>>[2].paper) /\ <<a, b>>[1].full = <<a, b>>[2].full
    BY DEF Pairs
  <2>. QED BY <2>1, <2>2 DEF Rings
<1> DEFINE r == a.ring
           p == b.paper
           at == r.n % SHELL_ROWS
           s == [r EXCEPT !.lines[at] = Append(@, c)]
           q == [p EXCEPT ![Len(p)] = Append(@, c)]
<1>2. Free(r, p) /\ Holds(r, p)
  BY <1>1 DEF Free
<1>3. CASE c = Newline /\ a.full
  <2>1. Put(a, c) = [ring |-> r, full |-> FALSE] /\ PutOnPaper(b, c) = [paper |-> p, full |-> FALSE]
    BY <1>1, <1>3 DEF Put, PutOnPaper
  <2>. HIDE DEF r, p
  <2>2. <<[ring |-> r, full |-> FALSE], [paper |-> p, full |-> FALSE]>> \in Pairs
    BY <1>2, PairIs
  <2>. QED BY <2>1, <2>2, Zenon
<1>4. CASE c = Newline /\ ~a.full
  <2>1. Put(a, c) = [ring |-> NextLine(r), full |-> FALSE] /\ PutOnPaper(b, c) = [paper |-> Feed(p), full |-> FALSE]
    BY <1>1, <1>4 DEF Put, PutOnPaper
  <2>. HIDE DEF r, p
  <2>2. Free(NextLine(r), Feed(p))
    BY <1>2, NextFree
  <2>3. <<[ring |-> NextLine(r), full |-> FALSE], [paper |-> Feed(p), full |-> FALSE]>> \in Pairs
    BY <2>2, PairIs
  <2>. QED BY <2>1, <2>3, Zenon
<1>5. CASE c # Newline
  <2>1. Put(a, c) = IF Len(s.lines[at]) >= SHELL_COLS THEN [ring |-> NextLine(s), full |-> TRUE] ELSE [ring |-> s, full |-> FALSE]
    BY <1>5 DEF Put
  <2>2. PutOnPaper(b, c) = IF Len(Last(q)) = SHELL_COLS THEN [paper |-> Feed(q), full |-> TRUE] ELSE [paper |-> q, full |-> FALSE]
    BY <1>5 DEF PutOnPaper
  <2>3. RowIs(r) = at
    BY DEF RowIs
  <2>4. Longer(r, p, c, s, q)
    BY DEF RowIs, Longer
  <2>. HIDE DEF r, p, s, q, at
  <2>5. Holds(s, q) /\ q[Len(q)] = Append(p[Len(p)], c) /\ s.lines[RowIs(r)] = q[Len(q)] /\ Len(q) = Len(p)
    BY <1>2, <2>4, HoldsMore
  <2>6. p[Len(p)] \in Seq(ShellChars) /\ Len(p[Len(p)]) < SHELL_COLS
    BY <1>2, HoldsLast DEF Free
  <2>7. Len(Append(p[Len(p)], c)) = Len(p[Len(p)]) + 1 /\ Len(p[Len(p)]) \in Nat
    BY <2>6, AppendProperties
  <2> DEFINE k == Len(q[Len(q)])
  <2>8. Last(q) = q[Len(q)]
    BY DEF Last
  <2>9. Len(Last(q)) = k /\ Len(s.lines[at]) = k
    BY <2>3, <2>5, <2>8
  <2>10. k \in Nat /\ k <= SHELL_COLS /\ SHELL_COLS \in Nat
    <3>1. SHELL_COLS \in Nat
      BY ShellSizes
    <3>. QED BY <2>5, <2>6, <2>7, <3>1
  <2>. HIDE DEF k
  <2>11. CASE k = SHELL_COLS
    <3>1. Put(a, c) = [ring |-> NextLine(s), full |-> TRUE] /\ PutOnPaper(b, c) = [paper |-> Feed(q), full |-> TRUE]
      BY <2>1, <2>2, <2>9, <2>10, <2>11
    <3>2. Free(NextLine(s), Feed(q))
      BY <2>5, NextFree
    <3>3. <<[ring |-> NextLine(s), full |-> TRUE], [paper |-> Feed(q), full |-> TRUE]>> \in Pairs
      BY <3>2, PairIs
    <3>. QED BY <3>1, <3>3, Zenon
  <2>12. CASE k # SHELL_COLS
    <3>1. Put(a, c) = [ring |-> s, full |-> FALSE] /\ PutOnPaper(b, c) = [paper |-> q, full |-> FALSE]
      BY <2>1, <2>2, <2>9, <2>10, <2>12
    <3>2. Free(s, q)
      BY <2>5, <2>10, <2>12 DEF Free, k
    <3>3. <<[ring |-> s, full |-> FALSE], [paper |-> q, full |-> FALSE]>> \in Pairs
      BY <3>2, PairIs
    <3>. QED BY <3>1, <3>3, Zenon
  <2>. QED BY <2>11, <2>12
<1>. QED BY <1>3, <1>4, <1>5

(* A whole text, on the screen's ring and on paper.                        *)
LEMMA PrintedSame ==
  ASSUME NEW r, NEW p, Free(r, p), NEW t \in Seq(ShellChars)
  PROVE  Free(Printed(r, t), OnPaper(p, t))
<1> DEFINE n == Len(t)
           x0 == [ring |-> r, full |-> FALSE]
           y0 == [paper |-> p, full |-> FALSE]
           F(h) == [i \in 0 .. Len(t) |-> IF i = 0 THEN [ring |-> r, full |-> FALSE] ELSE Put(h[i - 1], t[i])]
           G(h) == [i \in 0 .. Len(t) |-> IF i = 0 THEN [paper |-> p, full |-> FALSE] ELSE PutOnPaper(h[i - 1], t[i])]
           step == [q \in Pairs \X (1 .. n) |-> <<Put(q[1][1], t[q[2]]), PutOnPaper(q[1][2], t[q[2]])>>]
<1>0. n \in Nat /\ \A i \in 1 .. n : t[i] \in ShellChars
  OBVIOUS
<1>1. <<x0, y0>> \in Pairs
  BY PairIs
<1>2. ASSUME NEW q \in Pairs, NEW i \in 1 .. n
      PROVE  <<Put(q[1], t[i]), PutOnPaper(q[2], t[i])>> \in Pairs
  <2>1. q = <<q[1], q[2]>>
    BY DEF Pairs
  <2>2. <<q[1], q[2]>> \in Pairs
    BY <2>1
  <2>. QED BY <1>0, <2>2, PutSame
<1>3. Steps(step, Pairs, n)
  <2>1. \A q \in Pairs \X (1 .. n) : <<Put(q[1][1], t[q[2]]), PutOnPaper(q[1][2], t[q[2]])>> \in Pairs
    BY <1>2
  <2>. QED BY <2>1 DEF Steps
<1>4. \A q \in Pairs, i \in 1 .. n : step[<<q, i>>] = <<Put(q[1], t[i]), PutOnPaper(q[2], t[i])>>
  OBVIOUS
<1>5. PICK f : Goes(f, Pairs, <<x0, y0>>, step, n)
  <2> DEFINE start == <<x0, y0>>
  <2>1. start \in Pairs
    BY <1>1
  <2>. HIDE DEF n, step, start
  <2>2. \E f : Goes(f, Pairs, start, step, n)
    BY ONLY <1>0, <1>3, <2>1, Recursion
  <2>. QED BY <2>2 DEF start
<1>6. f \in [0 .. n -> Pairs] /\ f[0] = <<x0, y0>> /\ \A i \in 1 .. n : f[i] = step[<<f[i - 1], i>>]
  BY <1>5 DEF Goes
<1>. HIDE DEF step
<1>7. ASSUME NEW i \in 1 .. n PROVE f[i] = <<Put(f[i - 1][1], t[i]), PutOnPaper(f[i - 1][2], t[i])>>
  <2>1. i - 1 \in 0 .. n
    BY <1>0
  <2>2. f[i - 1] \in Pairs
    BY <1>6, <2>1
  <2>. QED BY <1>4, <1>6, <2>2
<1> DEFINE h == [i \in 0 .. n |-> f[i][1]]
           k == [i \in 0 .. n |-> f[i][2]]
<1>8. h[0] = x0 /\ k[0] = y0
  <2>1. 0 \in 0 .. n
    BY <1>0
  <2>. HIDE DEF x0, y0, n
  <2>2. f[0][1] = x0 /\ f[0][2] = y0
    BY <1>6
  <2>. QED BY <2>1, <2>2
<1>9. ASSUME NEW i \in 1 .. n PROVE h[i] = Put(h[i - 1], t[i]) /\ k[i] = PutOnPaper(k[i - 1], t[i])
  <2>1. i - 1 \in 0 .. n /\ i \in 0 .. n
    BY <1>0
  <2>2. h[i] = f[i][1] /\ h[i - 1] = f[i - 1][1] /\ k[i] = f[i][2] /\ k[i - 1] = f[i - 1][2]
    BY <2>1
  <2>. HIDE DEF h, k
  <2>3. f[i][1] = Put(f[i - 1][1], t[i]) /\ f[i][2] = PutOnPaper(f[i - 1][2], t[i])
    BY <1>7
  <2>. QED BY <2>2, <2>3
<1>10. DOMAIN h = 0 .. n /\ DOMAIN k = 0 .. n /\ h = [i \in 0 .. n |-> h[i]] /\ k = [i \in 0 .. n |-> k[i]]
  OBVIOUS
<1>. HIDE DEF h, k
<1>11. h = F(h)
  <2>1. ASSUME NEW i \in 0 .. n PROVE h[i] = F(h)[i]
    <3>1. CASE i = 0
      BY <1>8, <3>1
    <3>2. CASE i # 0
      <4>1. i \in 1 .. n
        BY <1>0, <3>2
      <4>2. F(h)[i] = Put(h[i - 1], t[i])
        BY <3>2
      <4>. QED BY <1>9, <4>1, <4>2
    <3>. QED BY <3>1, <3>2
  <2>. QED BY <1>10, <2>1
<1>12. k = G(k)
  <2>1. ASSUME NEW i \in 0 .. n PROVE k[i] = G(k)[i]
    <3>1. CASE i = 0
      BY <1>8, <3>1
    <3>2. CASE i # 0
      <4>1. i \in 1 .. n
        BY <1>0, <3>2
      <4>2. G(k)[i] = PutOnPaper(k[i - 1], t[i])
        BY <3>2
      <4>. QED BY <1>9, <4>1, <4>2
    <3>. QED BY <3>1, <3>2
  <2>. QED BY <1>10, <2>1
<1> DEFINE g == CHOOSE g : g = F(g)
           l == CHOOSE l : l = G(l)
<1>13. Printed(r, t) = g[n].ring /\ OnPaper(p, t) = l[n].paper
  BY DEF Printed, OnPaper
<1>14. g = F(g) /\ l = G(l)
  BY <1>11, <1>12
<1>15. g[0] = x0 /\ \A i \in 1 .. n : g[i] = Put(g[i - 1], t[i])
  <2>1. ASSUME NEW e PROVE F(e)[0] = x0 /\ \A i \in 1 .. n : F(e)[i] = Put(e[i - 1], t[i])
    BY <1>0
  <2>. HIDE DEF g, F
  <2>. QED BY <1>14, <2>1
<1>16. l[0] = y0 /\ \A i \in 1 .. n : l[i] = PutOnPaper(l[i - 1], t[i])
  <2>1. ASSUME NEW e PROVE G(e)[0] = y0 /\ \A i \in 1 .. n : G(e)[i] = PutOnPaper(e[i - 1], t[i])
    BY <1>0
  <2>. HIDE DEF l, G
  <2>. QED BY <1>14, <2>1
<1>. HIDE DEF g, l, F, G, x0, y0
<1> DEFINE P == {i \in 0 .. n : g[i] = h[i] /\ l[i] = k[i]}
<1>17. n \in P
  <2>1. 0 \in P
    BY <1>0, <1>8, <1>15, <1>16
  <2>2. ASSUME NEW i \in 0 .. n - 1, i \in P PROVE i + 1 \in P
    <3>1. i + 1 \in 1 .. n /\ (i + 1) - 1 = i /\ i + 1 \in 0 .. n
      BY <1>0
    <3>2. g[i] = h[i] /\ l[i] = k[i]
      BY <2>2
    <3>. HIDE DEF n
    <3>3. g[i + 1] = Put(g[i], t[i + 1]) /\ h[i + 1] = Put(h[i], t[i + 1])
      BY <1>9, <1>15, <3>1
    <3>4. l[i + 1] = PutOnPaper(l[i], t[i + 1]) /\ k[i + 1] = PutOnPaper(k[i], t[i + 1])
      BY <1>9, <1>16, <3>1
    <3>5. g[i + 1] = h[i + 1] /\ l[i + 1] = k[i + 1]
      BY <3>2, <3>3, <3>4, Zenon
    <3>. QED BY <3>1, <3>5
  <2>0. n \in Nat
    BY <1>0
  <2>. HIDE DEF P, n
  <2>3. \A i \in 0 .. n - 1 : i \in P => i + 1 \in P
    BY <2>2
  <2>4. \A i \in 0 .. n : i \in P
    BY ONLY <2>0, <2>1, <2>3, UpTo0
  <2>. QED BY <2>0, <2>4
<1>18. f[n] \in Pairs /\ h[n] = f[n][1] /\ k[n] = f[n][2]
  BY <1>0, <1>6 DEF h, k
<1>19. Free(f[n][1].ring, f[n][2].paper)
  BY <1>18 DEF Pairs
<1>. QED BY <1>13, <1>17, <1>18, <1>19

-----------------------------------------------------------------------------
(* The ring of commands.                                                   *)
CommandLine == Seq(ShellChars)
RecallInv ==
  /\ cmdHist \in [0 .. SHELL_HISTORY - 1 -> CommandLine] /\ head \in 0 .. SHELL_HISTORY - 1
  /\ ran \in Seq(CommandLine) /\ count = Len(ran) /\ count <= SHELL_HISTORY /\ pos \in -1 .. count - 1
  /\ \A p \in 0 .. count - 1 : Recalled(p) = ran[p + 1]

(* The place p commands before the last one.                               *)
Behind(h, p) == IF h >= p + 1 THEN h - 1 - p ELSE (h - 1 - p) + SHELL_HISTORY
LEMMA BehindIs ==
  ASSUME NEW h \in 0 .. SHELL_HISTORY - 1, NEW p \in 0 .. SHELL_HISTORY - 1
  PROVE  ((h - 1 - p) + SHELL_HISTORY) % SHELL_HISTORY = Behind(h, p) /\ Behind(h, p) \in 0 .. SHELL_HISTORY - 1
<1> DEFINE m == SHELL_HISTORY
           x == Behind(h, p)
<1>0. m \in Nat \ {0}
  BY ShellSizes
<1>1. x \in 0 .. m - 1
  BY <1>0 DEF Behind
<1>2. (h - 1 - p) + m = (IF h >= p + 1 THEN m + x ELSE x)
  BY <1>0 DEF Behind
<1>. HIDE DEF x, m
<1>3. (m + x) % m = x /\ x % m = x
  BY <1>0, <1>1, ModWhole
<1>4. ((h - 1 - p) + m) % m = x
  BY <1>2, <1>3
<1>. QED BY <1>1, <1>4 DEF x, m

LEMMA BehindNext ==
  ASSUME NEW h \in 0 .. SHELL_HISTORY - 1
  PROVE  /\ (h + 1) % SHELL_HISTORY \in 0 .. SHELL_HISTORY - 1 /\ Behind((h + 1) % SHELL_HISTORY, 0) = h
         /\ \A p \in 1 .. SHELL_HISTORY - 1 :
              Behind((h + 1) % SHELL_HISTORY, p) = Behind(h, p - 1) /\ Behind(h, p - 1) # h
<1> DEFINE m == SHELL_HISTORY
           x == (h + 1) % m
<1>0. m \in Nat \ {0} /\ h \in Nat
  BY ShellSizes
<1>1. h % m = h
  BY <1>0, ModWhole
<1>2. x = IF h = m - 1 THEN 0 ELSE h + 1
  <2>1. (h + 1) % m = IF h % m = m - 1 THEN 0 ELSE (h % m) + 1
    BY <1>0, ModNext
  <2>. HIDE DEF m
  <2>. QED BY <1>1, <2>1
<1>. HIDE DEF x
<1>3. x \in 0 .. m - 1 /\ Behind(x, 0) = h
  BY <1>0, <1>2 DEF Behind
<1>4. ASSUME NEW p \in 1 .. m - 1 PROVE Behind(x, p) = Behind(h, p - 1) /\ Behind(h, p - 1) # h
  BY <1>0, <1>2 DEF Behind
<1>. QED BY <1>3, <1>4 DEF x, m

LEMMA RememberedKeeps ==
  ASSUME RecallInv, cmdInput \in CommandLine, Remembered
  PROVE  RecallInv'
<1> DEFINE m == SHELL_HISTORY
           all == <<cmdInput>> \o ran
           len == IF Len(ran) < m THEN Len(ran) + 1 ELSE m
<1>0. m \in Nat \ {0}
  BY ShellSizes
<1>1. /\ cmdHist \in [0 .. m - 1 -> CommandLine] /\ head \in 0 .. m - 1 /\ ran \in Seq(CommandLine)
      /\ count = Len(ran) /\ count <= m /\ \A p \in 0 .. count - 1 : Recalled(p) = ran[p + 1]
  BY DEF RecallInv
<1>2. /\ cmdHist' = [cmdHist EXCEPT ![head] = cmdInput] /\ head' = (head + 1) % m
      /\ count' = (IF count < m THEN count + 1 ELSE count) /\ pos' = -1 /\ ran' = SubSeq(all, 1, len)
  BY DEF Remembered
<1>3. all \in Seq(CommandLine) /\ Len(all) = Len(ran) + 1 /\ all[1] = cmdInput /\ \A k \in 1 .. Len(ran) : all[k + 1] = ran[k]
  <2>1. <<cmdInput>> \in Seq(CommandLine) /\ Len(<<cmdInput>>) = 1 /\ <<cmdInput>>[1] = cmdInput
    OBVIOUS
  <2> DEFINE one == <<cmdInput>>
  <2>2. one \in Seq(CommandLine) /\ Len(one) = 1 /\ one[1] = cmdInput /\ all = one \o ran
    BY <2>1
  <2>. HIDE DEF all, one
  <2>3. all \in Seq(CommandLine) /\ Len(all) = 1 + Len(ran) /\ \A k \in 1 .. Len(all) : all[k] = IF k <= 1 THEN one[k] ELSE ran[k - 1]
    BY <1>1, <2>2, ConcatProperties
  <2>4. Len(ran) \in Nat
    BY <1>1
  <2>5. ASSUME NEW k \in 1 .. Len(ran) PROVE all[k + 1] = ran[k]
    <3>1. k + 1 \in 1 .. Len(all) /\ ~(k + 1 <= 1) /\ (k + 1) - 1 = k
      BY <2>3, <2>4
    <3>2. all[k + 1] = ran[(k + 1) - 1]
      BY <2>3, <3>1
    <3>. QED BY <3>1, <3>2
  <2>. QED BY <2>2, <2>3, <2>4, <2>5
<1>. HIDE DEF all
<1>4. len \in Nat /\ len <= Len(ran) + 1 /\ len >= 1 /\ Len(ran) \in Nat /\ len <= m
  BY <1>0, <1>1
<1>5. ran' \in Seq(CommandLine) /\ Len(ran') = len /\ \A k \in 1 .. len : ran'[k] = all[k]
  <2>. HIDE DEF len
  <2>1. 1 \in 1 .. Len(all) + 1 /\ len \in 0 .. Len(all)
    BY <1>3, <1>4
  <2>. QED BY <1>2, <1>3, <1>4, <2>1, SubSeqProperties
<1>6. count' = Len(ran') /\ count' <= m /\ count' = len /\ pos' \in -1 .. count' - 1
  <2>1. count' = len
    BY <1>0, <1>1, <1>2
  <2>. HIDE DEF len
  <2>. QED BY <1>2, <1>4, <1>5, <2>1
<1>7. head' \in 0 .. m - 1 /\ Behind(head', 0) = head
      /\ \A p \in 1 .. m - 1 : Behind(head', p) = Behind(head, p - 1) /\ Behind(head, p - 1) # head
  <2>. HIDE DEF m
  <2>1. head \in 0 .. SHELL_HISTORY - 1 /\ head' = (head + 1) % SHELL_HISTORY
    BY <1>1, <1>2 DEF m
  <2>. QED BY <2>1, BehindNext DEF m
<1>8. cmdHist' \in [0 .. m - 1 -> CommandLine]
  BY <1>1, <1>2
<1>. HIDE DEF len
<1>9. ASSUME NEW p \in 0 .. count' - 1 PROVE Recalled(p)' = ran'[p + 1]
  <2>1. p \in 0 .. m - 1 /\ p + 1 \in 1 .. len
    BY <1>0, <1>4, <1>6
  <2>2. Recalled(p)' = cmdHist'[Behind(head', p)] /\ Behind(head', p) \in 0 .. m - 1
    BY <1>7, <2>1, BehindIs DEF Recalled, m
  <2>3. CASE p = 0
    <3>1. cmdHist'[head] = cmdInput
      BY <1>1, <1>2
    <3>2. Behind(head', p) = head /\ p + 1 = 1
      BY <1>7, <2>3
    <3>. QED BY <1>3, <1>5, <2>1, <2>2, <3>1, <3>2
  <2>4. CASE p # 0
    <3> DEFINE q == p - 1
    <3>1. q \in 0 .. count - 1 /\ q \in 0 .. m - 1 /\ p \in 1 .. m - 1 /\ p \in 1 .. Len(ran) /\ q + 1 = p
      BY <1>0, <1>1, <1>4, <1>6, <2>1, <2>4 DEF len
    <3>2. Behind(head', p) = Behind(head, q) /\ Behind(head, q) # head /\ Behind(head, q) \in 0 .. m - 1
      BY <1>1, <1>7, <2>2, <3>1
    <3>. HIDE DEF q
    <3>3. Recalled(q) = cmdHist[Behind(head, q)]
      BY <1>1, <3>1, BehindIs DEF Recalled, m
    <3>4. Recalled(q) = ran[p]
      BY <1>1, <3>1
    <3>5. cmdHist'[Behind(head, q)] = cmdHist[Behind(head, q)]
      BY <1>1, <1>2, <3>2
    <3>6. ran'[p + 1] = ran[p]
      BY <1>3, <1>5, <2>1, <3>1
    <3>. QED BY <2>2, <3>2, <3>3, <3>4, <3>5, <3>6
  <2>. QED BY <2>3, <2>4
<1>. QED BY <1>5, <1>6, <1>7, <1>8, <1>9 DEF RecallInv, m

-----------------------------------------------------------------------------
(* The shell's steps.                                                      *)
ReadChars == Typeable \cup {Newline, "erase"}
ShellKept == Free(ring, said) /\ cmdInput \in CommandLine /\ rx \in Seq(ReadChars) /\ RecallInv
ShellDrawn == ~dirty /\ screen = Drawn(ring, cmdInput, screen.mods) /\ (mods => screen.mods)
ShellInv ==
  /\ ShellKept
  /\ part = "shell" /\ app = "shell" /\ ~serial => ShellDrawn
  /\ part = "shell" /\ serial => dirty /\ app = "shell"

LEMMA RowsShown ==
  ASSUME NEW r, NEW p, Holds(r, p), NEW i \in 0 .. Len(p) - 1
  PROVE  ScreenRows(r)[SHELL_ROWS - i] = p[Len(p) - i]
<1>1. SHELL_ROWS \in Nat \ {0} /\ r.n \in Nat /\ Len(p) \in 1 .. SHELL_ROWS /\ Len(p) <= r.n + 1
  BY HoldsLast DEF Holds
<1> DEFINE k == SHELL_ROWS - i
           l == r.n - SHELL_ROWS + k
<1>2. k \in 1 .. SHELL_ROWS /\ l = r.n - i /\ l >= 0
  BY <1>1
<1>3. ScreenRows(r)[k] = IF l >= 0 THEN r.lines[l % SHELL_ROWS] ELSE <<>>
  <2>. HIDE DEF k
  <2>. QED BY <1>2 DEF ScreenRows
<1>. HIDE DEF l, k
<1>4. ScreenRows(r)[k] = r.lines[(r.n - i) % SHELL_ROWS]
  BY <1>2, <1>3
<1>. QED BY <1>4 DEF Holds, k

LEMMA ShellInvHolds == ShellInv => ShellShows
<1> SUFFICES ASSUME ShellInv, part = "shell" PROVE ShellTells /\ ShellRecalls
  BY DEF ShellShows
<1>1. Holds(ring, said)
  BY DEF ShellInv, ShellKept, Free
<1>2. ShellTells
  <2>1. app = "shell" /\ ~serial => ShellDrawn
    BY DEF ShellInv
  <2>2. app = "shell" /\ ~serial => screen.rows = ScreenRows(ring) /\ screen.cmdInput = cmdInput
    BY <2>1 DEF ShellDrawn, Drawn
  <2>. QED BY <1>1, <2>1, <2>2, RowsShown DEF ShellTells, ShellDrawn
<1>3. ShellRecalls
  BY DEF ShellInv, ShellKept, RecallInv, ShellRecalls
<1>. QED BY <1>2, <1>3

LEMMA PutsKeeps ==
  ASSUME Free(ring, said), NEW t \in Seq(ShellChars), Puts(t)
  PROVE  Free(ring', said')
BY PrintedSame DEF Puts

LEMMA OutputsAreText ==
  ASSUME NEW t \in Outputs, NEW u \in CommandLine
  PROVE  t \in Seq(ShellChars) /\ <<Prompt>> \o u \o <<Newline>> \o t \in Seq(ShellChars)
<1>1. t \in Seq(UNION {Range(s) : s \in Outputs}) /\ UNION {Range(s) : s \in Outputs} \subseteq ShellChars
  BY ShellSizes DEF ShellChars
<1> DEFINE C == UNION {Range(s) : s \in Outputs}
           a == <<Prompt>>
           b == <<Newline>>
<1>2. t \in Seq(C) /\ C \subseteq ShellChars
  BY <1>1
<1>3. a \in Seq(ShellChars) /\ b \in Seq(ShellChars) /\ u \in Seq(ShellChars)
  BY DEF ShellChars, CommandLine
<1>. HIDE DEF C, a, b
<1>4. t \in Seq(ShellChars)
  BY <1>2
<1>5. a \o u \in Seq(ShellChars)
  BY <1>3, ConcatProperties
<1>6. a \o u \o b \in Seq(ShellChars)
  BY <1>3, <1>5, ConcatProperties
<1>7. a \o u \o b \o t \in Seq(ShellChars)
  BY <1>4, <1>6, ConcatProperties
<1>. QED BY <1>4, <1>7 DEF a, b

LEMMA ExecuteKeeps ==
  ASSUME Free(ring, said), cmdInput \in CommandLine, RecallInv, Execute
  PROVE  Free(ring', said') /\ cmdInput' \in CommandLine /\ RecallInv'
<1>1. CASE cmdInput = <<>>
  <2>1. UNCHANGED <<ring, said, cmdInput, commands>>
    BY <1>1 DEF Execute
  <2>. QED BY <2>1 DEF RecallInv, commands, Recalled
<1>2. CASE cmdInput # <<>>
  <2>1. Remembered /\ cmdInput' = <<>>
    BY <1>2 DEF Execute
  <2>2. PICK t \in Outputs : Puts(<<Prompt>> \o cmdInput \o <<Newline>> \o t)
    BY <1>2 DEF Execute
  <2>3. Free(ring', said')
    <3> DEFINE u == <<Prompt>> \o cmdInput \o <<Newline>> \o t
    <3>1. u \in Seq(ShellChars) /\ Puts(u)
      BY <2>2, OutputsAreText
    <3>. HIDE DEF u
    <3>. QED BY <3>1, PutsKeeps
  <2>4. RecallInv'
    BY <2>1, RememberedKeeps
  <2>. QED BY <2>1, <2>3, <2>4 DEF CommandLine
<1>. QED BY <1>1, <1>2

LEMMA ErasedIsText ==
  ASSUME NEW u \in CommandLine, u # <<>> PROVE Front(u) \in CommandLine
<1>1. Len(u) \in Nat /\ 1 \in 1 .. Len(u) + 1 /\ Len(u) - 1 \in 0 .. Len(u)
  BY EmptySeq DEF CommandLine
<1>2. SubSeq(u, 1, Len(u) - 1) \in CommandLine
  BY <1>1, SubSeqProperties DEF CommandLine
<1>. QED BY <1>2 DEF Front

LEMMA TypedIsText ==
  ASSUME cmdInput \in CommandLine, NEW c \in Typeable, Typed(c) PROVE cmdInput' \in CommandLine
<1>1. Append(cmdInput, c) \in CommandLine
  BY DEF CommandLine, ShellChars
<1>. QED BY <1>1 DEF Typed

(* refresh(): what it draws, and what it leaves as it was drawn.           *)
LEMMA RefreshShows ==
  ASSUME NEW set, Refresh(set), app' = "shell",
         (dirty \/ set) \/ (ShellDrawn /\ UNCHANGED <<ring, cmdInput>> /\ (mods' => mods))
  PROVE  ShellDrawn'
<1>1. CASE dirty \/ set
  <2>1. ~dirty' /\ screen' = Drawn(ring', cmdInput', mods')
    BY <1>1 DEF Refresh
  <2>2. screen'.mods = mods'
    BY <2>1 DEF Drawn
  <2>3. Drawn(ring, cmdInput, screen.mods)' = Drawn(ring', cmdInput', mods')
    BY <2>2 DEF Drawn, ScreenRows
  <2>. QED BY <2>1, <2>2, <2>3 DEF ShellDrawn
<1>2. CASE ~(dirty \/ set)
  <2>1. ~dirty' /\ screen' = screen /\ ring' = ring /\ cmdInput' = cmdInput /\ (mods' => mods) /\ ShellDrawn
    BY <1>2 DEF Refresh
  <2>. QED BY <2>1 DEF ShellDrawn, Drawn, ScreenRows
<1>. QED BY <1>1, <1>2

LEMMA ShownDrawn == ASSUME ShellShown PROVE ShellDrawn'
<1>1. ~dirty' /\ screen' = Drawn(ring, cmdInput, mods) /\ UNCHANGED <<ring, cmdInput, mods>>
  BY DEF ShellShown, typing
<1>2. screen'.mods = mods'
  BY <1>1 DEF Drawn
<1>. QED BY <1>1, <1>2 DEF ShellDrawn, Drawn, ScreenRows

(* A key, or a character from the UART, of which the screen shows all.     *)
LEMMA ShellStepKeeps ==
  ASSUME ShellInv, ShellStep, part = "shell", part' = part PROVE ShellInv'
<1>0. ShellKept
  BY DEF ShellInv
<1>a. ASSUME ShellKept', ShellKey, NEW set, Refresh(set),
             set \/ (UNCHANGED <<ring, cmdInput>> /\ (mods' => mods))
      PROVE  ShellInv'
  <2>1. ~serial /\ ~serial' /\ (~set => ShellDrawn)
    <3>1. ~serial /\ serial' = serial /\ app = "shell"
      BY <1>a DEF ShellKey
    <3>. QED BY <3>1 DEF ShellInv
  <2>2. app' = "shell" => ShellDrawn'
    BY <1>a, <2>1, RefreshShows
  <2>. QED BY <1>a, <2>1, <2>2 DEF ShellInv
<1>b. ASSUME Quiet, UNCHANGED <<commands, rx>>, cmdInput' \in CommandLine PROVE ShellKept'
  BY <1>0, <1>b DEF Quiet, ShellKept, RecallInv, commands, Recalled
<1>1. CASE ShellExe
  <2>1. Execute /\ ShellKey /\ rx' = rx /\ mods' = FALSE /\ Refresh(cmdInput # <<>>)
    BY <1>1 DEF ShellExe, ShellKey
  <2>2. ShellKept'
    BY <1>0, <2>1, ExecuteKeeps DEF ShellKept
  <2>3. cmdInput # <<>> \/ (UNCHANGED <<ring, cmdInput>> /\ (mods' => mods))
    BY <2>1 DEF Execute
  <2>. QED BY <1>a, <2>1, <2>2, <2>3
<1>2. CASE ShellMods
  <2>1. ShellKept'
    BY <1>0, <1>2, <1>b DEF ShellMods, ShellKey, ShellKept
  <2>. QED BY <1>2, <1>a, <2>1 DEF ShellMods
<1>3. CASE ShellErase
  <2>1. cmdInput' \in CommandLine
    BY <1>0, <1>3, ErasedIsText DEF ShellErase, ShellKept
  <2>2. ShellKept'
    BY <1>3, <1>b, <2>1 DEF ShellErase, ShellKey
  <2>. QED BY <1>3, <1>a, <2>2 DEF ShellErase
<1>4. CASE ShellUp
  <2>1. pos' \in 0 .. count - 1 /\ count' = count
    <3>1. pos + 1 \in Nat /\ count \in Nat \ {0}
      BY <1>0, <1>4 DEF ShellKept, RecallInv, ShellUp
    <3>. QED BY <1>4, <3>1, DivMod DEF ShellUp
  <2>2. cmdInput' = ran[pos' + 1]
    BY <1>0, <1>4, <2>1 DEF ShellUp, ShellKept, RecallInv
  <2>3. cmdInput' \in CommandLine
    <3>1. ran \in Seq(CommandLine) /\ count = Len(ran) /\ Len(ran) \in Nat
      BY <1>0 DEF ShellKept, RecallInv
    <3>2. \A n \in Nat : \A k \in 0 .. n - 1 : k + 1 \in 1 .. n
      OBVIOUS
    <3>3. pos' + 1 \in 1 .. Len(ran)
      BY ONLY <2>1, <3>1, <3>2
    <3>. QED BY <2>2, <3>1, <3>3
  <2>4. RecallInv'
    BY <1>0, <1>4, <2>1 DEF ShellUp, ShellKept, RecallInv, Recalled
  <2>5. ShellKept'
    BY <1>0, <1>4, <2>3, <2>4 DEF ShellUp, ShellKey, Quiet, ShellKept
  <2>. QED BY <1>4, <1>a, <2>5 DEF ShellUp
<1>5. CASE ShellType
  <2>1. PICK c \in Typeable : Typed(c)
    BY <1>5 DEF ShellType
  <2>2. cmdInput' \in CommandLine
    BY <1>0, <2>1, TypedIsText DEF ShellKept
  <2>3. ShellKept'
    BY <1>5, <1>b, <2>2 DEF ShellType, ShellKey
  <2>4. LineRoom \/ (UNCHANGED <<ring, cmdInput>> /\ (mods' => mods))
    BY <1>5, <2>1 DEF ShellType, Quiet, Typed
  <2>. QED BY <1>5, <1>a, <2>3, <2>4 DEF ShellType
<1>6. CASE ShellHome
  BY <1>0, <1>6 DEF ShellHome, ShellKey, ShellInv, ShellKept, RecallInv, typing, commands, Recalled
<1>7. CASE Receive
  <2>1. rx' \in Seq(ReadChars)
    BY <1>0, <1>7 DEF Receive, ShellKept, ReadChars
  <2>2. UNCHANGED <<ring, typing, commands, dirty, screen, serial, said, app>>
    BY <1>7 DEF Receive
  <2>3. ShellKept'
    BY <1>0, <2>1, <2>2 DEF ShellKept, RecallInv, typing, commands, Recalled
  <2>4. ShellDrawn' = ShellDrawn
    BY <2>2 DEF ShellDrawn, Drawn, ScreenRows, typing
  <2>. QED BY <2>2, <2>3, <2>4 DEF ShellInv
<1>8. CASE ShellTick
  <2>1. rx' \in Seq(ReadChars) /\ Head(rx) \in ReadChars
    <3>1. rx \in Seq(ReadChars) /\ rx # <<>> /\ rx' = Tail(rx)
      BY <1>0, <1>8 DEF ShellTick, ShellKept
    <3>. QED BY <3>1, HeadTailProperties
  <2>2. dirty' = TRUE /\ serial' = (app' = "shell")
    BY <1>8 DEF ShellTick
  <2>3. CASE Execute
    BY <1>0, <2>1, <2>2, <2>3, ExecuteKeeps DEF ShellKept, ShellInv
  <2>4. CASE Quiet /\ cmdInput' = (IF cmdInput = <<>> THEN cmdInput ELSE Front(cmdInput)) /\ UNCHANGED commands
    <3>1. cmdInput' \in CommandLine
      BY <1>0, <2>4, ErasedIsText DEF ShellKept
    <3>. QED BY <1>0, <2>1, <2>2, <2>4, <3>1 DEF Quiet, ShellInv, ShellKept, RecallInv, commands, Recalled
  <2>5. CASE Quiet /\ Typed(Head(rx)) /\ UNCHANGED commands /\ Head(rx) \in Typeable
    <3>1. cmdInput' \in CommandLine
      BY <1>0, <2>5, TypedIsText DEF ShellKept
    <3>. QED BY <1>0, <2>1, <2>2, <2>5, <3>1 DEF Quiet, ShellInv, ShellKept, RecallInv, commands, Recalled
  <2>. QED BY <1>8, <2>1, <2>3, <2>4, <2>5 DEF ShellTick, ReadChars
<1>9. CASE ShellTicked
  <2>1. serial /\ serial' = FALSE /\ Quiet /\ UNCHANGED <<rx, typing, commands>> /\ Refresh(FALSE)
    BY <1>9 DEF ShellTicked
  <2>2. ShellKept'
    BY <1>0, <1>b, <2>1 DEF ShellKept, typing
  <2>3. dirty
    BY <2>1 DEF ShellInv
  <2>4. app' = "shell" => ShellDrawn'
    BY <2>1, <2>3, RefreshShows
  <2>. QED BY <2>1, <2>2, <2>4 DEF ShellInv
<1>10. CASE PrintAway
  <2>1. PICK t \in Outputs : Puts(t)
    BY <1>10 DEF PrintAway
  <2>2. t \in Seq(ShellChars)
    BY OutputsAreText, <1>0 DEF ShellKept
  <2>3. Free(ring', said')
    BY <1>0, <2>1, <2>2, PutsKeeps DEF ShellKept
  <2>. QED BY <1>0, <1>10, <2>3 DEF PrintAway, ShellInv, ShellKept, RecallInv, typing, commands, Recalled
<1>11. CASE ShellRedraw
  <2>1. ShellKept' /\ ~serial'
    BY <1>0, <1>11 DEF ShellRedraw, ShellShown, ShellKept, RecallInv, typing, commands, Recalled
  <2>2. ShellDrawn'
    BY <1>11, ShownDrawn DEF ShellRedraw
  <2>. QED BY <2>1, <2>2 DEF ShellInv
<1>. QED BY <1>1, <1>2, <1>3, <1>4, <1>5, <1>6, <1>7, <1>8, <1>9, <1>10, <1>11 DEF ShellStep

LEMMA ShellFrame ==
  ASSUME [AppsNext]_appsVars
  PROVE  /\ part' = part
         /\ \/ part = "shell" /\ (ShellStep \/ OpenShell)
            \/ part # "shell" /\ UNCHANGED shell
            \/ UNCHANGED <<shell, app>>
<1>1. CASE UNCHANGED appsVars
  BY <1>1 DEF appsVars, vars
<1>2. CASE \E p \in {"files", "tetris", "2048", "snake", "settings", "scripts", "calculator", "statistics",
                     "functions", "equations", "menus", "python", "console", "input", "colours"} : In(p)
  BY <1>2 DEF In
<1>3. CASE In("shell") /\ ShellStep
  BY <1>3 DEF In
<1>4. CASE OpenShell
  BY <1>4 DEF OpenShell, In
<1>5. OpenApp => OpenShell \/ \E p \in {"tetris", "2048", "snake", "settings", "statistics", "scripts",
                        "calculator", "functions", "equations", "python"} : In(p)
  BY DEF OpenApp, OpenTetris, Open2048, OpenSnake, OpenSettings, OpenStatistics, OpenScripts, OpenCalculator,
         OpenFunctions, OpenEquations, OpenPython
<1>. QED BY <1>1, <1>2, <1>3, <1>4, <1>5 DEF AppsNext

LEMMA ShellKeeps == ASSUME ShellInv, [AppsNext]_appsVars PROVE ShellInv'
<1>0. part' = part
  BY ShellFrame
<1>1. CASE part = "shell" /\ ShellStep
  BY <1>0, <1>1, ShellStepKeeps
<1>2. CASE part = "shell" /\ OpenShell
  <2>1. ShellShown /\ ShellKept'
    BY <1>2 DEF OpenShell, ShellShown, ShellInv, ShellKept, RecallInv, typing, commands, Recalled
  <2>2. ~serial
    BY <1>2 DEF OpenShell, Opening, ShellInv
  <2>. QED BY <1>0, <2>1, <2>2, ShownDrawn DEF ShellInv, ShellShown
<1>3. CASE part # "shell" /\ UNCHANGED shell
  BY <1>0, <1>3 DEF shell, ShellInv, ShellKept, RecallInv, typing, commands, Recalled
<1>4. CASE UNCHANGED <<shell, app>>
  <2>1. ShellDrawn' = ShellDrawn
    BY <1>4 DEF shell, ShellDrawn, Drawn, ScreenRows, typing
  <2>. QED BY <1>0, <1>4, <2>1 DEF shell, ShellInv, ShellKept, RecallInv, typing, commands, Recalled
<1>. QED BY <1>1, <1>2, <1>3, <1>4, ShellFrame

LEMMA ShellStarts == AppsInit => ShellInv
<1> SUFFICES ASSUME AppsInit PROVE ShellInv
  OBVIOUS
<1>1. ShellInit
  BY DEF AppsInit
<1>2. part = "shell" => app # "shell"
  <2>1. part = "shell" => app = CHOOSE s \in {"home"} : TRUE
    BY DEF AppsInit, Idle
  <2>. QED BY <2>1
<1>3. Free(ring, said)
  <2> DEFINE z == [r \in 0 .. SHELL_ROWS - 1 |-> <<>>]
             s == <<<<>>>>
  <2>0. SHELL_ROWS \in Nat \ {0} /\ SHELL_COLS \in Nat \ {0}
    BY ShellSizes
  <2>1. ring = [n |-> 0, lines |-> z] /\ said = s
    BY <1>1 DEF ShellInit
  <2>2. z \in ShellLines /\ \A k \in 0 .. SHELL_ROWS - 1 : z[k] = <<>>
    BY <2>0 DEF ShellLines
  <2>3. s \in Seq(Seq(ShellChars)) /\ Len(s) = 1 /\ s[1] = <<>>
    OBVIOUS
  <2>. HIDE DEF z, s
  <2>4. ring.n = 0 /\ ring.lines = z /\ RingTyped(ring) /\ PaperTyped(said) /\ Len(said) = 1
    BY <2>0, <2>1, <2>2, <2>3 DEF RingTyped, PaperTyped
  <2>5. 0 % SHELL_ROWS = 0 /\ 0 \in 0 .. SHELL_ROWS - 1
    BY <2>0, ModWhole
  <2>6. ASSUME NEW i \in 0 .. Len(said) - 1 PROVE ring.lines[(ring.n - i) % SHELL_ROWS] = said[Len(said) - i]
    <3>1. Len(said) = 1 /\ ring.n = 0
      BY <2>4
    <3>2. i = 0
      BY <3>1
    <3>3. ring.n - i = 0 /\ Len(said) - i = 1
      BY ONLY <3>1, <3>2
    <3>. QED BY <2>1, <2>2, <2>3, <2>4, <2>5, <3>2, <3>3
  <2>7. Holds(ring, said)
    BY <2>4, <2>6 DEF Holds
  <2>8. said[Len(said)] = <<>> /\ Len(<<>>) < SHELL_COLS
    BY <2>0, <2>1, <2>3
  <2>. QED BY <2>7, <2>8, Zenon DEF Free
<1>4. RecallInv
  <2>1. ran = <<>> /\ count = 0 /\ pos = -1 /\ head = 0 /\ cmdHist = [h \in 0 .. SHELL_HISTORY - 1 |-> <<>>]
    BY <1>1 DEF ShellInit
  <2>. QED BY <2>1, ShellSizes DEF RecallInv, CommandLine
<1>5. cmdInput \in CommandLine /\ rx \in Seq(ReadChars)
  BY <1>1 DEF ShellInit, CommandLine
<1>6. ~serial
  BY <1>1 DEF ShellInit
<1>. QED BY <1>2, <1>3, <1>4, <1>5, <1>6 DEF ShellInv, ShellKept

(* The shell: its ring of lines holds the end of what was printed, and its *)
(* screen shows it with the line as typed; UP gives what ran last.         *)
THEOREM ShellTold == AppsSpec => []ShellShows
BY ShellStarts, ShellKeeps, ShellInvHolds, PTL DEF AppsSpec

-----------------------------------------------------------------------------
(* Sequences of which one element is taken out, or the last one.           *)
LEMMA Without ==
  ASSUME NEW S, NEW s \in Seq(S), NEW i \in 1 .. Len(s)
  PROVE  RemoveAt(s, i) \in Seq(S) /\ Len(RemoveAt(s, i)) = Len(s) - 1
<1> DEFINE a == SubSeq(s, 1, i - 1)
           b == SubSeq(s, i + 1, Len(s))
<1>0. Len(s) \in Nat /\ i \in Nat
  OBVIOUS
<1>1. \A k \in 1 .. i - 1 : s[k] \in S
  BY <1>0
<1>2. \A k \in i + 1 .. Len(s) : s[k] \in S
  BY <1>0
<1>3. a \in Seq(S) /\ Len(a) = i - 1
  <2>1. a \in Seq(S) /\ Len(a) = IF 1 <= i - 1 THEN (i - 1) - 1 + 1 ELSE 0
    BY <1>0, <1>1, SubSeqProperties
  <2>. HIDE DEF a
  <2>. QED BY <1>0, <2>1
<1>4. b \in Seq(S) /\ Len(b) = Len(s) - i
  <2>1. b \in Seq(S) /\ Len(b) = IF i + 1 <= Len(s) THEN Len(s) - (i + 1) + 1 ELSE 0
    BY <1>0, <1>2, SubSeqProperties
  <2>. HIDE DEF b
  <2>. QED BY <1>0, <2>1
<1>. HIDE DEF a, b
<1>5. a \o b \in Seq(S) /\ Len(a \o b) = Len(a) + Len(b)
  BY <1>3, <1>4, ConcatProperties
<1>6. Len(a) + Len(b) = Len(s) - 1
  BY <1>0, <1>3, <1>4
<1>7. RemoveAt(s, i) = a \o b
  BY DEF RemoveAt, a, b
<1>. QED BY <1>5, <1>6, <1>7

LEMMA CutIs ==
  ASSUME NEW S, NEW s \in Seq(S), NEW k \in 0 .. Len(s)
  PROVE  SubSeq(s, 1, k) \in Seq(S) /\ Len(SubSeq(s, 1, k)) = k
<1>0. Len(s) \in Nat /\ k \in Nat
  OBVIOUS
<1>1. \A j \in 1 .. k : s[j] \in S
  BY <1>0
<1>2. SubSeq(s, 1, k) \in Seq(S) /\ Len(SubSeq(s, 1, k)) = IF 1 <= k THEN k - 1 + 1 ELSE 0
  BY <1>0, <1>1, SubSeqProperties
<1>. QED BY <1>0, <1>2

LEMMA FrontIs ==
  ASSUME NEW S, NEW s \in Seq(S), s # <<>>
  PROVE  Front(s) \in Seq(S) /\ Len(Front(s)) = Len(s) - 1
<1>1. Len(s) - 1 \in 0 .. Len(s)
  BY EmptySeq
<1>. QED BY <1>1, CutIs DEF Front

(* A step is one of the part that is looked at.                            *)
LEMMA PartStep ==
  ASSUME [AppsNext]_appsVars
  PROVE  /\ part' = part
         /\ UNCHANGED appsVars
              \/ /\ In(part)
                 /\ part = "calculator" => CalcStep \/ OpenCalculator
                 /\ part = "functions" => FnStep \/ OpenFunctions
                 /\ part = "equations" => EqStep \/ OpenEquations
                 /\ part = "menus" => MenusStep
                 /\ part = "python" => PyStep \/ OpenPython
                 /\ part = "console" => ConsoleStep
                 /\ part = "input" => LineInputStep
                 /\ part = "scripts" => PythonStep \/ OpenScripts
<1>1. CASE UNCHANGED appsVars
  BY <1>1 DEF appsVars
<1>2. CASE OpenApp
  BY <1>2 DEF OpenApp, OpenTetris, Open2048, OpenSnake, OpenSettings, OpenScripts, OpenShell, OpenStatistics,
              OpenCalculator, OpenFunctions, OpenEquations, OpenPython, In
<1>3. CASE \E p \in {"files", "tetris", "2048", "snake", "settings", "shell", "statistics", "colours"} : In(p)
  BY <1>3 DEF In
<1>4. CASE In("calculator") /\ CalcStep
  BY <1>4 DEF In
<1>5. CASE In("functions") /\ FnStep
  BY <1>5 DEF In
<1>6. CASE In("equations") /\ EqStep
  BY <1>6 DEF In
<1>7. CASE In("menus") /\ MenusStep
  BY <1>7 DEF In
<1>8. CASE In("python") /\ PyStep
  BY <1>8 DEF In
<1>9. CASE In("console") /\ ConsoleStep
  BY <1>9 DEF In
<1>10. CASE In("input") /\ LineInputStep
  BY <1>10 DEF In
<1>11. CASE In("scripts") /\ PythonStep
  BY <1>11 DEF In
<1>. QED BY <1>1, <1>2, <1>3, <1>4, <1>5, <1>6, <1>7, <1>8, <1>9, <1>10, <1>11 DEF AppsNext

(* In every part but that of the files one begins at the home screen.      *)
LEMMA StartsHome == ASSUME AppsInit, part # "files" PROVE app = "home"
<1>1. app = CHOOSE s \in {"home"} : TRUE
  BY DEF AppsInit, Idle
<1>. QED BY <1>1

-----------------------------------------------------------------------------
(* The calculator.                                                         *)
CalcText == Seq(UNION {Range(t) : t \in Keytexts \cup Results})
CalcKept ==
  /\ hist \in Seq(CalcText \X CalcText) /\ Len(hist) <= HIST_MAX
  /\ hsel \in -1 .. Len(hist) - 1 /\ (failed => hsel < 0)
  /\ expr \in CalcText /\ Len(expr) <= EXPR_MAX /\ failed \in BOOLEAN /\ shifted \in BOOLEAN
CalcDrawn == drawnHist = HistView(hist, hsel, onResult, failed) /\ drawnInput = <<expr, hsel < 0>> /\ drawnMods = <<shifted, alpha>>
CalcInv == CalcKept /\ (app = "calculator" => CalcDrawn)

LEMMA CalcInvHolds == CalcInv => CalcTells
<1> SUFFICES ASSUME CalcInv PROVE CalcTells
  OBVIOUS
<1>1. Len(hist) \in Nat /\ HIST_ROWS \in Nat \ {0}
  BY CalcSizes DEF CalcInv, CalcKept
<1>2. hsel >= 0 => First(hist, hsel) <= hsel /\ hsel <= Bottom(hist, hsel)
  BY <1>1 DEF First, Bottom, CalcInv, CalcKept
<1>. QED BY <1>2 DEF CalcTells, CalcInv, CalcKept, CalcDrawn

LEMMA WithTextFits ==
  ASSUME NEW t \in CalcText, expr \in CalcText, Len(expr) <= EXPR_MAX
  PROVE  WithText(t) \in CalcText /\ Len(WithText(t)) <= EXPR_MAX
<1>1. expr \o t \in CalcText /\ Len(expr \o t) = Len(expr) + Len(t) /\ Len(expr) \in Nat /\ Len(t) \in Nat
  BY DEF CalcText
<1>. HIDE DEF CalcText
<1>2. EXPR_MAX \in Nat
  BY CalcSizes
<1>. QED BY <1>1, <1>2 DEF WithText

LEMMA CalcTextFacts ==
  Keytexts \cup Results \subseteq CalcText /\ <<>> \in CalcText /\ HIST_MAX \in Nat \ {0} /\ EXPR_MAX \in Nat
BY CalcSizes DEF CalcText

LEMMA CalcStepKeeps ==
  ASSUME CalcInv, CalcStep PROVE CalcInv'
<1>0. /\ Len(hist) \in Nat /\ CalcKept /\ HIST_MAX \in Nat \ {0} /\ EXPR_MAX \in Nat
      /\ failed \in BOOLEAN /\ shifted \in BOOLEAN
  BY CalcTextFacts DEF CalcInv, CalcKept
<1>. USE DEF InCalc, Selected, OnLine, BoxGone, DrawBoth, DrawHistory, DrawInput, DrawTitle, CalcInv, CalcDrawn
<1>1. CASE CalcUp
  <2>1. CalcKept'
    <3>1. UNCHANGED <<hist, expr, shifted>> /\ failed' = FALSE
      BY <1>1 DEF CalcUp
    <3>2. hsel' \in -1 .. Len(hist) - 1
      BY <1>0, <1>1 DEF CalcUp, CalcKept
    <3>. QED BY <1>0, <3>1, <3>2 DEF CalcKept
  <2>. QED BY <1>1, <2>1 DEF CalcUp
<1>2. CASE CalcDown
  <2>1. CalcKept'
    BY <1>0, <1>2 DEF CalcDown, CalcKept
  <2>. QED BY <1>2, <2>1 DEF CalcDown
<1>3. CASE CalcSide
  <2>1. CalcKept'
    BY <1>0, <1>3 DEF CalcSide, CalcKept
  <2>. QED BY <1>3, <2>1 DEF CalcSide
<1>4. CASE CalcCopy
  <2> DEFINE t == hist[hsel + 1][IF onResult THEN 2 ELSE 1]
  <2>1. t \in CalcText
    <3>1. hsel + 1 \in 1 .. Len(hist)
      BY <1>0, <1>4 DEF CalcCopy, CalcKept
    <3>2. hist[hsel + 1] \in CalcText \X CalcText
      BY <1>0, <3>1 DEF CalcKept
    <3>. HIDE DEF CalcText
    <3>. QED BY <3>2
  <2>2. expr' = WithText(t)
    BY <1>4 DEF CalcCopy
  <2>. HIDE DEF t
  <2>3. expr' \in CalcText /\ Len(expr') <= EXPR_MAX
    BY <1>0, <2>1, <2>2, WithTextFits DEF CalcKept
  <2>4. CalcKept'
    BY <1>0, <1>4, <2>3 DEF CalcCopy, CalcKept
  <2>. QED BY <1>4, <2>4 DEF CalcCopy
<1>5. CASE CalcRemove
  <2>1. hsel + 1 \in 1 .. Len(hist) /\ hist \in Seq(CalcText \X CalcText)
    BY <1>0, <1>5 DEF CalcRemove, CalcKept
  <2>2. hist' = RemoveAt(hist, hsel + 1)
    BY <1>5 DEF CalcRemove
  <2>3. hist' \in Seq(CalcText \X CalcText) /\ Len(hist') = Len(hist) - 1
    BY <2>1, <2>2, Without
  <2>4. CalcKept'
    BY <1>0, <1>5, <2>1, <2>3 DEF CalcRemove, CalcKept
  <2>. QED BY <1>5, <2>4 DEF CalcRemove
<1>6. CASE CalcMods
  <2>1. CalcKept'
    BY <1>0, <1>6 DEF CalcMods, CalcKept
  <2>. QED BY <1>0, <1>6, <2>1 DEF CalcMods
<1>7. CASE CalcEvaluate
  <2>1. CalcKept'
    <3>1. CASE UNCHANGED <<hist, expr>>
      BY <1>0, <1>7, <3>1 DEF CalcEvaluate, CalcKept
    <3>2. CASE failed' = FALSE /\ expr' = <<>> /\ \E r \in Results :
                 hist' = Append(IF Len(hist) = HIST_MAX THEN Tail(hist) ELSE hist, <<expr, r>>)
      <4>1. PICK r \in Results : hist' = Append(IF Len(hist) = HIST_MAX THEN Tail(hist) ELSE hist, <<expr, r>>)
        BY <3>2
      <4> DEFINE h == IF Len(hist) = HIST_MAX THEN Tail(hist) ELSE hist
                 e == <<expr, r>>
      <4>2. h \in Seq(CalcText \X CalcText) /\ Len(h) < HIST_MAX /\ Len(h) \in Nat
        <5>1. Len(hist) = HIST_MAX => hist # <<>>
          BY <1>0
        <5>2. Len(hist) = HIST_MAX => Tail(hist) \in Seq(CalcText \X CalcText) /\ Len(Tail(hist)) = Len(hist) - 1
          BY <1>0, <5>1, HeadTailProperties DEF CalcKept
        <5>. QED BY <1>0, <5>2 DEF CalcKept
      <4>3. e \in CalcText \X CalcText
        <5>. HIDE DEF CalcText
        <5>. QED BY <1>0, CalcTextFacts DEF CalcKept
      <4>. HIDE DEF h, e
      <4>4. hist' = Append(h, e)
        BY <4>1 DEF h, e
      <4>5. hist' \in Seq(CalcText \X CalcText) /\ Len(hist') = Len(h) + 1
        BY <4>2, <4>3, <4>4, AppendProperties
      <4>6. hsel' = hsel /\ hsel < 0 /\ failed' = FALSE /\ expr' = <<>>
        BY <1>7, <3>2 DEF CalcEvaluate
      <4>7. expr' \in CalcText /\ Len(expr') = 0
        BY <4>6, CalcTextFacts
      <4>8. ~failed' /\ failed' \in BOOLEAN /\ shifted' \in BOOLEAN
        BY <1>0, <1>7, <4>6 DEF CalcEvaluate
      <4>9. hsel' \in -1 .. Len(hist') - 1 /\ Len(hist') <= HIST_MAX /\ Len(expr') <= EXPR_MAX
        BY <1>0, <4>2, <4>5, <4>6, <4>7 DEF CalcKept
      <4>. QED BY <4>5, <4>7, <4>8, <4>9 DEF CalcKept
    <3>. QED BY <1>7, <3>1, <3>2 DEF CalcEvaluate
  <2>2. DrawHistory /\ DrawInput /\ UNCHANGED <<shifted, alpha, drawnMods>> /\ app = "calculator"
    BY <1>7 DEF CalcEvaluate
  <2>. QED BY <2>1, <2>2
<1>8. CASE CalcErase
  <2>1. expr' \in CalcText /\ Len(expr') <= EXPR_MAX
    <3>1. CASE expr = <<>>
      BY <1>0, <1>8, <3>1 DEF CalcErase, CalcKept
    <3>2. CASE expr # <<>>
      <4>1. Len(expr) \in Nat \ {0} /\ expr \in CalcText
        BY <1>0, <3>2, EmptySeq DEF CalcKept, CalcText
      <4>2. Front(expr) \in CalcText /\ Len(Front(expr)) = Len(expr) - 1
        BY <3>2, <4>1, FrontIs DEF CalcText
      <4>3. expr' = Front(expr)
        BY <1>8, <3>2 DEF CalcErase
      <4>. QED BY <1>0, <4>1, <4>2, <4>3 DEF CalcKept
    <3>. QED BY <3>1, <3>2
  <2>2. CalcKept'
    BY <1>0, <1>8, <2>1 DEF CalcErase, CalcKept
  <2>. QED BY <1>0, <1>8, <2>2 DEF CalcErase
<1>9. CASE CalcType
  <2>1. PICK t \in Keytexts : expr' = WithText(t)
    BY <1>9 DEF CalcType
  <2>2. expr' \in CalcText /\ Len(expr') <= EXPR_MAX
    BY <1>0, <2>1, WithTextFits, CalcTextFacts DEF CalcKept
  <2>3. CalcKept'
    BY <1>0, <1>9, <2>2 DEF CalcType, CalcKept
  <2>. QED BY <1>0, <1>9, <2>3 DEF CalcType
<1>10. CASE CalcBack
  <2>1. CalcKept'
    BY <1>0, <1>10 DEF CalcBack, CalcKept
  <2>. QED BY <1>10, <2>1 DEF CalcBack, CalcShown
<1>11. CASE CalcLeave
  BY <1>0, <1>11 DEF CalcLeave, CalcKept, calculator, browse
<1>. QED BY <1>1, <1>2, <1>3, <1>4, <1>5, <1>6, <1>7, <1>8, <1>9, <1>10, <1>11 DEF CalcStep

CalcPart == part = "calculator" => CalcInv

LEMMA CalcKeeps == ASSUME CalcPart, [AppsNext]_appsVars PROVE CalcPart'
<1>1. CASE part = "calculator" /\ CalcStep
  BY <1>1, CalcStepKeeps, PartStep DEF CalcPart
<1>2. CASE part = "calculator" /\ OpenCalculator
  BY <1>2, PartStep DEF OpenCalculator, browse, CalcShown, DrawHistory, DrawInput, DrawTitle, CalcPart, CalcInv, CalcKept, CalcDrawn
<1>3. CASE UNCHANGED appsVars
  BY <1>3 DEF appsVars, calculator, browse, drawnCalc, vars, CalcPart, CalcInv, CalcKept, CalcDrawn
<1>. QED BY <1>1, <1>2, <1>3, PartStep DEF CalcPart

LEMMA CalcStarts == AppsInit => CalcPart
<1> SUFFICES ASSUME AppsInit, part = "calculator" PROVE CalcInv
  BY DEF CalcPart
<1>1. CalcInit /\ app = "home"
  BY StartsHome DEF AppsInit
<1>2. hist = <<>> /\ hsel = -1 /\ expr = <<>> /\ ~failed /\ failed \in BOOLEAN /\ shifted \in BOOLEAN
  BY <1>1 DEF CalcInit
<1>3. hist \in Seq(CalcText \X CalcText) /\ Len(hist) = 0 /\ Len(expr) = 0
  BY <1>2
<1>4. hsel \in -1 .. Len(hist) - 1 /\ Len(hist) <= HIST_MAX /\ Len(expr) <= EXPR_MAX
  BY <1>2, <1>3, CalcTextFacts
<1>5. expr \in CalcText
  BY <1>2, CalcTextFacts
<1>6. CalcKept
  BY <1>2, <1>3, <1>4, <1>5, Zenon DEF CalcKept
<1>. QED BY <1>1, <1>6 DEF CalcInv

-----------------------------------------------------------------------------
(* The functions.                                                          *)
FnList == fns \in Seq(Texts) /\ Len(fns) <= MAX_FNS /\ erow \in 0 .. Len(fns) /\ erow < MAX_FNS
FnPicked == fsel \in Int /\ (view # "enter" /\ fns # <<>> => fsel < Len(fns))
FnDrawn == drawnFns = FnView(view, fns, fsel, entry, erow, emsg, eshift, tracing, menu)
FnInv == FnList /\ FnPicked /\ (app = "functions" => FnDrawn)

LEMMA FnInvHolds == FnInv => FunctionsTell
<1> SUFFICES ASSUME FnInv PROVE FunctionsTell
  OBVIOUS
<1>1. erow <= Len(fns)
  BY DEF FnInv, FnList
<1>. QED BY <1>1 DEF FunctionsTell, FnInv, FnList, FnPicked, FnDrawn

(* select_row() goes to a row that there is.                               *)
LEMMA RowThereIs ==
  ASSUME NEW r \in Int, NEW f \in Seq(Texts), Len(f) <= MAX_FNS, SelectRow(r, f)
  PROVE  erow' \in 0 .. Len(f) /\ erow' < MAX_FNS
BY GraphSizes DEF SelectRow

LEMMA ListedIs ==
  ASSUME NEW f \in Seq(Texts), Len(f) <= MAX_FNS, NEW r \in 0 .. Len(f), r < MAX_FNS, NEW e \in Texts
  PROVE  Listed(f, r, e) \in Seq(Texts) /\ Len(Listed(f, r, e)) <= MAX_FNS
<1>1. Len(f) \in Nat /\ MAX_FNS \in Nat
  BY GraphSizes
<1>2. CASE r < Len(f)
  BY <1>1, <1>2 DEF Listed
<1>3. CASE ~(r < Len(f))
  <2>1. Append(f, e) \in Seq(Texts) /\ Len(Append(f, e)) = Len(f) + 1
    BY AppendProperties
  <2>. QED BY <1>1, <1>3, <2>1 DEF Listed
<1>. QED BY <1>2, <1>3

LEMMA FnStepKeeps ==
  ASSUME FnInv, FnStep PROVE FnInv'
<1>0. /\ Len(fns) \in Nat /\ MAX_FNS \in Nat \ {0} /\ fns \in Seq(Texts) /\ Len(fns) <= MAX_FNS
      /\ erow \in 0 .. Len(fns) /\ erow < MAX_FNS /\ fsel \in Int
      /\ (view # "enter" /\ fns # <<>> => fsel < Len(fns))
  BY GraphSizes DEF FnInv, FnList, FnPicked
<1>. USE DEF InFunctions, Entering, FnShown, enter
<1>1. CASE FnRow
  <2>1. PICK d \in {-1, 1} : SelectRow(erow + d, fns)
    BY <1>1 DEF FnRow
  <2>2. erow' \in 0 .. Len(fns) /\ erow' < MAX_FNS
    BY <1>0, <2>1, RowThereIs
  <2>. QED BY <1>0, <1>1, <2>2 DEF FnRow, FnInv, FnList, FnPicked, FnDrawn
<1>2. CASE FnShift \/ FnType \/ FnErase \/ FnRefuse
  <2>1. UNCHANGED <<fns, erow, fsel, view>> /\ FnDrawn'
    BY <1>2 DEF FnShift, FnType, FnErase, FnRefuse, FnDrawn
  <2>. QED BY <1>0, <2>1 DEF FnInv, FnList, FnPicked
<1>3. CASE FnDelete
  <2>1. erow + 1 \in 1 .. Len(fns) /\ fns' = RemoveAt(fns, erow + 1)
    BY <1>0, <1>3 DEF FnDelete
  <2>2. fns' \in Seq(Texts) /\ Len(fns') = Len(fns) - 1
    BY <1>0, <2>1, Without
  <2>3. SelectRow(erow, fns') /\ fsel' \in {0, fsel} /\ view' = "enter" /\ FnDrawn'
    BY <1>3 DEF FnDelete, FnDrawn
  <2>4. erow' \in 0 .. Len(fns') /\ erow' < MAX_FNS
    BY <1>0, <2>2, <2>3, RowThereIs
  <2>. QED BY <1>0, <2>2, <2>3, <2>4 DEF FnInv, FnList, FnPicked
<1>4. CASE FnStore
  <2>1. fns' \in Seq(Texts) /\ Len(fns') <= MAX_FNS
    BY <1>0, <1>4, ListedIs DEF FnStore
  <2>2. SelectRow(Len(fns'), fns') /\ fsel' = fsel /\ view' = "enter" /\ FnDrawn'
    BY <1>4 DEF FnStore, FnDrawn
  <2>3. erow' \in 0 .. Len(fns') /\ erow' < MAX_FNS
    BY <2>1, <2>2, RowThereIs
  <2>. QED BY <1>0, <2>1, <2>2, <2>3 DEF FnInv, FnList, FnPicked
<1>5. CASE FnSwitch
  <2>1. UNCHANGED <<fns, erow>> /\ fsel' = (IF fsel >= Len(fns) THEN 0 ELSE fsel) /\ FnDrawn'
    BY <1>5 DEF FnSwitch, ToView, FnDrawn
  <2>2. fns # <<>> => Len(fns) > 0
    BY <1>0, EmptySeq
  <2>. QED BY <1>0, <2>1, <2>2 DEF FnInv, FnList, FnPicked
<1>6. CASE FnSwitchGraph \/ FnBack \/ FnHome
  <2>1. UNCHANGED <<fns, erow, fsel>> /\ FnDrawn' /\ view # "enter"
    BY <1>6 DEF FnSwitchGraph, FnBack, FnHome, ToView, FnDrawn
  <2>. QED BY <1>0, <2>1 DEF FnInv, FnList, FnPicked
<1>7. CASE FnTable
  <2>1. UNCHANGED <<fns, erow, view>> /\ fsel' \in Int /\ (fns # <<>> => fsel' < Len(fns)) /\ FnDrawn'
    <3>1. view = "table"
      BY <1>7 DEF FnTable
    <3>2. fsel < Len(fns) \/ fns = <<>>
      BY <1>0, <3>1
    <3>. QED BY <1>0, <1>7, <3>2 DEF FnTable, FnDrawn
  <2>. QED BY <1>0, <2>1 DEF FnInv, FnList, FnPicked
<1>8. CASE FnLeave
  BY <1>0, <1>8 DEF FnLeave, functions, FnInv, FnList, FnPicked, FnDrawn
<1>9. CASE FnTrace \/ FnMenu \/ FnMenuKey
  <2>1. UNCHANGED <<fns, erow, fsel, view>> /\ FnDrawn'
    BY <1>9 DEF FnTrace, FnMenu, FnMenuKey, OnGraph, FnDrawn
  <2>. QED BY <1>0, <2>1 DEF FnInv, FnList, FnPicked
<1>10. CASE FnPick
  <2>1. UNCHANGED <<fns, erow, view>> /\ FnDrawn'
    BY <1>10 DEF FnPick, OnGraph, FnDrawn
  <2>2. PICK d \in {1, Len(fns) - 1} : IF fns = <<>> THEN fsel' = fsel + d ELSE fsel' = (fsel + d) % Len(fns)
    BY <1>10 DEF FnPick
  <2>3. d \in Int
    BY <1>0
  <2>4. fsel' \in Int /\ (fns # <<>> => fsel' < Len(fns))
    <3>1. CASE fns = <<>>
      BY <1>0, <2>2, <2>3, <3>1
    <3>2. CASE fns # <<>>
      <4>1. Len(fns) \in Nat \ {0}
        BY <1>0, <3>2, EmptySeq
      <4>2. \A n \in Nat \ {0} : \A a \in Int : a % n \in 0 .. n - 1
        OBVIOUS
      <4>3. fsel + d \in Int /\ fsel' = (fsel + d) % Len(fns)
        BY <1>0, <2>2, <2>3, <3>2
      <4>4. (fsel + d) % Len(fns) \in 0 .. Len(fns) - 1
        BY <4>1, <4>2, <4>3
      <4>. QED BY <4>1, <4>3, <4>4
    <3>. QED BY <3>1, <3>2
  <2>. QED BY <1>0, <2>1, <2>4 DEF FnInv, FnList, FnPicked
<1>. QED BY <1>1, <1>2, <1>3, <1>4, <1>5, <1>6, <1>7, <1>8, <1>9, <1>10 DEF FnStep

FnPart == part = "functions" => FnInv

LEMMA FnKeeps == ASSUME FnPart, [AppsNext]_appsVars PROVE FnPart'
<1>1. CASE part = "functions" /\ FnStep
  BY <1>1, FnStepKeeps, PartStep DEF FnPart
<1>2. CASE part = "functions" /\ OpenFunctions
  BY <1>2, PartStep DEF OpenFunctions, enter, FnShown, FnPart, FnInv, FnList, FnPicked, FnDrawn
<1>3. CASE UNCHANGED appsVars
  BY <1>3 DEF appsVars, functions, enter, vars, FnPart, FnInv, FnList, FnPicked, FnDrawn
<1>. QED BY <1>1, <1>2, <1>3, PartStep DEF FnPart

LEMMA FnStarts == AppsInit => FnPart
<1> SUFFICES ASSUME AppsInit, part = "functions" PROVE FnInv
  BY DEF FnPart
<1>1. FnInit /\ app = "home"
  BY StartsHome DEF AppsInit
<1>2. fns = <<>> /\ fsel = 0 /\ erow = 0
  BY <1>1 DEF FnInit
<1>3. fns \in Seq(Texts) /\ Len(fns) = 0
  BY <1>2
<1>. QED BY <1>1, <1>2, <1>3, GraphSizes DEF FnInv, FnList, FnPicked

-----------------------------------------------------------------------------
(* Equations.                                                              *)

LEMMA LinearRoot == \A a, b, c \in Int : b * (-c) * b + c * b * b = 0
OBVIOUS

LEMMA RootRational ==
  ASSUME NEW a \in Int, NEW b \in Int, NEW c \in Int, NEW v \in {-1, 0, 1}, v = 0 => b * b - 4 * a * c = 0
  PROVE  a * ((-b) * (-b) + v * v * (b * b - 4 * a * c)) + b * (-b) * (2 * a) + c * (2 * a) * (2 * a) = 0
<1>1. CASE v = 0
  <2>1. a * ((-b) * (-b)) + b * (-b) * (2 * a) + c * (2 * a) * (2 * a) = (-a) * (b * b - 4 * a * c)
    OBVIOUS
  <2>2. v * v * (b * b - 4 * a * c) = 0
    BY <1>1
  <2>. QED BY <1>1, <2>1, <2>2
<1>2. CASE v # 0
  <2>1. v * v = 1
    BY <1>2
  <2>2. a * ((-b) * (-b) + 1 * (b * b - 4 * a * c)) + b * (-b) * (2 * a) + c * (2 * a) * (2 * a) = 0
    OBVIOUS
  <2>. QED BY <2>1, <2>2
<1>. QED BY <1>1, <1>2

LEMMA RootIrrational == \A a, b, v \in Int : 2 * a * (-b) * v + b * v * (2 * a) = 0
OBVIOUS

LEMMA Cramer1 ==
  \A a, b, c, d, e, f \in Int : a * (c * e - b * f) + b * (a * f - c * d) = c * (a * e - b * d)
OBVIOUS
LEMMA Cramer2 ==
  \A a, b, c, d, e, f \in Int : d * (c * e - b * f) + e * (a * f - c * d) = f * (a * e - b * d)
OBVIOUS

LEMMA Rationals ==
  ASSUME NEW a \in Int, NEW b \in Int, NEW c \in Int, NEW q, q = <<a, b, c>>,
         NEW u \in Int, NEW v \in Int, NEW d \in Int,
         a * (u * u + v * v * (b * b - 4 * a * c)) + b * u * d + c * d * d = 0, 2 * a * u * v + b * v * d = 0
  PROVE  QuadAt(q, <<u, v, d>>) = <<0, 0>>
BY DEF QuadAt, Discriminant

FieldTexts == Int \cup {WrongField}
Threes == [1 .. 3 -> FieldTexts]
Sixes == [1 .. 6 -> FieldTexts]

QuadTells(q, is) ==
  /\ \A x \in is \ {Every} : x[3] # 0 /\ QuadAt(q, x) = <<0, 0>>
  /\ Every \in is <=> q = <<0, 0, 0>>
  /\ q[1] # 0 => Cardinality(is) = (IF Discriminant(q) = 0 THEN 1 ELSE 2)
  /\ is = {} => q[1] = 0 /\ q[2] = 0 /\ q[3] # 0

LEMMA QuadSolved ==
  ASSUME NEW a \in Int, NEW b \in Int, NEW c \in Int, NEW q, q = <<a, b, c>>
  PROVE  QuadTells(q, SolveQuad(q))
<1>0. q[1] = a /\ q[2] = b /\ q[3] = c
  OBVIOUS
<1>1. CASE a = 0 /\ b = 0
  <2>1. SolveQuad(q) = IF c = 0 THEN {Every} ELSE {}
    BY <1>0, <1>1 DEF SolveQuad
  <2>2. q = <<0, 0, 0>> <=> c = 0
    BY <1>0, <1>1
  <2>. QED BY <1>0, <1>1, <2>1, <2>2 DEF QuadTells
<1>2. CASE a = 0 /\ b # 0
  <2> DEFINE x == <<-c, 0, b>>
  <2>1. SolveQuad(q) = {x}
    BY <1>0, <1>2 DEF SolveQuad
  <2>2. x[3] = b
    OBVIOUS
  <2>3. QuadAt(q, x) = <<0, 0>>
    <3>1. b * (-c) * b + c * b * b = 0
      BY LinearRoot
    <3>2. a * ((-c) * (-c) + 0 * 0 * (b * b - 4 * a * c)) + b * (-c) * b + c * b * b = 0
      BY <1>2, <3>1
    <3>3. 2 * a * (-c) * 0 + b * 0 * b = 0
      OBVIOUS
    <3>. QED BY <3>2, <3>3, Rationals
  <2>4. x # Every
    BY <1>2 DEF Every
  <2>5. q # <<0, 0, 0>>
    BY <1>2
  <2>. HIDE DEF x
  <2>. QED BY <1>0, <1>2, <2>1, <2>2, <2>3, <2>4, <2>5 DEF QuadTells
<1>3. CASE a # 0
  <2> DEFINE x(v) == <<-b, v, 2 * a>>
  <2>1. ASSUME NEW v \in {-1, 0, 1}, v = 0 => b * b - 4 * a * c = 0
        PROVE  x(v)[3] # 0 /\ QuadAt(q, x(v)) = <<0, 0>> /\ x(v) # Every /\ x(v)[2] = v
    <3>1. x(v)[3] = 2 * a /\ x(v)[2] = v
      OBVIOUS
    <3>2. 2 * a # 0
      BY <1>3
    <3>3. a * ((-b) * (-b) + v * v * (b * b - 4 * a * c)) + b * (-b) * (2 * a) + c * (2 * a) * (2 * a) = 0
      BY <2>1, RootRational
    <3>4. 2 * a * (-b) * v + b * v * (2 * a) = 0
      BY RootIrrational
    <3>5. QuadAt(q, x(v)) = <<0, 0>>
      <4>1. -b \in Int /\ v \in Int /\ 2 * a \in Int
        OBVIOUS
      <4>. QED BY <3>3, <3>4, <4>1, Rationals
    <3>6. Every[3] = 0
      BY DEF Every
    <3>. QED BY <3>1, <3>2, <3>5, <3>6
  <2>2. q # <<0, 0, 0>>
    BY <1>3
  <2>3. Discriminant(q) = b * b - 4 * a * c
    BY <1>0 DEF Discriminant
  <2>4. CASE Discriminant(q) = 0
    <3>1. SolveQuad(q) = {x(0)}
      BY <1>0, <1>3, <2>4 DEF SolveQuad
    <3>2. QuadAt(q, x(0)) = <<0, 0>> /\ x(0)[3] # 0 /\ x(0) # Every
      BY <2>1, <2>3, <2>4
    <3>. HIDE DEF x
    <3>3. Cardinality({x(0)}) = 1
      BY FS_Singleton
    <3>. QED BY <1>0, <1>3, <2>2, <2>4, <3>1, <3>2, <3>3 DEF QuadTells
  <2>5. CASE Discriminant(q) # 0
    <3>1. SolveQuad(q) = {x(1), x(-1)}
      BY <1>0, <1>3, <2>5 DEF SolveQuad
    <3>2. QuadAt(q, x(1)) = <<0, 0>> /\ x(1)[3] # 0 /\ x(1) # Every /\ x(1)[2] = 1
      BY <2>1
    <3>3. QuadAt(q, x(-1)) = <<0, 0>> /\ x(-1)[3] # 0 /\ x(-1) # Every /\ x(-1)[2] = -1
      BY <2>1
    <3>. HIDE DEF x
    <3>4. Cardinality({x(1), x(-1)}) = 2
      <4>1. x(1) # x(-1)
        BY <3>2, <3>3
      <4>2. IsFiniteSet({x(1)}) /\ Cardinality({x(1)}) = 1
        BY FS_Singleton
      <4>3. Cardinality({x(1)} \cup {x(-1)}) = Cardinality({x(1)}) + 1
        BY <4>1, <4>2, FS_AddElement
      <4>4. {x(1)} \cup {x(-1)} = {x(1), x(-1)}
        OBVIOUS
      <4>. QED BY <4>2, <4>3, <4>4
    <3>. QED BY <1>0, <1>3, <2>2, <2>5, <3>1, <3>2, <3>3, <3>4 DEF QuadTells
  <2>. QED BY <2>4, <2>5
<1>. QED BY <1>1, <1>2, <1>3

LinearTells(q, is) ==
  /\ \A x \in is : /\ q[1] * x[1] + q[2] * x[2] = q[3] * x[3]
                   /\ q[4] * x[1] + q[5] * x[2] = q[6] * x[3]
  /\ is = {} <=> q[1] * q[5] = q[2] * q[4]

LEMMA LinearSolved ==
  ASSUME NEW q, \A i \in 1 .. 6 : q[i] \in Int
  PROVE  LinearTells(q, SolveLinear(q))
<1> DEFINE a == q[1]
           b == q[2]
           c == q[3]
           d == q[4]
           e == q[5]
           f == q[6]
           x == <<c * e - b * f, a * f - c * d, a * e - b * d>>
<1>1. a \in Int /\ b \in Int /\ c \in Int /\ d \in Int /\ e \in Int /\ f \in Int
  OBVIOUS
<1>2. SolveLinear(q) = IF a * e - b * d = 0 THEN {} ELSE {x}
  BY DEF SolveLinear
<1>3. x[1] = c * e - b * f /\ x[2] = a * f - c * d /\ x[3] = a * e - b * d
  OBVIOUS
<1>. HIDE DEF a, b, c, d, e, f, x
<1>5. a * x[1] + b * x[2] = c * x[3] /\ d * x[1] + e * x[2] = f * x[3]
  BY <1>1, <1>3, Cramer1, Cramer2
<1>6. a * e - b * d = 0 <=> a * e = b * d
  BY <1>1
<1>7. \A y \in SolveLinear(q) : a * y[1] + b * y[2] = c * y[3] /\ d * y[1] + e * y[2] = f * y[3]
  BY <1>2, <1>5
<1>8. SolveLinear(q) = {} <=> a * e = b * d
  BY <1>2, <1>6
<1>. QED BY <1>7, <1>8 DEF LinearTells, a, b, c, d, e, f

(* What is shown is the state; the answers are those of the fields when    *)
(* they were asked for.                                                    *)
Modes == 0 .. 2
Widths == [m \in Modes |-> <<3, 6, 1>>[m + 1]]
FieldsInv ==
  /\ mode \in Modes /\ field \in 0 .. Widths[mode] - 1 /\ input \in FieldTexts /\ editingField \in BOOLEAN
  /\ DOMAIN fields = Modes /\ \A m \in Modes : fields[m] \in [1 .. Widths[m] -> FieldTexts]
AnswersInv ==
  answers # NoAnswers =>
    /\ answers.for[1] = mode
    /\ mode = 0 => answers.for[2] \in Threes /\ answers.is = Solved(0, answers.for[2])
    /\ mode = 1 => answers.for[2] \in Sixes /\ answers.is = Solved(1, answers.for[2])
ViewInv == app = "equations" => drawnEq = EqView(mode, field, fields, editingField, input, answers)
EqInv == FieldsInv /\ AnswersInv /\ ViewInv

LEMMA WidthsAre ==
  Widths[0] = 3 /\ Widths[1] = 6 /\ Widths[2] = 1 /\ \A m \in Modes : Widths[m] \in {1, 3, 6}
<1>1. Widths[0] = 3 /\ Widths[1] = 6 /\ Widths[2] = 1
  BY DEF Widths, Modes
<1>. QED BY <1>1 DEF Modes

LEMMA EqInvHolds == EqInv => EquationsTell
<1> SUFFICES ASSUME EqInv PROVE EquationsTell
  OBVIOUS
<1>1. app = "equations" => drawnEq = EqView(mode, field, fields, editingField, input, answers)
  BY DEF EqInv, ViewInv
<1> DEFINE q == answers.for[2]
           is == answers.is
<1>2. ASSUME answers # NoAnswers, mode = 0, WrongField \notin {q[i] : i \in 1 .. 3}
      PROVE  QuadTells(q, is)
  <2>1. q \in [1 .. 3 -> FieldTexts] /\ is = Solved(0, q)
    BY <1>2 DEF EqInv, AnswersInv, Threes
  <2>. HIDE DEF q, is
  <2>2. q[1] \in Int /\ q[2] \in Int /\ q[3] \in Int
    BY <1>2, <2>1 DEF FieldTexts
  <2>3. DOMAIN q = 1 .. 3
    BY <2>1
  <2>4. is = SolveQuad(q)
    BY <1>2, <2>1, <2>3 DEF Solved
  <2>5. q = <<q[1], q[2], q[3]>>
    BY <2>1
  <2>. QED BY <2>2, <2>4, <2>5, QuadSolved
<1>3. ASSUME answers # NoAnswers, mode = 1, WrongField \notin {q[i] : i \in 1 .. 6}
      PROVE  LinearTells(q, is)
  <2>1. q \in [1 .. 6 -> FieldTexts] /\ is = Solved(1, q)
    BY <1>3 DEF EqInv, AnswersInv, Sixes
  <2>. HIDE DEF q, is
  <2>2. \A i \in 1 .. 6 : q[i] \in Int
    BY <1>3, <2>1 DEF FieldTexts
  <2>3. DOMAIN q = 1 .. 6
    BY <2>1
  <2>4. is = SolveLinear(q)
    BY <1>3, <2>1, <2>3 DEF Solved
  <2>. QED BY <2>2, <2>4, LinearSolved
<1>4. answers # NoAnswers => answers.for[1] = mode
  BY DEF EqInv, AnswersInv
<1>. QED BY <1>1, <1>2, <1>3, <1>4 DEF EquationsTell, QuadTells, LinearTells

LEMMA FieldNext ==
  ASSUME NEW w \in {1, 3, 6}, NEW f \in 0 .. w - 1
  PROVE  (f + 1) % w \in 0 .. w - 1 /\ (f + w - 1) % w \in 0 .. w - 1
OBVIOUS

LEMMA FieldCountIs == mode \in Modes => FieldCount = Widths[mode] /\ FieldCount \in {1, 3, 6}
BY DEF FieldCount, Widths, Modes

LEMMA EqStepKeeps == ASSUME EqInv, EqStep PROVE EqInv'
<1>. USE DEF EqInv, InEquations
<1>0. AnyText \subseteq FieldTexts
  BY FieldTypes DEF AnyText, FieldTexts
<1>1. CASE EqMode
  <2>1. mode' \in Modes
    BY <1>1 DEF EqMode, FieldsInv, Modes
  <2>2. FieldsInv'
    <3>1. 0 \in 0 .. Widths[mode'] - 1
      BY <2>1, WidthsAre
    <3>. QED BY <1>1, <2>1, <3>1 DEF EqMode, FieldsInv
  <2>3. AnswersInv'
    BY <1>1 DEF EqMode, AnswersInv
  <2>4. ViewInv'
    BY <1>1 DEF EqMode, EqShown, ViewInv
  <2>. QED BY <2>2, <2>3, <2>4
<1>2. CASE EqField
  <2>1. field' \in 0 .. Widths[mode] - 1
    <3>1. mode \in Modes /\ field \in 0 .. Widths[mode] - 1
      BY DEF FieldsInv
    <3>. QED BY <1>2, <3>1, FieldNext, FieldCountIs DEF EqField
  <2>2. FieldsInv'
    BY <1>2, <2>1 DEF EqField, FieldsInv
  <2>3. AnswersInv'
    BY <1>2 DEF EqField, AnswersInv
  <2>4. ViewInv'
    BY <1>2 DEF EqField, EqShown, ViewInv
  <2>. QED BY <2>2, <2>3, <2>4
<1>3. CASE EqSolve
  <2>2. FieldsInv'
    BY <1>3 DEF EqSolve, FieldsInv
  <2>3. AnswersInv'
    <3>1. PICK is : /\ mode < 2 => is = Solved(mode, fields[mode])
                    /\ answers' = [for |-> <<mode, fields[mode]>>, is |-> is]
      BY <1>3 DEF EqSolve
    <3>2. answers'.for[1] = mode /\ answers'.for[2] = fields[mode] /\ answers'.is = is
      BY <3>1
    <3>3. mode' = mode
      BY <1>3 DEF EqSolve
    <3>4. mode = 0 => fields[0] \in Threes
      BY WidthsAre DEF FieldsInv, Modes, Threes
    <3>5. mode = 1 => fields[1] \in Sixes
      BY WidthsAre DEF FieldsInv, Modes, Sixes
    <3>. QED BY <3>1, <3>2, <3>3, <3>4, <3>5 DEF AnswersInv
  <2>4. ViewInv'
    <3>1. drawnEq = EqView(mode, field, fields, editingField, input, answers)
      BY <1>3 DEF EqSolve, ViewInv
    <3>2. drawnEq' = [drawnEq EXCEPT ![5] = answers']
      BY <1>3 DEF EqSolve
    <3>3. \A a, b, c, d, e, n : [<<a, b, c, d, e>> EXCEPT ![5] = n] = <<a, b, c, d, n>>
      OBVIOUS
    <3>4. drawnEq' = EqView(mode, field, fields, editingField, input, answers')
      BY <3>1, <3>2, <3>3 DEF EqView
    <3>. QED BY <1>3, <3>4 DEF EqSolve, ViewInv
  <2>. QED BY <2>2, <2>3, <2>4
<1>4. CASE EqEdit
  <2>1. fields[mode][field + 1] \in FieldTexts
    <3>1. mode \in Modes /\ field \in 0 .. Widths[mode] - 1 /\ fields[mode] \in [1 .. Widths[mode] -> FieldTexts]
      BY DEF FieldsInv
    <3>2. Widths[mode] \in {1, 3, 6}
      BY <3>1 DEF Modes, Widths
    <3>. QED BY <3>1, <3>2
  <2>2. FieldsInv'
    BY <1>4, <2>1 DEF EqEdit, FieldsInv
  <2>3. AnswersInv'
    BY <1>4 DEF EqEdit, AnswersInv
  <2>4. ViewInv'
    BY <1>4 DEF EqEdit, EqShown, ViewInv
  <2>. QED BY <2>2, <2>3, <2>4
<1>5. CASE EqCancel
  <2>2. FieldsInv'
    BY <1>5 DEF EqCancel, FieldsInv
  <2>3. AnswersInv'
    BY <1>5 DEF EqCancel, AnswersInv
  <2>4. ViewInv'
    BY <1>5 DEF EqCancel, EqShown, ViewInv
  <2>. QED BY <2>2, <2>3, <2>4
<1>6. CASE EqType
  <2>2. FieldsInv'
    BY <1>0, <1>6 DEF EqType, FieldsInv
  <2>3. AnswersInv'
    BY <1>6 DEF EqType, AnswersInv
  <2>4. ViewInv'
    BY <1>6 DEF EqType, EqShown, ViewInv
  <2>. QED BY <2>2, <2>3, <2>4
<1>7. CASE EqCommit
  <2>2. FieldsInv'
    <3>1. mode \in Modes /\ input \in FieldTexts /\ DOMAIN fields = Modes /\ \A m \in Modes : fields[m] \in [1 .. Widths[m] -> FieldTexts]
      BY DEF FieldsInv
    <3>2. fields' = [fields EXCEPT ![mode][field + 1] = input]
      BY <1>7 DEF EqCommit
    <3>3. DOMAIN fields' = Modes
      BY <3>1, <3>2
    <3>4. ASSUME NEW m \in Modes PROVE fields'[m] \in [1 .. Widths[m] -> FieldTexts]
      <4>1. fields'[m] = IF m = mode THEN [fields[m] EXCEPT ![field + 1] = input] ELSE fields[m]
        BY <3>1, <3>2
      <4>. QED BY <3>1, <4>1
    <3>5. WrongField \in FieldTexts
      BY DEF FieldTexts
    <3>. QED BY <1>7, <3>3, <3>4, <3>5 DEF EqCommit, FieldsInv
  <2>3. AnswersInv'
    BY <1>7 DEF EqCommit, AnswersInv
  <2>4. ViewInv'
    BY <1>7 DEF EqCommit, EqShown, ViewInv
  <2>. QED BY <2>2, <2>3, <2>4
<1>8. CASE EqLeave
  BY <1>8 DEF EqLeave, equations, FieldsInv, AnswersInv, ViewInv
<1>. QED BY <1>1, <1>2, <1>3, <1>4, <1>5, <1>6, <1>7, <1>8 DEF EqStep

EqPart == part = "equations" => EqInv

LEMMA EqKeeps == ASSUME EqPart, [AppsNext]_appsVars PROVE EqPart'
<1>1. CASE part = "equations" /\ EqStep
  BY <1>1, EqStepKeeps, PartStep DEF EqPart
<1>2. CASE part = "equations" /\ OpenEquations
  <2>1. FieldsInv' /\ AnswersInv'
    BY <1>2 DEF OpenEquations, EqPart, EqInv, FieldsInv, AnswersInv
  <2>2. ViewInv'
    BY <1>2 DEF OpenEquations, EqShown, ViewInv
  <2>. QED BY <2>1, <2>2 DEF EqPart, EqInv
<1>3. CASE UNCHANGED appsVars
  BY <1>3 DEF appsVars, vars, equations, EqPart, EqInv, FieldsInv, AnswersInv, ViewInv
<1>. QED BY <1>1, <1>2, <1>3, PartStep DEF EqPart

LEMMA EqStarts == AppsInit => EqPart
<1> SUFFICES ASSUME AppsInit, part = "equations" PROVE EqInv
  BY DEF EqPart
<1>1. EqInit
  BY DEF AppsInit
<1>2. PICK q \in QuadStart, l \in LinearStart : fields = EqStart(q, l)
  BY <1>1 DEF EqInit
<1>3. q \in Threes /\ l \in Sixes /\ <<WrongField>> \in [1 .. 1 -> FieldTexts]
  <2>1. q \in Int \X Int \X Int /\ l \in Int \X Int \X Int \X Int \X Int \X Int
    BY FieldTypes
  <2>2. q \in [1 .. 3 -> FieldTexts]
    BY <2>1 DEF FieldTexts
  <2>3. l \in [1 .. 6 -> FieldTexts]
    BY <2>1 DEF FieldTexts
  <2>4. <<WrongField>> \in [1 .. 1 -> FieldTexts]
    BY DEF FieldTexts
  <2>. QED BY <2>2, <2>3, <2>4 DEF Threes, Sixes
<1>4. DOMAIN fields = Modes /\ fields[0] = q /\ fields[1] = l /\ fields[2] = <<WrongField>>
  BY <1>2 DEF EqStart, Modes
<1>5. \A m \in Modes : fields[m] \in [1 .. Widths[m] -> FieldTexts]
  <2>1. fields[0] \in [1 .. 3 -> FieldTexts] /\ fields[1] \in [1 .. 6 -> FieldTexts] /\ fields[2] \in [1 .. 1 -> FieldTexts]
    BY <1>3, <1>4 DEF Threes, Sixes
  <2>2. ASSUME NEW m \in Modes PROVE fields[m] \in [1 .. Widths[m] -> FieldTexts]
    <3>1. CASE m = 0
      BY <2>1, <3>1, WidthsAre
    <3>2. CASE m = 1
      BY <2>1, <3>2, WidthsAre
    <3>3. CASE m = 2
      BY <2>1, <3>3, WidthsAre
    <3>. QED BY <3>1, <3>2, <3>3 DEF Modes
  <2>. QED BY <2>2
<1>6. FieldsInv
  <2>1. mode \in Modes /\ field \in 0 .. Widths[mode] - 1 /\ input \in FieldTexts /\ editingField \in BOOLEAN
    <3>1. mode = 0 /\ field = 0 /\ input = WrongField /\ editingField = FALSE
      BY <1>1 DEF EqInit
    <3>2. 0 \in Modes /\ 0 \in 0 .. Widths[0] - 1 /\ WrongField \in FieldTexts
      BY WidthsAre DEF Modes, FieldTexts
    <3>. QED BY <3>1, <3>2
  <2>. QED BY <1>4, <1>5, <2>1 DEF FieldsInv
<1>. QED BY <1>1, <1>6 DEF EqInv, EqInit, AnswersInv, ViewInv

-----------------------------------------------------------------------------
(* The home screen: rows and columns.                                      *)
RowAt(i) == i \div COLUMNS
InSight(t, i) == RowAt(i) \in t .. t + ROWS_SHOWN - 1

LEMMA RowIsThere ==
  ASSUME NEW i \in 0 .. N_ITEMS - 1
  PROVE  RowAt(i) \in 0 .. N_ROWS - 1 /\ i % COLUMNS \in 0 .. COLUMNS - 1 /\ i = COLUMNS * RowAt(i) + (i % COLUMNS)
<1> DEFINE c == COLUMNS
           n == N_ITEMS
           k == n + c - 1
           a == i \div c
           x == i % c
           b == k \div c
           y == k % c
<1>0. c \in Nat \ {0} /\ n \in Nat \ {0} /\ i \in Nat
  BY MenuSizes
<1>1. k \in Nat /\ k >= i + c
  BY <1>0
<1>2. x \in 0 .. c - 1 /\ a \in Nat /\ i = c * a + x
  BY <1>0, DivMod
<1>3. y \in 0 .. c - 1 /\ b \in Nat /\ k = c * b + y
  <2>. HIDE DEF k
  <2>. QED BY <1>0, <1>1, DivMod
<1>. HIDE DEF k, a, x, b, y
<1>4. ~(a >= b)
  <2>1. \A s, t \in Nat : s >= t => c * s >= c * t
    BY <1>0
  <2>2. a >= b => c * a >= c * b
    BY <1>2, <1>3, <2>1
  <2>3. c * a \in Nat /\ c * b \in Nat
    BY <1>0, <1>2, <1>3
  <2>. QED BY <1>0, <1>1, <1>2, <1>3, <2>2, <2>3
<1>5. b = N_ROWS
  BY <1>0 DEF N_ROWS, b, k
<1>6. a \in 0 .. N_ROWS - 1
  BY <1>2, <1>3, <1>4, <1>5
<1>. QED BY <1>2, <1>6 DEF RowAt, a, x

(* An item in a row that is shown has a place.                             *)
LEMMA PlaceIs ==
  ASSUME NEW t \in Nat, NEW i \in 0 .. N_ITEMS - 1, InSight(t, i)
  PROVE  \E p \in Places : t * COLUMNS + p = i
<1> DEFINE c == COLUMNS
           r == RowAt(i)
           x == i % c
           d == r - t
           p == c * d + x
<1>0. c \in Nat \ {0} /\ ROWS_SHOWN \in Nat \ {0} /\ i \in Nat
  BY MenuSizes
<1>1. r \in Nat /\ x \in 0 .. c - 1 /\ i = c * r + x
  BY RowIsThere
<1>2. d \in 0 .. ROWS_SHOWN - 1
  BY <1>0, <1>1 DEF InSight
<1>3. c * r = c * t + c * d
  <2>1. r = t + d
    BY <1>1, <1>2
  <2>. HIDE DEF r, d
  <2>. QED BY <1>0, <1>2, <2>1
<1>. HIDE DEF r, x, d
<1>4. c * d \in Nat /\ c * d <= c * (ROWS_SHOWN - 1) /\ c * (ROWS_SHOWN - 1) = c * ROWS_SHOWN - c
  <2>1. \A s, m \in Nat : s <= m => c * s <= c * m
    BY <1>0
  <2>. QED BY <1>0, <1>2, <2>1
<1>5. ROWS_SHOWN * c = c * ROWS_SHOWN /\ t * c = c * t /\ c * ROWS_SHOWN \in Nat /\ c * t \in Nat
  BY <1>0
<1>6. p \in 0 .. (ROWS_SHOWN * c) - 1
  BY <1>0, <1>1, <1>4, <1>5
<1>7. (t * c) + p = i
  BY <1>0, <1>1, <1>3, <1>4, <1>5
<1>. QED BY <1>6, <1>7 DEF Places

HomeInv ==
  /\ selected \in 0 .. N_ITEMS - 1 /\ firstRow \in 0 .. N_ROWS - 1 /\ InSight(firstRow, selected)
  /\ app = "home" => cells = Grid(firstRow, selected)
LinesFit(d) == d.scroll = 0 \/ d.scroll + SHOWN <= NLines[d.at + 1]
DocsInv ==
  /\ docs \in [at : 0 .. Len(NLines) - 1, scroll : Nat] /\ LinesFit(docs)
  /\ app = "docs" => drawnDocs = PageOf(docs)
ListedInv == game \in 0 .. N_GAMES - 1 /\ (app = "games" => drawnGame = game)
MenusInv == HomeInv /\ DocsInv /\ ListedInv

LEMMA MarkedIsShown == ASSUME HomeInv PROVE \E p \in Places : Grid(firstRow, selected)[p].marked
<1>1. PICK p \in Places : firstRow * COLUMNS + p = selected
  BY PlaceIs DEF HomeInv
<1>. QED BY <1>1 DEF Grid, Cell

LEMMA LinesShown ==
  ASSUME DocsInv
  PROVE  Cardinality(PageOf(docs).lines) = Cardinality({i \in 1 .. NLines[docs.at + 1] : i <= SHOWN})
<1> DEFINE n == NLines[docs.at + 1]
           s == docs.scroll
           m == IF n <= SHOWN THEN n ELSE SHOWN
           A == {i \in 0 .. n - 1 : i >= s /\ i < s + SHOWN}
           B == {i \in 1 .. n : i <= SHOWN}
<1>1. n \in Nat /\ s \in Nat /\ SHOWN \in Nat \ {0} /\ (s = 0 \/ s + SHOWN <= n)
  <2>1. docs.at + 1 \in 1 .. Len(NLines) /\ NLines \in Seq(Nat) /\ s \in Nat
    BY MenuSizes DEF DocsInv
  <2>. QED BY <2>1, MenuSizes DEF DocsInv, LinesFit
<1>2. PageOf(docs).lines = A
  BY DEF PageOf
<1>. HIDE DEF n, s
<1>3. B = 1 .. m /\ m \in Nat
  BY <1>1
<1>4. A = s .. (s + m) - 1
  BY <1>1
<1>5. Cardinality(B) = m
  <2>. HIDE DEF B, m
  <2>1. Cardinality(1 .. m) = IF 1 > m THEN 0 ELSE m - 1 + 1
    BY <1>3, FS_Interval
  <2>. QED BY <1>3, <2>1
<1>6. Cardinality(A) = m
  <2>. HIDE DEF A, m, B
  <2> DEFINE b == s + m - 1
  <2>0. (s + m) - 1 = b /\ b \in Int /\ s \in Int
    BY <1>1, <1>3
  <2>. HIDE DEF b
  <2>1. Cardinality(s .. b) = IF s > b THEN 0 ELSE b - s + 1
    BY <2>0, FS_Interval
  <2>. QED BY <1>1, <1>3, <1>4, <2>0, <2>1
<1>. QED BY <1>2, <1>5, <1>6 DEF n

LEMMA MenusInvHolds == MenusInv => MenusTell
<1> SUFFICES ASSUME MenusInv PROVE MenusTell
  OBVIOUS
<1>1. HomeInv /\ DocsInv /\ ListedInv
  BY DEF MenusInv
<1>2. app = "home" => cells = Grid(firstRow, selected) /\ \E p \in Places : cells[p].marked
  <2>1. cells = Grid(firstRow, selected) => \E p \in Places : cells[p].marked
    BY <1>1, MarkedIsShown
  <2>. QED BY <1>1, <2>1 DEF HomeInv
<1>3. app = "docs" => /\ drawnDocs = PageOf(docs)
                      /\ Cardinality(drawnDocs.lines) = Cardinality({i \in 1 .. NLines[docs.at + 1] : i <= SHOWN})
  BY <1>1, LinesShown DEF DocsInv
<1>4. selected \in 0 .. N_ITEMS - 1 /\ firstRow \in 0 .. N_ROWS - 1 /\ (app = "games" => drawnGame = game /\ game \in 0 .. N_GAMES - 1)
  BY <1>1 DEF HomeInv, ListedInv
<1>. QED BY <1>2, <1>3, <1>4 DEF MenusTell

(* The selection moves, and with it the rows when it has to.               *)
LEMMA MoveKeeps ==
  ASSUME HomeInv, app = "home", NEW to \in 0 .. N_ITEMS - 1, to # selected, MoveTo(to)
  PROVE  HomeInv' \/ app' # app
<1> DEFINE r == to \div COLUMNS
           c == COLUMNS
           t == IF r < firstRow THEN r ELSE r - ROWS_SHOWN + 1
<1>0. /\ c \in Nat \ {0} /\ ROWS_SHOWN \in Nat \ {0} /\ firstRow \in Nat /\ r \in 0 .. N_ROWS - 1 /\ N_ROWS \in Int
      /\ firstRow <= N_ROWS - 1 /\ r = RowAt(to) /\ selected' = to /\ cells = Grid(firstRow, selected)
  <2>1. c \in Nat \ {0} /\ ROWS_SHOWN \in Nat \ {0} /\ N_ITEMS \in Nat \ {0}
    BY MenuSizes
  <2>2. N_ROWS \in Nat
    <3> DEFINE k == N_ITEMS + c - 1
    <3>1. k \in Nat
      BY <2>1
    <3>2. N_ROWS = k \div c
      BY DEF N_ROWS
    <3>. HIDE DEF k, c
    <3>. QED BY <2>1, <3>1, <3>2, DivMod
  <2>3. firstRow \in 0 .. N_ROWS - 1 /\ selected' = to /\ cells = Grid(firstRow, selected)
    BY DEF HomeInv, MoveTo
  <2>4. r = RowAt(to) /\ RowAt(to) \in 0 .. N_ROWS - 1
    BY RowIsThere DEF RowAt
  <2>. HIDE DEF r
  <2>. QED BY <2>1, <2>2, <2>3, <2>4
<1>1. CASE r \in firstRow .. firstRow + ROWS_SHOWN - 1
  <2>1. firstRow' = firstRow /\ cells' = DrawnCells(cells, firstRow, {selected, to}, to)
    BY <1>1 DEF MoveTo
  <2>2. DrawnCells(Grid(firstRow, selected), firstRow, {selected, to}, to) = Grid(firstRow, to)
    <3> DEFINE u(p) == firstRow * COLUMNS + p
    <3>1. ASSUME NEW p \in Places
          PROVE  (IF u(p) \in {selected, to} THEN Cell(u(p), to) ELSE Grid(firstRow, selected)[p]) = Cell(u(p), to)
      <4>1. Grid(firstRow, selected)[p] = Cell(u(p), selected)
        BY DEF Grid
      <4>2. CASE u(p) \notin {selected, to}
        BY <4>1, <4>2 DEF Cell
      <4>. QED BY <4>2
    <3>. QED BY <3>1 DEF DrawnCells, Grid
  <2>3. cells' = Grid(firstRow, to)
    BY <1>0, <2>1, <2>2
  <2>4. InSight(firstRow, to)
    BY <1>0, <1>1 DEF InSight
  <2>. QED BY <1>0, <2>1, <2>3, <2>4 DEF HomeInv
<1>2. CASE ~(r \in firstRow .. firstRow + ROWS_SHOWN - 1)
  <2>1. firstRow' = t /\ cells' = Grid(t, to)
    BY <1>2 DEF MoveTo
  <2>2. t \in 0 .. N_ROWS - 1 /\ r \in t .. t + ROWS_SHOWN - 1
    <3>. HIDE DEF r
    <3>. QED BY <1>0, <1>2
  <2>3. InSight(t, to)
    BY <1>0, <2>2 DEF InSight
  <2>. HIDE DEF t
  <2>. QED BY <1>0, <2>1, <2>2, <2>3 DEF HomeInv
<1>. QED BY <1>1, <1>2

LEMMA MenusStepKeeps == ASSUME MenusInv, MenusStep PROVE MenusInv'
<1>0. HomeInv /\ DocsInv /\ ListedInv
  BY DEF MenusInv
<1>. USE DEF MenuKey
<1>1. CASE HomeMove
  <2>1. PICK i \in HomeMoves : i # selected /\ MoveTo(i)
    BY <1>1 DEF HomeMove
  <2>2. i \in 0 .. N_ITEMS - 1
    BY <2>1, MenuSizes DEF HomeMoves
  <2>3. app = "home" /\ app' = app /\ UNCHANGED <<game, drawnGame, docs, drawnDocs>>
    BY <1>1 DEF HomeMove
  <2>4. HomeInv'
    BY <1>0, <2>1, <2>2, <2>3, MoveKeeps
  <2>. QED BY <1>0, <2>3, <2>4 DEF MenusInv, DocsInv, ListedInv
<1>2. CASE HomeGames
  BY <1>0, <1>2 DEF HomeGames, MenusInv, HomeInv, DocsInv, ListedInv
<1>3. CASE GamesMove
  BY <1>0, <1>3 DEF GamesMove, MenusInv, HomeInv, DocsInv, ListedInv
<1>4. CASE GamesLeave
  BY <1>0, <1>4 DEF GamesLeave, MenusInv, HomeInv, DocsInv, ListedInv
<1>5. CASE DocsOpen
  BY <1>0, <1>5 DEF DocsOpen, MenusInv, HomeInv, DocsInv, ListedInv
<1>6. CASE DocsTurn
  <2>1. PICK p \in 0 .. Len(NLines) - 1 : docs' = [at |-> p, scroll |-> 0]
    BY <1>6 DEF DocsTurn
  <2>2. docs' \in [at : 0 .. Len(NLines) - 1, scroll : Nat] /\ LinesFit(docs')
    BY <2>1 DEF LinesFit
  <2>3. drawnDocs' = PageOf(docs') /\ UNCHANGED <<app, selected, firstRow, cells, game, drawnGame>>
    BY <1>6 DEF DocsTurn
  <2>. QED BY <1>0, <2>2, <2>3 DEF MenusInv, HomeInv, DocsInv, ListedInv
<1>7. CASE DocsScroll
  <2> DEFINE n == NLines[docs.at + 1]
             s == docs.scroll
             a == docs.at
  <2>1. n \in Nat /\ s \in Nat /\ SHOWN \in Nat \ {0} /\ (s = 0 \/ s + SHOWN <= n) /\ a \in 0 .. Len(NLines) - 1
        /\ docs = [at |-> a, scroll |-> s]
    <3>1. docs.at + 1 \in 1 .. Len(NLines) /\ NLines \in Seq(Nat) /\ s \in Nat
      BY <1>0, MenuSizes DEF DocsInv
    <3>. QED BY <1>0, <3>1, MenuSizes DEF DocsInv, LinesFit
  <2>2. (s + SHOWN < n /\ docs' = [docs EXCEPT !.scroll = s + 1]) \/ (s > 0 /\ docs' = [docs EXCEPT !.scroll = s - 1])
    BY <1>7 DEF DocsScroll
  <2>. HIDE DEF n, s, a
  <2>3. (s + SHOWN < n /\ docs' = [at |-> a, scroll |-> s + 1]) \/ (s > 0 /\ docs' = [at |-> a, scroll |-> s - 1])
    BY <2>1, <2>2
  <2>4. docs' \in [at : 0 .. Len(NLines) - 1, scroll : Nat] /\ docs'.at = a /\ (docs'.scroll = 0 \/ docs'.scroll + SHOWN <= n)
    BY <2>1, <2>3
  <2>5. LinesFit(docs')
    BY <2>4 DEF LinesFit, n, a
  <2>6. drawnDocs' = PageOf(docs') /\ UNCHANGED <<app, selected, firstRow, cells, game, drawnGame>>
    BY <1>7 DEF DocsScroll
  <2>. QED BY <1>0, <2>4, <2>5, <2>6 DEF MenusInv, HomeInv, DocsInv, ListedInv
<1>8. CASE DocsLeave
  BY <1>0, <1>8 DEF DocsLeave, MenusInv, HomeInv, DocsInv, ListedInv
<1>. QED BY <1>1, <1>2, <1>3, <1>4, <1>5, <1>6, <1>7, <1>8 DEF MenusStep

MenusPart == part = "menus" => MenusInv

LEMMA MenusKeep == ASSUME MenusPart, [AppsNext]_appsVars PROVE MenusPart'
<1>1. CASE part = "menus" /\ MenusStep
  BY <1>1, MenusStepKeeps, PartStep DEF MenusPart
<1>2. CASE UNCHANGED appsVars
  BY <1>2 DEF appsVars, menus, vars, MenusPart, MenusInv, HomeInv, DocsInv, ListedInv
<1>. QED BY <1>1, <1>2, PartStep DEF MenusPart

LEMMA MenusStart == AppsInit => MenusPart
<1> SUFFICES ASSUME AppsInit, part = "menus" PROVE MenusInv
  BY DEF MenusPart
<1>1. MenusInit /\ app = "home"
  BY StartsHome DEF AppsInit
<1>2. 0 \in 0 .. N_ITEMS - 1 /\ 0 \in 0 .. N_GAMES - 1 /\ 0 \in 0 .. Len(NLines) - 1 /\ ROWS_SHOWN \in Nat \ {0} /\ COLUMNS \in Nat \ {0}
  BY MenuSizes, EmptySeq
<1>3. RowAt(0) = 0 /\ 0 \in 0 .. N_ROWS - 1
  <2>1. 0 % COLUMNS = 0
    BY <1>2, ModWhole
  <2>2. 0 = COLUMNS * RowAt(0) + (0 % COLUMNS) /\ RowAt(0) \in 0 .. N_ROWS - 1
    BY <1>2, RowIsThere
  <2>3. \A r \in Nat : COLUMNS * r = 0 => r = 0
    BY <1>2
  <2>4. RowAt(0) \in Nat
    BY <2>2
  <2>5. COLUMNS * RowAt(0) = 0
    BY <1>2, <2>1, <2>2, <2>4
  <2>. QED BY <2>2, <2>3, <2>4, <2>5
<1>4. HomeInv
  BY <1>1, <1>2, <1>3 DEF MenusInit, HomeInv, InSight
<1>5. DocsInv /\ ListedInv
  BY <1>1, <1>2 DEF MenusInit, DocsInv, ListedInv, LinesFit
<1>. QED BY <1>4, <1>5 DEF MenusInv

-----------------------------------------------------------------------------
(* The Python prompt: the length of a block.                               *)
PyChars == {" ", ":", "x"}
PyText == Seq(PyChars)
Between(i) == IF i = 1 THEN 0 ELSE 1
LensAre(g, b) ==
  /\ g \in [0 .. Len(b) -> Nat] /\ g[0] = 0
  /\ \A i \in 1 .. Len(b) : g[i] = g[i - 1] + Between(i) + Len(b[i])

LEMMA LenAt == ASSUME NEW b \in Seq(PyText), NEW i \in 1 .. Len(b) PROVE b[i] \in PyText /\ Len(b[i]) \in Nat
<1>1. b[i] \in PyText
  OBVIOUS
<1>. QED BY <1>1 DEF PyText

LEMMA BlockLenIs ==
  ASSUME NEW b \in Seq(PyText)
  PROVE  \E g : LensAre(g, b) /\ BlockLen(b) = g[Len(b)]
<1> DEFINE n == Len(b)
           F(g) == [i \in 0 .. Len(b) |-> IF i = 0 THEN 0 ELSE g[i - 1] + (IF i = 1 THEN 0 ELSE 1) + Len(b[i])]
           f == CHOOSE g : g = F(g)
           step == [q \in Nat \X (1 .. n) |-> q[1] + Between(q[2]) + Len(b[q[2]])]
<1>0. n \in Nat /\ \A i \in 1 .. n : Len(b[i]) \in Nat
  BY LenAt
<1>1. Steps(step, Nat, n)
  <2>1. \A q \in Nat \X (1 .. n) : q[1] + Between(q[2]) + Len(b[q[2]]) \in Nat
    BY <1>0 DEF Between
  <2>. QED BY <2>1 DEF Steps
<1>2. \A s \in Nat, i \in 1 .. n : step[<<s, i>>] = s + Between(i) + Len(b[i])
  OBVIOUS
<1>3. PICK h : Goes(h, Nat, 0, step, n)
  <2>1. 0 \in Nat /\ n \in Nat
    BY <1>0
  <2>. HIDE DEF step, n
  <2>. QED BY ONLY <1>1, <2>1, Recursion
<1>. HIDE DEF step
<1>4. h \in [0 .. n -> Nat] /\ h[0] = 0 /\ \A i \in 1 .. n : h[i] = step[<<h[i - 1], i>>]
  BY <1>3 DEF Goes
<1>5. ASSUME NEW i \in 1 .. n PROVE h[i] = h[i - 1] + Between(i) + Len(b[i])
  <2>1. i - 1 \in 0 .. n
    BY <1>0
  <2>2. h[i - 1] \in Nat
    BY <1>4, <2>1
  <2>. QED BY <1>2, <1>4, <2>2
<1>6. h = F(h)
  <2>1. ASSUME NEW i \in 0 .. n PROVE h[i] = F(h)[i]
    <3>1. CASE i = 0
      BY <1>4, <3>1
    <3>2. CASE i # 0
      <4>1. i \in 1 .. n
        BY <1>0, <3>2
      <4>. QED BY <1>5, <3>2, <4>1 DEF Between
    <3>. QED BY <3>1, <3>2
  <2>2. h = [i \in 0 .. n |-> h[i]]
    BY <1>4
  <2>. QED BY <2>1, <2>2
<1>7. f = F(f)
  BY <1>6
<1>8. BlockLen(b) = f[n]
  BY DEF BlockLen
<1>9. f[0] = 0 /\ DOMAIN f = 0 .. n /\ \A i \in 1 .. n : f[i] = f[i - 1] + Between(i) + Len(b[i])
  <2>1. ASSUME NEW e PROVE F(e)[0] = 0 /\ DOMAIN F(e) = 0 .. n /\ \A i \in 1 .. n : F(e)[i] = e[i - 1] + Between(i) + Len(b[i])
    BY <1>0 DEF Between
  <2>. HIDE DEF f, F
  <2>. QED BY <1>7, <2>1
<1>10. f = [i \in 0 .. n |-> f[i]]
  <2>1. \A e : F(e) = [i \in 0 .. n |-> F(e)[i]]
    OBVIOUS
  <2>. HIDE DEF f, F
  <2>2. F(f) = [i \in 0 .. n |-> F(f)[i]]
    BY <2>1
  <2>. QED BY <1>7, <2>2, Zenon
<1>. HIDE DEF f, F
<1> DEFINE P == {i \in 0 .. n : f[i] \in Nat}
<1>11. \A i \in 0 .. n : i \in P
  <2>1. 0 \in P
    BY <1>0, <1>9
  <2>2. ASSUME NEW i \in 0 .. n - 1, i \in P PROVE i + 1 \in P
    <3>1. i + 1 \in 1 .. n /\ (i + 1) - 1 = i /\ i + 1 \in 0 .. n /\ Between(i + 1) \in Nat
      BY <1>0 DEF Between
    <3>2. f[i] \in Nat /\ Len(b[i + 1]) \in Nat
      BY <1>0, <2>2, <3>1
    <3>. HIDE DEF n
    <3>3. f[i + 1] = f[i] + Between(i + 1) + Len(b[i + 1])
      BY <1>9, <3>1
    <3>. QED BY <3>1, <3>2, <3>3
  <2>0. n \in Nat
    BY <1>0
  <2>. HIDE DEF P, n
  <2>3. \A i \in 0 .. n - 1 : i \in P => i + 1 \in P
    BY <2>2
  <2>. QED BY ONLY <2>0, <2>1, <2>3, UpTo0
<1>12. f \in [0 .. n -> Nat]
  BY <1>10, <1>11
<1>. QED BY <1>8, <1>9, <1>12 DEF LensAre

LEMMA BlockLenMore ==
  ASSUME NEW b \in Seq(PyText), NEW e \in PyText
  PROVE  BlockLen(Append(b, e)) = BlockLen(b) + (IF b = <<>> THEN 0 ELSE 1) + Len(e)
<1> DEFINE n == Len(b)
           c == Append(b, e)
<1>0. n \in Nat /\ c \in Seq(PyText) /\ Len(c) = n + 1 /\ c[n + 1] = e /\ (\A i \in 1 .. n : c[i] = b[i])
  BY AppendProperties
<1>. HIDE DEF c
<1>1. PICK g : LensAre(g, b) /\ BlockLen(b) = g[n]
  BY BlockLenIs
<1>2. PICK h : LensAre(h, c) /\ BlockLen(c) = h[n + 1]
  BY <1>0, BlockLenIs
<1>3. g \in [0 .. n -> Nat] /\ g[0] = 0 /\ \A i \in 1 .. n : g[i] = g[i - 1] + Between(i) + Len(b[i])
  BY <1>1 DEF LensAre
<1>4. h \in [0 .. n + 1 -> Nat] /\ h[0] = 0 /\ \A i \in 1 .. n + 1 : h[i] = h[i - 1] + Between(i) + Len(c[i])
  BY <1>0, <1>2 DEF LensAre
<1> DEFINE P == {i \in 0 .. n : g[i] = h[i]}
<1>5. \A i \in 0 .. n : i \in P
  <2>1. 0 \in P
    BY <1>0, <1>3, <1>4
  <2>2. ASSUME NEW i \in 0 .. n - 1, i \in P PROVE i + 1 \in P
    <3>1. i + 1 \in 1 .. n /\ i + 1 \in 1 .. n + 1 /\ (i + 1) - 1 = i /\ i + 1 \in 0 .. n
      BY <1>0
    <3>2. g[i] = h[i] /\ c[i + 1] = b[i + 1]
      BY <1>0, <2>2, <3>1
    <3>. HIDE DEF n
    <3>3. g[i + 1] = g[i] + Between(i + 1) + Len(b[i + 1]) /\ h[i + 1] = h[i] + Between(i + 1) + Len(c[i + 1])
      BY <1>3, <1>4, <3>1
    <3>. QED BY <3>1, <3>2, <3>3
  <2>0. n \in Nat
    BY <1>0
  <2>. HIDE DEF P, n
  <2>3. \A i \in 0 .. n - 1 : i \in P => i + 1 \in P
    BY <2>2
  <2>. QED BY ONLY <2>0, <2>1, <2>3, UpTo0
<1>6. g[n] = h[n]
  BY <1>0, <1>5
<1>7. n + 1 \in 1 .. n + 1 /\ (n + 1) - 1 = n
  BY <1>0
<1>8. h[n + 1] = h[n] + Between(n + 1) + Len(c[n + 1])
  BY <1>4, <1>7
<1>9. Between(n + 1) = IF b = <<>> THEN 0 ELSE 1
  BY <1>0, EmptySeq DEF Between
<1>. QED BY <1>0, <1>1, <1>2, <1>6, <1>8, <1>9 DEF c

LEMMA BlockLenNone == BlockLen(<<>>) = 0
<1> DEFINE b == <<>>
<1>1. b \in Seq(PyText) /\ Len(b) = 0
  OBVIOUS
<1>. HIDE DEF b
<1>2. PICK g : LensAre(g, b) /\ BlockLen(b) = g[Len(b)]
  BY <1>1, BlockLenIs
<1>3. BlockLen(b) = 0
  BY <1>1, <1>2 DEF LensAre
<1>. QED BY <1>3 DEF b

(* The indentation of the next line leaves room in it.                     *)
LEMMA IndentIs == ASSUME NEW s \in PyText PROVE IndentOf(s) \in 0 .. Len(s)
<1> DEFINE sp == " "
           E == {n \in 0 .. Len(s) : n = Len(s) \/ s[n + 1] # sp}
<1>00. IndentOf(s) = CHOOSE n \in 0 .. Len(s) : (\A i \in 1 .. n : s[i] = sp) /\ (n = Len(s) \/ s[n + 1] # sp)
  BY DEF IndentOf
<1>. HIDE DEF sp
<1>0. Len(s) \in Nat
  BY DEF PyText
<1>1. PICK m \in E : \A k \in E : m <= k
  <2>1. E \in SUBSET Nat
    BY <1>0
  <2>2. Len(s) \in E
    BY <1>0
  <2>. HIDE DEF E
  <2>. QED BY <2>1, <2>2, Smallest
<1>2. \A i \in 1 .. m : s[i] = sp
  <2> SUFFICES ASSUME NEW i \in 1 .. m, s[i] # sp PROVE FALSE
    OBVIOUS
  <2>1. i - 1 \in 0 .. Len(s) /\ (i - 1) + 1 = i /\ ~(m <= i - 1)
    BY <1>0
  <2>2. i - 1 \in E
    BY <2>1
  <2>. HIDE DEF E
  <2>. QED BY <1>1, <2>1, <2>2
<1>3. m \in 0 .. Len(s) /\ (m = Len(s) \/ s[m + 1] # sp)
  OBVIOUS
<1>. QED BY <1>00, <1>2, <1>3

LEMMA SpacesFit ==
  ASSUME NEW s \in PyText
  PROVE  Spaces(NextIndent(s)) \in PyText /\ Len(Spaces(NextIndent(s))) < LINE_MAX
<1> DEFINE n == NextIndent(s)
<1>1. n \in Nat /\ n < LINE_MAX
  <2>1. IndentOf(s) \in Nat /\ LINE_MAX \in Nat \ {0} /\ INDENT \in Nat
    <3>1. Len(s) \in Nat
      BY DEF PyText
    <3>2. IndentOf(s) \in Nat
      BY <3>1, IndentIs
    <3>. QED BY <3>2, PythonSizes
  <2>. QED BY <2>1 DEF NextIndent
<1>. HIDE DEF n
<1>2. [i \in 1 .. n |-> " "] \in Seq(PyChars) /\ Len([i \in 1 .. n |-> " "]) = n
  <2>1. " " \in PyChars
    BY DEF PyChars
  <2> DEFINE z == [i \in 1 .. n |-> " "]
  <2>2. z \in [1 .. n -> PyChars] /\ DOMAIN z = 1 .. n
    BY <2>1
  <2>. HIDE DEF z
  <2>3. z \in Seq(PyChars)
    BY <1>1, <2>2
  <2>4. Len(z) = n
    BY <1>1, <2>2, <2>3
  <2>. QED BY <2>3, <2>4 DEF z
<1>. QED BY <1>1, <1>2 DEF Spaces, PyText, n

PyInv ==
  /\ block \in Seq(PyText) /\ pyLine \in PyText /\ pyLast \in PyText /\ Len(pyLast) < LINE_MAX
  /\ RunsWhatIsShown

LEMMA PyStepKeeps == ASSUME PyInv, PyStep PROVE PyInv'
<1>0. /\ block \in Seq(PyText) /\ pyLine \in PyText /\ pyLast \in PyText /\ Len(pyLast) < LINE_MAX /\ Len(pyLine) < LINE_MAX
      /\ block = echoed /\ (continuing <=> block # <<>>) /\ BlockLen(block) < BLOCK_MAX /\ (cached = "old" => wentAway)
      /\ LINE_MAX \in Nat \ {0} /\ BLOCK_MAX \in Nat \ {0} /\ INDENT \in Nat \ {0} /\ Len(pyLine) \in Nat
  BY PythonSizes DEF PyInv, RunsWhatIsShown, PyText
<1>1. Entered \in PyText
  BY <1>0 DEF Entered, PyText
<1>2. <<>> \in PyText /\ Len(<<>>) = 0 /\ <<>> \in Seq(PyText) /\ BlockLen(<<>>) < BLOCK_MAX
  BY <1>0, BlockLenNone DEF PyText
<1>3. ASSUME Enters PROVE pyLast' \in PyText /\ Len(pyLast') < LINE_MAX
  BY <1>0, <1>3 DEF Enters
<1>4. CASE PyType
  <2>1. PICK c \in PyChars : pyLine' = Append(pyLine, c)
    BY <1>4 DEF PyType, PyChars
  <2>2. pyLine' \in PyText /\ Len(pyLine') = Len(pyLine) + 1
    BY <1>0, <2>1, AppendProperties DEF PyText
  <2>3. Len(pyLine') < LINE_MAX
    <3>1. Len(pyLine) < LINE_MAX - 1
      BY <1>4, Zenon DEF PyType
    <3>. QED BY <1>0, <2>2, <3>1
  <2>. QED BY <1>0, <1>4, <2>2, <2>3 DEF PyType, PyInv, RunsWhatIsShown
<1>5. CASE PyErase
  <2> DEFINE k == IF Blank(pyLine) THEN ((Len(pyLine) - 1) \div INDENT) * INDENT ELSE Len(pyLine) - 1
  <2>1. k \in 0 .. Len(pyLine)
    <3>1. Len(pyLine) - 1 \in Nat
      BY <1>0, <1>5, EmptySeq DEF PyErase, PyText
    <3> DEFINE a == Len(pyLine) - 1
    <3>2. a \div INDENT \in Nat /\ a = INDENT * (a \div INDENT) + (a % INDENT) /\ a % INDENT \in 0 .. INDENT - 1
      <4>. HIDE DEF a
      <4>1. a \in Nat
        BY <3>1 DEF a
      <4>. QED BY <1>0, <4>1, DivMod
    <3>3. \A q \in Nat : q * INDENT = INDENT * q /\ INDENT * q \in Nat
      BY <1>0
    <3> DEFINE d == a \div INDENT
               x == a % INDENT
    <3>4. k = IF Blank(pyLine) THEN d * INDENT ELSE a
      OBVIOUS
    <3>. HIDE DEF d, x, k
    <3>5. d \in Nat /\ a = INDENT * d + x /\ x \in Nat
      BY <1>0, <3>2 DEF d, x
    <3>6. d * INDENT = INDENT * d /\ INDENT * d \in Nat
      BY <3>3, <3>5
    <3>. QED BY <1>0, <3>1, <3>4, <3>5, <3>6
  <2>2. pyLine' = SubSeq(pyLine, 1, k)
    BY <1>5 DEF PyErase
  <2>. HIDE DEF k
  <2>3. pyLine' \in PyText /\ Len(pyLine') = k
    BY <1>0, <2>1, <2>2, CutIs DEF PyText
  <2>4. Len(pyLine') < LINE_MAX
    BY <1>0, <2>1, <2>3
  <2>. QED BY <1>0, <1>5, <2>3, <2>4 DEF PyErase, PyInv, RunsWhatIsShown
<1>6. CASE PyRecall
  BY <1>0, <1>6 DEF PyRecall, PyInv, RunsWhatIsShown
<1>7. CASE PyTooLong
  <2>1. block' = <<>> /\ echoed' = <<>> /\ ~continuing' /\ pyLine' = <<>> /\ Enters /\ UNCHANGED <<wentAway, cached>>
    BY <1>7 DEF PyTooLong
  <2>. QED BY <1>0, <1>2, <1>3, <2>1 DEF PyInv, RunsWhatIsShown
<1>8. CASE PyContinue
  <2>1. block' = Append(block, Entered) /\ echoed' = block'
    <3>1. block' = Whole /\ echoed' = Append(echoed, Entered)
      BY <1>8 DEF PyContinue
    <3>2. Whole = Append(block, Entered)
      <4>1. ASSUME NEW e PROVE Append(<<>>, e) = <<e>>
        OBVIOUS
      <4>. QED BY <1>0, <4>1 DEF Whole
    <3>. QED BY <1>0, <3>1, <3>2
  <2>2. block' \in Seq(PyText) /\ block' # <<>>
    BY <1>0, <1>1, <2>1, AppendProperties
  <2>3. BlockLen(block') < BLOCK_MAX
    <3>1. BlockLen(block') = BlockLen(block) + (IF block = <<>> THEN 0 ELSE 1) + Len(Entered)
      BY <1>0, <1>1, <2>1, BlockLenMore
    <3>2. BlockLen(block) + (IF continuing THEN 1 ELSE 0) + Len(Entered) < BLOCK_MAX
      BY <1>8 DEF PyContinue, FitsBlock
    <3>. QED BY <1>0, <3>1, <3>2
  <2>4. pyLine' \in PyText /\ Len(pyLine') < LINE_MAX
    BY <1>1, <1>8, SpacesFit DEF PyContinue
  <2>5. Enters /\ continuing' /\ UNCHANGED <<wentAway, cached>>
    BY <1>8 DEF PyContinue
  <2>. QED BY <1>0, <1>3, <2>1, <2>2, <2>3, <2>4, <2>5 DEF PyInv, RunsWhatIsShown
<1>9. CASE PyRun
  <2>1. block' = <<>> /\ echoed' = <<>> /\ ~continuing' /\ pyLine' = <<>> /\ Enters
    BY <1>9 DEF PyRun
  <2>2. cached' # "old"
    BY <1>0, <1>9 DEF PyRun
  <2>. QED BY <1>0, <1>2, <1>3, <2>1, <2>2 DEF PyInv, RunsWhatIsShown
<1>10. CASE PyLeave
  BY <1>0, <1>10 DEF PyLeave, PyInv, RunsWhatIsShown
<1>. QED BY <1>4, <1>5, <1>6, <1>7, <1>8, <1>9, <1>10 DEF PyStep

PyPart == part = "python" => PyInv

LEMMA PyKeeps == ASSUME PyPart, [AppsNext]_appsVars PROVE PyPart'
<1>1. CASE part = "python" /\ PyStep
  BY <1>1, PyStepKeeps, PartStep DEF PyPart
<1>2. CASE UNCHANGED appsVars \/ (part = "python" /\ OpenPython)
  <2>1. UNCHANGED python
    BY <1>2 DEF appsVars, OpenPython
  <2>. QED BY <2>1, PartStep DEF python, PyPart, PyInv, RunsWhatIsShown
<1>. QED BY <1>1, <1>2, PartStep DEF PyPart

LEMMA PyStarts == AppsInit => PyPart
<1> SUFFICES ASSUME AppsInit PROVE PyInv
  BY DEF PyPart
<1>1. PyInit
  BY DEF AppsInit
<1>. QED BY <1>1, BlockLenNone, PythonSizes DEF PyInit, PyInv, RunsWhatIsShown, PyText

-----------------------------------------------------------------------------
(* A script and its user.                                                  *)
Runs == script \in {"running", "sleeping"}
Flags == pending \in BOOLEAN /\ graphics \in BOOLEAN /\ looked \in BOOLEAN /\ asked \in BOOLEAN
ConsoleTypes ==
  /\ script \in {"none", "running", "sleeping", "reading", "pausing"}
  /\ written \in Nat /\ told \in Nat /\ told <= written /\ seen \in Int /\ late \in Nat /\ backFor \in Nat
  /\ sinceShow \in 0 .. SHOW_MS /\ sincePoll \in 0 .. POLL_MS

(* What is owed was marked, and waits no longer than since it was shown    *)
(* last; from then on it waits for a poll.                                 *)
OutputInv ==
  /\ late < SHOW_MS + POLL_MS /\ (~graphics /\ seen >= told => late = 0) /\ (script = "pausing" => late = 0)
  /\ Runs /\ ~graphics /\ seen < told => /\ pending /\ script # "sleeping"
                                         /\ sinceShow < SHOW_MS => late <= sinceShow
                                         /\ sinceShow = SHOW_MS => late <= SHOW_MS - 1 + sincePoll
PollInv == (looked => sincePoll < POLL_MS) /\ backFor <= sincePoll
ScreenInv ==
  /\ script = "reading" \/ script = "none" => seen = written
  /\ (graphics \/ script = "pausing") /\ ~asked => seen = Drawing
  /\ script \in {"none", "pausing"} => ~graphics
ConsoleInv == Flags /\ ConsoleTypes /\ OutputInv /\ PollInv /\ ScreenInv

LEMMA ConsoleInvHolds == ConsoleInv => ConsoleTells
<1> SUFFICES ASSUME ConsoleInv PROVE ConsoleTells
  OBVIOUS
<1>1. POLL_MS \in Nat
  BY ConsoleTimes
<1>2. script = "sleeping" /\ ~graphics => seen >= told
  BY DEF Flags, ConsoleInv, ConsoleTypes, OutputInv, Runs
<1>3. late < SHOW_MS + POLL_MS /\ backFor <= POLL_MS
  BY <1>1 DEF Flags, ConsoleInv, ConsoleTypes, OutputInv, PollInv
<1>. QED BY <1>2, <1>3 DEF ConsoleTells, ConsoleInv, ScreenInv

(* What show_output() does: it holds the output back, or puts it there.    *)
HeldBack(owes, force) ==
  /\ seen' = seen /\ sinceShow' = sinceShow /\ (pending' <=> owes) /\ pending' \in BOOLEAN
  /\ ~owes \/ graphics \/ (~force /\ sinceShow < SHOW_MS)
PutThere(owes, out) == seen' = out /\ sinceShow' = 0 /\ ~pending' /\ pending' \in BOOLEAN /\ owes /\ ~graphics

LEMMA ShowIs ==
  ASSUME NEW owes \in BOOLEAN, NEW force \in BOOLEAN, NEW out, graphics \in BOOLEAN, ShowOutput(owes, force, out)
  PROVE  HeldBack(owes, force) \/ PutThere(owes, out)
BY DEF ShowOutput, HeldBack, PutThere

LEMMA ConsoleStepKeeps == ASSUME ConsoleInv, ConsoleStep PROVE ConsoleInv'
<1>0. SHOW_MS \in Nat \ {0} /\ POLL_MS \in Nat \ {0}
  BY ConsoleTimes
<1>. USE DEF Flags, ConsoleInv, ConsoleTypes, OutputInv, PollInv, ScreenInv, Runs, InScript, Lateness, Drawing
<1>1. CASE ScriptBegins
  <2>5. Flags'
    BY <1>0, <1>1 DEF ScriptBegins
  <2>6. ConsoleTypes'
    BY <1>0, <1>1 DEF ScriptBegins
  <2>7. OutputInv'
    BY <1>0, <1>1 DEF ScriptBegins
  <2>8. PollInv'
    BY <1>0, <1>1 DEF ScriptBegins
  <2>9. ScreenInv'
    BY <1>0, <1>1 DEF ScriptBegins
  <2>. QED BY <2>5, <2>6, <2>7, <2>8, <2>9
<1>2. CASE ScriptPrints
    <2>1. ShowOutput(TRUE, FALSE, written')
      BY <1>2 DEF ScriptPrints
    <2>2. graphics \in BOOLEAN /\ pending \in BOOLEAN
      BY DEF Flags, ConsoleInv
    <2>3. HeldBack(TRUE, FALSE) \/ PutThere(TRUE, written')
      BY <2>1, <2>2 DEF ShowOutput, HeldBack, PutThere
    <2>4. CASE HeldBack(TRUE, FALSE)
      <3>1. Flags'
        BY <1>0, <1>2, <2>4 DEF ScriptPrints, HeldBack, PutThere
      <3>2. ConsoleTypes'
        BY <1>0, <1>2, <2>4 DEF ScriptPrints, HeldBack, PutThere
      <3>3. OutputInv'
        BY <1>0, <1>2, <2>4 DEF ScriptPrints, HeldBack, PutThere
      <3>4. PollInv'
        BY <1>0, <1>2, <2>4 DEF ScriptPrints, HeldBack, PutThere
      <3>5. ScreenInv'
        BY <1>0, <1>2, <2>4 DEF ScriptPrints, HeldBack, PutThere
      <3>. QED BY <3>1, <3>2, <3>3, <3>4, <3>5
    <2>5. CASE PutThere(TRUE, written')
      <3>1. Flags'
        BY <1>0, <1>2, <2>5 DEF ScriptPrints, HeldBack, PutThere
      <3>2. ConsoleTypes'
        BY <1>0, <1>2, <2>5 DEF ScriptPrints, HeldBack, PutThere
      <3>3. OutputInv'
        BY <1>0, <1>2, <2>5 DEF ScriptPrints, HeldBack, PutThere
      <3>4. PollInv'
        BY <1>0, <1>2, <2>5 DEF ScriptPrints, HeldBack, PutThere
      <3>5. ScreenInv'
        BY <1>0, <1>2, <2>5 DEF ScriptPrints, HeldBack, PutThere
      <3>. QED BY <3>1, <3>2, <3>3, <3>4, <3>5
    <2>. QED BY <2>3, <2>4, <2>5
<1>3. CASE ScriptDraws
  <2>5. Flags'
    BY <1>0, <1>3 DEF ScriptDraws
  <2>6. ConsoleTypes'
    BY <1>0, <1>3 DEF ScriptDraws
  <2>7. OutputInv'
    BY <1>0, <1>3 DEF ScriptDraws
  <2>8. PollInv'
    BY <1>0, <1>3 DEF ScriptDraws
  <2>9. ScreenInv'
    BY <1>0, <1>3 DEF ScriptDraws
  <2>. QED BY <2>5, <2>6, <2>7, <2>8, <2>9
<1>4. CASE Poll
  <2>1. CASE sincePoll < POLL_MS
    <3>5. Flags'
      BY <1>0, <1>4, <2>1 DEF Poll
    <3>6. ConsoleTypes'
      BY <1>0, <1>4, <2>1 DEF Poll
    <3>7. OutputInv'
      BY <1>0, <1>4, <2>1 DEF Poll
    <3>8. PollInv'
      BY <1>0, <1>4, <2>1 DEF Poll
    <3>9. ScreenInv'
      BY <1>0, <1>4, <2>1 DEF Poll
    <3>. QED BY <3>5, <3>6, <3>7, <3>8, <3>9
  <2>2. CASE ~(sincePoll < POLL_MS)
      <3>1. ShowOutput(pending, FALSE, written)
        BY <1>4, <2>2 DEF Poll
      <3>2. graphics \in BOOLEAN /\ pending \in BOOLEAN
        BY DEF Flags, ConsoleInv
      <3>3. HeldBack(pending, FALSE) \/ PutThere(pending, written)
        BY <3>1, <3>2 DEF ShowOutput, HeldBack, PutThere
      <3>4. CASE HeldBack(pending, FALSE)
        <4>1. Flags'
          BY <1>0, <1>4, <2>2, <3>4 DEF Poll, HeldBack, PutThere
        <4>2. ConsoleTypes'
          BY <1>0, <1>4, <2>2, <3>4 DEF Poll, HeldBack, PutThere
        <4>3. OutputInv'
          BY <1>0, <1>4, <2>2, <3>4 DEF Poll, HeldBack, PutThere
        <4>4. PollInv'
          BY <1>0, <1>4, <2>2, <3>4 DEF Poll, HeldBack, PutThere
        <4>5. ScreenInv'
          BY <1>0, <1>4, <2>2, <3>4 DEF Poll, HeldBack, PutThere
        <4>. QED BY <4>1, <4>2, <4>3, <4>4, <4>5
      <3>5. CASE PutThere(pending, written)
        <4>1. Flags'
          BY <1>0, <1>4, <2>2, <3>5 DEF Poll, HeldBack, PutThere
        <4>2. ConsoleTypes'
          BY <1>0, <1>4, <2>2, <3>5 DEF Poll, HeldBack, PutThere
        <4>3. OutputInv'
          BY <1>0, <1>4, <2>2, <3>5 DEF Poll, HeldBack, PutThere
        <4>4. PollInv'
          BY <1>0, <1>4, <2>2, <3>5 DEF Poll, HeldBack, PutThere
        <4>5. ScreenInv'
          BY <1>0, <1>4, <2>2, <3>5 DEF Poll, HeldBack, PutThere
        <4>. QED BY <4>1, <4>2, <4>3, <4>4, <4>5
      <3>. QED BY <3>3, <3>4, <3>5
  <2>. QED BY <2>1, <2>2
<1>5. CASE ScriptSleeps
    <2>1. ShowOutput(pending, TRUE, written)
      BY <1>5 DEF ScriptSleeps
    <2>2. graphics \in BOOLEAN /\ pending \in BOOLEAN
      BY DEF Flags, ConsoleInv
    <2>3. HeldBack(pending, TRUE) \/ PutThere(pending, written)
      BY <2>1, <2>2 DEF ShowOutput, HeldBack, PutThere
    <2>4. CASE HeldBack(pending, TRUE)
      <3>1. Flags'
        BY <1>0, <1>5, <2>4 DEF ScriptSleeps, HeldBack, PutThere
      <3>2. ConsoleTypes'
        BY <1>0, <1>5, <2>4 DEF ScriptSleeps, HeldBack, PutThere
      <3>3. OutputInv'
        BY <1>0, <1>5, <2>4 DEF ScriptSleeps, HeldBack, PutThere
      <3>4. PollInv'
        BY <1>0, <1>5, <2>4 DEF ScriptSleeps, HeldBack, PutThere
      <3>5. ScreenInv'
        BY <1>0, <1>5, <2>4 DEF ScriptSleeps, HeldBack, PutThere
      <3>. QED BY <3>1, <3>2, <3>3, <3>4, <3>5
    <2>5. CASE PutThere(pending, written)
      <3>1. Flags'
        BY <1>0, <1>5, <2>5 DEF ScriptSleeps, HeldBack, PutThere
      <3>2. ConsoleTypes'
        BY <1>0, <1>5, <2>5 DEF ScriptSleeps, HeldBack, PutThere
      <3>3. OutputInv'
        BY <1>0, <1>5, <2>5 DEF ScriptSleeps, HeldBack, PutThere
      <3>4. PollInv'
        BY <1>0, <1>5, <2>5 DEF ScriptSleeps, HeldBack, PutThere
      <3>5. ScreenInv'
        BY <1>0, <1>5, <2>5 DEF ScriptSleeps, HeldBack, PutThere
      <3>. QED BY <3>1, <3>2, <3>3, <3>4, <3>5
    <2>. QED BY <2>3, <2>4, <2>5
<1>6. CASE ScriptWakes
  <2>5. Flags'
    BY <1>0, <1>6 DEF ScriptWakes
  <2>6. ConsoleTypes'
    BY <1>0, <1>6 DEF ScriptWakes
  <2>7. OutputInv'
    BY <1>0, <1>6 DEF ScriptWakes
  <2>8. PollInv'
    BY <1>0, <1>6 DEF ScriptWakes
  <2>9. ScreenInv'
    BY <1>0, <1>6 DEF ScriptWakes
  <2>. QED BY <2>5, <2>6, <2>7, <2>8, <2>9
<1>7. CASE ScriptAsks
  <2>5. Flags'
    BY <1>0, <1>7 DEF ScriptAsks
  <2>6. ConsoleTypes'
    BY <1>0, <1>7 DEF ScriptAsks
  <2>7. OutputInv'
    BY <1>0, <1>7 DEF ScriptAsks
  <2>8. PollInv'
    BY <1>0, <1>7 DEF ScriptAsks
  <2>9. ScreenInv'
    BY <1>0, <1>7 DEF ScriptAsks
  <2>. QED BY <2>5, <2>6, <2>7, <2>8, <2>9
<1>8. CASE LineKey
  <2>5. Flags'
    BY <1>0, <1>8 DEF LineKey
  <2>6. ConsoleTypes'
    BY <1>0, <1>8 DEF LineKey
  <2>7. OutputInv'
    BY <1>0, <1>8 DEF LineKey
  <2>8. PollInv'
    BY <1>0, <1>8 DEF LineKey
  <2>9. ScreenInv'
    BY <1>0, <1>8 DEF LineKey
  <2>. QED BY <2>5, <2>6, <2>7, <2>8, <2>9
<1>9. CASE LineEnds
    <2>1. ShowOutput(TRUE, FALSE, written')
      BY <1>9 DEF LineEnds
    <2>2. graphics \in BOOLEAN /\ pending \in BOOLEAN
      BY DEF Flags, ConsoleInv
    <2>3. HeldBack(TRUE, FALSE) \/ PutThere(TRUE, written')
      BY <2>1, <2>2 DEF ShowOutput, HeldBack, PutThere
    <2>4. CASE HeldBack(TRUE, FALSE)
      <3>1. Flags'
        BY <1>0, <1>9, <2>4 DEF LineEnds, HeldBack, PutThere
      <3>2. ConsoleTypes'
        BY <1>0, <1>9, <2>4 DEF LineEnds, HeldBack, PutThere
      <3>3. OutputInv'
        BY <1>0, <1>9, <2>4 DEF LineEnds, HeldBack, PutThere
      <3>4. PollInv'
        BY <1>0, <1>9, <2>4 DEF LineEnds, HeldBack, PutThere
      <3>5. ScreenInv'
        BY <1>0, <1>9, <2>4 DEF LineEnds, HeldBack, PutThere
      <3>. QED BY <3>1, <3>2, <3>3, <3>4, <3>5
    <2>5. CASE PutThere(TRUE, written')
      <3>1. Flags'
        BY <1>0, <1>9, <2>5 DEF LineEnds, HeldBack, PutThere
      <3>2. ConsoleTypes'
        BY <1>0, <1>9, <2>5 DEF LineEnds, HeldBack, PutThere
      <3>3. OutputInv'
        BY <1>0, <1>9, <2>5 DEF LineEnds, HeldBack, PutThere
      <3>4. PollInv'
        BY <1>0, <1>9, <2>5 DEF LineEnds, HeldBack, PutThere
      <3>5. ScreenInv'
        BY <1>0, <1>9, <2>5 DEF LineEnds, HeldBack, PutThere
      <3>. QED BY <3>1, <3>2, <3>3, <3>4, <3>5
    <2>. QED BY <2>3, <2>4, <2>5
<1>10. CASE ScriptEnds
  <2>5. Flags'
    BY <1>0, <1>10 DEF ScriptEnds
  <2>6. ConsoleTypes'
    BY <1>0, <1>10 DEF ScriptEnds
  <2>7. OutputInv'
    BY <1>0, <1>10 DEF ScriptEnds
  <2>8. PollInv'
    BY <1>0, <1>10 DEF ScriptEnds
  <2>9. ScreenInv'
    BY <1>0, <1>10 DEF ScriptEnds
  <2>. QED BY <2>5, <2>6, <2>7, <2>8, <2>9
<1>11. CASE Interrupted
  <2>5. Flags'
    BY <1>0, <1>11 DEF Interrupted
  <2>6. ConsoleTypes'
    BY <1>0, <1>11 DEF Interrupted
  <2>7. OutputInv'
    BY <1>0, <1>11 DEF Interrupted
  <2>8. PollInv'
    BY <1>0, <1>11 DEF Interrupted
  <2>9. ScreenInv'
    BY <1>0, <1>11 DEF Interrupted
  <2>. QED BY <2>5, <2>6, <2>7, <2>8, <2>9
<1>12. CASE PauseEnds
  <2>5. Flags'
    BY <1>0, <1>12 DEF PauseEnds
  <2>6. ConsoleTypes'
    BY <1>0, <1>12 DEF PauseEnds
  <2>7. OutputInv'
    <3>1. /\ late' = late /\ seen' = written /\ told' = told /\ told <= written /\ ~graphics /\ graphics' = graphics
      BY <1>12 DEF PauseEnds
    <3>2. ~Runs'
      BY <1>12 DEF PauseEnds
    <3>3. late < SHOW_MS + POLL_MS
      OBVIOUS
    <3>4. script = "pausing"
      BY <1>12 DEF PauseEnds
    <3>5. late' = 0
      BY <3>1, <3>4
    <3>6. 0 < SHOW_MS + POLL_MS
      BY <1>0
    <3>7. script' # "pausing"
      BY <1>12 DEF PauseEnds
    <3>. QED BY ONLY <3>2, <3>5, <3>6, <3>7 DEF OutputInv
  <2>8. PollInv'
    BY <1>0, <1>12 DEF PauseEnds
  <2>9. ScreenInv'
    BY <1>0, <1>12 DEF PauseEnds
  <2>. QED BY <2>5, <2>6, <2>7, <2>8, <2>9
<1>13. CASE PressKey \/ AppKey
  <2>5. Flags'
    BY <1>0, <1>13 DEF PressKey, AppKey
  <2>6. ConsoleTypes'
    BY <1>0, <1>13 DEF PressKey, AppKey
  <2>7. OutputInv'
    BY <1>0, <1>13 DEF PressKey, AppKey
  <2>8. PollInv'
    BY <1>0, <1>13 DEF PressKey, AppKey
  <2>9. ScreenInv'
    BY <1>0, <1>13 DEF PressKey, AppKey
  <2>. QED BY <2>5, <2>6, <2>7, <2>8, <2>9
<1>14. CASE TimePasses
  <2>5. Flags'
    BY <1>0, <1>14 DEF TimePasses, UpTo
  <2>6. ConsoleTypes'
    BY <1>0, <1>14 DEF TimePasses, UpTo
  <2>7. OutputInv'
    BY <1>0, <1>14 DEF TimePasses, UpTo
  <2>8. PollInv'
    BY <1>0, <1>14 DEF TimePasses, UpTo
  <2>9. ScreenInv'
    BY <1>0, <1>14 DEF TimePasses, UpTo
  <2>. QED BY <2>5, <2>6, <2>7, <2>8, <2>9
<1>. QED BY <1>1, <1>2, <1>3, <1>4, <1>5, <1>6, <1>7, <1>8, <1>9, <1>10, <1>11, <1>12, <1>13, <1>14 DEF ConsoleStep

ConsolePart == part = "console" => ConsoleInv

LEMMA ConsoleKeeps == ASSUME ConsolePart, [AppsNext]_appsVars PROVE ConsolePart'
<1>1. CASE part = "console" /\ ConsoleStep
  BY <1>1, ConsoleStepKeeps, PartStep DEF ConsolePart
<1>2. CASE UNCHANGED appsVars
  BY <1>2 DEF appsVars, console, ConsolePart, Flags, ConsoleInv, ConsoleTypes, OutputInv, PollInv, ScreenInv, Runs
<1>. QED BY <1>1, <1>2, PartStep DEF ConsolePart

LEMMA ConsoleStarts == AppsInit => ConsolePart
<1> SUFFICES ASSUME AppsInit PROVE ConsoleInv
  BY DEF ConsolePart
<1>1. ConsoleInit
  BY DEF AppsInit
<1>2. Flags
  BY <1>1 DEF ConsoleInit, Flags
<1>3. ConsoleTypes /\ PollInv
  BY <1>1, ConsoleTimes DEF ConsoleInit, ConsoleTypes, PollInv
<1>4. OutputInv
  BY <1>1, ConsoleTimes DEF ConsoleInit, OutputInv, Runs
<1>5. ScreenInv
  BY <1>1 DEF ConsoleInit, ScreenInv
<1>. QED BY <1>2, <1>3, <1>4, <1>5 DEF ConsoleInv

-----------------------------------------------------------------------------
(* The line that input() asks for.                                         *)
InputChars == {"+", "=", "z", "Z", "e", NoChar}
LineInv ==
  /\ buf \in Seq(InputChars) /\ Len(buf) < BUF_MAX
  /\ inputAt # "nowhere" /\ ~changed => drawnBuf = <<buf, mod>>

LEMMA LineInvHolds == LineInv => LineTells
BY DEF LineInv, LineTells

LEMMA ErasedFits ==
  ASSUME LineInv PROVE Erased \in Seq(InputChars) /\ Len(Erased) < BUF_MAX
<1>1. CASE buf = <<>>
  BY <1>1 DEF LineInv, Erased
<1>2. CASE buf # <<>>
  <2>1. Front(buf) \in Seq(InputChars) /\ Len(Front(buf)) = Len(buf) - 1 /\ Len(buf) \in Nat
    BY <1>2, FrontIs DEF LineInv
  <2>. QED BY <1>2, <2>1, BufSize DEF LineInv, Erased
<1>. QED BY <1>1, <1>2

LEMMA TypedFits ==
  ASSUME LineInv, Room, NEW c \in InputChars PROVE Append(buf, c) \in Seq(InputChars) /\ Len(Append(buf, c)) < BUF_MAX
<1>1. Append(buf, c) \in Seq(InputChars) /\ Len(Append(buf, c)) = Len(buf) + 1 /\ Len(buf) \in Nat
  BY AppendProperties DEF LineInv
<1>. QED BY <1>1, BufSize DEF Room

LEMMA LineStepKeeps == ASSUME LineInv, LineInputStep PROVE LineInv'
<1>1. CASE InputStart
  <2>1. buf' = <<>> /\ changed' = TRUE
    BY <1>1 DEF InputStart
  <2>. QED BY <2>1, BufSize DEF LineInv
<1>2. CASE InputDraw
  BY <1>2 DEF InputDraw, LineInv
<1>3. CASE InputMods
  BY <1>3 DEF InputMods, Takes, LineInv
<1>4. CASE InputErase
  BY <1>4, ErasedFits DEF InputErase, Takes, LineInv
<1>5. CASE InputType
  <2>1. PICK k \in DOMAIN Caps : Room /\ buf' = Append(buf, KeyToChar(k)) /\ changed' = TRUE
    BY <1>5 DEF InputType
  <2>2. KeyToChar(k) \in InputChars
    BY DEF KeyToChar, Caps, InputChars
  <2>. QED BY <2>1, <2>2, TypedFits DEF LineInv
<1>6. CASE InputSerial
  <2>1. "z" \in InputChars
    BY DEF InputChars
  <2>2. changed' = TRUE /\ (buf' = Erased \/ (Room /\ buf' = Append(buf, "z")) \/ buf' = buf)
    BY <1>6 DEF InputSerial
  <2>. QED BY <2>1, <2>2, ErasedFits, TypedFits DEF LineInv
<1>7. CASE InputOn \/ InputEnd
  BY <1>7 DEF InputOn, InputEnd, LineInv
<1>. QED BY <1>1, <1>2, <1>3, <1>4, <1>5, <1>6, <1>7 DEF LineInputStep

LinePart == part = "input" => LineInv

LEMMA LineKeeps == ASSUME LinePart, [AppsNext]_appsVars PROVE LinePart'
<1>1. CASE part = "input" /\ LineInputStep
  BY <1>1, LineStepKeeps, PartStep DEF LinePart
<1>2. CASE UNCHANGED appsVars
  BY <1>2 DEF appsVars, lineInput, LinePart, LineInv
<1>. QED BY <1>1, <1>2, PartStep DEF LinePart

LEMMA LineStarts == AppsInit => LinePart
<1> SUFFICES ASSUME AppsInit PROVE LineInv
  BY DEF LinePart
<1>1. buf = <<>> /\ inputAt = "nowhere"
  BY DEF AppsInit, LineInputInit
<1>. QED BY <1>1, BufSize DEF LineInv

-----------------------------------------------------------------------------
ScreensInv == CalcPart /\ FnPart /\ EqPart /\ MenusPart /\ PyPart /\ ConsolePart /\ LinePart

LEMMA ScreensInvHolds == ScreensInv => ScreensTell
BY CalcInvHolds, FnInvHolds, EqInvHolds, MenusInvHolds, ConsoleInvHolds, LineInvHolds
   DEF ScreensInv, CalcPart, FnPart, EqPart, MenusPart, PyPart, PyInv, ConsolePart, LinePart, ScreensTell

LEMMA ScreensStart == AppsInit => ScreensInv
BY CalcStarts, FnStarts, EqStarts, MenusStart, PyStarts, ConsoleStarts, LineStarts DEF ScreensInv

LEMMA ScreensKeep == ScreensInv /\ [AppsNext]_appsVars => ScreensInv'
BY CalcKeeps, FnKeeps, EqKeeps, MenusKeep, PyKeeps, ConsoleKeeps, LineKeeps DEF ScreensInv

(* The apps that draw only what a key changes show their whole state, with *)
(* answers that solve the equations; what the prompt runs is what it       *)
(* shows; and the output of scripts is on the screen in time.              *)
THEOREM ScreensTold == AppsSpec => []ScreensTell
BY ScreensStart, ScreensKeep, ScreensInvHolds, PTL DEF AppsSpec

-----------------------------------------------------------------------------
(* What scripts write.                                                     *)
IsWriter(w) == w = [name |-> w.name, data |-> w.data, dirty |-> w.dirty]
OwedIsOpen == owed \subseteq Slots /\ \A s \in owed : writers[s].dirty = TRUE
WritersInv ==
  /\ DOMAIN files = Names /\ DOMAIN writers = Slots /\ OwedIsOpen
  /\ \A s \in Slots : IsWriter(writers[s]) /\ (Open(s) => writers[s].name \in Names)
ScriptsInv == WritersInv /\ (running = "entry" => app = "python") /\ running \in {"nothing", "entry", "file"} /\ SlotsComeBack
NoScripts == running = "nothing" /\ owed = {} /\ writers = [s \in Slots |-> NoWriter]
ScriptsPart == IF part = "scripts" THEN ScriptsInv ELSE NoScripts

LEMMA NoneIsClean == IsWriter(NoWriter) /\ NoWriter.dirty # TRUE
BY DEF NoWriter, IsWriter

LEMMA OwedOpen == WritersInv => owed \subseteq OpenSlots /\ \A s \in owed : Open(s) /\ writers[s].name \in Names
BY NoneIsClean DEF WritersInv, OwedIsOpen, OpenSlots, Open

(* A step at which no writer in use is closed and no script ends.          *)
LEMMA NothingEnds ==
  ASSUME WritersInv, \A s \in owed : writers'[s] # NoWriter, running' # "nothing" \/ running = "nothing"
  PROVE  WrittenIsSaved
BY DEF WrittenIsSaved

(* What is saved at the end: the last of a file's writers, and so that of  *)
(* each slot unless a later one is.                                        *)
LEMMA LastSaved ==
  ASSUME WritersInv, NEW W \in SUBSET OpenSlots, owed \subseteq W, files' = SavedAll(W, {}), NEW s \in owed
  PROVE  \/ files'[writers[s].name] = writers[s].data
         \/ \E t \in OpenSlots : t > s /\ writers[t].name = writers[s].name
<1> DEFINE n == writers[s].name
           last == {u \in W : writers[u].name = n /\ \A t \in W : writers[t].name = n => t <= u}
<1>1. n \in Names /\ s \in W /\ W \subseteq Slots
  BY OwedOpen DEF OpenSlots
<1>2. files'[n] = IF last = {} THEN files[n] ELSE writers[CHOOSE u \in last : TRUE].data
  <2>1. {u \in W : u \notin {}} = W
    OBVIOUS
  <2>. QED BY <1>1, <2>1 DEF SavedAll
<1>3. \A t \in Slots : t \in Int
  BY DEF Slots
<1>4. CASE \E t \in W : writers[t].name = n /\ ~(t <= s)
  BY <1>1, <1>3, <1>4 DEF OpenSlots
<1>5. CASE \A t \in W : writers[t].name = n => t <= s
  <2>1. s \in last
    BY <1>1, <1>5
  <2>2. \A u \in last : u = s
    BY <1>1, <1>3, <1>5
  <2>. HIDE DEF n, last
  <2>3. (CHOOSE u \in last : TRUE) = s
    <3>1. (CHOOSE u \in last : TRUE) \in last
      BY <2>1
    <3>. QED BY <2>2, <3>1
  <2>4. last # {}
    BY <2>1
  <2>. QED BY <1>2, <2>3, <2>4 DEF n
<1>. QED BY <1>4, <1>5

LEMMA CloseAllSaves ==
  ASSUME WritersInv, \E F \in SUBSET OpenSlots : CloseAll(F)
  PROVE  WrittenIsSaved /\ WritersInv' /\ OpenSlots' = {}
<1>1. PICK F \in SUBSET OpenSlots : CloseAll(F)
  OBVIOUS
<1>2. writers' = [s \in Slots |-> NoWriter] /\ owed' = {} /\ files' = SavedAll(OpenSlots, F) /\ raised' = (F # {})
  BY <1>1 DEF CloseAll
<1>3. OpenSlots' = {}
  BY <1>2 DEF OpenSlots, Open
<1>4. WritersInv'
  <2>1. DOMAIN files' = Names
    BY <1>2 DEF SavedAll
  <2>. QED BY <1>2, <2>1, NoneIsClean DEF WritersInv, OwedIsOpen, Open
<1>5. WrittenIsSaved
  <2>1. CASE F # {}
    BY <1>2, <2>1 DEF WrittenIsSaved
  <2>2. CASE F = {}
    <3>1. \A s \in owed : \/ files'[writers[s].name] = writers[s].data
                          \/ \E t \in OpenSlots : t > s /\ writers[t].name = writers[s].name
      BY <1>2, <2>2, LastSaved, OwedOpen
    <3>. QED BY <3>1 DEF WrittenIsSaved
  <2>. QED BY <2>1, <2>2
<1>. QED BY <1>3, <1>4, <1>5

(* The first free slot.                                                    *)
LEMMA FreeSlot ==
  ASSUME \E s \in Slots : ~Open(s)
  PROVE  \E s \in Slots : ~Open(s) /\ \A t \in 1 .. s - 1 : Open(t)
<1> DEFINE Taken == {s \in Slots : ~Open(s)}
<1>0. Slots \subseteq Nat /\ \A s \in Slots : 1 .. s - 1 \subseteq Slots
  BY WriterSizes DEF Slots
<1>1. Taken \in SUBSET Nat /\ Taken # {}
  BY <1>0
<1>. HIDE DEF Taken
<1>2. PICK s \in Taken : \A t \in Taken : s <= t
  BY <1>1, Smallest
<1>3. s \in Slots /\ ~Open(s)
  BY <1>2 DEF Taken
<1>4. ASSUME NEW t \in 1 .. s - 1 PROVE Open(t)
  <2>1. t \in Slots /\ s \in Nat /\ t \in Nat /\ ~(s <= t)
    BY <1>0, <1>3
  <2>. QED BY <1>2, <2>1 DEF Taken
<1>. QED BY <1>3, <1>4

(* One writer changes, and what is owed with it.                           *)
Only(s, w) == DOMAIN writers' = Slots /\ writers'[s] = w /\ \A t \in Slots : t # s => writers'[t] = writers[t]

LEMMA OneWriter ==
  ASSUME WritersInv, NEW s \in Slots, NEW w, Only(s, w), IsWriter(w), w.name \in Names,
         DOMAIN files' = Names, owed' = owed \/ owed' = owed \ {s} \/ owed' = owed \cup {s},
         s \in owed' => w.dirty = TRUE
  PROVE  WritersInv' /\ \A t \in owed : t # s => writers'[t] # NoWriter
<1>1. DOMAIN writers' = Slots /\ writers'[s] = w /\ \A t \in Slots : t # s => writers'[t] = writers[t]
  BY DEF Only
<1>2. OwedIsOpen'
  <2>1. owed' \subseteq Slots /\ \A t \in owed' : t # s => t \in owed
    BY DEF WritersInv, OwedIsOpen
  <2>. QED BY <1>1, <2>1 DEF WritersInv, OwedIsOpen
<1>3. \A t \in Slots : IsWriter(writers'[t]) /\ (writers'[t] # NoWriter => writers'[t].name \in Names)
  BY <1>1 DEF WritersInv, Open
<1>4. \A t \in owed : t # s => writers'[t] # NoWriter
  BY <1>1, OwedOpen DEF WritersInv, OwedIsOpen, Open
<1>. QED BY <1>1, <1>2, <1>3, <1>4 DEF WritersInv, Open

LEMMA ScriptsStepKeeps ==
  ASSUME ScriptsInv, PythonStep
  PROVE  ScriptsInv' /\ WrittenIsSaved
<1>0. WritersInv
  BY DEF ScriptsInv
<1>1. CASE PyOpen
  <2>0. running' = running /\ app' = app /\ running # "nothing" /\ files' = files
    BY <1>1 DEF PyOpen, Running
  <2>1. CASE \A s \in Slots : Open(s)
    <3>1. UNCHANGED <<writers, owed>>
      BY <1>1, <2>1 DEF PyOpen
    <3>2. WritersInv'
      BY <1>0, <2>0, <3>1 DEF WritersInv, OwedIsOpen, Open
    <3>3. WrittenIsSaved
      BY <1>0, <2>0, <3>1, OwedOpen, NothingEnds DEF Open
    <3>. QED BY <2>0, <3>2, <3>3 DEF ScriptsInv, SlotsComeBack
  <2>2. CASE \E s \in Slots : ~Open(s)
    <3> DEFINE s == CHOOSE s \in Slots : ~Open(s) /\ \A t \in 1 .. s - 1 : Open(t)
    <3>1. s \in Slots /\ ~Open(s)
      BY <2>2, FreeSlot
    <3>2. PICK n \in Names :
            \/ /\ writers' = [writers EXCEPT ![s] = [name |-> n, data |-> <<>>, dirty |-> TRUE]]
               /\ owed' = owed \cup {s}
            \/ /\ writers' = [writers EXCEPT ![s] =
                             [name |-> n, data |-> IF Exists(n) THEN files[n] ELSE <<>>, dirty |-> FALSE]]
               /\ owed' = owed
      BY <1>1, <2>2 DEF PyOpen
    <3>. HIDE DEF s
    <3>3. PICK w : /\ Only(s, w) /\ IsWriter(w) /\ w.name = n
                   /\ (owed' = owed \/ (owed' = owed \cup {s} /\ w.dirty = TRUE))
      <4>1. \A d, e : IsWriter([name |-> n, data |-> d, dirty |-> e])
        BY DEF IsWriter
      <4>2. \A w : writers' = [writers EXCEPT ![s] = w] => Only(s, w)
        BY <1>0, <3>1 DEF WritersInv, Only
      <4> DEFINE u == [name |-> n, data |-> <<>>, dirty |-> TRUE]
                 v == [name |-> n, data |-> IF Exists(n) THEN files[n] ELSE <<>>, dirty |-> FALSE]
      <4>3. IsWriter(u) /\ u.name = n /\ u.dirty = TRUE /\ IsWriter(v) /\ v.name = n
        BY <4>1
      <4>4. \/ writers' = [writers EXCEPT ![s] = u] /\ owed' = owed \cup {s}
            \/ writers' = [writers EXCEPT ![s] = v] /\ owed' = owed
        BY <3>2
      <4>. HIDE DEF u, v
      <4>. QED BY <4>2, <4>3, <4>4
    <3>4. s \notin owed
      BY <1>0, <3>1, OwedOpen
    <3>5. WritersInv' /\ \A t \in owed : t # s => writers'[t] # NoWriter
      BY <1>0, <2>0, <3>1, <3>3, <3>4, OneWriter DEF WritersInv
    <3>6. WrittenIsSaved
      BY <1>0, <2>0, <3>4, <3>5, NothingEnds
    <3>. QED BY <2>0, <3>5, <3>6 DEF ScriptsInv, SlotsComeBack
  <2>. QED BY <2>1, <2>2
<1>2. CASE \E s \in Slots, c \in PyBytes : PyWrite(s, c)
  <2>1. PICK s \in Slots, c \in PyBytes : PyWrite(s, c)
    BY <1>2
  <2>0. running' = running /\ app' = app /\ running # "nothing" /\ files' = files /\ Open(s)
    BY <2>1 DEF PyWrite, Running
  <2>2. CASE UNCHANGED <<writers, owed>>
    <3>2. WritersInv'
      BY <1>0, <2>0, <2>2 DEF WritersInv, OwedIsOpen, Open
    <3>3. WrittenIsSaved
      BY <1>0, <2>0, <2>2, OwedOpen, NothingEnds DEF Open
    <3>. QED BY <2>0, <3>2, <3>3 DEF ScriptsInv, SlotsComeBack
  <2>3. CASE /\ writers' = [writers EXCEPT ![s].data = Append(@, c), ![s].dirty = TRUE]
             /\ owed' = owed \cup {s}
    <3> DEFINE w == [name |-> writers[s].name, data |-> Append(writers[s].data, c), dirty |-> TRUE]
    <3>1. Only(s, w)
      <4>2. writers[s] = [name |-> writers[s].name, data |-> writers[s].data, dirty |-> writers[s].dirty] /\ DOMAIN writers = Slots
        BY <1>0 DEF WritersInv, IsWriter
      <4>3. writers'[s] = [writers[s] EXCEPT !.data = Append(@, c), !.dirty = TRUE]
        BY <2>3, <4>2
      <4>4. writers'[s] = w
        BY <4>2, <4>3
      <4>. QED BY <2>3, <4>2, <4>4 DEF Only
    <3>2. IsWriter(w) /\ w.dirty = TRUE /\ w.name = writers[s].name
      BY DEF IsWriter
    <3>. HIDE DEF w
    <3>3. w # NoWriter
      BY <3>2, NoneIsClean
    <3>4. w.name \in Names /\ DOMAIN files' = Names /\ DOMAIN writers = Slots
      BY <1>0, <2>0, <3>2 DEF WritersInv
    <3>5. WritersInv' /\ \A t \in owed : t # s => writers'[t] # NoWriter
      BY <1>0, <2>3, <3>1, <3>2, <3>4, OneWriter
    <3>6. writers'[s] = w
      BY <3>1 DEF Only
    <3>7. WrittenIsSaved
      BY <1>0, <2>0, <3>3, <3>5, <3>6, NothingEnds
    <3>. QED BY <2>0, <3>5, <3>7 DEF ScriptsInv, SlotsComeBack
  <2>. QED BY <2>1, <2>2, <2>3 DEF PyWrite
<1>3. CASE \E s \in Slots : PyFlush(s)
  <2>1. PICK s \in Slots : PyFlush(s)
    BY <1>3
  <2>0. running' = running /\ app' = app /\ running # "nothing" /\ Open(s)
    BY <2>1 DEF PyFlush, Running
  <2>2. CASE UNCHANGED <<files, writers, owed>>
    <3>2. WritersInv'
      BY <1>0, <2>0, <2>2 DEF WritersInv, OwedIsOpen, Open
    <3>3. WrittenIsSaved
      BY <1>0, <2>0, <2>2, OwedOpen, NothingEnds DEF Open
    <3>. QED BY <2>0, <3>2, <3>3 DEF ScriptsInv, SlotsComeBack
  <2>3. CASE /\ files' = [files EXCEPT ![writers[s].name] = writers[s].data]
             /\ writers' = [writers EXCEPT ![s].dirty = FALSE] /\ owed' = owed \ {s}
    <3> DEFINE w == [name |-> writers[s].name, data |-> writers[s].data, dirty |-> FALSE]
    <3>1. Only(s, w)
      <4>2. writers[s] = [name |-> writers[s].name, data |-> writers[s].data, dirty |-> writers[s].dirty] /\ DOMAIN writers = Slots
        BY <1>0 DEF WritersInv, IsWriter
      <4>3. writers'[s] = [writers[s] EXCEPT !.dirty = FALSE]
        BY <2>3, <4>2
      <4>4. writers'[s] = w
        BY <4>2, <4>3
      <4>. QED BY <2>3, <4>2, <4>4 DEF Only
    <3>2. IsWriter(w) /\ w.name = writers[s].name
      BY DEF IsWriter
    <3>. HIDE DEF w
    <3>3. w.name \in Names /\ DOMAIN files' = Names /\ files'[writers[s].name] = writers[s].data
      BY <1>0, <2>0, <2>3, <3>2 DEF WritersInv
    <3>4. s \notin owed'
      BY <2>3
    <3>5. WritersInv' /\ \A t \in owed : t # s => writers'[t] # NoWriter
      BY <1>0, <2>3, <3>1, <3>2, <3>3, <3>4, OneWriter
    <3>6. WrittenIsSaved
      BY <2>0, <3>3, <3>5 DEF WrittenIsSaved
    <3>. QED BY <2>0, <3>5, <3>6 DEF ScriptsInv, SlotsComeBack
  <2>. QED BY <2>1, <2>2, <2>3 DEF PyFlush
<1>4. CASE \E s \in Slots : PyClose(s)
  <2>1. PICK s \in Slots : PyClose(s)
    BY <1>4
  <2>0. running' = running /\ app' = app /\ running # "nothing" /\ Open(s)
    BY <2>1 DEF PyClose, Running
  <2>2. writers' = [writers EXCEPT ![s] = NoWriter] /\ owed' = owed \ {s}
    BY <2>1 DEF PyClose
  <2>3. DOMAIN files = Names /\ writers[s].name \in Names
    BY <1>0, <2>0 DEF WritersInv
  <2>4. DOMAIN files' = Names /\ (raised' \/ files'[writers[s].name] = writers[s].data)
    BY <2>1, <2>3 DEF PyClose
  <2>5. DOMAIN writers' = Slots /\ writers'[s] = NoWriter /\ \A t \in Slots : t # s => writers'[t] = writers[t]
    BY <1>0, <2>2 DEF WritersInv
  <2>6. WritersInv'
    <3>1. OwedIsOpen'
      BY <1>0, <2>2, <2>5 DEF WritersInv, OwedIsOpen
    <3>2. \A t \in Slots : IsWriter(writers'[t]) /\ (writers'[t] # NoWriter => writers'[t].name \in Names)
      BY <1>0, <2>5, NoneIsClean DEF WritersInv, Open
    <3>. QED BY <2>4, <2>5, <3>1, <3>2 DEF WritersInv, Open
  <2>7. WrittenIsSaved
    <3>1. \A t \in owed : t # s => writers'[t] # NoWriter
      BY <1>0, <2>5, OwedOpen DEF WritersInv, OwedIsOpen, Open
    <3>. QED BY <2>0, <2>4, <3>1 DEF WrittenIsSaved
  <2>. QED BY <2>0, <2>6, <2>7 DEF ScriptsInv, SlotsComeBack
<1>5. CASE PyOs \/ PyImport \/ PyEnter \/ PyRunFile \/ PcFile
  <2>1. UNCHANGED <<writers, owed>> /\ app' = app /\ (running' = running \/ running' \in {"entry", "file"})
    BY <1>5 DEF PyOs, PyImport, PyEnter, PyRunFile, PcFile, Running, scripts
  <2>2. DOMAIN files' = Names
    <3>1. DOMAIN files = Names
      BY <1>0 DEF WritersInv
    <3>2. CASE PyOs
      BY <3>1, <3>2 DEF PyOs
    <3>3. CASE PcFile
      BY <3>1, <3>3 DEF PcFile
    <3>. QED BY <1>5, <3>1, <3>2, <3>3 DEF PyImport, PyEnter, PyRunFile
  <2>3. running' = "entry" => app = "python"
    BY <1>5 DEF PyOs, PyImport, PyEnter, PyRunFile, PcFile, Running, scripts, ScriptsInv
  <2>4. WritersInv'
    BY <1>0, <2>1, <2>2 DEF WritersInv, OwedIsOpen, Open
  <2>5. WrittenIsSaved
    BY <1>0, <2>1, OwedOpen, NothingEnds DEF Open
  <2>6. SlotsComeBack'
    BY <2>1 DEF SlotsComeBack, ScriptsInv, OpenSlots, Open
  <2>7. running' \in {"nothing", "entry", "file"}
    BY <2>1 DEF ScriptsInv
  <2>. QED BY <2>1, <2>3, <2>4, <2>5, <2>6, <2>7 DEF ScriptsInv
<1>6. CASE PyEntryEnds
  <2> DEFINE W == {s \in OpenSlots : writers[s].dirty}
  <2>1. PICK F \in SUBSET W :
          /\ files' = SavedAll(W, F) /\ raised' = (F # {}) /\ owed' = owed \ (W \ F)
          /\ writers' = [s \in Slots |-> IF s \in W \ F THEN [writers[s] EXCEPT !.dirty = FALSE] ELSE writers[s]]
    BY <1>6 DEF PyEntryEnds
  <2>2. owed \subseteq W /\ W \in SUBSET OpenSlots /\ W \subseteq Slots
    BY <1>0, OwedOpen DEF WritersInv, OwedIsOpen, OpenSlots
  <2>. HIDE DEF W
  <2>3. DOMAIN files' = Names
    BY <2>1 DEF SavedAll
  <2>4. ASSUME NEW s \in Slots
        PROVE  /\ IsWriter(writers'[s]) /\ (writers'[s] # NoWriter => writers'[s].name \in Names)
               /\ s \notin W \ F => writers'[s] = writers[s]
    <3>1. writers[s] = [name |-> writers[s].name, data |-> writers[s].data, dirty |-> writers[s].dirty]
      BY <1>0 DEF WritersInv, IsWriter
    <3>2. CASE s \in W \ F
      <4>1. writers'[s] = [writers[s] EXCEPT !.dirty = FALSE]
        BY <2>1, <3>2
      <4>2. writers'[s] = [name |-> writers[s].name, data |-> writers[s].data, dirty |-> FALSE]
        BY <3>1, <4>1
      <4>3. IsWriter(writers'[s]) /\ writers'[s].name = writers[s].name
        BY <4>2 DEF IsWriter
      <4>4. writers[s].name \in Names
        BY <1>0, <2>2, <3>2 DEF WritersInv, OpenSlots
      <4>. QED BY <3>2, <4>3, <4>4
    <3>3. CASE s \notin W \ F
      <4>1. writers'[s] = writers[s]
        BY <2>1, <3>3
      <4>. QED BY <1>0, <4>1 DEF WritersInv, Open
    <3>. QED BY <3>2, <3>3
  <2>5. WritersInv'
    <3>1. OwedIsOpen'
      BY <1>0, <2>1, <2>4 DEF WritersInv, OwedIsOpen
    <3>2. DOMAIN writers' = Slots
      BY <2>1
    <3>. QED BY <2>3, <2>4, <3>1, <3>2 DEF WritersInv, Open
  <2>6. WrittenIsSaved
    <3>1. CASE F # {}
      BY <2>1, <3>1 DEF WrittenIsSaved
    <3>2. CASE F = {}
      <4>1. \A s \in owed : \/ files'[writers[s].name] = writers[s].data
                            \/ \E t \in OpenSlots : t > s /\ writers[t].name = writers[s].name
        BY <1>0, <2>1, <2>2, <3>2, LastSaved
      <4>. QED BY <4>1 DEF WrittenIsSaved
    <3>. QED BY <3>1, <3>2
  <2>7. app' = app /\ running = "entry" /\ running' = "nothing" /\ app = "python"
    BY <1>6 DEF PyEntryEnds, ScriptsInv
  <2>. QED BY <2>5, <2>6, <2>7 DEF ScriptsInv, SlotsComeBack
<1>7. CASE PyFileEnds \/ ScriptsLeave
  <2>1. (\E F \in SUBSET OpenSlots : CloseAll(F)) /\ running' = "nothing"
    BY <1>7 DEF PyFileEnds, ScriptsLeave
  <2>2. WrittenIsSaved /\ WritersInv' /\ OpenSlots' = {}
    BY <1>0, <2>1, CloseAllSaves
  <2>. QED BY <2>1, <2>2 DEF ScriptsInv, SlotsComeBack
<1>. QED BY <1>1, <1>2, <1>3, <1>4, <1>5, <1>6, <1>7 DEF PythonStep

LEMMA ScriptsKeep ==
  ASSUME ScriptsPart, [AppsNext]_appsVars
  PROVE  ScriptsPart' /\ [WrittenIsSaved /\ SlotsComeBack']_<<app, files, scripts>>
<1>0. part' = part
  BY PartStep
<1>1. CASE part = "scripts" /\ PythonStep
  BY <1>0, <1>1, ScriptsStepKeeps DEF ScriptsPart, ScriptsInv
<1>2. CASE part = "scripts" /\ OpenScripts
  <2>1. ScriptsInv /\ app' = "python" /\ running = "nothing" /\ UNCHANGED <<files, running, writers, owed>>
    BY <1>2 DEF ScriptsPart, OpenScripts, Opening, scripts
  <2>2. WritersInv'
    BY <2>1 DEF ScriptsInv, WritersInv, OwedIsOpen, Open
  <2>3. ScriptsInv' /\ SlotsComeBack'
    BY <2>1, <2>2 DEF ScriptsInv, SlotsComeBack
  <2>4. WrittenIsSaved
    BY <2>1, OwedOpen, NothingEnds DEF ScriptsInv, Open
  <2>. QED BY <1>0, <1>2, <2>3, <2>4 DEF ScriptsPart
<1>3. CASE UNCHANGED appsVars
  BY <1>0, <1>3 DEF appsVars, vars, prefsVars, scripts, ScriptsPart, ScriptsInv, NoScripts, WritersInv, OwedIsOpen, Open, OpenSlots, SlotsComeBack
<1>4. CASE part # "scripts" /\ In(part)
  <2>1. UNCHANGED <<running, writers, owed>> /\ NoScripts
    BY <1>4 DEF In, scripts, ScriptsPart
  <2>2. WrittenIsSaved
    BY <2>1 DEF NoScripts, WrittenIsSaved
  <2>3. SlotsComeBack'
    BY <2>1 DEF NoScripts, SlotsComeBack, OpenSlots, Open
  <2>. QED BY <1>0, <1>4, <2>1, <2>2, <2>3 DEF NoScripts, ScriptsPart
<1>. QED BY <1>1, <1>2, <1>3, <1>4, PartStep

LEMMA ScriptsStart == AppsInit => ScriptsPart
<1> SUFFICES ASSUME AppsInit PROVE ScriptsPart
  OBVIOUS
<1>1. PythonInit /\ Init
  BY DEF AppsInit
<1>2. NoScripts
  BY <1>1 DEF PythonInit, NoScripts
<1>3. DOMAIN files = Names
  BY <1>1 DEF Init
<1>4. WritersInv
  BY <1>2, <1>3, NoneIsClean DEF NoScripts, WritersInv, OwedIsOpen, Open
<1>5. SlotsComeBack
  BY <1>2 DEF NoScripts, SlotsComeBack, OpenSlots, Open
<1>. QED BY <1>2, <1>4, <1>5 DEF NoScripts, ScriptsPart, ScriptsInv

(* What scripts wrote is in the file when their writer is closed or they   *)
(* end, or the loss was told; and no slot stays taken.                     *)
THEOREM ScriptsSaved == AppsSpec => ScriptsSave
BY ScriptsStart, ScriptsKeep, PTL DEF AppsSpec, ScriptsSave
=============================================================================
