-------------------------- MODULE LcdControlProofs --------------------------
(***************************************************************************)
(* lcdcontrol, for any configuration of menus and any display: LCDd has    *)
(* the widgets that are shown, cancel goes back where one came from, the   *)
(* file tells what to take up again, and the cursor of a prompt is on the  *)
(* text.                                                                   *)
(***************************************************************************)
EXTENDS LcdControl, Least, SequenceTheorems

\* Where the program waits, and for what.
WaitInv ==
    /\ pc \in {"off", "dead"} => loaded = NoMenu /\ select_path = <<>>
    /\ pc # "input" => text = NoText
    /\ pc = "run" => todo.do \in {"command", "safe"}
    /\ pc = "input" => todo.do \in {"function", "command", "safe"} /\ todo.prompt \in Nat
    /\ pc = "save" => todo.do = "safe"

\* There are no more characters in the row of the cursor than up to it.
WithinRow(t) == t \in Text /\ 1 <= t.col /\ t.len <= t.col

ControlInv == TypeOK /\ WaitInv /\ (text # NoText => WithinRow(text))

-----------------------------------------------------------------------------
(* Options and menus.                                                      *)

LEMMA Display == Height \in Nat /\ Height >= 2 /\ Width \in Nat /\ Width >= 1
BY LcdControlAssumption

LEMMA LeastOfTwo ==
    ASSUME NEW a \in Nat, NEW b \in Nat
    PROVE  Min({a, b}) = IF b <= a THEN b ELSE a
<1>1. PICK n : n = IF b <= a THEN b ELSE a  OBVIOUS
<1>2. n \in {a, b} /\ n \in Nat /\ \A k \in {a, b} : n <= k  BY <1>1
<1>3. \E k \in {a, b} : \A j \in {a, b} : k <= j  BY <1>2
<1>4. /\ Min({a, b}) \in {a, b}
      /\ \A j \in {a, b} : Min({a, b}) <= j
  BY <1>3 DEF Min
<1> QED  BY <1>1, <1>2, <1>4

LEMMA OptionIs ==
    ASSUME NEW o \in Option
    PROVE  /\ o.do \in {"menu", "function", "tail", "command", "safe", "internal"}
           /\ o.prompt \in Nat \cup {NoPrompt} /\ o # NoOption
           /\ o.do = "menu" => o.arg \in Menu /\ o.prompt = NoPrompt
BY DEF Option, NoOption

LEMMA LastAndFront ==
    ASSUME NEW S, NEW s \in Seq(S), s # <<>>
    PROVE  /\ Len(s) \in Nat /\ Len(s) > 0 /\ Last(s) \in S /\ Last(s) = s[Len(s)]
           /\ Front(s) \in Seq(S) /\ Len(Front(s)) = Len(s) - 1
           /\ \A i \in 1 .. Len(s) - 1 : Front(s)[i] = s[i]
<1>1. Len(s) \in Nat /\ Len(s) > 0  BY EmptySeq, LenProperties
<1>2. PICK n \in Int : n = Len(s) - 1  BY <1>1
<1>3. \A i \in 1 .. n : s[i] \in S
  <2>1. \A i \in 1 .. n : i \in 1 .. Len(s)  BY <1>1, <1>2
  <2> QED  BY <2>1, ElementOfSeq
<1>4. /\ SubSeq(s, 1, n) \in Seq(S)
      /\ Len(SubSeq(s, 1, n)) = IF 1 <= n THEN n - 1 + 1 ELSE 0
      /\ \A i \in 1 .. n - 1 + 1 : SubSeq(s, 1, n)[i] = s[1 + i - 1]
  BY <1>3, SubSeqProperties
<1>5. Front(s) = SubSeq(s, 1, n)  BY <1>2 DEF Front
<1>6. Last(s) \in S /\ Last(s) = s[Len(s)]
  <2>1. Len(s) \in 1 .. Len(s)  BY <1>1
  <2> QED  BY <2>1, ElementOfSeq DEF Last
<1>7. Len(SubSeq(s, 1, n)) = n  BY <1>1, <1>2, <1>4
<1>8. \A i \in 1 .. n : SubSeq(s, 1, n)[i] = s[i]  BY <1>2, <1>4
<1> QED  BY <1>1, <1>2, <1>4, <1>5, <1>6, <1>7, <1>8

LEMMA FrontOfAppend ==
    ASSUME NEW S, NEW s \in Seq(S), NEW x \in S
    PROVE  Append(s, x) \in Seq(S) /\ Append(s, x) # <<>> /\ Front(Append(s, x)) = s
<1>1. PICK t : t = Append(s, x)  OBVIOUS
<1>2. /\ t \in Seq(S) /\ Len(t) = Len(s) + 1 /\ Len(s) \in Nat
      /\ \A i \in 1 .. Len(s) : t[i] = s[i]
  BY <1>1, AppendProperties, LenProperties
<1>3. t # <<>>  BY <1>2, EmptySeq
<1>4. /\ Front(t) \in Seq(S) /\ Len(Front(t)) = Len(t) - 1
      /\ \A i \in 1 .. Len(t) - 1 : Front(t)[i] = t[i]
  BY <1>2, <1>3, LastAndFront
<1>5. Len(t) - 1 = Len(s)  BY <1>2
<1>6. Len(Front(t)) = Len(s) /\ \A i \in 1 .. Len(s) : Front(t)[i] = s[i]
  BY <1>2, <1>4, <1>5
<1>7. Front(t) = s  BY <1>4, <1>6, SeqEqual
<1> QED  BY <1>1, <1>2, <1>3, <1>7

LEMMA OptionAtIs ==
    ASSUME NEW m \in Menu, NEW i \in Nat
    PROVE  /\ OptionAt(Options[m], i) \in Option \cup {NoOption}
           /\ OptionAt(Options[m], i) # NoOption =>
                 \E k \in DOMAIN Options[m] : OptionAt(Options[m], i) = Options[m][k]
<1>1. PICK opts : opts = Options[m]  OBVIOUS
<1>2. opts \in Seq(Option)  BY <1>1, LcdControlAssumption
<1>3. CASE i = 0 /\ opts # <<>>
  <2>1. Len(opts) \in Nat /\ Len(opts) > 0 /\ Last(opts) \in Option /\ Last(opts) = opts[Len(opts)]
    BY <1>2, <1>3, LastAndFront
  <2>2. Len(opts) \in DOMAIN opts  BY <1>2, <2>1, LenProperties
  <2> QED  BY <1>1, <1>3, <2>1, <2>2 DEF OptionAt
<1>4. CASE ~(i = 0 /\ opts # <<>>) /\ i \in DOMAIN opts
  <2>1. opts[i] \in Option  BY <1>2, <1>4, ElementOfSeq, LenProperties
  <2> QED  BY <1>1, <1>4, <2>1 DEF OptionAt
<1>5. CASE ~(i = 0 /\ opts # <<>>) /\ i \notin DOMAIN opts
  BY <1>1, <1>5 DEF OptionAt
<1> QED  BY <1>3, <1>4, <1>5

\* What do_action can be called with.
LEMMA Called ==
    ASSUME ControlInv
    PROVE  /\ OptionAt(options, selected) \in Option \cup {NoOption}
           /\ loaded # NoMenu => CancelTo[loaded] \in Option
           /\ [do |-> "menu", arg |-> MAIN, prompt |-> NoPrompt] \in Option
           /\ Key \subseteq Option
           /\ vars.lastaction \in Option \cup {NoOption}
           /\ prev_menu \in Menu
<1>1. /\ selected \in Nat /\ loaded \in Menu \cup {NoMenu} /\ NoMenu \notin Menu
      /\ vars \in Vars
  BY LcdControlAssumption DEF ControlInv, TypeOK
<1>2. OptionAt(options, selected) \in Option \cup {NoOption}
  <2>1. CASE loaded = NoMenu
    <3>1. options = <<>> /\ DOMAIN options = {}  BY <2>1 DEF options
    <3> QED  BY <3>1 DEF OptionAt
  <2>2. CASE loaded # NoMenu
    <3>1. loaded \in Menu /\ options = Options[loaded]  BY <1>1, <2>2 DEF options
    <3> QED  BY <1>1, <3>1, OptionAtIs
  <2> QED  BY <2>1, <2>2
<1>3. loaded # NoMenu => CancelTo[loaded] \in Option  BY <1>1, LcdControlAssumption
<1>4. [do |-> "menu", arg |-> MAIN, prompt |-> NoPrompt] \in Option
  BY LcdControlAssumption DEF Option
<1>5. Key \subseteq Option  BY LcdControlAssumption
<1>6. vars.lastaction \in Option \cup {NoOption}  BY <1>1 DEF Vars
<1>7. prev_menu \in Menu  BY <1>1, LcdControlAssumption DEF prev_menu
<1> QED  BY <1>2, <1>3, <1>4, <1>5, <1>6, <1>7

-----------------------------------------------------------------------------
(* The text of a prompt.                                                   *)

\* Where the cursor is, and how far that may be from where it should be.
Offset == IF todo.prompt > 0 THEN 1 ELSE 0
Placed(t) ==
    /\ WithinRow(t) /\ 2 <= t.row
    /\ NotCounted(t) \in 0 .. Height - 2
    /\ NotCounted(t) = 0 =>
          ~t.lost /\ t.row = IF t.logical <= Height THEN t.logical ELSE Height

\* The text is what was typed, where the first row of a default begins after one
\* column: the cursor is where the text ends, and the rows above are full.
Exact(t, offset) ==
    ~t.lost =>
        /\ t.len = t.col - IF t.rows = <<>> THEN offset ELSE 0
        /\ \A i \in 1 .. Len(t.rows) : t.rows[i] = Width - IF i = 1 THEN offset ELSE 0

LEMMA TextIs ==
    ASSUME NEW t \in Text
    PROVE  /\ t.row \in Nat /\ t.row <= Height /\ t.logical \in Nat
           /\ t.col \in Nat /\ t.col <= Width /\ t.len \in Nat /\ t.len <= Width
           /\ t.rows \in Seq(0 .. Width) /\ Len(t.rows) \in Nat /\ t.lost \in BOOLEAN
           /\ Height \in Nat /\ Height >= 2 /\ Width \in Nat /\ Width >= 1
<1>1. Height \in Nat /\ Height >= 2 /\ Width \in Nat /\ Width >= 1  BY Display
<1>2. /\ t.row \in 0 .. Height /\ t.logical \in Nat /\ t.col \in 0 .. Width
      /\ t.len \in 0 .. Width /\ t.rows \in Seq(0 .. Width) /\ t.lost \in BOOLEAN
  BY DEF Text
<1>3. Len(t.rows) \in Nat  BY <1>2, LenProperties
<1> QED  BY <1>1, <1>2, <1>3

LEMMA IsText ==
    ASSUME NEW row \in 0 .. Height, NEW logical \in Nat, NEW col \in 0 .. Width,
           NEW len \in 0 .. Width, NEW rows \in Seq(0 .. Width), NEW lost \in BOOLEAN, NEW t,
           t = [row |-> row, logical |-> logical, col |-> col, len |-> len, rows |-> rows,
                lost |-> lost]
    PROVE  /\ t \in Text
           /\ t.row = row /\ t.logical = logical /\ t.col = col /\ t.len = len /\ t.rows = rows
           /\ t.lost = lost
BY DEF Text

LEMMA Texts ==
    /\ NoText \in Text /\ NoText.col = 0
    /\ EmptyText \in Text
    /\ EmptyText.row = 2 /\ EmptyText.logical = 2 /\ EmptyText.col = 1 /\ EmptyText.len = 0
    /\ EmptyText.rows = <<>> /\ EmptyText.lost = FALSE
    /\ [EmptyText EXCEPT !.len = 1] \in Text
    /\ LET t == [EmptyText EXCEPT !.len = 1] IN
       /\ t.row = 2 /\ t.logical = 2 /\ t.col = 1 /\ t.len = 1 /\ t.rows = <<>>
       /\ t.lost = FALSE
<1>1. /\ 0 \in 0 .. Height /\ 2 \in 0 .. Height /\ 0 \in 0 .. Width /\ 1 \in 0 .. Width
      /\ 0 \in Nat /\ 2 \in Nat /\ FALSE \in BOOLEAN
  BY Display
<1>2. PICK rows \in Seq(0 .. Width) : rows = <<>>  BY EmptySeq
<1>10. PICK lost \in BOOLEAN : lost = FALSE  OBVIOUS
<1>3. NoText \in Text /\ NoText.col = 0
  <2>1. PICK t : t = [row |-> 0, logical |-> 0, col |-> 0, len |-> 0, rows |-> rows,
                      lost |-> lost]
    OBVIOUS
  <2>2. t \in Text /\ t.col = 0  BY <1>1, <2>1, IsText
  <2> QED  BY <1>2, <1>10, <2>1, <2>2 DEF NoText
<1>4. PICK e : e = [row |-> 2, logical |-> 2, col |-> 1, len |-> 0, rows |-> rows,
                    lost |-> lost]
  OBVIOUS
<1>5. /\ e \in Text /\ e.row = 2 /\ e.logical = 2 /\ e.col = 1 /\ e.len = 0 /\ e.rows = rows
      /\ e.lost = lost
  BY <1>1, <1>4, IsText
<1>6. EmptyText = e  BY <1>2, <1>4, <1>10 DEF EmptyText
<1>7. PICK t : t = [row |-> 2, logical |-> 2, col |-> 1, len |-> 1, rows |-> rows,
                    lost |-> lost]
  OBVIOUS
<1>8. /\ t \in Text /\ t.row = 2 /\ t.logical = 2 /\ t.col = 1 /\ t.len = 1 /\ t.rows = rows
      /\ t.lost = lost
  BY <1>1, <1>7, IsText
<1>9. [EmptyText EXCEPT !.len = 1] = t  BY <1>4, <1>6, <1>7
<1> QED  BY <1>2, <1>3, <1>5, <1>6, <1>8, <1>9, <1>10

\* What the next character does: in the row, and at the end of it.
LEMMA FurtherIs ==
    ASSUME NEW t \in Text, WithinRow(t), NEW u, u = Further(t)
    PROVE  /\ WithinRow(u) /\ u.lost = t.lost
           /\ t.col < Width => /\ u.row = t.row /\ u.logical = t.logical /\ u.rows = t.rows
                               /\ u.col = t.col + 1 /\ u.len = t.len + 1
           /\ ~(t.col < Width) =>
                 /\ t.col = Width /\ u.row = (IF t.row < Height THEN t.row + 1 ELSE t.row)
                 /\ u.logical = t.logical + 1 /\ u.col = 1 /\ u.len = 1
                 /\ u.rows = Append(t.rows, t.len)
<1>1. /\ t.row \in Nat /\ t.row <= Height /\ t.logical \in Nat
      /\ t.col \in Nat /\ t.col <= Width /\ t.len \in Nat /\ t.len <= Width
      /\ t.rows \in Seq(0 .. Width) /\ Height \in Nat /\ Width \in Nat /\ Width >= 1
      /\ 1 <= t.col /\ t.len <= t.col /\ t.lost \in BOOLEAN
  BY TextIs DEF WithinRow
<1>2. CASE t.col < Width
  <2>1. PICK col : col = t.col + 1  OBVIOUS
  <2>2. PICK len : len = t.len + 1  OBVIOUS
  <2>3. u = [row |-> t.row, logical |-> t.logical, col |-> col, len |-> len, rows |-> t.rows,
             lost |-> t.lost]
    BY <1>2, <2>1, <2>2 DEF Further, Text
  <2>4. t.row \in 0 .. Height /\ col \in 0 .. Width /\ len \in 0 .. Width
    <3>1. t.row \in 0 .. Height  BY <1>1
    <3>2. col \in 0 .. Width  BY <1>1, <1>2, <2>1
    <3>3. len \in 0 .. Width  BY <1>1, <1>2, <2>2
    <3> QED  BY <3>1, <3>2, <3>3
  <2>5. /\ u \in Text /\ u.row = t.row /\ u.logical = t.logical /\ u.col = col
        /\ u.len = len /\ u.rows = t.rows /\ u.lost = t.lost
    BY <1>1, <2>3, <2>4, IsText
  <2>6. 1 <= col /\ len <= col  BY <1>1, <2>1, <2>2
  <2> QED  BY <1>2, <2>1, <2>2, <2>5, <2>6 DEF WithinRow
<1>3. CASE ~(t.col < Width)
  <2>1. PICK row : row = IF t.row < Height THEN t.row + 1 ELSE t.row  OBVIOUS
  <2>2. PICK rows : rows = Append(t.rows, t.len)  OBVIOUS
  <2>3. u = [row |-> row, logical |-> t.logical + 1, col |-> 1, len |-> 1, rows |-> rows,
             lost |-> t.lost]
    BY <1>3, <2>1, <2>2 DEF Further, Wrap
  <2>4. row \in 0 .. Height /\ t.logical + 1 \in Nat /\ 1 \in 0 .. Width /\ t.len \in 0 .. Width
    <3>1. row \in 0 .. Height  BY <1>1, <2>1
    <3>2. t.logical + 1 \in Nat  BY <1>1
    <3>3. 1 \in 0 .. Width /\ t.len \in 0 .. Width  BY <1>1
    <3> QED  BY <3>1, <3>2, <3>3
  <2>5. rows \in Seq(0 .. Width)
    <3>1. PICK len \in 0 .. Width : len = t.len  BY <2>4
    <3>2. PICK s \in Seq(0 .. Width) : s = t.rows  BY <1>1
    <3>3. Append(s, len) \in Seq(0 .. Width)  BY AppendProperties, Zenon
    <3> QED  BY <2>2, <3>1, <3>2, <3>3
  <2>6. /\ u \in Text /\ u.row = row /\ u.logical = t.logical + 1 /\ u.col = 1
        /\ u.len = 1 /\ u.rows = rows /\ u.lost = t.lost
    <3>1. PICK lost \in BOOLEAN : lost = t.lost  BY <1>1
    <3>2. PICK l \in Nat : l = t.logical + 1  BY <2>4
    <3>3. u = [row |-> row, logical |-> l, col |-> 1, len |-> 1, rows |-> rows, lost |-> lost]
      BY <2>3, <3>1, <3>2
    <3>4. /\ u \in Text /\ u.row = row /\ u.logical = l /\ u.col = 1
          /\ u.len = 1 /\ u.rows = rows /\ u.lost = lost
      BY <2>4, <2>5, <3>3, IsText
    <3> QED  BY <3>1, <3>2, <3>4
  <2>7. t.col = Width  BY <1>1, <1>3
  <2> QED  BY <1>3, <2>1, <2>2, <2>6, <2>7 DEF WithinRow
<1> QED  BY <1>2, <1>3

LEMMA BackIs ==
    ASSUME NEW t \in Text
    PROVE  /\ Back(t) \in Text /\ WithinRow(Back(t))
           /\ Back(t).row = t.row /\ Back(t).logical = t.logical /\ Back(t).col = Width
           /\ Back(t).lost = (t.lost \/ t.rows = <<>>)
           /\ t.rows = <<>> => Back(t).rows = <<>>
           /\ t.rows # <<>> => Back(t).len = Last(t.rows) /\ Back(t).rows = Front(t.rows)
<1>1. /\ t.row \in Nat /\ t.row <= Height /\ t.logical \in Nat
      /\ t.rows \in Seq(0 .. Width) /\ Width \in Nat /\ Width >= 1 /\ Height \in Nat
      /\ t.lost \in BOOLEAN
  BY TextIs
<1>2. PICK len : len = IF t.rows = <<>> THEN 0 ELSE Last(t.rows)  OBVIOUS
<1>3. PICK rows : rows = IF t.rows = <<>> THEN t.rows ELSE Front(t.rows)  OBVIOUS
<1>10. PICK lost \in BOOLEAN : lost = (t.lost \/ t.rows = <<>>)  BY <1>1
<1>4. Back(t) = [row |-> t.row, logical |-> t.logical, col |-> Width, len |-> len, rows |-> rows,
                 lost |-> lost]
  <2>1. Back(t) = [t EXCEPT !.col = Width, !.len = len, !.rows = rows, !.lost = lost]
    BY <1>2, <1>3, <1>10 DEF Back
  <2> QED  BY <2>1 DEF Text
<1>5. len \in 0 .. Width /\ rows \in Seq(0 .. Width)
  <2>1. CASE t.rows = <<>>  BY <1>1, <1>2, <1>3, <2>1
  <2>2. CASE t.rows # <<>>  BY <1>1, <1>2, <1>3, <2>2, LastAndFront
  <2> QED  BY <2>1, <2>2
<1>6. t.row \in 0 .. Height /\ Width \in 0 .. Width  BY <1>1
<1>7. PICK u : u = Back(t)  OBVIOUS
<1>8. /\ u \in Text /\ u.row = t.row /\ u.logical = t.logical /\ u.col = Width
      /\ u.len = len /\ u.rows = rows /\ u.lost = lost
  BY <1>1, <1>4, <1>5, <1>6, <1>7, IsText
<1>9. WithinRow(u)  BY <1>1, <1>5, <1>8 DEF WithinRow
<1> QED  BY <1>2, <1>3, <1>7, <1>8, <1>9, <1>10

\* The cursor one back: in the row, to the row before, or nowhere.
LEMMA NearerIs ==
    ASSUME NEW t \in Text, WithinRow(t), NEW u, u = Nearer(t)
    PROVE  /\ WithinRow(u)
           /\ t.col > 1 => /\ u.row = t.row /\ u.logical = t.logical /\ u.rows = t.rows
                           /\ u.col = t.col - 1 /\ u.len = (IF t.len = 0 THEN 0 ELSE t.len - 1)
                           /\ u.lost = t.lost
           /\ ~(t.col > 1) /\ (t.logical > Height \/ t.row > 2) =>
                 /\ u.logical = (IF t.logical > Height THEN t.logical - 1 ELSE t.logical)
                 /\ u.row = (IF t.logical > Height THEN t.row ELSE t.row - 1)
                 /\ u.col = Width /\ u.lost = (t.lost \/ t.rows = <<>>)
                 /\ t.rows = <<>> => u.rows = <<>>
                 /\ t.rows # <<>> => u.len = Last(t.rows) /\ u.rows = Front(t.rows)
           /\ ~(t.col > 1) /\ ~(t.logical > Height) /\ ~(t.row > 2) => u = t
<1>1. /\ t.row \in Nat /\ t.row <= Height /\ t.logical \in Nat
      /\ t.col \in Nat /\ t.col <= Width /\ t.len \in Nat /\ t.len <= Width
      /\ t.rows \in Seq(0 .. Width) /\ Height \in Nat /\ Width \in Nat /\ Width >= 1
      /\ 1 <= t.col /\ t.len <= t.col /\ t.lost \in BOOLEAN
  BY TextIs DEF WithinRow
<1>2. CASE t.col > 1
  <2>1. PICK len : len = IF t.len = 0 THEN 0 ELSE t.len - 1  OBVIOUS
  <2>2. u = [row |-> t.row, logical |-> t.logical, col |-> t.col - 1, len |-> len,
             rows |-> t.rows, lost |-> t.lost]
    BY <1>2, <2>1 DEF Nearer, Text
  <2>3. /\ t.row \in 0 .. Height /\ t.col - 1 \in 0 .. Width /\ len \in 0 .. Width
        /\ 1 <= t.col - 1 /\ len <= t.col - 1
    BY <1>1, <1>2, <2>1
  <2>4. /\ u \in Text /\ u.row = t.row /\ u.logical = t.logical /\ u.col = t.col - 1
        /\ u.len = len /\ u.rows = t.rows /\ u.lost = t.lost
    BY <1>1, <2>2, <2>3, IsText
  <2> QED  BY <1>2, <2>1, <2>3, <2>4 DEF WithinRow
<1>3. PICK b : b = Back(t)  OBVIOUS
<1>4. /\ b \in Text /\ 1 <= b.col /\ b.len <= b.col
      /\ b.row = t.row /\ b.logical = t.logical /\ b.col = Width
      /\ b.lost = (t.lost \/ t.rows = <<>>)
      /\ t.rows = <<>> => b.rows = <<>>
      /\ t.rows # <<>> => b.len = Last(t.rows) /\ b.rows = Front(t.rows)
  BY <1>3, BackIs DEF WithinRow
<1>5. /\ b.col \in 0 .. Width /\ b.len \in 0 .. Width /\ b.rows \in Seq(0 .. Width)
      /\ b.lost \in BOOLEAN
  BY <1>4 DEF Text
<1>6. CASE ~(t.col > 1) /\ t.logical > Height
  <2>1. u = [b EXCEPT !.logical = t.logical - 1]
    <3>1. u = [b EXCEPT !.logical = @ - 1]  BY <1>3, <1>6 DEF Nearer
    <3> QED  BY <1>4, <3>1
  <2>2. u = [row |-> t.row, logical |-> t.logical - 1, col |-> b.col, len |-> b.len,
             rows |-> b.rows, lost |-> b.lost]
    BY <1>4, <2>1 DEF Text
  <2>3. t.row \in 0 .. Height /\ t.logical - 1 \in Nat  BY <1>1, <1>6
  <2>4. /\ u \in Text /\ u.row = t.row /\ u.logical = t.logical - 1 /\ u.col = b.col
        /\ u.len = b.len /\ u.rows = b.rows /\ u.lost = b.lost
    BY <1>5, <2>2, <2>3, IsText
  <2> QED  BY <1>4, <1>6, <2>4 DEF WithinRow
<1>7. CASE ~(t.col > 1) /\ ~(t.logical > Height) /\ t.row > 2
  <2>1. u = [b EXCEPT !.row = t.row - 1]
    <3>1. u = [Back(t) EXCEPT !.row = @ - 1]
      <4>1. Nearer(t) = IF t.row > 2 THEN [Back(t) EXCEPT !.row = @ - 1] ELSE t
        BY <1>7, Zenon DEF Nearer
      <4> QED  BY <1>7, <4>1
    <3> QED  BY <1>3, <1>4, <3>1
  <2>2. PICK row : row = t.row - 1  OBVIOUS
  <2>3. u = [row |-> row, logical |-> t.logical, col |-> b.col, len |-> b.len,
             rows |-> b.rows, lost |-> b.lost]
    BY <1>4, <2>1, <2>2 DEF Text
  <2>4. row \in 0 .. Height  BY <1>1, <1>7, <2>2
  <2>5. /\ u \in Text /\ u.row = row /\ u.logical = t.logical /\ u.col = b.col
        /\ u.len = b.len /\ u.rows = b.rows /\ u.lost = b.lost
    BY <1>1, <1>5, <2>3, <2>4, IsText
  <2> QED  BY <1>4, <1>7, <2>2, <2>5 DEF WithinRow
<1>8. CASE ~(t.col > 1) /\ ~(t.logical > Height) /\ ~(t.row > 2)
  BY <1>8 DEF Nearer
<1> QED  BY <1>2, <1>6, <1>7, <1>8

\* Whatever a set of texts is that typing does not lead out of, a default is in it.
LEMMA TypedIs ==
    ASSUME NEW n \in Nat, n > 0, NEW T, EmptyText \in T, \A t \in T : Further(t) \in T
    PROVE  Typed(n) \in T
<1> DEFINE Turn(f, k) == IF k = 0 THEN EmptyText ELSE Further(f[k - 1])
<1>1. Typed(n) = (CHOOSE f : f = [k \in 0 .. n |-> Turn(f, k)])[n]
  BY DEF Typed
<1>2. \E f : f = [k \in 0 .. n |-> Turn(f, k)]
  <2>1. PICK F : F = [k \in 1 .. n |-> [t \in T |-> Further(t)]]  OBVIOUS
  <2>2. F \in [1 .. n -> [T -> T]]  BY <2>1
  <2>3. PICK f : Obeys(f, n, T, EmptyText, F)  BY <2>2, RecursionExists
  <2>4. f \in [0 .. n -> T] /\ f[0] = EmptyText /\ \A k \in 1 .. n : f[k] = F[k][f[k - 1]]
    BY <2>3 DEF Obeys
  <2>5. ASSUME NEW k \in 1 .. n PROVE f[k] = Further(f[k - 1])
    <3>1. k - 1 \in 0 .. n  OBVIOUS
    <3>2. f[k - 1] \in T  BY <2>4, <3>1
    <3> QED  BY <2>1, <2>4, <3>2
  <2>6. \A k \in 0 .. n : f[k] = Turn(f, k)
    <3> SUFFICES ASSUME NEW k \in 0 .. n PROVE f[k] = Turn(f, k)  OBVIOUS
    <3>1. CASE k = 0  BY <2>4, <3>1
    <3>2. CASE k # 0
      <4>1. k \in 1 .. n  BY <3>2
      <4> QED  BY <2>5, <3>2, <4>1
    <3> QED  BY <3>1, <3>2
  <2> HIDE DEF Turn
  <2>7. f = [k \in 0 .. n |-> Turn(f, k)]  BY <2>4, <2>6
  <2> QED  BY <2>7
<1> HIDE DEF Turn
<1>3. PICK f : f = CHOOSE g : g = [k \in 0 .. n |-> Turn(g, k)]  OBVIOUS
<1>4. f = [k \in 0 .. n |-> Turn(f, k)]  BY <1>2, <1>3
<1>5. \A k \in 0 .. n : f[k] = Turn(f, k)
  <2>1. \A g : g = [k \in 0 .. n |-> Turn(f, k)] => \A k \in 0 .. n : g[k] = Turn(f, k)
    OBVIOUS
  <2> QED  BY <1>4, <2>1
<1> DEFINE U == {k \in 0 .. n : f[k] \in T}
<1>6. 0 \in U
  <2>1. 0 \in 0 .. n  OBVIOUS
  <2> QED  BY <1>5, <2>1 DEF Turn
<1>7. ASSUME NEW k \in 1 .. n, k - 1 \in U PROVE k \in U
  <2>1. k \in 0 .. n /\ k # 0 /\ f[k - 1] \in T  BY <1>7
  <2> QED  BY <1>5, <2>1 DEF Turn
<1> HIDE DEF U
<1>8. \A k \in 0 .. n : k \in U  BY <1>6, <1>7, UpTheNumbers
<1>9. n \in U  BY <1>8
<1> QED  BY <1>1, <1>3, <1>9 DEF U

LEMMA TypedWithin ==
    ASSUME NEW n \in Nat
    PROVE  WithinRow(Typed(n))
<1>1. CASE n = 0
  <2>1. PICK t : t = [EmptyText EXCEPT !.len = 1]  OBVIOUS
  <2>2. t \in Text /\ t.col = 1 /\ t.len = 1  BY <2>1, Texts
  <2>3. Typed(n) = t  BY <1>1, <2>1 DEF Typed
  <2> QED  BY <2>2, <2>3 DEF WithinRow
<1>2. CASE n > 0
  <2> DEFINE T == {t \in Text : WithinRow(t)}
  <2>1. EmptyText \in T  BY Texts DEF WithinRow
  <2>2. \A t \in T : Further(t) \in T
    <3> SUFFICES ASSUME NEW t \in T PROVE Further(t) \in T  OBVIOUS
    <3>1. PICK u : u = Further(t)  OBVIOUS
    <3>2. WithinRow(u)  BY <3>1, FurtherIs
    <3> QED  BY <3>1, <3>2 DEF WithinRow
  <2> HIDE DEF T
  <2>3. Typed(n) \in T  BY <1>2, <2>1, <2>2, TypedIs
  <2> QED  BY <2>3 DEF T
<1> QED  BY <1>1, <1>2

-----------------------------------------------------------------------------
(* The types of the variables, and where the program waits.                *)

MenuOK ==
    /\ loaded \in Menu \cup {NoMenu}
    /\ selected \in Nat /\ select_path \in Seq(Nat)
    /\ maxopts \in Nat /\ prev_maxopts \in Nat /\ widgets \subseteq Nat

FileOK ==
    vars \in Vars /\ file \in [is : {"missing", "torn", "whole"}, vars : Vars]

LEMMA TypeIs ==
    TypeOK <=>
        /\ pc \in {"off", "begin", "menu", "write", "save", "input", "run", "tail", "hung", "dead"}
        /\ todo \in Option \cup {NoOption} /\ MenuOK /\ FileOK /\ text \in Text /\ top \in Nat
BY DEF TypeOK, MenuOK, FileOK

\* What the file can be.
LEMMA Files ==
    /\ NoVars \in Vars /\ NoVars.lastmenu = NoMenu /\ NoVars.lastaction = NoOption
    /\ Torn \in [is : {"missing", "torn", "whole"}, vars : Vars]
    /\ vars \in Vars => Whole \in [is : {"missing", "torn", "whole"}, vars : Vars]
    /\ Torn.is = "torn" /\ Torn.vars = NoVars /\ Whole.is = "whole" /\ Whole.vars = vars
<1>1. NoVars \in Vars  BY DEF NoVars, Vars
<1>2. NoVars.lastmenu = NoMenu /\ NoVars.lastaction = NoOption  BY DEF NoVars
<1> QED  BY <1>1, <1>2 DEF Torn, Whole

LEMMA VarsAre ==
    ASSUME NEW v \in Vars
    PROVE  /\ v.lastmenu \in Menu \cup {NoMenu} /\ v.lastaction \in Option \cup {NoOption}
BY DEF Vars

LEMMA NamesMenu ==
    ASSUME NEW v \in Vars, NEW m \in Menu, NEW w, w = [v EXCEPT !.lastmenu = m]
    PROVE  w \in Vars /\ w.lastmenu = m /\ w.lastaction = v.lastaction
BY DEF Vars

LEMMA NamesAction ==
    ASSUME NEW v \in Vars, NEW o \in Option, NEW w, w = [v EXCEPT !.lastaction = o]
    PROVE  w \in Vars /\ w.lastmenu = v.lastmenu /\ w.lastaction = o
BY DEF Vars

LEMMA NamesMenuOnly ==
    ASSUME NEW v \in Vars, NEW m \in Menu
    PROVE  LET w == [v EXCEPT !.lastmenu = m, !.lastaction = NoOption]
           IN  w \in Vars /\ w.lastmenu = m /\ w.lastaction = NoOption
BY DEF Vars

LEMMA SetsUp ==
    ASSUME NEW prev \in Nat, NEW max \in Nat, widgets \subseteq Nat, WidgetSetup(prev, max)
    PROVE  maxopts' \in Nat /\ prev_maxopts' \in Nat /\ widgets' \subseteq Nat
BY DEF WidgetSetup

LEMMA Pushes ==
    ASSUME MenuOK, Push
    PROVE  /\ select_path' \in Seq(Nat) /\ select_path' # <<>>
           /\ Front(select_path') = select_path
<1>1. select_path \in Seq(Nat) /\ selected \in Nat  BY DEF MenuOK
<1>2. /\ Append(select_path, selected) \in Seq(Nat) /\ Append(select_path, selected) # <<>>
      /\ Front(Append(select_path, selected)) = select_path
  BY <1>1, FrontOfAppend
<1> QED  BY <1>2 DEF Push

LEMMA Pops ==
    ASSUME MenuOK, Pop
    PROVE  selected' \in Nat /\ select_path' \in Seq(Nat)
<1>1. select_path \in Seq(Nat)  BY DEF MenuOK
<1>2. CASE select_path = <<>>  BY <1>1, <1>2 DEF Pop
<1>3. CASE select_path # <<>>
  <2>1. Last(select_path) \in Nat /\ Front(select_path) \in Seq(Nat)
    BY <1>1, <1>3, LastAndFront
  <2> QED  BY <1>3, <2>1 DEF Pop
<1> QED  BY <1>2, <1>3

LEMMA Loads ==
    ASSUME MenuOK, NEW m \in Menu, NEW reset \in BOOLEAN, LoadMenu(m, reset)
    PROVE  MenuOK' /\ loaded' = m
<1>1. maxopts \in Nat /\ widgets \subseteq Nat  BY DEF MenuOK
<1>2. loaded' = m /\ WidgetSetup(maxopts, Len(Options[m]))  BY DEF LoadMenu, Showing
<1>3. Len(Options[m]) \in Nat
  <2>1. Options[m] \in Seq(Option)  BY LcdControlAssumption
  <2> QED  BY <2>1, LenProperties
<1>4. maxopts' \in Nat /\ prev_maxopts' \in Nat /\ widgets' \subseteq Nat
  BY <1>1, <1>2, <1>3, SetsUp
<1>5. selected' \in Nat /\ select_path' \in Seq(Nat)
  <2>1. CASE reset
    <3>1. Push /\ selected' = 1  BY <2>1 DEF LoadMenu
    <3>2. select_path' \in Seq(Nat)  BY <3>1, Pushes
    <3> QED  BY <3>1, <3>2
  <2>2. CASE ~reset
    <3>1. Pop  BY <2>2 DEF LoadMenu
    <3> QED  BY <3>1, Pops
  <2> QED  BY <2>1, <2>2
<1> QED  BY <1>2, <1>4, <1>5 DEF MenuOK

LEMMA MenuStays ==
    ASSUME MenuOK, UNCHANGED <<cursor, display>>
    PROVE  MenuOK'
BY DEF MenuOK, cursor, display

\* A menu of which nothing but the widgets changes.
LEMMA MenuSetsUp ==
    ASSUME MenuOK, NEW prev \in Nat, NEW max \in Nat, WidgetSetup(prev, max), UNCHANGED cursor
    PROVE  MenuOK'
<1>1. maxopts' \in Nat /\ prev_maxopts' \in Nat /\ widgets' \subseteq Nat
  BY SetsUp DEF MenuOK
<1> QED  BY <1>1 DEF MenuOK, cursor

LEMMA TypesAre ==
    ASSUME pc' \in {"off", "begin", "menu", "write", "save", "input", "run", "tail", "hung",
                    "dead"},
           todo' \in Option \cup {NoOption}, MenuOK', FileOK', text' \in Text, top' \in Nat
    PROVE  TypeOK'
BY DEF TypeOK, MenuOK, FileOK

\* Where each operation leaves the program.
LEMMA EndsAction ==
    ASSUME MenuOK', vars' \in Vars, EndAction, text' = NoText, top' \in Nat
    PROVE  ControlInv'
<1>1. pc' = "write" /\ file' = Torn /\ todo' = NoOption  BY DEF EndAction
<1>2. FileOK'  BY <1>1, Files DEF FileOK
<1>3. text' \in Text  BY Texts
<1>4. TypeOK'  BY <1>1, <1>2, <1>3, TypesAre
<1> QED  BY <1>1, <1>4 DEF ControlInv, WaitInv

LEMMA Waits ==
    ASSUME pc' \in {"save", "input", "run"}, MenuOK', FileOK', text' = NoText, top' \in Nat,
           todo' \in Option, todo'.do \in {"function", "command", "safe"},
           pc' = "save" => todo'.do = "safe", pc' = "run" => todo'.do \in {"command", "safe"},
           pc' = "input" => todo'.prompt \in Nat
    PROVE  ControlInv'
<1>1. text' \in Text  BY Texts
<1>2. TypeOK'  BY <1>1, TypesAre
<1> QED  BY <1>2 DEF ControlInv, WaitInv

LEMMA Proceeds ==
    ASSUME NEW o \in Option, Proceed(o)
    PROVE  pc' \in {"input", "run"} /\ (pc' = "input" => o.prompt \in Nat)
<1>1. CASE o.prompt = NoPrompt  BY <1>1 DEF Proceed
<1>2. CASE o.prompt # NoPrompt
  <2>1. o.prompt \in Nat  BY <1>2, OptionIs
  <2> QED  BY <1>2, <2>1 DEF Proceed
<1> QED  BY <1>1, <1>2

\* The kinds of options that do_action distinguishes.
LEMMA DoActionTypes ==
    ASSUME ControlInv, pc \in {"begin", "menu"},
           NEW o \in Option \cup {NoOption}, NEW cancelled \in BOOLEAN, DoAction(o, cancelled)
    PROVE  ControlInv'
<1>1. /\ MenuOK /\ FileOK /\ text \in Text /\ text = NoText /\ top \in Nat
      /\ todo \in Option \cup {NoOption}
  <2>1. TypeOK /\ WaitInv  BY DEF ControlInv
  <2>2. text = NoText  BY <2>1 DEF WaitInv
  <2> QED  BY <2>1, <2>2, TypeIs
<1>2. vars \in Vars /\ NoText \in Text  BY <1>1, Texts DEF FileOK
<1>3. CASE o.do = "menu" /\ LoadMenu(o.arg, ~cancelled)
           /\ vars' = [vars EXCEPT !.lastmenu = o.arg] /\ EndAction /\ UNCHANGED <<text, top>>
  <2>1. o \in Option  BY <1>3 DEF NoOption
  <2>2. o.arg \in Menu  BY <1>3, <2>1, OptionIs
  <2>3. MenuOK'  BY <1>1, <1>3, <2>2, Loads
  <2>4. vars' \in Vars  BY <1>2, <1>3, <2>2, NamesMenu
  <2>5. text' = NoText /\ top' \in Nat  BY <1>1, <1>3
  <2> QED  BY <1>3, <2>3, <2>4, <2>5, EndsAction
<1>4. CASE o.do = "function" /\ o.prompt # NoPrompt /\ pc' = "input" /\ todo' = o
           /\ text' = NoText /\ UNCHANGED <<cursor, display, vars, file, top>>
  <2>1. o \in Option  BY <1>4 DEF NoOption
  <2>2. o.prompt \in Nat  BY <1>4, <2>1, OptionIs
  <2>3. MenuOK'  BY <1>1, <1>4, MenuStays
  <2>4. FileOK' /\ top' \in Nat  BY <1>1, <1>4 DEF FileOK
  <2>5. /\ pc' \in {"save", "input", "run"} /\ todo' \in Option
        /\ todo'.do \in {"function", "command", "safe"}
        /\ pc' # "save" /\ pc' # "run" /\ todo'.prompt \in Nat
    BY <1>4, <2>1, <2>2
  <2> QED  BY <1>4, <2>3, <2>4, <2>5, Waits
<1>5. CASE o.do = "tail" /\ pc' = "tail" /\ todo' = o /\ WidgetSetup(prev_maxopts, maxopts)
           /\ top' = Height /\ UNCHANGED <<cursor, vars, file, text>>
  <2>1. o \in Option  BY <1>5 DEF NoOption
  <2>2. MenuOK'  BY <1>1, <1>5, MenuSetsUp DEF MenuOK
  <2>3. FileOK' /\ top' \in Nat /\ text' = NoText /\ text' \in Text
    BY <1>1, <1>2, <1>5, Display DEF FileOK
  <2>4. TypeOK'  BY <1>5, <2>1, <2>2, <2>3, TypesAre
  <2> QED  BY <1>5, <2>3, <2>4 DEF ControlInv, WaitInv
<1>6. CASE o.do = "command" /\ Push /\ Proceed(o) /\ todo' = o
           /\ UNCHANGED <<selected, loaded, display, vars, file, text, top>>
  <2>1. o \in Option  BY <1>6 DEF NoOption
  <2>2. MenuOK'  BY <1>1, <1>6, Pushes DEF MenuOK, display
  <2>3. FileOK' /\ top' \in Nat /\ text' = NoText  BY <1>1, <1>6 DEF FileOK
  <2>4. pc' \in {"input", "run"} /\ (pc' = "input" => o.prompt \in Nat)
    BY <1>6, <2>1, Proceeds
  <2>5. /\ pc' \in {"save", "input", "run"} /\ todo' \in Option
        /\ todo'.do \in {"function", "command", "safe"}
        /\ pc' # "save" /\ todo'.do = "command" /\ (pc' = "input" => todo'.prompt \in Nat)
    BY <1>6, <2>1, <2>4
  <2> QED  BY <2>2, <2>3, <2>5, Waits
<1>7. CASE o.do = "safe" /\ Push /\ SaveFirst(o) /\ todo' = o
           /\ vars' = [vars EXCEPT !.lastaction = o]
           /\ UNCHANGED <<selected, loaded, display, text, top>>
  <2>1. o \in Option  BY <1>7 DEF NoOption
  <2>2. MenuOK'  BY <1>1, <1>7, Pushes DEF MenuOK, display
  <2>3. vars' \in Vars  BY <1>2, <1>7, <2>1, NamesAction
  <2>4. pc' = "save" /\ file' = Torn  BY <1>7 DEF SaveFirst
  <2>5. FileOK' /\ top' \in Nat /\ text' = NoText
    BY <1>1, <1>7, <2>3, <2>4, Files DEF FileOK
  <2>6. /\ pc' \in {"save", "input", "run"} /\ todo' \in Option /\ todo'.do = "safe"
        /\ todo'.do \in {"function", "command", "safe"} /\ pc' # "input" /\ pc' # "run"
    BY <1>7, <2>1, <2>4
  <2> QED  BY <2>2, <2>5, <2>6, Waits
<1>8. CASE EndAction /\ UNCHANGED <<cursor, display, vars, text, top>>
  <2>1. MenuOK'  BY <1>1, <1>8, MenuStays
  <2>2. vars' \in Vars /\ text' = NoText /\ top' \in Nat  BY <1>1, <1>2, <1>8
  <2> QED  BY <1>8, <2>1, <2>2, EndsAction
<1> QED  BY <1>3, <1>4, <1>5, <1>6, <1>7, <1>8 DEF DoAction

LEMMA StopsIt ==
    ASSUME FileOK, NEW how \in {"off", "dead"}, Stop(how)
    PROVE  ControlInv'
<1>1. /\ pc' = how /\ file' = file /\ todo' = NoOption /\ loaded' = NoMenu /\ selected' = 1
      /\ select_path' = <<>> /\ maxopts' = 0 /\ prev_maxopts' = 0 /\ widgets' = {}
      /\ vars' = NoVars /\ text' = NoText /\ top' = 0
  BY DEF Stop
<1>2. MenuOK'
  <2>1. <<>> \in Seq(Nat)  BY EmptySeq
  <2> QED  BY <1>1, <2>1 DEF MenuOK
<1>3. FileOK'  BY <1>1, Files DEF FileOK
<1>4. text' \in Text  BY <1>1, Texts
<1>5. TypeOK'  BY <1>1, <1>2, <1>3, <1>4, TypesAre
<1> QED  BY <1>1, <1>5 DEF ControlInv, WaitInv

LEMMA Begins ==
    ASSUME Init
    PROVE  ControlInv
<1>1. MenuOK
  <2>1. <<>> \in Seq(Nat)  BY EmptySeq
  <2> QED  BY <2>1 DEF Init, MenuOK
<1>2. FileOK
  <2>1. file \in [is : {"missing", "torn", "whole"}, vars : Vars]  BY Files DEF Init
  <2> QED  BY <2>1, Files DEF Init, FileOK
<1>3. TypeOK  BY <1>1, <1>2, TypeIs, Texts DEF Init
<1> QED  BY <1>3 DEF ControlInv, WaitInv, Init

\* A step at which only where the program waits, the cursor of the menu or the line
\* of tail_file change.
LEMMA Moves ==
    ASSUME ControlInv, MenuOK', vars' \in Vars, UNCHANGED <<todo, text, file>>,
           top' \in Nat, text = NoText,
           pc' \in {"begin", "menu", "tail", "hung"}
    PROVE  ControlInv'
<1>1. TypeOK  BY DEF ControlInv
<1>2. FileOK' /\ text' \in Text /\ todo' \in Option \cup {NoOption}
  BY <1>1 DEF TypeOK, FileOK
<1>3. TypeOK'  BY <1>2, TypesAre
<1> QED  BY <1>3 DEF ControlInv, WaitInv

\* The file is whole again, and what is to be done is done.
LEMMA WritesFile ==
    ASSUME ControlInv, Written \/ Saved
    PROVE  ControlInv'
<1>1. /\ MenuOK /\ FileOK /\ text \in Text /\ top \in Nat /\ todo \in Option \cup {NoOption}
      /\ WaitInv
  BY TypeIs DEF ControlInv
<1>2. file' = Whole /\ UNCHANGED <<todo, cursor, display, vars, text, top>>
  BY DEF Written, Saved
<1>3. pc # "input"  BY DEF Written, Saved
<1>4. MenuOK' /\ text' = NoText /\ text' \in Text /\ top' \in Nat
  BY <1>1, <1>2, <1>3, MenuStays DEF WaitInv
<1>5. vars \in Vars /\ vars' = vars  BY <1>1, <1>2 DEF FileOK
<1>6. FileOK'  BY <1>2, <1>5, Files DEF FileOK
<1>7. CASE Written
  <2>1. pc' = "menu" /\ todo' \in Option \cup {NoOption}  BY <1>1, <1>2, <1>7 DEF Written
  <2>2. TypeOK'  BY <1>4, <1>6, <2>1, TypesAre
  <2> QED  BY <1>4, <2>1, <2>2 DEF ControlInv, WaitInv
<1>8. CASE Saved
  <2>1. todo.do = "safe" /\ todo' = todo /\ Proceed(todo)
    BY <1>1, <1>2, <1>8 DEF Saved, WaitInv
  <2>2. todo \in Option  BY <1>1, <2>1 DEF NoOption
  <2>3. pc' \in {"input", "run"} /\ (pc' = "input" => todo.prompt \in Nat)
    BY <2>1, <2>2, Proceeds
  <2>4. /\ pc' \in {"save", "input", "run"} /\ todo' \in Option /\ todo'.do = "safe"
        /\ todo'.do \in {"function", "command", "safe"} /\ pc' # "save"
        /\ (pc' = "input" => todo'.prompt \in Nat)
    BY <2>1, <2>2, <2>3
  <2> QED  BY <1>4, <1>6, <2>4, Waits
<1> QED  BY <1>7, <1>8

\* The command ends, or its prompt is cancelled.
LEMMA GoesBack ==
    ASSUME ControlInv, LoadMenu(prev_menu, FALSE), EndAction, text' = NoText, top' \in Nat,
           \/ Complete
           \/ vars' = [vars EXCEPT !.lastmenu = prev_menu]
    PROVE  ControlInv'
<1>1. MenuOK /\ vars \in Vars  BY TypeIs DEF ControlInv, FileOK
<1>2. prev_menu \in Menu  BY Called
<1>3. MenuOK'  BY <1>1, <1>2, Loads
<1>4. vars' \in Vars
  <2>1. PICK m \in Menu : m = prev_menu  BY <1>2
  <2>2. PICK v \in Vars : v = vars  BY <1>1
  <2>3. CASE Complete
    <3>1. vars' = [v EXCEPT !.lastmenu = m, !.lastaction = NoOption]
      BY <2>1, <2>2, <2>3 DEF Complete
    <3> QED  BY <3>1, NamesMenuOnly, Zenon
  <2>4. CASE vars' = [vars EXCEPT !.lastmenu = prev_menu]
    BY <1>1, <1>2, <2>4, NamesMenu
  <2> QED  BY <2>3, <2>4
<1> QED  BY <1>3, <1>4, EndsAction

LEMMA TypesInput ==
    ASSUME ControlInv, InputStart \/ InputMove
    PROVE  ControlInv'
<1>1. /\ MenuOK /\ FileOK /\ text \in Text /\ top \in Nat /\ todo \in Option \cup {NoOption}
      /\ WaitInv /\ pc = "input"
  BY TypeIs DEF ControlInv, InputStart, InputMove
<1>2. UNCHANGED <<pc, todo, cursor, vars, file, top>>  BY DEF InputStart, InputMove
<1>3. FileOK' /\ top' \in Nat /\ todo' \in Option \cup {NoOption} /\ pc' = "input"
  BY <1>1, <1>2 DEF FileOK
<1>4. MenuOK' /\ WithinRow(text')
  <2>1. CASE InputStart
    <3>1. todo.prompt \in Nat  BY <1>1 DEF WaitInv
    <3>2. WithinRow(text')  BY <2>1, <3>1, TypedWithin DEF InputStart
    <3>3. maxopts \in Nat /\ WidgetSetup(maxopts, Height)  BY <1>1, <2>1 DEF InputStart, MenuOK
    <3>4. MenuOK'  BY <1>1, <1>2, <3>3, Display, MenuSetsUp
    <3> QED  BY <3>2, <3>4
  <2>2. CASE InputMove
    <3>1. text # NoText /\ UNCHANGED display  BY <2>2 DEF InputMove
    <3>2. WithinRow(text)  BY <3>1 DEF ControlInv
    <3>3. text' = Further(text) \/ text' = Nearer(text)  BY <2>2 DEF InputMove
    <3>4. PICK t : t = text'  OBVIOUS
    <3>5. WithinRow(t)  BY <1>1, <3>2, <3>3, <3>4, FurtherIs, NearerIs
    <3>6. MenuOK'  BY <1>1, <1>2, <3>1, MenuStays
    <3> QED  BY <3>4, <3>5, <3>6
  <2> QED  BY <2>1, <2>2
<1>5. TypeOK'  BY <1>3, <1>4, TypesAre DEF WithinRow
<1>6. WaitInv'  BY <1>1, <1>2, <1>3 DEF WaitInv
<1> QED  BY <1>4, <1>5, <1>6 DEF ControlInv

LEMMA ControlStep ==
    ASSUME ControlInv, [Next]_all
    PROVE  ControlInv'
<1>1. /\ MenuOK /\ FileOK /\ text \in Text /\ top \in Nat /\ todo \in Option \cup {NoOption}
      /\ WaitInv /\ vars \in Vars
  BY TypeIs DEF ControlInv, FileOK
<1>2. CASE Start
  <2>1. vars' \in Vars /\ UNCHANGED <<todo, file, text, top>> /\ pc' = "begin" /\ text = NoText
    <3>1. file.vars \in Vars  BY <1>1 DEF FileOK
    <3>2. [NoVars EXCEPT !.lastmenu = MAIN] \in Vars  BY Files, NamesMenu, LcdControlAssumption
    <3> QED  BY <1>1, <1>2, <3>1, <3>2 DEF Start, WaitInv
  <2>2. MenuOK'
    <3>1. CASE vars'.lastmenu = NoMenu  BY <1>1, <1>2, <3>1, MenuStays DEF Start
    <3>2. CASE vars'.lastmenu # NoMenu
      <4>1. vars'.lastmenu \in Menu  BY <2>1, <3>2, VarsAre
      <4>2. LoadMenu(vars'.lastmenu, TRUE)  BY <1>2, <3>2 DEF Start
      <4> QED  BY <1>1, <4>1, <4>2, Loads
    <3> QED  BY <3>1, <3>2
  <2> QED  BY <1>1, <2>1, <2>2, Moves DEF MenuOK
<1>3. CASE Resume
  <2>1. CASE vars.lastaction # NoOption
    <3>1. vars.lastaction \in Option \cup {NoOption}  BY <1>1, VarsAre
    <3> QED  BY <1>3, <2>1, <3>1, DoActionTypes DEF Resume
  <2>2. CASE vars.lastaction = NoOption
    <3>1. pc' = "menu" /\ UNCHANGED <<todo, cursor, display, vars, file, text, top>>
      BY <1>3, <2>2 DEF Resume
    <3>2. MenuOK' /\ text = NoText  BY <1>1, <1>3, <3>1, MenuStays DEF Resume, WaitInv
    <3> QED  BY <1>1, <3>1, <3>2, Moves
  <2> QED  BY <2>1, <2>2
<1>4. CASE Up \/ Down
  <2>1. selected' \in Nat  BY <1>1, <1>4 DEF Up, Down, MenuOK
  <2>2. MenuOK'  BY <1>1, <1>4, <2>1 DEF Up, Down, MenuOK, display
  <2>3. pc' = "menu" /\ text = NoText /\ UNCHANGED <<todo, vars, file, text, top>>
    BY <1>1, <1>4 DEF Up, Down, WaitInv
  <2> QED  BY <1>1, <2>2, <2>3, Moves
<1>5. CASE Go  BY <1>5, Called, DoActionTypes DEF Go
<1>6. CASE Cancel
  <2>1. CASE loaded = NoMenu  BY <1>6, <2>1, Called, DoActionTypes DEF Cancel
  <2>2. CASE loaded # NoMenu  BY <1>6, <2>2, Called, DoActionTypes DEF Cancel
  <2> QED  BY <2>1, <2>2
<1>7. CASE DefaultKey
  <2>1. PICK o \in Key : DoAction(o, FALSE)  BY <1>7 DEF DefaultKey
  <2>2. o \in Option \cup {NoOption}  BY Called
  <2> QED  BY <1>7, <2>1, <2>2, DoActionTypes DEF DefaultKey
<1>8. CASE Written \/ Saved  BY <1>8, WritesFile
<1>9. CASE RunEnds
  <2>1. text' = NoText /\ top' \in Nat  BY <1>1, <1>9 DEF RunEnds, WaitInv
  <2> QED  BY <1>9, <2>1, GoesBack DEF RunEnds
<1>10. CASE InputStart \/ InputMove  BY <1>10, TypesInput
<1>11. CASE InputChange
  <2>1. CASE text.len > 0
    <3>1. UNCHANGED all  BY <1>11, <2>1 DEF InputChange
    <3> QED  BY <3>1 DEF all, cursor, display, ControlInv, TypeOK, WaitInv
  <2>2. CASE ~(text.len > 0)  BY <1>1, <1>11, <2>2, StopsIt DEF InputChange
  <2> QED  BY <2>1, <2>2
<1>12. CASE InputEnds
  <2>1. pc = "input" /\ text' = NoText  BY <1>12 DEF InputEnds
  <2>2. CASE EndAction /\ UNCHANGED <<cursor, display, vars, top>>
    <3>1. MenuOK'  BY <1>1, <2>2, MenuStays
    <3> QED  BY <1>1, <2>1, <2>2, <3>1, EndsAction
  <2>3. CASE todo.do \in {"command", "safe"} /\ pc' = "run"
             /\ UNCHANGED <<todo, cursor, display, vars, file, top>>
    <3>1. todo \in Option  BY <1>1, <2>3 DEF NoOption
    <3>2. MenuOK' /\ FileOK' /\ top' \in Nat  BY <1>1, <2>3, MenuStays DEF FileOK
    <3>3. /\ pc' \in {"save", "input", "run"} /\ todo' \in Option
          /\ todo'.do \in {"function", "command", "safe"} /\ pc' # "save" /\ pc' # "input"
          /\ todo'.do \in {"command", "safe"}
      BY <2>3, <3>1
    <3> QED  BY <2>1, <3>2, <3>3, Waits
  <2>4. CASE LoadMenu(prev_menu, FALSE) /\ vars' = [vars EXCEPT !.lastmenu = prev_menu]
             /\ EndAction /\ UNCHANGED top
    BY <1>1, <2>1, <2>4, GoesBack
  <2> QED  BY <1>12, <2>2, <2>3, <2>4 DEF InputEnds
<1>13. CASE TailKey
  <2>1. /\ pc' \in {"tail", "hung"} /\ text = NoText
        /\ UNCHANGED <<todo, cursor, display, vars, file, text>>
    BY <1>1, <1>13 DEF TailKey, WaitInv
  <2>2. top' \in Nat  BY <1>1, <1>13, Display DEF TailKey
  <2>3. MenuOK'  BY <1>1, <2>1, MenuStays
  <2> QED  BY <1>1, <2>1, <2>2, <2>3, Moves DEF MenuOK
<1>14. CASE TailEnds
  <2>1. MenuOK' /\ text' = NoText /\ top' = 0  BY <1>1, <1>14, MenuStays DEF TailEnds, WaitInv
  <2> QED  BY <1>1, <1>14, <2>1, EndsAction DEF TailEnds
<1>15. CASE TailFails
  <2>1. text' = NoText /\ top' = 0  BY <1>1, <1>15 DEF TailFails, WaitInv
  <2>2. maxopts \in Nat  BY <1>1 DEF MenuOK
  <2>3. MenuOK'  BY <1>1, <1>15, <2>2, Display, MenuSetsUp DEF TailFails
  <2> QED  BY <1>1, <1>15, <2>1, <2>3, EndsAction DEF TailFails
<1>16. CASE PowerCut  BY <1>1, <1>16, StopsIt DEF PowerCut
<1>17. CASE UNCHANGED all
  BY <1>17 DEF all, cursor, display, ControlInv, TypeOK, WaitInv
<1> QED
  BY <1>2, <1>3, <1>4, <1>5, <1>6, <1>7, <1>8, <1>9, <1>10, <1>11, <1>12, <1>13, <1>14,
     <1>15, <1>16, <1>17 DEF Next

\* The variables have their types, and the text of a prompt never ends beyond its
\* cursor, whatever is typed (get_input).
THEOREM Typing == Spec => []TypeOK
<1>1. Init => ControlInv  BY Begins
<1>2. ControlInv /\ [Next]_all => ControlInv'  BY ControlStep
<1>3. ControlInv => TypeOK  BY DEF ControlInv
<1> QED  BY <1>1, <1>2, <1>3, PTL DEF Spec

-----------------------------------------------------------------------------
(* Widgets.                                                                *)

\* widget_setup is called with the number of the widgets there are, or what it adds
\* is there already; a prompt has the whole display.
WidgetsInv ==
    /\ widgets = 1 .. maxopts
    /\ pc = "input" /\ text # NoText => maxopts = Height

LEMMA Replaces ==
    ASSUME widgets = 1 .. maxopts, NEW max, WidgetSetup(maxopts, max)
    PROVE  widgets' = 1 .. maxopts' /\ maxopts' = max
BY DEF WidgetSetup

\* tail_file: nothing is left of what it takes away.
LEMMA Remains ==
    ASSUME widgets = 1 .. maxopts, maxopts \in Nat, prev_maxopts \in Nat,
           WidgetSetup(prev_maxopts, maxopts)
    PROVE  widgets' = 1 .. maxopts'
BY DEF WidgetSetup

LEMMA WidgetsStep ==
    ASSUME ControlInv, WidgetsInv, [Next]_all
    PROVE  WidgetsInv'
<1>1. /\ widgets = 1 .. maxopts /\ maxopts \in Nat /\ prev_maxopts \in Nat
      /\ ControlInv' /\ WaitInv /\ WaitInv' /\ MenuOK
  BY ControlStep, TypeIs DEF ControlInv, WidgetsInv, MenuOK
<1>2. ASSUME NEW o, NEW cancelled, DoAction(o, cancelled)
      PROVE  widgets' = 1 .. maxopts'
  <2>1. CASE LoadMenu(o.arg, ~cancelled)
    <3>1. WidgetSetup(maxopts, Len(Options[o.arg]))  BY <2>1 DEF LoadMenu, Showing
    <3> QED  BY <1>1, <3>1, Replaces
  <2>2. CASE WidgetSetup(prev_maxopts, maxopts)  BY <1>1, <2>2, Remains
  <2>3. CASE UNCHANGED display  BY <1>1, <2>3 DEF display
  <2> QED  BY <1>2, <2>1, <2>2, <2>3 DEF DoAction
<1>3. ASSUME NEW m, NEW reset, LoadMenu(m, reset)
      PROVE  widgets' = 1 .. maxopts'
  BY <1>1, <1>3, Replaces DEF LoadMenu, Showing
<1>4. ASSUME WidgetSetup(maxopts, Height)
      PROVE  widgets' = 1 .. maxopts' /\ maxopts' = Height
  BY <1>1, <1>4, Replaces
<1>5. ASSUME NEW how, Stop(how)
      PROVE  widgets' = 1 .. maxopts'
  BY <1>5 DEF Stop
<1>6. widgets' = 1 .. maxopts'
  <2>1. CASE Start  BY <1>1, <1>3, <2>1 DEF Start, display
  <2>2. CASE Resume  BY <1>1, <1>2, <2>2 DEF Resume, display
  <2>3. CASE Up \/ Down \/ Written \/ Saved \/ InputMove \/ TailKey \/ TailEnds
    BY <1>1, <2>3 DEF Up, Down, Written, Saved, InputMove, TailKey, TailEnds, display
  <2>4. CASE Go  BY <1>2, <2>4 DEF Go
  <2>5. CASE Cancel  BY <1>2, <2>5 DEF Cancel
  <2>6. CASE DefaultKey  BY <1>2, <2>6 DEF DefaultKey
  <2>7. CASE RunEnds  BY <1>3, <2>7 DEF RunEnds
  <2>8. CASE InputStart \/ TailFails  BY <1>4, <2>8 DEF InputStart, TailFails
  <2>9. CASE InputChange  BY <1>1, <1>5, <2>9 DEF InputChange, all, display
  <2>10. CASE InputEnds  BY <1>1, <1>3, <2>10 DEF InputEnds, display
  <2>11. CASE PowerCut  BY <1>5, <2>11 DEF PowerCut
  <2>12. CASE UNCHANGED all  BY <1>1, <2>12 DEF all, display
  <2> QED
    BY <2>1, <2>2, <2>3, <2>4, <2>5, <2>6, <2>7, <2>8, <2>9, <2>10, <2>11, <2>12 DEF Next
<1>7. ASSUME pc' = "input", text' # NoText
      PROVE  maxopts' = Height
  <2>1. CASE InputStart  BY <1>4, <2>1 DEF InputStart
  <2>2. CASE pc = "input" /\ text # NoText /\ maxopts' = maxopts
    BY <2>2 DEF WidgetsInv
  <2>3. CASE Resume \/ Go \/ Cancel \/ DefaultKey
    <3>1. text = NoText  BY <1>1, <2>3 DEF Resume, Go, Cancel, DefaultKey, WaitInv
    <3>2. ASSUME NEW o, NEW cancelled, DoAction(o, cancelled) PROVE text' = NoText
      BY <3>1, <3>2 DEF DoAction
    <3> QED  BY <1>7, <2>3, <3>1, <3>2 DEF Resume, Go, Cancel, DefaultKey
  <2>4. CASE InputMove  BY <2>4 DEF InputMove, display, WidgetsInv
  <2>5. CASE Start \/ Up \/ Down \/ Written \/ Saved \/ RunEnds \/ TailKey
    BY <1>1, <1>7, <2>5
    DEF Start, Up, Down, Written, Saved, RunEnds, EndAction, TailKey, WaitInv
  <2>6. CASE InputChange
    BY <1>7, <2>6 DEF InputChange, Stop, all, display, WidgetsInv
  <2>7. CASE InputEnds \/ TailEnds \/ TailFails \/ PowerCut
    BY <1>7, <2>7 DEF InputEnds, TailEnds, TailFails, EndAction, PowerCut, Stop
  <2>8. CASE UNCHANGED all  BY <1>7, <2>8 DEF all, display, WidgetsInv
  <2> QED  BY <2>1, <2>3, <2>4, <2>5, <2>6, <2>7, <2>8 DEF Next
<1> QED  BY <1>6, <1>7 DEF WidgetsInv

\* LCDd has the widgets that are counted, after any sequence of menus, prompts and
\* files (widget_setup), and redraw, get_input and tail_file set none that it has not,
\* but for the second line of tail_file in front of a menu of one option.
THEOREM WidgetsFollow == Spec => []WidgetsAsShown
<1>1. Init => ControlInv /\ WidgetsInv
  <2>1. Init => 0 = maxopts /\ widgets = {}  BY DEF Init
  <2>2. Init => WidgetsInv  BY <2>1 DEF WidgetsInv, Init
  <2> QED  BY <2>2, Begins
<1>2. ControlInv /\ WidgetsInv /\ [Next]_all => (ControlInv /\ WidgetsInv)'
  BY ControlStep, WidgetsStep
<1>3. ControlInv /\ WidgetsInv => WidgetsAsShown
  <2> SUFFICES ASSUME ControlInv, WidgetsInv PROVE WidgetsAsShown  OBVIOUS
  <2>1. /\ widgets = 1 .. maxopts /\ maxopts \in Nat /\ Height \in Nat
        /\ pc = "input" /\ text # NoText => maxopts = Height
    BY Display DEF ControlInv, TypeOK, WidgetsInv
  <2>2. PICK n : n = IF maxopts <= Height THEN maxopts ELSE Height  OBVIOUS
  <2>3. n \in {maxopts, Height} /\ \A k \in {maxopts, Height} : n <= k  BY <2>1, <2>2
  <2>4. Min({maxopts, Height}) = n
    <3>1. PICK m \in Nat : m = maxopts  BY <2>1
    <3>2. Min({m, Height}) = IF Height <= m THEN Height ELSE m  BY <2>1, LeastOfTwo
    <3> QED  BY <2>1, <2>2, <3>1, <3>2
  <2>5. (pc = "tail" => maxopts >= 2) => Drawn \subseteq 1 .. maxopts
    <3>1. CASE pc = "menu"
      <4>1. Drawn = 1 .. n  BY <2>4, <3>1 DEF Drawn
      <4> QED  BY <2>1, <2>3, <4>1
    <3>2. CASE pc = "input"  BY <2>1, <3>2 DEF Drawn
    <3>3. CASE pc = "tail" /\ maxopts >= 2
      <4>1. Drawn = {1, 2}  BY <3>3 DEF Drawn
      <4>2. 1 \in 1 .. maxopts /\ 2 \in 1 .. maxopts  BY <2>1, <3>3
      <4> QED  BY <4>1, <4>2
    <3>4. CASE pc \notin {"menu", "input", "tail"}  BY <3>4 DEF Drawn
    <3> QED  BY <3>1, <3>2, <3>3, <3>4
  <2> QED  BY <2>1, <2>5 DEF WidgetsAsShown
<1> QED  BY <1>1, <1>2, <1>3, PTL DEF Spec

-----------------------------------------------------------------------------
(* The file.                                                               *)

\* The menu and the safe command in progress, which the variables have before the
\* file has them; a command without a prompt is only ever cut off.
FileInv ==
    /\ loaded # NoMenu => vars.lastmenu = loaded
    /\ loaded # NoMenu /\ file.is = "whole" => file.vars.lastmenu = loaded
    /\ file.is # "whole" => file.vars = NoVars
    /\ vars.lastaction # NoOption => vars.lastaction.do = "safe"
    /\ file.vars.lastaction # NoOption => file.vars.lastaction.do = "safe"
    /\ pc \in {"begin", "menu"} => file.vars.lastaction = vars.lastaction
    /\ vars.lastaction # NoOption /\ vars.lastaction.prompt = NoPrompt
          => pc \in {"begin", "save", "run"}
    /\ pc = "save" => vars.lastaction = todo
    /\ pc \in {"input", "run"} /\ todo.do = "safe" => file.vars.lastaction = todo

LEMMA EndsFile ==
    ASSUME EndAction, loaded' # NoMenu => vars'.lastmenu = loaded',
           vars'.lastaction # NoOption =>
               vars'.lastaction.do = "safe" /\ vars'.lastaction.prompt # NoPrompt
    PROVE  FileInv'
<1>1. pc' = "write" /\ file' = Torn  BY DEF EndAction
<1>2. file'.is = "torn" /\ file'.vars = NoVars /\ file'.vars.lastaction = NoOption
  BY <1>1, Files
<1> QED  BY <1>1, <1>2 DEF FileInv

LEMMA KeepsFile ==
    ASSUME FileInv, UNCHANGED <<vars, file>>, loaded' \in {loaded, NoMenu},
           pc' \in {"menu", "write", "input", "run", "tail", "hung"},
           pc' = "menu" => pc \in {"begin", "menu"},
           vars.lastaction # NoOption => vars.lastaction.prompt # NoPrompt \/ pc' = "run",
           pc' \in {"input", "run"} /\ todo'.do = "safe" =>
               todo' = todo /\ pc \in {"input", "run"}
    PROVE  FileInv'
BY DEF FileInv

LEMMA DoActionFile ==
    ASSUME ControlInv, FileInv, pc \in {"begin", "menu"},
           NEW o \in Option \cup {NoOption}, NEW cancelled \in BOOLEAN, DoAction(o, cancelled),
           pc = "begin" => o.do = "safe"
    PROVE  FileInv'
<1>1. /\ vars \in Vars /\ loaded \in Menu \cup {NoMenu}
      /\ loaded # NoMenu => vars.lastmenu = loaded
      /\ vars.lastaction # NoOption => vars.lastaction.do = "safe"
      /\ pc # "begin" /\ vars.lastaction # NoOption => vars.lastaction.prompt # NoPrompt
  BY DEF ControlInv, TypeOK, FileInv
<1>2. CASE o.do = "menu" /\ LoadMenu(o.arg, ~cancelled)
           /\ vars' = [vars EXCEPT !.lastmenu = o.arg] /\ EndAction
  <2>1. o \in Option  BY <1>2 DEF NoOption
  <2>2. o.arg \in Menu  BY <1>2, <2>1, OptionIs
  <2>3. loaded' = o.arg  BY <1>2 DEF LoadMenu
  <2>4. vars'.lastmenu = o.arg /\ vars'.lastaction = vars.lastaction
    <3>1. PICK w : w = vars'  OBVIOUS
    <3>2. w = [vars EXCEPT !.lastmenu = o.arg]  BY <1>2, <3>1
    <3>3. w.lastmenu = o.arg /\ w.lastaction = vars.lastaction  BY <1>1, <2>2, <3>2, NamesMenu
    <3> QED  BY <3>1, <3>3
  <2> QED  BY <1>1, <1>2, <2>3, <2>4, EndsFile
<1>3. CASE o.do # "safe" /\ pc' \in {"input", "run", "tail"} /\ todo' = o
           /\ UNCHANGED <<loaded, vars, file>>
  BY <1>1, <1>3, KeepsFile
<1>4. CASE o.do = "safe" /\ SaveFirst(o) /\ todo' = o
           /\ vars' = [vars EXCEPT !.lastaction = o] /\ UNCHANGED loaded
  <2>1. o \in Option /\ o # NoOption  BY <1>4 DEF NoOption
  <2>2. vars'.lastmenu = vars.lastmenu /\ vars'.lastaction = o
    BY <1>1, <1>4, <2>1, NamesAction
  <2>3. pc' = "save" /\ file' = Torn  BY <1>4 DEF SaveFirst
  <2>4. file'.is = "torn" /\ file'.vars = NoVars /\ file'.vars.lastaction = NoOption
    BY <2>3, Files
  <2> QED  BY <1>1, <1>4, <2>2, <2>3, <2>4 DEF FileInv
<1>5. CASE o.do # "safe" /\ EndAction /\ UNCHANGED <<cursor, vars>>
  BY <1>1, <1>5, EndsFile DEF cursor
<1> QED
  <2>1. CASE o.do = "command" /\ Proceed(o) /\ todo' = o /\ UNCHANGED <<loaded, vars, file>>
    <3>1. pc' \in {"input", "run"}  BY <2>1 DEF Proceed
    <3> QED  BY <1>3, <2>1, <3>1
  <2>2. CASE o.do \in {"function", "tail"} /\ pc' \in {"input", "tail"} /\ todo' = o
             /\ UNCHANGED <<cursor, vars, file>>
    BY <1>3, <2>2 DEF cursor
  <2> QED  BY <1>2, <1>4, <1>5, <2>1, <2>2 DEF DoAction

LEMMA FileStep ==
    ASSUME ControlInv, FileInv, [Next]_all
    PROVE  FileInv'
<1>1. /\ vars \in Vars /\ loaded \in Menu \cup {NoMenu} /\ WaitInv
      /\ todo \in Option \cup {NoOption} /\ file.vars \in Vars /\ NoMenu \notin Menu
      /\ file.is \in {"missing", "torn", "whole"}
  BY LcdControlAssumption DEF ControlInv, TypeOK
<1>2. /\ loaded # NoMenu => vars.lastmenu = loaded
      /\ vars.lastaction # NoOption => vars.lastaction.do = "safe"
      /\ pc \notin {"begin", "save", "run"} /\ vars.lastaction # NoOption =>
            vars.lastaction.prompt # NoPrompt
  BY DEF FileInv
<1>3. ASSUME NEW how \in {"off", "dead"}, Stop(how)
      PROVE  FileInv'
  <2>1. /\ pc' = how /\ file' = file /\ loaded' = NoMenu /\ vars' = NoVars
    BY <1>3 DEF Stop
  <2> QED  BY <2>1, Files DEF FileInv
<1>4. ASSUME LoadMenu(prev_menu, FALSE), EndAction,
             \/ Complete
             \/ vars' = [vars EXCEPT !.lastmenu = prev_menu] /\ pc = "input"
      PROVE  FileInv'
  <2>1. prev_menu \in Menu /\ loaded' = prev_menu  BY <1>4, Called DEF LoadMenu
  <2>2. CASE Complete
    <3>1. vars'.lastmenu = prev_menu /\ vars'.lastaction = NoOption
      <4>1. PICK w : w = vars'  OBVIOUS
      <4>2. PICK m \in Menu : m = prev_menu  BY <2>1
      <4>3. PICK v \in Vars : v = vars  BY <1>1
      <4>4. w = [v EXCEPT !.lastmenu = m, !.lastaction = NoOption]
        BY <2>2, <4>1, <4>2, <4>3 DEF Complete
      <4>5. w.lastmenu = m /\ w.lastaction = NoOption  BY <4>4, NamesMenuOnly, Zenon
      <4> QED  BY <4>1, <4>2, <4>5
    <3> QED  BY <1>4, <2>1, <3>1, EndsFile
  <2>3. CASE vars' = [vars EXCEPT !.lastmenu = prev_menu] /\ pc = "input"
    <3>1. vars'.lastmenu = prev_menu /\ vars'.lastaction = vars.lastaction
      <4>1. PICK w : w = vars'  OBVIOUS
      <4>2. w = [vars EXCEPT !.lastmenu = prev_menu]  BY <2>3, <4>1
      <4>3. w.lastmenu = prev_menu /\ w.lastaction = vars.lastaction
        BY <1>1, <2>1, <4>2, NamesMenu
      <4> QED  BY <4>1, <4>3
    <3> QED  BY <1>2, <1>4, <2>1, <2>3, <3>1, EndsFile
  <2> QED  BY <1>4, <2>2, <2>3
<1>5. CASE Start
  <2>1. loaded = NoMenu /\ pc' = "begin" /\ file' = file  BY <1>1, <1>5 DEF Start, WaitInv
  <2>2. loaded' # NoMenu => loaded' = vars'.lastmenu
    BY <1>5, <2>1 DEF Start, LoadMenu, cursor
  <2>3. CASE file.is = "missing"
    <3>1. vars'.lastaction = NoOption /\ file.vars.lastaction = NoOption
      <4>1. vars' = [NoVars EXCEPT !.lastmenu = MAIN]  BY <1>5, <2>3 DEF Start
      <4>2. file.vars = NoVars  BY <2>3 DEF FileInv
      <4>3. PICK w : w = vars'  OBVIOUS
      <4>4. w.lastaction = NoVars.lastaction
        BY <4>1, <4>3, Files, NamesMenu, LcdControlAssumption
      <4> QED  BY <4>2, <4>3, <4>4, Files
    <3> QED  BY <2>1, <2>2, <2>3, <3>1 DEF FileInv
  <2>4. CASE file.is # "missing"
    <3>1. vars' = file.vars  BY <1>5, <2>4 DEF Start
    <3> QED  BY <2>1, <2>2, <2>4, <3>1 DEF FileInv
  <2> QED  BY <2>3, <2>4
<1>6. CASE Resume
  <2>1. CASE vars.lastaction # NoOption
    <3>1. vars.lastaction \in Option \cup {NoOption}  BY <1>1, VarsAre
    <3> QED  BY <1>2, <1>6, <2>1, <3>1, DoActionFile DEF Resume
  <2>2. CASE vars.lastaction = NoOption
    BY <1>6, <2>2, KeepsFile DEF Resume, cursor
  <2> QED  BY <2>1, <2>2
<1>7. CASE Up \/ Down
  BY <1>2, <1>7, KeepsFile DEF Up, Down
<1>8. CASE Go  BY <1>8, Called, DoActionFile DEF Go
<1>9. CASE Cancel
  <2>1. CASE loaded = NoMenu  BY <1>9, <2>1, Called, DoActionFile DEF Cancel
  <2>2. CASE loaded # NoMenu  BY <1>9, <2>2, Called, DoActionFile DEF Cancel
  <2> QED  BY <2>1, <2>2
<1>10. CASE DefaultKey
  <2>1. PICK o \in Key : DoAction(o, FALSE)  BY <1>10 DEF DefaultKey
  <2>2. o \in Option \cup {NoOption}  BY Called
  <2> QED  BY <1>10, <2>1, <2>2, DoActionFile DEF DefaultKey
<1>11. CASE Written
  <2>1. /\ pc' = "menu" /\ file'.is = "whole" /\ file'.vars = vars
        /\ UNCHANGED <<loaded, vars>> /\ pc = "write"
    BY <1>11, Files DEF Written, cursor
  <2> QED  BY <1>2, <2>1 DEF FileInv
<1>12. CASE Saved
  <2>1. /\ file'.is = "whole" /\ file'.vars = vars /\ todo' = todo
        /\ UNCHANGED <<loaded, vars>> /\ pc = "save"
    BY <1>12, Files DEF Saved, cursor
  <2>2. vars.lastaction = todo  BY <2>1 DEF FileInv
  <2>3. pc' \in {"input", "run"} /\ (pc' = "input" => todo.prompt # NoPrompt)
    BY <1>12 DEF Saved, Proceed
  <2> QED  BY <1>2, <2>1, <2>2, <2>3 DEF FileInv
<1>13. CASE RunEnds  BY <1>4, <1>13 DEF RunEnds
<1>14. CASE InputStart \/ InputMove
  BY <1>2, <1>14, KeepsFile DEF InputStart, InputMove, cursor
<1>15. CASE InputChange
  <2>1. CASE text.len > 0  BY <1>15, <2>1 DEF InputChange, all, cursor, FileInv
  <2>2. CASE ~(text.len > 0)  BY <1>3, <1>15, <2>2 DEF InputChange
  <2> QED  BY <2>1, <2>2
<1>16. CASE InputEnds
  <2>1. CASE pc = "input" /\ EndAction /\ UNCHANGED <<cursor, vars>>
    BY <1>2, <2>1, EndsFile DEF cursor
  <2>2. CASE pc = "input" /\ pc' = "run" /\ UNCHANGED <<todo, cursor, vars, file>>
    BY <2>2, KeepsFile DEF cursor
  <2>3. CASE pc = "input" /\ LoadMenu(prev_menu, FALSE) /\ EndAction
             /\ vars' = [vars EXCEPT !.lastmenu = prev_menu]
    BY <1>4, <2>3
  <2> QED  BY <1>16, <2>1, <2>2, <2>3 DEF InputEnds
<1>17. CASE TailKey  BY <1>2, <1>17, KeepsFile DEF TailKey, cursor
<1>18. CASE TailEnds \/ TailFails
  BY <1>2, <1>18, EndsFile DEF TailEnds, TailFails, cursor
<1>19. CASE PowerCut  BY <1>3, <1>19 DEF PowerCut
<1>20. CASE UNCHANGED all  BY <1>20 DEF all, cursor, FileInv
<1> QED
  BY <1>5, <1>6, <1>7, <1>8, <1>9, <1>10, <1>11, <1>12, <1>13, <1>14, <1>15, <1>16, <1>17,
     <1>18, <1>19, <1>20 DEF Next

LEMMA FileBegins == Init => FileInv
BY Files DEF Init, FileInv

\* At whatever moment power is cut, but while the file is written (write_inputs), it
\* tells the menu that was shown and the safe command that was running, and none
\* that was complete (run_action).
THEOREM FileTells == Spec => []FileTellsState
<1>1. Init => ControlInv /\ FileInv  BY Begins, FileBegins
<1>2. ControlInv /\ FileInv /\ [Next]_all => (ControlInv /\ FileInv)'
  BY ControlStep, FileStep
<1>3. ControlInv /\ FileInv => FileTellsState
  BY DEF FileInv, FileTellsState
<1> QED  BY <1>1, <1>2, <1>3, PTL DEF Spec

-----------------------------------------------------------------------------
(* The history.                                                            *)

To(m) == [do |-> "menu", arg |-> m, prompt |-> NoPrompt]

\* Each entry of p is the option that leads from one menu to the next, up to m.
Leads(p, m) ==
    p # <<>> =>
        \E ms \in [1 .. Len(p) -> Menu] :
            /\ ms[Len(p)] = m
            /\ \A i \in 2 .. Len(p) : OptionAt(Options[ms[i - 1]], p[i]) = To(ms[i])

\* The cursor is put on the history for a command, too, and comes back from it.
Pushed == pc \in {"save", "run"} \/ (pc = "input" /\ todo.do # "function")

HistoryInv ==
    /\ Pushed => select_path # <<>>
    /\ Leads(IF Pushed THEN Front(select_path) ELSE select_path, loaded)

LEMMA ToIs ==
    ASSUME NEW o \in Option, o.do = "menu"
    PROVE  o = To(o.arg) /\ o.arg \in Menu
<1>1. o.arg \in Menu /\ o.prompt = NoPrompt  BY OptionIs
<1>2. o = [do |-> o.do, arg |-> o.arg, prompt |-> o.prompt]  BY DEF Option
<1> QED  BY <1>1, <1>2 DEF To

LEMMA LeadsAway ==
    ASSUME NEW p \in Seq(Nat), NEW from \in Menu, Leads(p, from),
           NEW i \in Nat, NEW m \in Menu, OptionAt(Options[from], i) = To(m)
    PROVE  Leads(Append(p, i), m)
<1>1. PICK q \in Seq(Nat) : q = Append(p, i)  BY AppendProperties
<1>2. PICK n \in Nat : n = Len(p)  BY LenProperties
<1>3. Len(q) = n + 1 /\ q[n + 1] = i /\ \A k \in 1 .. n : q[k] = p[k]
  BY <1>1, <1>2, AppendProperties
<1>4. PICK ms \in [1 .. n -> Menu] :
        /\ n > 0 => ms[n] = from
        /\ \A k \in 2 .. n : OptionAt(Options[ms[k - 1]], p[k]) = To(ms[k])
  <2>1. CASE p = <<>>
    <3>1. n = 0  BY <1>2, <2>1, EmptySeq
    <3>2. PICK ms : ms = [k \in 1 .. n |-> m]  OBVIOUS
    <3>3. ms \in [1 .. n -> Menu]  BY <3>2
    <3>4. \A k \in 2 .. n : FALSE  BY <3>1
    <3>5. n > 0 => ms[n] = from  BY <3>1
    <3>6. \A k \in 2 .. n : OptionAt(Options[ms[k - 1]], p[k]) = To(ms[k])  BY <3>4
    <3> QED  BY <3>3, <3>5, <3>6
  <2>2. CASE p # <<>>  BY <1>2, <2>2 DEF Leads
  <2> QED  BY <2>1, <2>2
<1>5. PICK ns : ns = [k \in 1 .. n + 1 |-> IF k = n + 1 THEN m ELSE ms[k]]  OBVIOUS
<1>6. ns \in [1 .. n + 1 -> Menu] /\ ns[n + 1] = m /\ \A k \in 1 .. n : ns[k] = ms[k]
  <2>1. ns[n + 1] = m  BY <1>5
  <2>2. \A k \in 1 .. n : ns[k] = ms[k]  BY <1>5
  <2>3. \A k \in 1 .. n + 1 : k = n + 1 \/ k \in 1 .. n  OBVIOUS
  <2>4. \A k \in 1 .. n + 1 : ns[k] \in Menu  BY <2>1, <2>2, <2>3
  <2> QED  BY <1>5, <2>1, <2>2, <2>4
<1>7. ASSUME NEW k \in 2 .. n + 1
      PROVE  OptionAt(Options[ns[k - 1]], q[k]) = To(ns[k])
  <2>1. CASE k = n + 1
    <3>1. n > 0 /\ n \in 1 .. n /\ k - 1 = n  BY <2>1
    <3>2. ns[k - 1] = from /\ ns[k] = m /\ q[k] = i  BY <1>3, <1>4, <1>6, <2>1, <3>1
    <3> QED  BY <3>2
  <2>2. CASE k # n + 1
    <3>1. k \in 2 .. n /\ k \in 1 .. n /\ k - 1 \in 1 .. n  BY <2>2
    <3>2. ns[k - 1] = ms[k - 1] /\ ns[k] = ms[k] /\ q[k] = p[k]  BY <1>3, <1>6, <3>1
    <3>3. OptionAt(Options[ms[k - 1]], p[k]) = To(ms[k])  BY <1>4, <3>1
    <3> QED  BY <3>2, <3>3
  <2> QED  BY <2>1, <2>2
<1>8. Leads(q, m)  BY <1>3, <1>6, <1>7 DEF Leads
<1> QED  BY <1>1, <1>8

\* A history of one entry leads to any menu.
LEMMA LeadsFirst ==
    ASSUME NEW i \in Nat, NEW m \in Menu
    PROVE  Leads(Append(<<>>, i), m)
<1>1. PICK p \in Seq(Nat) : p = <<>>  BY EmptySeq
<1>2. Len(p) = 0  BY <1>1, EmptySeq
<1>3. PICK q \in Seq(Nat) : q = Append(p, i)  BY AppendProperties
<1>4. Len(q) = 1  BY <1>2, <1>3, AppendProperties
<1>5. PICK ms : ms = [k \in 1 .. 1 |-> m]  OBVIOUS
<1>6. ms \in [1 .. 1 -> Menu] /\ ms[1] = m  BY <1>5
<1>7. \A k \in 2 .. 1 : FALSE  OBVIOUS
<1>8. Leads(q, m)  BY <1>4, <1>6, <1>7 DEF Leads
<1> QED  BY <1>1, <1>3, <1>8

\* Only an empty history leads to no menu.
LEMMA LeadsNowhere ==
    ASSUME NEW p \in Seq(Nat), Leads(p, NoMenu)
    PROVE  p = <<>>
<1> SUFFICES ASSUME p # <<>> PROVE FALSE  OBVIOUS
<1>1. Len(p) \in Nat /\ Len(p) > 0  BY LastAndFront
<1>2. PICK ms \in [1 .. Len(p) -> Menu] : ms[Len(p)] = NoMenu  BY DEF Leads
<1>3. Len(p) \in 1 .. Len(p)  BY <1>1
<1>4. NoMenu \in Menu  BY <1>2, <1>3
<1> QED  BY <1>4, LcdControlAssumption

LEMMA LeadsBack ==
    ASSUME CancelsBack, NEW p \in Seq(Nat), p # <<>>, NEW m \in Menu, Leads(p, m),
           CancelTo[m].do = "menu"
    PROVE  Leads(Front(p), CancelTo[m].arg)
<1>1. PICK n \in Nat : n = Len(p) /\ n > 0  BY LastAndFront
<1>2. PICK q \in Seq(Nat) : q = Front(p)  BY LastAndFront
<1>3. Len(q) = n - 1 /\ \A k \in 1 .. n - 1 : q[k] = p[k]  BY <1>1, <1>2, LastAndFront
<1> SUFFICES ASSUME q # <<>> PROVE Leads(q, CancelTo[m].arg)  BY <1>2 DEF Leads
<1>4. n > 1
  <2>1. Len(q) > 0  BY LastAndFront
  <2> QED  BY <1>1, <1>3, <2>1
<1>5. PICK ms \in [1 .. n -> Menu] :
        /\ ms[n] = m
        /\ \A k \in 2 .. n : OptionAt(Options[ms[k - 1]], p[k]) = To(ms[k])
  BY <1>1 DEF Leads
<1>6. PICK f \in Menu : f = ms[n - 1]
  <2>1. n - 1 \in 1 .. n  BY <1>4
  <2> QED  BY <1>5, <2>1
<1>7. CancelTo[m].arg = f
  <2>1. n \in 2 .. n  BY <1>4
  <2>2. OptionAt(Options[f], p[n]) = To(m)  BY <1>5, <1>6, <2>1
  <2>3. p[n] \in Nat
    <3>1. n \in 1 .. Len(p)  BY <1>1
    <3> QED  BY <3>1, ElementOfSeq
  <2>4. To(m) # NoOption /\ To(m).do = "menu" /\ To(m).arg = m  BY DEF To, NoOption
  <2>5. PICK k \in DOMAIN Options[f] : Options[f][k] = To(m)
    BY <2>2, <2>3, <2>4, OptionAtIs
  <2>6. PICK o : o = Options[f][k]  OBVIOUS
  <2>7. o.do = "menu" /\ CancelTo[o.arg].do = "menu" => CancelTo[o.arg].arg = f
    BY <2>6, Zenon DEF CancelsBack
  <2>8. o.do = "menu" /\ o.arg = m  BY <2>4, <2>5, <2>6
  <2> QED  BY <2>7, <2>8
<1>8. PICK ns : ns = [k \in 1 .. n - 1 |-> ms[k]]  OBVIOUS
<1>9. ns \in [1 .. n - 1 -> Menu] /\ ns[n - 1] = f
  <2>1. \A k \in 1 .. n - 1 : k \in 1 .. n /\ ms[k] \in Menu  OBVIOUS
  <2>2. n - 1 \in 1 .. n - 1  BY <1>4
  <2> QED  BY <1>6, <1>8, <2>1, <2>2
<1>10. ASSUME NEW k \in 2 .. n - 1
       PROVE  OptionAt(Options[ns[k - 1]], q[k]) = To(ns[k])
  <2>1. k \in 2 .. n /\ k \in 1 .. n - 1 /\ k - 1 \in 1 .. n - 1  OBVIOUS
  <2>2. ns[k - 1] = ms[k - 1] /\ ns[k] = ms[k] /\ q[k] = p[k]  BY <1>3, <1>8, <2>1
  <2>3. OptionAt(Options[ms[k - 1]], p[k]) = To(ms[k])  BY <1>5, <2>1
  <2> QED  BY <2>2, <2>3
<1> QED  BY <1>3, <1>7, <1>9, <1>10 DEF Leads

LEMMA KeepsHistory ==
    ASSUME HistoryInv, select_path' = select_path, loaded' = loaded, Pushed' <=> Pushed
    PROVE  HistoryInv'
<1>1. CASE Pushed
  <2>1. select_path # <<>> /\ Leads(Front(select_path), loaded)  BY <1>1 DEF HistoryInv
  <2> QED  BY <1>1, <2>1 DEF HistoryInv
<1>2. CASE ~Pushed
  <2>1. Leads(select_path, loaded)  BY <1>2 DEF HistoryInv
  <2> QED  BY <1>2, <2>1 DEF HistoryInv
<1> QED  BY <1>1, <1>2

LEMMA EndsHistory ==
    ASSUME EndAction, Leads(select_path', loaded')
    PROVE  HistoryInv'
<1>1. ~Pushed'  BY DEF EndAction, Pushed
<1> QED  BY <1>1 DEF HistoryInv

LEMMA PushesHistory ==
    ASSUME MenuOK, Leads(select_path, loaded), Push, loaded' = loaded, Pushed'
    PROVE  HistoryInv'
<1>1. select_path' # <<>> /\ Front(select_path') = select_path  BY Pushes
<1> QED  BY <1>1 DEF HistoryInv

LEMMA GoesBackHistory ==
    ASSUME ControlInv, HistoryInv, Pushed, LoadMenu(prev_menu, FALSE), EndAction
    PROVE  HistoryInv'
<1>1. MenuOK /\ prev_menu \in Menu  BY Called, TypeIs DEF ControlInv
<1>2. select_path # <<>> /\ select_path \in Seq(Nat) /\ Leads(Front(select_path), loaded)
  BY <1>1 DEF HistoryInv, MenuOK
<1>3. loaded' = prev_menu /\ select_path' = Front(select_path)
  BY <1>2 DEF LoadMenu, Pop
<1>4. Front(select_path) \in Seq(Nat)  BY <1>2, LastAndFront
<1>5. Leads(Front(select_path), prev_menu)
  <2>1. CASE loaded = NoMenu
    <3>1. Front(select_path) = <<>>  BY <1>2, <1>4, <2>1, LeadsNowhere
    <3> QED  BY <3>1 DEF Leads
  <2>2. CASE loaded # NoMenu  BY <1>2, <2>2 DEF prev_menu
  <2> QED  BY <2>1, <2>2
<1> QED  BY <1>3, <1>5, EndsHistory

\* do_action with an option of the menu that is shown, with a default key, or with what
\* was in progress: of these only an option of the menu leads on.
LEMMA DoActionHistory ==
    ASSUME ControlInv, HistoryInv, pc \in {"begin", "menu"},
           NEW o \in Option \cup {NoOption}, DoAction(o, FALSE),
           o.do = "menu" => loaded \in Menu /\ OptionAt(Options[loaded], selected) = o
    PROVE  HistoryInv'
<1>1. /\ MenuOK /\ ~Pushed /\ Leads(select_path, loaded)
      /\ select_path \in Seq(Nat) /\ selected \in Nat
  <2>1. MenuOK  BY TypeIs DEF ControlInv
  <2>2. ~Pushed  BY DEF Pushed
  <2> QED  BY <2>1, <2>2 DEF HistoryInv, MenuOK
<1>2. CASE o.do = "menu" /\ LoadMenu(o.arg, TRUE) /\ EndAction
  <2>1. o \in Option  BY <1>2 DEF NoOption
  <2>2. o = To(o.arg) /\ o.arg \in Menu  BY <1>2, <2>1, ToIs
  <2>3. loaded' = o.arg /\ select_path' = Append(select_path, selected)
    BY <1>2 DEF LoadMenu, Push
  <2>4. loaded \in Menu /\ OptionAt(Options[loaded], selected) = To(o.arg)  BY <1>2, <2>2
  <2>5. Leads(Append(select_path, selected), o.arg)
    BY <1>1, <2>2, <2>4, LeadsAway, Zenon
  <2> QED  BY <1>2, <2>3, <2>5, EndsHistory
<1>3. CASE o.do = "function" /\ pc' = "input" /\ todo' = o /\ UNCHANGED cursor
  <2>1. ~Pushed'  BY <1>3 DEF Pushed
  <2> QED  BY <1>1, <1>3, <2>1, KeepsHistory DEF cursor
<1>4. CASE pc' = "tail" /\ UNCHANGED cursor
  <2>1. ~Pushed'  BY <1>4 DEF Pushed
  <2> QED  BY <1>1, <1>4, <2>1, KeepsHistory DEF cursor
<1>5. CASE o.do = "command" /\ Push /\ Proceed(o) /\ todo' = o /\ UNCHANGED loaded
  <2>1. Pushed'  BY <1>5 DEF Pushed, Proceed
  <2> QED  BY <1>1, <1>5, <2>1, PushesHistory
<1>6. CASE Push /\ SaveFirst(o) /\ UNCHANGED loaded
  <2>1. Pushed'  BY <1>6 DEF Pushed, SaveFirst
  <2> QED  BY <1>1, <1>6, <2>1, PushesHistory
<1>7. CASE EndAction /\ UNCHANGED cursor
  <2>1. Leads(select_path', loaded')  BY <1>1, <1>7 DEF cursor
  <2> QED  BY <1>7, <2>1, EndsHistory
<1> QED  BY <1>2, <1>3, <1>4, <1>5, <1>6, <1>7 DEF DoAction

\* do_action with the _cancel of the menu, or with Main if there is no menu.
LEMMA CancelHistory ==
    ASSUME CancelsBack, ControlInv, HistoryInv, Cancel
    PROVE  HistoryInv'
<1>1. /\ MenuOK /\ Leads(select_path, loaded) /\ select_path \in Seq(Nat)
      /\ loaded \in Menu \cup {NoMenu}
  <2>1. MenuOK  BY TypeIs DEF ControlInv
  <2>2. ~Pushed  BY DEF Pushed, Cancel
  <2> QED  BY <2>1, <2>2 DEF HistoryInv, MenuOK
<1>2. PICK o : /\ o = IF loaded = NoMenu
                      THEN [do |-> "menu", arg |-> MAIN, prompt |-> NoPrompt]
                      ELSE CancelTo[loaded]
               /\ DoAction(o, TRUE)
  BY DEF Cancel
<1>3. o.do \in {"menu", "internal"}
  <2>1. CASE loaded = NoMenu  BY <1>2, <2>1
  <2>2. CASE loaded # NoMenu  BY <1>1, <1>2, <2>2, LcdControlAssumption
  <2> QED  BY <2>1, <2>2
<1>4. CASE o.do = "menu" /\ LoadMenu(o.arg, FALSE) /\ EndAction
  <2>1. loaded' = o.arg /\ Pop  BY <1>4 DEF LoadMenu
  <2>2. CASE select_path = <<>>
    <3>1. select_path' = <<>>  BY <2>1, <2>2 DEF Pop
    <3>2. Leads(select_path', loaded')  BY <3>1 DEF Leads
    <3> QED  BY <1>4, <3>2, EndsHistory
  <2>3. CASE select_path # <<>>
    <3>1. select_path' = Front(select_path)  BY <2>1, <2>3 DEF Pop
    <3>2. loaded \in Menu  BY <1>1, <2>3, LeadsNowhere
    <3>3. o = CancelTo[loaded]  BY <1>2, <3>2, LcdControlAssumption
    <3>4. Leads(Front(select_path), o.arg)  BY <1>1, <1>4, <2>3, <3>2, <3>3, LeadsBack
    <3> QED  BY <1>4, <2>1, <3>1, <3>4, EndsHistory
  <2> QED  BY <2>2, <2>3
<1>5. CASE o.do = "internal" /\ EndAction /\ UNCHANGED cursor
  <2>1. Leads(select_path', loaded')  BY <1>1, <1>5 DEF cursor
  <2> QED  BY <1>5, <2>1, EndsHistory
<1> QED
  <2>1. o.do # "menu" => o.do = "internal"  BY <1>3
  <2> QED  BY <1>2, <1>4, <1>5, <2>1 DEF DoAction

LEMMA HistoryStep ==
    ASSUME CancelsBack, ControlInv, FileInv, HistoryInv, [Next]_all
    PROVE  HistoryInv'
<1>1. /\ MenuOK /\ WaitInv /\ vars \in Vars /\ loaded \in Menu \cup {NoMenu}
      /\ selected \in Nat /\ NoMenu \notin Menu
  BY TypeIs, LcdControlAssumption DEF ControlInv, FileOK, MenuOK
<1>2. ASSUME NEW how \in {"off", "dead"}, Stop(how)
      PROVE  HistoryInv'
  <2>1. pc' = how /\ select_path' = <<>>  BY <1>2 DEF Stop
  <2>2. ~Pushed'  BY <2>1 DEF Pushed
  <2>3. Leads(select_path', loaded')  BY <2>1 DEF Leads
  <2> QED  BY <2>2, <2>3 DEF HistoryInv
<1>3. CASE Start
  <2>1. loaded = NoMenu /\ select_path = <<>> /\ pc' = "begin"
    BY <1>1, <1>3 DEF Start, WaitInv
  <2>2. ~Pushed'  BY <2>1 DEF Pushed
  <2>3. Leads(select_path', loaded')
    <3>1. CASE UNCHANGED cursor
      <4>1. select_path' = <<>>  BY <2>1, <3>1 DEF cursor
      <4> QED  BY <4>1 DEF Leads
    <3>2. CASE vars'.lastmenu # NoMenu /\ LoadMenu(vars'.lastmenu, TRUE)
      <4>1. ControlInv'  BY ControlStep
      <4>2. loaded' = vars'.lastmenu /\ loaded' \in Menu \cup {NoMenu}
        BY <3>2, <4>1 DEF LoadMenu, ControlInv, TypeOK
      <4>3. PICK m \in Menu : m = loaded'  BY <3>2, <4>2
      <4>4. select_path' = Append(<<>>, selected)  BY <2>1, <3>2 DEF LoadMenu, Push
      <4>5. Leads(Append(<<>>, selected), m)  BY <1>1, LeadsFirst
      <4> QED  BY <4>3, <4>4, <4>5
    <3> QED  BY <1>3, <3>1, <3>2 DEF Start
  <2> QED  BY <2>2, <2>3 DEF HistoryInv
<1>4. CASE Resume
  <2>1. CASE vars.lastaction # NoOption
    <3>1. vars.lastaction \in Option \cup {NoOption} /\ vars.lastaction.do = "safe"
      BY <1>1, <2>1, VarsAre DEF FileInv
    <3> QED  BY <1>4, <2>1, <3>1, DoActionHistory DEF Resume
  <2>2. CASE vars.lastaction = NoOption
    <3>1. ~Pushed /\ ~Pushed'  BY <1>4, <2>2 DEF Resume, Pushed
    <3> QED  BY <1>4, <2>2, <3>1, KeepsHistory DEF Resume, cursor
  <2> QED  BY <2>1, <2>2
<1>5. CASE Up \/ Down
  <2>1. ~Pushed /\ ~Pushed'  BY <1>5 DEF Up, Down, Pushed
  <2> QED  BY <1>5, <2>1, KeepsHistory DEF Up, Down
<1>6. CASE Go
  <2>1. PICK o : o = OptionAt(options, selected)  OBVIOUS
  <2>2. o \in Option \cup {NoOption} /\ DoAction(o, FALSE) /\ pc = "menu"
    BY <1>6, <2>1, Called DEF Go
  <2>3. o.do = "menu" => loaded \in Menu /\ OptionAt(Options[loaded], selected) = o
    <3>1. CASE loaded = NoMenu
      <4>1. options = <<>> /\ DOMAIN options = {}  BY <3>1 DEF options
      <4>2. o = NoOption  BY <2>1, <4>1 DEF OptionAt
      <4> QED  BY <4>2 DEF NoOption
    <3>2. CASE loaded # NoMenu  BY <1>1, <2>1, <3>2 DEF options
    <3> QED  BY <3>1, <3>2
  <2> QED  BY <2>2, <2>3, DoActionHistory
<1>7. CASE Cancel  BY <1>7, CancelHistory
<1>8. CASE DefaultKey
  <2>1. PICK o \in Key : DoAction(o, FALSE)  BY <1>8 DEF DefaultKey
  <2>2. o \in Option /\ o.do = "command"  BY LcdControlAssumption
  <2> QED  BY <1>8, <2>1, <2>2, DoActionHistory DEF DefaultKey
<1>9. CASE Written
  <2>1. ~Pushed /\ ~Pushed'  BY <1>9 DEF Written, Pushed
  <2> QED  BY <1>9, <2>1, KeepsHistory DEF Written, cursor
<1>10. CASE Saved
  <2>1. todo' = todo /\ todo.do = "safe" /\ pc' \in {"input", "run"}
    BY <1>1, <1>10 DEF Saved, WaitInv, Proceed
  <2>2. Pushed /\ Pushed'  BY <1>10, <2>1 DEF Saved, Pushed
  <2> QED  BY <1>10, <2>2, KeepsHistory DEF Saved, cursor
<1>11. CASE RunEnds
  <2>1. Pushed  BY <1>11 DEF RunEnds, Pushed
  <2> QED  BY <1>11, <2>1, GoesBackHistory DEF RunEnds
<1>12. CASE InputStart \/ InputMove
  <2>1. Pushed' <=> Pushed  BY <1>12 DEF InputStart, InputMove, Pushed
  <2> QED  BY <1>12, <2>1, KeepsHistory DEF InputStart, InputMove, cursor
<1>13. CASE InputChange
  <2>1. CASE text.len > 0
    <3>1. UNCHANGED all  BY <1>13, <2>1 DEF InputChange
    <3>2. Pushed' <=> Pushed  BY <3>1 DEF all, Pushed
    <3> QED  BY <3>1, <3>2, KeepsHistory DEF all, cursor
  <2>2. CASE ~(text.len > 0)  BY <1>2, <1>13, <2>2 DEF InputChange
  <2> QED  BY <2>1, <2>2
<1>14. CASE InputEnds
  <2>1. CASE pc = "input" /\ todo.do = "function" /\ EndAction /\ UNCHANGED cursor
    <3>1. ~Pushed  BY <2>1 DEF Pushed
    <3>2. Leads(select_path', loaded')  BY <2>1, <3>1 DEF HistoryInv, cursor
    <3> QED  BY <2>1, <3>2, EndsHistory
  <2>2. CASE pc = "input" /\ todo.do \in {"command", "safe"} /\ pc' = "run"
             /\ UNCHANGED <<todo, cursor>>
    <3>1. Pushed /\ Pushed'  BY <2>2 DEF Pushed
    <3> QED  BY <2>2, <3>1, KeepsHistory DEF cursor
  <2>3. CASE pc = "input" /\ todo.do \in {"command", "safe"} /\ LoadMenu(prev_menu, FALSE)
             /\ EndAction
    <3>1. Pushed  BY <2>3 DEF Pushed
    <3> QED  BY <2>3, <3>1, GoesBackHistory
  <2> QED  BY <1>14, <2>1, <2>2, <2>3 DEF InputEnds
<1>15. CASE TailKey
  <2>1. ~Pushed /\ ~Pushed'  BY <1>15 DEF TailKey, Pushed
  <2> QED  BY <1>15, <2>1, KeepsHistory DEF TailKey, cursor
<1>16. CASE TailEnds \/ TailFails
  <2>1. ~Pushed  BY <1>16 DEF TailEnds, TailFails, Pushed
  <2>2. Leads(select_path', loaded')
    BY <1>16, <2>1 DEF TailEnds, TailFails, HistoryInv, cursor
  <2> QED  BY <1>16, <2>2, EndsHistory DEF TailEnds, TailFails
<1>17. CASE PowerCut  BY <1>2, <1>17 DEF PowerCut
<1>18. CASE UNCHANGED all
  <2>1. Pushed' <=> Pushed  BY <1>18 DEF all, Pushed
  <2> QED  BY <1>18, <2>1, KeepsHistory DEF all, cursor
<1> QED
  BY <1>3, <1>4, <1>5, <1>6, <1>7, <1>8, <1>9, <1>10, <1>11, <1>12, <1>13, <1>14, <1>15,
     <1>16, <1>17, <1>18 DEF Next

\* Cancel puts the cursor on the option that led to the menu it leaves, however deep
\* in the menus and after whatever commands (load_menu, do_action), if each _cancel
\* leads to the menu that its own is an option of.
THEOREM HistoryLeads == CancelsBack => (Spec => []HistoryLeadsBack)
<1> SUFFICES ASSUME CancelsBack PROVE Spec => []HistoryLeadsBack  OBVIOUS
<1>1. Init => ControlInv /\ FileInv /\ HistoryInv
  <2>1. Init => select_path = <<>> /\ ~Pushed  BY DEF Init, Pushed
  <2>2. Init => Leads(select_path, loaded)  BY <2>1 DEF Leads
  <2> QED  BY <2>1, <2>2, Begins, FileBegins DEF HistoryInv
<1>2. ControlInv /\ FileInv /\ HistoryInv /\ [Next]_all
         => (ControlInv /\ FileInv /\ HistoryInv)'
  BY ControlStep, FileStep, HistoryStep
<1>3. ControlInv /\ HistoryInv => HistoryLeadsBack
  <2> SUFFICES ASSUME ControlInv, HistoryInv, pc = "menu", select_path # <<>>
               PROVE  \E ms \in [DOMAIN select_path -> Menu] :
                        /\ ms[Len(select_path)] = loaded
                        /\ \A i \in DOMAIN select_path \ {1} :
                              OptionAt(Options[ms[i - 1]], select_path[i]) = To(ms[i])
    BY Zenon DEF HistoryLeadsBack, To
  <2>1. ~Pushed /\ select_path \in Seq(Nat)  BY DEF Pushed, ControlInv, TypeOK
  <2>2. PICK n \in Nat : n = Len(select_path) /\ DOMAIN select_path = 1 .. n
    BY <2>1, LenProperties
  <2>3. Leads(select_path, loaded)  BY <2>1 DEF HistoryInv
  <2>4. PICK ms \in [1 .. n -> Menu] :
          /\ ms[n] = loaded
          /\ \A i \in 2 .. n : OptionAt(Options[ms[i - 1]], select_path[i]) = To(ms[i])
    BY <2>2, <2>3 DEF Leads
  <2>5. \A i \in (1 .. n) \ {1} : i \in 2 .. n  OBVIOUS
  <2>6. \A i \in (1 .. n) \ {1} :
            OptionAt(Options[ms[i - 1]], select_path[i]) = To(ms[i])
    BY <2>4, <2>5
  <2> QED  BY <2>2, <2>4, <2>6
<1> QED  BY <1>1, <1>2, <1>3, PTL DEF Spec

-----------------------------------------------------------------------------
(* The text under the cursor.                                              *)

TextInv == text # NoText => Placed(text) /\ Exact(text, Offset)

LEMMA PlacedIs ==
    ASSUME NEW t, Placed(t)
    PROVE  /\ t \in Text /\ WithinRow(t) /\ 2 <= t.row
           /\ 2 + Len(t.rows) <= t.logical /\ t.logical <= Height + Len(t.rows)
           /\ t.logical = 2 + Len(t.rows) =>
                 ~t.lost /\ t.row = IF t.logical <= Height THEN t.logical ELSE Height
<1>1. t \in Text /\ WithinRow(t) /\ 2 <= t.row  BY DEF Placed, WithinRow
<1>2. t.logical \in Nat /\ Len(t.rows) \in Nat /\ Height \in Nat /\ Height >= 2
  BY <1>1, TextIs
<1>3. t.logical - 2 - Len(t.rows) \in 0 .. Height - 2  BY DEF Placed, NotCounted
<1>4. 2 + Len(t.rows) <= t.logical /\ t.logical <= Height + Len(t.rows)  BY <1>2, <1>3
<1>5. ASSUME t.logical = 2 + Len(t.rows)
      PROVE  ~t.lost /\ t.row = IF t.logical <= Height THEN t.logical ELSE Height
  <2>1. NotCounted(t) = 0  BY <1>2, <1>5 DEF NotCounted
  <2> QED  BY <2>1 DEF Placed
<1> QED  BY <1>1, <1>4, <1>5

LEMMA IsPlaced ==
    ASSUME NEW t, WithinRow(t), 2 <= t.row,
           2 + Len(t.rows) <= t.logical, t.logical <= Height + Len(t.rows),
           t.logical = 2 + Len(t.rows) =>
               ~t.lost /\ t.row = IF t.logical <= Height THEN t.logical ELSE Height
    PROVE  Placed(t)
<1>1. t \in Text  BY DEF WithinRow
<1>2. t.logical \in Nat /\ Len(t.rows) \in Nat /\ Height \in Nat /\ Height >= 2
  BY <1>1, TextIs
<1>3. NotCounted(t) \in 0 .. Height - 2  BY <1>2 DEF NotCounted
<1>4. NotCounted(t) = 0 => t.logical = 2 + Len(t.rows)  BY <1>2 DEF NotCounted
<1> QED  BY <1>3, <1>4 DEF Placed

LEMMA FurtherPlaced ==
    ASSUME NEW t, Placed(t), NEW u, u = Further(t)
    PROVE  Placed(u)
<1>1. /\ t \in Text /\ WithinRow(t) /\ 2 <= t.row
      /\ 2 + Len(t.rows) <= t.logical /\ t.logical <= Height + Len(t.rows)
      /\ t.logical = 2 + Len(t.rows) =>
            ~t.lost /\ t.row = IF t.logical <= Height THEN t.logical ELSE Height
  BY PlacedIs
<1>2. /\ t.row \in Nat /\ t.row <= Height /\ t.logical \in Nat /\ t.len \in Nat
      /\ t.len <= Width /\ t.rows \in Seq(0 .. Width) /\ Len(t.rows) \in Nat
      /\ Height \in Nat /\ Width \in Nat
  BY <1>1, TextIs
<1>3. WithinRow(u) /\ u.lost = t.lost  BY <1>1, FurtherIs
<1>4. CASE t.col < Width
  <2>1. u.row = t.row /\ u.logical = t.logical /\ u.rows = t.rows  BY <1>1, <1>4, FurtherIs
  <2> QED  BY <1>1, <1>3, <2>1, IsPlaced
<1>5. CASE ~(t.col < Width)
  <2>1. /\ u.row = (IF t.row < Height THEN t.row + 1 ELSE t.row)
        /\ u.logical = t.logical + 1 /\ u.rows = Append(t.rows, t.len)
    BY <1>1, <1>5, FurtherIs
  <2>2. PICK n \in Nat : n = Len(t.rows)  BY <1>2
  <2>3. t.len \in 0 .. Width  BY <1>2
  <2>4. Len(u.rows) = n + 1  BY <1>2, <2>1, <2>2, <2>3, AppendProperties
  <2>5. 2 <= u.row /\ 2 + Len(u.rows) <= u.logical /\ u.logical <= Height + Len(u.rows)
    <3>1. 2 <= u.row  BY <1>1, <1>2, <2>1
    <3>2. 2 + n <= t.logical /\ t.logical <= Height + n  BY <1>1, <2>2
    <3>3. 2 + Len(u.rows) <= u.logical /\ u.logical <= Height + Len(u.rows)
      BY <1>2, <2>1, <2>4, <3>2
    <3> QED  BY <3>1, <3>3
  <2>6. ASSUME u.logical = 2 + Len(u.rows)
        PROVE  ~u.lost /\ u.row = IF u.logical <= Height THEN u.logical ELSE Height
    <3>1. t.logical = 2 + Len(t.rows)  BY <1>2, <2>1, <2>2, <2>4, <2>6
    <3>2. ~u.lost  BY <1>1, <1>3, <3>1
    <3>3. t.row = IF t.logical <= Height THEN t.logical ELSE Height  BY <1>1, <3>1
    <3>4. u.row = IF u.logical <= Height THEN u.logical ELSE Height  BY <1>2, <2>1, <3>3
    <3> QED  BY <3>2, <3>4
  <2> QED  BY <1>3, <2>5, <2>6, IsPlaced
<1> QED  BY <1>4, <1>5

LEMMA RowsEnd ==
    ASSUME NEW t \in Text, t.rows # <<>>
    PROVE  /\ Len(t.rows) \in Nat /\ Len(t.rows) > 0
           /\ Last(t.rows) = t.rows[Len(t.rows)]
           /\ Front(t.rows) \in Seq(0 .. Width) /\ Len(Front(t.rows)) = Len(t.rows) - 1
           /\ \A i \in 1 .. Len(t.rows) - 1 : Front(t.rows)[i] = t.rows[i]
<1>1. PICK rows \in Seq(0 .. Width) : rows = t.rows  BY TextIs
<1>2. /\ Len(rows) \in Nat /\ Len(rows) > 0 /\ Last(rows) = rows[Len(rows)]
      /\ Front(rows) \in Seq(0 .. Width) /\ Len(Front(rows)) = Len(rows) - 1
      /\ \A i \in 1 .. Len(rows) - 1 : Front(rows)[i] = rows[i]
  BY <1>1, LastAndFront
<1> QED  BY <1>1, <1>2

\* A row that was scrolled is there to go back to.  One that was not is not counted
\* as gone: there are fewer of them than rows below the first two.
LEMMA NearerPlaced ==
    ASSUME NEW t, Placed(t), NEW u, u = Nearer(t)
    PROVE  Placed(u)
<1>1. /\ t \in Text /\ WithinRow(t) /\ 2 <= t.row
      /\ 2 + Len(t.rows) <= t.logical /\ t.logical <= Height + Len(t.rows)
      /\ t.logical = 2 + Len(t.rows) =>
            ~t.lost /\ t.row = IF t.logical <= Height THEN t.logical ELSE Height
  BY PlacedIs
<1>2. /\ t.row \in Nat /\ t.row <= Height /\ t.logical \in Nat
      /\ t.rows \in Seq(0 .. Width) /\ Len(t.rows) \in Nat /\ Height \in Nat
  BY <1>1, TextIs
<1>3. WithinRow(u)  BY <1>1, NearerIs
<1>4. CASE t.col > 1
  <2>1. u.row = t.row /\ u.logical = t.logical /\ u.rows = t.rows /\ u.lost = t.lost
    BY <1>1, <1>4, NearerIs
  <2> QED  BY <1>1, <1>3, <2>1, IsPlaced
<1>5. PICK n \in Nat : n = Len(t.rows)  BY <1>2
<1>6. t.rows = <<>> => n = 0  BY <1>5, EmptySeq
<1>7. t.rows # <<>> => Len(Front(t.rows)) = n - 1 /\ n > 0  BY <1>1, <1>5, RowsEnd
<1>8. CASE ~(t.col > 1) /\ t.logical > Height
  <2>1. t.rows # <<>>  BY <1>1, <1>2, <1>5, <1>6, <1>8
  <2>2. /\ u.row = t.row /\ u.logical = t.logical - 1 /\ u.rows = Front(t.rows)
        /\ u.lost = (t.lost \/ t.rows = <<>>)
    BY <1>1, <1>8, <2>1, NearerIs
  <2>3. Len(u.rows) = n - 1 /\ n > 0  BY <1>7, <2>1, <2>2
  <2>4. 2 <= u.row /\ 2 + Len(u.rows) <= u.logical /\ u.logical <= Height + Len(u.rows)
    BY <1>1, <1>2, <1>5, <2>2, <2>3
  <2>5. ASSUME u.logical = 2 + Len(u.rows)
        PROVE  ~u.lost /\ u.row = IF u.logical <= Height THEN u.logical ELSE Height
    <3>1. t.logical = 2 + Len(t.rows)  BY <1>2, <1>5, <2>2, <2>3, <2>5
    <3>2. ~t.lost /\ t.row = Height  BY <1>1, <1>2, <1>8, <3>1
    <3>3. u.row = IF u.logical <= Height THEN u.logical ELSE Height  BY <1>2, <1>8, <2>2, <3>2
    <3> QED  BY <2>1, <2>2, <3>2, <3>3
  <2> QED  BY <1>3, <2>4, <2>5, IsPlaced
<1>9. CASE ~(t.col > 1) /\ ~(t.logical > Height) /\ t.row > 2
  <2>1. u.row = t.row - 1 /\ u.logical = t.logical  BY <1>1, <1>9, NearerIs
  <2>2. Len(u.rows) = IF n = 0 THEN 0 ELSE n - 1
    <3>1. CASE t.rows = <<>>
      <4>1. u.rows = <<>>  BY <1>1, <1>9, <3>1, NearerIs
      <4> QED  BY <1>6, <3>1, <4>1, EmptySeq
    <3>2. CASE t.rows # <<>>
      <4>1. u.rows = Front(t.rows)  BY <1>1, <1>9, <3>2, NearerIs
      <4> QED  BY <1>7, <3>2, <4>1
    <3> QED  BY <3>1, <3>2
  <2>3. 2 <= u.row /\ 2 + Len(u.rows) <= u.logical /\ u.logical <= Height + Len(u.rows)
    BY <1>1, <1>2, <1>5, <1>9, <2>1, <2>2
  <2>4. u.logical # 2 + Len(u.rows)
    <3>1. CASE n = 0
      <4>1. t.logical # 2  BY <1>1, <1>2, <1>5, <1>9, <3>1
      <4> QED  BY <2>1, <2>2, <3>1, <4>1
    <3>2. CASE n > 0  BY <1>1, <1>2, <1>5, <2>1, <2>2, <3>2
    <3> QED  BY <3>1, <3>2
  <2> QED  BY <1>3, <2>3, <2>4, IsPlaced
<1>10. CASE ~(t.col > 1) /\ ~(t.logical > Height) /\ ~(t.row > 2)
  <2>1. u = t  BY <1>1, <1>10, NearerIs
  <2> QED  BY <2>1
<1> QED  BY <1>4, <1>8, <1>9, <1>10

LEMMA FurtherExact ==
    ASSUME NEW offset \in {0, 1}, NEW t, WithinRow(t), Exact(t, offset),
           NEW u, u = Further(t)
    PROVE  Exact(u, offset)
<1> SUFFICES ASSUME ~u.lost
             PROVE  /\ u.len = u.col - IF u.rows = <<>> THEN offset ELSE 0
                    /\ \A i \in 1 .. Len(u.rows) :
                          u.rows[i] = Width - IF i = 1 THEN offset ELSE 0
  BY DEF Exact
<1>1. /\ t \in Text /\ ~t.lost
      /\ t.len = t.col - (IF t.rows = <<>> THEN offset ELSE 0)
      /\ \A i \in 1 .. Len(t.rows) : t.rows[i] = Width - IF i = 1 THEN offset ELSE 0
  <2>1. t \in Text  BY DEF WithinRow
  <2>2. ~t.lost  BY <2>1, FurtherIs
  <2> QED  BY <2>1, <2>2 DEF Exact
<1>2. /\ t.logical \in Nat /\ t.col \in Nat /\ t.len \in Nat /\ t.len <= Width
      /\ t.rows \in Seq(0 .. Width) /\ Width \in Nat /\ Len(t.rows) \in Nat
  BY <1>1, TextIs
<1>3. CASE t.col < Width
  <2>1. u.rows = t.rows /\ u.col = t.col + 1 /\ u.len = t.len + 1
    BY <1>1, <1>3, FurtherIs
  <2>2. u.len = u.col - (IF u.rows = <<>> THEN offset ELSE 0)  BY <1>1, <1>2, <2>1
  <2> QED  BY <1>1, <2>1, <2>2
<1>4. CASE ~(t.col < Width)
  <2>1. t.col = Width /\ u.col = 1 /\ u.len = 1 /\ u.rows = Append(t.rows, t.len)
    BY <1>1, <1>4, FurtherIs
  <2>2. PICK n \in Nat : n = Len(t.rows)  BY <1>2
  <2>3. t.len \in 0 .. Width  BY <1>2
  <2>4. /\ Len(u.rows) = n + 1 /\ u.rows[n + 1] = t.len
        /\ \A i \in 1 .. n : u.rows[i] = t.rows[i]
    BY <1>2, <2>1, <2>2, <2>3, AppendProperties
  <2>5. u.rows # <<>>  BY <2>2, <2>4, EmptySeq
  <2>6. u.len = u.col - (IF u.rows = <<>> THEN offset ELSE 0)  BY <2>1, <2>5
  <2>7. t.rows = <<>> <=> n = 0  BY <1>2, <2>2, EmptySeq
  <2>8. ASSUME NEW i \in 1 .. n + 1
        PROVE  u.rows[i] = Width - IF i = 1 THEN offset ELSE 0
    <3>1. CASE i = n + 1
      <4>1. i = 1 <=> t.rows = <<>>  BY <2>7, <3>1
      <4> QED  BY <1>1, <2>1, <2>4, <3>1, <4>1
    <3>2. CASE i # n + 1
      <4>1. i \in 1 .. n  BY <3>2
      <4> QED  BY <1>1, <2>2, <2>4, <4>1
    <3> QED  BY <3>1, <3>2
  <2> QED  BY <2>4, <2>6, <2>8
<1> QED  BY <1>3, <1>4

LEMMA NearerExact ==
    ASSUME NEW offset \in {0, 1}, NEW t, WithinRow(t), Exact(t, offset),
           NEW u, u = Nearer(t)
    PROVE  Exact(u, offset)
<1>1. t \in Text  BY DEF WithinRow
<1>2. /\ t.logical \in Nat /\ t.col \in Nat /\ t.len \in Nat
      /\ t.rows \in Seq(0 .. Width) /\ Width \in Nat /\ Len(t.rows) \in Nat
      /\ t.row \in Nat /\ Height \in Nat /\ t.lost \in BOOLEAN
  BY <1>1, TextIs
<1>3. CASE ~(t.col > 1) /\ ~(t.logical > Height) /\ ~(t.row > 2)
  <2>1. u = t  BY <1>1, <1>3, NearerIs
  <2> QED  BY <2>1
<1>4. CASE t.lost
  <2>1. u.lost  BY <1>1, <1>3, <1>4, NearerIs
  <2> QED  BY <2>1 DEF Exact
<1>5. CASE ~t.lost /\ t.col > 1
  <2>1. /\ t.len = t.col - (IF t.rows = <<>> THEN offset ELSE 0)
        /\ \A i \in 1 .. Len(t.rows) : t.rows[i] = Width - IF i = 1 THEN offset ELSE 0
    BY <1>5 DEF Exact
  <2>2. /\ u.rows = t.rows /\ u.col = t.col - 1
        /\ u.len = IF t.len = 0 THEN 0 ELSE t.len - 1
    BY <1>1, <1>5, NearerIs
  <2>3. u.len = t.len - 1  BY <1>2, <1>5, <2>1, <2>2
  <2>4. u.len = u.col - (IF u.rows = <<>> THEN offset ELSE 0)  BY <1>2, <2>1, <2>2, <2>3
  <2> QED  BY <2>1, <2>2, <2>4 DEF Exact
<1>6. CASE ~(t.col > 1) /\ (t.logical > Height \/ t.row > 2) /\ t.rows = <<>>
  <2>1. u.lost  BY <1>1, <1>6, NearerIs
  <2> QED  BY <2>1 DEF Exact
<1>7. CASE ~t.lost /\ ~(t.col > 1) /\ (t.logical > Height \/ t.row > 2) /\ t.rows # <<>>
  <2>1. \A i \in 1 .. Len(t.rows) : t.rows[i] = Width - IF i = 1 THEN offset ELSE 0
    BY <1>7 DEF Exact
  <2>2. u.col = Width /\ u.len = Last(t.rows) /\ u.rows = Front(t.rows)
    BY <1>1, <1>7, NearerIs
  <2>3. PICK n \in Nat : n = Len(t.rows)  BY <1>2
  <2>4. /\ n > 0 /\ u.len = t.rows[n] /\ u.rows \in Seq(0 .. Width) /\ Len(u.rows) = n - 1
        /\ \A i \in 1 .. n - 1 : u.rows[i] = t.rows[i]
    BY <1>1, <1>7, <2>2, <2>3, RowsEnd
  <2>5. u.rows = <<>> <=> n = 1
    <3>1. u.rows = <<>> <=> Len(u.rows) = 0  BY <2>4, EmptySeq
    <3> QED  BY <2>3, <2>4, <3>1
  <2>6. u.len = u.col - (IF u.rows = <<>> THEN offset ELSE 0)
    <3>1. n \in 1 .. Len(t.rows)  BY <2>3, <2>4
    <3>2. t.rows[n] = Width - IF n = 1 THEN offset ELSE 0  BY <2>1, <3>1
    <3> QED  BY <2>2, <2>4, <2>5, <3>2
  <2>7. \A i \in 1 .. n - 1 : i \in 1 .. Len(t.rows)  BY <2>3
  <2>8. \A i \in 1 .. n - 1 : u.rows[i] = Width - IF i = 1 THEN offset ELSE 0
    BY <2>1, <2>4, <2>7
  <2> QED  BY <2>4, <2>6, <2>8 DEF Exact
<1> QED  BY <1>3, <1>4, <1>5, <1>6, <1>7

LEMMA TypedExact ==
    ASSUME NEW n \in Nat
    PROVE  Placed(Typed(n)) /\ Exact(Typed(n), IF n > 0 THEN 1 ELSE 0)
<1>1. Height \in Nat /\ Height >= 2  BY Display
<1>2. ASSUME NEW t \in Text, WithinRow(t), t.row = 2, t.logical = 2, t.rows = <<>>,
             t.lost = FALSE
      PROVE  Placed(t)
  <2>1. Len(t.rows) = 0  BY <1>2, EmptySeq
  <2> QED  BY <1>1, <1>2, <2>1, IsPlaced
<1>3. CASE n = 0
  <2>1. PICK t : t = [EmptyText EXCEPT !.len = 1]  OBVIOUS
  <2>2. /\ t \in Text /\ t.row = 2 /\ t.logical = 2 /\ t.col = 1 /\ t.len = 1 /\ t.rows = <<>>
        /\ t.lost = FALSE
    BY <2>1, Texts
  <2>3. Len(t.rows) = 0  BY <2>2, EmptySeq
  <2>4. Typed(n) = t  BY <1>3, <2>1 DEF Typed
  <2>5. WithinRow(t)  BY <2>2 DEF WithinRow
  <2>6. Exact(t, 0)  BY <2>2, <2>3 DEF Exact
  <2>7. Placed(t)  BY <1>2, <2>2, <2>5
  <2>8. (IF n > 0 THEN 1 ELSE 0) = 0  BY <1>3
  <2> QED  BY <2>4, <2>6, <2>7, <2>8
<1>4. CASE n > 0
  <2> DEFINE T == {t \in Text : Placed(t) /\ Exact(t, 1)}
  <2>1. EmptyText \in T
    <3>1. PICK t : t = EmptyText  OBVIOUS
    <3>2. /\ t \in Text /\ t.row = 2 /\ t.logical = 2 /\ t.col = 1 /\ t.len = 0 /\ t.rows = <<>>
          /\ t.lost = FALSE
      BY <3>1, Texts
    <3>3. Len(t.rows) = 0  BY <3>2, EmptySeq
    <3>4. WithinRow(t)  BY <3>2 DEF WithinRow
    <3>5. Exact(t, 1)  BY <3>2, <3>3 DEF Exact
    <3> QED  BY <1>2, <3>1, <3>2, <3>4, <3>5
  <2>2. \A t \in T : Further(t) \in T
    <3> SUFFICES ASSUME NEW t \in T PROVE Further(t) \in T  OBVIOUS
    <3>1. PICK u : u = Further(t)  OBVIOUS
    <3>2. WithinRow(t)  BY DEF Placed
    <3>3. Placed(u)  BY <3>1, FurtherPlaced
    <3>4. Exact(u, 1)  BY <3>1, <3>2, FurtherExact
    <3>5. u \in Text  BY <3>3 DEF Placed, WithinRow
    <3> QED  BY <3>1, <3>3, <3>4, <3>5
  <2> HIDE DEF T
  <2>3. Typed(n) \in T  BY <1>4, <2>1, <2>2, TypedIs
  <2> QED  BY <1>4, <2>3 DEF T
<1> QED  BY <1>3, <1>4

LEMMA TextStep ==
    ASSUME ControlInv, TextInv, [Next]_all
    PROVE  TextInv'
<1>1. /\ WaitInv /\ WaitInv' /\ ControlInv'  BY ControlStep DEF ControlInv
<1>2. CASE text' = NoText  BY <1>2 DEF TextInv
<1>3. CASE text' = text /\ todo' = todo
  BY <1>3 DEF TextInv, Offset
<1>4. CASE InputStart
  <2>1. todo.prompt \in Nat /\ todo' = todo /\ text' = Typed(todo.prompt)
    BY <1>1, <1>4 DEF InputStart, WaitInv
  <2>2. Placed(Typed(todo.prompt)) /\ Exact(Typed(todo.prompt), Offset)
    BY <2>1, TypedExact DEF Offset
  <2> QED  BY <2>1, <2>2 DEF TextInv, Offset
<1>5. CASE InputMove
  <2>1. text # NoText /\ todo' = todo /\ (text' = Further(text) \/ text' = Nearer(text))
    BY <1>5 DEF InputMove
  <2>2. PICK offset \in {0, 1} : offset = Offset /\ offset = Offset'
    BY <2>1 DEF Offset
  <2>3. PICK t : t = text'  OBVIOUS
  <2>4. Placed(text) /\ WithinRow(text) /\ Exact(text, offset)
    BY <2>1, <2>2 DEF TextInv, Placed
  <2>5. Placed(t)  BY <2>1, <2>3, <2>4, FurtherPlaced, NearerPlaced
  <2>6. Exact(t, offset)  BY <2>1, <2>3, <2>4, FurtherExact, NearerExact
  <2> QED  BY <2>2, <2>3, <2>5, <2>6 DEF TextInv
<1>6. CASE Start \/ Up \/ Down \/ Written \/ Saved \/ RunEnds \/ TailKey \/ TailEnds \/ TailFails
  <2>1. text = NoText /\ text' = text
    BY <1>1, <1>6
    DEF Start, Up, Down, Written, Saved, RunEnds, TailKey, TailEnds, TailFails, WaitInv
  <2> QED  BY <1>2, <2>1
<1>7. CASE Resume \/ Go \/ Cancel \/ DefaultKey
  <2>1. text = NoText  BY <1>1, <1>7 DEF Resume, Go, Cancel, DefaultKey, WaitInv
  <2>2. ASSUME NEW o, NEW cancelled, DoAction(o, cancelled) PROVE text' = NoText
    BY <2>1, <2>2 DEF DoAction
  <2>3. text' = NoText  BY <1>7, <2>1, <2>2 DEF Resume, Go, Cancel, DefaultKey
  <2> QED  BY <1>2, <2>3
<1>8. CASE InputChange  BY <1>2, <1>3, <1>8 DEF InputChange, Stop, all
<1>9. CASE InputEnds \/ PowerCut  BY <1>2, <1>9 DEF InputEnds, PowerCut, Stop
<1>10. CASE UNCHANGED all  BY <1>3, <1>10 DEF all
<1> QED  BY <1>4, <1>5, <1>6, <1>7, <1>8, <1>9, <1>10 DEF Next

\* However far the text is taken right and left, on a display of any height
\* (get_input): it is what was typed until a row before the first one is asked for,
\* and that takes a cursor that was taken back over a row that had not been scrolled;
\* at most Height - 2 such rows are missing from logical_row.
THEOREM CursorOnText == Spec => []TextUnderCursor
<1>1. Init => ControlInv /\ TextInv  BY Begins DEF Init, TextInv
<1>2. ControlInv /\ TextInv /\ [Next]_all => (ControlInv /\ TextInv)'
  BY ControlStep, TextStep
<1>3. ControlInv /\ TextInv => TextUnderCursor
  <2> SUFFICES ASSUME ControlInv, TextInv PROVE TextUnderCursor  OBVIOUS
  <2>1. TypeOK  BY DEF ControlInv
  <2>2. CASE pc = "input" /\ text # NoText
    <3>1. Placed(text) /\ Exact(text, Offset) /\ text \in Text
      BY <2>1, <2>2 DEF TextInv, TypeOK
    <3>2. DOMAIN text.rows = 1 .. Len(text.rows)  BY <3>1, TextIs, LenProperties
    <3>3. /\ NotCounted(text) \in 0 .. Height - 2
          /\ NotCounted(text) = 0 =>
                ~text.lost /\ text.row = IF text.logical <= Height THEN text.logical ELSE Height
      BY <3>1 DEF Placed
    <3>4. text.logical \in Nat /\ Height \in Nat  BY <3>1, TextIs
    <3>5. Min({Height, text.logical}) = IF text.logical <= Height THEN text.logical ELSE Height
      <4>1. PICK l \in Nat : l = text.logical  BY <3>4
      <4>2. Min({Height, l}) = IF l <= Height THEN l ELSE Height  BY <3>4, LeastOfTwo
      <4> QED  BY <4>1, <4>2
    <3>6. ~text.lost =>
              /\ text.len = text.col - IF text.rows = <<>> THEN Offset ELSE 0
              /\ \A i \in DOMAIN text.rows :
                    text.rows[i] = Width - IF i = 1 THEN Offset ELSE 0
      BY <3>1, <3>2 DEF Exact
    <3> QED  BY <2>1, <3>3, <3>5, <3>6 DEF TextUnderCursor, Offset
  <2>3. CASE ~(pc = "input" /\ text # NoText)  BY <2>1, <2>3 DEF TextUnderCursor
  <2> QED  BY <2>2, <2>3
<1> QED  BY <1>1, <1>2, <1>3, PTL DEF Spec
=============================================================================
