--------------------------- MODULE LcdStatsProofs ---------------------------
(***************************************************************************)
(* lcdstats, for any sequences of modes, with any periods, and any number  *)
(* of file systems: what LCDd has of its screens is what they set, and     *)
(* each is drawn in time.                                                  *)
(***************************************************************************)
EXTENDS LcdStats, Least

Widget == UNION {Adds(m, h) \cup Sets(m, h) \cup AlwaysSets(m, h) : m \in Mode, h \in Heights}

Screens ==
    [drawn : [Mode -> Heights \cup {0}], widgets : [Mode -> SUBSET Widget],
     lines : SUBSET Int, num_disks : Nat, found : Nat, tmp : 0 .. Room + 1,
     rejected : SUBSET (Mode \X (Widget \cup Int))]

\* Of a screen that was drawn, LCDd has what it adds for the height of that time;
\* before the line "connect" (early), that is the height of now.  What was rejected
\* is of screens that were drawn for another one, or of those that add nothing for one
\* row.
Good(s, h, early) ==
    /\ \A m \in Mode : s.drawn[m] # 0 => Adds(m, s.drawn[m]) \subseteq s.widgets[ScreenOf(m)]
    /\ \A m \in Mode : s.drawn[m] = 0 /\ m # "V" => s.widgets[m] = {}
    /\ early => \A m \in Mode : s.drawn[m] \in {0, h}
    /\ \A r \in s.rejected :
          /\ r[1] \in Mode \ {"D"} /\ s.drawn[r[1]] # 0
          /\ s.drawn[r[1]] # h \/ (h < 2 /\ r[1] \in {"V", "N"})
    /\ s.lines = 0 .. s.num_disks - 1 /\ s.num_disks <= MaxDisks
    /\ s.found \in {0, s.num_disks}

StatsInv ==
    /\ sequence \in Sequences
    /\ timer \in [DOMAIN sequence -> Nat] /\ visible \in [DOMAIN sequence -> BOOLEAN]
    /\ hgt \in Heights /\ hello \in BOOLEAN /\ (hello => hgt = 2)
    /\ screens \in Screens /\ Good(screens, hgt, hello)

-----------------------------------------------------------------------------
(* Widgets.                                                                *)

\* What each screen adds and sets.
LEMMA AddsOf ==
    ASSUME NEW h
    PROVE  /\ Adds("C", h) = CpuAdds(h) /\ Adds("M", h) = MemAdds(h) /\ Adds("V", h) = VuAdds(h)
           /\ Adds("N", h) = SensorsAdds(h) /\ Adds("T", h) = TimeAdds(h)
           /\ Adds("U", h) = UptimeAdds(h) /\ Adds("O", h) = ClockAdds
           /\ Adds("K", h) = Digits /\ Adds("S", h) = TopAdds /\ Adds("D", h) = DiskAdds
BY DEF Adds

LEMMA SetsOf ==
    ASSUME NEW h
    PROVE  /\ Sets("C", h) = CpuSets(h) /\ Sets("M", h) = MemSets(h) /\ Sets("V", h) = VuSets
           /\ Sets("T", h) = TimeSets(h) /\ Sets("U", h) = UptimeSets(h)
           /\ Sets("O", h) = ClockSets /\ Sets("S", h) = TopSets
           /\ Sets("K", h) = Digits /\ \A m \in {"N", "D"} : Sets(m, h) = {}
BY DEF Sets

LEMMA AlwaysOf ==
    ASSUME NEW h \in Heights
    PROVE  /\ AlwaysSets("N", h) = SensorsSets /\ AlwaysSets("D", h) = {"f", "err1", "err2"}
           /\ \A m \in Mode \ {"M", "N", "D"} : AlwaysSets(m, h) = {}
           /\ AlwaysSets("M", h) = IF h >= 4 THEN {"title"} ELSE {}
BY DEF AlwaysSets

\* Whatever a screen sets is among what its first drawing has added, if the height
\* is the same, and not one row where the vu meter and the sensors are concerned.
LEMMA SetsOfScreens ==
    ASSUME NEW m \in Mode, NEW h \in Heights
    PROVE  /\ h >= 2 \/ m \notin {"V", "N"} =>
                 Sets(m, h) \subseteq Adds(m, h) /\ AlwaysSets(m, h) \subseteq Adds(m, h)
           /\ Adds(m, h) \subseteq Widget /\ Sets(m, h) \subseteq Widget
           /\ AlwaysSets(m, h) \subseteq Widget
           /\ ScreenOf(m) \in Mode
<1>0. h \in Nat  BY LcdStatsAssumption
<1>1. /\ Adds(m, h) \subseteq Widget /\ Sets(m, h) \subseteq Widget
      /\ AlwaysSets(m, h) \subseteq Widget
  <2>1. PICK x : x = Adds(m, h) \cup Sets(m, h) \cup AlwaysSets(m, h)  OBVIOUS
  <2>2. x \subseteq Widget  BY <2>1 DEF Widget
  <2> QED  BY <2>1, <2>2
<1>2. ScreenOf(m) \in Mode  BY DEF ScreenOf, Mode
<1>3. CpuSets(h) \subseteq CpuAdds(h)  BY Zenon DEF CpuSets, CpuAdds
<1>4. /\ MemSets(h) \subseteq MemAdds(h)
      /\ (IF h >= 4 THEN {"title"} ELSE {}) \subseteq MemAdds(h)
  <2>1. CASE h >= 4  BY <2>1 DEF MemSets, MemAdds, MemAddsTotals
  <2>2. CASE ~(h >= 4)  BY <2>2 DEF MemSets, MemAdds, MemAddsTotals
  <2> QED  BY <2>1, <2>2
<1>5. h >= 2 => VuSets \subseteq VuAdds(h) /\ SensorsSets \subseteq SensorsAdds(h)
  BY DEF VuSets, VuAdds, SensorsSets, SensorsAdds
<1>6. TimeSets(h) \subseteq TimeAdds(h)
  <2>1. CASE h >= 4  BY <2>1 DEF TimeSets, TimeAdds
  <2>2. CASE ~(h >= 4)  BY <2>2 DEF TimeSets, TimeAdds
  <2> QED  BY <2>1, <2>2
<1>7. UptimeSets(h) \subseteq UptimeAdds(h)
  <2>1. CASE h >= 4  BY <2>1 DEF UptimeSets, UptimeAdds
  <2>2. CASE ~(h >= 4)  BY <2>2 DEF UptimeSets, UptimeAdds
  <2> QED  BY <2>1, <2>2
<1>8. ClockSets \subseteq ClockAdds /\ TopSets \subseteq TopAdds
  BY DEF ClockSets, ClockAdds, TopSets, TopAdds
<1>9. {"f", "err1", "err2"} \subseteq DiskAdds  BY DEF DiskAdds
<1>10. ASSUME h >= 2 \/ m \notin {"V", "N"} PROVE Sets(m, h) \subseteq Adds(m, h)
  <2>0. CASE m = "V"  BY <1>5, <1>10, <2>0, AddsOf, SetsOf
  <2>1. CASE m \in {"C", "M"}  BY <1>3, <1>4, <1>5, <2>1, AddsOf, SetsOf
  <2>2. CASE m \in {"T", "U"}  BY <1>6, <1>7, <2>2, AddsOf, SetsOf
  <2>3. CASE m \in {"O", "S"}  BY <1>8, <2>3, AddsOf, SetsOf
  <2>4. CASE m \in {"N", "K", "D"}  BY <2>4, AddsOf, SetsOf
  <2> QED  BY <2>0, <2>1, <2>2, <2>3, <2>4 DEF Mode
<1>11. ASSUME h >= 2 \/ m \notin {"V", "N"} PROVE AlwaysSets(m, h) \subseteq Adds(m, h)
  <2>1. CASE m = "M"  BY <1>4, <2>1, AddsOf, AlwaysOf
  <2>2. CASE m = "N"  BY <1>5, <1>11, <2>2, AddsOf, AlwaysOf
  <2>3. CASE m = "D"  BY <1>9, <2>3, AddsOf, AlwaysOf
  <2>4. CASE m \notin {"M", "N", "D"}  BY <2>4, AlwaysOf
  <2> QED  BY <2>1, <2>2, <2>3, <2>4
<1> QED  BY <1>1, <1>2, <1>10, <1>11

LEMMA ScreensAre ==
    ASSUME NEW s \in Screens
    PROVE  /\ s.drawn \in [Mode -> Heights \cup {0}] /\ s.widgets \in [Mode -> SUBSET Widget]
           /\ s.lines \subseteq Int /\ s.num_disks \in Nat /\ s.found \in Nat
           /\ s.tmp \in 0 .. Room + 1
           /\ s.rejected \subseteq Mode \X (Widget \cup Int)
           /\ s = [drawn |-> s.drawn, widgets |-> s.widgets, lines |-> s.lines,
                   num_disks |-> s.num_disks, found |-> s.found, tmp |-> s.tmp,
                   rejected |-> s.rejected]
BY DEF Screens

\* The first drawing.
LEMMA FreshIs ==
    ASSUME NEW h \in Heights, NEW early \in BOOLEAN, NEW s \in Screens, Good(s, h, early),
           NEW m \in Mode, NEW u, u = Fresh(s, m, h)
    PROVE  u \in Screens /\ Good(u, h, early) /\ u.drawn[m] # 0
<1>1. /\ s.drawn \in [Mode -> Heights \cup {0}] /\ s.widgets \in [Mode -> SUBSET Widget]
      /\ s.lines \in SUBSET Int /\ s.num_disks \in Nat /\ s.found \in Nat
           /\ s.tmp \in 0 .. Room + 1
      /\ s.rejected \in SUBSET (Mode \X (Widget \cup Int))
      /\ s = [drawn |-> s.drawn, widgets |-> s.widgets, lines |-> s.lines,
              num_disks |-> s.num_disks, found |-> s.found, tmp |-> s.tmp,
              rejected |-> s.rejected]
  BY ScreensAre
<1>2. CASE s.drawn[m] # 0
  <2>1. u = s  BY <1>2 DEF Fresh
  <2> QED  BY <1>2, <2>1
<1>3. CASE s.drawn[m] = 0
  <2>1. PICK drawn : drawn = [s.drawn EXCEPT ![m] = h]  OBVIOUS
  <2>2. PICK w \in Mode : w = ScreenOf(m)  BY SetsOfScreens
  <2>3. PICK widgets : widgets = [s.widgets EXCEPT ![w] = @ \cup Adds(m, h)]  OBVIOUS
  <2>4. u = [drawn |-> drawn, widgets |-> widgets, lines |-> s.lines,
             num_disks |-> s.num_disks, found |-> s.found, tmp |-> s.tmp,
             rejected |-> s.rejected]
    <3>1. u = [s EXCEPT !.drawn[m] = h, !.widgets[w] = @ \cup Adds(m, h)]
      BY <1>3, <2>2, Zenon DEF Fresh
    <3>2. u = [s EXCEPT !.drawn = drawn, !.widgets = widgets]
      BY <2>1, <2>3, <3>1
    <3> QED  BY <1>1, <3>2
  <2>5. /\ drawn \in [Mode -> Heights \cup {0}] /\ drawn[m] = h
        /\ \A x \in Mode : x # m => drawn[x] = s.drawn[x]
    BY <1>1, <2>1
  <2>6. /\ widgets \in [Mode -> SUBSET Widget]
        /\ Adds(m, h) \subseteq widgets[w]
        /\ \A x \in Mode : s.widgets[x] \subseteq widgets[x]
        /\ \A x \in Mode : x # w => widgets[x] = s.widgets[x]
    <3>1. Adds(m, h) \subseteq Widget  BY SetsOfScreens
    <3> QED  BY <1>1, <2>3, <3>1
  <2>7. /\ u \in Screens /\ u.drawn = drawn /\ u.widgets = widgets /\ u.lines = s.lines
        /\ u.num_disks = s.num_disks /\ u.found = s.found /\ u.rejected = s.rejected
    <3>1. u \in Screens  BY <1>1, <2>4, <2>5, <2>6 DEF Screens
    <3> QED  BY <2>4, <3>1
  <2>8. ASSUME NEW x \in Mode, drawn[x] # 0
        PROVE  Adds(x, drawn[x]) \subseteq widgets[ScreenOf(x)]
    <3>1. CASE x = m  BY <2>2, <2>5, <2>6, <3>1
    <3>2. CASE x # m
      <4>1. drawn[x] = s.drawn[x] /\ ScreenOf(x) \in Mode  BY <2>5, <3>2, SetsOfScreens
      <4>2. Adds(x, drawn[x]) \subseteq s.widgets[ScreenOf(x)]  BY <2>8, <4>1 DEF Good
      <4> QED  BY <2>6, <4>1, <4>2
    <3> QED  BY <3>1, <3>2
  <2>9. ASSUME NEW x \in Mode, drawn[x] = 0, x # "V"
        PROVE  widgets[x] = {}
    <3>1. x # m /\ s.drawn[x] = 0  BY <2>5, <2>9, LcdStatsAssumption
    <3>2. x # w  BY <2>2, <2>9, <3>1 DEF ScreenOf
    <3> QED  BY <2>6, <2>9, <3>1, <3>2 DEF Good
  <2>10. early => \A x \in Mode : drawn[x] \in {0, h}  BY <2>5 DEF Good
  <2>11. ASSUME NEW r \in s.rejected
         PROVE  /\ r[1] \in Mode \ {"D"} /\ drawn[r[1]] # 0
                /\ drawn[r[1]] # h \/ (h < 2 /\ r[1] \in {"V", "N"})
    <3>1. /\ r[1] \in Mode \ {"D"} /\ s.drawn[r[1]] # 0
          /\ s.drawn[r[1]] # h \/ (h < 2 /\ r[1] \in {"V", "N"})
      BY DEF Good
    <3>2. r[1] # m  BY <1>3, <3>1
    <3> QED  BY <2>5, <3>1, <3>2
  <2>12. /\ s.lines = 0 .. s.num_disks - 1 /\ s.num_disks <= MaxDisks
         /\ s.found \in {0, s.num_disks}
    BY DEF Good
  <2>13. Good(u, h, early)
    <3>1. \A x \in Mode : u.drawn[x] = 0 /\ x # "V" => u.widgets[x] = {}  BY <2>7, <2>9
    <3>2. \A x \in Mode : u.drawn[x] # 0 => Adds(x, u.drawn[x]) \subseteq u.widgets[ScreenOf(x)]
      BY <2>7, <2>8
    <3>3. \A r \in u.rejected :
             /\ r[1] \in Mode \ {"D"} /\ u.drawn[r[1]] # 0
             /\ u.drawn[r[1]] # h \/ (h < 2 /\ r[1] \in {"V", "N"})
      BY <2>7, <2>11
    <3> QED  BY <2>7, <2>10, <2>12, <3>1, <3>2, <3>3 DEF Good
  <2>14. h # 0  BY LcdStatsAssumption
  <2> QED  BY <2>5, <2>7, <2>13, <2>14
<1> QED  BY <1>2, <1>3

\* What is changed in one field only.
LEMMA WithRejected ==
    ASSUME NEW s \in Screens, NEW r \in SUBSET (Mode \X (Widget \cup Int)),
           NEW u, u = [s EXCEPT !.rejected = r]
    PROVE  /\ u \in Screens /\ u.drawn = s.drawn /\ u.widgets = s.widgets
           /\ u.lines = s.lines /\ u.num_disks = s.num_disks /\ u.found = s.found /\ u.rejected = r
BY DEF Screens

LEMMA WithTmp ==
    ASSUME NEW s \in Screens, NEW t \in 0 .. Room + 1, NEW u, u = [s EXCEPT !.tmp = t]
    PROVE  /\ u \in Screens /\ u.drawn = s.drawn /\ u.widgets = s.widgets
           /\ u.lines = s.lines /\ u.num_disks = s.num_disks /\ u.found = s.found
           /\ u.rejected = s.rejected
BY DEF Screens

Setting(s, m, sets) == [s EXCEPT !.rejected = @ \cup NoSuchWidget(s, m, sets)]

\* Setting widgets: those of a screen that was drawn for this height are there.
LEMMA SettingIs ==
    ASSUME NEW h \in Heights, NEW early \in BOOLEAN, NEW s \in Screens, Good(s, h, early),
           NEW m \in Mode, s.drawn[m] # 0, NEW sets, sets \subseteq Widget,
           h >= 2 \/ m \notin {"V", "N"} => sets \subseteq Adds(m, h),
           NEW u, u = Setting(s, m, sets)
    PROVE  u \in Screens /\ Good(u, h, early) /\ u.drawn = s.drawn
<1>1. /\ s.drawn \in [Mode -> Heights \cup {0}] /\ s.widgets \in [Mode -> SUBSET Widget]
      /\ s.rejected \in SUBSET (Mode \X (Widget \cup Int))
  BY ScreensAre
<1>2. sets \subseteq Widget /\ h \in Nat  BY LcdStatsAssumption
<1>3. PICK no : no = NoSuchWidget(s, m, sets)  OBVIOUS
<1>4. no \subseteq Mode \X Widget /\ \A r \in no : r[1] = m
  BY <1>2, <1>3 DEF NoSuchWidget
<1>5. Adds(m, s.drawn[m]) \subseteq s.widgets[ScreenOf(m)]  BY DEF Good
<1>6. (h >= 2 \/ m \notin {"V", "N"}) /\ (m = "D" \/ s.drawn[m] = h) => no = {}
  <2>1. (h >= 2 \/ m \notin {"V", "N"}) /\ Adds(m, h) = Adds(m, s.drawn[m]) => no = {}
    BY <1>3, <1>5 DEF NoSuchWidget
  <2>2. m = "D" => Adds(m, h) = DiskAdds /\ Adds(m, s.drawn[m]) = DiskAdds  BY AddsOf
  <2> QED  BY <2>1, <2>2
<1>7. PICK rejected : rejected = s.rejected \cup no  OBVIOUS
<1>8. rejected \in SUBSET (Mode \X (Widget \cup Int))  BY <1>1, <1>4, <1>7
<1>9. u = [s EXCEPT !.rejected = rejected]  BY <1>3, <1>7 DEF Setting
<1>10. /\ u \in Screens /\ u.drawn = s.drawn /\ u.widgets = s.widgets /\ u.lines = s.lines
       /\ u.num_disks = s.num_disks /\ u.found = s.found /\ u.rejected = rejected
  <2>1. u \in Screens  BY <1>8, <1>9, WithRejected
  <2> QED  BY <1>9, <2>1 DEF Screens
<1>11. ASSUME NEW r \in rejected
       PROVE  /\ r[1] \in Mode \ {"D"} /\ s.drawn[r[1]] # 0
              /\ s.drawn[r[1]] # h \/ (h < 2 /\ r[1] \in {"V", "N"})
  <2>1. CASE r \in s.rejected  BY <2>1 DEF Good
  <2>2. CASE r \in no
    <3>1. r[1] = m  BY <1>4, <2>2
    <3>2. \/ h < 2 /\ m \in {"V", "N"}
          \/ m # "D" /\ s.drawn[m] # h
      BY <1>2, <1>6, <2>2
    <3> QED  BY <3>1, <3>2
  <2> QED  BY <1>7, <2>1, <2>2
<1>12. Good(u, h, early)  BY <1>10, <1>11 DEF Good
<1> QED  BY <1>10, <1>12

LEMMA TmpIs ==
    ASSUME NEW h \in Heights, NEW early \in BOOLEAN, NEW s \in Screens, Good(s, h, early),
           NEW t \in 0 .. Room + 1, NEW u, u = [s EXCEPT !.tmp = t]
    PROVE  u \in Screens /\ Good(u, h, early)
<1>1. /\ u \in Screens /\ u.drawn = s.drawn /\ u.widgets = s.widgets /\ u.lines = s.lines
      /\ u.num_disks = s.num_disks /\ u.found = s.found /\ u.rejected = s.rejected
  BY WithTmp
<1> QED  BY <1>1 DEF Good

\* The disk screen: the frame is left with one line for each file system.
LEMMA DisksAre ==
    ASSUME NEW h \in Heights, NEW early \in BOOLEAN, NEW s \in Screens, Good(s, h, early),
           NEW n \in FileSystems, NEW u, u = DrawDisks(s, n)
    PROVE  u \in Screens /\ Good(u, h, early)
<1>1. s.num_disks \in Nat /\ s.rejected \in SUBSET (Mode \X (Widget \cup Int))
  BY ScreensAre
<1>2. s.lines = 0 .. s.num_disks - 1  BY DEF Good
<1>3. n \in Nat /\ n <= MaxDisks  BY LcdStatsAssumption DEF FileSystems
<1>4. CASE n = 0
  <2>1. u = [s EXCEPT !.found = 0]  BY <1>4 DEF DrawDisks
  <2>2. /\ u \in Screens /\ u.drawn = s.drawn /\ u.widgets = s.widgets /\ u.lines = s.lines
        /\ u.num_disks = s.num_disks /\ u.found = 0 /\ u.rejected = s.rejected
    BY <2>1 DEF Screens
  <2> QED  BY <2>2 DEF Good
<1>5. CASE n # 0
  <2>1. PICK before : before = s.lines \cup AddedDisks(s, n)  OBVIOUS
  <2>2. PICK lines : lines = before \ DeletedDisks(s, n)  OBVIOUS
  <2>3. PICK rejected : rejected = s.rejected \cup {<<"D", i>> : i \in (0 .. n - 1) \ before}
    OBVIOUS
  <2>4. u = [s EXCEPT !.lines = lines, !.num_disks = n, !.found = n,
                   !.rejected = rejected]
    BY <1>5, <2>1, <2>2, <2>3 DEF DrawDisks
  <2>5. \A i : i \in before <=> i \in Int /\ 0 <= i /\ (i < s.num_disks \/ i < n)
    BY <1>1, <1>2, <1>3, <2>1 DEF AddedDisks
  <2>6. lines = 0 .. n - 1
    <3>1. \A i : i \in lines <=> i \in before /\ ~(n <= i /\ i <= s.num_disks - 1)
      BY <1>1, <1>3, <2>2, <2>5 DEF DeletedDisks
    <3>2. \A i : i \in lines <=> i \in 0 .. n - 1
      BY <1>1, <1>3, <2>5, <3>1
    <3> QED  BY <3>2
  <2>7. rejected = s.rejected
    <3>1. (0 .. n - 1) \ before = {}  BY <1>1, <1>3, <2>5
    <3> QED  BY <2>3, <3>1
  <2>8. /\ u \in Screens /\ u.drawn = s.drawn /\ u.widgets = s.widgets /\ u.lines = lines
        /\ u.num_disks = n /\ u.found = n /\ u.rejected = rejected
    <3>1. lines \in SUBSET Int  BY <2>6
    <3>2. rejected \in SUBSET (Mode \X (Widget \cup Int))  BY <1>1, <2>7
    <3>3. u \in Screens  BY <1>3, <2>4, <3>1, <3>2 DEF Screens
    <3> QED  BY <2>4, <3>3 DEF Screens
  <2> QED  BY <1>3, <2>6, <2>7, <2>8 DEF Good
<1> QED  BY <1>4, <1>5

\* What is in tmp, only the text of a screen and the digits of the clock change.
LEMMA TmpOf ==
    ASSUME NEW s \in Screens
    PROVE  /\ \A m, h : Fresh(s, m, h).tmp = s.tmp
           /\ \A m, sets : Setting(s, m, sets).tmp = s.tmp
           /\ \A n : DrawDisks(s, n).tmp = s.tmp
           /\ \A t : [s EXCEPT !.tmp = t].tmp = t
           /\ \A k : DrawDigits(s, k).tmp = IF s.tmp + k > Room THEN Room + 1 ELSE s.tmp + k
BY DEF Screens, Fresh, Setting, DrawDisks, DrawDigits

\* Whatever is drawn, and whether the display shows it or not.
LEMMA RedrawIs ==
    ASSUME NEW h \in Heights, NEW early \in BOOLEAN, NEW s \in Screens, Good(s, h, early),
           NEW m \in Mode, s.drawn[m] # 0, NEW display \in BOOLEAN, NEW n \in FileSystems,
           NEW k \in Nat, NEW u, u = Redraw(s, m, h, display, n, k)
    PROVE  /\ u \in Screens /\ Good(u, h, early)
           /\ m # "K" => u.tmp \in {0, s.tmp}
           /\ m = "K" => u.tmp <= s.tmp + k
           /\ m \in Begins => u.tmp = 0
<1>1. PICK sets : sets = AlwaysSets(m, h) \cup IF display THEN Sets(m, h) ELSE {}  OBVIOUS
<1>2. /\ sets \subseteq Widget
      /\ h >= 2 \/ m \notin {"V", "N"} => sets \subseteq Adds(m, h)
  BY <1>1, SetsOfScreens
<1>3. PICK set : set = Setting(s, m, sets)  OBVIOUS
<1>4. /\ set \in Screens /\ Good(set, h, early)
      /\ set.tmp = s.tmp
  <2>1. set \in Screens /\ Good(set, h, early)  BY <1>2, <1>3, SettingIs
  <2>2. set.tmp = s.tmp  BY <1>3, TmpOf
  <2> QED  BY <2>1, <2>2
<1>5. PICK text : text = IF BeginsTmp(m, n) THEN [set EXCEPT !.tmp = 0] ELSE set  OBVIOUS
<1>6. /\ text \in Screens /\ Good(text, h, early)
      /\ text.tmp = IF BeginsTmp(m, n) THEN 0 ELSE s.tmp
  <2>1. PICK none : none = [set EXCEPT !.tmp = 0]  OBVIOUS
  <2>2. none \in Screens /\ Good(none, h, early)
    <3>1. 0 \in 0 .. Room + 1  BY LcdStatsAssumption
    <3> QED  BY <1>4, <2>1, <3>1, TmpIs
  <2>3. none.tmp = 0  BY <1>4, <2>1, TmpOf
  <2>4. text = IF BeginsTmp(m, n) THEN none ELSE set  BY <1>5, <2>1
  <2> QED  BY <1>4, <2>2, <2>3, <2>4
<1>7. u = CASE m = "D" -> DrawDisks(text, n)
            [] m = "K" -> DrawDigits(text, k)
            [] OTHER   -> text
  BY <1>1, <1>3, <1>5, Zenon DEF Redraw, Setting
<1>8. CASE m = "D"
  <2>1. u = DrawDisks(text, n)  BY <1>7, <1>8
  <2>2. u.tmp = text.tmp  BY <1>6, <2>1, TmpOf
  <2>3. u \in Screens /\ Good(u, h, early)  BY <1>6, <2>1, DisksAre
  <2> QED  BY <1>6, <1>8, <2>2, <2>3 DEF Begins
<1>9. CASE m = "K"
  <2>1. PICK t : t = IF text.tmp + k > Room THEN Room + 1 ELSE text.tmp + k  OBVIOUS
  <2>2. t \in 0 .. Room + 1 /\ t <= text.tmp + k
    <3>1. text.tmp \in 0 .. Room + 1 /\ Room \in Nat  BY <1>6, ScreensAre, LcdStatsAssumption
    <3> QED  BY <2>1, <3>1
  <2>3. u = DrawDigits(text, k)  BY <1>7, <1>9
  <2>4. u = [text EXCEPT !.tmp = t]  BY <2>1, <2>3 DEF DrawDigits
  <2>5. u \in Screens /\ Good(u, h, early)  BY <1>6, <2>2, <2>4, TmpIs
  <2>6. u.tmp = t  BY <1>6, <2>1, <2>3, TmpOf
  <2>7. text.tmp = s.tmp  BY <1>6, <1>9 DEF BeginsTmp
  <2> QED  BY <1>9, <2>2, <2>5, <2>6, <2>7 DEF Begins
<1>10. CASE m \notin {"D", "K"}
  <2>1. u = text  BY <1>7, <1>10
  <2>2. m \in Begins => BeginsTmp(m, n)  BY DEF BeginsTmp, Begins
  <2> QED  BY <1>6, <1>10, <2>1, <2>2
<1> QED  BY <1>8, <1>9, <1>10

LEMMA UpdateScreenIs ==
    ASSUME NEW h \in Heights, NEW early \in BOOLEAN, NEW s \in Screens, Good(s, h, early),
           NEW m \in Mode, NEW display \in BOOLEAN, NEW n \in FileSystems,
           NEW k \in Nat, NEW c \in BOOLEAN, NEW u, u = UpdateScreen(s, m, h, display, n, k, c)
    PROVE  /\ u \in Screens /\ Good(u, h, early)
           /\ m # "K" => u.tmp \in {0, s.tmp}
           /\ m = "K" => u.tmp <= s.tmp + k
           /\ m \in Begins => u.tmp = 0
<1>1. PICK f : f = Fresh(s, m, h)  OBVIOUS
<1>2. f \in Screens /\ Good(f, h, early) /\ f.drawn[m] # 0  BY <1>1, FreshIs
<1>3. f.tmp = s.tmp  BY <1>1, TmpOf
<1>4. PICK r : r = Redraw(f, m, h, display, n, k)  OBVIOUS
<1>5. /\ r \in Screens /\ Good(r, h, early)
      /\ m # "K" => r.tmp \in {0, f.tmp}
      /\ m = "K" => r.tmp <= f.tmp + k
      /\ m \in Begins => r.tmp = 0
  BY <1>2, <1>4, RedrawIs
<1>6. u = IF ~Drawable(m, h) THEN s
          ELSE IF (m = "C" /\ s.drawn[m] = 0) \/ (m = "N" /\ ~c) THEN f ELSE r
  BY <1>1, <1>4, Zenon DEF UpdateScreen
<1>7. m \in Begins => u = r  BY <1>6 DEF Drawable, Begins
<1>8. u = s \/ u = f \/ u = r  BY <1>6
<1>9. s.tmp \in Nat  BY ScreensAre, LcdStatsAssumption
<1> QED  BY <1>2, <1>3, <1>5, <1>7, <1>8, <1>9

-----------------------------------------------------------------------------
(* A turn of the main loop.                                                *)

\* The screens that are due, in their order: whatever each drawing keeps, all of
\* them keep; and what each makes of what the one before it has left (P), they lead to.
LEMMA DrawModesAre ==
    ASSUME NEW n, NEW k, NEW c, Len(sequence) \in Nat,
           NEW T, [screens EXCEPT !.rejected = {}] \in T,
           \A s \in T : \A i \in 1 .. Len(sequence) : DrawMode(s, i, n, k, c) \in T,
           NEW P, [screens EXCEPT !.rejected = {}] \in P[0],
           \A i \in 1 .. Len(sequence) : \A s \in T :
              s \in P[i - 1] => DrawMode(s, i, n, k, c) \in P[i]
    PROVE  DrawModes(n, k, c) \in T /\ DrawModes(n, k, c) \in P[Len(sequence)]
<1>1. PICK l \in Nat : l = Len(sequence)  OBVIOUS
<1>2. PICK s0 : s0 = [screens EXCEPT !.rejected = {}]  OBVIOUS
<1>3. s0 \in T /\ s0 \in P[0]  BY <1>2
<1> DEFINE Turned(f, i) == IF i = 0 THEN s0 ELSE DrawMode(f[i - 1], i, n, k, c)
<1>4. DrawModes(n, k, c) = (CHOOSE f : f = [i \in 0 .. l |-> Turned(f, i)])[l]
  BY <1>1, <1>2 DEF DrawModes
<1>5. \E f : f = [i \in 0 .. l |-> Turned(f, i)]
  <2>1. PICK F : F = [i \in 1 .. l |-> [s \in T |-> DrawMode(s, i, n, k, c)]]  OBVIOUS
  <2>2. F \in [1 .. l -> [T -> T]]  BY <1>1, <2>1
  <2>3. PICK f : Obeys(f, l, T, s0, F)  BY <1>3, <2>2, RecursionExists
  <2>4. f \in [0 .. l -> T] /\ f[0] = s0 /\ \A i \in 1 .. l : f[i] = F[i][f[i - 1]]
    BY <2>3 DEF Obeys
  <2>5. ASSUME NEW i \in 1 .. l PROVE f[i] = DrawMode(f[i - 1], i, n, k, c)
    <3>1. i - 1 \in 0 .. l  OBVIOUS
    <3>2. f[i - 1] \in T  BY <2>4, <3>1
    <3> QED  BY <2>1, <2>4, <3>2
  <2>6. \A i \in 0 .. l : f[i] = Turned(f, i)
    <3> SUFFICES ASSUME NEW i \in 0 .. l PROVE f[i] = Turned(f, i)  OBVIOUS
    <3>1. CASE i = 0  BY <2>4, <3>1
    <3>2. CASE i # 0
      <4>1. i \in 1 .. l  BY <3>2
      <4> QED  BY <2>5, <3>2, <4>1
    <3> QED  BY <3>1, <3>2
  <2> HIDE DEF Turned
  <2>7. f = [i \in 0 .. l |-> Turned(f, i)]  BY <2>4, <2>6
  <2> QED  BY <2>7
<1> HIDE DEF Turned
<1>6. PICK f : f = CHOOSE g : g = [i \in 0 .. l |-> Turned(g, i)]  OBVIOUS
<1>7. f = [i \in 0 .. l |-> Turned(f, i)]  BY <1>5, <1>6
<1>8. \A i \in 0 .. l : f[i] = Turned(f, i)
  <2>1. \A g : g = [i \in 0 .. l |-> Turned(f, i)] => \A i \in 0 .. l : g[i] = Turned(f, i)
    OBVIOUS
  <2> QED  BY <1>7, <2>1
<1> DEFINE U == {i \in 0 .. l : f[i] \in T /\ f[i] \in P[i]}
<1>9. 0 \in U
  <2>1. 0 \in 0 .. l  OBVIOUS
  <2> QED  BY <1>3, <1>8, <2>1 DEF Turned
<1>10. ASSUME NEW i \in 1 .. l, i - 1 \in U PROVE i \in U
  <2>1. i \in 0 .. l /\ i # 0 /\ f[i - 1] \in T /\ f[i - 1] \in P[i - 1]  BY <1>10
  <2>2. f[i] = DrawMode(f[i - 1], i, n, k, c)  BY <1>8, <2>1 DEF Turned
  <2> QED  BY <1>1, <2>1, <2>2
<1> HIDE DEF U
<1>11. \A i \in 0 .. l : i \in U  BY <1>9, <1>10, UpTheNumbers
<1>12. l \in U  BY <1>11
<1> QED  BY <1>1, <1>4, <1>6, <1>12 DEF U

\* The sequence and its periods.
LEMMA Periods ==
    ASSUME StatsInv
    PROVE  /\ Len(sequence) \in Nat /\ DOMAIN sequence = 1 .. Len(sequence)
           /\ \A i \in DOMAIN sequence :
                 /\ sequence[i] \in Mode /\ visible[i] \in BOOLEAN
                 /\ Period(i) \in Nat \ {0} /\ timer[i] \in Nat
<1>1. sequence \in Seq(Mode)  BY LcdStatsAssumption DEF StatsInv
<1>2. Len(sequence) \in Nat /\ DOMAIN sequence = 1 .. Len(sequence)  BY <1>1
<1>3. ASSUME NEW i \in DOMAIN sequence
      PROVE  /\ sequence[i] \in Mode /\ visible[i] \in BOOLEAN
             /\ Period(i) \in Nat \ {0} /\ timer[i] \in Nat
  <2>1. sequence[i] \in Mode  BY <1>1
  <2>2. OnTime[sequence[i]] \in Nat \ {0} /\ OffTime[sequence[i]] \in Nat \ {0}
    BY <2>1, LcdStatsAssumption
  <2>3. Period(i) \in Nat \ {0}  BY <2>2 DEF Period
  <2>4. timer[i] \in Nat /\ visible[i] \in BOOLEAN  BY DEF StatsInv
  <2> QED  BY <2>1, <2>3, <2>4
<1> QED  BY <1>2, <1>3

\* The screens as they may be while they are drawn.
Drawn == {s \in Screens : Good(s, hgt, hello)}

LEMMA DrawingStarts ==
    ASSUME StatsInv
    PROVE  /\ [screens EXCEPT !.rejected = {}] \in Drawn
           /\ [screens EXCEPT !.rejected = {}].tmp = screens.tmp
<1>1. PICK u : u = [screens EXCEPT !.rejected = {}]  OBVIOUS
<1>2. screens \in Screens /\ Good(screens, hgt, hello)  BY DEF StatsInv
<1>3. u \in Screens  BY <1>1, <1>2 DEF Screens
<1>4. /\ u.drawn = screens.drawn /\ u.widgets = screens.widgets /\ u.lines = screens.lines
      /\ u.num_disks = screens.num_disks /\ u.found = screens.found
      /\ u.rejected = {} /\ u.tmp = screens.tmp
  BY <1>1, <1>2 DEF Screens
<1>5. Good(u, hgt, hello)  BY <1>2, <1>4 DEF Good
<1>6. u \in Drawn /\ u.tmp = screens.tmp  BY <1>3, <1>4, <1>5 DEF Drawn
<1> QED  BY <1>1, <1>6

\* What the drawing of one mode of the sequence makes of s, and leaves in tmp.
Makes(s, i, k, u) ==
    /\ ~Due(i) => u = s
    /\ sequence[i] # "K" => u.tmp \in {0, s.tmp}
    /\ sequence[i] = "K" => u.tmp <= s.tmp + k
    /\ Due(i) /\ sequence[i] \in Begins => u.tmp = 0

LEMMA DrawModeIs ==
    ASSUME StatsInv, NEW n \in FileSystems, NEW k \in 0 .. 6, NEW c \in BOOLEAN, NEW s \in Drawn,
           NEW i \in DOMAIN sequence, NEW u, u = DrawMode(s, i, n, k, c)
    PROVE  u \in Drawn /\ Makes(s, i, k, u)
<1>1. s \in Screens /\ Good(s, hgt, hello)  BY DEF Drawn
<1>2. PICK m \in Mode : m = sequence[i]  BY Periods
<1>3. PICK display \in BOOLEAN : display = (visible[i] \/ ShowInvisible[sequence[i]])
  OBVIOUS
<1>4. PICK v : v = UpdateScreen(s, m, hgt, display, n, k, c)  OBVIOUS
<1>5. hgt \in Heights /\ hello \in BOOLEAN /\ k \in Nat  BY DEF StatsInv
<1>6. /\ v \in Screens /\ Good(v, hgt, hello)
      /\ m # "K" => v.tmp \in {0, s.tmp}
      /\ m = "K" => v.tmp <= s.tmp + k
      /\ m \in Begins => v.tmp = 0
  BY <1>1, <1>4, <1>5, UpdateScreenIs
<1>7. u = IF ~Due(i) THEN s ELSE v  BY <1>2, <1>3, <1>4 DEF DrawMode
<1>8. s.tmp \in Nat  BY <1>1, ScreensAre, LcdStatsAssumption
<1> QED  BY <1>1, <1>2, <1>6, <1>7, <1>8 DEF Drawn, Makes

LEMMA DrawingKeeps ==
    ASSUME StatsInv, NEW n \in FileSystems, NEW k \in 0 .. 6, NEW c \in BOOLEAN
    PROVE  DrawModes(n, k, c) \in Drawn
<1>1. Len(sequence) \in Nat /\ DOMAIN sequence = 1 .. Len(sequence)  BY Periods
<1>2. [screens EXCEPT !.rejected = {}] \in Drawn  BY DrawingStarts
<1>3. \A s \in Drawn : \A i \in 1 .. Len(sequence) : DrawMode(s, i, n, k, c) \in Drawn
  BY <1>1, DrawModeIs
<1>4. PICK P : P = [i \in 0 .. Len(sequence) |-> Drawn]  OBVIOUS
<1>5. [screens EXCEPT !.rejected = {}] \in P[0]  BY <1>1, <1>2, <1>4
<1>6. ASSUME NEW i \in 1 .. Len(sequence), NEW s \in Drawn PROVE DrawMode(s, i, n, k, c) \in P[i]
  <2>1. i \in 0 .. Len(sequence)  BY <1>1
  <2> QED  BY <1>3, <1>4, <2>1
<1> QED  BY <1>1, <1>2, <1>3, <1>5, <1>6, DrawModesAre

-----------------------------------------------------------------------------
(* The invariant.                                                          *)

LEMMA BlankIs == Blank \in Screens /\ Good(Blank, 2, TRUE)
<1>1. /\ Blank.drawn = [m \in Mode |-> 0] /\ Blank.widgets = [m \in Mode |-> {}]
      /\ Blank.lines = {} /\ Blank.num_disks = 0 /\ Blank.found = 0
      /\ Blank.tmp = 0 /\ Blank.rejected = {}
  BY DEF Blank
<1>2. Blank \in Screens  BY LcdStatsAssumption DEF Blank, Screens
<1>3. 0 <= MaxDisks /\ 0 .. 0 - 1 = {}  BY LcdStatsAssumption
<1>4. Good(Blank, 2, TRUE)  BY <1>1, <1>3 DEF Good
<1> QED  BY <1>2, <1>4

\* Modes of a sequence, none of which was drawn.
LEMMA Modes ==
    ASSUME NEW q \in Sequences
    PROVE  /\ [i \in DOMAIN q |-> Never] \in [DOMAIN q -> Nat]
           /\ [i \in DOMAIN q |-> FALSE] \in [DOMAIN q -> BOOLEAN]
BY DEF Never

LEMMA InitInv == Init => StatsInv
BY BlankIs, Modes, LcdStatsAssumption DEF Init, StatsInv

LEMMA StepInv == StatsInv /\ [Next]_vars => StatsInv'
<1> SUFFICES ASSUME StatsInv, [Next]_vars PROVE StatsInv'  OBVIOUS
<1>1. ASSUME NEW i \in DOMAIN sequence, Listen(ScreenOf(sequence[i])) PROVE StatsInv'
  <2>1. visible' \in [DOMAIN sequence -> BOOLEAN]
    <3>1. \A j \in DOMAIN sequence : visible'[j] \in BOOLEAN  BY <1>1 DEF Listen, StatsInv
    <3> QED  BY <1>1, <3>1 DEF Listen
  <2> QED  BY <1>1, <2>1 DEF Listen, StatsInv
<1>2. ASSUME NEW h \in Heights, Connect(h) PROVE StatsInv'
  <2>1. hello /\ hello' = FALSE /\ hgt' = h /\ screens' = screens  BY <1>2 DEF Connect
  <2>2. screens \in Screens /\ Good(screens, hgt, TRUE)  BY <2>1 DEF StatsInv
  <2>3. screens.rejected = {}
    <3>1. \A m \in Mode : screens.drawn[m] \in {0, hgt}  BY <2>2 DEF Good
    <3>2. ASSUME NEW r \in screens.rejected PROVE FALSE
      <4>1. /\ r[1] \in Mode /\ screens.drawn[r[1]] # 0
            /\ screens.drawn[r[1]] # hgt \/ hgt < 2
        BY <2>2 DEF Good
      <4>2. hgt = 2  BY <2>1 DEF StatsInv
      <4> QED  BY <3>1, <4>1, <4>2
    <3> QED  BY <3>2
  <2>4. Good(screens, h, FALSE)  BY <2>2, <2>3 DEF Good
  <2> QED  BY <1>2, <2>1, <2>2, <2>4 DEF Connect, StatsInv
<1>3. CASE ConnectTorn
  <2>1. Good(screens, hgt, FALSE)  BY DEF StatsInv, Good
  <2> QED  BY <1>3, <2>1 DEF ConnectTorn, StatsInv
<1>4. CASE ExitProgram
  <2>1. PICK q \in Sequences : q = sequence'  BY <1>4 DEF ExitProgram
  <2>2. /\ timer' = [i \in DOMAIN q |-> Never] /\ visible' = [i \in DOMAIN q |-> FALSE]
        /\ hgt' = 2 /\ hello' = TRUE /\ screens' = Blank
    BY <1>4, <2>1 DEF ExitProgram
  <2> QED  BY <2>1, <2>2, BlankIs, Modes, LcdStatsAssumption DEF StatsInv
<1>5. CASE Turn
  <2>1. PICK n \in FileSystems, k \in 0 .. 6, c \in BOOLEAN :
            /\ timer' = [i \in DOMAIN sequence |-> IF Due(i) THEN 0 ELSE timer[i] + 1]
            /\ screens' = DrawModes(n, k, c)
            /\ UNCHANGED <<sequence, visible, hgt, hello>>
    BY <1>5 DEF Turn
  <2>2. timer' \in [DOMAIN sequence -> Nat]
    <3>1. \A i \in DOMAIN sequence : timer[i] + 1 \in Nat  BY DEF StatsInv
    <3> QED  BY <2>1, <3>1
  <2>3. screens' \in Screens /\ Good(screens', hgt, hello)  BY <2>1, DrawingKeeps DEF Drawn
  <2> QED  BY <2>1, <2>2, <2>3 DEF StatsInv
<1>6. CASE UNCHANGED vars  BY <1>6 DEF vars, StatsInv
<1> QED  BY <1>1, <1>2, <1>3, <1>4, <1>5, <1>6 DEF Next, Received

LEMMA Invariance == Spec => []StatsInv
BY InitInv, StepInv, PTL DEF Spec

-----------------------------------------------------------------------------
(* The theorems.                                                           *)

\* Type correctness; what was never drawn, LCDd has nothing of.
THEOREM Typing == Spec => []LcdStatsTypeOK
<1>1. StatsInv => LcdStatsTypeOK
  <2> SUFFICES ASSUME StatsInv PROVE LcdStatsTypeOK  OBVIOUS
  <2>1. screens \in Screens /\ Good(screens, hgt, hello)  BY DEF StatsInv
  <2>2. /\ screens.drawn \in [Mode -> Heights \cup {0}] /\ screens.num_disks \in Nat
        /\ screens.tmp \in 0 .. Room + 1
    BY <2>1, ScreensAre
  <2>3. /\ screens.lines = 0 .. screens.num_disks - 1 /\ screens.num_disks <= MaxDisks
        /\ \A m \in Mode : screens.drawn[m] = 0 /\ m # "V" => screens.widgets[m] = {}
    BY <2>1 DEF Good
  <2>4. /\ screens.lines \subseteq 0 .. MaxDisks - 1 /\ screens.num_disks \in 0 .. MaxDisks
    BY <2>2, <2>3, LcdStatsAssumption
  <2> QED  BY <2>2, <2>3, <2>4 DEF LcdStatsTypeOK, StatsInv
<1> QED  BY <1>1, Invariance, PTL

\* LCDd has every widget that is set, the digits of the big clock included, for any
\* sequences, periods and displays: unless the line "connect" has changed the layout
\* after the screen was drawn for the first time, or the display has one row and the
\* screen is the vu meter's or the sensors', which add nothing for it.
THEOREM WidgetsAreThere == Spec => []SetsAreAdded
<1>1. StatsInv => SetsAreAdded  BY DEF StatsInv, Good, SetsAreAdded
<1> QED  BY <1>1, Invariance, PTL

\* The frame of the disk screen has a line for each file system of the last drawing
\* that found any, whatever was mounted and unmounted, of any number.
THEOREM FrameOfDisks == Spec => []LinesOfDisks
<1>1. StatsInv => LinesOfDisks  BY DEF StatsInv, Good, LinesOfDisks
<1> QED  BY <1>1, Invariance, PTL

\* No turn leaves a screen older than its period, whatever the periods are, and
\* whichever of the two LCDd changes it to.
THEOREM DrawnInTime == Spec => InTime
<1>1. StatsInv /\ [Next]_vars =>
        [Turn => \A i \in DOMAIN sequence : timer'[i] < Period(i)]_vars
  <2> SUFFICES ASSUME StatsInv, Turn, NEW i \in DOMAIN sequence
               PROVE  timer'[i] < Period(i)
    OBVIOUS
  <2>1. Period(i) \in Nat \ {0} /\ timer[i] \in Nat  BY Periods
  <2>2. timer'[i] = IF Due(i) THEN 0 ELSE timer[i] + 1  BY DEF Turn
  <2> QED  BY <2>1, <2>2 DEF Due
<1> QED  BY <1>1, Invariance, PTL DEF Spec, InTime

-----------------------------------------------------------------------------
(* The buffer tmp.                                                         *)

OneClock == \A x, y \in DOMAIN sequence : sequence[x] = "K" /\ sequence[y] = "K" => x = y

\* The big clock (i) and a screen that begins tmp (j), in any order.
Beside(i, j) ==
    /\ i \in DOMAIN sequence /\ sequence[i] = "K"
    /\ j \in DOMAIN sequence /\ sequence[j] \in Begins

\* How long it takes the clock to put t commands into tmp, six in each drawing: the
\* time since the first of these drawings, by the clock's timer (ti) and that of the
\* screen that begins tmp (tj), which was not drawn since.
Lasted(t, ti, tj) == t = 0 \/ (t - 6) * OnTime["K"] + 6 * ti <= 6 * tj

TmpInv ==
    /\ (\A i \in DOMAIN sequence : sequence[i] # "K") => screens.tmp = 0
    /\ OneClock => \A i, j \in DOMAIN sequence :
          Beside(i, j) =>
             /\ Lasted(screens.tmp, timer[i], timer[j])
             /\ screens.tmp > 0 => timer[j] < OffTime[sequence[j]]

LEMMA ClockPeriod == OnTime["K"] \in Nat /\ OnTime["K"] > 0
<1>1. "K" \in Mode  BY DEF Mode
<1> QED  BY <1>1, LcdStatsAssumption

\* One drawing of the clock more, when it was due.
LEMMA OneMore ==
    ASSUME NEW a \in Nat, NEW ti \in Nat, NEW tj \in Nat, NEW v \in Nat,
           Lasted(a, ti, tj), v <= a + 6, OnTime["K"] <= ti + 1
    PROVE  Lasted(v, 0, tj + 1)
<1>1. PICK o \in Nat : o = OnTime["K"]  BY ClockPeriod
<1>2. CASE a = 0
  <2>1. v - 6 \in Int /\ v - 6 <= 0  BY <1>2
  <2>2. (v - 6) * o <= 0  BY <1>1, <2>1
  <2> QED  BY <1>1, <2>2 DEF Lasted
<1>3. CASE a # 0
  <2>1. PICK w \in Int : w = (a - 6) * o  BY <1>1
  <2>2. w + 6 * ti <= 6 * tj  BY <1>1, <1>3, <2>1 DEF Lasted
  <2>3. a * o \in Int /\ a * o = w + 6 * o  BY <1>1, <2>1
  <2>4. a * o <= 6 * (tj + 1)  BY <1>1, <2>2, <2>3
  <2>5. v - 6 \in Int /\ v - 6 <= a  OBVIOUS
  <2>6. (v - 6) * o <= a * o  BY <1>1, <2>5
  <2>7. (v - 6) * o \in Int  BY <1>1
  <2>8. (v - 6) * o <= 6 * (tj + 1)  BY <2>3, <2>4, <2>6, <2>7
  <2> QED  BY <1>1, <2>7, <2>8 DEF Lasted
<1> QED  BY <1>2, <1>3

\* One turn: tmp grows by at most one drawing of the clock, and holds no more than
\* that if the other screen was drawn.
LEMMA TurnOfClock ==
    ASSUME StatsInv, NEW n \in FileSystems, NEW k \in 0 .. 6, NEW c \in BOOLEAN,
           NEW i, NEW j, Beside(i, j), OneClock,
           NEW u, u = DrawModes(n, k, c)
    PROVE  /\ u.tmp \in Nat
           /\ ~Due(i) => u.tmp \in {0, screens.tmp} /\ (Due(j) => u.tmp = 0)
           /\ u.tmp <= screens.tmp + 6 /\ (Due(j) => u.tmp <= 6)
<1>1. PICK l \in Nat : l = Len(sequence) /\ DOMAIN sequence = 1 .. l  BY Periods
<1>2. /\ i \in 1 .. l /\ j \in 1 .. l /\ sequence[i] = "K"
      /\ sequence[j] \in Begins /\ i # j
  BY <1>1 DEF Beside, Begins
<1>3. screens.tmp \in Nat  BY ScreensAre, LcdStatsAssumption DEF StatsInv
<1> DEFINE Left(x) ==
             {s \in Drawn :
                 /\ x < i \/ ~Due(i) => s.tmp \in {0, screens.tmp}
                 /\ s.tmp <= screens.tmp + 6
                 /\ j <= x /\ Due(j) => s.tmp <= 6 /\ (x < i \/ ~Due(i) => s.tmp = 0)}
<1>5. PICK P : P = [x \in 0 .. l |-> Left(x)]  OBVIOUS
<1>6. \A x \in 0 .. l : P[x] = Left(x)  BY <1>5
<1>7. [screens EXCEPT !.rejected = {}] \in P[0]
  <2>1. PICK s : s = [screens EXCEPT !.rejected = {}]  OBVIOUS
  <2>2. s \in Drawn /\ s.tmp = screens.tmp  BY <2>1, DrawingStarts
  <2>3. ~(j <= 0)  BY <1>2
  <2>4. s \in Left(0)  BY <1>3, <2>2, <2>3
  <2>5. P[0] = Left(0)  BY <1>6
  <2> QED  BY <2>1, <2>4, <2>5
<1>8. ASSUME NEW x \in 1 .. l, NEW s \in Drawn, s \in P[x - 1]
      PROVE  DrawMode(s, x, n, k, c) \in P[x]
  <2>1. x - 1 \in 0 .. l /\ x \in 0 .. l /\ x \in DOMAIN sequence  BY <1>1
  <2>2. PICK v : v = DrawMode(s, x, n, k, c)  OBVIOUS
  <2>3. /\ v \in Drawn
        /\ ~Due(x) => v = s
        /\ sequence[x] # "K" => v.tmp \in {0, s.tmp}
        /\ sequence[x] = "K" => v.tmp <= s.tmp + k
        /\ Due(x) /\ sequence[x] \in Begins => v.tmp = 0
    <3>1. v \in Drawn /\ Makes(s, x, k, v)  BY <2>1, <2>2, DrawModeIs
    <3> QED  BY <3>1 DEF Makes
  <2>4. /\ x - 1 < i \/ ~Due(i) => s.tmp \in {0, screens.tmp}
        /\ s.tmp <= screens.tmp + 6
        /\ j <= x - 1 /\ Due(j) => s.tmp <= 6 /\ (x - 1 < i \/ ~Due(i) => s.tmp = 0)
    <3>1. P[x - 1] = Left(x - 1)  BY <1>6, <2>1
    <3>2. s \in Left(x - 1)  BY <1>8, <3>1
    <3> QED  BY <3>2
  <2>5. s.tmp \in Nat /\ v.tmp \in Nat  BY <2>3, ScreensAre, LcdStatsAssumption DEF Drawn
  <2>6. CASE x = i
    <3>1. CASE ~Due(i)
      <4>1. v = s  BY <2>3, <2>6, <3>1
      <4>2. j <= x => j <= x - 1  BY <1>2, <2>6
      <4>3. v \in Left(x)  BY <2>3, <2>4, <3>1, <4>1, <4>2
      <4> QED  BY <1>6, <2>1, <2>2, <4>3
    <3>2. CASE Due(i)
      <4>1. s.tmp \in {0, screens.tmp} /\ x - 1 < i  BY <1>2, <2>4, <2>6
      <4>2. v.tmp <= s.tmp + 6  BY <1>2, <2>3, <2>5, <2>6
      <4>3. j <= x /\ Due(j) => s.tmp = 0
        <5>1. j <= x => j <= x - 1  BY <1>2, <2>6
        <5> QED  BY <2>4, <4>1, <5>1
      <4>4. v.tmp <= screens.tmp + 6  BY <1>3, <2>5, <4>1, <4>2
      <4>5. j <= x /\ Due(j) => v.tmp <= 6  BY <2>5, <4>2, <4>3
      <4>6. ~(x < i)  BY <1>2, <2>6
      <4>7. v \in Left(x)  BY <2>3, <3>2, <4>4, <4>5, <4>6
      <4> QED  BY <1>6, <2>1, <2>2, <4>7
    <3> QED  BY <3>1, <3>2
  <2>7. CASE x # i
    <3>1. sequence[x] # "K"  BY <1>1, <1>2, <2>1, <2>7 DEF OneClock
    <3>2. v.tmp \in {0, s.tmp}  BY <2>3, <3>1
    <3>3. x = j /\ Due(j) => v.tmp = 0  BY <1>2, <2>3
    <3>4. x < i => x - 1 < i  BY <1>2
    <3>5. v.tmp <= screens.tmp + 6  BY <1>3, <2>4, <3>2
    <3>6. x < i \/ ~Due(i) => v.tmp \in {0, screens.tmp}  BY <2>4, <3>2, <3>4
    <3>7. ASSUME j <= x, Due(j) PROVE v.tmp <= 6 /\ (x < i \/ ~Due(i) => v.tmp = 0)
      <4>1. CASE x = j
        <5>1. v.tmp = 0  BY <3>3, <3>7, <4>1, Zenon
        <5> QED  BY <5>1
      <4>2. CASE x # j
        <5>1. j <= x - 1  BY <1>2, <3>7, <4>2
        <5> QED  BY <2>4, <3>2, <3>4, <3>7, <5>1
      <4> QED  BY <4>1, <4>2
    <3>8. v \in Left(x)  BY <2>3, <3>5, <3>6, <3>7
    <3> QED  BY <1>6, <2>1, <2>2, <3>8
  <2> QED  BY <2>6, <2>7
<1> HIDE DEF Left
<1>9. \A s \in Drawn : \A x \in 1 .. l : DrawMode(s, x, n, k, c) \in Drawn
  BY <1>1, DrawModeIs
<1>10. [screens EXCEPT !.rejected = {}] \in Drawn  BY DrawingStarts
<1>11. u \in P[l]  BY <1>1, <1>7, <1>8, <1>9, <1>10, DrawModesAre
<1>12. u \in Left(l)  BY <1>6, <1>11
<1>13. u.tmp \in Nat  BY <1>12, ScreensAre, LcdStatsAssumption DEF Left, Drawn
<1> QED  BY <1>2, <1>12, <1>13 DEF Left

\* A sequence without the clock never puts digits into tmp.
LEMMA TurnWithoutClock ==
    ASSUME StatsInv, NEW n \in FileSystems, NEW k \in 0 .. 6, NEW c \in BOOLEAN, screens.tmp = 0,
           \A x \in DOMAIN sequence : sequence[x] # "K",
           NEW u, u = DrawModes(n, k, c)
    PROVE  u.tmp = 0
<1>1. PICK l \in Nat : l = Len(sequence) /\ DOMAIN sequence = 1 .. l  BY Periods
<1>2. PICK P : P = [x \in 0 .. l |-> {s \in Drawn : s.tmp = 0}]  OBVIOUS
<1>3. \A x \in 0 .. l : P[x] = {s \in Drawn : s.tmp = 0}  BY <1>2
<1>4. [screens EXCEPT !.rejected = {}] \in P[0]
  <2>1. PICK s : s = [screens EXCEPT !.rejected = {}]  OBVIOUS
  <2>2. s \in Drawn /\ s.tmp = 0  BY <2>1, DrawingStarts
  <2>3. P[0] = {t \in Drawn : t.tmp = 0}  BY <1>3
  <2> QED  BY <2>1, <2>2, <2>3
<1>5. ASSUME NEW x \in 1 .. l, NEW s \in Drawn, s \in P[x - 1]
      PROVE  DrawMode(s, x, n, k, c) \in P[x]
  <2>1. x - 1 \in 0 .. l /\ x \in 0 .. l /\ x \in DOMAIN sequence  BY <1>1
  <2>2. PICK v : v = DrawMode(s, x, n, k, c)  OBVIOUS
  <2>3. s.tmp = 0
    <3>1. P[x - 1] = {t \in Drawn : t.tmp = 0}  BY <1>3, <2>1
    <3>2. s \in {t \in Drawn : t.tmp = 0}  BY <1>5, <3>1
    <3> QED  BY <3>2
  <2>4. v \in Drawn /\ Makes(s, x, k, v)  BY <2>1, <2>2, DrawModeIs
  <2>5. v.tmp = 0  BY <2>1, <2>3, <2>4 DEF Makes
  <2> QED  BY <1>3, <2>1, <2>2, <2>4, <2>5
<1>6. \A s \in Drawn : \A x \in 1 .. l : DrawMode(s, x, n, k, c) \in Drawn
  BY <1>1, DrawModeIs
<1>7. [screens EXCEPT !.rejected = {}] \in Drawn  BY DrawingStarts
<1>8. u \in P[l]  BY <1>1, <1>4, <1>5, <1>6, <1>7, DrawModesAre
<1> QED  BY <1>1, <1>3, <1>8

\* The timers go on together; each goes back to 0 when its screen is drawn.
LEMMA LastedStep ==
    ASSUME StatsInv, TmpInv, OneClock, NEW i, NEW j, Beside(i, j),
           NEW n \in FileSystems, NEW k \in 0 .. 6, NEW c \in BOOLEAN,
           timer' = [x \in DOMAIN sequence |-> IF Due(x) THEN 0 ELSE timer[x] + 1],
           screens' = DrawModes(n, k, c)
    PROVE  Lasted(screens'.tmp, timer'[i], timer'[j]) /\ timer'[j] < OffTime[sequence[j]]
<1>1. PICK a \in Nat, v \in Nat : a = screens.tmp /\ v = screens'.tmp
  <2>1. screens.tmp \in Nat  BY ScreensAre, LcdStatsAssumption DEF StatsInv
  <2>2. screens'.tmp \in Nat  BY TurnOfClock
  <2> QED  BY <2>1, <2>2
<1>2. PICK ti \in Nat, tj \in Nat : ti = timer[i] /\ tj = timer[j]
  BY Periods DEF Beside
<1>3. /\ timer'[i] = IF Due(i) THEN 0 ELSE ti + 1
      /\ timer'[j] = IF Due(j) THEN 0 ELSE tj + 1
  BY <1>2 DEF Beside
<1>4. Lasted(a, ti, tj)  BY <1>1, <1>2 DEF TmpInv, Beside
<1>5. /\ ~Due(i) => v \in {0, a} /\ (Due(j) => v = 0)
      /\ v <= a + 6 /\ (Due(j) => v <= 6)
  BY <1>1, TurnOfClock
<1>6. PICK o \in Nat : o = OnTime["K"] /\ o > 0
  BY ClockPeriod
<1>7. Due(i) => o <= ti + 1
  <2>1. "K" \in Mode  BY DEF Mode
  <2>2. /\ OffTime["K"] \in Nat /\ OnTime["K"] <= OffTime["K"]
    BY <2>1, LcdStatsAssumption
  <2>3. Period(i) \in Nat /\ o <= Period(i)  BY <1>6, <2>2 DEF Period, Beside
  <2> QED  BY <1>2, <1>6, <2>3 DEF Due
<1>8. Lasted(v, timer'[i], timer'[j])
  <2>1. CASE ~Due(i) /\ Due(j)
    BY <1>5, <2>1 DEF Lasted
  <2>2. CASE ~Due(i) /\ ~Due(j)
    <3>1. CASE v = 0  BY <3>1 DEF Lasted
    <3>2. CASE v # 0
      <4>1. v = a /\ timer'[i] = ti + 1 /\ timer'[j] = tj + 1  BY <1>3, <1>5, <2>2, <3>2
      <4>2. PICK w \in Int : w = (a - 6) * o  BY <1>6
      <4>3. w + 6 * ti <= 6 * tj  BY <1>4, <1>6, <3>2, <4>1, <4>2 DEF Lasted
      <4>4. w + 6 * (ti + 1) <= 6 * (tj + 1)  BY <4>3
      <4> QED  BY <1>6, <4>1, <4>2, <4>4 DEF Lasted
    <3> QED  BY <3>1, <3>2
  <2>3. CASE Due(i) /\ Due(j)
    <3>1. v - 6 \in Int /\ v - 6 <= 0  BY <1>5, <2>3
    <3>2. (v - 6) * o <= 0  BY <1>6, <3>1
    <3> QED  BY <1>3, <1>6, <2>3, <3>2 DEF Lasted
  <2>4. CASE Due(i) /\ ~Due(j)
    <3>1. OnTime["K"] <= ti + 1 /\ v <= a + 6  BY <1>5, <1>6, <1>7, <2>4
    <3>2. Lasted(v, 0, tj + 1)  BY <1>4, <3>1, OneMore
    <3> QED  BY <1>3, <2>4, <3>2
  <2> QED  BY <2>1, <2>2, <2>3, <2>4
<1>9. timer'[j] < OffTime[sequence[j]]
  <2>1. sequence[j] \in Mode /\ Period(j) \in Nat \ {0}  BY Periods DEF Beside
  <2>2. /\ OffTime[sequence[j]] \in Nat /\ OnTime[sequence[j]] \in Nat
        /\ OnTime[sequence[j]] <= OffTime[sequence[j]]
    BY <2>1, LcdStatsAssumption
  <2>3. Period(j) <= OffTime[sequence[j]]  BY <2>2 DEF Period
  <2>4. timer'[j] < Period(j)  BY <1>2, <1>3, <2>1 DEF Due
  <2>5. timer'[j] \in Nat  BY <1>3
  <2> QED  BY <2>1, <2>2, <2>3, <2>4, <2>5
<1> QED  BY <1>1, <1>8, <1>9

LEMMA TmpStep ==
    ASSUME StatsInv, TmpInv, [Next]_vars
    PROVE  TmpInv'
<1>1. ASSUME UNCHANGED <<sequence, timer, screens>> PROVE TmpInv'
  BY <1>1 DEF TmpInv, OneClock, Beside
<1>2. CASE ExitProgram
  <2>1. sequence' \in Sequences /\ screens' = Blank  BY <1>2 DEF ExitProgram
  <2>2. screens'.tmp = 0  BY <2>1 DEF Blank
  <2> QED  BY <2>2 DEF TmpInv, Lasted
<1>3. CASE Turn
  <2>1. PICK n \in FileSystems, k \in 0 .. 6, c \in BOOLEAN :
            /\ timer' = [i \in DOMAIN sequence |-> IF Due(i) THEN 0 ELSE timer[i] + 1]
            /\ screens' = DrawModes(n, k, c)
            /\ UNCHANGED <<sequence, visible, hgt, hello>>
    BY <1>3 DEF Turn
  <2>2. ASSUME (\A x \in DOMAIN sequence : sequence[x] # "K")' PROVE screens'.tmp = 0
    <3>1. \A x \in DOMAIN sequence : sequence[x] # "K"  BY <2>1, <2>2
    <3>2. screens.tmp = 0  BY <3>1 DEF TmpInv
    <3> QED  BY <2>1, <3>1, <3>2, TurnWithoutClock
  <2>3. ASSUME OneClock', NEW i, NEW j, Beside(i, j)'
        PROVE  Lasted(screens'.tmp, timer'[i], timer'[j]) /\ timer'[j] < OffTime[sequence'[j]]
    <3>1. OneClock /\ Beside(i, j) /\ sequence' = sequence
      BY <2>1, <2>3 DEF OneClock, Beside
    <3> QED  BY <2>1, <3>1, LastedStep
  <2> QED  BY <2>2, <2>3 DEF TmpInv, Lasted
<1>4. Next \/ UNCHANGED vars  OBVIOUS
<1> QED  BY <1>1, <1>2, <1>3, <1>4
     DEF Next, Received, Listen, Connect, ConnectTorn, vars

\* On a safe command line there is room in tmp.
LEMMA Fits ==
    ASSUME StatsInv, TmpInv, Safe(sequence)
    PROVE  screens.tmp <= Room
<1>1. PICK a \in Nat : a = screens.tmp
  BY ScreensAre, LcdStatsAssumption DEF StatsInv
<1>2. Room \in Nat  BY LcdStatsAssumption
<1>3. CASE \A i \in DOMAIN sequence : sequence[i] # "K"
  BY <1>1, <1>2, <1>3 DEF TmpInv
<1>4. CASE \E i \in DOMAIN sequence : sequence[i] = "K"
  <2>1. OneClock  BY DEF Safe, OneClock
  <2>2. PICK i \in DOMAIN sequence : sequence[i] = "K"  BY <1>4
  <2>3. PICK j \in DOMAIN sequence :
              /\ sequence[j] \in Begins
              /\ 6 * (OffTime[sequence[j]] - 1 + OnTime["K"]) <= Room * OnTime["K"]
    BY <1>4 DEF Safe
  <2>4. Beside(i, j)  BY <2>2, <2>3 DEF Beside
  <2>5. PICK o \in Nat : o = OnTime["K"] /\ o > 0
  BY ClockPeriod
  <2>6. PICK ti \in Nat, tj \in Nat, f \in Nat :
           ti = timer[i] /\ tj = timer[j] /\ f = OffTime[sequence[j]]
    <3>1. sequence[j] \in Mode /\ timer[i] \in Nat /\ timer[j] \in Nat  BY Periods
    <3>2. OffTime[sequence[j]] \in Nat  BY <3>1, LcdStatsAssumption
    <3> QED  BY <3>1, <3>2
  <2>7. a = 0 \/ ((a - 6) * o + 6 * ti <= 6 * tj /\ tj < f)
    <3>1. Lasted(a, ti, tj) /\ (a > 0 => tj < f)  BY <1>1, <2>1, <2>4, <2>6 DEF TmpInv
    <3> QED  BY <2>5, <3>1 DEF Lasted
  <2>8. 6 * (f - 1 + o) <= Room * o  BY <2>3, <2>5, <2>6
  <2>9. CASE a # 0
    <3>1. PICK w \in Int : w = (a - 6) * o  BY <2>5
    <3>2. a * o = w + 6 * o  BY <2>5, <3>1
    <3>3. w <= 6 * (f - 1)  BY <2>7, <2>9, <3>1
    <3>4. a * o <= 6 * (f - 1 + o)  BY <2>5, <3>2, <3>3
    <3>5. a * o <= Room * o
      <4>1. a * o \in Int /\ Room * o \in Int  BY <1>2, <2>5
      <4> QED  BY <2>5, <2>8, <3>4, <4>1
    <3>6. ASSUME a > Room PROVE FALSE
      <4>1. (a - Room) \in Nat /\ a - Room >= 1  BY <1>2, <3>6
      <4>2. (a - Room) * o >= o  BY <2>5, <4>1
      <4>3. (a - Room) * o = a * o - Room * o  BY <1>2, <2>5
      <4>4. a * o \in Int /\ Room * o \in Int  BY <1>2, <2>5
      <4> QED  BY <2>5, <3>5, <4>2, <4>3, <4>4
    <3> QED  BY <1>1, <1>2, <3>6
  <2> QED  BY <1>1, <1>2, <2>9
<1> QED  BY <1>3, <1>4

\* big_clock_screen does not write past the end of tmp on any command line with one
\* clock and, anywhere beside it, a screen that begins tmp so often that there is room
\* for the digits in between (Safe): whatever else is on it, whatever the periods are,
\* whatever LCDd shows when, and whether the sensors can be read or not.
THEOREM TmpHasRoom == Spec => []TmpInBounds
<1>1. Init => TmpInv
  <2> SUFFICES ASSUME Init PROVE TmpInv  OBVIOUS
  <2>1. screens.tmp = 0  BY DEF Init, Blank
  <2> QED  BY <2>1 DEF TmpInv, Lasted
<1>2. StatsInv /\ TmpInv /\ [Next]_vars => TmpInv'  BY TmpStep
<1>3. StatsInv /\ TmpInv /\ LcdStatsTypeOK => TmpInBounds  BY Fits DEF TmpInBounds
<1> QED  BY <1>1, <1>2, <1>3, Invariance, Typing, PTL DEF Spec
=============================================================================
