------------------------------ MODULE LcdStats ------------------------------
(***************************************************************************)
(* lcdstats, the plugin with the vu meter: a client of LCDd that draws a   *)
(* screen for each mode of its sequence, in turn and at the mode's period. *)
(* A screen's widgets are added when it is drawn for the first time, for   *)
(* the display there is then, and are only set from then on.               *)
(***************************************************************************)
EXTENDS Integers, Sequences

CONSTANTS
    Sequences,         \* the sequences of modes that command lines ask for
    OnTime, OffTime,   \* the periods of each mode, in units of time,
    ShowInvisible,     \* and if it is sent while it is not visible
    Heights,           \* the rows of a display, as the line "connect" may tell
    MaxDisks,          \* bound: file systems that are mounted
    Room               \* the commands there is room for in tmp

Mode == {"C", "M", "V", "N", "T", "O", "K", "U", "S", "D"}

ASSUME LcdStatsAssumption ==
    /\ Sequences \subseteq Seq(Mode) /\ Sequences # {}
    /\ OnTime \in [Mode -> Nat \ {0}] /\ OffTime \in [Mode -> Nat \ {0}]
    /\ \A m \in Mode : OnTime[m] <= OffTime[m]
    /\ ShowInvisible \in [Mode -> BOOLEAN]
    /\ Heights \subseteq Nat \ {0} /\ 2 \in Heights
    /\ MaxDisks \in Nat /\ Room \in Nat

VARIABLES
    sequence,
    timer, visible,    \* of each mode of the sequence
    hgt,               \* lcd_hgt
    hello,             \* the answer to it, the line "connect", is to come
    screens            \* what was drawn, and what LCDd has of it:
\* drawn, the height at a screen's first drawing, 0 before; widgets, of each
\* screen; lines and num_disks, of the disk screen, in its frame, and found, how
\* many file systems its last drawing found; tmp, how many commands
\* big_clock_screen has appended to it; rejected, what LCDd has no widget for, of
\* the last drawing.

vars == <<sequence, timer, visible, hgt, hello, screens>>

LcdStatsTypeOK ==
    /\ sequence \in Sequences
    /\ timer \in [DOMAIN sequence -> Nat] /\ visible \in [DOMAIN sequence -> BOOLEAN]
    /\ hgt \in Heights /\ hello \in BOOLEAN
    /\ screens.drawn \in [Mode -> Heights \cup {0}]
    /\ \A m \in Mode : screens.drawn[m] = 0 /\ m # "V" => screens.widgets[m] = {}
    /\ screens.lines \subseteq 0 .. MaxDisks - 1 /\ screens.num_disks \in 0 .. MaxDisks
    /\ screens.tmp \in 0 .. Room + 1

-----------------------------------------------------------------------------
(* The screens: the widgets that the first drawing adds, and the ones that *)
(* every drawing sets.  The modes V and N share a screen.                  *)

ScreenOf(m) == IF m = "N" THEN "V" ELSE m

CpuAdds(h) ==
    IF h >= 4 THEN {"title", "one", "two", "three", "usr", "nice", "idle", "sys", "bar"}
    ELSE {"cpu0", "cpu0%", "usni", "usr", "sys", "nice", "idle", "total"}
CpuSets(h) ==
    {"usr", "sys", "nice", "idle"} \cup IF h >= 4 THEN {"title", "bar"} ELSE {"cpu0%", "total"}

MemAddsGauges == {"memgauge", "swapgauge"}  \* mutant: no room for the totals
MemAddsTotals == {"memtotl", "swaptotl", "memgauge", "swapgauge"}
MemAdds(h) ==
    MemAddsTotals \cup
        IF h >= 4 THEN {"title", "totl", "used", "EF", "memused", "swapused"}
        ELSE {"m", "s", "mem%", "swap%"}
MemSets(h) ==
    {"memtotl", "swaptotl", "memgauge", "swapgauge"} \cup
        IF h >= 4 THEN {"memused", "swapused"} ELSE {"mem%", "swap%"}

\* On a display of one row these two add less than what they set.
VuAdds(h) == {"lgauge", "rgauge"} \cup IF h >= 2 THEN {"l", "r", "left%", "right%"} ELSE {}
VuSets == {"lgauge", "left%", "rgauge", "right%"}

SensorsAdds(h) ==
    IF h >= 2
    THEN {"lfan1", "lfan2", "lfan3", "lcputemp", "fan1", "fan2", "fan3", "cputemp"}
    ELSE {}
SensorsSets == {"fan1", "fan2", "fan3", "cputemp"}

TimeAdds(h) == {"title", "one"} \cup IF h >= 4 THEN {"two", "three"} ELSE {}
TimeSets(h) == IF h >= 4 THEN {"title", "three", "two", "one"} ELSE {"one"}

ClockAdds == {"title", "one", "two", "three"}
ClockSets == {"two", "three"}

UptimeAdds(h) == {"title", "one"} \cup IF h >= 4 THEN {"two", "three"} ELSE {}
UptimeSets(h) == IF h >= 4 THEN {"two"} ELSE {"one"}

Digits == {"d0", "d1", "d2", "d3", "d4", "d5"}

TopAdds == {"title", "f", "1", "2", "3", "4", "5"}
TopSets == {"1", "2", "3", "4", "5"}

DiskAdds == {"title", "f", "err1", "err2"}

\* The screens of the clocks have no layout for a display of two lines.
Drawable(m, h) == m \in {"O", "K"} => h >= 4

Adds(m, h) ==
    CASE m = "C" -> CpuAdds(h)    [] m = "M" -> MemAdds(h)
      [] m = "V" -> VuAdds(h)     [] m = "N" -> SensorsAdds(h)
      [] m = "T" -> TimeAdds(h)   [] m = "U" -> UptimeAdds(h)
      [] m = "O" -> ClockAdds     [] m = "K" -> Digits
      [] m = "S" -> TopAdds       [] m = "D" -> DiskAdds

\* What is set only for a display that shows it, and what is set in any case.  The
\* big clock sets at most its digits: what else is in tmp was set by another screen.
Sets(m, h) ==
    CASE m = "C" -> CpuSets(h)    [] m = "M" -> MemSets(h)
      [] m = "V" -> VuSets        [] m = "T" -> TimeSets(h)
      [] m = "U" -> UptimeSets(h) [] m = "O" -> ClockSets
      [] m = "K" -> Digits        [] m = "S" -> TopSets
      [] OTHER -> {}
AlwaysSets(m, h) ==
    CASE m = "M" /\ h >= 4 -> {"title"}
      [] m = "N" -> SensorsSets
      [] m = "D" -> {"f", "err1", "err2"}
      [] OTHER -> {}

-----------------------------------------------------------------------------
(* One drawing, of the screens as they are in s.                           *)

NoSuchWidget(s, m, ws) == {<<m, w>> : w \in ws \ s.widgets[ScreenOf(m)]}

\* disk_screen, with n file systems: lines of the frame are added and deleted.
AddedDisks(s, n) == s.num_disks .. (n - 1)

DeletedLater(s, n) == (n + 1) .. (s.num_disks - 1)  \* mutant: the first one is left
DeletedDisks(s, n) == n .. (s.num_disks - 1)

DrawDisks(s, n) ==
    IF n = 0 THEN [s EXCEPT !.found = 0]   \* the error is shown over the lines
    ELSE LET before == s.lines \cup AddedDisks(s, n) IN
         [s EXCEPT !.lines = before \ DeletedDisks(s, n), !.num_disks = n,
                   !.found = n, !.rejected = @ \cup {<<"D", i>> : i \in (0 .. n - 1) \ before}]

\* big_clock_screen appends the digits that differ to tmp, which it does not
\* empty; what they are compared with is an array without a value, but for
\* the first time: k is how many differ.  Room + 1 is that it wrote past the end.
DrawDigits(s, k) == [s EXCEPT !.tmp = IF @ + k > Room THEN Room + 1 ELSE @ + k]

BeginsBuffer(m, n) ==                   \* mutant: the vu meter is put in buffer
    m \notin {"K", "S", "V"} /\ (m = "D" => n > 0)
\* Whatever else is drawn begins tmp anew, but for mem_top_screen, and
\* disk_screen without disks.
BeginsTmp(m, n) ==
    m \notin {"K", "S"} /\ (m = "D" => n > 0)

Fresh(s, m, h) ==
    IF s.drawn[m] # 0 THEN s
    ELSE [s EXCEPT !.drawn[m] = h, !.widgets[ScreenOf(m)] = @ \cup Adds(m, h)]

Redraw(s, m, h, display, n, k) ==
    LET sets == AlwaysSets(m, h) \cup IF display THEN Sets(m, h) ELSE {}
        set  == [s EXCEPT !.rejected = @ \cup NoSuchWidget(s, m, sets)]
        text == IF BeginsTmp(m, n) THEN [set EXCEPT !.tmp = 0] ELSE set
    IN  CASE m = "D" -> DrawDisks(text, n)
          [] m = "K" -> DrawDigits(text, k)
          [] OTHER   -> text

\* update_screen: the first time is all that cpu_screen does, and all that
\* sensors_screen does where it cannot read the chips (c).
UpdateScreen(s, m, h, display, n, k, c) ==
    IF ~Drawable(m, h) THEN s
    ELSE IF (m = "C" /\ s.drawn[m] = 0) \/ (m = "N" /\ ~c) THEN Fresh(s, m, h)
    ELSE Redraw(Fresh(s, m, h), m, h, display, n, k)

-----------------------------------------------------------------------------

Never == 65535

Blank ==
    [drawn |-> [m \in Mode |-> 0], widgets |-> [m \in Mode |-> {}],
     lines |-> {}, num_disks |-> 0, found |-> 0, tmp |-> 0, rejected |-> {}]

Init ==
    /\ sequence \in Sequences
    /\ timer = [i \in DOMAIN sequence |-> Never]
    /\ visible = [i \in DOMAIN sequence |-> FALSE]
    /\ hgt = 2 /\ hello = TRUE /\ screens = Blank

\* "ignore" does the same as "listen".
Listen(screen) ==
    /\ visible' = [i \in DOMAIN sequence |-> visible[i] \/ sequence[i] = screen]
    /\ UNCHANGED <<sequence, timer, hgt, hello, screens>>

\* The line "connect" comes in whole, or over the end of a read, and is lost.
Connect(h) ==
    /\ hello /\ hello' = FALSE
    /\ hgt' = h
    /\ UNCHANGED <<sequence, timer, visible, screens>>
ConnectTorn ==
    /\ hello /\ hello' = FALSE
    /\ UNCHANGED <<sequence, timer, visible, hgt, screens>>

Period(i) == IF visible[i] THEN OnTime[sequence[i]] ELSE OffTime[sequence[i]]
DueLate(i) == timer[i] >= Period(i)  \* mutant: compares before it counts
Due(i) == timer[i] + 1 >= Period(i)

\* How many mounted file systems get_fs may list: those that have blocks, of
\* at most 256.
FileSystems == 0 .. MaxDisks

DrawMode(s, i, n, k, c) ==
    IF ~Due(i) THEN s
    ELSE UpdateScreen(s, sequence[i], hgt, visible[i] \/ ShowInvisible[sequence[i]], n, k, c)

\* The screens that are due are drawn, in their order.
DrawModes(n, k, c) ==
    LET after[i \in 0 .. Len(sequence)] ==
            IF i = 0 THEN [screens EXCEPT !.rejected = {}]
            ELSE DrawMode(after[i - 1], i, n, k, c)
    IN  after[Len(sequence)]

\* One turn of main_loop.
Drawing(m) == \E i \in DOMAIN sequence : sequence[i] = m /\ Due(i)
Turn ==
    \E n \in FileSystems, k \in 0 .. 6, c \in BOOLEAN :
        /\ (Drawing("D") \/ n = 0) /\ (Drawing("K") \/ k = 0) /\ (Drawing("N") \/ c)
        /\ timer' = [i \in DOMAIN sequence |-> IF Due(i) THEN 0 ELSE timer[i] + 1]
        /\ screens' = DrawModes(n, k, c)
        /\ UNCHANGED <<sequence, visible, hgt, hello>>

\* exit_program, on a key, a signal or "bye"; LCDd forgets the client, and
\* lcdstats is started again.
ExitProgram ==
    /\ sequence' \in Sequences
    /\ timer' = [i \in DOMAIN sequence' |-> Never]
    /\ visible' = [i \in DOMAIN sequence' |-> FALSE]
    /\ hgt' = 2 /\ hello' = TRUE /\ screens' = Blank

\* The lines that LCDd sends, each handled for itself; a key, "bye" and a
\* signal end the program, any other line does nothing.
Received ==
    \/ \E i \in DOMAIN sequence : Listen(ScreenOf(sequence[i]))
    \/ \E h \in Heights : Connect(h)
    \/ ConnectTorn \/ ExitProgram

Next == Received \/ Turn

Spec == Init /\ [][Next]_vars

-----------------------------------------------------------------------------
(* Properties.                                                             *)

\* LCDd has every widget that is set, the digits of the big clock included, with two
\* exceptions: the line "connect" came only after the screen's first drawing and
\* changed the layout under it, or the display has one row, for which the vu meter and
\* the sensors add nothing that shows their figures and set it all the same.
SetsAreAdded ==
    \A r \in screens.rejected :
        /\ r[1] # "D"
        /\ screens.drawn[r[1]] # hgt \/ (hgt < 2 /\ r[1] \in {"V", "N"})

\* As many lines are in the frame of the disk screen as its last drawing found file
\* systems, whatever was mounted and unmounted before; unless it found none, which
\* leaves the lines of the drawing before it, for the next one to start from.
LinesOfDisks ==
    /\ screens.lines = 0 .. screens.num_disks - 1
    /\ screens.found # 0 => screens.found = screens.num_disks

\* After a turn no screen is older than its mode's period, counted from the last
\* drawing, though LCDd may begin to show it at any moment.
InTime == [][Turn => \A i \in DOMAIN sequence : timer'[i] < Period(i)]_vars

\* The modes every drawing of which begins tmp, on any display and at any time.
Begins == {"M", "V", "T", "U"}

\* The command lines on which tmp is safe: the big clock is not asked for, or once and
\* beside a screen that begins tmp and is drawn so often that tmp has room for all the
\* digits of the clock's drawings in between, wherever in the command line it stands.
\* By the periods of main.c and the 1024 bytes of tmp these are the vu meter and the
\* memory; the clock alone, or with sensors that cannot be read, is not safe.
Safe(q) ==
    /\ \A x, y \in DOMAIN q : q[x] = "K" /\ q[y] = "K" => x = y
    /\ (\E x \in DOMAIN q : q[x] = "K") =>
          \E j \in DOMAIN q :
              /\ q[j] \in Begins
              /\ 6 * (OffTime[q[j]] - 1 + OnTime["K"]) <= Room * OnTime["K"]

\* big_clock_screen does not write past the end of tmp on these command lines,
\* whatever LCDd shows when.  On the clock's own it does.
TmpInBounds == LcdStatsTypeOK /\ (Safe(sequence) => screens.tmp <= Room)
=============================================================================
