----------------------------- MODULE LcdControl -----------------------------
(***************************************************************************)
(* lcdcontrol: menus on an LCD, driven by the keys of its pad.  The menu   *)
(* and the command that are in progress are saved in a file, from which    *)
(* lcdcontrol takes up again after a power cut.                            *)
(*                                                                         *)
(* An option is what the configuration says of it: what it does, with what *)
(* argument, and whether it prompts for an input, and with how long a      *)
(* default.  Its name, and the characters typed, are left out.             *)
(***************************************************************************)
EXTENDS Integers, SequencesExt

CONSTANTS
    Menu,          \* the menus of lcdmenus.conf
    MAIN,          \* the one called Main
    Options,       \* the options of each, in the order of the file
    CancelTo,      \* its _cancel option
    Key,           \* _default: the commands of the keys f1, f2, ...
    Height, Width, \* of the display
    FileLines,     \* the lines of the file that tail_file shows
    MaxTop,        \* bound: how far back tail_file is scrolled
    MaxRows        \* bound: full rows that are typed

NoMenu == "none"

\* prompt is the length of the default input, or that there is none to give.
\* The menus that options name are in lcdmenus.conf, too.
NoPrompt == -1
Option ==
    {o \in [do : {"menu", "function", "tail", "command", "safe", "internal"},
            arg : Menu \cup {NoMenu}, prompt : Nat \cup {NoPrompt}] :
        o.do = "menu" => o.arg \in Menu /\ o.prompt = NoPrompt}
NoOption == [do |-> "nothing", arg |-> NoMenu, prompt |-> NoPrompt]

ASSUME LcdControlAssumption ==
    /\ MAIN \in Menu /\ NoMenu \notin Menu
    /\ Options \in [Menu -> Seq(Option)]
    /\ CancelTo \in [Menu -> Option]
    /\ \A m \in Menu : CancelTo[m].do \in {"menu", "internal"}
    /\ Key \subseteq {o \in Option : o.do = "command"}
    /\ Height \in Nat \ {0, 1} /\ Width \in Nat \ {0}
    /\ FileLines \in Nat /\ MaxTop \in Nat /\ MaxRows \in Nat

VARIABLES
    pc,            \* where lcdcontrol waits, or may be cut off
    todo,          \* the option that do_action is called with
    loaded,        \* prev_menu, the menu whose options are in @options
    selected,      \* 0 is what Perl makes of an undefined value, too
    select_path,
    maxopts, prev_maxopts,
    vars,          \* LASTMENU and LASTACTION
    file,          \* lcdinputs.conf: "missing", "torn" or the variables
    widgets,       \* of the screen "menu", as LCDd has them
    text,          \* what get_input has, and where its cursor is
    top            \* tail_file: the lines from the end

display == <<maxopts, prev_maxopts, widgets>>
cursor  == <<selected, select_path, loaded>>
all     == <<pc, todo, cursor, display, vars, file, text, top>>

Vars == [lastmenu : Menu \cup {NoMenu}, lastaction : Option \cup {NoOption}]
NoVars == [lastmenu |-> NoMenu, lastaction |-> NoOption]

\* lost is a history variable: a row before the first one was asked for.
Text == [row : 0 .. Height, logical : Nat, col : 0 .. Width, len : 0 .. Width,
         rows : Seq(0 .. Width), lost : BOOLEAN]
NoText ==
    [row |-> 0, logical |-> 0, col |-> 0, len |-> 0, rows |-> <<>>, lost |-> FALSE]
EmptyText ==
    [row |-> 2, logical |-> 2, col |-> 1, len |-> 0, rows |-> <<>>, lost |-> FALSE]

TypeOK ==
    /\ pc \in {"off", "begin", "menu", "write", "save", "input", "run", "tail",
               "hung", "dead"}
    /\ todo \in Option \cup {NoOption}
    /\ loaded \in Menu \cup {NoMenu}
    /\ selected \in Nat /\ select_path \in Seq(Nat)
    /\ maxopts \in Nat /\ prev_maxopts \in Nat /\ widgets \subseteq Nat
    /\ vars \in Vars /\ file \in [is : {"missing", "torn", "whole"}, vars : Vars]
    /\ text \in Text /\ top \in Nat

\* The values at the start of the program.
Init ==
    /\ pc = "off" /\ file = [is |-> "missing", vars |-> NoVars]
    /\ todo = NoOption /\ loaded = NoMenu /\ selected = 1 /\ select_path = <<>>
    /\ maxopts = 0 /\ prev_maxopts = 0 /\ widgets = {}
    /\ vars = NoVars /\ text = NoText /\ top = 0

Stop(how) ==
    /\ pc' = how /\ UNCHANGED file
    /\ todo' = NoOption /\ loaded' = NoMenu /\ selected' = 1 /\ select_path' = <<>>
    /\ maxopts' = 0 /\ prev_maxopts' = 0 /\ widgets' = {}
    /\ vars' = NoVars /\ text' = NoText /\ top' = 0

-----------------------------------------------------------------------------
(* What do_action is made of.                                              *)

options == IF loaded = NoMenu THEN <<>> ELSE Options[loaded]
prev_menu == IF loaded = NoMenu THEN MAIN ELSE loaded

\* $options[$i - 1]: the last one if $i is 0, an undefined value if there is none.
OptionAt(opts, i) ==
    IF i = 0 /\ opts # <<>> THEN Last(opts)
    ELSE IF i \in DOMAIN opts THEN opts[i] ELSE NoOption

\* widget_setup, after the assignments to prev_maxopts and maxopts.
WidgetSetup(prev, max) ==
    /\ prev_maxopts' = prev /\ maxopts' = max
    /\ widgets' = (widgets \ (1 .. prev)) \cup (1 .. max)

Push == select_path' = Append(select_path, selected)
PopNothing == selected' = 1 /\ UNCHANGED select_path  \* mutant: starts at the top
Pop ==
    IF select_path = <<>> THEN selected' = 0 /\ UNCHANGED select_path
    ELSE selected' = Last(select_path) /\ select_path' = Front(select_path)

Shown == prev_maxopts  \* mutant: deletes the widgets of the menu before
Showing == maxopts

\* load_menu(m, reset): the history leads back unless the cursor is reset.
LoadMenu(m, reset) ==
    /\ loaded' = m
    /\ WidgetSetup(Showing, Len(Options[m]))
    /\ IF reset THEN Push /\ selected' = 1 ELSE Pop

Torn == [is |-> "torn", vars |-> NoVars]
Whole == [is |-> "whole", vars |-> vars]

\* The end of do_action: write_inputs empties the file, then writes it.
EndAction ==
    pc' = "write" /\ file' = Torn /\ todo' = NoOption

Proceed(o) == pc' = IF o.prompt = NoPrompt THEN "run" ELSE "input"

SaveLater(o) == Proceed(o) /\ UNCHANGED file  \* mutant: only when the command is done
SaveFirst(o) == pc' = "save" /\ file' = Torn

\* do_action(o), up to where it waits.
DoAction(o, cancelled) ==
    \/ /\ o.do = "menu"
       /\ LoadMenu(o.arg, ~cancelled)
       /\ vars' = [vars EXCEPT !.lastmenu = o.arg]
       /\ EndAction
       /\ UNCHANGED <<text, top>>
    \/ /\ o.do = "function" /\ o.prompt # NoPrompt
       /\ pc' = "input" /\ todo' = o /\ text' = NoText
       /\ UNCHANGED <<cursor, display, vars, file, top>>
    \/ /\ o.do = "tail"
       /\ pc' = "tail" /\ todo' = o
       /\ WidgetSetup(prev_maxopts, maxopts)
       /\ top' = Height
       /\ UNCHANGED <<cursor, vars, file, text>>
    \/ /\ o.do = "command"
       /\ Push /\ Proceed(o) /\ todo' = o
       /\ UNCHANGED <<selected, loaded, display, vars, file, text, top>>
    \/ /\ o.do = "safe"
       /\ Push /\ SaveFirst(o) /\ todo' = o
       /\ vars' = [vars EXCEPT !.lastaction = o]
       /\ UNCHANGED <<selected, loaded, display, text, top>>
    \/ /\ o.do \in {"nothing", "internal"} \/ (o.do = "function" /\ o.prompt = NoPrompt)
       /\ EndAction
       /\ UNCHANGED <<cursor, display, vars, text, top>>

-----------------------------------------------------------------------------
(* The program starts, and waits for a key in its main loop.               *)

\* Without LASTMENU, the menu to load is 'Menu', which no configuration has.
Start ==
    /\ pc \in {"off", "dead"} /\ pc' = "begin"
    /\ vars' = IF file.is = "missing" THEN [NoVars EXCEPT !.lastmenu = MAIN] ELSE file.vars
    /\ IF vars'.lastmenu = NoMenu THEN UNCHANGED <<cursor, display>>
       ELSE LoadMenu(vars'.lastmenu, TRUE)
    /\ UNCHANGED <<todo, file, text, top>>

Resume ==
    /\ pc = "begin"
    /\ IF vars.lastaction # NoOption THEN DoAction(vars.lastaction, FALSE)
       ELSE /\ pc' = "menu"
            /\ UNCHANGED <<todo, cursor, display, vars, file, text, top>>

Up ==
    /\ pc = "menu"
    /\ selected' = IF selected > 1 THEN selected - 1 ELSE maxopts
    /\ UNCHANGED <<pc, todo, select_path, loaded, display, vars, file,
                   text, top>>

Down ==
    /\ pc = "menu"
    /\ selected' = IF selected < maxopts THEN selected + 1 ELSE 1
    /\ UNCHANGED <<pc, todo, select_path, loaded, display, vars, file,
                   text, top>>

Go == pc = "menu" /\ DoAction(OptionAt(options, selected), FALSE)

\* $cancel_action is '@Main' until a menu is loaded.
Cancel ==
    /\ pc = "menu"
    /\ DoAction(IF loaded = NoMenu THEN [do |-> "menu", arg |-> MAIN, prompt |-> NoPrompt]
                ELSE CancelTo[loaded], TRUE)

DefaultKey == pc = "menu" /\ \E o \in Key : DoAction(o, FALSE)

Written ==
    /\ pc = "write" /\ pc' = "menu" /\ file' = Whole
    /\ UNCHANGED <<todo, cursor, display, vars, text, top>>

Saved ==
    /\ pc = "save" /\ Proceed(todo) /\ file' = Whole
    /\ UNCHANGED <<todo, cursor, display, vars, text, top>>

Complete == vars' = [vars EXCEPT !.lastmenu = prev_menu, !.lastaction = NoOption]

\* The command ends.
RunEnds ==
    /\ pc = "run"
    /\ LoadMenu(prev_menu, FALSE)
    /\ Complete
    /\ EndAction
    /\ UNCHANGED <<text, top>>

-----------------------------------------------------------------------------
(* get_input.  The cursor goes right over a character at a time, down to   *)
(* the next row at the end of one; the last row scrolls.                   *)

WrapEmpty(t) == [t EXCEPT !.col = 1, !.len = 0]  \* mutant: the full row is not kept
Wrap(t) ==
    [row |-> IF t.row < Height THEN t.row + 1 ELSE t.row, logical |-> t.logical + 1,
     col |-> 1, len |-> 1, rows |-> Append(t.rows, t.len), lost |-> t.lost]

Further(t) ==
    IF t.col < Width THEN [t EXCEPT !.col = @ + 1, !.len = @ + 1] ELSE Wrap(t)

\* A default is typed from the second column on.
Typed(n) ==
    LET after[k \in 0 .. n] == IF k = 0 THEN EmptyText ELSE Further(after[k - 1])
    IN  IF n = 0 THEN [EmptyText EXCEPT !.len = 1] ELSE after[n]

\* The row before this one, of which there may be none.
Back(t) ==
    [t EXCEPT !.col = Width, !.len = IF t.rows = <<>> THEN 0 ELSE Last(t.rows),
              !.rows = IF @ = <<>> THEN @ ELSE Front(@),
              !.lost = @ \/ t.rows = <<>>]

Nearer(t) ==
    IF t.col > 1 THEN [t EXCEPT !.col = @ - 1, !.len = IF @ = 0 THEN 0 ELSE @ - 1]
    ELSE IF t.logical > Height THEN [Back(t) EXCEPT !.logical = @ - 1]
    ELSE IF t.row > 2 THEN [Back(t) EXCEPT !.row = @ - 1]
    ELSE t

InputStart ==
    /\ pc = "input" /\ text = NoText
    /\ WidgetSetup(maxopts, Height)
    /\ text' = Typed(todo.prompt)
    /\ UNCHANGED <<pc, todo, cursor, vars, file, top>>

InputMove ==
    /\ pc = "input" /\ text # NoText
    /\ \/ Len(text.rows) < MaxRows /\ text' = Further(text)
       \/ text' = Nearer(text)
    /\ UNCHANGED <<pc, todo, cursor, display, vars, file, top>>

\* Another character: Perl ends the program if there is none to replace.
InputChange ==
    /\ pc = "input" /\ text # NoText
    /\ IF text.len > 0 THEN UNCHANGED all
       ELSE Stop("dead")

\* go or cancel.  A function is called even if its input was cancelled.
InputEnds ==
    /\ pc = "input" /\ text # NoText
    /\ text' = NoText
    /\ \/ /\ todo.do = "function"
          /\ EndAction
          /\ UNCHANGED <<cursor, display, vars, top>>
       \/ /\ todo.do \in {"command", "safe"}
          /\ pc' = "run"
          /\ UNCHANGED <<todo, cursor, display, vars, file, top>>
       \/ /\ todo.do \in {"command", "safe"}   \* cancelled: show_temp_screen and back
          /\ LoadMenu(prev_menu, FALSE)
          /\ vars' = [vars EXCEPT !.lastmenu = prev_menu]
          /\ EndAction
          /\ UNCHANGED top

-----------------------------------------------------------------------------
(* tail_file.  It looks for one line more than it is to show; beyond the   *)
(* beginning of the file it reads the end again, or nothing for ever.      *)

TailKey ==
    /\ pc = "tail"
    /\ \/ top < MaxTop /\ top' = top + 1
       \/ top' = IF top > Height THEN top - 1 ELSE top
       \/ top' = Height
    /\ pc' \in IF top' < FileLines THEN {"tail"} ELSE {"tail", "hung"}
    /\ UNCHANGED <<todo, cursor, display, vars, file, text>>

TailEnds ==
    /\ pc = "tail" /\ top' = 0
    /\ EndAction
    /\ UNCHANGED <<cursor, display, vars, text>>

\* There is no such file.
TailFails ==
    /\ pc = "tail" /\ top' = 0
    /\ WidgetSetup(maxopts, Height)
    /\ EndAction
    /\ UNCHANGED <<cursor, vars, text>>

\* external
PowerCut ==
    /\ pc \notin {"off", "dead"}
    /\ Stop("off")

Next ==
    \/ Start \/ Resume
    \/ Up \/ Down \/ Go \/ Cancel \/ DefaultKey
    \/ Written \/ Saved \/ RunEnds
    \/ InputStart \/ InputMove \/ InputChange \/ InputEnds
    \/ TailKey \/ TailEnds \/ TailFails
    \/ PowerCut

Spec == Init /\ [][Next]_all

-----------------------------------------------------------------------------
(* Properties.                                                             *)

\* The widgets that are set while lcdcontrol waits for a key in a menu (redraw), in
\* an input, or in tail_file, whatever the height.
Drawn ==
    IF pc = "menu" THEN 1 .. Min({maxopts, Height})
    ELSE IF pc = "input" /\ text # NoText THEN 1 .. Height
    ELSE IF pc = "tail" THEN {1, 2}
    ELSE {}

\* LCDd has the widgets that are counted, and no others: whatever menus, prompts and
\* files were shown before, widget_setup deletes what they left.  None is set that
\* LCDd does not have, but by tail_file in front of a menu of one option: it sets
\* two lines, with the widgets of the menu that it was called from.
WidgetsAsShown ==
    pc \notin {"off", "dead"} =>
        /\ widgets = 1 .. maxopts
        /\ (pc = "tail" => maxopts >= 2) => Drawn \subseteq widgets

\* What the configuration has to be like, as lcdmenus.conf is: a menu whose _cancel
\* is a menu is only reached from that one.
CancelsBack ==
    \A m \in Menu : \A i \in DOMAIN Options[m] :
        LET o == Options[m][i]
        IN  o.do = "menu" /\ CancelTo[o.arg].do = "menu" => CancelTo[o.arg].arg = m

\* Each entry of the history is the option that led from one menu to the next, up
\* to the one that is shown, so that cancel puts the cursor where it was.  The
\* first entry is of the menu that was loaded at the start, if it is there still.
HistoryLeadsBack ==
    pc = "menu" /\ select_path # <<>> =>
        \E ms \in [DOMAIN select_path -> Menu] :
            /\ ms[Len(select_path)] = loaded
            /\ \A i \in DOMAIN select_path \ {1} :
                  OptionAt(Options[ms[i - 1]], select_path[i])
                      = [do |-> "menu", arg |-> ms[i], prompt |-> NoPrompt]

\* The file tells, at whatever moment power is cut but while it is being written,
\* the menu that was shown and the safe command that was running; and none that is
\* complete is in it, though one whose prompt was cancelled is.
FileTellsState ==
    /\ file.is = "whole" /\ loaded # NoMenu => file.vars.lastmenu = loaded
    /\ pc = "run" /\ todo.do = "safe" => file.vars.lastaction = todo
    /\ pc = "menu" /\ file.vars.lastaction # NoOption
          => file.vars.lastaction.prompt # NoPrompt

\* How many rows the cursor was taken back that had not been scrolled.  get_input
\* does not count them in logical_row, as it does those that had.
NotCounted(t) == t.logical - 2 - Len(t.rows)

\* What get_input has is what was typed: the row of the cursor ends with the
\* character under it or, in the first row of a default, with the one before, and
\* the rows above are full.  That is so until a row is asked for that there is not,
\* and none is as long as the cursor was not taken back over a row that had not been
\* scrolled, in which case the cursor also is on the row of the display where it
\* should be.  There are Height - 2 such rows at the most: none on a display of two
\* rows.  The types of the variables are a part of it.
TextUnderCursor ==
    /\ TypeOK
    /\ pc = "input" /\ text # NoText =>
        LET offset == IF todo.prompt > 0 THEN 1 ELSE 0 IN
        /\ NotCounted(text) \in 0 .. Height - 2
        /\ NotCounted(text) = 0 => ~text.lost /\ text.row = Min({Height, text.logical})
        /\ ~text.lost =>
              /\ text.len = text.col - IF text.rows = <<>> THEN offset ELSE 0
              /\ \A i \in DOMAIN text.rows :
                    text.rows[i] = Width - IF i = 1 THEN offset ELSE 0

=============================================================================
