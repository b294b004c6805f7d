---------------------------- MODULE MCLcdControl ----------------------------
(***************************************************************************)
(* Three menus, one below the other, with an option of every kind: one     *)
(* menu is longer than the display, one has a single option, which shows a *)
(* file in two lines.                                                      *)
(***************************************************************************)
EXTENDS LcdControl

O(do, arg, prompt) == [do |-> do, arg |-> arg, prompt |-> prompt]

MCMenu == {"Main", "Network", "Setup"}
MCOptions ==
    [m \in MCMenu |->
       CASE m = "Main" -> <<O("function", NoMenu, NoPrompt), O("menu", "Network", NoPrompt),
                            O("tail", NoMenu, NoPrompt)>>
         [] m = "Network" -> <<O("safe", NoMenu, NoPrompt), O("menu", "Setup", NoPrompt),
                               O("safe", NoMenu, 0), O("command", NoMenu, 0),
                               O("function", NoMenu, 3)>>
         [] m = "Setup" -> <<O("tail", NoMenu, NoPrompt)>>]
MCCancelTo ==
    [m \in MCMenu |->
       CASE m = "Main" -> O("internal", NoMenu, NoPrompt)
         [] m = "Network" -> O("menu", "Main", NoPrompt)
         [] m = "Setup" -> O("menu", "Network", NoPrompt)]
MCKey == {O("command", NoMenu, NoPrompt)}

\* Each menu is an option of the one to which its cancel goes.
ASSUME MCCancelsBack == CancelsBack
=============================================================================
