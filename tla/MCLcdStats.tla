----------------------------- MODULE MCLcdStats -----------------------------
(* LcdStats for TLC: the default modes, command lines of lcdmenus.conf, a  *)
(* few with the other modes; and periods that keep their order.            *)
EXTENDS LcdStats

MCSequences ==
    {<<"C", "M", "V", "N", "T">>, <<"V">>, <<"N">>, <<"D">>, <<"S">>,
     <<"V", "N", "K", "T">>, <<"C", "U", "O", "S", "D">>, <<"K">>, <<"N", "K">>,
     <<"K", "V">>, <<"K", "M">>}
MCOnTime ==
    [m \in Mode |-> CASE m \in {"C", "V"} -> 1 [] m \in {"S", "D"} -> 4 [] OTHER -> 2]
MCOffTime ==
    [m \in Mode |-> CASE m \in {"C", "V"} -> 2 [] m = "M" -> 3
                      [] OTHER -> 4]
MCShowInvisible == [m \in Mode |-> m \in {"S", "D"}]
MCHeights == {1, 2, 4}
=============================================================================
