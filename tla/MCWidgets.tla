------------------------------- MODULE MCWidgets -------------------------------
(* Small instances of Widgets for TLC: two channels, the external trigger. *)
EXTENDS Widgets

MCMenus == {"tsrc", "vdiv1", "vdiv2"}
MCValues == [m \in MCMenus |-> IF m = "tsrc" THEN {1, 2, 3} ELSE {1, 2}]
MCVdivOf == <<"vdiv1", "vdiv2">>
MCArrows == {"ofst1", "trdl"}
MCUnitOf == [a \in MCArrows |-> "vdiv1"]
MCGuarded == {"trdl"}
MCQueries == <<"vdiv1", "ofst1", "vdiv2", "tsrc", "tlvl", "trdl">>

\* The second settings have a volts/div that is in no menu.
MCSettings == {
  [c \in MCMenus \cup MCArrows \cup {"tlvl"} |-> IF c \in MCMenus THEN 2 ELSE 0],
  [c \in MCMenus \cup MCArrows \cup {"tlvl"} |->
     CASE c = "vdiv2" -> 7 [] c \in MCMenus -> 1 [] c = "tlvl" -> 2
       [] c = "ofst1" -> 10 [] OTHER -> 12] }
================================================================================
