------------------------------ MODULE MCGmcLink ------------------------------
(* GmcLink with the devices the runs put on the other end of the line.     *)
EXTENDS GmcLink

InTimeAndAny == {Prompt, Greeter, Habits}
JoiningDevice == {{"preamble", "coalesce"}}
=============================================================================
