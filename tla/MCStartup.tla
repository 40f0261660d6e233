------------------------------ MODULE MCStartup ------------------------------
(* Startup with texts at the edges of the ranges: int and long are scaled  *)
(* to 16 and 20 bits, a minute, the buffer and a sample are the code's.    *)
EXTENDS Startup

Numbers(S) == {Number(n) : n \in S}
NoNumber == {Other("missing"), Other("empty"), Other("word")}

Debugs == NoNumber \cup Numbers({0, 1, 65536})
(* 2 minutes leave nothing, 6 less than a sample, 546 are the most without *)
(* overflow, 2194 wrap around to a small positive sum, 65546 is cut to 10, *)
(* 600000 exceeds a long.                                                  *)
Runtimes == NoNumber \cup Numbers({-1, 0, 2, 6, 7, 10, 546, 547, 2194, 65546, 600000})
Words == -1..6

Plain == [file |-> "whole", portnumber |-> Number(3), baud |-> Other("missing"),
          bits |-> Other("missing"), parity |-> Other("missing"),
          stopbits |-> Other("missing")]
Letter(n) == [kind |-> "word", n |-> n]
Files ==
    {[Plain EXCEPT !.file = f] : f \in {"unreadable", "noGmc", "noComsettings", "whole"}}
    \cup {[Plain EXCEPT !.portnumber = t] :
             t \in NoNumber \cup Numbers({-1, 0, 99, 100, 65539, 600000})}
    \cup {[Plain EXCEPT !.baud = b] : b \in {Other("empty")} \cup Numbers({0, 30000, 30001})}
    \cup {[Plain EXCEPT !.bits = k, !.stopbits = s] :
             k \in {Other("word")} \cup Numbers({4, 7, 9}), s \in Numbers({0, 2, 3})}
    \cup {[Plain EXCEPT !.parity = p] : p \in {Letter(k) : k \in 0..3} \cup Numbers({1})}
=============================================================================
