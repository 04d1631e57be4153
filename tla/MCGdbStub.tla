------------------------------- MODULE MCGdbStub -------------------------------
(* The stub with one command for each path through ProcessGdbCommand().     *)
(* G is longer than the others, one M longer than the buffer, and one M and *)
(* one c name a high address.                                               *)
EXTENDS GdbStub

Cmd(op, arg, length) == [op |-> op, arg |-> arg, high |-> FALSE, length |-> length]
High(op, arg)        == [Cmd(op, arg, 1) EXCEPT !.high = TRUE]

EveryCommand ==
  {Cmd("g", "good", 1), Cmd("unknown", "good", 1)}
    \cup {Cmd("G", arg, 2) : arg \in {"good", "short", "nopc"}}
    \cup {Cmd("P", arg, 1) : arg \in {"good", "syntax"}}
    \cup {Cmd("m", "unmapped", 1)}
    \cup {Cmd("M", arg, 1) : arg \in {"good", "excess", "unmapped", "border"}}
    \cup {Cmd("M", "good", 9)}
    \cup {Cmd("s", "syntax", 1), Cmd("s", "address", 1), High("c", "address"), High("M", "good")}
================================================================================
