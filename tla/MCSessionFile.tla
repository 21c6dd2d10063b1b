--------------------------- MODULE MCSessionFile ---------------------------
(* The settings in which SessionFile is explored.                          *)
EXTENDS SessionFile

(* Two processes that save to one path, failing writes, a kill anywhere,   *)
(* a clock that may not tick between two saves, and a watcher whose stat   *)
(* and read can fail.                                                      *)
Shared == [procs |-> {"p1", "p2"}, streams |-> FALSE, attached |-> TRUE, turns |-> 1,
           lives |-> 2, kinds |-> {"write", "stat", "read", "tick"}, faults |-> 1]

(* One process at a time, killed, stopped, resumed, its writes and its     *)
(* event lines failing.                                                    *)
Alone == [procs |-> {"p1"}, streams |-> TRUE, attached |-> FALSE, turns |-> 3,
          lives |-> 3, kinds |-> {"write", "pipe"}, faults |-> 2]

BothSettings == {Shared, Alone}

=============================================================================
