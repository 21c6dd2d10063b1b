----------------------------- MODULE MCTuiDrive -----------------------------
(* Instances of TuiDrive: the calls a model makes.                         *)
EXTENDS TuiDrive

Make == [program |-> "make", reads |-> FALSE, plain |-> TRUE]

(* `cat a', and `cat a > b'.                                               *)
Cat == [program |-> "cat", reads |-> TRUE, plain |-> TRUE]

CatInto == [Cat EXCEPT !.reads = FALSE]

Bash(line) == [tool |-> "bash", git |-> FALSE, line |-> line, risky |-> FALSE, glob |-> FALSE]

Edit(git) == [tool |-> "edit", git |-> git, line |-> {}, risky |-> FALSE, glob |-> FALSE]

(* `cat a > b' is never approved with `make', and a line with a risk is    *)
(* always asked about.                                                     *)
SomeCalls ==
  {Edit(FALSE), Edit(TRUE), Bash({Make, CatInto}), Bash({Make, Cat}),
   [Bash({Make}) EXCEPT !.risky = TRUE]}
=============================================================================
