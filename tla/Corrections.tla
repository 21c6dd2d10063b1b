----------------------------- MODULE Corrections ----------------------------
(***************************************************************************)
(* The correction budget of a run: whether a failing final answer gets     *)
(* another turn, and whether that turn is charged.                         *)
(*                                                                         *)
(* A failing answer is the number of distinct error codes it made.  The    *)
(* codes seen before and the log's texts only word the message the model   *)
(* is sent, so they are left out; `free' and `charged' count the log.      *)
(***************************************************************************)
EXTENDS Naturals

CONSTANTS
  None,          (* Python's None.                                         *)
  MaxErrors      (* The most distinct error codes an answer can make.      *)

ASSUME NoneAssumption == None \notin Nat

ASSUME MaxErrorsAssumption == MaxErrors \in Nat \ {0}

Correction == [charged : Nat,
               free    : Nat,
               fewest  : (1 .. MaxErrors) \cup {None},
               retried : BOOLEAN,
               last    : {None, "schema", "reads"}]

NoCorrections == [charged |-> 0, free |-> 0, fewest |-> None,
                  retried |-> FALSE, last |-> None]

(***************************************************************************)
(* An answer with strictly fewer errors than any before it is corrected    *)
(* free, when the budget is more than one and both answers were JSON.      *)
(***************************************************************************)

(* Faulty: an answer with as many errors is corrected free.                *)
IsFreeOnTies(c, n, limit, comparable) ==
  /\ comparable
  /\ limit > 1
  /\ c.fewest # None
  /\ n <= c.fewest

IsFree(c, n, limit, comparable) ==
  /\ comparable
  /\ limit > 1
  /\ c.fewest # None
  /\ n < c.fewest

Granted(c, n, limit, comparable) ==
  IsFree(c, n, limit, comparable) \/ c.charged < limit

FewestOf(c, n, comparable) ==
  IF ~ comparable THEN c.fewest
  ELSE IF c.fewest = None \/ n < c.fewest THEN n ELSE c.fewest

(***************************************************************************)
(* charge: the correction state after a granted correction.                *)
(***************************************************************************)
Retried(c, kind) == c.retried \/ kind = "schema"

Charge(c, n, limit, comparable, kind) ==
  LET free == IsFree(c, n, limit, comparable)
  IN  [charged |-> IF free THEN c.charged ELSE c.charged + 1,
       free    |-> IF free THEN c.free + 1 ELSE c.free,
       fewest  |-> FewestOf(c, n, comparable),
       retried |-> Retried(c, kind),
       last    |-> kind]

(***************************************************************************)
(* The bound the budget promises: the charged corrections stay within it,  *)
(* and each free one has taken an error off the fewest seen, so the run    *)
(* gets at most limit + MaxErrors - 1 corrections whatever the model does. *)
(***************************************************************************)
WithinBudget(c, limit) ==
  /\ c.charged <= limit
  /\ c.fewest = None => c.free = 0
  /\ c.fewest # None => c.free + c.fewest <= MaxErrors
=============================================================================
