----------------------------- MODULE RunContract ----------------------------
(***************************************************************************)
(* What nare promises the caller of a session, and nothing of how: a run   *)
(* takes at most MaxTurns turns and one for the turn-limit summary, and    *)
(* ends in one of the pairs of status and stop reason `nare contract'      *)
(* prints; a finished session becomes runnable again by a reopen alone.    *)
(***************************************************************************)
EXTENDS Naturals

CONSTANTS
  None,
  MaxTurns

VARIABLES
  status,    (* what the caller may rely on: working until the run is over *)
  stop,      (* why it is over                                             *)
  taken      (* turns the run has taken                                    *)

contractVars == <<status, stop, taken>>

(* STOP_REASONS.  session_write belongs to the command line's save, which  *)
(* comes after the run.                                                    *)
Finished == {"end_turn", "stop_sequence", "tool_use"}

Limits == {"max_tokens", "repetition", "max_turns", "context", "budget", "timeout",
           "tool_calls"}

NoAnswers == {"refusal", "schema_violation", "reads_required", "no_answer"}

Stopped == {"interrupted"}

Failures == {None, "mcp"}

Results ==
  ({"done", "blocked"} \X Finished)
  \cup ({"error"} \X (Limits \cup NoAnswers \cup Stopped \cup Failures))

ContractInit == status = "working" /\ stop = None /\ taken = 0

Turn ==
  /\ status = "working"
  /\ taken <= MaxTurns
  /\ taken' = taken + 1
  /\ UNCHANGED <<status, stop>>

Finish ==
  /\ status = "working"
  /\ <<status', stop'>> \in Results
  /\ UNCHANGED taken

Reopens ==
  /\ status # "working"
  /\ status' = "working" /\ stop' = None /\ taken' = 0

ContractNext == Turn \/ Finish \/ Reopens

ContractSpec == ContractInit /\ [][ContractNext]_contractVars
=============================================================================
