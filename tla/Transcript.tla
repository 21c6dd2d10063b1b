----------------------------- MODULE Transcript -----------------------------
(***************************************************************************)
(* The conversation a session keeps and sends with every request.          *)
(*                                                                         *)
(* A message keeps what the run loop and the vendors tell apart: its role, *)
(* the tool calls an assistant turn makes, and the answers a user turn     *)
(* carries (the answer at a position answers the call at that position, as *)
(* the loop zips calls with results).  Text blocks are left out: that a    *)
(* user turn exists says that a text or an answer was appended to it.      *)
(***************************************************************************)
EXTENDS Naturals, Sequences

CONSTANTS
  CallNames    (* The tools a call can name.                               *)

(***************************************************************************)
(* How a call was answered.  "ok" and "recorded" (an ask that succeeded)   *)
(* are results; the others have is_error set: the tool failed ("error"),   *)
(* the call was never started ("not_run"), or a successful ask of a turn   *)
(* that did not block was rewritten ("not_delivered").                     *)
(***************************************************************************)
Answers == {"ok", "recorded", "error", "not_run", "not_delivered"}

IsError(a) == a \notin {"ok", "recorded"}

Message == [role    : {"user", "assistant"},
            calls   : Seq(CallNames),
            answers : Seq(Answers)]

UserTurn(answers) == [role |-> "user", calls |-> << >>, answers |-> answers]

AssistantTurn(calls) == [role |-> "assistant", calls |-> calls, answers |-> << >>]

EndsWith(m, role) == m # << >> /\ m[Len(m)].role = role

(***************************************************************************)
(* append_user_text: merge into a trailing user turn, or open one.         *)
(***************************************************************************)
(* Faulty: every text opens a turn.                                        *)
OpenUserTurn(m) == Append(m, UserTurn(<< >>))

AppendUserText(m) == IF EndsWith(m, "user") THEN m ELSE Append(m, UserTurn(<< >>))

(***************************************************************************)
(* unanswered: the calls of a final assistant turn, which have no results  *)
(* yet.                                                                    *)
(***************************************************************************)
Unanswered(m) == IF EndsWith(m, "assistant") THEN m[Len(m)].calls ELSE << >>

AllAnswered(calls, answer) == [k \in 1 .. Len(calls) |-> answer]

(***************************************************************************)
(* reopen's repair of a transcript saved in mid-dispatch.                  *)
(***************************************************************************)
AnswerUnanswered(m) ==
  IF Unanswered(m) = << >>
  THEN m
  ELSE Append(m, UserTurn(AllAnswered(Unanswered(m), "error")))

-----------------------------------------------------------------------------
(***************************************************************************)
(* What the vendors require of a transcript they are sent.                 *)
(***************************************************************************)
AnsweredAt(m, i) ==
  m[i].calls # << >> => /\ i < Len(m)
                        /\ Len(m[i + 1].answers) = Len(m[i].calls)

Settled(m) == \A i \in 1 .. Len(m) : AnsweredAt(m, i)

(* Every turn but a final assistant turn in mid-dispatch is settled.       *)
SettledButLast(m) == \A i \in 1 .. Len(m) - 1 : AnsweredAt(m, i)

NoUserPair(m) ==
  \A i \in 1 .. Len(m) - 1 : ~ (m[i].role = "user" /\ m[i + 1].role = "user")

-----------------------------------------------------------------------------
(***************************************************************************)
(* What the loop reads off the transcript.                                 *)
(***************************************************************************)

(* Some call of this tool came back as `answer'.                           *)
Came(m, name, answer) ==
  \E i \in 1 .. Len(m) - 1 : \E k \in 1 .. Len(m[i].calls) :
    /\ m[i].calls[k] = name
    /\ k <= Len(m[i + 1].answers)
    /\ m[i + 1].answers[k] = answer

WroteAFile(m) == Came(m, "write", "ok")

HasRecorded(msg) == \E k \in 1 .. Len(msg.answers) : msg.answers[k] = "recorded"

=============================================================================
