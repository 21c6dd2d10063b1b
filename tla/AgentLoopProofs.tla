--------------------------- MODULE AgentLoopProofs ---------------------------
(***************************************************************************)
(* The run loop and its transcript, for every value of their constants:    *)
(* types, the correction budget, the calls a transcript answers, and the   *)
(* limits of an invocation.                                                *)
(*                                                                         *)
(* WellTyped is the type invariant with the transcript never empty, which  *)
(* every later proof rests on.                                             *)
(***************************************************************************)
EXTENDS AgentLoop, TLAPS

-----------------------------------------------------------------------------
(***************************************************************************)
(* What the operations on a transcript preserve.                           *)
(***************************************************************************)

(* A transcript a vendor accepts, which a session's never-empty list of    *)
(* messages is whenever no reply is being dispatched.                      *)
WellFormed(m) ==
  /\ m \in Seq(Message) /\ m # << >>
  /\ Settled(m)
  /\ NoUserPair(m)

(* One whose last message is a reply with calls, still open.               *)
AwaitsAnswers(m) ==
  /\ m \in Seq(Message) /\ m # << >>
  /\ SettledButLast(m)
  /\ NoUserPair(m)
  /\ m[Len(m)].role = "assistant"

(* A user turn and an assistant turn are messages.                         *)
LEMMA TurnsAreMessages ==
  /\ \A a \in Seq(Answers) : UserTurn(a) \in Message
  /\ \A c \in Seq(CallNames) : AssistantTurn(c) \in Message
<1>1. << >> \in Seq(CallNames) /\ << >> \in Seq(Answers)
  OBVIOUS
<1> QED  BY <1>1 DEF UserTurn, AssistantTurn, Message

(* append_user_text keeps a transcript well formed, and ends it on a user  *)
(* turn.                                                                   *)
LEMMA AppendUserTextKeeps ==
  ASSUME NEW m, WellFormed(m)
  PROVE  WellFormed(AppendUserText(m))
<1> DEFINE n == AppendUserText(m)
<1>t. m \in Seq(Message) /\ Len(m) \in Nat \ {0}
  BY DEF WellFormed
<1>1. CASE EndsWith(m, "user")
  BY <1>1 DEF AppendUserText
<1>2. CASE ~ EndsWith(m, "user")
  <2>1. n = Append(m, UserTurn(<< >>))
    BY <1>2 DEF AppendUserText
  <2>2. UserTurn(<< >>) \in Message
    <3>1. << >> \in Seq(Answers)
      OBVIOUS
    <3> QED  BY <3>1, TurnsAreMessages
  <2>3. /\ n \in Seq(Message) /\ Len(n) = Len(m) + 1 /\ n # << >>
        /\ \A i \in 1 .. Len(m) : n[i] = m[i]
        /\ n[Len(m) + 1] = UserTurn(<< >>)
    BY <1>t, <2>1, <2>2
  <2>4. m[Len(m)].role # "user"
    BY <1>2, <1>t DEF EndsWith, WellFormed
  <2>5. Settled(n)
    <3> SUFFICES ASSUME NEW i \in 1 .. Len(n)
                 PROVE  AnsweredAt(n, i)
      BY DEF Settled
    <3>1. CASE i = Len(m) + 1
      BY <3>1, <2>3 DEF AnsweredAt, UserTurn
    <3>2. CASE i = Len(m)
      BY <3>2, <2>3, <1>t DEF AnsweredAt, WellFormed, Settled
    <3>3. CASE i < Len(m)
      BY <3>3, <2>3, <1>t DEF AnsweredAt, WellFormed, Settled
    <3> QED  BY <3>1, <3>2, <3>3, <2>3, <1>t
  <2>6. NoUserPair(n)
    BY <1>t, <2>3, <2>4 DEF WellFormed, NoUserPair
  <2> QED  BY <2>3, <2>5, <2>6 DEF WellFormed
<1> QED  BY <1>1, <1>2

(* A reply without calls keeps a transcript well formed.                   *)
LEMMA FinalReplyKeeps ==
  ASSUME NEW m, WellFormed(m)
  PROVE  WellFormed(Append(m, AssistantTurn(<< >>)))
<1> DEFINE n == Append(m, AssistantTurn(<< >>))
<1>1. m \in Seq(Message) /\ Len(m) \in Nat \ {0}
  BY DEF WellFormed
<1>2. AssistantTurn(<< >>) \in Message
  <2>1. << >> \in Seq(CallNames)
    OBVIOUS
  <2> QED  BY <2>1, TurnsAreMessages
<1>3. /\ n \in Seq(Message) /\ Len(n) = Len(m) + 1 /\ n # << >>
      /\ \A i \in 1 .. Len(m) : n[i] = m[i]
      /\ n[Len(m) + 1] = AssistantTurn(<< >>)
  BY <1>1, <1>2
<1>4. Settled(n)
  <2> SUFFICES ASSUME NEW i \in 1 .. Len(n)
               PROVE  AnsweredAt(n, i)
    BY DEF Settled
  <2>1. CASE i = Len(m) + 1
    BY <2>1, <1>3 DEF AnsweredAt, AssistantTurn
  <2>2. CASE i \in 1 .. Len(m)
    <3>1. AnsweredAt(m, i)
      BY <2>2 DEF WellFormed, Settled
    <3>2. CASE i = Len(m)
      BY <3>1, <3>2, <1>1, <1>3 DEF AnsweredAt
    <3>3. CASE i < Len(m)
      BY <3>1, <3>3, <1>1, <1>3 DEF AnsweredAt
    <3> QED  BY <2>2, <3>2, <3>3, <1>1
  <2> QED  BY <2>1, <2>2, <1>1, <1>3
<1>5. NoUserPair(n)
  BY <1>1, <1>3 DEF WellFormed, NoUserPair, AssistantTurn
<1> QED  BY <1>3, <1>4, <1>5 DEF WellFormed

(* A reply with calls opens them.                                          *)
LEMMA CallingReplyOpens ==
  ASSUME NEW m, WellFormed(m), NEW c \in Seq(CallNames), c # << >>
  PROVE  /\ AwaitsAnswers(Append(m, AssistantTurn(c)))
         /\ Len(Append(m, AssistantTurn(c))) = Len(m) + 1
         /\ Append(m, AssistantTurn(c))[Len(m) + 1].calls = c
<1> DEFINE n == Append(m, AssistantTurn(c))
<1>1. m \in Seq(Message) /\ Len(m) \in Nat \ {0}
  BY DEF WellFormed
<1>2. AssistantTurn(c) \in Message
  BY TurnsAreMessages
<1>3. /\ n \in Seq(Message) /\ Len(n) = Len(m) + 1 /\ n # << >>
      /\ \A i \in 1 .. Len(m) : n[i] = m[i]
      /\ n[Len(m) + 1] = AssistantTurn(c)
  BY <1>1, <1>2
<1>4. SettledButLast(n)
  <2> SUFFICES ASSUME NEW i \in 1 .. Len(m)
               PROVE  AnsweredAt(n, i)
    BY <1>1, <1>3 DEF SettledButLast
  <2>1. AnsweredAt(m, i)
    BY DEF WellFormed, Settled
  <2>2. CASE i = Len(m)
    BY <2>1, <2>2, <1>1, <1>3 DEF AnsweredAt
  <2>3. CASE i < Len(m)
    BY <2>1, <2>3, <1>1, <1>3 DEF AnsweredAt
  <2> QED  BY <2>2, <2>3, <1>1
<1>5. NoUserPair(n)
  BY <1>1, <1>3 DEF WellFormed, NoUserPair, AssistantTurn
<1> QED  BY <1>3, <1>4, <1>5 DEF AwaitsAnswers, AssistantTurn

(* One answer to each open call settles the transcript.                    *)
LEMMA AnswersSettle ==
  ASSUME NEW m, AwaitsAnswers(m), NEW a \in Seq(Answers),
         Len(a) = Len(m[Len(m)].calls)
  PROVE  WellFormed(Append(m, UserTurn(a)))
<1> DEFINE n == Append(m, UserTurn(a))
<1>1. m \in Seq(Message) /\ Len(m) \in Nat \ {0}
  BY DEF AwaitsAnswers
<1>2. UserTurn(a) \in Message
  BY TurnsAreMessages
<1>3. /\ n \in Seq(Message) /\ Len(n) = Len(m) + 1 /\ n # << >>
      /\ \A i \in 1 .. Len(m) : n[i] = m[i]
      /\ n[Len(m) + 1] = UserTurn(a)
  BY <1>1, <1>2
<1>4. Settled(n)
  <2> SUFFICES ASSUME NEW i \in 1 .. Len(n)
               PROVE  AnsweredAt(n, i)
    BY DEF Settled
  <2>1. CASE i = Len(m) + 1
    BY <2>1, <1>3 DEF AnsweredAt, UserTurn
  <2>2. CASE i = Len(m)
    BY <2>2, <1>1, <1>3 DEF AnsweredAt, UserTurn
  <2>3. CASE i < Len(m)
    <3>1. i \in 1 .. Len(m) - 1
      BY <2>3, <1>1, <1>3
    <3>2. AnsweredAt(m, i)
      BY <3>1 DEF AwaitsAnswers, SettledButLast
    <3> QED  BY <3>1, <3>2, <1>1, <1>3 DEF AnsweredAt
  <2> QED  BY <2>1, <2>2, <2>3, <1>1, <1>3
<1>5. NoUserPair(n)
  BY <1>1, <1>3 DEF AwaitsAnswers, NoUserPair
<1> QED  BY <1>3, <1>4, <1>5 DEF WellFormed

(* A well-formed transcript has no call left for a reopen to answer.       *)
LEMMA NothingUnanswered ==
  ASSUME NEW m, WellFormed(m)
  PROVE  Unanswered(m) = << >> /\ AnswerUnanswered(m) = m
<1>1. Unanswered(m) = << >>
  <2>1. m \in Seq(Message) /\ Len(m) \in Nat \ {0}
    BY DEF WellFormed
  <2>2. AnsweredAt(m, Len(m))
    BY <2>1 DEF WellFormed, Settled
  <2> QED  BY <2>1, <2>2 DEF Unanswered, AnsweredAt
<1> QED  BY <1>1 DEF AnswerUnanswered
-----------------------------------------------------------------------------

WellTyped == TypeOK /\ messages # << >>

USE LoopAssumption, NoneAssumption, MaxErrorsAssumption

-----------------------------------------------------------------------------
(***************************************************************************)
(* Types.                                                                  *)
(***************************************************************************)

(* Appending a text to a transcript gives a transcript.                    *)
LEMMA AppendUserTextType ==
  ASSUME NEW m \in Seq(Message)
  PROVE  AppendUserText(m) \in Seq(Message) /\ AppendUserText(m) # << >>
<1>e. << >> \in Seq(Answers)
  OBVIOUS
<1>1. CASE EndsWith(m, "user")
  BY <1>1 DEF AppendUserText, EndsWith
<1>2. CASE ~ EndsWith(m, "user")
  <2>1. UserTurn(<< >>) \in Message
    BY <1>e, TurnsAreMessages
  <2>2. AppendUserText(m) = Append(m, UserTurn(<< >>))
    BY <1>2 DEF AppendUserText
  <2> QED  BY <2>1, <2>2
<1> QED  BY <1>1, <1>2

(* What a reply is made of.                                                *)
LEMMA ReplyType ==
  ASSUME NEW r \in Replies, NEW cost \in Costs
  PROVE  /\ r.stop \in ReplyStops /\ r.stop \in StopReasons
         /\ r.calls \in Seq(CallNames)
         /\ r.errs \in 0 .. MaxErrors
         /\ cost \in Nat \cup {None}
<1>1. r \in Reply
  BY DEF Replies
<1>2. r.stop \in ReplyStops /\ r.errs \in 0 .. MaxErrors
      /\ r.calls \in CallLists \cup {<< >>}
  BY <1>1 DEF Reply
<1>3. << >> \in Seq(CallNames)
  OBVIOUS
<1> QED  BY <1>2, <1>3 DEF StopReasons

(* What every completed reply leaves, whatever it says.                    *)
LEMMA ReceivedType ==
  ASSUME WellTyped, NEW r \in Replies, NEW cost \in Costs, Received(r, cost)
  PROVE  /\ usage' \in [tokens : Nat, cost : Nat \cup {None}]
         /\ turns' \in Nat
         /\ inv' \in Invocation
         /\ UNCHANGED <<budget, stated, runs>>
         /\ Kept(r) \in Seq(Message) /\ Kept(r) # << >>
         /\ Retained(r) \in Schemas \cup {None, Unrecorded}
<1>1. cost \in Nat \cup {None} /\ r.calls \in Seq(CallNames)
  BY ReplyType
<1>2. usage' \in [tokens : Nat, cost : Nat \cup {None}]
  <2>1. usage.tokens \in Nat /\ usage.cost \in Nat \cup {None}
    BY DEF WellTyped, TypeOK
  <2>2. AddUsage(cost) \in [tokens : Nat, cost : Nat \cup {None}]
    BY <1>1, <2>1 DEF AddUsage
  <2> QED
    BY <2>2 DEF Received
<1>3. inv' \in Invocation
  <2>1. inv \in Invocation /\ inv.cutoffs \in Nat
    BY DEF WellTyped, TypeOK, Invocation
  <2>2. [inv EXCEPT !.cutoffs = @ + 1] \in Invocation
    <3>1. ASSUME NEW n \in Nat PROVE [inv EXCEPT !.cutoffs = n] \in Invocation
      BY ONLY <2>1, <3>1 DEF Invocation
    <3>2. inv.cutoffs + 1 \in Nat
      BY <2>1
    <3> QED
      BY <3>1, <3>2
  <2>3. CountCutoff(r) \in Invocation
    BY <2>1, <2>2 DEF CountCutoff
  <2>4. inv' = [CountCutoff(r) EXCEPT !.capped = FALSE]
    BY DEF Received
  <2> QED  BY <2>3, <2>4 DEF Invocation
<1>4. AssistantTurn(r.calls) \in Message
  BY <1>1, TurnsAreMessages
<1>5. Kept(r) \in Seq(Message) /\ Kept(r) # << >>
  BY <1>4 DEF Kept, WellTyped, TypeOK
<1>6. Retained(r) \in Schemas \cup {None, Unrecorded}
  BY DEF Retained, WellTyped, TypeOK, Invocation
<1> QED  BY <1>2, <1>3, <1>5, <1>6 DEF Received, WellTyped, TypeOK

(* A decision about a typed transcript, correction state, output and       *)
(* outcome leaves the types as they are.                                   *)
LEMMA DecideType ==
  ASSUME WellTyped, NEW r \in Replies, NEW cost \in Costs, Received(r, cost),
         NEW m \in Seq(Message), m # << >>,
         NEW c \in Correction,
         NEW out \in Schemas \cup {None, Unrecorded},
         NEW st \in Statuses, NEW why \in StopReasons,
         Decide(m, c, out, Ends(st, why)),
         nudged' \in BOOLEAN
  PROVE  WellTyped'
<1>1. /\ usage' \in [tokens : Nat, cost : Nat \cup {None}]
      /\ turns' \in Nat
      /\ inv' \in Invocation
      /\ UNCHANGED <<budget, stated, runs>>
  BY ReceivedType
<1>2. /\ phase' = "post" /\ messages' = m /\ corr' = c /\ output' = out
      /\ status' = st /\ stop' = why /\ results' = results
  BY DEF Decide, LeaveWith, Ends
<1> QED  BY <1>1, <1>2 DEF WellTyped, TypeOK, Phases

(* A granted correction is a correction state.                             *)
LEMMA ChargeType ==
  ASSUME NEW c \in Correction, NEW n \in 1 .. MaxErrors, NEW limit \in Nat,
         NEW comparable \in BOOLEAN, NEW kind \in {"schema", "reads"}
  PROVE  Charge(c, n, limit, comparable, kind) \in Correction
<1>1. /\ c.charged \in Nat /\ c.free \in Nat /\ c.retried \in BOOLEAN
      /\ c.fewest \in (1 .. MaxErrors) \cup {None}
  BY DEF Correction
<1>2. FewestOf(c, n, comparable) \in (1 .. MaxErrors) \cup {None}
  BY <1>1 DEF FewestOf
<1>3. Retried(c, kind) \in BOOLEAN
  BY <1>1 DEF Retried
<1> QED  BY <1>1, <1>2, <1>3 DEF Charge, Correction

(* A text appended to a kept reply gives a transcript.                     *)
LEMMA KeptAndTold ==
  ASSUME WellTyped, NEW r \in Replies, NEW cost \in Costs, Received(r, cost)
  PROVE  AppendUserText(Kept(r)) \in Seq(Message) /\ AppendUserText(Kept(r)) # << >>
BY ReceivedType, AppendUserTextType

(* A hold, granted or not.                                                 *)
LEMMA HoldType ==
  ASSUME WellTyped, NEW r \in Replies, NEW cost \in Costs, Received(r, cost),
         Hold(r), nudged' \in BOOLEAN
  PROVE  WellTyped'
<1> DEFINE u == Untied(corr)
<1>1. u \in Correction
  BY DEF WellTyped, TypeOK, Untied, Correction
<1>2. /\ status \in Statuses /\ "error" \in Statuses
      /\ r.stop \in StopReasons /\ "reads_required" \in StopReasons
  BY ReplyType DEF WellTyped, TypeOK, Statuses, StopReasons
<1>3. Kept(r) \in Seq(Message) /\ Kept(r) # << >> /\ Retained(r) \in Schemas \cup {None, Unrecorded}
  BY ReceivedType
<1>4. /\ AppendUserText(Kept(r)) \in Seq(Message)
      /\ AppendUserText(Kept(r)) # << >>
  BY KeptAndTold
<1>5. Charge(u, 1, MaxCorrections, FALSE, "reads") \in Correction
  <2>1. 1 \in 1 .. MaxErrors /\ MaxCorrections \in Nat /\ FALSE \in BOOLEAN
    OBVIOUS
  <2> QED  BY <1>1, <2>1, ChargeType
<1>6. CASE Granted(u, 1, MaxCorrections, FALSE)
  <2>1. Decide(AppendUserText(Kept(r)), Charge(u, 1, MaxCorrections, FALSE, "reads"),
               Retained(r), Ends(status, r.stop))
    BY <1>6 DEF Hold
  <2> QED  BY <1>2, <1>3, <1>4, <1>5, <2>1, DecideType
<1>7. CASE ~ Granted(u, 1, MaxCorrections, FALSE)
  <2>1. Decide(Kept(r), u, Retained(r), Ends("error", "reads_required"))
    BY <1>7 DEF Hold
  <2> QED  BY <1>1, <1>2, <1>3, <2>1, DecideType
<1> QED  BY <1>6, <1>7

(* A reply without tool calls.                                             *)
LEMMA FinalReplyType ==
  ASSUME WellTyped, NEW r \in Replies, NEW cost \in Costs, NEW found \in 0 .. MaxErrors,
         \/ ReplyCutOff(r, cost)
         \/ ReplyWithoutAnswer(r, cost)
         \/ ReplyInText(r, cost)
         \/ ReplySummarises(r, cost)
         \/ ReplyAnswers(r, cost, found)
         \/ CheckRaises(r, cost)
  PROVE  WellTyped'
<1>1. Received(r, cost)
  BY DEF ReplyCutOff, ReplyWithoutAnswer, ReplyInText, ReplySummarises, ReplyAnswers,
         CheckRaises
<1>2. /\ status \in Statuses /\ {"error", "done"} \subseteq Statuses
      /\ r.stop \in StopReasons
      /\ {None, "no_answer", "schema_violation"} \subseteq StopReasons
      /\ corr \in Correction /\ nudged \in BOOLEAN
      /\ inv.schema \in Schemas \cup {None}
  BY ReplyType DEF WellTyped, TypeOK, Statuses, StopReasons, Invocation
<1>3. Kept(r) \in Seq(Message) /\ Kept(r) # << >> /\ Retained(r) \in Schemas \cup {None, Unrecorded}
  BY <1>1, ReceivedType
<1>4. /\ AppendUserText(Kept(r)) \in Seq(Message)
      /\ AppendUserText(Kept(r)) # << >>
  BY <1>1, KeptAndTold
<1>5. CASE ReplyCutOff(r, cost)
  <2>1. nudged' \in BOOLEAN
    BY <1>2, <1>5 DEF ReplyCutOff
  <2>2. CASE Corrected(r)
    <3>1. Decide(AppendUserText(Kept(r)), corr, Retained(r), Ends(status, r.stop))
      BY <1>5, <2>2 DEF ReplyCutOff
    <3> QED  BY <1>1, <1>2, <1>3, <1>4, <2>1, <3>1, DecideType
  <2>3. CASE ~ Corrected(r)
    <3>1. Decide(Kept(r), corr, Retained(r), Ends("error", r.stop))
      BY <1>5, <2>3 DEF ReplyCutOff
    <3> QED  BY <1>1, <1>2, <1>3, <2>1, <3>1, DecideType
  <2> QED  BY <2>2, <2>3
<1>6. CASE ReplyWithoutAnswer(r, cost)
  <2>1. /\ nudged' \in BOOLEAN
        /\ Decide(Kept(r), corr, Retained(r), Ends("error", "no_answer"))
    BY <1>2, <1>6 DEF ReplyWithoutAnswer
  <2> QED  BY <1>1, <1>2, <1>3, <2>1, DecideType
<1>7. CASE ReplyInText(r, cost)
  <2>1. nudged' \in BOOLEAN
    BY <1>2, <1>7 DEF ReplyInText
  <2>2. CASE Nudges(r)
    <3>1. Decide(AppendUserText(Kept(r)), corr, Retained(r), Ends(status, r.stop))
      BY <1>7, <2>2 DEF ReplyInText
    <3> QED  BY <1>1, <1>2, <1>3, <1>4, <2>1, <3>1, DecideType
  <2>3. CASE ~ Nudges(r) /\ Owed(r)
    <3>1. Hold(r)
      BY <1>7, <2>3 DEF ReplyInText
    <3> QED  BY <1>1, <2>1, <3>1, HoldType
  <2>4. CASE ~ Nudges(r) /\ ~ Owed(r)
    <3>1. Decide(Kept(r), corr, Retained(r), Ends("done", r.stop))
      BY <1>7, <2>4 DEF ReplyInText
    <3> QED  BY <1>1, <1>2, <1>3, <2>1, <3>1, DecideType
  <2> QED  BY <2>2, <2>3, <2>4
<1>8. CASE ReplySummarises(r, cost)
  <2>1. /\ nudged' \in BOOLEAN
        /\ Decide(Kept(r), corr, Retained(r), Ends(status, r.stop))
    BY <1>2, <1>8 DEF ReplySummarises
  <2> QED  BY <1>1, <1>2, <1>3, <2>1, DecideType
<1>9. CASE ReplyAnswers(r, cost, found)
  <2> DEFINE n == ErrorsOf(r, found)
             comparable == r.text = "doc"
  <2>1. nudged' \in BOOLEAN /\ comparable \in BOOLEAN
    BY <1>2, <1>9 DEF ReplyAnswers
  <2>2. n \in 0 .. MaxErrors
    <3>1. r.errs \in 0 .. MaxErrors
      BY ReplyType
    <3> QED  BY <3>1 DEF ErrorsOf, AnswerErrors
  <2>3. CASE n = 0 /\ Owed(r)
    <3>1. Hold(r)
      BY <1>9, <2>3 DEF ReplyAnswers
    <3> QED  BY <1>1, <2>1, <3>1, HoldType
  <2>4. CASE n = 0 /\ ~ Owed(r)
    <3>1. Decide(Kept(r), corr, inv.schema, Ends("done", r.stop))
      BY <1>9, <2>4 DEF ReplyAnswers
    <3> QED  BY <1>1, <1>2, <1>3, <2>1, <3>1, DecideType
  <2>5. CASE n # 0 /\ Granted(corr, n, MaxCorrections, comparable)
    <3>1. Decide(AppendUserText(Kept(r)),
                 Charge(corr, n, MaxCorrections, comparable, "schema"),
                 Retained(r), Ends(status, r.stop))
      BY <1>9, <2>5 DEF ReplyAnswers
    <3>2. inv.schema \in Schemas
      BY <1>2, <1>9 DEF ReplyAnswers
    <3>3. /\ AppendUserText(Kept(r)) \in Seq(Message)
          /\ AppendUserText(Kept(r)) # << >>
      BY <1>1, KeptAndTold
    <3>4. Charge(corr, n, MaxCorrections, comparable, "schema") \in Correction
      <4>1. n \in 1 .. MaxErrors /\ MaxCorrections \in Nat
        BY <2>2, <2>5
      <4> QED  BY <1>2, <2>1, <4>1, ChargeType
    <3> QED  BY <1>1, <1>2, <1>3, <2>1, <3>1, <3>3, <3>4, DecideType
  <2>6. CASE n # 0 /\ ~ Granted(corr, n, MaxCorrections, comparable)
    <3>1. Decide(Kept(r), corr, Retained(r), Ends("error", "schema_violation"))
      BY <1>9, <2>6 DEF ReplyAnswers
    <3> QED  BY <1>1, <1>2, <1>3, <2>1, <3>1, DecideType
  <2> QED  BY <2>3, <2>4, <2>5, <2>6
<1>10. CASE CheckRaises(r, cost)
  <2>1. /\ nudged' \in BOOLEAN
        /\ Decide(Kept(r), corr, Retained(r), Ends("error", None))
    BY <1>2, <1>10 DEF CheckRaises
  <2> QED  BY <1>1, <1>2, <1>3, <2>1, DecideType
<1> QED  BY <1>5, <1>6, <1>7, <1>8, <1>9, <1>10
(* A reply with tool calls, run or refused.                                *)
LEMMA CallingReplyType ==
  ASSUME WellTyped, NEW r \in Replies, NEW cost \in Costs,
         ReplyCallsRefused(r, cost) \/ ReplyCalls(r, cost)
  PROVE  WellTyped'
<1>1. Received(r, cost)
  BY DEF ReplyCallsRefused, ReplyCalls
<1>2. /\ status \in Statuses /\ "error" \in Statuses
      /\ r.stop \in StopReasons
      /\ corr \in Correction /\ nudged \in BOOLEAN
  BY ReplyType DEF WellTyped, TypeOK, Statuses
<1>3. Kept(r) \in Seq(Message) /\ Kept(r) # << >> /\ Retained(r) \in Schemas \cup {None, Unrecorded}
  BY <1>1, ReceivedType
<1>4. CASE ReplyCallsRefused(r, cost)
  <2> DEFINE m == Append(Kept(r), UserTurn(AllAnswered(r.calls, "not_run")))
  <2>1. m \in Seq(Message) /\ m # << >>
    <3>1. r.calls \in Seq(CallNames)
      BY ReplyType
    <3>2. AllAnswered(r.calls, "not_run") \in Seq(Answers)
      BY <3>1 DEF AllAnswered, Answers
    <3>3. UserTurn(AllAnswered(r.calls, "not_run")) \in Message
      BY <3>2, TurnsAreMessages
    <3> QED  BY <1>3, <3>3
  <2>2. nudged' \in BOOLEAN
    BY <1>2, <1>4 DEF ReplyCallsRefused
  <2>3. CASE Natural(r)
    <3>1. Decide(m, corr, Retained(r), Ends(status, r.stop))
      BY <1>4, <2>3 DEF ReplyCallsRefused
    <3> QED  BY <1>1, <1>2, <1>3, <2>1, <2>2, <3>1, DecideType
  <2>4. CASE ~ Natural(r) /\ Corrected(r)
    <3>1. Decide(AppendUserText(m), corr, Retained(r), Ends(status, r.stop))
      BY <1>4, <2>4 DEF ReplyCallsRefused
    <3>2. AppendUserText(m) \in Seq(Message) /\ AppendUserText(m) # << >>
      BY <2>1, AppendUserTextType
    <3> QED  BY <1>1, <1>2, <1>3, <2>2, <3>1, <3>2, DecideType
  <2>5. CASE ~ Natural(r) /\ ~ Corrected(r)
    <3>1. Decide(m, corr, Retained(r), Ends("error", r.stop))
      BY <1>4, <2>5 DEF ReplyCallsRefused
    <3> QED  BY <1>1, <1>2, <1>3, <2>1, <2>2, <3>1, DecideType
  <2> QED  BY <2>3, <2>4, <2>5
<1>5. CASE ReplyCalls(r, cost)
  <2>1. /\ usage' \in [tokens : Nat, cost : Nat \cup {None}]
        /\ turns' \in Nat /\ inv' \in Invocation
        /\ UNCHANGED <<budget, stated, runs>>
    BY <1>1, ReceivedType
  <2>2. results' \in Seq(Answers)
    BY <1>5 DEF ReplyCalls
  <2>3. /\ phase' \in Phases /\ messages' = Kept(r) /\ stop' = r.stop
        /\ output' = Retained(r) /\ UNCHANGED <<status, nudged, corr>>
    BY <1>5 DEF ReplyCalls, Phases
  <2> QED  BY <1>2, <1>3, <2>1, <2>2, <2>3 DEF WellTyped, TypeOK
<1> QED  BY <1>4, <1>5

(* Starting a run, its servers and its discovery.                          *)
LEMMA StartType ==
  ASSUME WellTyped,
         NEW schema \in RunSchemas, NEW tokens \in TokenLimits, NEW usd \in UsdLimits,
         Start(schema, tokens, usd)
  PROVE  WellTyped'
<1>1. inv' \in Invocation
  <2>1. schema \in Schemas \cup {None} /\ turns \in Nat /\ Len(messages) \in Nat
    BY DEF WellTyped, TypeOK
  <2> QED  BY <2>1 DEF Start, NewInvocation, Invocation
<1>2. budget' \in [tokens : Nat \cup {None}, usd : Nat \cup {None}]
  <2>1. tokens \in Nat \cup {None} /\ usd \in Nat \cup {None}
    OBVIOUS
  <2> QED  BY <2>1 DEF Start, ConfiguredBudgets, WellTyped, TypeOK
<1>3. phase' \in Phases /\ status' \in Statuses /\ stop' \in StopReasons
  BY DEF Start, LeaveWith, Ends, WellTyped, TypeOK, Phases, Statuses, StopReasons
<1>4. runs' \in Nat
  BY DEF Start, WellTyped, TypeOK
<1>5. UNCHANGED <<messages, results, usage, turns, output, stated, nudged, corr>>
  BY DEF Start
<1> QED  BY <1>1, <1>2, <1>3, <1>4, <1>5 DEF WellTyped, TypeOK

(* Stating the schema.                                                     *)
LEMMA DiscoverType ==
  ASSUME WellTyped, NEW valid \in BOOLEAN, Discover(valid)
  PROVE  WellTyped'
<1>1. /\ messages' \in Seq(Message) /\ messages' # << >>
      /\ {stated', output'} \subseteq Schemas \cup {None, Unrecorded}
  <2>1. StateSchema(valid)
    BY DEF Discover
  <2>t. inv.schema \in Schemas \cup {None}
    BY DEF WellTyped, TypeOK, Invocation
  <2>2. CASE inv.schema = None \/ stated \in {inv.schema, Unrecorded}
    BY <2>1, <2>t, <2>2 DEF StateSchema, WellTyped, TypeOK
  <2>3. CASE ~ (inv.schema = None \/ stated \in {inv.schema, Unrecorded})
    <3>1. inv.schema \in Schemas
      BY <2>t, <2>3
    <3>2. messages' = AppendUserText(messages)
      BY <2>1, <2>3 DEF StateSchema
    <3>3. messages' \in Seq(Message) /\ messages' # << >>
      BY <3>2, AppendUserTextType DEF WellTyped, TypeOK
    <3>4. stated' = inv.schema /\ output' \in {inv.schema, None}
      BY <2>1, <2>3 DEF StateSchema
    <3> QED  BY <3>1, <3>3, <3>4
  <2> QED  BY <2>2, <2>3
<1>2. phase' \in Phases
  BY DEF Discover, Phases
<1>3. UNCHANGED <<results, status, stop, usage, budget, turns, nudged, corr, inv, runs>>
  BY DEF Discover
<1> QED  BY <1>1, <1>2, <1>3 DEF WellTyped, TypeOK

(* The top of the loop.                                                    *)
LEMMA HeadType ==
  ASSUME WellTyped, NEW typed \in BOOLEAN, NEW full \in BOOLEAN,
         HeadStops(typed) \/ HeadSteps(typed, full)
  PROVE  WellTyped'
<1>1. Typed(typed) \in Seq(Message) /\ Typed(typed) # << >>
  BY AppendUserTextType DEF WellTyped, TypeOK, Typed
<1>2. Told(Typed(typed)) \in Seq(Message) /\ Told(Typed(typed)) # << >>
  <2> DEFINE m == Typed(typed)
  <2>1. AppendUserText(m) \in Seq(Message) /\ AppendUserText(m) # << >>
    BY <1>1, AppendUserTextType
  <2> HIDE DEF m
  <2> QED  BY <1>1, <2>1 DEF Told, m
<1>3. CASE HeadStops(typed)
  <2>1. messages' = Typed(typed)
    BY <1>3 DEF HeadStops
  <2>2. phase' \in Phases /\ status' \in Statuses /\ stop' \in StopReasons
    BY <1>3 DEF HeadStops, AfterLoop, LeaveWith, Ends, Phases, Statuses, StopReasons
  <2>3. UNCHANGED <<results, usage, budget, turns, output, stated, nudged, corr, inv, runs>>
    BY <1>3 DEF HeadStops
  <2> QED  BY <1>1, <2>1, <2>2, <2>3 DEF WellTyped, TypeOK
<1>4. CASE HeadSteps(typed, full)
  <2>1. messages' = Told(Typed(typed))
    BY <1>4 DEF HeadSteps
  <2>2. phase' \in Phases /\ status' \in Statuses /\ stop' \in StopReasons
    BY <1>4 DEF HeadSteps, LeaveWith, Ends, Phases, Statuses, StopReasons, WellTyped, TypeOK
  <2>3. inv' \in Invocation
    <3>1. \A b \in BOOLEAN : [inv EXCEPT !.summary = b, !.retries = 0] \in Invocation
      BY DEF WellTyped, TypeOK, Invocation
    <3>2. (Left <= 0) \in BOOLEAN
      BY DEF Left
    <3> HIDE DEF Invocation
    <3> QED  BY <1>4, <3>1, <3>2 DEF HeadSteps
  <2>4. UNCHANGED <<results, usage, budget, turns, output, stated, nudged, corr, runs>>
    BY <1>4 DEF HeadSteps
  <2> QED  BY <1>2, <2>1, <2>2, <2>3, <2>4 DEF WellTyped, TypeOK
<1> QED  BY <1>3, <1>4
(* Outcomes: whatever replaces a status and its reason is one of them.     *)
LEMMA OutcomeType ==
  ASSUME NEW st \in Statuses, NEW why \in StopReasons
  PROVE  /\ SummaryOutcome(Ends(st, why)).status \in Statuses
         /\ SummaryOutcome(Ends(st, why)).stop \in StopReasons
         /\ SummaryOutcome(CapOutcome(BudgetOutcome(Ends(st, why)))).status \in Statuses
         /\ SummaryOutcome(CapOutcome(BudgetOutcome(Ends(st, why)))).stop \in StopReasons
<1> DEFINE b == BudgetOutcome(Ends(st, why))
           c == CapOutcome(b)
<1>1. b.status \in Statuses /\ b.stop \in StopReasons
  BY DEF BudgetOutcome, Ends, Statuses, StopReasons
<1>2. c.status \in Statuses /\ c.stop \in StopReasons
  <2> HIDE DEF b
  <2> QED  BY <1>1 DEF CapOutcome, Ends, Statuses, StopReasons
<1>3. SummaryOutcome(c).status \in Statuses /\ SummaryOutcome(c).stop \in StopReasons
  <2> HIDE DEF c
  <2> QED  BY <1>2 DEF SummaryOutcome, Ends, Statuses, StopReasons
<1>4. /\ SummaryOutcome(Ends(st, why)).status \in Statuses
      /\ SummaryOutcome(Ends(st, why)).stop \in StopReasons
  BY DEF SummaryOutcome, Ends, Statuses, StopReasons
<1> QED  BY <1>3, <1>4

(* What a dispatch answers its calls with.                                 *)
LEMMA DispatchAnswers ==
  ASSUME NEW calls \in Seq(CallNames), NEW answers \in Seq(Answers)
  PROVE  /\ AnswerRest(calls, answers) \in Seq(Answers)
         /\ Len(AnswerRest(calls, answers)) = Len(calls)
         /\ Delivered(calls, answers) \in Seq(Answers)
         /\ Len(Delivered(calls, answers)) = Len(answers)
<1>1. \A k \in 1 .. Len(answers) : answers[k] \in Answers
  OBVIOUS
<1>2. "error" \in Answers /\ "not_delivered" \in Answers
  BY DEF Answers
<1>3. /\ AnswerRest(calls, answers) \in Seq(Answers)
      /\ Len(AnswerRest(calls, answers)) = Len(calls)
  BY <1>1, <1>2 DEF AnswerRest
<1>4. /\ Delivered(calls, answers) \in Seq(Answers)
      /\ Len(Delivered(calls, answers)) = Len(answers)
  <2> DEFINE f == [k \in 1 .. Len(answers) |->
                     IF IsError(answers[k]) THEN answers[k] ELSE "not_delivered"]
  <2>1. f \in Seq(Answers) /\ Len(f) = Len(answers)
    BY <1>1, <1>2
  <2>2. Delivered(calls, answers) = f \/ Delivered(calls, answers) = answers
    BY DEF Delivered
  <2> QED  BY <2>1, <2>2
<1> QED  BY <1>3, <1>4

(* The calls of the last message.                                          *)
LEMMA CallsType ==
  ASSUME NEW m \in Seq(Message), m # << >>
  PROVE  m[Len(m)].calls \in Seq(CallNames)
<1>1. m[Len(m)] \in Message
  OBVIOUS
<1> QED  BY <1>1 DEF Message

(* Answers after the last reply make a transcript.                         *)
LEMMA WithAnswersType ==
  ASSUME NEW m \in Seq(Message), m # << >>, NEW answers \in Seq(Answers)
  PROVE  WithAnswers(m, answers) \in Seq(Message) /\ WithAnswers(m, answers) # << >>
<1>1. Delivered(m[Len(m)].calls, answers) \in Seq(Answers)
  BY CallsType, DispatchAnswers
<1>2. UserTurn(Delivered(m[Len(m)].calls, answers)) \in Message
  BY <1>1, TurnsAreMessages
<1> QED  BY <1>2 DEF WithAnswers

(* Counting in the invocation's record.                                    *)
LEMMA InvocationCounts ==
  ASSUME WellTyped
  PROVE  /\ [inv EXCEPT !.capped = TRUE] \in Invocation
         /\ [inv EXCEPT !.retries = @ + 1] \in Invocation
         /\ [inv EXCEPT !.ran = @ + 1] \in Invocation
         /\ [inv EXCEPT !.refused = IF inv.capped THEN @ + 1 ELSE @] \in Invocation
         /\ \A why \in {"timeout", "interrupted"} :
               [inv EXCEPT !.stopped = why] \in Invocation
<1>1. inv \in Invocation
  BY DEF WellTyped, TypeOK
<1>2. inv.retries + 1 \in Nat /\ inv.ran + 1 \in Nat
      /\ (IF inv.capped THEN inv.refused + 1 ELSE inv.refused) \in Nat
  BY <1>1 DEF Invocation
<1>3. [inv EXCEPT !.capped = TRUE] \in Invocation
  BY <1>1 DEF Invocation
<1>4. \A n \in Nat : /\ [inv EXCEPT !.retries = n] \in Invocation
                     /\ [inv EXCEPT !.ran = n] \in Invocation
                     /\ [inv EXCEPT !.refused = n] \in Invocation
  BY <1>1 DEF Invocation
<1>5. \A why \in {"timeout", "interrupted"} : [inv EXCEPT !.stopped = why] \in Invocation
  BY <1>1 DEF Invocation
<1> QED  BY <1>2, <1>3, <1>4, <1>5

(* A request that does not come back with a reply, and the ends of a run.  *)
LEMMA HostType ==
  ASSUME WellTyped, NEW ok \in BOOLEAN,
         \/ Connect(ok) \/ Close(ok) \/ Unwind(ok)
         \/ DiscoveryFails
         \/ RequestRetried
         \/ RequestFails
         \/ StepEnds
  PROVE  WellTyped'
<1>1. \/ phase' = phase
      \/ phase' \in {"discover", "rest", "head", "close"}
  BY DEF Connect, Close, Unwind, DiscoveryFails, RequestRetried, RequestFails, StepEnds,
         AfterLoop
<1>2. status' \in Statuses /\ stop' \in StopReasons
  <2>1. CASE Connect(ok) \/ Close(ok) \/ DiscoveryFails \/ RequestRetried
    <3>1. \/ UNCHANGED <<status, stop>>
          \/ status' = "error" /\ stop' \in {None, "mcp"}
      BY <2>1 DEF Connect, Close, DiscoveryFails, RequestRetried, LeaveWith, Ends
    <3> QED  BY <3>1 DEF Statuses, StopReasons, WellTyped, TypeOK
  <2>2. CASE Unwind(ok)
    <3>1. inv.stopped \in {None, "timeout", "interrupted"}
      BY DEF WellTyped, TypeOK, Invocation
    <3> QED  BY <2>2, <3>1 DEF Unwind, LeaveWith, Ends, Statuses, StopReasons
  <2>3. CASE RequestFails
    <3>1. "error" \in Statuses /\ None \in StopReasons
      BY DEF Statuses, StopReasons
    <3> QED  BY <2>3, <3>1, OutcomeType DEF RequestFails, LeaveWith
  <2>4. CASE StepEnds
    BY <2>4, OutcomeType DEF StepEnds, LeaveWith, WellTyped, TypeOK
  <2> QED  BY <2>1, <2>2, <2>3, <2>4
<1>3. inv' \in Invocation
  <2>1. inv' = inv \/ inv' = [inv EXCEPT !.retries = @ + 1]
    BY DEF Connect, Close, Unwind, DiscoveryFails, RequestRetried, RequestFails, StepEnds
  <2> QED  BY <2>1, InvocationCounts DEF WellTyped, TypeOK
<1>4. UNCHANGED <<messages, results, usage, budget, turns, output, stated, nudged, corr,
                  runs>>
  BY DEF Connect, Close, Unwind, DiscoveryFails, RequestRetried, RequestFails, StepEnds
<1> QED  BY <1>1, <1>2, <1>3, <1>4 DEF WellTyped, TypeOK, Phases

(* The dispatch of a reply's calls.                                        *)
LEMMA DispatchType ==
  ASSUME WellTyped, NEW a \in Answers,
         \/ AskRefused \/ CallCapped \/ CallStarts
         \/ CallReturns(a)
         \/ CallsDone
  PROVE  WellTyped'
<1>1. phase' = phase \/ phase' \in {"running", "call", "post"}
  BY DEF AskRefused, CallCapped, CallStarts, CallReturns, CallsDone
<1>2. status' \in Statuses
  BY DEF AskRefused, CallCapped, CallStarts, CallReturns, CallsDone, WellTyped, TypeOK,
         Statuses
<1>3. results' \in Seq(Answers)
  <2>1. results' \in {results, Append(results, "not_run"), Append(results, a)}
    BY DEF AskRefused, CallCapped, CallStarts, CallReturns, CallsDone, Answer
  <2>2. results \in Seq(Answers) /\ "not_run" \in Answers
    BY DEF WellTyped, TypeOK, Answers
  <2> QED  BY <2>1, <2>2
<1>4. messages' \in Seq(Message) /\ messages' # << >>
  <2>1. messages' = messages \/ messages' = WithAnswers(messages, results)
    BY DEF AskRefused, CallCapped, CallStarts, CallReturns, CallsDone
  <2> QED  BY <2>1, WithAnswersType DEF WellTyped, TypeOK
<1>5. inv' \in Invocation
  <2>1. inv' \in {inv, [inv EXCEPT !.capped = TRUE], [inv EXCEPT !.ran = @ + 1],
                  [inv EXCEPT !.refused = IF inv.capped THEN @ + 1 ELSE @]}
    BY DEF AskRefused, CallCapped, CallStarts, CallReturns, CallsDone
  <2> QED  BY <2>1, InvocationCounts DEF WellTyped, TypeOK
<1>6. UNCHANGED <<stop, usage, budget, turns, output, stated, nudged, corr, runs>>
  BY DEF AskRefused, CallCapped, CallStarts, CallReturns, CallsDone
<1> QED  BY <1>1, <1>2, <1>3, <1>4, <1>5, <1>6 DEF WellTyped, TypeOK, Phases
(* A stop, at whichever await it finds the run.                            *)
LEMMA StopType ==
  ASSUME WellTyped, NEW reason \in {"timeout", "interrupted"}, Stop(reason)
  PROVE  WellTyped'
<1>1. messages' \in Seq(Message) /\ messages' # << >>
  <2>1. Calls \in Seq(CallNames)
    BY CallsType DEF WellTyped, TypeOK, Calls
  <2>2. AnswerRest(Calls, results) \in Seq(Answers)
    BY <2>1, DispatchAnswers DEF WellTyped, TypeOK
  <2>3. /\ WithAnswers(messages, AnswerRest(Calls, results)) \in Seq(Message)
        /\ WithAnswers(messages, AnswerRest(Calls, results)) # << >>
    BY <2>2, WithAnswersType DEF WellTyped, TypeOK
  <2> QED  BY <2>3 DEF Stop, Interrupted, WellTyped, TypeOK
<1>2. phase' \in Phases
  BY DEF Stop, Phases
<1>3. status' \in Statuses /\ stop' \in StopReasons
  <2>1. CASE UsesMcp
    BY <2>1, OutcomeType DEF Stop, LeaveWith, WellTyped, TypeOK
  <2>2. CASE ~ UsesMcp
    BY <2>2 DEF Stop, LeaveWith, Ends, Statuses, StopReasons
  <2> QED  BY <2>1, <2>2
<1>4. inv' \in Invocation
  BY InvocationCounts DEF Stop
<1>5. UNCHANGED <<results, usage, budget, turns, output, stated, nudged, corr, runs>>
  BY DEF Stop
<1> QED  BY <1>1, <1>2, <1>3, <1>4, <1>5 DEF WellTyped, TypeOK

(* Reopening a finished session.                                           *)
LEMMA ReopenType ==
  ASSUME WellTyped, NEW text \in BOOLEAN, Reopen(text)
  PROVE  WellTyped'
<1> DEFINE open == Unanswered(messages)
           m == AnswerUnanswered(messages)
<1>e. << >> \in Seq(CallNames)
  OBVIOUS
<1>1. m \in Seq(Message) /\ m # << >>
  <2>1. open \in Seq(CallNames)
    BY <1>e, CallsType DEF Unanswered, WellTyped, TypeOK
  <2>2. AllAnswered(open, "error") \in Seq(Answers)
    <3> HIDE DEF open
    <3> QED  BY <2>1 DEF AllAnswered, Answers
  <2>3. UserTurn(AllAnswered(open, "error")) \in Message
    BY <2>2, TurnsAreMessages
  <2> QED  BY <2>3 DEF AnswerUnanswered, WellTyped, TypeOK
<1>2. messages' \in Seq(Message) /\ messages' # << >>
  <2> HIDE DEF m
  <2>1. AppendUserText(m) \in Seq(Message) /\ AppendUserText(m) # << >>
    BY <1>1, AppendUserTextType
  <2>2. messages' \in {m, AppendUserText(m)}
    BY DEF Reopen, Reopened, m
  <2> QED  BY <1>1, <2>1, <2>2
<1>3. status' \in Statuses /\ stop' \in StopReasons
  BY DEF Reopen, LeaveWith, Ends, Statuses, StopReasons
<1>4. corr' \in Correction
  BY DEF Reopen, NoCorrections, Correction
<1>5. UNCHANGED <<phase, results, usage, budget, turns, output, stated, nudged, inv, runs>>
  BY DEF Reopen
<1> QED  BY <1>2, <1>3, <1>4, <1>5 DEF WellTyped, TypeOK

(* The types hold at first.                                                *)
LEMMA TypeInit == Init => WellTyped
<1> SUFFICES ASSUME Init
             PROVE  WellTyped
  OBVIOUS
<1>1. messages \in Seq(Message) /\ messages # << >>
  <2>1. << >> \in Seq(Answers) /\ << >> \in Seq(CallNames)
    OBVIOUS
  <2>2. UserTurn(<< >>) \in Message /\ AssistantTurn(<< >>) \in Message
    BY <2>1, TurnsAreMessages
  <2>3. CASE NewSession
    BY <2>2, <2>3 DEF NewSession
  <2>4. CASE OldSession
    BY <2>2, <2>4 DEF OldSession
  <2> QED  BY <2>3, <2>4 DEF Init
<1>2. inv \in Invocation
  <2>1. Len(messages) \in Nat
    BY <1>1
  <2> QED  BY <2>1 DEF Init, NewSession, OldSession, NewInvocation, Invocation
<1>3. corr \in Correction
  BY DEF Init, NoCorrections, Correction
<1>4. results \in Seq(Answers)
  BY DEF Init
<1>5. phase \in Phases /\ status \in Statuses /\ stop \in StopReasons
  BY DEF Init, Phases, Statuses, StopReasons
<1>6. /\ usage \in [tokens : Nat, cost : Nat \cup {None}]
      /\ budget \in [tokens : Nat \cup {None}, usd : Nat \cup {None}]
  BY DEF Init, NewSession, OldSession
<1>7. /\ turns \in Nat /\ runs \in Nat /\ nudged \in BOOLEAN
      /\ {output, stated} \subseteq Schemas \cup {None, Unrecorded}
  <2>1. CASE NewSession
    BY <2>1 DEF Init, NewSession
  <2>2. CASE OldSession
    BY <2>2 DEF Init, OldSession
  <2> QED  BY <2>1, <2>2 DEF Init
<1> QED  BY <1>1, <1>2, <1>3, <1>4, <1>5, <1>6, <1>7 DEF WellTyped, TypeOK

(* Every step keeps them.                                                  *)
LEMMA TypeStep == WellTyped /\ [Next]_vars => WellTyped'
<1> SUFFICES ASSUME WellTyped, [Next]_vars
             PROVE  WellTyped'
  OBVIOUS
<1>1. CASE UNCHANGED vars
  BY <1>1 DEF vars, WellTyped, TypeOK
<1>2. CASE Host
  BY <1>2, StartType, ReopenType, StopType DEF Host
<1>3. CASE ReplyComes
  <2> PICK r \in Replies, cost \in Costs :
        \/ ReplyCutOff(r, cost)
        \/ ReplyWithoutAnswer(r, cost)
        \/ ReplyInText(r, cost)
        \/ ReplySummarises(r, cost)
        \/ \E found \in 0 .. MaxErrors : ReplyAnswers(r, cost, found)
        \/ CheckRaises(r, cost)
        \/ ReplyCallsRefused(r, cost)
        \/ ReplyCalls(r, cost)
    BY <1>3 DEF ReplyComes
  <2>1. CASE ReplyCallsRefused(r, cost) \/ ReplyCalls(r, cost)
    BY <2>1, CallingReplyType
  <2>2. CASE \E found \in 0 .. MaxErrors : ReplyAnswers(r, cost, found)
    BY <2>2, FinalReplyType
  <2>3. CASE \/ ReplyCutOff(r, cost) \/ ReplyWithoutAnswer(r, cost)
             \/ ReplyInText(r, cost) \/ ReplySummarises(r, cost)
             \/ CheckRaises(r, cost)
    <3>1. 0 \in 0 .. MaxErrors
      OBVIOUS
    <3> QED  BY <2>3, <3>1, FinalReplyType
  <2> QED  BY <2>1, <2>2, <2>3
<1>4. CASE \E typed, full \in BOOLEAN : AtHead(typed, full)
  BY <1>4, HeadType DEF AtHead
<1>5. CASE \E valid \in BOOLEAN : Discover(valid)
  BY <1>5, DiscoverType
<1>6. CASE \/ \E ok \in BOOLEAN : Connect(ok) \/ Close(ok) \/ Unwind(ok)
           \/ DiscoveryFails \/ RequestRetried \/ RequestFails \/ StepEnds
  BY <1>6, HostType
<1>7. CASE \/ AskRefused \/ CallCapped \/ CallStarts
           \/ \E a \in Answers : CallReturns(a)
           \/ CallsDone
  <2>1. "ok" \in Answers
    BY DEF Answers
  <2> QED  BY <1>7, <2>1, DispatchType
<1> QED  BY <1>1, <1>2, <1>3, <1>4, <1>5, <1>6, <1>7 DEF Next, Loop

(* The session's and the invocation's state keep their types, and the      *)
(* transcript is never empty.                                              *)
THEOREM TypesHold == Spec => []WellTyped
BY TypeInit, TypeStep, PTL DEF Spec

(* Whatever the model replies and whenever a run is stopped, the session's *)
(* fields hold what the code that reads them expects.                      *)
THEOREM TypeCorrect == Spec => []TypeOK
<1>1. WellTyped => TypeOK
  BY DEF WellTyped
<1> QED  BY <1>1, TypesHold, PTL

-----------------------------------------------------------------------------
(***************************************************************************)
(* The correction budget.                                                  *)
(***************************************************************************)

(* A granted correction stays within the budget: a charged one was granted *)
(* under the limit, a free one takes an error off the fewest seen.         *)
LEMMA ChargeKeepsBudget ==
  ASSUME NEW c \in Correction, NEW n \in 1 .. MaxErrors, NEW limit \in Nat,
         NEW comparable \in BOOLEAN, NEW kind,
         WithinBudget(c, limit), Granted(c, n, limit, comparable)
  PROVE  WithinBudget(Charge(c, n, limit, comparable, kind), limit)
<1> DEFINE d == Charge(c, n, limit, comparable, kind)
<1>1. /\ c.charged \in Nat /\ c.free \in Nat
      /\ c.fewest \in (1 .. MaxErrors) \cup {None}
  BY DEF Correction
<1>2. /\ d.charged = IF IsFree(c, n, limit, comparable) THEN c.charged ELSE c.charged + 1
      /\ d.free = IF IsFree(c, n, limit, comparable) THEN c.free + 1 ELSE c.free
      /\ d.fewest = FewestOf(c, n, comparable)
  BY DEF Charge
<1>3. d.charged <= limit
  <2> HIDE DEF d
  <2> QED  BY <1>1, <1>2 DEF Granted, WithinBudget
<1>4. CASE c.fewest = None
  <2>1. c.free = 0 /\ ~ IsFree(c, n, limit, comparable)
    BY <1>4 DEF WithinBudget, IsFree
  <2>2. d.free = 0 /\ d.fewest \in {n, None}
    BY <1>2, <1>4, <2>1 DEF FewestOf
  <2> HIDE DEF d
  <2>3. d.fewest # None => d.free + d.fewest <= MaxErrors
    BY <2>2
  <2>4. WithinBudget(d, limit)
    BY <1>3, <2>2, <2>3 DEF WithinBudget
  <2> QED  BY <2>4 DEF d
<1>5. CASE c.fewest # None
  <2>1. c.fewest \in 1 .. MaxErrors /\ c.free + c.fewest <= MaxErrors
    BY <1>1, <1>5 DEF WithinBudget
  <2>2. d.fewest \in 1 .. MaxErrors /\ d.fewest <= c.fewest
    BY <1>2, <1>5, <2>1 DEF FewestOf
  <2>3. IsFree(c, n, limit, comparable) => d.fewest < c.fewest
    BY <1>2, <1>5, <2>1 DEF FewestOf, IsFree
  <2> HIDE DEF d
  <2>4. d.free + d.fewest <= MaxErrors
    BY <1>1, <1>2, <2>1, <2>2, <2>3
  <2>5. WithinBudget(d, limit)
    BY <1>3, <2>2, <2>4 DEF WithinBudget
  <2> QED  BY <2>5 DEF d
<1> QED  BY <1>4, <1>5

(* A hold draws on the same budget.                                        *)
LEMMA HoldKeepsBudget ==
  ASSUME WellTyped, CorrectionsBounded, NEW r, Hold(r)
  PROVE  CorrectionsBounded'
<1> DEFINE u == Untied(corr)
<1>1. u \in Correction /\ WithinBudget(u, MaxCorrections)
  BY DEF WellTyped, TypeOK, Untied, Correction, CorrectionsBounded, WithinBudget
<1>2. CASE Granted(u, 1, MaxCorrections, FALSE)
  <2>1. corr' = Charge(u, 1, MaxCorrections, FALSE, "reads")
    BY <1>2 DEF Hold, Decide
  <2>2. 1 \in 1 .. MaxErrors /\ MaxCorrections \in Nat /\ FALSE \in BOOLEAN
    OBVIOUS
  <2>3. WithinBudget(Charge(u, 1, MaxCorrections, FALSE, "reads"), MaxCorrections)
    BY <1>1, <1>2, <2>2, ChargeKeepsBudget
  <2> QED  BY <2>1, <2>3 DEF CorrectionsBounded
<1>3. CASE ~ Granted(u, 1, MaxCorrections, FALSE)
  <2>1. corr' = u
    BY <1>3 DEF Hold, Decide
  <2> QED  BY <1>1, <2>1 DEF CorrectionsBounded
<1> QED  BY <1>2, <1>3

(* Every other step keeps the correction state, or clears it.              *)
LEMMA BudgetStep ==
  WellTyped /\ CorrectionsBounded /\ [Next]_vars => CorrectionsBounded'
<1> SUFFICES ASSUME WellTyped, CorrectionsBounded, [Next]_vars
             PROVE  CorrectionsBounded'
  OBVIOUS
<1>same. ASSUME corr' = corr
         PROVE  CorrectionsBounded'
  BY <1>same DEF CorrectionsBounded
<1>1. CASE UNCHANGED vars
  BY <1>1, <1>same DEF vars
<1>2. CASE Host
  <2>1. CASE \E text \in BOOLEAN : Reopen(text)
    <3>1. corr' = NoCorrections
      BY <2>1 DEF Reopen
    <3> QED  BY <3>1 DEF CorrectionsBounded, WithinBudget, NoCorrections
  <2>2. CASE ~ \E text \in BOOLEAN : Reopen(text)
    <3>1. corr' = corr
      BY <1>2, <2>2 DEF Host, Start, Stop
    <3> QED  BY <3>1, <1>same
  <2> QED  BY <2>1, <2>2
<1>3. CASE ReplyComes
  <2> PICK r \in Replies, cost \in Costs :
        \/ ReplyCutOff(r, cost)
        \/ ReplyWithoutAnswer(r, cost)
        \/ ReplyInText(r, cost)
        \/ ReplySummarises(r, cost)
        \/ \E found \in 0 .. MaxErrors : ReplyAnswers(r, cost, found)
        \/ CheckRaises(r, cost)
        \/ ReplyCallsRefused(r, cost)
        \/ ReplyCalls(r, cost)
    BY <1>3 DEF ReplyComes
  <2>1. CASE \/ ReplyCutOff(r, cost) \/ ReplyWithoutAnswer(r, cost)
             \/ ReplySummarises(r, cost) \/ CheckRaises(r, cost)
             \/ ReplyCallsRefused(r, cost) \/ ReplyCalls(r, cost)
    <3>1. corr' = corr
      BY <2>1 DEF ReplyCutOff, ReplyWithoutAnswer, ReplySummarises, CheckRaises,
                  ReplyCallsRefused, ReplyCalls, Decide
    <3> QED  BY <3>1, <1>same
  <2>2. CASE ReplyInText(r, cost)
    <3>1. Hold(r) \/ corr' = corr
      BY <2>2 DEF ReplyInText, Decide
    <3> QED  BY <3>1, <1>same, HoldKeepsBudget
  <2>3. CASE \E found \in 0 .. MaxErrors : ReplyAnswers(r, cost, found)
    <3> PICK found \in 0 .. MaxErrors : ReplyAnswers(r, cost, found)
      BY <2>3
    <3> DEFINE n == ErrorsOf(r, found)
               comparable == r.text = "doc"
    <3>1. \/ Hold(r)
          \/ corr' = corr
          \/ /\ n # 0 /\ Granted(corr, n, MaxCorrections, comparable)
             /\ corr' = Charge(corr, n, MaxCorrections, comparable, "schema")
      BY DEF ReplyAnswers, Decide
    <3>2. CASE n # 0 /\ Granted(corr, n, MaxCorrections, comparable)
               /\ corr' = Charge(corr, n, MaxCorrections, comparable, "schema")
      <4>1. r.errs \in 0 .. MaxErrors
        BY ReplyType
      <4>2. n \in 0 .. MaxErrors
        BY <4>1 DEF ErrorsOf, AnswerErrors
      <4>3. n \in 1 .. MaxErrors /\ MaxCorrections \in Nat /\ comparable \in BOOLEAN
        BY <3>2, <4>2
      <4>4. corr \in Correction /\ WithinBudget(corr, MaxCorrections)
        BY DEF WellTyped, TypeOK, CorrectionsBounded
      <4>5. WithinBudget(Charge(corr, n, MaxCorrections, comparable, "schema"),
                         MaxCorrections)
        BY <3>2, <4>3, <4>4, ChargeKeepsBudget
      <4> QED  BY <3>2, <4>5 DEF CorrectionsBounded
    <3> QED  BY <3>1, <3>2, <1>same, HoldKeepsBudget
  <2> QED  BY <2>1, <2>2, <2>3
<1>4. CASE Loop /\ ~ ReplyComes
  <2>1. corr' = corr
    BY <1>4 DEF Loop, Connect, Close, Unwind, Discover, DiscoveryFails, AtHead, HeadStops,
                HeadSteps,
                RequestRetried, RequestFails, AskRefused, CallCapped, CallStarts,
                CallReturns, CallsDone, StepEnds
  <2> QED  BY <2>1, <1>same
<1> QED  BY <1>1, <1>2, <1>3, <1>4 DEF Next

(* Corrections, charged and free, are bounded whatever the model replies:  *)
(* charge's free corrections cannot go on for ever.                        *)
THEOREM CorrectionsAreBounded == Spec => []CorrectionsBounded
<1>1. Init => CorrectionsBounded
  BY DEF Init, CorrectionsBounded, WithinBudget, NoCorrections
<1> QED  BY <1>1, BudgetStep, TypesHold, PTL DEF Spec
-----------------------------------------------------------------------------
(***************************************************************************)
(* The transcript.                                                         *)
(***************************************************************************)

(* Between dispatches the transcript is one a vendor accepts; during one,  *)
(* it waits for the answers of its last reply.                             *)
LEMMA TranscriptShape ==
  ASSUME WellTyped, TranscriptInv
  PROVE  /\ ~ Dispatching => WellFormed(messages)
         /\ Dispatching => AwaitsAnswers(messages)
BY DEF WellTyped, TypeOK, TranscriptInv, WellFormed, AwaitsAnswers, EndsWith

(* A step that leaves a well-formed transcript and no dispatch.            *)
LEMMA SettledKeeps ==
  ASSUME WellFormed(messages'), (~ Dispatching)'
  PROVE  TranscriptInv'
BY DEF WellFormed, TranscriptInv, Dispatching

(* A step that leaves open calls, no more of them answered than made.      *)
LEMMA AwaitingKeeps ==
  ASSUME AwaitsAnswers(messages'), Dispatching', (Calls # << >>)',
         (Len(results) <= Len(Calls))',
         (phase = "running" => Len(results) < Len(Calls))'
  PROVE  TranscriptInv'
BY DEF AwaitsAnswers, TranscriptInv, EndsWith

(* What a reply leaves is well formed, or waits for its answers.           *)
LEMMA KeptShape ==
  ASSUME WellTyped, TranscriptInv, NEW r \in Replies, NEW cost \in Costs,
         Received(r, cost)
  PROVE  /\ Final(r) => WellFormed(Kept(r))
         /\ ~ Final(r) => /\ AwaitsAnswers(Kept(r))
                          /\ Kept(r)[Len(Kept(r))].calls = r.calls
<1>1. WellFormed(messages)
  BY TranscriptShape DEF Received, Dispatching
<1>2. r.calls \in Seq(CallNames)
  BY ReplyType
<1>3. ASSUME Final(r) PROVE WellFormed(Kept(r))
  BY <1>1, <1>3, FinalReplyKeeps DEF Kept, Final
<1>4. ASSUME ~ Final(r)
      PROVE  /\ AwaitsAnswers(Kept(r))
             /\ Kept(r)[Len(Kept(r))].calls = r.calls
  <2>1. r.calls # << >> /\ Kept(r) = Append(messages, AssistantTurn(r.calls))
    BY <1>4 DEF Final, Kept, Empty
  <2> QED  BY <1>1, <1>2, <2>1, CallingReplyOpens
<1> QED  BY <1>3, <1>4

(* The dispatch's answers, one a call, settle the transcript.              *)
LEMMA WithAnswersSettles ==
  ASSUME NEW m, AwaitsAnswers(m), NEW a \in Seq(Answers), Len(a) = Len(m[Len(m)].calls)
  PROVE  WellFormed(WithAnswers(m, a))
<1>1. m[Len(m)].calls \in Seq(CallNames)
  BY CallsType DEF AwaitsAnswers
<1>2. /\ Delivered(m[Len(m)].calls, a) \in Seq(Answers)
      /\ Len(Delivered(m[Len(m)].calls, a)) = Len(m[Len(m)].calls)
  BY <1>1, DispatchAnswers
<1> QED  BY <1>2, AnswersSettle DEF WithAnswers

(* A reply without calls, whatever the loop decides about it.              *)
LEMMA FinalReplyShape ==
  ASSUME WellTyped, TranscriptInv, NEW r \in Replies, NEW cost \in Costs,
         \/ ReplyCutOff(r, cost)
         \/ ReplyWithoutAnswer(r, cost)
         \/ ReplyInText(r, cost)
         \/ ReplySummarises(r, cost)
         \/ \E found \in 0 .. MaxErrors : ReplyAnswers(r, cost, found)
         \/ CheckRaises(r, cost)
  PROVE  TranscriptInv'
<1>1. Received(r, cost) /\ Final(r)
  BY DEF ReplyCutOff, ReplyWithoutAnswer, ReplyInText, ReplySummarises, ReplyAnswers,
         CheckRaises
<1>2. WellFormed(Kept(r))
  BY <1>1, KeptShape
<1>3. \/ messages' = Kept(r)
      \/ messages' = AppendUserText(Kept(r))
  BY DEF ReplyCutOff, ReplyWithoutAnswer, ReplyInText, ReplySummarises, ReplyAnswers,
         CheckRaises, Hold, Decide
<1>4. WellFormed(messages')
  BY <1>2, <1>3, AppendUserTextKeeps
<1>5. phase' = "post"
  BY DEF ReplyCutOff, ReplyWithoutAnswer, ReplyInText, ReplySummarises, ReplyAnswers,
         CheckRaises, Hold, Decide
<1> QED  BY <1>4, <1>5, SettledKeeps DEF Dispatching

(* A reply with calls: open ones to dispatch, or ones answered as not run. *)
LEMMA CallingReplyShape ==
  ASSUME WellTyped, TranscriptInv, NEW r \in Replies, NEW cost \in Costs,
         ReplyCallsRefused(r, cost) \/ ReplyCalls(r, cost)
  PROVE  TranscriptInv'
<1>1. Received(r, cost) /\ ~ Final(r) /\ r.calls \in Seq(CallNames)
  BY ReplyType DEF ReplyCallsRefused, ReplyCalls
<1>2. AwaitsAnswers(Kept(r)) /\ Kept(r)[Len(Kept(r))].calls = r.calls
  BY <1>1, KeptShape
<1>3. CASE ReplyCalls(r, cost)
  <2>1. /\ phase' = "call" /\ messages' = Kept(r) /\ results' = << >>
    BY <1>3 DEF ReplyCalls
  <2>2. Calls' = r.calls
    BY <1>2, <2>1 DEF Calls
  <2>3. Calls' # << >> /\ Len(results') <= Len(Calls')
    BY <1>1, <2>1, <2>2 DEF Final
  <2> QED  BY <1>2, <2>1, <2>3, AwaitingKeeps DEF Dispatching
<1>4. CASE ReplyCallsRefused(r, cost)
  <2> DEFINE a == AllAnswered(r.calls, "not_run")
             m == Append(Kept(r), UserTurn(a))
  <2>1. a \in Seq(Answers) /\ Len(a) = Len(r.calls)
    BY <1>1 DEF AllAnswered, Answers
  <2>2. WellFormed(m)
    <3> HIDE DEF a
    <3> QED  BY <1>2, <2>1, AnswersSettle
  <2>3. messages' \in {m, AppendUserText(m)} /\ phase' = "post"
    BY <1>4 DEF ReplyCallsRefused, Decide
  <2>4. WellFormed(messages')
    <3> HIDE DEF m
    <3> QED  BY <2>2, <2>3, AppendUserTextKeeps
  <2> QED  BY <2>3, <2>4, SettledKeeps DEF Dispatching
<1> QED  BY <1>3, <1>4

(* The steps of a dispatch answer one call each, and its end all of them.  *)
LEMMA DispatchShape ==
  ASSUME WellTyped, TranscriptInv, NEW a \in Answers,
         \/ AskRefused \/ CallCapped \/ CallStarts
         \/ CallReturns(a)
         \/ CallsDone
  PROVE  TranscriptInv'
<1>1. AwaitsAnswers(messages) /\ Calls # << >> /\ Len(results) <= Len(Calls)
      /\ (phase = "running" => Len(results) < Len(Calls))
  BY TranscriptShape DEF TranscriptInv, Dispatching, AskRefused, CallCapped, CallStarts,
                         CallReturns, CallsDone
<1>2. results \in Seq(Answers) /\ Calls \in Seq(CallNames)
  BY CallsType DEF WellTyped, TypeOK, Calls
<1>3. CASE AskRefused \/ CallCapped \/ CallReturns(a)
  <2>1. /\ phase' = "call" /\ messages' = messages
        /\ \E b \in Answers : results' = Append(results, b)
        /\ Len(results) < Len(Calls)
    <3>1. "not_run" \in Answers
      BY DEF Answers
    <3> QED  BY <1>1, <1>3, <3>1 DEF AskRefused, CallCapped, CallReturns, Answer
  <2>2. Len(results') = Len(results) + 1
    BY <1>2, <2>1
  <2>3. Calls' = Calls
    BY <2>1 DEF Calls
  <2>4. Len(results') <= Len(Calls')
    BY <1>2, <2>1, <2>2, <2>3
  <2>5. AwaitsAnswers(messages') /\ Calls' # << >> /\ phase' = "call"
    BY <1>1, <2>1, <2>3
  <2> QED  BY <2>4, <2>5, AwaitingKeeps DEF Dispatching
<1>4. CASE CallStarts
  <2>1. phase' = "running" /\ UNCHANGED <<messages, results>> /\ Len(results) < Len(Calls)
    BY <1>4 DEF CallStarts
  <2>2. Calls' = Calls
    BY <2>1 DEF Calls
  <2>3. AwaitsAnswers(messages') /\ Calls' # << >>
        /\ Len(results') < Len(Calls') /\ Len(results') <= Len(Calls')
    BY <1>1, <2>1, <2>2
  <2> QED  BY <2>1, <2>3, AwaitingKeeps DEF Dispatching
<1>5. CASE CallsDone
  <2>1. Len(results) = Len(messages[Len(messages)].calls)
        /\ messages' = WithAnswers(messages, results) /\ phase' = "post"
    BY <1>5 DEF CallsDone, Calls
  <2>2. WellFormed(messages')
    BY <1>1, <1>2, <2>1, WithAnswersSettles
  <2> QED  BY <2>1, <2>2, SettledKeeps DEF Dispatching
<1> QED  BY <1>3, <1>4, <1>5

(* The finally of the dispatch: a stop answers what is still open.         *)
LEMMA StopShape ==
  ASSUME WellTyped, TranscriptInv, NEW reason, Stop(reason)
  PROVE  TranscriptInv'
<1>1. phase' \in {"unwind", "rest"} /\ messages' = Interrupted
  BY DEF Stop
<1>2. CASE phase = "running"
  <2>1. AwaitsAnswers(messages) /\ results \in Seq(Answers) /\ Calls \in Seq(CallNames)
    BY <1>2, TranscriptShape, CallsType DEF WellTyped, TypeOK, Dispatching, Calls
  <2>2. AnswerRest(Calls, results) \in Seq(Answers)
        /\ Len(AnswerRest(Calls, results)) = Len(messages[Len(messages)].calls)
    BY <2>1, DispatchAnswers DEF Calls
  <2>3. WellFormed(messages')
    BY <1>1, <1>2, <2>1, <2>2, WithAnswersSettles DEF Interrupted
  <2> QED  BY <1>1, <2>3, SettledKeeps DEF Dispatching
<1>3. CASE phase # "running"
  <2>1. ~ Dispatching
    BY <1>3 DEF Stop, Awaiting, Dispatching
  <2>2. WellFormed(messages')
    BY <1>1, <1>3, <2>1, TranscriptShape DEF Interrupted
  <2> QED  BY <1>1, <2>2, SettledKeeps DEF Dispatching
<1> QED  BY <1>2, <1>3
(* Texts added where no reply is being dispatched.                         *)
LEMMA TextShape ==
  ASSUME WellTyped, TranscriptInv,
         NEW typed \in BOOLEAN, NEW full \in BOOLEAN, NEW valid \in BOOLEAN,
         NEW text \in BOOLEAN,
         \/ HeadStops(typed) \/ HeadSteps(typed, full)
         \/ Discover(valid)
         \/ Reopen(text)
  PROVE  TranscriptInv'
<1>1. WellFormed(messages)
  BY TranscriptShape DEF HeadStops, HeadSteps, Discover, Reopen, Dispatching
<1>2. (~ Dispatching)'
  BY DEF HeadStops, HeadSteps, Discover, Reopen, AfterLoop, Dispatching
<1>3. WellFormed(AppendUserText(messages))
  BY <1>1, AppendUserTextKeeps
<1>4. CASE HeadStops(typed) \/ HeadSteps(typed, full)
  <2>1. WellFormed(Typed(typed))
    BY <1>1, <1>3 DEF Typed
  <2>2. WellFormed(AppendUserText(Typed(typed)))
    BY <2>1, AppendUserTextKeeps
  <2>3. messages' \in {Typed(typed), AppendUserText(Typed(typed))}
    BY <1>4 DEF HeadStops, HeadSteps, Told
  <2> QED  BY <1>2, <2>1, <2>2, <2>3, SettledKeeps
<1>5. CASE Discover(valid)
  <2>1. messages' \in {messages, AppendUserText(messages)}
    BY <1>5 DEF Discover, StateSchema
  <2> QED  BY <1>1, <1>2, <1>3, <2>1, SettledKeeps
<1>6. CASE Reopen(text)
  <2>1. messages' \in {messages, AppendUserText(messages)}
    BY <1>1, <1>6, NothingUnanswered DEF Reopen, Reopened
  <2> QED  BY <1>1, <1>2, <1>3, <2>1, SettledKeeps
<1> QED  BY <1>4, <1>5, <1>6

(* Every other step leaves the transcript, and the dispatch, alone.        *)
LEMMA TranscriptStep == WellTyped /\ TranscriptInv /\ [Next]_vars => TranscriptInv'
<1> SUFFICES ASSUME WellTyped, TranscriptInv, [Next]_vars
             PROVE  TranscriptInv'
  OBVIOUS
<1>1. CASE UNCHANGED vars
  BY <1>1 DEF vars, TranscriptInv, Dispatching, Calls
<1>2. CASE ReplyComes
  <2> PICK r \in Replies, cost \in Costs :
        \/ ReplyCutOff(r, cost)
        \/ ReplyWithoutAnswer(r, cost)
        \/ ReplyInText(r, cost)
        \/ ReplySummarises(r, cost)
        \/ \E found \in 0 .. MaxErrors : ReplyAnswers(r, cost, found)
        \/ CheckRaises(r, cost)
        \/ ReplyCallsRefused(r, cost)
        \/ ReplyCalls(r, cost)
    BY <1>2 DEF ReplyComes
  <2> QED  BY FinalReplyShape, CallingReplyShape
<1>3. CASE \/ AskRefused \/ CallCapped \/ CallStarts
           \/ \E a \in Answers : CallReturns(a)
           \/ CallsDone
  <2>1. "ok" \in Answers
    BY DEF Answers
  <2> QED  BY <1>3, <2>1, DispatchShape
<1>4. CASE \/ \E typed, full \in BOOLEAN : AtHead(typed, full)
           \/ \E valid \in BOOLEAN : Discover(valid)
           \/ \E text \in BOOLEAN : Reopen(text)
  <2>1. TRUE \in BOOLEAN
    OBVIOUS
  <2> QED  BY <1>4, <2>1, TextShape DEF AtHead
<1>5. CASE \E reason \in {"timeout", "interrupted"} : Stop(reason)
  BY <1>5, StopShape
<1>6. CASE \/ \E ok \in BOOLEAN : Connect(ok) \/ Close(ok) \/ Unwind(ok)
           \/ DiscoveryFails \/ RequestRetried \/ RequestFails \/ StepEnds
           \/ \E schema \in RunSchemas, tokens \in TokenLimits, usd \in UsdLimits :
                Start(schema, tokens, usd)
  <2>1. (~ Dispatching)' /\ ~ Dispatching /\ messages' = messages
    BY <1>6 DEF Connect, Close, Unwind, DiscoveryFails, RequestRetried, RequestFails,
                StepEnds, Start, Dispatching, AfterLoop
  <2> QED  BY <2>1, TranscriptShape, SettledKeeps
<1> QED  BY <1>1, <1>2, <1>3, <1>4, <1>5, <1>6 DEF Next, Loop, Host

(* The transcript a session starts with.                                   *)
LEMMA TranscriptInit == Init => TranscriptInv
<1> SUFFICES ASSUME Init
             PROVE  TranscriptInv
  OBVIOUS
<1>1. /\ phase = "rest" /\ messages # << >>
      /\ messages[1].calls = << >>
      /\ \/ Len(messages) = 1
         \/ Len(messages) = 2 /\ messages[2].calls = << >> /\ messages[2].role = "assistant"
  BY DEF Init, NewSession, OldSession, UserTurn, AssistantTurn
<1>2. Settled(messages)
  BY <1>1 DEF Settled, AnsweredAt
<1>3. NoUserPair(messages)
  BY <1>1 DEF NoUserPair
<1> QED  BY <1>1, <1>2, <1>3 DEF TranscriptInv, Dispatching

(* The shape of the transcript at every step.                              *)
THEOREM TranscriptHolds == Spec => [](WellTyped /\ TranscriptInv)
BY TypeInit, TypeStep, TranscriptInit, TranscriptStep, PTL DEF Spec

(* Whatever ends a dispatch, its finally answers every call the reply      *)
(* made, in the turn after it.                                             *)
THEOREM CallsAreAnswered == Spec => []CallsAnswered
<1>1. WellTyped /\ TranscriptInv => CallsAnswered
  BY DEF TranscriptInv, CallsAnswered, Unanswered, EndsWith, Calls
<1> QED  BY <1>1, TranscriptHolds, PTL

(* append_user_text is used wherever two user turns could meet.            *)
THEOREM UserTurnsAreMerged == Spec => []UserTurnsMerged
<1>1. WellTyped /\ TranscriptInv => UserTurnsMerged
  BY DEF TranscriptInv, UserTurnsMerged
<1> QED  BY <1>1, TranscriptHolds, PTL
-----------------------------------------------------------------------------
(***************************************************************************)
(* The limits of an invocation.                                            *)
(***************************************************************************)

(* What is counted, and against what.                                      *)
LEMMA Counts ==
  ASSUME WellTyped
  PROVE  /\ turns \in Nat /\ inv.from \in Nat /\ inv.ran \in Nat /\ inv.refused \in Nat
         /\ inv.cutoffs \in Nat /\ inv.summary \in BOOLEAN /\ inv.capped \in BOOLEAN
         /\ MaxTurns \in Nat
         /\ MaxToolCalls # None => MaxToolCalls \in Nat
         /\ MaxCutoffs # None => MaxCutoffs \in Nat
BY DEF WellTyped, TypeOK, Invocation

(* A step that ends a run, or that a run at rest takes, counts nothing.    *)
LEMMA LimitsAtRest ==
  ASSUME WellTyped, LimitsInv, turns' = turns,
         inv' = inv \/ \E why : inv' = [inv EXCEPT !.stopped = why],
         phase' \in {"rest", "close", "unwind"}
  PROVE  LimitsInv'
<1>1. /\ inv'.from = inv.from /\ inv'.ran = inv.ran
      /\ inv'.refused = inv.refused /\ inv'.cutoffs = inv.cutoffs
  <2>1. inv \in Invocation
    BY DEF WellTyped, TypeOK
  <2> QED
    BY <2>1, SMTT(20) DEF Invocation
<1>2. ~ Underway' /\ phase' # "request" /\ phase' # "post"
  BY DEF Underway
<1>3. inv.refused <= 2
  BY Counts DEF LimitsInv
<1> QED  BY <1>1, <1>2, <1>3 DEF LimitsInv

(* Steps that stay underway and count nothing.                             *)
LEMMA LimitsUnderway ==
  ASSUME WellTyped, LimitsInv, Underway, Underway', turns' = turns,
         phase' = "request" => phase = "request" /\ inv'.summary = inv.summary,
         /\ inv'.from = inv.from /\ inv'.ran = inv.ran
         /\ inv'.refused = inv.refused /\ inv'.cutoffs = inv.cutoffs
  PROVE  LimitsInv'
<1>1. phase' # "post"
  BY DEF Underway
<1> QED  BY <1>1 DEF LimitsInv

(* A reply takes a turn, and may use up a cut-off.                         *)
LEMMA LimitsReply ==
  ASSUME WellTyped, LimitsInv, NEW r \in Replies, NEW cost \in Costs,
         Received(r, cost),
         \/ phase' = "post" /\ (status' = "working" => Natural(r) \/ Corrected(r))
         \/ phase' = "call" /\ Natural(r) /\ ~ inv.summary
  PROVE  LimitsInv'
<1>1. /\ phase = "request" /\ Underway /\ turns' = turns + 1
      /\ inv' = [CountCutoff(r) EXCEPT !.capped = FALSE]
  BY DEF Received, Underway
<1>2. /\ inv'.from = inv.from /\ inv'.ran = inv.ran
      /\ inv'.refused = inv.refused /\ inv'.summary = inv.summary
      /\ inv'.cutoffs = IF r.stop \in CutOffs /\ MaxCutoffs # None
                        THEN inv.cutoffs + 1 ELSE inv.cutoffs
  BY <1>1 DEF CountCutoff, WellTyped, TypeOK, Invocation
<1>3. /\ inv.from <= turns' /\ turns' <= inv.from + MaxTurns + 1
      /\ ~ inv.summary => turns' <= inv.from + MaxTurns
  BY <1>1, Counts DEF LimitsInv
<1>4. /\ MaxToolCalls # None => inv.ran <= MaxToolCalls
      /\ inv.refused <= 1
  BY <1>1 DEF LimitsInv
<1>5. ASSUME MaxCutoffs # None
      PROVE  /\ inv'.cutoffs <= MaxCutoffs + 1
             /\ Natural(r) \/ Corrected(r) => inv'.cutoffs <= MaxCutoffs
  <2>1. inv.cutoffs <= MaxCutoffs /\ inv.cutoffs \in Nat /\ MaxCutoffs \in Nat
    BY <1>1, <1>5, Counts DEF LimitsInv
  <2>2. Natural(r) => r.stop \notin CutOffs
    BY DEF Natural, Unfinished
  <2>3. Corrected(r) => inv.cutoffs < MaxCutoffs
    BY DEF Corrected
  <2> QED  BY <1>2, <2>1, <2>2, <2>3
<1>6. /\ inv'.refused <= IF Underway' THEN 1 ELSE 2
  BY <1>2, <1>4, Counts
<1>7. CASE phase' = "post"
  <2>1. ~ Underway'
    BY <1>7 DEF Underway
  <2>2. phase' = "post" /\ ~ inv'.summary => turns' <= inv'.from + MaxTurns
    BY <1>2, <1>3
  <2>3. status' = "working" => Natural(r) \/ Corrected(r)
    BY <1>7
  <2> QED  BY <1>2, <1>3, <1>4, <1>5, <1>6, <1>7, <2>1, <2>2, <2>3 DEF LimitsInv
<1>8. CASE phase' = "call" /\ Natural(r) /\ ~ inv.summary
  BY <1>2, <1>3, <1>4, <1>5, <1>6, <1>8 DEF LimitsInv
<1> QED  BY <1>7, <1>8

(* The dispatch counts the calls it runs, and the turns it refuses one in. *)
LEMMA LimitsDispatch ==
  ASSUME WellTyped, LimitsInv, NEW a \in Answers,
         \/ AskRefused \/ CallCapped \/ CallStarts
         \/ CallReturns(a)
         \/ CallsDone
  PROVE  LimitsInv'
<1>1. CASE AskRefused \/ CallReturns(a)
  <2>1. Underway /\ Underway' /\ phase' = "call" /\ turns' = turns /\ inv' = inv
    BY <1>1 DEF AskRefused, CallReturns, Underway
  <2> QED  BY <2>1, LimitsUnderway
<1>2. CASE CallCapped
  <2>1. Underway /\ Underway' /\ phase' = "call" /\ turns' = turns
    BY <1>2 DEF CallCapped, Underway
  <2>2. /\ inv'.from = inv.from /\ inv'.ran = inv.ran
        /\ inv'.refused = inv.refused /\ inv'.cutoffs = inv.cutoffs
    BY <1>2 DEF CallCapped, WellTyped, TypeOK, Invocation
  <2> QED  BY <2>1, <2>2, LimitsUnderway
<1>3. CASE CallStarts
  <2>1. Underway /\ Underway' /\ phase' = "running" /\ turns' = turns
    BY <1>3 DEF CallStarts, Underway
  <2>2. CASE MaxToolCalls = None
    <3>1. inv' = inv
      BY <1>3, <2>2 DEF CallStarts
    <3> QED  BY <2>1, <3>1, LimitsUnderway
  <2>3. CASE MaxToolCalls # None
    <3>1. inv.ran < MaxToolCalls
      BY <1>3, <2>3, Counts DEF CallStarts, AtCap
    <3>2. /\ inv'.from = inv.from /\ inv'.ran = inv.ran + 1
          /\ inv'.refused = inv.refused /\ inv'.cutoffs = inv.cutoffs
      BY <1>3, <2>3 DEF CallStarts, WellTyped, TypeOK, Invocation
    <3>3. inv'.ran <= MaxToolCalls
      BY <2>3, <3>1, <3>2, Counts
    <3> QED  BY <2>1, <3>2, <3>3 DEF LimitsInv
  <2> QED  BY <2>2, <2>3
<1>4. CASE CallsDone
  <2>1. Underway /\ ~ Underway' /\ phase' = "post" /\ turns' = turns
    BY <1>4 DEF CallsDone, Underway
  <2>2. /\ inv'.from = inv.from /\ inv'.ran = inv.ran /\ inv'.cutoffs = inv.cutoffs
        /\ inv'.refused \in {inv.refused, inv.refused + 1}
    BY <1>4 DEF CallsDone, WellTyped, TypeOK, Invocation
  <2>3. inv.refused <= 1
    BY <2>1 DEF LimitsInv
  <2>4. inv'.refused <= 2
    BY <2>2, <2>3, Counts
  <2> QED  BY <2>1, <2>2, <2>4 DEF LimitsInv
<1> QED  BY <1>1, <1>2, <1>3, <1>4

(* The step's end goes on only with turns, calls and cut-offs left.        *)
LEMMA LimitsStepEnds ==
  ASSUME WellTyped, LimitsInv, StepEnds
  PROVE  LimitsInv'
<1> DEFINE o == SummaryOutcome(CapOutcome(BudgetOutcome(Ends(status, stop))))
<1>1. phase = "post" /\ UNCHANGED <<turns, inv>>
      /\ phase' = IF o.status = "working" THEN "head" ELSE AfterLoop
  BY DEF StepEnds
<1>2. CASE o.status # "working"
  <2>1. phase' \in {"rest", "close", "unwind"}
    BY <1>1, <1>2 DEF AfterLoop
  <2> QED  BY <1>1, <2>1, LimitsAtRest
<1>3. CASE o.status = "working"
  <2>1. ~ inv.summary /\ CapOutcome(BudgetOutcome(Ends(status, stop))).status = "working"
    BY <1>3 DEF SummaryOutcome, Ends
  <2>2. ~ (inv.refused > 1) /\ BudgetOutcome(Ends(status, stop)).status = "working"
    BY <2>1 DEF CapOutcome, Ends
  <2>3. status = "working"
    BY <2>2 DEF BudgetOutcome, Ends
  <2>4. inv.refused <= 1
    BY <2>2, Counts
  <2>5. Underway' /\ phase' = "head"
    BY <1>1, <1>3 DEF Underway
  <2> QED  BY <1>1, <2>1, <2>3, <2>4, <2>5 DEF LimitsInv
<1> QED  BY <1>2, <1>3

(* The head takes a step with a turn left, or the one summary.             *)
LEMMA LimitsHead ==
  ASSUME WellTyped, LimitsInv, NEW typed, NEW full, HeadSteps(typed, full)
  PROVE  LimitsInv'
<1>1. phase = "head" /\ Underway /\ turns' = turns /\ phase' \in {"post", "request"}
  BY DEF HeadSteps, Underway
<1>2. /\ inv'.from = inv.from /\ inv'.ran = inv.ran
      /\ inv'.refused = inv.refused /\ inv'.cutoffs = inv.cutoffs
      /\ inv'.summary = (Left <= 0)
  BY DEF HeadSteps, WellTyped, TypeOK, Invocation
<1>3. turns <= inv.from + MaxTurns
  BY <1>1 DEF LimitsInv
<1>4. ~ inv'.summary => turns < inv.from + MaxTurns
  <2>1. MaxTurns - (turns - inv.from) > 0 => turns < inv.from + MaxTurns
    BY Counts
  <2>2. ~ (Left <= 0) => MaxTurns - (turns - inv.from) > 0
    BY Counts DEF Left
  <2>3. ~ inv'.summary => ~ (Left <= 0)
    BY <1>2, Zenon
  <2> QED  BY <2>1, <2>2, <2>3, Zenon
<1>5. inv.refused <= 1
  BY <1>1 DEF LimitsInv
<1>6. inv'.refused <= IF Underway' THEN 1 ELSE 2
  BY <1>2, <1>5, Counts
<1>7. phase' = "post" \/ phase' = "request"
  BY <1>1
<1> QED  BY <1>1, <1>2, <1>3, <1>4, <1>6, <1>7 DEF LimitsInv
(* The limits hold at first.                                               *)
LEMMA LimitsInit == Init => LimitsInv
<1> SUFFICES ASSUME Init
             PROVE  LimitsInv
  OBVIOUS
<1>1. phase = "rest" /\ turns \in Nat /\ inv = NewInvocation(None)
  BY DEF Init, NewSession, OldSession
<1>2. inv.from = turns /\ inv.ran = 0 /\ inv.refused = 0 /\ inv.cutoffs = 0
  BY <1>1 DEF NewInvocation
<1>3. ~ Underway
  BY <1>1 DEF Underway
<1>4. /\ MaxTurns \in Nat
      /\ MaxToolCalls # None => MaxToolCalls \in Nat
      /\ MaxCutoffs # None => MaxCutoffs \in Nat
  OBVIOUS
<1> QED  BY <1>1, <1>2, <1>3, <1>4 DEF LimitsInv

(* A new invocation counts from nothing.                                   *)
LEMMA LimitsStart ==
  ASSUME WellTyped, LimitsInv, NEW schema, NEW tokens, NEW usd,
         Start(schema, tokens, usd)
  PROVE  LimitsInv'
<1>1. /\ inv'.from = turns /\ inv'.ran = 0 /\ inv'.refused = 0 /\ inv'.cutoffs = 0
      /\ inv'.summary = FALSE /\ turns' = turns
  BY DEF Start, NewInvocation
<1>2. phase' \in {"rest", "connect", "discover"}
  BY DEF Start
<1>3. /\ turns \in Nat /\ MaxTurns \in Nat
      /\ MaxToolCalls # None => MaxToolCalls \in Nat
      /\ MaxCutoffs # None => MaxCutoffs \in Nat
  BY Counts
<1>4. phase' # "request" /\ phase' # "post"
  BY <1>2
<1> QED  BY <1>1, <1>3, <1>4 DEF LimitsInv

(* Every step keeps the limits.                                            *)
LEMMA LimitsStep == WellTyped /\ LimitsInv /\ [Next]_vars => LimitsInv'
<1> SUFFICES ASSUME WellTyped, LimitsInv, [Next]_vars
             PROVE  LimitsInv'
  OBVIOUS
<1>1. CASE UNCHANGED vars
  BY <1>1 DEF vars, LimitsInv, Underway
<1>2. CASE ReplyComes
  <2> PICK r \in Replies, cost \in Costs :
        \/ ReplyCutOff(r, cost)
        \/ ReplyWithoutAnswer(r, cost)
        \/ ReplyInText(r, cost)
        \/ ReplySummarises(r, cost)
        \/ \E found \in 0 .. MaxErrors : ReplyAnswers(r, cost, found)
        \/ CheckRaises(r, cost)
        \/ ReplyCallsRefused(r, cost)
        \/ ReplyCalls(r, cost)
    BY <1>2 DEF ReplyComes
  <2>1. Received(r, cost)
    BY DEF ReplyCutOff, ReplyWithoutAnswer, ReplyInText, ReplySummarises, ReplyAnswers,
           CheckRaises, ReplyCallsRefused, ReplyCalls
  <2>2. CASE ReplyCutOff(r, cost) \/ ReplyCallsRefused(r, cost)
    <3>1. phase' = "post" /\ (status' = "working" => Natural(r) \/ Corrected(r))
      BY <2>2 DEF ReplyCutOff, ReplyCallsRefused, Decide, LeaveWith, Ends
    <3> QED  BY <2>1, <3>1, LimitsReply
  <2>3. CASE \/ ReplyWithoutAnswer(r, cost)
             \/ ReplyInText(r, cost)
             \/ ReplySummarises(r, cost)
             \/ \E found \in 0 .. MaxErrors : ReplyAnswers(r, cost, found)
             \/ CheckRaises(r, cost)
    <3>1. phase' = "post" /\ Natural(r)
      BY <2>3 DEF ReplyWithoutAnswer, ReplyInText, ReplySummarises, ReplyAnswers,
                  CheckRaises, Hold, Decide
    <3> QED  BY <2>1, <3>1, LimitsReply
  <2>4. CASE ReplyCalls(r, cost)
    <3>1. phase' = "call" /\ Natural(r) /\ ~ inv.summary
      BY <2>4 DEF ReplyCalls
    <3> QED  BY <2>1, <3>1, LimitsReply
  <2> QED  BY <2>2, <2>3, <2>4
<1>3. CASE \/ AskRefused \/ CallCapped \/ CallStarts
           \/ \E a \in Answers : CallReturns(a)
           \/ CallsDone
  <2>1. "ok" \in Answers
    BY DEF Answers
  <2> QED  BY <1>3, <2>1, LimitsDispatch
<1>4. CASE StepEnds
  BY <1>4, LimitsStepEnds
<1>5. CASE \E typed, full \in BOOLEAN : AtHead(typed, full)
  <2> PICK typed, full \in BOOLEAN : AtHead(typed, full)
    BY <1>5
  <2>1. CASE HeadSteps(typed, full)
    BY <2>1, LimitsHead
  <2>2. CASE HeadStops(typed)
    <3>1. turns' = turns /\ inv' = inv /\ phase' \in {"rest", "close", "unwind"}
      BY <2>2 DEF HeadStops, AfterLoop
    <3> QED  BY <3>1, LimitsAtRest
  <2> QED  BY <2>1, <2>2 DEF AtHead
<1>6. CASE \/ \E ok \in BOOLEAN : Close(ok) \/ Unwind(ok) \/ (~ ok /\ Connect(ok))
           \/ DiscoveryFails \/ RequestFails
           \/ \E text \in BOOLEAN : Reopen(text)
           \/ \E reason \in {"timeout", "interrupted"} : Stop(reason)
  <2>1. /\ turns' = turns /\ phase' \in {"rest", "close", "unwind"}
        /\ inv' = inv \/ \E why : inv' = [inv EXCEPT !.stopped = why]
    BY <1>6 DEF Close, Unwind, Connect, DiscoveryFails, RequestFails, Reopen, Stop,
                AfterLoop
  <2> QED  BY <2>1, LimitsAtRest
<1>7. CASE \/ Connect(TRUE) \/ RequestRetried \/ \E valid \in BOOLEAN : Discover(valid)
  <2>1. /\ Underway /\ Underway' /\ turns' = turns
        /\ phase' = "request" => phase = "request"
    BY <1>7 DEF Connect, RequestRetried, Discover, Underway
  <2>2. inv' = inv \/ inv' = [inv EXCEPT !.retries = @ + 1]
    BY <1>7 DEF Connect, RequestRetried, Discover
  <2>3. /\ inv'.from = inv.from /\ inv'.ran = inv.ran /\ inv'.summary = inv.summary
        /\ inv'.refused = inv.refused /\ inv'.cutoffs = inv.cutoffs
    <3>1. inv \in Invocation
      BY DEF WellTyped, TypeOK
    <3> QED
      BY <2>2, <3>1 DEF Invocation
  <2> QED  BY <2>1, <2>3, LimitsUnderway
<1>8. CASE \E schema \in RunSchemas, tokens \in TokenLimits, usd \in UsdLimits :
             Start(schema, tokens, usd)
  BY <1>8, LimitsStart
<1>9. \A ok \in BOOLEAN : Connect(ok) => Connect(TRUE) \/ (~ ok /\ Connect(ok))
  OBVIOUS
<1> QED  BY <1>1, <1>2, <1>3, <1>4, <1>5, <1>6, <1>7, <1>8, <1>9 DEF Next, Loop, Host

(* Nothing a model replies takes an invocation past its turns and one      *)
(* summary, its calls and two turns of refusals, or its cut-offs and one.  *)
THEOREM LimitsAlwaysHold == Spec => []LimitsHold
<1>1. WellTyped /\ LimitsInv => LimitsHold
  BY Counts DEF LimitsInv, LimitsHold
<1>2. Spec => [](WellTyped /\ LimitsInv)
  BY TypeInit, TypeStep, LimitsInit, LimitsStep, PTL DEF Spec
<1> QED  BY <1>1, <1>2, PTL

-----------------------------------------------------------------------------
(***************************************************************************)
(* Outcomes: how a step, and a run, may end.                               *)
(***************************************************************************)

(* The contract's pairs, as the loop makes them.                           *)
LEMMA OutcomesAre ==
  /\ \A why \in {"max_tokens", "refusal", "max_turns", "context", "budget", "timeout", "tool_calls",
                 "schema_violation", "reads_required", "no_answer", "interrupted", None, "mcp"} :
       <<"error", why>> \in Contract!Results
  /\ \A st \in {"done", "blocked"} : <<st, "end_turn">> \in Contract!Results
  /\ \A st : \A why : <<st, why>> \in Contract!Results => st \in {"done", "blocked", "error"}
  /\ \A st \in {"done", "blocked"} : \A why : <<st, why>> \in Contract!Results
       => why \in {"end_turn", "stop_sequence", "tool_use"}
BY DEF Contract!Results, Contract!Limits, Contract!NoAnswers, Contract!Stopped,
       Contract!Failures, Contract!Finished

(* Of its invocation a reply changes what it counts alone.                 *)
LEMMA ReceivedKeeps ==
  ASSUME WellTyped, NEW r \in Replies, NEW cost \in Costs, Received(r, cost)
  PROVE  /\ phase = "request" /\ stated' = stated /\ turns' = turns + 1
         /\ inv'.stopped = inv.stopped /\ inv'.summary = inv.summary
         /\ inv'.schema = inv.schema /\ inv'.at = inv.at /\ inv'.from = inv.from
<1>1. inv' = [CountCutoff(r) EXCEPT !.capped = FALSE]
  BY DEF Received
<1>2. /\ inv'.stopped = inv.stopped /\ inv'.summary = inv.summary
      /\ inv'.schema = inv.schema /\ inv'.at = inv.at /\ inv'.from = inv.from
  BY <1>1 DEF CountCutoff, WellTyped, TypeOK, Invocation
<1> QED
  BY <1>2 DEF Received

(* What a reply is stopped by, when the model did not finish it and when   *)
(* it did.                                                                 *)
LEMMA StopsAre ==
  ASSUME NEW r \in Replies, NEW cost \in Costs
  PROVE  /\ Natural(r) => r.stop = "end_turn"
         /\ ~ Natural(r) => r.stop \in {"max_tokens", "refusal"}
BY ReplyType DEF Natural, Unfinished, CutOffs, ReplyStops

(* A reply without calls, or with calls that are not run, leaves the run   *)
(* working or ends it as the contract says, and never blocks it.           *)
LEMMA ReplyOutcome ==
  ASSUME WellTyped, OutcomeInv, NEW r \in Replies, NEW cost \in Costs,
         \/ ReplyCutOff(r, cost)
         \/ ReplyWithoutAnswer(r, cost)
         \/ ReplyInText(r, cost)
         \/ ReplySummarises(r, cost)
         \/ \E found \in 0 .. MaxErrors : ReplyAnswers(r, cost, found)
         \/ CheckRaises(r, cost)
         \/ ReplyCallsRefused(r, cost)
  PROVE  /\ Received(r, cost) /\ phase' = "post"
         /\ status' = "working" \/ <<status', stop'>> \in Contract!Results
         /\ status' \in {"working", "done", "error"}
         /\ status' = "done" => Final(r) /\ messages' = Kept(r) /\ Natural(r)
<1>1. Received(r, cost)
  BY DEF ReplyCutOff, ReplyWithoutAnswer, ReplyInText, ReplySummarises, ReplyAnswers,
         CheckRaises, ReplyCallsRefused
<1>2. status = "working"
  BY <1>1, ReceivedKeeps DEF OutcomeInv, Underway
<1> DEFINE Leaves ==
      /\ phase' = "post"
      /\ \/ status' = "working"
         \/ status' = "error" /\ stop' \in {"no_answer", "reads_required", "schema_violation", None}
         \/ status' = "error" /\ stop' = r.stop /\ ~ Natural(r)
         \/ status' = "done" /\ stop' = r.stop /\ Natural(r) /\ Final(r) /\ messages' = Kept(r)
<1>3. Leaves
  <2>1. CASE ReplyCutOff(r, cost) \/ ReplyWithoutAnswer(r, cost)
    BY <1>2, <2>1 DEF ReplyCutOff, ReplyWithoutAnswer, Decide, LeaveWith, Ends
  <2>2. CASE ReplyInText(r, cost)
    BY <1>2, <2>2 DEF ReplyInText, Hold, Decide, LeaveWith, Ends
  <2>3. CASE ReplySummarises(r, cost) \/ CheckRaises(r, cost)
    BY <1>2, <2>3 DEF ReplySummarises, CheckRaises, Decide, LeaveWith, Ends
  <2>4. ASSUME NEW found \in 0 .. MaxErrors, ReplyAnswers(r, cost, found)
        PROVE  Leaves
    BY <1>2, <2>4 DEF ReplyAnswers, Hold, Decide, LeaveWith, Ends
  <2>5. CASE ReplyCallsRefused(r, cost)
    BY <1>2, <2>5 DEF ReplyCallsRefused, Decide, LeaveWith, Ends
  <2> QED
    BY <2>1, <2>2, <2>3, <2>4, <2>5
<1>4. /\ Natural(r) => r.stop = "end_turn"
      /\ ~ Natural(r) => r.stop \in {"max_tokens", "refusal"}
  BY StopsAre
<1> QED
  BY <1>1, <1>3, <1>4, OutcomesAre

(* The end of a step, from an outcome of the contract or from none.        *)
LEMMA StepEndsOutcome ==
  ASSUME WellTyped, OutcomeInv, StepEnds
  PROVE  /\ UNCHANGED <<messages, inv, output, stated, turns>> /\ phase = "post"
         /\ \/ phase' = "head" /\ status' = "working" /\ status = "working"
            \/ phase' = AfterLoop /\ <<status', stop'>> \in Contract!Results
         /\ status = "blocked" => status' = "blocked"
         /\ status' \in {"done", "blocked"} => status' = status /\ stop' = stop
<1> DEFINE b == BudgetOutcome(Ends(status, stop))
           c == CapOutcome(b)
           o == SummaryOutcome(c)
<1>1. /\ UNCHANGED <<messages, inv, output, stated, turns>> /\ phase = "post"
      /\ status' = o.status /\ stop' = o.stop
      /\ phase' = IF o.status = "working" THEN "head" ELSE AfterLoop
  BY DEF StepEnds, LeaveWith
<1>2. \/ b.status = status /\ b.stop = stop
      \/ b.status = "error" /\ b.stop = "budget" /\ status \notin {"done", "blocked"}
  BY DEF BudgetOutcome, Ends
<1> HIDE DEF b
<1>3. \/ c.status = b.status /\ c.stop = b.stop
      \/ c.status = "error" /\ c.stop = "tool_calls" /\ b.status = "working"
  BY DEF CapOutcome, Ends
<1> HIDE DEF c
<1>4. \/ o.status = c.status /\ o.stop = c.stop /\ ~ inv.summary
      \/ o.status = "error" /\ o.stop = "max_turns" /\ inv.summary
  BY DEF SummaryOutcome, Ends
<1> HIDE DEF o
<1>5. /\ status = "working" \/ <<status, stop>> \in Contract!Results
      /\ status = "blocked" => ~ inv.summary
  BY <1>1 DEF OutcomeInv
<1>6. /\ <<"error", "budget">> \in Contract!Results
      /\ <<"error", "tool_calls">> \in Contract!Results
      /\ <<"error", "max_turns">> \in Contract!Results
  BY OutcomesAre
<1>7. o.status = "working" \/ <<o.status, o.stop>> \in Contract!Results
  BY <1>2, <1>3, <1>4, <1>5, <1>6
<1>8. o.status = "working" => status = "working"
  BY <1>2, <1>3, <1>4
<1>9. status = "blocked" => o.status = "blocked"
  BY <1>2, <1>3, <1>4, <1>5
<1>10. o.status \in {"done", "blocked"} => o.status = status /\ o.stop = stop
  BY <1>2, <1>3, <1>4
<1> QED
  BY <1>1, <1>7, <1>8, <1>9, <1>10

(* What is stopped, and what the host then reports.                        *)
LEMMA StopOutcome ==
  ASSUME WellTyped, NEW reason \in {"timeout", "interrupted"}, Stop(reason)
  PROVE  /\ phase \in {"connect", "discover", "request", "running", "close", "post"}
         /\ inv'.stopped = reason /\ reason # None /\ inv'.at = inv.at /\ inv'.from = inv.from
         /\ inv'.schema = inv.schema
         /\ UNCHANGED <<output, stated, turns>>
         /\ \/ phase' = "rest" /\ status' = "error" /\ stop' = reason
            \/ phase' = "unwind" /\ status' = "error"
            \/ phase' = "unwind" /\ status' = status /\ stop' = stop
<1>1. /\ inv'.stopped = reason /\ inv'.at = inv.at /\ inv'.from = inv.from
      /\ inv'.schema = inv.schema
  BY DEF Stop, WellTyped, TypeOK, Invocation
<1>2. phase \in {"connect", "discover", "request", "running", "close", "post"}
  BY DEF Stop, Awaiting
<1>3. reason # None
  BY LoopAssumption
<1>4. \/ phase' = "rest" /\ status' = "error" /\ stop' = reason
      \/ phase' = "unwind" /\ status' = "error"
      \/ phase' = "unwind" /\ status' = status /\ stop' = stop
  BY DEF Stop, LeaveWith, SummaryOutcome, Ends
<1> QED
  BY <1>1, <1>2, <1>3, <1>4 DEF Stop

(* The head of the loop and the calls keep what an invocation began with.  *)
KeepsInvocation ==
  /\ inv'.schema = inv.schema /\ inv'.at = inv.at /\ inv'.from = inv.from
  /\ inv'.stopped = inv.stopped

LEMMA HeadKeeps ==
  ASSUME WellTyped, NEW typed, NEW full, AtHead(typed, full)
  PROVE  KeepsInvocation
<1>1. ASSUME NEW i \in Invocation, NEW summary
      PROVE  /\ [i EXCEPT !.summary = summary, !.retries = 0].schema = i.schema
             /\ [i EXCEPT !.summary = summary, !.retries = 0].at = i.at
             /\ [i EXCEPT !.summary = summary, !.retries = 0].from = i.from
             /\ [i EXCEPT !.summary = summary, !.retries = 0].stopped = i.stopped
  BY DEF Invocation
<1>2. inv \in Invocation
  BY DEF WellTyped, TypeOK
<1>3. CASE MayRequest
  <2>1. inv' = [inv EXCEPT !.summary = (Left <= 0), !.retries = 0]
    BY <1>3 DEF AtHead, HeadSteps
  <2> QED
    BY <1>1, <1>2, <2>1 DEF KeepsInvocation
<1>4. CASE ~ MayRequest
  BY <1>4 DEF AtHead, HeadStops, KeepsInvocation
<1> QED
  BY <1>3, <1>4

LEMMA CallsKeep ==
  ASSUME WellTyped,
         \/ AskRefused \/ CallCapped \/ CallStarts \/ CallsDone
         \/ \E a \in Answers : CallReturns(a)
  PROVE  KeepsInvocation /\ inv'.summary = inv.summary
<1>1. ASSUME NEW i \in Invocation, NEW ran, NEW refused
      PROVE  /\ [i EXCEPT !.capped = TRUE].summary = i.summary
             /\ [i EXCEPT !.capped = TRUE].schema = i.schema
             /\ [i EXCEPT !.capped = TRUE].at = i.at
             /\ [i EXCEPT !.capped = TRUE].from = i.from
             /\ [i EXCEPT !.capped = TRUE].stopped = i.stopped
             /\ [i EXCEPT !.ran = ran].summary = i.summary
             /\ [i EXCEPT !.ran = ran].schema = i.schema
             /\ [i EXCEPT !.ran = ran].at = i.at
             /\ [i EXCEPT !.ran = ran].from = i.from
             /\ [i EXCEPT !.ran = ran].stopped = i.stopped
             /\ [i EXCEPT !.refused = refused].summary = i.summary
             /\ [i EXCEPT !.refused = refused].schema = i.schema
             /\ [i EXCEPT !.refused = refused].at = i.at
             /\ [i EXCEPT !.refused = refused].from = i.from
             /\ [i EXCEPT !.refused = refused].stopped = i.stopped
  BY DEF Invocation
<1>2. inv \in Invocation
  BY DEF WellTyped, TypeOK
<1>3. CASE AskRefused
  BY <1>3 DEF AskRefused, KeepsInvocation
<1>4. CASE CallCapped
  BY <1>1, <1>2, <1>4 DEF CallCapped, KeepsInvocation
<1>5. CASE CallStarts
  BY <1>1, <1>2, <1>5 DEF CallStarts, KeepsInvocation
<1>6. CASE CallsDone
  BY <1>1, <1>2, <1>6 DEF CallsDone, KeepsInvocation
<1>7. CASE \E a \in Answers : CallReturns(a)
  BY <1>7 DEF CallReturns, KeepsInvocation
<1> QED
  BY <1>3, <1>4, <1>5, <1>6, <1>7

(* What a run's outcome says of where it stands is invariant.              *)
LEMMA OutcomeInit == Init => OutcomeInv
BY DEF Init, OutcomeInv, Underway, Dispatching

LEMMA OutcomeStep == WellTyped /\ OutcomeInv /\ [Next]_vars => OutcomeInv'
<1> SUFFICES ASSUME WellTyped, OutcomeInv, [Next]_vars
             PROVE  OutcomeInv'
  OBVIOUS
<1> USE DEF Underway, Dispatching
<1>1. CASE UNCHANGED vars
  BY <1>1 DEF vars, OutcomeInv
<1>2. CASE ReplyComes
  <2> PICK r \in Replies, cost \in Costs :
        \/ ReplyCutOff(r, cost)
        \/ ReplyWithoutAnswer(r, cost)
        \/ ReplyInText(r, cost)
        \/ ReplySummarises(r, cost)
        \/ \E found \in 0 .. MaxErrors : ReplyAnswers(r, cost, found)
        \/ CheckRaises(r, cost)
        \/ ReplyCallsRefused(r, cost)
        \/ ReplyCalls(r, cost)
    BY <1>2 DEF ReplyComes
  <2>1. CASE ReplyCalls(r, cost)
    <3>1. Received(r, cost) /\ phase' = "call" /\ stop' = "end_turn" /\ status' = status
          /\ ~ inv.summary
      BY <2>1, StopsAre DEF ReplyCalls
    <3>2. status = "working" /\ inv.stopped = None
      BY <3>1, ReceivedKeeps DEF OutcomeInv
    <3> QED
      BY <3>1, <3>2, ReceivedKeeps DEF OutcomeInv
  <2>2. CASE ~ ReplyCalls(r, cost)
    <3>1. /\ Received(r, cost) /\ phase' = "post"
          /\ status' = "working" \/ <<status', stop'>> \in Contract!Results
          /\ status' \in {"working", "done", "error"}
      BY <2>2, ReplyOutcome
    <3>2. inv.stopped = None /\ inv'.stopped = None
      BY <3>1, ReceivedKeeps DEF OutcomeInv
    <3> QED
      BY <3>1, <3>2 DEF OutcomeInv
  <2> QED
    BY <2>1, <2>2
<1>3. CASE AskRefused \/ CallCapped \/ CallStarts \/ \E a \in Answers : CallReturns(a)
  <2>1. phase \in {"call", "running"} /\ phase' \in {"call", "running"}
        /\ UNCHANGED <<status, stop>>
    BY <1>3 DEF AskRefused, CallCapped, CallStarts, CallReturns
  <2>2. inv'.stopped = inv.stopped /\ inv'.summary = inv.summary
    BY <1>3, CallsKeep DEF KeepsInvocation
  <2> QED
    BY <2>1, <2>2 DEF OutcomeInv
<1>4. CASE CallsDone
  <2>1. phase = "call" /\ phase' = "post" /\ stop' = stop
        /\ status' \in {status, "blocked"}
    BY <1>4 DEF CallsDone
  <2>2. inv'.stopped = inv.stopped /\ inv'.summary = inv.summary
    BY <1>4 DEF CallsDone, WellTyped, TypeOK, Invocation
  <2> QED
    BY <2>1, <2>2, OutcomesAre DEF OutcomeInv
<1>5. CASE StepEnds
  <2>1. phase' = AfterLoop => phase' \in {"close", "rest"}
    BY DEF AfterLoop
  <2>2. <<status', stop'>> \in Contract!Results => status' # "working"
    BY OutcomesAre
  <2> QED
    BY <1>5, <2>1, <2>2, StepEndsOutcome DEF OutcomeInv
<1>6. CASE \E typed, full \in BOOLEAN : AtHead(typed, full)
  <2> PICK typed, full \in BOOLEAN : AtHead(typed, full)
    BY <1>6
  <2>1. CASE HeadStops(typed)
    <3>1. phase = "head" /\ phase' \in {"close", "rest"} /\ status' = "error" /\ stop' = "budget"
          /\ inv' = inv
      BY <2>1 DEF HeadStops, AfterLoop, LeaveWith, Ends
    <3> QED
      BY <3>1, OutcomesAre DEF OutcomeInv
  <2>2. CASE HeadSteps(typed, full)
    <3>1. phase = "head"
          /\ \/ phase' = "post" /\ status' = "error" /\ stop' = "context"
             \/ phase' = "request" /\ UNCHANGED <<status, stop>>
      BY <2>2 DEF HeadSteps, LeaveWith, Ends
    <3>2. inv'.stopped = inv.stopped
      BY <2>2 DEF HeadSteps, WellTyped, TypeOK, Invocation
    <3> QED
      BY <3>1, <3>2, OutcomesAre DEF OutcomeInv
  <2> QED
    BY <2>1, <2>2 DEF AtHead
<1>7. CASE \E ok \in BOOLEAN : Connect(ok) \/ Close(ok) \/ Unwind(ok)
  <2>1. CASE \E ok \in BOOLEAN : Connect(ok)
    <3>1. /\ phase = "connect" /\ inv' = inv
          /\ \/ phase' = "discover" /\ UNCHANGED <<status, stop>>
             \/ phase' = "rest" /\ status' = "error"
      BY <2>1 DEF Connect, LeaveWith, Ends
    <3> QED
      BY <3>1 DEF OutcomeInv
  <2>2. CASE \E ok \in BOOLEAN : Close(ok)
    <3>1. /\ phase = "close" /\ inv' = inv /\ phase' = "rest"
          /\ UNCHANGED <<status, stop>> \/ status' = "error"
      BY <2>2 DEF Close, LeaveWith, Ends
    <3>2. status # "working"
      BY <3>1, OutcomesAre DEF OutcomeInv
    <3> QED
      BY <3>1, <3>2 DEF OutcomeInv
  <2>3. CASE \E ok \in BOOLEAN : Unwind(ok)
    BY <2>3 DEF Unwind, LeaveWith, Ends, OutcomeInv
  <2> QED
    BY <1>7, <2>1, <2>2, <2>3
<1>8. CASE (\E valid \in BOOLEAN : Discover(valid)) \/ RequestRetried
  <2>1. phase \in {"discover", "request"} /\ phase' \in {"head", "request"}
        /\ UNCHANGED <<status, stop>>
    BY <1>8 DEF Discover, RequestRetried
  <2>2. inv'.stopped = inv.stopped
    BY <1>8 DEF Discover, RequestRetried, WellTyped, TypeOK, Invocation
  <2> QED
    BY <2>1, <2>2 DEF OutcomeInv
<1>9. CASE DiscoveryFails \/ RequestFails
  <2>1. phase \in {"discover", "request"} /\ phase' \in {"close", "rest"} /\ inv' = inv
        /\ status' = "error" /\ stop' \in {None, "max_turns"}
    BY <1>9 DEF DiscoveryFails, RequestFails, LeaveWith, Ends, SummaryOutcome, AfterLoop
  <2> QED
    BY <2>1, OutcomesAre DEF OutcomeInv
<1>10. CASE \E schema \in RunSchemas, tokens \in TokenLimits, usd \in UsdLimits :
              Start(schema, tokens, usd)
  <2>1. /\ phase = "rest" /\ status = "working" /\ inv'.stopped = None
        /\ \/ phase' = "rest" /\ status' = "error"
           \/ phase' \in {"connect", "discover"} /\ UNCHANGED <<status, stop>>
    BY <1>10 DEF Start, NewInvocation, LeaveWith, Ends
  <2> QED
    BY <2>1 DEF OutcomeInv
<1>11. CASE \E text \in BOOLEAN : Reopen(text)
  BY <1>11 DEF Reopen, LeaveWith, Ends, OutcomeInv
<1>12. CASE \E reason \in {"timeout", "interrupted"} : Stop(reason)
  BY <1>12, StopOutcome DEF OutcomeInv
<1> QED
  BY <1>1, <1>2, <1>3, <1>4, <1>5, <1>6, <1>7, <1>8, <1>9, <1>10, <1>11, <1>12
     DEF Next, Loop, Host

(***************************************************************************)
(* The contract: what a caller sees of the loop are its steps.             *)
(***************************************************************************)

(* A step within an invocation shows nothing.                              *)
LEMMA ContractStutters ==
  ASSUME phase # "rest", phase' # "rest", turns' = turns, inv'.from = inv.from
  PROVE  UNCHANGED Contract!contractVars
BY DEF Contract!contractVars

(* One that brings it to rest shows an outcome.                            *)
LEMMA ContractFinishes ==
  ASSUME phase # "rest", phase' = "rest", turns' = turns, inv'.from = inv.from,
         <<status', stop'>> \in Contract!Results
  PROVE  Contract!ContractNext
<1>1. status' # "working"
  BY OutcomesAre
<1>2. Contract!Finish
  BY <1>1 DEF Contract!Finish
<1> QED
  BY <1>2 DEF Contract!ContractNext

(* A reply shows a turn, which the limit leaves to take.                   *)
LEMMA ContractTurns ==
  ASSUME WellTyped, LimitsInv, phase = "request", phase' # "rest", turns' = turns + 1,
         inv'.from = inv.from
  PROVE  Contract!ContractNext
<1>1. turns <= inv.from + MaxTurns
  BY DEF LimitsInv, Underway
<1>2. turns - inv.from <= MaxTurns /\ (turns + 1) - inv.from = (turns - inv.from) + 1
  BY <1>1, Counts
<1>3. Contract!Turn
  BY <1>2 DEF Contract!Turn
<1> QED
  BY <1>3 DEF Contract!ContractNext

LEMMA ContractInitially == Init => Contract!ContractInit
BY DEF Init, Contract!ContractInit

LEMMA ContractStep ==
  WellTyped /\ LimitsInv /\ OutcomeInv /\ OutcomeInv' /\ [Next]_vars
    => [Contract!ContractNext]_(Contract!contractVars)
<1> SUFFICES ASSUME WellTyped, LimitsInv, OutcomeInv, OutcomeInv', [Next]_vars
             PROVE  Contract!ContractNext \/ UNCHANGED Contract!contractVars
  OBVIOUS
<1>1. CASE UNCHANGED vars
  BY <1>1 DEF vars, Contract!contractVars
<1>2. CASE ReplyComes
  <2> PICK r \in Replies, cost \in Costs :
        \/ ReplyCutOff(r, cost)
        \/ ReplyWithoutAnswer(r, cost)
        \/ ReplyInText(r, cost)
        \/ ReplySummarises(r, cost)
        \/ \E found \in 0 .. MaxErrors : ReplyAnswers(r, cost, found)
        \/ CheckRaises(r, cost)
        \/ ReplyCallsRefused(r, cost)
        \/ ReplyCalls(r, cost)
    BY <1>2 DEF ReplyComes
  <2>1. Received(r, cost) /\ phase' \in {"post", "call"}
    <3>1. CASE ReplyCalls(r, cost)
      BY <3>1 DEF ReplyCalls
    <3>2. CASE ~ ReplyCalls(r, cost)
      BY <3>2, ReplyOutcome
    <3> QED
      BY <3>1, <3>2
  <2> QED
    BY <2>1, ReceivedKeeps, ContractTurns
<1>3. CASE \/ AskRefused \/ CallCapped \/ CallStarts \/ CallsDone
           \/ \E a \in Answers : CallReturns(a)
  <2>1. phase # "rest" /\ phase' # "rest" /\ turns' = turns
    BY <1>3 DEF AskRefused, CallCapped, CallStarts, CallReturns, CallsDone
  <2>2. inv'.from = inv.from
    BY <1>3, CallsKeep DEF KeepsInvocation
  <2> QED
    BY <2>1, <2>2, ContractStutters
<1>4. CASE StepEnds
  <2>1. /\ phase = "post" /\ turns' = turns /\ inv' = inv
        /\ phase' # "rest" \/ <<status', stop'>> \in Contract!Results
    BY <1>4, StepEndsOutcome
  <2> QED
    BY <2>1, ContractStutters, ContractFinishes
<1>5. CASE \E typed, full \in BOOLEAN : AtHead(typed, full)
  <2> PICK typed, full \in BOOLEAN : AtHead(typed, full)
    BY <1>5
  <2>1. CASE HeadStops(typed)
    <3>1. /\ phase = "head" /\ status' = "error" /\ stop' = "budget"
          /\ inv' = inv /\ turns' = turns
      BY <2>1 DEF HeadStops, LeaveWith, Ends
    <3> QED
      BY <3>1, OutcomesAre, ContractStutters, ContractFinishes
  <2>2. CASE HeadSteps(typed, full)
    <3>1. phase = "head" /\ phase' \in {"post", "request"} /\ turns' = turns
      BY <2>2 DEF HeadSteps
    <3>2. inv'.from = inv.from
      BY <2>2 DEF HeadSteps, WellTyped, TypeOK, Invocation
    <3> QED
      BY <3>1, <3>2, ContractStutters
  <2> QED
    BY <2>1, <2>2 DEF AtHead
<1>6. CASE \E ok \in BOOLEAN : Connect(ok) \/ Close(ok) \/ Unwind(ok)
  <2> PICK ok \in BOOLEAN : Connect(ok) \/ Close(ok) \/ Unwind(ok)
    BY <1>6
  <2>1. phase # "rest" /\ turns' = turns /\ inv' = inv
    BY DEF Connect, Close, Unwind
  <2>2. phase' # "rest" \/ <<status', stop'>> \in Contract!Results
    <3>1. CASE Connect(ok)
      BY <3>1, OutcomesAre DEF Connect, LeaveWith, Ends
    <3>2. CASE Close(ok)
      BY <3>2, OutcomesAre DEF Close, LeaveWith, Ends, OutcomeInv
    <3>3. CASE Unwind(ok)
      <4>1. inv.stopped \in {None, "timeout", "interrupted"}
        BY DEF WellTyped, TypeOK, Invocation
      <4> QED
        BY <3>3, <4>1, OutcomesAre DEF Unwind, LeaveWith, Ends
    <3> QED
      BY <3>1, <3>2, <3>3
  <2> QED
    BY <2>1, <2>2, ContractStutters, ContractFinishes
<1>7. CASE (\E valid \in BOOLEAN : Discover(valid)) \/ RequestRetried
  <2>1. phase # "rest" /\ phase' # "rest" /\ turns' = turns
    BY <1>7 DEF Discover, RequestRetried
  <2>2. inv'.from = inv.from
    BY <1>7 DEF Discover, RequestRetried, WellTyped, TypeOK, Invocation
  <2> QED
    BY <2>1, <2>2, ContractStutters
<1>8. CASE DiscoveryFails \/ RequestFails
  <2>1. phase \in {"discover", "request"} /\ inv' = inv /\ turns' = turns
        /\ status' = "error" /\ stop' \in {None, "max_turns"}
    BY <1>8 DEF DiscoveryFails, RequestFails, LeaveWith, Ends, SummaryOutcome
  <2> QED
    BY <2>1, OutcomesAre, ContractStutters, ContractFinishes
<1>9. CASE \E schema \in RunSchemas, tokens \in TokenLimits, usd \in UsdLimits :
             Start(schema, tokens, usd)
  <2>1. /\ phase = "rest" /\ status = "working" /\ stop = None
        /\ inv'.from = turns /\ turns' = turns
    BY <1>9 DEF Start, NewInvocation, OutcomeInv
  <2>2. turns - turns = 0
    BY Counts
  <2>3. CASE phase' = "rest"
    <3>1. status' = "error" /\ stop' = "budget"
      BY <1>9, <2>3 DEF Start, LeaveWith, Ends
    <3>2. Contract!Finish
      BY <2>1, <2>2, <2>3, <3>1, OutcomesAre DEF Contract!Finish
    <3> QED
      BY <3>2 DEF Contract!ContractNext
  <2>4. CASE phase' # "rest"
    BY <2>1, <2>2, <2>4 DEF Contract!contractVars
  <2> QED
    BY <2>3, <2>4
<1>10. CASE \E text \in BOOLEAN : Reopen(text)
  <2>1. phase = "rest" /\ phase' = "rest" /\ status # "working" /\ status' = "working"
        /\ stop' = None
    BY <1>10 DEF Reopen, LeaveWith, Ends
  <2>2. Contract!Reopens
    BY <2>1 DEF Contract!Reopens
  <2> QED
    BY <2>2 DEF Contract!ContractNext
<1>11. CASE \E reason \in {"timeout", "interrupted"} : Stop(reason)
  <2> PICK reason \in {"timeout", "interrupted"} : Stop(reason)
    BY <1>11
  <2>1. /\ phase # "rest" /\ turns' = turns /\ inv'.from = inv.from
        /\ phase' # "rest" \/ (status' = "error" /\ stop' \in {"timeout", "interrupted"})
    BY StopOutcome
  <2> QED
    BY <2>1, OutcomesAre, ContractStutters, ContractFinishes
<1> QED
  BY <1>1, <1>2, <1>3, <1>4, <1>5, <1>6, <1>7, <1>8, <1>9, <1>10, <1>11 DEF Next, Loop, Host

(* The loop implements the contract: whatever the model replies and        *)
(* whenever it is stopped, a caller sees turns within the limit, an        *)
(* outcome the contract lists, and a finished session reopened.            *)
THEOREM LoopKeepsContract == Spec => KeepsContract
<1>1. Init => Contract!ContractInit
  BY ContractInitially
<1>2. Spec => [](WellTyped /\ LimitsInv /\ OutcomeInv)
  BY TypeInit, TypeStep, LimitsInit, LimitsStep, OutcomeInit, OutcomeStep, PTL DEF Spec
<1>3. WellTyped /\ LimitsInv /\ OutcomeInv /\ OutcomeInv' /\ [Next]_vars
        => [Contract!ContractNext]_(Contract!contractVars)
  BY ContractStep
<1> QED
  BY <1>1, <1>2, <1>3, PTL DEF Spec, KeepsContract, Contract!ContractSpec

-----------------------------------------------------------------------------
(***************************************************************************)
(* A run that is done, and the output it holds.                            *)
(***************************************************************************)

(* A reply appended to the transcript takes no answer out of it.           *)
LEMMA CameStays ==
  ASSUME NEW m \in Seq(Message), NEW msg \in Message, NEW name, NEW answer, Came(m, name, answer)
  PROVE  Came(Append(m, msg), name, answer)
<1> DEFINE n == Append(m, msg)
<1>1. Len(m) \in Nat /\ Len(n) = Len(m) + 1 /\ \A i \in 1 .. Len(m) : n[i] = m[i]
  OBVIOUS
<1> HIDE DEF n
<1>2. PICK i \in 1 .. Len(m) - 1 : \E k \in 1 .. Len(m[i].calls) :
        m[i].calls[k] = name /\ k <= Len(m[i + 1].answers) /\ m[i + 1].answers[k] = answer
  BY DEF Came
<1>3. i \in 1 .. Len(n) - 1 /\ n[i] = m[i] /\ n[i + 1] = m[i + 1]
  BY <1>1
<1>4. Came(n, name, answer)
  BY <1>2, <1>3 DEF Came
<1> QED
  BY <1>4 DEF n

(* What done asks of the session.                                          *)
Earned ==
  /\ EndsWith(messages, "assistant") /\ Unanswered(messages) = << >>
  /\ stop = "end_turn"
  /\ inv.schema # None => output = inv.schema /\ stated = inv.schema
  /\ ReadsRequired => Came(messages, "read", "ok")

(* A finished reply that is kept ends the transcript, with no call open.   *)
LEMMA FinishedIsLast ==
  ASSUME WellTyped, NEW r \in Replies, NEW cost \in Costs, Received(r, cost), Final(r), Natural(r)
  PROVE  /\ Kept(r) = Append(messages, AssistantTurn(r.calls))
         /\ EndsWith(Kept(r), "assistant") /\ Unanswered(Kept(r)) = << >>
         /\ Came(messages, "read", "ok") => Came(Kept(r), "read", "ok")
<1>1. Kept(r) = Append(messages, AssistantTurn(r.calls))
  BY DEF Kept, Corrected, Natural, Unfinished
<1>2. AssistantTurn(r.calls) \in Message /\ messages \in Seq(Message)
  BY ReplyType, TurnsAreMessages DEF WellTyped, TypeOK
<1>3. Kept(r)[Len(Kept(r))] = AssistantTurn(r.calls) /\ Kept(r) # << >>
  BY <1>1, <1>2
<1>4. EndsWith(Kept(r), "assistant")
  BY <1>3 DEF EndsWith, AssistantTurn
<1>5. Unanswered(Kept(r)) = << >>
  BY <1>3, <1>4 DEF Unanswered, AssistantTurn, Final
<1>6. Came(messages, "read", "ok") => Came(Kept(r), "read", "ok")
  BY <1>1, <1>2, CameStays
<1> QED
  BY <1>1, <1>4, <1>5, <1>6

(* Done is decided on a finished reply alone: owed reads were made, and    *)
(* the output is of the schema in force.                                   *)
LEMMA DoneOwesNothing ==
  ASSUME WellTyped, OutcomeInv, NEW r \in Replies, NEW cost \in Costs, status' = "done",
         \/ ReplyCutOff(r, cost)
         \/ ReplyWithoutAnswer(r, cost)
         \/ ReplyInText(r, cost)
         \/ ReplySummarises(r, cost)
         \/ \E found \in 0 .. MaxErrors : ReplyAnswers(r, cost, found)
         \/ CheckRaises(r, cost)
         \/ ReplyCallsRefused(r, cost)
  PROVE  /\ ReadsRequired => Came(messages, "read", "ok")
         /\ inv.schema # None => output' = inv.schema
         /\ stop' = r.stop
<1>1. status = "working"
  <2>1. phase = "request"
    BY ReplyOutcome, ReceivedKeeps
  <2> QED
    BY <2>1 DEF OutcomeInv, Underway
<1>2. CASE ReplyInText(r, cost)
  BY <1>1, <1>2 DEF ReplyInText, Hold, Owed, Decide, LeaveWith, Ends
<1>3. ASSUME NEW found \in 0 .. MaxErrors, ReplyAnswers(r, cost, found)
      PROVE  /\ ReadsRequired => Came(messages, "read", "ok")
             /\ inv.schema # None => output' = inv.schema
             /\ stop' = r.stop
  BY <1>1, <1>3 DEF ReplyAnswers, Hold, Owed, Decide, LeaveWith, Ends
<1>4. CASE \/ ReplyCutOff(r, cost) \/ ReplyWithoutAnswer(r, cost) \/ ReplySummarises(r, cost)
           \/ CheckRaises(r, cost) \/ ReplyCallsRefused(r, cost)
  BY <1>1, <1>4 DEF ReplyCutOff, ReplyWithoutAnswer, ReplySummarises, CheckRaises,
                    ReplyCallsRefused, Decide, LeaveWith, Ends
<1> QED
  BY <1>2, <1>3, <1>4

(* A reply retains a document under the schema in force, or the output.    *)
LEMMA ReplyOutput ==
  ASSUME WellTyped, EarnedInv, NEW r \in Replies, NEW cost \in Costs, Received(r, cost),
         \/ ReplyCutOff(r, cost)
         \/ ReplyWithoutAnswer(r, cost)
         \/ ReplyInText(r, cost)
         \/ ReplySummarises(r, cost)
         \/ \E found \in 0 .. MaxErrors : ReplyAnswers(r, cost, found)
         \/ CheckRaises(r, cost)
         \/ ReplyCallsRefused(r, cost)
         \/ ReplyCalls(r, cost)
  PROVE  /\ OutputIsCurrent' /\ (stated' = None => output' = None)
         /\ inv'.schema # None => stated' = inv'.schema
<1>1. stated' = stated /\ inv'.schema = inv.schema /\ phase = "request"
  BY ReceivedKeeps
<1>2. inv.schema # None => stated = inv.schema
  BY <1>1 DEF EarnedInv
<1>3. output' = Retained(r) \/ (output' = inv.schema /\ inv.schema # None)
  <2>1. ASSUME NEW found \in 0 .. MaxErrors, ReplyAnswers(r, cost, found)
        PROVE  output' = Retained(r) \/ (output' = inv.schema /\ inv.schema # None)
    BY <2>1 DEF ReplyAnswers, Hold, Decide
  <2>2. CASE \/ ReplyCutOff(r, cost) \/ ReplyWithoutAnswer(r, cost) \/ ReplyInText(r, cost)
             \/ ReplySummarises(r, cost) \/ CheckRaises(r, cost) \/ ReplyCallsRefused(r, cost)
             \/ ReplyCalls(r, cost)
    BY <2>2 DEF ReplyCutOff, ReplyWithoutAnswer, ReplyInText, ReplySummarises, CheckRaises,
                ReplyCallsRefused, ReplyCalls, Hold, Decide
  <2> QED
    BY <2>1, <2>2
<1>4. Retained(r) \in {inv.schema, output} /\ (Retained(r) # output => inv.schema # None)
  BY DEF Retained
<1> QED
  BY <1>1, <1>2, <1>3, <1>4 DEF EarnedInv, OutputIsCurrent

LEMMA EarnedInit == Init => EarnedInv
BY DEF Init, NewSession, OldSession, EarnedInv, OutputIsCurrent, NewInvocation

(* A step that is done neither before nor after it.                        *)
LEMMA EarnedUndone ==
  ASSUME EarnedInv, status' # "done", UNCHANGED <<output, stated>>, inv'.schema = inv.schema,
         phase' \in {"head", "request", "call", "running", "post"}
           => phase \in {"head", "request", "call", "running", "post"}
  PROVE  EarnedInv'
BY DEF EarnedInv, OutputIsCurrent

(* One that leaves what done asks for as it is.                            *)
LEMMA EarnedStays ==
  ASSUME EarnedInv, UNCHANGED <<output, stated, messages>>, inv'.schema = inv.schema,
         status' = "done" => status = "done" /\ stop' = stop,
         phase' \in {"head", "request", "call", "running", "post"}
           => phase \in {"head", "request", "call", "running", "post"}
  PROVE  EarnedInv'
BY DEF EarnedInv, OutputIsCurrent

LEMMA EarnedStep == WellTyped /\ OutcomeInv /\ EarnedInv /\ [Next]_vars => EarnedInv'
<1> SUFFICES ASSUME WellTyped, OutcomeInv, EarnedInv, [Next]_vars
             PROVE  EarnedInv'
  OBVIOUS
<1>1. CASE UNCHANGED vars
  BY <1>1 DEF vars, EarnedInv, OutputIsCurrent
<1>2. CASE ReplyComes
  <2> PICK r \in Replies, cost \in Costs :
        \/ ReplyCutOff(r, cost)
        \/ ReplyWithoutAnswer(r, cost)
        \/ ReplyInText(r, cost)
        \/ ReplySummarises(r, cost)
        \/ \E found \in 0 .. MaxErrors : ReplyAnswers(r, cost, found)
        \/ CheckRaises(r, cost)
        \/ ReplyCallsRefused(r, cost)
        \/ ReplyCalls(r, cost)
    BY <1>2 DEF ReplyComes
  <2>1. Received(r, cost)
    <3>1. CASE ReplyCalls(r, cost)
      BY <3>1 DEF ReplyCalls
    <3>2. CASE ~ ReplyCalls(r, cost)
      BY <3>2, ReplyOutcome
    <3> QED
      BY <3>1, <3>2
  <2>2. /\ OutputIsCurrent' /\ (stated' = None => output' = None)
        /\ inv'.schema # None => stated' = inv'.schema
    BY <2>1, ReplyOutput
  <2>3. CASE ReplyCalls(r, cost)
    <3>1. status' = status /\ status = "working"
      BY <2>1, <2>3, ReceivedKeeps DEF ReplyCalls, OutcomeInv, Underway
    <3> QED
      BY <2>2, <3>1 DEF EarnedInv
  <2>4. CASE ~ ReplyCalls(r, cost)
    <3>1. ASSUME status' = "done"
          PROVE  Earned'
      <4>1. Final(r) /\ Natural(r) /\ messages' = Kept(r)
        BY <2>4, <3>1, ReplyOutcome
      <4>2. /\ ReadsRequired => Came(messages, "read", "ok")
            /\ inv.schema # None => output' = inv.schema
            /\ stop' = r.stop
        BY <2>4, <3>1, DoneOwesNothing
      <4>3. /\ EndsWith(messages', "assistant") /\ Unanswered(messages') = << >>
            /\ ReadsRequired => Came(messages', "read", "ok")
        BY <2>1, <4>1, <4>2, FinishedIsLast
      <4>4. stop' = "end_turn"
        BY <4>1, <4>2, StopsAre
      <4>5. inv'.schema # None => output' = inv'.schema /\ stated' = inv'.schema
        BY <2>1, <2>2, <4>2, ReceivedKeeps
      <4> QED
        BY <4>3, <4>4, <4>5 DEF Earned
    <3> QED
      BY <2>2, <3>1 DEF EarnedInv, Earned
  <2> QED
    BY <2>3, <2>4
<1>3. CASE \/ AskRefused \/ CallCapped \/ CallStarts \/ CallsDone
           \/ \E a \in Answers : CallReturns(a)
  <2>1. /\ phase \in {"call", "running"} /\ status' \in {status, "blocked"}
        /\ UNCHANGED <<output, stated>>
    BY <1>3 DEF AskRefused, CallCapped, CallStarts, CallReturns, CallsDone
  <2>2. inv'.schema = inv.schema
    BY <1>3, CallsKeep DEF KeepsInvocation
  <2>3. status = "working"
    BY <2>1 DEF OutcomeInv, Underway
  <2> QED
    BY <2>1, <2>2, <2>3, EarnedUndone
<1>4. CASE StepEnds
  <2>1. /\ UNCHANGED <<messages, inv, output, stated>> /\ phase = "post"
        /\ status' = "done" => status = "done" /\ stop' = stop
    BY <1>4, StepEndsOutcome
  <2> QED
    BY <2>1, EarnedStays
<1>5. CASE \E typed, full \in BOOLEAN : AtHead(typed, full)
  <2> PICK typed, full \in BOOLEAN : AtHead(typed, full)
    BY <1>5
  <2>1. phase = "head" /\ status = "working" /\ UNCHANGED <<output, stated>>
        /\ status' \in {status, "error"}
    BY DEF AtHead, HeadStops, HeadSteps, LeaveWith, Ends, OutcomeInv, Underway
  <2>2. inv'.schema = inv.schema
    BY HeadKeeps DEF KeepsInvocation
  <2> QED
    BY <2>1, <2>2, EarnedUndone
<1>6. CASE \E valid \in BOOLEAN : Discover(valid)
  <2>1. phase = "discover" /\ status = "working" /\ status' = status /\ inv' = inv
    BY <1>6 DEF Discover, OutcomeInv, Underway
  <2> PICK valid \in BOOLEAN : Discover(valid)
    BY <1>6
  <2>2. CASE inv.schema = None
    <3>1. UNCHANGED <<output, stated>>
      BY <2>2 DEF Discover, StateSchema
    <3> QED
      BY <2>1, <2>2, <3>1 DEF EarnedInv, OutputIsCurrent
  <2>3. CASE inv.schema # None
    <3>1. stated' = inv.schema
      BY <2>3 DEF Discover, StateSchema
    <3>2. output' \in {None, inv.schema, Unrecorded}
      <4>1. CASE stated \in {inv.schema, Unrecorded}
        <5>1. output' = output /\ output \in {None, stated, Unrecorded}
          BY <2>3, <4>1 DEF Discover, StateSchema, EarnedInv, OutputIsCurrent
        <5> QED
          BY <4>1, <5>1
      <4>2. CASE stated \notin {inv.schema, Unrecorded}
        BY <2>3, <4>2 DEF Discover, StateSchema
      <4> QED
        BY <4>1, <4>2
    <3> QED
      BY <2>1, <2>3, <3>1, <3>2 DEF EarnedInv, OutputIsCurrent
  <2> QED
    BY <2>2, <2>3
<1>7. CASE \/ \E ok \in BOOLEAN : Connect(ok) \/ Close(ok) \/ Unwind(ok)
           \/ DiscoveryFails \/ RequestFails \/ RequestRetried
  <2>1. /\ UNCHANGED <<output, stated, messages>>
        /\ phase' \in {"head", "request", "call", "running", "post"}
             => phase \in {"head", "request", "call", "running", "post"}
    BY <1>7 DEF Connect, Close, Unwind, DiscoveryFails, RequestFails, RequestRetried, AfterLoop
  <2>2. inv'.schema = inv.schema
    <3>1. inv \in Invocation
      BY DEF WellTyped, TypeOK
    <3>2. \/ inv' = inv \/ inv' = [inv EXCEPT !.retries = @ + 1]
          \/ \E why : inv' = [inv EXCEPT !.stopped = why]
      BY <1>7 DEF Connect, Close, Unwind, DiscoveryFails, RequestFails, RequestRetried
    <3> QED
      BY <3>1, <3>2 DEF Invocation
  <2>3. status' = "error" \/ UNCHANGED <<status, stop>>
    BY <1>7 DEF Connect, Close, Unwind, DiscoveryFails, RequestFails, RequestRetried, LeaveWith,
                Ends, SummaryOutcome
  <2> QED
    BY <2>1, <2>2, <2>3, EarnedStays
<1>8. CASE \E schema \in RunSchemas, tokens \in TokenLimits, usd \in UsdLimits :
             Start(schema, tokens, usd)
  <2>1. /\ status = "working" /\ status' \in {status, "error"} /\ UNCHANGED <<output, stated>>
        /\ phase' \in {"rest", "connect", "discover"}
    BY <1>8 DEF Start, LeaveWith, Ends
  <2> QED
    BY <2>1 DEF EarnedInv, OutputIsCurrent
<1>9. CASE \E text \in BOOLEAN : Reopen(text)
  <2>1. status' = "working" /\ UNCHANGED <<output, stated, inv, phase>>
    BY <1>9 DEF Reopen, LeaveWith, Ends
  <2> QED
    BY <2>1, EarnedUndone
<1>10. CASE \E reason \in {"timeout", "interrupted"} : Stop(reason)
  <2> PICK reason \in {"timeout", "interrupted"} : Stop(reason)
    BY <1>10
  <2>1. /\ UNCHANGED <<output, stated>> /\ inv'.schema = inv.schema /\ phase' \in {"rest", "unwind"}
        /\ status' = "error" \/ UNCHANGED <<status, stop>>
    BY StopOutcome
  <2>2. CASE phase = "running"
    <3>1. status = "working"
      BY <2>2 DEF OutcomeInv, Underway
    <3> QED
      BY <2>1, <3>1, EarnedUndone
  <2>3. CASE phase # "running"
    <3>1. messages' = messages
      BY <2>3 DEF Stop, Interrupted
    <3> QED
      BY <2>1, <3>1, EarnedStays
  <2> QED
    BY <2>2, <2>3
<1> QED
  BY <1>1, <1>2, <1>3, <1>4, <1>5, <1>6, <1>7, <1>8, <1>9, <1>10 DEF Next, Loop, Host

LEMMA EarnedHolds == Spec => [](WellTyped /\ OutcomeInv /\ EarnedInv)
BY TypeInit, TypeStep, OutcomeInit, OutcomeStep, EarnedInit, EarnedStep, PTL DEF Spec

(* A run reported done ends on a finished reply, read what it had to, and  *)
(* holds a document of the schema in force, however the turns before went. *)
THEOREM DoneIsAlwaysEarned == Spec => []DoneIsEarned
<1>1. EarnedInv => DoneIsEarned
  BY DEF EarnedInv, DoneIsEarned
<1> QED
  BY <1>1, EarnedHolds, PTL

(* The output a session keeps is of the schema the model was last told.    *)
THEOREM OutputIsAlwaysCurrent == Spec => []OutputIsCurrent
<1>1. EarnedInv => OutputIsCurrent
  BY DEF EarnedInv
<1> QED
  BY <1>1, EarnedHolds, PTL

-----------------------------------------------------------------------------
(***************************************************************************)
(* Recorded asks.                                                          *)
(***************************************************************************)
Replying(m) == \A i \in 1 .. Len(m) : m[i].role = "assistant" => m[i].answers = << >>

QuietAfter(m, at) == \A i \in at + 1 .. Len(m) : ~ HasRecorded(m[i])

(* n is m with messages after it that record no ask.                       *)
Quietly(m, n) ==
  /\ n \in Seq(Message) /\ Len(m) <= Len(n)
  /\ \A i \in 1 .. Len(m) : n[i].role = m[i].role /\ n[i].answers = m[i].answers
  /\ \A i \in Len(m) + 1 .. Len(n) :
       /\ ~ HasRecorded(n[i])
       /\ n[i].role = "assistant" => n[i].answers = << >>

LEMMA QuietlyKeeps ==
  ASSUME NEW m \in Seq(Message), NEW n, Quietly(m, n), NEW at \in Nat, at <= Len(m)
  PROVE  /\ at <= Len(n)
         /\ Replying(m) => Replying(n)
         /\ QuietAfter(m, at) => QuietAfter(n, at)
<1>1. Len(m) \in Nat /\ Len(n) \in Nat /\ Len(m) <= Len(n)
  BY DEF Quietly
<1>2. \A i \in 1 .. Len(n) : i \in 1 .. Len(m) \/ i \in Len(m) + 1 .. Len(n)
  BY <1>1
<1>3. ASSUME Replying(m), NEW i \in 1 .. Len(n), n[i].role = "assistant"
      PROVE  n[i].answers = << >>
  BY <1>2, <1>3 DEF Quietly, Replying
<1>4. ASSUME QuietAfter(m, at), NEW i \in at + 1 .. Len(n)
      PROVE  ~ HasRecorded(n[i])
  <2>1. CASE i \in Len(m) + 1 .. Len(n)
    BY <2>1 DEF Quietly
  <2>2. CASE i \in 1 .. Len(m)
    <3>1. i \in at + 1 .. Len(m)
      BY <1>1, <2>2
    <3>2. n[i].answers = m[i].answers
      BY <2>2 DEF Quietly
    <3> QED
      BY <1>4, <3>1, <3>2 DEF QuietAfter, HasRecorded
  <2>3. i \in 1 .. Len(n)
    BY <1>1
  <2> QED
    BY <1>2, <2>1, <2>2, <2>3
<1> QED
  BY <1>1, <1>3, <1>4 DEF Replying, QuietAfter

LEMMA QuietlyAgain ==
  ASSUME NEW m \in Seq(Message), NEW n, NEW o, Quietly(m, n), Quietly(n, o)
  PROVE  Quietly(m, o)
<1>1. /\ Len(m) \in Nat /\ Len(n) \in Nat /\ Len(o) \in Nat
      /\ Len(m) <= Len(n) /\ Len(n) <= Len(o) /\ o \in Seq(Message)
  BY DEF Quietly
<1>2. ASSUME NEW i \in 1 .. Len(m)
      PROVE  o[i].role = m[i].role /\ o[i].answers = m[i].answers
  <2>1. i \in 1 .. Len(n)
    BY <1>1
  <2> QED
    BY <2>1 DEF Quietly
<1>3. ASSUME NEW i \in Len(m) + 1 .. Len(o)
      PROVE  /\ ~ HasRecorded(o[i])
             /\ o[i].role = "assistant" => o[i].answers = << >>
  <2>1. CASE i \in Len(n) + 1 .. Len(o)
    BY <2>1 DEF Quietly
  <2>2. CASE i \in Len(m) + 1 .. Len(n)
    <3>1. i \in 1 .. Len(n)
      BY <1>1, <2>2
    <3>2. o[i].role = n[i].role /\ o[i].answers = n[i].answers
      BY <3>1 DEF Quietly
    <3>3. ~ HasRecorded(n[i]) /\ (n[i].role = "assistant" => n[i].answers = << >>)
      BY <2>2 DEF Quietly
    <3> QED
      BY <3>2, <3>3 DEF HasRecorded
  <2>3. i \in Len(n) + 1 .. Len(o) \/ i \in Len(m) + 1 .. Len(n)
    BY <1>1
  <2> QED
    BY <2>1, <2>2, <2>3
<1> QED
  BY <1>1, <1>2, <1>3 DEF Quietly

LEMMA QuietlyOneMore ==
  ASSUME NEW m \in Seq(Message), NEW msg \in Message, ~ HasRecorded(msg),
         msg.role = "assistant" => msg.answers = << >>
  PROVE  Quietly(m, Append(m, msg))
<1> DEFINE n == Append(m, msg)
<1>1. /\ n \in Seq(Message) /\ Len(m) \in Nat /\ Len(n) = Len(m) + 1
      /\ \A i \in 1 .. Len(m) : n[i] = m[i]
      /\ n[Len(m) + 1] = msg
  OBVIOUS
<1> HIDE DEF n
<1>2. \A i \in Len(m) + 1 .. Len(n) : i = Len(m) + 1
  BY <1>1
<1>3. Quietly(m, n)
  BY <1>1, <1>2 DEF Quietly
<1> QED
  BY <1>3 DEF n

(* A text merged into the last message, or in one of its own.              *)
LEMMA TextsAreQuiet ==
  ASSUME NEW m \in Seq(Message)
  PROVE  Quietly(m, AppendUserText(m))
<1>1. CASE EndsWith(m, "user")
  <2>1. AppendUserText(m) = m /\ Len(m) \in Nat
    BY <1>1 DEF AppendUserText
  <2>2. \A i \in Len(m) + 1 .. Len(m) : FALSE
    BY <2>1
  <2> QED
    BY <2>1, <2>2 DEF Quietly
<1>2. CASE ~ EndsWith(m, "user")
  <2>1. << >> \in Seq(Answers)
    OBVIOUS
  <2>2. UserTurn(<< >>) \in Message
    BY <2>1, TurnsAreMessages
  <2>3. ~ HasRecorded(UserTurn(<< >>)) /\ UserTurn(<< >>).role = "user"
    BY DEF HasRecorded, UserTurn
  <2>4. AppendUserText(m) = Append(m, UserTurn(<< >>))
    BY <1>2 DEF AppendUserText
  <2> QED
    BY <2>2, <2>3, <2>4, QuietlyOneMore
<1> QED
  BY <1>1, <1>2

LEMMA RepliesAreQuiet ==
  ASSUME NEW m \in Seq(Message), NEW calls \in Seq(CallNames)
  PROVE  Quietly(m, Append(m, AssistantTurn(calls)))
<1>1. AssistantTurn(calls) \in Message
  BY TurnsAreMessages
<1>2. AssistantTurn(calls).answers = << >> /\ ~ HasRecorded(AssistantTurn(calls))
  BY DEF AssistantTurn, HasRecorded
<1> QED
  BY <1>1, <1>2, QuietlyOneMore

LEMMA AnswersAreQuiet ==
  ASSUME NEW m \in Seq(Message), NEW a \in Seq(Answers), \A k \in 1 .. Len(a) : a[k] # "recorded"
  PROVE  Quietly(m, Append(m, UserTurn(a)))
<1>1. UserTurn(a) \in Message
  BY TurnsAreMessages
<1>2. ~ HasRecorded(UserTurn(a)) /\ UserTurn(a).role = "user"
  BY DEF HasRecorded, UserTurn
<1> QED
  BY <1>1, <1>2, QuietlyOneMore

(* Nothing of a run underway is recorded yet.                              *)
LEMMA UnderwayIsQuiet ==
  ASSUME WellTyped, AsksInv, Underway
  PROVE  QuietAfter(messages, inv.at) /\ inv.at \in Nat /\ inv.at <= Len(messages)
<1>1. phase \notin {"post", "close", "unwind", "rest"}
  BY DEF Underway
<1>2. \A i \in inv.at + 1 .. Len(messages) : ~ HasRecorded(messages[i])
  BY <1>1 DEF AsksInv, AsksEndTheRun
<1>3. inv.at \in Nat
  BY DEF WellTyped, TypeOK, Invocation
<1> QED
  BY <1>2, <1>3 DEF QuietAfter, AsksInv

(* The answers of a dispatch, as far as asks go.                           *)
AskAnswers(calls, answers) ==
  \A k \in 1 .. Len(answers) : /\ answers[k] = "recorded" => OnlyAsks(calls)
                               /\ answers[k] = "ok" => calls[k] # "ask"

(* A step of a run underway that adds no recorded ask, and blocks nothing. *)
LEMMA AsksQuietly ==
  ASSUME WellTyped, AsksInv, Underway, Quietly(messages, messages'), inv'.at = inv.at,
         status' # "blocked",
         Dispatching' => AskAnswers(Calls', results'),
         (phase = "running" /\ NextCall = "ask" /\ AskAllowed => OnlyAsks(Calls))'
  PROVE  AsksInv'
<1>1. QuietAfter(messages, inv.at) /\ inv.at \in Nat /\ inv.at <= Len(messages)
  BY UnderwayIsQuiet
<1>2. messages \in Seq(Message) /\ Replying(messages)
  BY DEF WellTyped, TypeOK, AsksInv, Replying
<1>3. QuietAfter(messages', inv'.at) /\ inv'.at <= Len(messages') /\ Replying(messages')
  BY <1>1, <1>2, QuietlyKeeps
<1>4. AsksEndTheRun'
  BY <1>3 DEF AsksEndTheRun, QuietAfter
<1> QED
  BY <1>3, <1>4 DEF AsksInv, Replying, AskAnswers

(* What a reply of asks alone delivers: all of them recorded, or none.     *)
LEMMA DeliveredIs ==
  ASSUME NEW calls \in Seq(CallNames), NEW answers \in Seq(Answers), Len(answers) = Len(calls),
         AskAnswers(calls, answers)
  PROVE  /\ Blocks(calls, answers) => Delivered(calls, answers) = answers
                                      /\ \A k \in 1 .. Len(answers) : answers[k] = "recorded"
         /\ ~ Blocks(calls, answers) => \A k \in 1 .. Len(answers) :
                                           Delivered(calls, answers)[k] # "recorded"
<1>1. ASSUME Blocks(calls, answers)
      PROVE  Delivered(calls, answers) = answers
             /\ \A k \in 1 .. Len(answers) : answers[k] = "recorded"
  <2>1. OnlyAsks(calls) /\ ~ Failed(answers)
    BY <1>1 DEF Blocks
  <2>2. ASSUME NEW k \in 1 .. Len(answers)
        PROVE  answers[k] = "recorded"
    <3>1. answers[k] \in {"ok", "recorded"}
      BY <2>1 DEF Failed, IsError
    <3>2. calls[k] = "ask"
      BY <2>1 DEF OnlyAsks
    <3> QED
      BY <3>1, <3>2 DEF AskAnswers
  <2> QED
    BY <2>1, <2>2 DEF Delivered
<1>2. ASSUME ~ Blocks(calls, answers), NEW k \in 1 .. Len(answers)
      PROVE  Delivered(calls, answers)[k] # "recorded"
  <2>1. CASE OnlyAsks(calls)
    <3>1. Delivered(calls, answers) = [i \in 1 .. Len(answers) |->
            IF IsError(answers[i]) THEN answers[i] ELSE "not_delivered"]
      BY <1>2, <2>1 DEF Blocks, Delivered
    <3>2. Delivered(calls, answers)[k] = IF IsError(answers[k]) THEN answers[k] ELSE "not_delivered"
      BY <3>1
    <3> QED
      BY <3>2 DEF IsError
  <2>2. CASE ~ OnlyAsks(calls)
    BY <2>2 DEF Delivered, AskAnswers
  <2> QED
    BY <2>1, <2>2
<1> QED
  BY <1>1, <1>2

(* Answers that do not block record no ask.                                *)
LEMMA UnblockedIsQuiet ==
  ASSUME NEW m \in Seq(Message), m # << >>, NEW a \in Seq(Answers),
         Len(a) = Len(m[Len(m)].calls), AskAnswers(m[Len(m)].calls, a),
         ~ Blocks(m[Len(m)].calls, a)
  PROVE  Quietly(m, WithAnswers(m, a))
<1> DEFINE calls == m[Len(m)].calls
           d == Delivered(calls, a)
<1>1. calls \in Seq(CallNames)
  BY CallsType
<1> HIDE DEF calls
<1>2. d \in Seq(Answers) /\ Len(d) = Len(a)
  BY <1>1, DispatchAnswers
<1>3. \A k \in 1 .. Len(a) : d[k] # "recorded"
  BY <1>1, DeliveredIs DEF calls
<1> HIDE DEF d
<1>4. Quietly(m, Append(m, UserTurn(d)))
  BY <1>2, <1>3, AnswersAreQuiet
<1> QED
  BY <1>4 DEF WithAnswers, d, calls

(* What a reply leaves records no ask.                                     *)
LEMMA ReplyIsQuiet ==
  ASSUME WellTyped, NEW r \in Replies, NEW cost \in Costs, Received(r, cost),
         \/ ReplyCutOff(r, cost)
         \/ ReplyWithoutAnswer(r, cost)
         \/ ReplyInText(r, cost)
         \/ ReplySummarises(r, cost)
         \/ \E found \in 0 .. MaxErrors : ReplyAnswers(r, cost, found)
         \/ CheckRaises(r, cost)
         \/ ReplyCallsRefused(r, cost)
         \/ ReplyCalls(r, cost)
  PROVE  Quietly(messages, messages')
<1>1. messages \in Seq(Message) /\ r.calls \in Seq(CallNames) /\ Kept(r) \in Seq(Message)
  BY ReplyType, ReceivedType DEF WellTyped, TypeOK
<1>2. Quietly(messages, messages)
  <2>1. Len(messages) \in Nat
    BY <1>1
  <2>2. \A i \in Len(messages) + 1 .. Len(messages) : FALSE
    BY <2>1
  <2> QED
    BY <1>1, <2>1, <2>2 DEF Quietly
<1>3. Quietly(messages, Kept(r))
  BY <1>1, <1>2, RepliesAreQuiet DEF Kept
<1> DEFINE m == Append(Kept(r), UserTurn(AllAnswered(r.calls, "not_run")))
<1>4. Quietly(messages, m)
  <2> DEFINE a == AllAnswered(r.calls, "not_run")
  <2>1. a \in Seq(Answers) /\ \A k \in 1 .. Len(a) : a[k] # "recorded"
    BY <1>1 DEF AllAnswered, Answers
  <2> HIDE DEF a
  <2>2. Quietly(Kept(r), m)
    BY <1>1, <2>1, AnswersAreQuiet DEF a
  <2> HIDE DEF m
  <2> QED
    BY <1>1, <1>3, <2>2, QuietlyAgain
<1>5. m \in Seq(Message)
  BY <1>4 DEF Quietly
<1> HIDE DEF m
<1>6. Quietly(messages, AppendUserText(Kept(r))) /\ Quietly(messages, AppendUserText(m))
  BY <1>1, <1>3, <1>4, <1>5, TextsAreQuiet, QuietlyAgain
<1>7. messages' \in {Kept(r), AppendUserText(Kept(r)), m, AppendUserText(m)}
  <2>1. ASSUME NEW found \in 0 .. MaxErrors, ReplyAnswers(r, cost, found)
        PROVE  messages' \in {Kept(r), AppendUserText(Kept(r))}
    BY <2>1 DEF ReplyAnswers, Hold, Decide
  <2>2. CASE \/ ReplyCutOff(r, cost) \/ ReplyWithoutAnswer(r, cost) \/ ReplyInText(r, cost)
             \/ ReplySummarises(r, cost) \/ CheckRaises(r, cost) \/ ReplyCalls(r, cost)
    BY <2>2 DEF ReplyCutOff, ReplyWithoutAnswer, ReplyInText, ReplySummarises, CheckRaises,
                ReplyCalls, Hold, Decide
  <2>3. CASE ReplyCallsRefused(r, cost)
    BY <2>3 DEF ReplyCallsRefused, Decide, m
  <2> QED
    BY <2>1, <2>2, <2>3
<1> QED
  BY <1>3, <1>4, <1>6, <1>7

LEMMA SameIsQuiet ==
  ASSUME NEW m \in Seq(Message)
  PROVE  Quietly(m, m)
<1>1. Len(m) \in Nat
  OBVIOUS
<1>2. \A i \in Len(m) + 1 .. Len(m) : FALSE
  BY <1>1
<1> QED
  BY <1>1, <1>2 DEF Quietly

(* A dispatch's steps record asks in a reply of asks alone.                *)
LEMMA AsksDispatch ==
  ASSUME WellTyped, OutcomeInv, TranscriptInv, AsksInv, NEW a \in Answers,
         AskRefused \/ CallCapped \/ CallStarts \/ CallReturns(a)
  PROVE  AsksInv'
<1>1. /\ Underway /\ messages' = messages /\ status' = "working" /\ Dispatching
      /\ Len(results) < Len(Calls)
  BY DEF AskRefused, CallCapped, CallStarts, CallReturns, Underway, OutcomeInv, Dispatching,
         TranscriptInv
<1>2. inv'.at = inv.at
  BY CallsKeep DEF KeepsInvocation
<1>3. messages \in Seq(Message) /\ results \in Seq(Answers) /\ Quietly(messages, messages)
      /\ Calls' = Calls
  BY <1>1, SameIsQuiet DEF WellTyped, TypeOK, Calls
<1>4. AskAnswers(Calls, results)
  BY <1>1 DEF AsksInv, AskAnswers
<1>5. ASSUME NEW b \in Answers, results' = Append(results, b),
             b = "recorded" => OnlyAsks(Calls), b = "ok" => NextCall # "ask"
      PROVE  AskAnswers(Calls', results')
  <2>1. /\ Len(results') = Len(results) + 1 /\ Len(results) \in Nat
        /\ \A k \in 1 .. Len(results) : results'[k] = results[k]
        /\ results'[Len(results) + 1] = b
    BY <1>3, <1>5
  <2>2. ASSUME NEW k \in 1 .. Len(results')
        PROVE  /\ results'[k] = "recorded" => OnlyAsks(Calls)
               /\ results'[k] = "ok" => Calls[k] # "ask"
    <3>1. CASE k \in 1 .. Len(results)
      BY <1>4, <2>1, <3>1 DEF AskAnswers
    <3>2. CASE k = Len(results) + 1
      BY <1>5, <2>1, <3>2 DEF NextCall
    <3> QED
      BY <2>1, <3>1, <3>2
  <2> QED
    BY <1>3, <2>2 DEF AskAnswers
<1>6. CASE AskRefused \/ CallCapped
  <2>1. results' = Append(results, "not_run") /\ phase' = phase /\ phase = "call"
    BY <1>6 DEF AskRefused, CallCapped, Answer
  <2>2. "not_run" \in Answers
    BY DEF Answers
  <2>3. AskAnswers(Calls', results')
    BY <1>5, <2>1, <2>2
  <2> QED
    BY <1>1, <1>2, <1>3, <2>1, <2>3, AsksQuietly
<1>7. CASE CallReturns(a)
  <2>1. /\ phase = "running" /\ phase' = "call" /\ results' = Append(results, a)
        /\ a \in CallAnswers(NextCall)
    BY <1>7 DEF CallReturns, Answer
  <2>2. a = "ok" => NextCall # "ask"
    BY <2>1 DEF CallAnswers
  <2>3. a = "recorded" => NextCall = "ask" /\ AskAllowed
    BY <2>1 DEF CallAnswers
  <2>4. a = "recorded" => OnlyAsks(Calls)
    BY <2>1, <2>3 DEF AsksInv
  <2>5. AskAnswers(Calls', results')
    BY <1>5, <2>1, <2>2, <2>4
  <2> QED
    BY <1>1, <1>2, <1>3, <2>1, <2>5, AsksQuietly
<1>8. CASE CallStarts
  <2>1. results' = results /\ (NextCall = "ask" /\ AskAllowed => OnlyAsks(Calls))
    BY <1>8 DEF CallStarts, AskBesideOthers
  <2>2. NextCall' = NextCall
    BY <1>3, <2>1 DEF NextCall
  <2>3. (NextCall = "ask" /\ AskAllowed => OnlyAsks(Calls))'
    BY <1>3, <2>1, <2>2
  <2> QED
    BY <1>1, <1>2, <1>3, <1>4, <2>1, <2>3, AsksQuietly
<1> QED
  BY <1>6, <1>7, <1>8

(* Delivered, the asks of a reply block the run or none is recorded.       *)
LEMMA AsksDone ==
  ASSUME WellTyped, OutcomeInv, AsksInv, TranscriptInv, CallsDone
  PROVE  AsksInv'
<1>1. /\ Underway /\ Dispatching /\ status = "working" /\ phase' = "post"
      /\ messages' = WithAnswers(messages, results)
      /\ status' = (IF Blocks(Calls, results) THEN "blocked" ELSE status)
      /\ Len(results) = Len(Calls) /\ Calls # << >>
  BY DEF CallsDone, Underway, OutcomeInv, Dispatching, TranscriptInv
<1>2. inv'.at = inv.at
  BY DEF CallsDone, WellTyped, TypeOK, Invocation
<1>3. /\ messages \in Seq(Message) /\ messages # << >> /\ results \in Seq(Answers)
      /\ Calls \in Seq(CallNames)
  BY CallsType DEF WellTyped, TypeOK, Calls
<1>4. AskAnswers(Calls, results)
  BY <1>1 DEF AsksInv, AskAnswers
<1>5. CASE ~ Blocks(Calls, results)
  <2>1. Quietly(messages, messages')
    BY <1>1, <1>3, <1>4, <1>5, UnblockedIsQuiet DEF Calls
  <2>2. status' # "blocked" /\ ~ Dispatching' /\ phase' # "running"
    BY <1>1, <1>5 DEF Dispatching
  <2> QED
    BY <1>1, <1>2, <2>1, <2>2, AsksQuietly
<1>6. CASE Blocks(Calls, results)
  <2> DEFINE msg == UserTurn(results)
  <2>1. \A k \in 1 .. Len(results) : results[k] = "recorded"
    BY <1>1, <1>3, <1>4, <1>6, DeliveredIs
  <2>2. messages' = Append(messages, msg)
    BY <1>1, <1>3, <1>4, <1>6, DeliveredIs DEF WithAnswers, Calls
  <2>3. msg.answers = results /\ msg.role = "user"
    BY DEF UserTurn
  <2> HIDE DEF msg
  <2>4. /\ Len(messages) \in Nat /\ Len(messages') = Len(messages) + 1
        /\ \A i \in 1 .. Len(messages) : messages'[i] = messages[i]
        /\ messages'[Len(messages) + 1] = msg
    <3>1. \A i \in 1 .. Len(messages) : Append(messages, msg)[i] = messages[i]
      BY <1>3
    <3>2. Len(Append(messages, msg)) = Len(messages) + 1 /\ Len(messages) \in Nat
          /\ Append(messages, msg)[Len(messages) + 1] = msg
      BY <1>3
    <3> QED
      BY <2>2, <3>1, <3>2
  <2>5. Len(results) \in Nat /\ 1 \in 1 .. Len(results)
    BY <1>1, <1>3
  <2>6. HasRecorded(msg)
    BY <2>1, <2>3, <2>5 DEF HasRecorded
  <2>7. QuietAfter(messages, inv.at) /\ inv.at \in Nat /\ inv.at <= Len(messages)
    BY <1>1, UnderwayIsQuiet
  <2>8. ASSUME NEW i \in inv.at + 1 .. Len(messages'), HasRecorded(messages'[i])
        PROVE  i = Len(messages') /\ messages'[i] = msg
    <3>1. i \in inv.at + 1 .. Len(messages) \/ i = Len(messages')
      BY <2>4, <2>7
    <3>2. i \notin inv.at + 1 .. Len(messages)
      <4> SUFFICES ASSUME i \in inv.at + 1 .. Len(messages) PROVE FALSE
        OBVIOUS
      <4>1. i \in 1 .. Len(messages)
        BY <2>4, <2>7
      <4> QED
        BY <2>4, <2>7, <2>8, <4>1 DEF QuietAfter
    <3> QED
      BY <2>4, <3>1, <3>2
  <2>9. ASSUME NEW i \in 1 .. Len(messages'), messages'[i].role = "assistant"
        PROVE  messages'[i].answers = << >>
    <3>1. i \in 1 .. Len(messages)
      BY <2>3, <2>4, <2>9
    <3> QED
      BY <2>4, <2>9, <3>1 DEF AsksInv
  <2>10. status' = "blocked" /\ phase' = "post"
    BY <1>1, <1>6
  <2>11. AsksEndTheRun'
    BY <1>2, <2>1, <2>3, <2>8, <2>10 DEF AsksEndTheRun
  <2>12. inv'.at <= Len(messages') /\ HasRecorded(messages'[Len(messages')])
    BY <1>2, <2>4, <2>6, <2>7
  <2> QED
    BY <2>9, <2>10, <2>11, <2>12 DEF AsksInv, Dispatching
<1> QED
  BY <1>5, <1>6

(* A stop: the call it interrupts is an error, so its reply does not       *)
(* block; a stop after the answers leaves them, and says so.               *)
LEMMA AsksStop ==
  ASSUME WellTyped, OutcomeInv, AsksInv, TranscriptInv,
         NEW reason \in {"timeout", "interrupted"}, Stop(reason)
  PROVE  AsksInv'
<1>1. /\ phase \in {"connect", "discover", "request", "running", "close", "post"}
      /\ inv'.stopped = reason /\ reason # None /\ inv'.at = inv.at
      /\ phase' \in {"rest", "unwind"} /\ status' \in {status, "error"}
      /\ phase' = "rest" => status' = "error"
      /\ messages' = Interrupted
  BY StopOutcome DEF Stop
<1>2. messages \in Seq(Message) /\ messages # << >> /\ results \in Seq(Answers)
      /\ Calls \in Seq(CallNames)
  BY CallsType DEF WellTyped, TypeOK, Calls
<1>3. CASE phase \in {"close", "post"}
  <2>1. messages' = messages
    BY <1>1, <1>3 DEF Interrupted
  <2>2. AsksEndTheRun'
    BY <1>1, <2>1 DEF AsksInv, AsksEndTheRun
  <2> QED
    BY <1>1, <2>1, <2>2 DEF AsksInv, Dispatching
<1>4. CASE phase = "running"
  <2> DEFINE a == AnswerRest(Calls, results)
  <2>1. Len(results) < Len(Calls) /\ AskAnswers(Calls, results) /\ Underway
        /\ status = "working"
    BY <1>4 DEF TranscriptInv, AsksInv, AskAnswers, Dispatching, Underway, OutcomeInv
  <2>2. a \in Seq(Answers) /\ Len(a) = Len(Calls)
    BY <1>2, DispatchAnswers
  <2>3. \A k \in 1 .. Len(Calls) : a[k] = IF k <= Len(results) THEN results[k] ELSE "error"
    BY DEF AnswerRest
  <2> HIDE DEF a
  <2>4. AskAnswers(Calls, a)
    <3> SUFFICES ASSUME NEW k \in 1 .. Len(Calls)
                 PROVE  /\ a[k] = "recorded" => OnlyAsks(Calls)
                        /\ a[k] = "ok" => Calls[k] # "ask"
      BY <2>2 DEF AskAnswers
    <3>1. CASE k <= Len(results)
      <4>1. k \in 1 .. Len(results) /\ a[k] = results[k]
        BY <1>2, <2>3, <3>1
      <4> QED
        BY <2>1, <4>1 DEF AskAnswers
    <3>2. CASE ~ k <= Len(results)
      BY <2>3, <3>2
    <3> QED
      BY <3>1, <3>2
  <2>5. ~ Blocks(Calls, a)
    <3>1. Len(Calls) \in 1 .. Len(a) /\ ~ Len(Calls) <= Len(results)
      BY <1>2, <2>1, <2>2
    <3>2. a[Len(Calls)] = "error"
      BY <2>2, <2>3, <3>1
    <3> QED
      BY <3>1, <3>2 DEF Blocks, Failed, IsError
  <2>6. messages' = WithAnswers(messages, a)
    BY <1>1, <1>4 DEF Interrupted, a
  <2>7. Quietly(messages, messages')
    BY <1>2, <2>2, <2>4, <2>5, <2>6, UnblockedIsQuiet DEF Calls
  <2>8. status' # "blocked" /\ ~ Dispatching' /\ phase' # "running"
    BY <1>1, <2>1 DEF Dispatching
  <2> QED
    BY <1>1, <2>1, <2>7, <2>8, AsksQuietly
<1>5. CASE phase \in {"connect", "discover", "request"}
  <2>1. messages' = messages /\ Underway /\ status = "working"
    BY <1>1, <1>5 DEF Interrupted, Underway, OutcomeInv
  <2>2. status' # "blocked" /\ ~ Dispatching' /\ phase' # "running"
    BY <1>1, <2>1 DEF Dispatching
  <2> QED
    BY <1>1, <1>2, <2>1, <2>2, SameIsQuiet, AsksQuietly
<1> QED
  BY <1>1, <1>3, <1>4, <1>5

(* A reopen with a text merges it into the asks it answers.                *)
LEMMA AsksReopen ==
  ASSUME WellTyped, TranscriptInv, AsksInv, NEW text \in BOOLEAN, Reopen(text)
  PROVE  AsksInv'
<1>1. phase = "rest" /\ phase' = "rest" /\ status' = "working" /\ inv' = inv
  BY DEF Reopen, LeaveWith, Ends
<1>2. /\ messages \in Seq(Message) /\ inv.at \in Nat /\ inv.at <= Len(messages)
      /\ Replying(messages)
  BY DEF WellTyped, TypeOK, Invocation, AsksInv, Replying
<1>3. messages' \in {messages, AppendUserText(messages)}
  BY <1>1, TranscriptShape, NothingUnanswered DEF Reopen, Reopened, Dispatching
<1>5. Quietly(messages, messages')
  BY <1>2, <1>3, SameIsQuiet, TextsAreQuiet
<1>6. inv.at <= Len(messages') /\ Replying(messages')
  BY <1>2, <1>5, QuietlyKeeps
<1>7. ASSUME NEW i \in inv.at + 1 .. Len(messages'), HasRecorded(messages'[i])
      PROVE  /\ i = Len(messages')
             /\ \A k \in 1 .. Len(messages'[i].answers) : messages'[i].answers[k] = "recorded"
  <2>1. Len(messages) \in Nat /\ Len(messages') \in Nat /\ Len(messages) <= Len(messages')
    BY <1>2, <1>5 DEF Quietly
  <2>2. i \in inv.at + 1 .. Len(messages) /\ i \in 1 .. Len(messages)
    <3>1. i \notin Len(messages) + 1 .. Len(messages')
      BY <1>5, <1>7 DEF Quietly
    <3> QED
      BY <1>2, <2>1, <3>1
  <2>3. messages'[i].answers = messages[i].answers
    BY <1>5, <2>2 DEF Quietly
  <2>4. HasRecorded(messages[i])
    BY <1>7, <2>3 DEF HasRecorded
  <2>5. i = Len(messages)
        /\ \A k \in 1 .. Len(messages[i].answers) : messages[i].answers[k] = "recorded"
    BY <2>2, <2>4 DEF AsksInv, AsksEndTheRun
  <2>6. messages[i].role = "user"
    <3>1. messages[i].role \in {"user", "assistant"}
      <4>1. messages[i] \in Message
        BY <1>2, <2>2
      <4> QED
        BY <4>1 DEF Message
    <3>2. messages[i].role # "assistant"
      <4> SUFFICES ASSUME messages[i].role = "assistant" PROVE FALSE
        OBVIOUS
      <4>1. messages[i].answers = << >>
        BY <1>2, <2>2 DEF Replying
      <4> QED
        BY <2>4, <4>1 DEF HasRecorded
    <3> QED
      BY <3>1, <3>2
  <2>7. EndsWith(messages, "user")
    BY <2>2, <2>5, <2>6 DEF EndsWith
  <2>8. Len(messages') = Len(messages)
    BY <1>3, <2>7 DEF AppendUserText
  <2> QED
    BY <2>3, <2>5, <2>8
<1>8. AsksEndTheRun'
  BY <1>1, <1>7 DEF AsksEndTheRun
<1> QED
  BY <1>1, <1>6, <1>8 DEF AsksInv, Replying, Dispatching

(* A step that leaves the transcript of a run that is over.                *)
LEMMA AsksOver ==
  ASSUME WellTyped, AsksInv, UNCHANGED <<messages, inv>>, phase \in {"post", "close", "unwind"},
         phase' \in {"close", "rest"},
         \/ status' = status /\ stop' = stop /\ phase # "unwind" /\ inv.stopped = None
         \/ status' # "blocked" /\ phase # "unwind" /\ status # "blocked"
         \/ status' # "blocked" /\ stop' = "mcp" /\ phase' = "rest"
         \/ status' # "blocked" /\ inv.stopped # None /\ phase' = "rest"
  PROVE  AsksInv'
<1>1. ASSUME NEW i \in inv'.at + 1 .. Len(messages'), HasRecorded(messages'[i])
      PROVE  /\ i = Len(messages')
             /\ \A k \in 1 .. Len(messages'[i].answers) : messages'[i].answers[k] = "recorded"
             /\ phase \in {"post", "close"} => status = "blocked"
  BY <1>1 DEF AsksInv, AsksEndTheRun
<1>2. AsksEndTheRun'
  <2>1. ASSUME NEW i \in inv'.at + 1 .. Len(messages'), HasRecorded(messages'[i])
        PROVE  \/ phase' \in {"post", "close"} /\ status' = "blocked"
               \/ phase' = "rest" /\ status' \in {"working", "blocked"}
               \/ phase' = "rest" /\ (inv'.stopped # None \/ stop' = "mcp")
    BY <1>1, <2>1
  <2>2. phase' = "rest" /\ status' = "blocked" =>
          HasRecorded(messages'[Len(messages')]) /\ inv'.stopped = None
    BY DEF AsksInv
  <2> QED
    BY <1>1, <2>1, <2>2 DEF AsksEndTheRun
<1>3. status' = "blocked" => status = "blocked"
  OBVIOUS
<1> QED
  BY <1>2, <1>3 DEF AsksInv, Dispatching

LEMMA AsksInit == Init => AsksInv
<1> SUFFICES ASSUME Init PROVE AsksInv
  OBVIOUS
<1>1. /\ phase = "rest" /\ status = "working" /\ inv.at = Len(messages)
      /\ Len(messages) \in Nat
  BY DEF Init, NewSession, OldSession, NewInvocation
<1>2. \A i \in 1 .. Len(messages) :
        messages[i].role = "assistant" => messages[i].answers = << >>
  BY DEF Init, NewSession, OldSession, UserTurn, AssistantTurn
<1>3. \A i \in inv.at + 1 .. Len(messages) : FALSE
  BY <1>1, <1>2
<1>4. AsksEndTheRun
  BY <1>1, <1>3 DEF AsksEndTheRun
<1> QED
  BY <1>1, <1>2, <1>4 DEF AsksInv, Dispatching

LEMMA AsksStep ==
  WellTyped /\ TranscriptInv /\ OutcomeInv /\ AsksInv /\ [Next]_vars => AsksInv'
<1> SUFFICES ASSUME WellTyped, TranscriptInv, OutcomeInv, AsksInv, [Next]_vars
             PROVE  AsksInv'
  OBVIOUS
<1>0. messages \in Seq(Message) /\ Quietly(messages, messages)
  BY SameIsQuiet DEF WellTyped, TypeOK
<1>1. CASE UNCHANGED vars
  BY <1>1 DEF vars, AsksInv, AsksEndTheRun, Dispatching, Calls, NextCall
<1>2. CASE ReplyComes
  <2> PICK r \in Replies, cost \in Costs :
        \/ ReplyCutOff(r, cost)
        \/ ReplyWithoutAnswer(r, cost)
        \/ ReplyInText(r, cost)
        \/ ReplySummarises(r, cost)
        \/ \E found \in 0 .. MaxErrors : ReplyAnswers(r, cost, found)
        \/ CheckRaises(r, cost)
        \/ ReplyCallsRefused(r, cost)
        \/ ReplyCalls(r, cost)
    BY <1>2 DEF ReplyComes
  <2>1. /\ Received(r, cost) /\ status' # "blocked"
        /\ \/ phase' = "post"
           \/ phase' = "call" /\ results' = << >>
    <3>1. CASE ReplyCalls(r, cost)
      <4>1. Received(r, cost) /\ status' = status /\ phase' = "call" /\ results' = << >>
        BY <3>1 DEF ReplyCalls
      <4>2. status = "working"
        BY <4>1, ReceivedKeeps DEF OutcomeInv, Underway
      <4> QED
        BY <4>1, <4>2
    <3>2. CASE ~ ReplyCalls(r, cost)
      BY <3>2, ReplyOutcome
    <3> QED
      BY <3>1, <3>2
  <2>2. Underway /\ inv'.at = inv.at
    BY <2>1, ReceivedKeeps DEF Underway
  <2>3. Quietly(messages, messages')
    BY <2>1, ReplyIsQuiet
  <2>4. Dispatching' => AskAnswers(Calls', results')
    BY <2>1 DEF Dispatching, AskAnswers
  <2> QED
    BY <2>1, <2>2, <2>3, <2>4, AsksQuietly
<1>3. CASE AskRefused \/ CallCapped \/ CallStarts \/ \E a \in Answers : CallReturns(a)
  <2>1. "ok" \in Answers
    BY DEF Answers
  <2> QED
    BY <1>3, <2>1, AsksDispatch
<1>4. CASE CallsDone
  BY <1>4, AsksDone
<1>5. CASE StepEnds
  <2>1. /\ UNCHANGED <<messages, inv>> /\ phase = "post"
        /\ \/ phase' = "head" /\ status' = "working" /\ status = "working"
           \/ phase' = AfterLoop
        /\ status = "blocked" => status' = "blocked"
        /\ status' \in {"done", "blocked"} => status' = status /\ stop' = stop
    BY <1>5, StepEndsOutcome
  <2>2. inv.stopped = None
    BY <2>1 DEF OutcomeInv
  <2>3. CASE phase' = "head"
    <3>1. status # "blocked" /\ status' # "blocked"
      BY <2>1, <2>3 DEF AfterLoop
    <3>2. \A i \in inv.at + 1 .. Len(messages) : ~ HasRecorded(messages[i])
      BY <2>1, <3>1 DEF AsksInv, AsksEndTheRun
    <3>3. AsksEndTheRun'
      BY <2>1, <2>3, <3>1, <3>2 DEF AsksEndTheRun
    <3> QED
      BY <2>1, <2>3, <3>1, <3>3 DEF AsksInv, Dispatching
  <2>4. CASE phase' # "head"
    <3>1. phase' \in {"close", "rest"}
      BY <2>1, <2>4 DEF AfterLoop
    <3>2. \/ status' = status /\ stop' = stop
          \/ status' # "blocked" /\ status # "blocked"
      BY <2>1
    <3> QED
      BY <2>1, <2>2, <3>1, <3>2, AsksOver
  <2> QED
    BY <2>3, <2>4
<1>6. CASE \/ \E typed, full \in BOOLEAN : AtHead(typed, full)
           \/ \E valid \in BOOLEAN : Discover(valid)
           \/ \E ok \in BOOLEAN : Connect(ok)
           \/ DiscoveryFails \/ RequestFails \/ RequestRetried
  <2>2. Quietly(messages, messages')
    <3>1. CASE \E typed, full \in BOOLEAN : AtHead(typed, full)
      <4> PICK typed, full \in BOOLEAN : AtHead(typed, full)
        BY <3>1
      <4>1. Quietly(messages, Typed(typed)) /\ Typed(typed) \in Seq(Message)
        <5>1. Quietly(messages, Typed(typed))
          BY <1>0, TextsAreQuiet DEF Typed
        <5> QED
          BY <5>1 DEF Quietly
      <4>2. Quietly(messages, AppendUserText(Typed(typed)))
        BY <1>0, <4>1, TextsAreQuiet, QuietlyAgain
      <4>3. messages' \in {Typed(typed), AppendUserText(Typed(typed))}
        BY DEF AtHead, HeadStops, HeadSteps, Told
      <4> QED
        BY <4>1, <4>2, <4>3
    <3>2. CASE \E valid \in BOOLEAN : Discover(valid)
      <4> PICK valid \in BOOLEAN : StateSchema(valid)
        BY <3>2 DEF Discover
      <4>1. messages' \in {messages, AppendUserText(messages)}
        BY DEF StateSchema
      <4> QED
        BY <1>0, <4>1, TextsAreQuiet
    <3>3. CASE \/ \E ok \in BOOLEAN : Connect(ok)
               \/ DiscoveryFails \/ RequestFails \/ RequestRetried
      <4>1. messages' = messages
        BY <3>3 DEF Connect, DiscoveryFails, RequestFails, RequestRetried
      <4> QED
        BY <1>0, <4>1
    <3> QED
      BY <1>6, <3>1, <3>2, <3>3
  <2>3. Underway /\ status = "working"
    BY <1>6 DEF AtHead, HeadStops, HeadSteps, Discover, Connect, DiscoveryFails, RequestFails,
                RequestRetried, Underway, OutcomeInv
  <2>4. status' \in {"working", "error"} /\ ~ Dispatching' /\ phase' # "running"
    BY <1>6, <2>3 DEF AtHead, HeadStops, HeadSteps, Discover, Connect, DiscoveryFails,
                RequestFails, RequestRetried, LeaveWith, Ends, SummaryOutcome, AfterLoop,
                Dispatching
  <2>5. inv'.at = inv.at
    <3>1. CASE \E typed, full \in BOOLEAN : AtHead(typed, full)
      BY <3>1, HeadKeeps DEF KeepsInvocation
    <3>2. CASE ~ \E typed, full \in BOOLEAN : AtHead(typed, full)
      BY <1>6, <3>2 DEF Discover, Connect, DiscoveryFails, RequestFails, RequestRetried,
                        WellTyped, TypeOK, Invocation
    <3> QED
      BY <3>1, <3>2
  <2> QED
    BY <2>2, <2>3, <2>4, <2>5, AsksQuietly
<1>7. CASE \E ok \in BOOLEAN : Close(ok) \/ Unwind(ok)
  <2> PICK ok \in BOOLEAN : Close(ok) \/ Unwind(ok)
    BY <1>7
  <2>1. CASE Close(ok)
    <3>1. /\ UNCHANGED <<messages, inv>> /\ phase = "close" /\ phase' = "rest"
          /\ \/ UNCHANGED <<status, stop>>
             \/ status' = "error" /\ stop' = "mcp"
      BY <2>1 DEF Close, LeaveWith, Ends
    <3>2. inv.stopped = None
      BY <3>1 DEF OutcomeInv
    <3> QED
      BY <3>1, <3>2, AsksOver
  <2>2. CASE Unwind(ok)
    <3>1. UNCHANGED <<messages, inv>> /\ phase = "unwind" /\ phase' = "rest" /\ status' = "error"
      BY <2>2 DEF Unwind, LeaveWith, Ends
    <3>2. inv.stopped # None
      BY <3>1 DEF OutcomeInv
    <3> QED
      BY <3>1, <3>2, AsksOver
  <2> QED
    BY <2>1, <2>2
<1>8. CASE \E schema \in RunSchemas, tokens \in TokenLimits, usd \in UsdLimits :
             Start(schema, tokens, usd)
  <2>1. /\ messages' = messages /\ inv'.at = Len(messages) /\ status' \in {"working", "error"}
        /\ phase' \in {"rest", "connect", "discover"}
    BY <1>8 DEF Start, NewInvocation, LeaveWith, Ends
  <2>2. Len(messages) \in Nat /\ \A i \in Len(messages) + 1 .. Len(messages) : FALSE
    BY <1>0
  <2>3. AsksEndTheRun'
    BY <2>1, <2>2 DEF AsksEndTheRun
  <2> QED
    BY <2>1, <2>2, <2>3 DEF AsksInv, Dispatching
<1>9. CASE \E text \in BOOLEAN : Reopen(text)
  BY <1>9, AsksReopen
<1>10. CASE \E reason \in {"timeout", "interrupted"} : Stop(reason)
  BY <1>10, AsksStop
<1> QED
  BY <1>1, <1>2, <1>3, <1>4, <1>5, <1>6, <1>7, <1>8, <1>9, <1>10 DEF Next, Loop, Host

(* A recorded ask ends its run, blocked or stopped, with no request after  *)
(* it; and a run reported blocked has the questions in its transcript.     *)
THEOREM AsksAlwaysEndTheRun == Spec => []AsksEndTheRun
<1>1. Spec => [](WellTyped /\ TranscriptInv /\ OutcomeInv /\ AsksInv)
  BY TypeInit, TypeStep, TranscriptInit, TranscriptStep, OutcomeInit, OutcomeStep, AsksInit,
     AsksStep, PTL DEF Spec
<1>2. AsksInv => AsksEndTheRun
  BY DEF AsksInv
<1> QED
  BY <1>1, <1>2, PTL
=============================================================================
