--------------------------- MODULE TuiDriveProofs ---------------------------
(***************************************************************************)
(* Theorems about TuiDrive, for any calls a model may make and any number  *)
(* of texts, calls, forks and messages.                                    *)
(***************************************************************************)
EXTENDS TuiDrive, SequenceTheorems, TLAPS

Serving == {"new", "run", "ask"}

Working == {"run", "ask"}

(* One Enter and one /fork at a time are on their way, and a /fork has a   *)
(* session left to continue in.                                            *)
KeysInTurn ==
  /\ \A i, j \in 1 .. Len(pump) :
       pump[i].kind = pump[j].kind /\ pump[i].kind \in {"text", "fork"} => i = j
  /\ \A i \in 1 .. Len(pump) : pump[i].kind = "fork" => sid <= MaxForks

(* What runs ended with is in one message each.                            *)
LatersApart ==
  \A i, j \in 1 .. Len(pump) :
    i # j /\ pump[i].kind = "later" /\ pump[j].kind = "later" =>
      pump[i].texts \cap pump[j].texts = {}

(* A worker that was not stopped and has not ended is the last one, and on *)
(* the session shown.                                                      *)
LastServes ==
  \A i \in 1 .. Len(workers) :
    workers[i].pc \in Serving =>
      i = Len(workers) /\ ~ workers[i].stopped /\ workers[i].sid = sid

(* A run at work shows as busy, but beside one that was interrupted.       *)
StateShows ==
  \A i \in 1 .. Len(workers) :
    workers[i].pc \in Working =>
      state \in BUSY \/ \E j \in 1 .. i - 1 : workers[j].pc = "off"

SaidTyped == said \subseteq [id : 1 .. calls, key : {"y", "a"}, call : Calls]

(* The prompt and what was said to it are of the very call that waits.     *)
AsksAreKnown ==
  \A i \in 1 .. Len(workers) :
    workers[i].pc = "ask" =>
      /\ workers[i].asks \in 1 .. calls /\ workers[i].call \in Calls
      /\ prompt # None /\ prompt.id = workers[i].asks => prompt.call = workers[i].call
      /\ \A s \in said : s.id = workers[i].asks => s.call = workers[i].call
      /\ workers[i].key \in {"y", "a"} =>
           \E s \in said : s.id = workers[i].asks /\ s.key = workers[i].key

PromptIsOfCall == prompt # None => prompt.id <= calls

(* An answer on its way was given.                                         *)
AnswersWereGiven ==
  \A i \in 1 .. Len(pump) :
    pump[i].kind = "answer" /\ pump[i].key \in {"y", "a"} =>
      \E s \in said : s.id = pump[i].id /\ s.key = pump[i].key

(* What runs unasked from now on was shown, and answered `a'.              *)
ToolShown(tool) ==
  \E s \in said : s.key = "a" /\ s.call.tool = tool /\ ~ GitWrite(s.call)

ProgramShown(program) ==
  \E s \in said :
    s.key = "a" /\ ~ s.call.risky /\ \E d \in s.call.line : d.program = program

GrantsWereShown ==
  /\ \A tool \in always : tool # "bash" /\ ToolShown(tool)
  /\ \A program \in programs :
       program \notin READ_ONLY \cup {None} /\ ProgramShown(program)

DriveInv ==
  /\ TypeOK
  /\ KeysInTurn /\ LatersApart
  /\ LastServes /\ StateShows
  /\ SaidTyped /\ AsksAreKnown /\ PromptIsOfCall /\ AnswersWereGiven /\ GrantsWereShown
  /\ TextsAreKept /\ OnlyConsent

-----------------------------------------------------------------------------
(* Messages and workers, one by one.                                       *)
LEMMA MessagesAreMail ==
  ASSUME NEW kind \in {"text", "fork", "later", "stop", "quit"}, NEW texts \in SUBSET Texts
  PROVE  Message(kind, texts) \in Mail
  BY DriveAssumption DEF Message, Mail

LEMMA WorkersAreWork ==
  ASSUME NEW pc \in Begun \cup Ended \cup {"new"}, NEW n \in 1 .. MaxForks + 1,
         NEW stopped \in BOOLEAN
  PROVE  WorkerAt(pc, n, stopped) \in Work
  BY DriveAssumption DEF WorkerAt, Work

LEMMA StoppedAs ==
  ASSUME NEW w \in Work
  PROVE  [w EXCEPT !.pc = "stop", !.stopped = TRUE]
           = [pc |-> "stop", sid |-> w.sid, stopped |-> TRUE,
              asks |-> w.asks, call |-> w.call, key |-> w.key]
<1> DEFINE u == [w EXCEPT !.pc = "stop"]
<1>1. /\ u \in Work
      /\ u.pc = "stop" /\ u.sid = w.sid /\ u.asks = w.asks /\ u.call = w.call /\ u.key = w.key
  BY DEF Work, Begun
<1>2. ASSUME NEW v \in Work, NEW x
      PROVE  [v EXCEPT !.stopped = x]
               = [pc |-> v.pc, sid |-> v.sid, stopped |-> x,
                  asks |-> v.asks, call |-> v.call, key |-> v.key]
  BY DEF Work
<1>3. [u EXCEPT !.stopped = TRUE]
        = [pc |-> u.pc, sid |-> u.sid, stopped |-> TRUE,
           asks |-> u.asks, call |-> u.call, key |-> u.key]
  BY <1>1, <1>2, Zenon
<1> QED
  BY <1>1, <1>3, Zenon

(* A cancelled worker serves no more, and one that ended stays.            *)
LEMMA CancelledIsWork ==
  ASSUME NEW w \in Work
  PROVE  /\ Cancelled(w) \in Work /\ Cancelled(w).pc \notin Serving
         /\ w.pc = "off" => Cancelled(w) = w
         /\ w.pc \notin Serving => Cancelled(w) = w
<1> DEFINE stopped == [w EXCEPT !.pc = "stop", !.stopped = TRUE]
<1>1. stopped \in Work /\ stopped.pc = "stop"
  <2>1. stopped = [pc |-> "stop", sid |-> w.sid, stopped |-> TRUE,
                   asks |-> w.asks, call |-> w.call, key |-> w.key]
    BY StoppedAs
  <2> HIDE DEF stopped
  <2> QED
    BY <2>1 DEF Work, Begun
<1>2. WorkerAt("never", w.sid, TRUE) \in Work /\ WorkerAt("never", w.sid, TRUE).pc = "never"
  <2>1. w.sid \in 1 .. MaxForks + 1
    BY DEF Work
  <2>2. WorkerAt("never", w.sid, TRUE).pc = "never"
    BY DEF WorkerAt
  <2> QED
    BY <2>1, <2>2, WorkersAreWork DEF Ended
<1> HIDE DEF stopped
<1>3. CASE w.pc = "new"
  <2>1. Cancelled(w) = WorkerAt("never", w.sid, TRUE)
    BY <1>3, Zenon DEF Cancelled
  <2> QED
    BY <1>2, <1>3, <2>1 DEF Serving
<1>4. CASE w.pc # "new" /\ w.pc \in {"run", "ask"}
  <2>1. Cancelled(w) = stopped
    BY <1>4, Zenon DEF Cancelled, stopped
  <2> QED
    BY <1>1, <1>4, <2>1 DEF Serving
<1>5. CASE w.pc # "new" /\ w.pc \notin {"run", "ask"}
  <2>1. Cancelled(w) = w
    BY <1>5, Zenon DEF Cancelled
  <2> QED
    BY <1>5, <2>1 DEF Serving
<1> QED
  BY <1>3, <1>4, <1>5

LEMMA ReplacedIsWork ==
  ASSUME NEW w \in Work
  PROVE  Replaced(w) \in Work /\ Replaced(w).pc \notin Serving
<1>1. NoWorker \in Work /\ NoWorker.pc = "gone"
  <2>1. 1 \in 1 .. MaxForks + 1
    BY DriveAssumption
  <2> QED
    BY <2>1, WorkersAreWork DEF NoWorker, Ended, WorkerAt
<1> QED
  BY <1>1, CancelledIsWork DEF Replaced, Serving

(* One worker moves, and the others stand.                                 *)
LEMMA OneMoves ==
  ASSUME TypeOK, NEW i \in 1 .. Len(workers), NEW w \in Work, Moves(i, w)
  PROVE  /\ workers' \in Seq(Work) /\ Len(workers') = Len(workers)
         /\ workers'[i] = w
         /\ \A j \in 1 .. Len(workers) \ {i} : workers'[j] = workers[j]
<1>1. workers \in Seq(Work)
  BY DEF TypeOK
<1>2. workers' = [workers EXCEPT ![i] = w]
  BY DEF Moves
<1> QED
  BY <1>1, <1>2, ExceptSeq

LEMMA WorkersAreTyped ==
  ASSUME TypeOK, NEW i \in 1 .. Len(workers)
  PROVE  workers[i] \in Work
  BY DEF TypeOK

LEMMA MailIsTyped ==
  ASSUME TypeOK, NEW i \in 1 .. Len(pump)
  PROVE  pump[i] \in Mail
  BY DEF TypeOK

(* What a stop does to the last worker.                                    *)
LEMMA LastIsCancelled ==
  ASSUME TypeOK, workers' = IF TurnIsRunning THEN CancelLast ELSE workers
  PROVE  /\ workers' \in Seq(Work) /\ Len(workers') = Len(workers)
         /\ \A i \in 1 .. Len(workers) :
              \/ workers'[i] = workers[i]
              \/ TurnIsRunning /\ i = Len(workers) /\ workers'[i] = Cancelled(workers[i])
<1>1. CASE TurnIsRunning
  <2>1. workers # << >>
    BY <1>1 DEF TurnIsRunning, Worker, NoWorker, WorkerAt, Ended
  <2>2. workers \in Seq(Work) /\ Len(workers) \in 1 .. Len(workers)
    BY <2>1 DEF TypeOK
  <2>3. Cancelled(workers[Len(workers)]) \in Work
    BY <2>2, WorkersAreTyped, CancelledIsWork
  <2>4. workers' = [workers EXCEPT ![Len(workers)] = Cancelled(workers[Len(workers)])]
    BY <1>1 DEF CancelLast
  <2>5. /\ workers' \in Seq(Work) /\ Len(workers') = Len(workers)
        /\ \A j \in 1 .. Len(workers) :
             workers'[j] = IF j = Len(workers) THEN Cancelled(workers[Len(workers)])
                           ELSE workers[j]
    BY <2>2, <2>3, <2>4, ExceptSeq
  <2> QED
    BY <1>1, <2>5
<1>2. CASE ~ TurnIsRunning
  BY <1>2 DEF TypeOK
<1> QED
  BY <1>1, <1>2

(* What a run that starts makes of the workers before it.                  *)
LEMMA OthersAreReplaced ==
  ASSUME TypeOK, NEW texts, Submit(texts)
  PROVE  /\ workers' \in Seq(Work) /\ Len(workers') = Len(workers) + 1
         /\ workers'[Len(workers) + 1] = NewWorker
         /\ \A i \in 1 .. Len(workers) : workers'[i].pc \notin Serving
<1> DEFINE before == [i \in 1 .. Len(workers) |-> Replaced(workers[i])]
<1>1. Len(workers) \in Nat
  BY DEF TypeOK
<1>2. before \in Seq(Work) /\ Len(before) = Len(workers)
  BY <1>1, WorkersAreTyped, ReplacedIsWork
<1>3. \A i \in 1 .. Len(workers) : before[i].pc \notin Serving
  BY WorkersAreTyped, ReplacedIsWork
<1>4. NewWorker \in Work
  BY WorkersAreWork DEF NewWorker, TypeOK
<1>5. workers' = Append(before, NewWorker)
  BY DEF Submit
<1> HIDE DEF before
<1> QED
  BY <1>1, <1>2, <1>3, <1>4, <1>5

(* A run that starts: its texts join the conversation, and the box is      *)
(* empty.                                                                  *)
LEMMA SubmitTyped ==
  ASSUME TypeOK, NEW texts \in SUBSET Texts, Submit(texts)
  PROVE  /\ workers' \in Seq(Work)
         /\ sessions' \in [1 .. MaxForks + 1 -> Conversation]
         /\ files' \in [1 .. MaxForks + 1 -> Conversation]
         /\ sessions'[sid].texts = sessions[sid].texts \cup texts
         /\ box' = {} /\ wiped' = wiped \cup (box \ texts) /\ wiped' \subseteq Texts
         /\ state' = state /\ queued' = queued /\ sid' = sid
<1>1. /\ sid \in 1 .. MaxForks + 1 /\ sessions[sid] \in Conversation
      /\ sessions \in [1 .. MaxForks + 1 -> Conversation]
      /\ files \in [1 .. MaxForks + 1 -> Conversation]
      /\ box \subseteq Texts /\ wiped \subseteq Texts
  BY DEF TypeOK
<1> DEFINE mine == [texts |-> sessions[sid].texts \cup texts, live |-> TRUE]
<1>2. mine \in Conversation /\ mine.texts = sessions[sid].texts \cup texts
  BY <1>1 DEF Conversation
<1>3. sessions' = [sessions EXCEPT ![sid] = mine] /\ files' = [files EXCEPT ![sid] = sessions'[sid]]
  BY DEF Submit, Saved
<1> HIDE DEF mine
<1>4. sessions'[sid] = mine /\ sessions' \in [1 .. MaxForks + 1 -> Conversation]
  BY <1>1, <1>2, <1>3
<1>5. files' \in [1 .. MaxForks + 1 -> Conversation]
  BY <1>1, <1>2, <1>3, <1>4
<1>6. box' = {} /\ wiped' = wiped \cup (box \ texts) /\ UNCHANGED <<state, queued, sid>>
  BY DEF Submit
<1> QED
  BY <1>1, <1>2, <1>4, <1>5, <1>6, OthersAreReplaced

(* A run whose texts are read, and one that ends.                          *)
LEMMA SessionsStayTyped ==
  ASSUME TypeOK, NEW n \in 1 .. MaxForks + 1, NEW more \in SUBSET Texts
  PROVE  /\ [sessions EXCEPT ![n].texts = @ \cup more] \in [1 .. MaxForks + 1 -> Conversation]
         /\ [sessions EXCEPT ![n].texts = @ \cup more][n].texts = sessions[n].texts \cup more
         /\ [sessions EXCEPT ![n].live = FALSE] \in [1 .. MaxForks + 1 -> Conversation]
         /\ \A m \in 1 .. MaxForks + 1 :
              [sessions EXCEPT ![n].live = FALSE][m].texts = sessions[m].texts
<1>1. sessions \in [1 .. MaxForks + 1 -> Conversation] /\ sessions[n] \in Conversation
  BY DEF TypeOK
<1>2. ASSUME NEW c \in Conversation, NEW x
      PROVE  [c EXCEPT !.texts = x] = [texts |-> x, live |-> c.live]
  BY DEF Conversation
<1>3. ASSUME NEW c \in Conversation, NEW x
      PROVE  [c EXCEPT !.live = x] = [texts |-> c.texts, live |-> x]
  BY DEF Conversation
<1> DEFINE read == [texts |-> sessions[n].texts \cup more, live |-> sessions[n].live]
           over == [texts |-> sessions[n].texts, live |-> FALSE]
<1>4. /\ read \in Conversation /\ read.texts = sessions[n].texts \cup more
      /\ over \in Conversation /\ over.texts = sessions[n].texts
  BY <1>1 DEF Conversation
<1>5. /\ [sessions[n] EXCEPT !.texts = @ \cup more] = read
      /\ [sessions[n] EXCEPT !.live = FALSE] = over
  BY <1>1, <1>2, <1>3, Zenon
<1> HIDE DEF read, over
<1>6. /\ [sessions EXCEPT ![n].texts = @ \cup more] = [sessions EXCEPT ![n] = read]
      /\ [sessions EXCEPT ![n].live = FALSE] = [sessions EXCEPT ![n] = over]
  BY <1>5, Zenon
<1>7. /\ [sessions EXCEPT ![n] = read] \in [1 .. MaxForks + 1 -> Conversation]
      /\ [sessions EXCEPT ![n] = read][n] = read
      /\ [sessions EXCEPT ![n] = over] \in [1 .. MaxForks + 1 -> Conversation]
      /\ \A m \in 1 .. MaxForks + 1 :
           [sessions EXCEPT ![n] = over][m] = IF m = n THEN over ELSE sessions[m]
  BY <1>1, <1>4
<1> QED
  BY <1>4, <1>6, <1>7, Zenon

(* The file of the session shown.                                          *)
LEMMA FilesStayTyped ==
  ASSUME TypeOK, NEW all \in [1 .. MaxForks + 1 -> Conversation]
  PROVE  Saved(all) \in [1 .. MaxForks + 1 -> Conversation]
  BY DEF TypeOK, Saved

-----------------------------------------------------------------------------
(* The types.                                                              *)
LEMMA PersonTypes ==
  ASSUME DriveInv, Person
  PROVE  TypeOK'
<1>t. TypeOK /\ PromptIsOfCall
  BY DEF DriveInv
<1> USE DEF appVars, approverVars
<1>1. CASE Types
  <2>1. typed' \in Texts /\ typed' \in 0 .. MaxTexts
    BY <1>t, <1>1, DriveAssumption DEF TypeOK, Types, Texts
  <2> QED
    BY <1>t, <1>1, <2>1 DEF TypeOK, Types
<1>2. ASSUME NEW m \in Mail, Posts(m), UNCHANGED <<always, programs, calls>>,
             prompt' \in {None, prompt}
      PROVE  TypeOK'
  <2>1. pump' \in Seq(Mail)
    BY <1>t, <1>2 DEF TypeOK, Posts
  <2> QED
    BY <1>t, <1>2, <2>1 DEF TypeOK, Posts
<1>3. CASE Enters
  BY <1>t, <1>2, <1>3, MessagesAreMail DEF Enters, TypeOK
<1>4. CASE TypesFork
  BY <1>2, <1>4, MessagesAreMail DEF TypesFork
<1>5. CASE PressesStop
  BY <1>2, <1>5, MessagesAreMail DEF PressesStop
<1>6. CASE PressesQuit
  BY <1>2, <1>6, MessagesAreMail DEF PressesQuit
<1>7. ASSUME NEW key \in Keys, Answers(key)
      PROVE  TypeOK'
  <2>1. [kind |-> "answer", texts |-> {}, id |-> prompt.id, key |-> key] \in Mail
    BY <1>t, <1>7 DEF TypeOK, Answers, Mail
  <2> QED
    BY <1>2, <1>7, <2>1 DEF Answers
<1> QED
  BY <1>1, <1>3, <1>4, <1>5, <1>6, <1>7 DEF Person, Keys

LEMMA HandlesTypes ==
  ASSUME TypeOK, NEW kind, Handles(kind)
  PROVE  /\ pump # << >> /\ pump[1] \in Mail /\ pump[1].kind = kind
         /\ pump[1].texts \subseteq Texts
         /\ pump' = Tail(pump) /\ pump' \in Seq(Mail)
         /\ UNCHANGED <<prompt, approverVars, typed>>
<1>1. pump \in Seq(Mail) /\ pump # << >> /\ pump[1].kind = kind /\ pump' = Tail(pump)
  BY DEF TypeOK, Handles
<1>2. pump[1] \in Mail /\ Tail(pump) \in Seq(Mail)
  BY <1>1
<1> QED
  BY <1>1, <1>2 DEF Handles, Mail

LEMMA AppTypes ==
  ASSUME DriveInv, App
  PROVE  TypeOK'
<1>t. TypeOK /\ KeysInTurn
  BY DEF DriveInv
<1> USE DEF appVars, approverVars
<1>1. ASSUME NEW texts \in SUBSET Texts, NEW kind, Handles(kind), quitting' = quitting,
             \/ Submit(texts)
             \/ /\ queued' = queued \cup texts
                /\ box' \subseteq box /\ wiped' \subseteq wiped \cup box
                /\ UNCHANGED <<state, sid, sessions, files, workers>>
      PROVE  TypeOK'
  <2>1. /\ workers' \in Seq(Work) /\ sid' = sid
        /\ sessions' \in [1 .. MaxForks + 1 -> Conversation]
        /\ files' \in [1 .. MaxForks + 1 -> Conversation]
        /\ box' \subseteq Texts /\ wiped' \subseteq Texts /\ queued' \subseteq Texts
        /\ state' = state
    <3>1. CASE Submit(texts)
      BY <1>t, <3>1, SubmitTyped DEF TypeOK
    <3> QED
      BY <1>t, <1>1, <3>1 DEF TypeOK
  <2> QED
    BY <1>t, <1>1, <2>1, HandlesTypes DEF TypeOK
<1>2. CASE HandlesText
  <2>1. pump[1].texts \in SUBSET Texts
    BY <1>t, <1>2, HandlesTypes DEF HandlesText
  <2> QED
    BY <1>1, <1>2, <2>1 DEF HandlesText
<1>3. CASE HandlesFollowUp
  <2>1. pump[1].texts \in SUBSET Texts
    BY <1>t, <1>3, HandlesTypes DEF HandlesFollowUp
  <2> QED
    BY <1>1, <1>3, <2>1 DEF HandlesFollowUp, SendFollowUp
<1>4. CASE HandlesFork
  <2>1. /\ pump' \in Seq(Mail) /\ pump # << >> /\ pump[1].kind = "fork"
        /\ UNCHANGED <<prompt, approverVars, typed>>
    BY <1>t, <1>4, HandlesTypes DEF HandlesFork
  <2>2. sid <= MaxForks
    <3>1. 1 \in 1 .. Len(pump)
      BY <1>t, <2>1 DEF TypeOK
    <3> QED
      BY <1>t, <2>1, <3>1 DEF KeysInTurn
  <2>3. /\ sid' \in 1 .. MaxForks + 1
        /\ sessions' \in [1 .. MaxForks + 1 -> Conversation]
        /\ files' \in [1 .. MaxForks + 1 -> Conversation]
    <3>1. sid + 1 \in 1 .. MaxForks + 1 /\ sessions[sid] \in Conversation
      BY <1>t, <2>2, DriveAssumption DEF TypeOK
    <3> QED
      BY <1>t, <1>4, <3>1 DEF HandlesFork, TypeOK
  <2> QED
    BY <1>t, <1>4, <2>1, <2>3 DEF TypeOK, HandlesFork
<1>5. CASE HandlesStop
  <2>1. workers' \in Seq(Work)
    BY <1>t, <1>5, LastIsCancelled DEF HandlesStop
  <2> QED
    BY <1>t, <1>5, <2>1, HandlesTypes DEF TypeOK, HandlesStop
<1>6. CASE HandlesAnswer
  <2>1. pump[1] \in Mail
    BY <1>t, <1>6, HandlesTypes DEF HandlesAnswer
  <2>2. ASSUME NEW w \in Work
        PROVE  [w EXCEPT !.key = pump[1].key] \in Work
    BY <2>1 DEF Work, Mail
  <2>3. Len(workers) \in Nat /\ \A i \in 1 .. Len(workers) : workers[i] \in Work
    BY <1>t DEF TypeOK
  <2>4. workers' \in Seq(Work)
    BY <1>6, <2>2, <2>3 DEF HandlesAnswer
  <2> QED
    BY <1>t, <1>6, <2>4, HandlesTypes DEF TypeOK, HandlesAnswer
<1>7. CASE HandlesQuit
  <2>1. workers' \in Seq(Work)
    BY <1>t, <1>7, LastIsCancelled DEF HandlesQuit
  <2> QED
    BY <1>t, <1>7, <2>1, HandlesTypes DEF TypeOK, HandlesQuit
<1>8. CASE Exits
  <2>1. files' \in [1 .. MaxForks + 1 -> Conversation]
    BY <1>t, <1>8, FilesStayTyped DEF Exits, TypeOK
  <2> QED
    BY <1>t, <1>8, <2>1 DEF TypeOK, Exits
<1> QED
  BY <1>2, <1>3, <1>4, <1>5, <1>6, <1>7, <1>8 DEF App

(* A worker at another place, still on its own session.                    *)
LEMMA MovedIsWork ==
  ASSUME NEW w \in Work, NEW pc \in Begun \cup Ended \cup {"new"}
  PROVE  /\ [w EXCEPT !.pc = pc] \in Work
         /\ [w EXCEPT !.pc = pc].pc = pc
         /\ [w EXCEPT !.pc = pc].sid = w.sid
         /\ [w EXCEPT !.pc = pc].stopped = w.stopped
         /\ WorkerAt(pc, w.sid, w.stopped) \in Work
<1>1. w.sid \in 1 .. MaxForks + 1 /\ w.stopped \in BOOLEAN
  BY DEF Work
<1> QED
  BY <1>1, WorkersAreWork DEF Work

LEMMA TurnsTypes ==
  ASSUME DriveInv, NEW i \in 1 .. Len(workers), Turns(i)
  PROVE  TypeOK'
<1>t. TypeOK /\ workers[i] \in Work /\ workers[i].sid \in 1 .. MaxForks + 1
  BY WorkersAreTyped DEF DriveInv, Work
<1> USE DEF appVars, approverVars
<1>1. CASE TakesQueued(i)
  <2>1. queued \in SUBSET Texts
    BY <1>t DEF TypeOK
  <2>2. sessions' \in [1 .. MaxForks + 1 -> Conversation]
    BY <1>t, <1>1, <2>1, SessionsStayTyped DEF TakesQueued
  <2>3. files' \in [1 .. MaxForks + 1 -> Conversation]
    BY <1>t, <1>1, <2>2, FilesStayTyped DEF TakesQueued
  <2> QED
    BY <1>t, <1>1, <2>2, <2>3 DEF TypeOK, TakesQueued
<1>2. ASSUME NEW call \in Calls, CallsUnasked(i, call)
      PROVE  TypeOK'
  <2>1. calls' \in 0 .. MaxCalls
    BY <1>t, <1>2, DriveAssumption DEF TypeOK, CallsUnasked
  <2> QED
    BY <1>t, <1>2, <2>1 DEF TypeOK, CallsUnasked
<1>3. ASSUME NEW call \in Calls, Asks(i, call)
      PROVE  TypeOK'
  <2>a. calls < MaxCalls /\ calls' = calls + 1
    BY <1>3, Zenon DEF Asks
  <2>b. /\ prompt' = [id |-> calls', call |-> call]
        /\ state' = "awaiting approval"
        /\ UNCHANGED <<pump, queued, box, sid, sessions, files, quitting,
                       always, programs, typed, wiped>>
    BY <1>3, Zenon DEF Asks
  <2>c. calls \in 0 .. MaxCalls /\ MaxCalls \in Nat
    BY <1>t, DriveAssumption DEF TypeOK
  <2>1. calls' \in 1 .. MaxCalls
    BY <2>a, <2>c
  <2> DEFINE w == [pc |-> "ask", sid |-> workers[i].sid, stopped |-> FALSE,
                   asks |-> calls', call |-> call, key |-> None]
  <2>2. w \in Work
    BY <1>t, <2>1 DEF Work, Begun
  <2>3. Moves(i, w)
    BY <1>3 DEF Asks
  <2> HIDE DEF w
  <2>4. workers' \in Seq(Work)
    BY <1>t, <2>2, <2>3, OneMoves
  <2>5. prompt' \in [id : 1 .. MaxCalls, call : Calls]
    BY <2>b, <2>1
  <2>6. prompt' # None => prompt' \in [id : 1 .. MaxCalls, call : Calls]
    BY <2>5
  <2>7. calls' \in 0 .. MaxCalls
    BY <2>1
  <2> HIDE <2>a
  <2> QED
    BY <1>t, <2>b, <2>4, <2>6, <2>7 DEF TypeOK, BUSY
<1> QED
  BY <1>1, <1>2, <1>3 DEF Turns

LEMMA WorksTypes ==
  ASSUME DriveInv, NEW i \in 1 .. Len(workers), WorkerStarts(i) \/ Unwinds(i)
  PROVE  TypeOK'
<1>t. /\ TypeOK /\ AsksAreKnown
      /\ workers[i] \in Work /\ workers[i].sid \in 1 .. MaxForks + 1
  BY WorkersAreTyped DEF DriveInv, Work
<1> USE DEF appVars, approverVars
<1>w. ASSUME NEW pc \in Begun \cup Ended \cup {"new"},
             \/ Moves(i, [workers[i] EXCEPT !.pc = pc])
             \/ Moves(i, WorkerAt(pc, workers[i].sid, workers[i].stopped))
      PROVE  workers' \in Seq(Work)
  BY <1>t, <1>w, OneMoves, MovedIsWork
<1>1. CASE WorkerStarts(i)
  <2>1. workers' \in Seq(Work)
    BY <1>1, <1>w DEF WorkerStarts, Begun
  <2> QED
    BY <1>t, <1>1, <2>1 DEF TypeOK, WorkerStarts, BUSY
<1>2. CASE Answered(i)
  <2>1. workers' \in Seq(Work)
    BY <1>2, <1>w DEF Answered, Begun
  <2>2. /\ always' \subseteq {call.tool : call \in Calls} \ {"bash"}
        /\ programs' \cap READ_ONLY = {}
    <3>1. workers[i].call \in Calls
      BY <1>t, <1>2 DEF AsksAreKnown, Answered, At
    <3>2. CASE workers[i].key = "a"
      BY <1>t, <1>2, <3>1, <3>2 DEF Answered, Grants, Scope, TypeOK
    <3>3. CASE workers[i].key # "a"
      BY <1>t, <1>2, <3>3 DEF Answered, TypeOK
    <3> QED
      BY <3>2, <3>3
  <2> QED
    BY <1>t, <1>2, <2>1, <2>2 DEF TypeOK, Answered, Closed, BUSY
<1>3. CASE Feels(i)
  <2>1. workers' \in Seq(Work)
    BY <1>3, <1>w DEF Feels, Begun
  <2> QED
    BY <1>t, <1>3, <2>1 DEF TypeOK, Feels, Closed, BUSY
<1>s. ASSUME sessions' = Settled(i), files' = Saved(sessions')
      PROVE  /\ sessions' \in [1 .. MaxForks + 1 -> Conversation]
             /\ files' \in [1 .. MaxForks + 1 -> Conversation]
  <2>1. {} \in SUBSET Texts
    OBVIOUS
  <2>2. sessions' \in [1 .. MaxForks + 1 -> Conversation]
    BY <1>t, <1>s, <2>1, SessionsStayTyped DEF Settled
  <2> QED
    BY <1>t, <1>s, <2>2, FilesStayTyped
<1>4. CASE Ends(i)
  <2>1. workers' \in Seq(Work)
    BY <1>4, <1>w DEF Ends, Ended
  <2>2. pump' \in Seq(Mail)
    <3>1. Message("later", queued) \in Mail
      BY <1>t, MessagesAreMail DEF TypeOK
    <3> QED
      BY <1>t, <1>4, <3>1 DEF TypeOK, Ends
  <2> QED
    BY <1>t, <1>4, <1>s, <2>1, <2>2 DEF TypeOK, Ends
<1>5. CASE Interrupted(i)
  <2>1. workers' \in Seq(Work)
    BY <1>5, <1>w DEF Interrupted, Ended
  <2> QED
    BY <1>t, <1>5, <1>s, <2>1 DEF TypeOK, Interrupted, Returned
<1> QED
  BY <1>1, <1>2, <1>3, <1>4, <1>5 DEF Unwinds

-----------------------------------------------------------------------------
(* The workers: no step but Submit makes one serve that did not, and what  *)
(* ended stays.                                                            *)
Follows(w, v) ==
  /\ v.pc \in Serving => w.pc \in Serving /\ v.stopped = w.stopped /\ v.sid = w.sid
  /\ w.pc = "off" => v.pc = "off"
  /\ v.pc \in Working => w.pc \in Working \/ state' \in BUSY

WorkersGoOn ==
  /\ Len(workers') = Len(workers)
  /\ \A i \in 1 .. Len(workers) : Follows(workers[i], workers'[i])

LEMMA OneFollows ==
  ASSUME TypeOK, NEW i \in 1 .. Len(workers), NEW w \in Work, Moves(i, w),
         Follows(workers[i], w)
  PROVE  WorkersGoOn
<1>1. /\ Len(workers') = Len(workers) /\ workers'[i] = w
      /\ \A j \in 1 .. Len(workers) \ {i} : workers'[j] = workers[j]
  BY OneMoves
<1>2. \A j \in 1 .. Len(workers) \ {i} : Follows(workers[j], workers'[j])
  BY <1>1 DEF Follows
<1> QED
  BY <1>1, <1>2 DEF WorkersGoOn

LEMMA StandingFollow ==
  ASSUME UNCHANGED workers
  PROVE  WorkersGoOn
  BY DEF WorkersGoOn, Follows

(* A worker cancelled, or not.                                             *)
LEMMA StoppedFollow ==
  ASSUME TypeOK, workers' = IF TurnIsRunning THEN CancelLast ELSE workers
  PROVE  WorkersGoOn
<1>1. ASSUME NEW i \in 1 .. Len(workers)
      PROVE  Follows(workers[i], workers'[i])
  <2>1. CASE workers'[i] = workers[i]
    BY <2>1 DEF Follows
  <2>2. CASE workers'[i] = Cancelled(workers[i])
    <3>1. /\ Cancelled(workers[i]).pc \notin Serving
          /\ workers[i].pc = "off" => Cancelled(workers[i]) = workers[i]
      BY <1>1, WorkersAreTyped, CancelledIsWork
    <3> QED
      BY <2>2, <3>1 DEF Follows, Serving, Working
  <2> QED
    BY <2>1, <2>2, LastIsCancelled
<1> QED
  BY <1>1, LastIsCancelled DEF WorkersGoOn

LEMMA ServingStays ==
  ASSUME DriveInv, WorkersGoOn, sid' = sid
  PROVE  LastServes'
  BY DEF DriveInv, LastServes, WorkersGoOn, Follows

LEMMA ShowingStays ==
  ASSUME DriveInv, WorkersGoOn, state' = state \/ state' \in BUSY
  PROVE  StateShows'
<1> SUFFICES ASSUME NEW i \in 1 .. Len(workers), workers'[i].pc \in Working, state' \notin BUSY
             PROVE  \E j \in 1 .. i - 1 : workers'[j].pc = "off"
  BY DEF StateShows, WorkersGoOn
<1>1. workers[i].pc \in Working /\ state \notin BUSY
  BY DEF WorkersGoOn, Follows
<1>2. PICK j \in 1 .. i - 1 : workers[j].pc = "off"
  BY <1>1 DEF DriveInv, StateShows
<1>3. j \in 1 .. Len(workers)
  BY DEF DriveInv, TypeOK
<1> QED
  BY <1>2, <1>3 DEF WorkersGoOn, Follows

(* The one that starts is last, and does not work yet.                     *)
LEMMA SubmitServes ==
  ASSUME DriveInv, NEW texts \in SUBSET Texts, Submit(texts)
  PROVE  LastServes' /\ StateShows'
<1>1. /\ Len(workers) \in Nat /\ Len(workers') = Len(workers) + 1
      /\ workers'[Len(workers) + 1] = NewWorker
      /\ \A i \in 1 .. Len(workers) : workers'[i].pc \notin Serving
      /\ sid' = sid
  BY OthersAreReplaced, SubmitTyped DEF DriveInv, TypeOK
<1>2. NewWorker.pc = "new" /\ NewWorker.stopped = FALSE /\ NewWorker.sid = sid
  BY DEF NewWorker, WorkerAt
<1>3. \A i \in 1 .. Len(workers') : i = Len(workers) + 1 \/ i \in 1 .. Len(workers)
  BY <1>1
<1> QED
  BY <1>1, <1>2, <1>3 DEF LastServes, StateShows, Serving, Working

LEMMA NobodyServes ==
  ASSUME DriveInv, ~ TurnIsRunning
  PROVE  \A i \in 1 .. Len(workers) : workers[i].pc \notin Serving
  BY DEF DriveInv, LastServes, TurnIsRunning, Worker, NoWorker, WorkerAt, Ended, Serving

LEMMA PersonServes ==
  ASSUME DriveInv, Person
  PROVE  LastServes' /\ StateShows'
<1>1. UNCHANGED <<workers, sid, state>>
  BY DEF Person, Types, Enters, TypesFork, PressesStop, PressesQuit, Answers, Posts
<1> QED
  BY <1>1, StandingFollow, ServingStays, ShowingStays

LEMMA AppServes ==
  ASSUME DriveInv, App
  PROVE  LastServes' /\ StateShows'
<1>t. TypeOK
  BY DEF DriveInv
<1>1. ASSUME UNCHANGED <<workers, sid, state>>
      PROVE  LastServes' /\ StateShows'
  BY <1>1, StandingFollow, ServingStays, ShowingStays
<1>2. CASE HandlesText
  <2>1. pump[1].texts \in SUBSET Texts
    BY <1>t, <1>2, HandlesTypes DEF HandlesText
  <2> QED
    BY <1>1, <1>2, <2>1, SubmitServes DEF HandlesText
<1>3. CASE HandlesFollowUp
  <2>1. pump[1].texts \in SUBSET Texts
    BY <1>t, <1>3, HandlesTypes DEF HandlesFollowUp
  <2> QED
    BY <1>1, <1>3, <2>1, SubmitServes DEF HandlesFollowUp, SendFollowUp
<1>4. CASE HandlesFork
  <2>1. CASE MayFork
    <3>1. workers' = workers /\ \A i \in 1 .. Len(workers) : workers[i].pc \notin Serving
      BY <1>4, <2>1, NobodyServes DEF HandlesFork, MayFork
    <3> QED
      BY <3>1 DEF LastServes, StateShows, Serving, Working
  <2>2. CASE ~ MayFork
    BY <1>1, <1>4, <2>2 DEF HandlesFork
  <2> QED
    BY <2>1, <2>2
<1>5. CASE HandlesStop
  <2>1. WorkersGoOn
    BY <1>t, <1>5, StoppedFollow DEF HandlesStop
  <2> QED
    BY <1>5, <2>1, ServingStays, ShowingStays DEF HandlesStop
<1>6. CASE HandlesAnswer
  <2>1. ASSUME NEW i \in 1 .. Len(workers)
        PROVE  Follows(workers[i], workers'[i])
    <3>1. workers[i] \in Work
      BY <1>t, <2>1, WorkersAreTyped
    <3>2. workers'[i] \in {workers[i], [workers[i] EXCEPT !.key = pump[1].key]}
      BY <1>6 DEF HandlesAnswer
    <3> QED
      BY <3>1, <3>2 DEF Follows, Work
  <2>2. Len(workers') = Len(workers)
    BY <1>t, <1>6 DEF HandlesAnswer, TypeOK
  <2>3. WorkersGoOn
    BY <2>1, <2>2 DEF WorkersGoOn
  <2> QED
    BY <1>6, <2>3, ServingStays, ShowingStays DEF HandlesAnswer
<1>7. CASE HandlesQuit
  <2>1. WorkersGoOn
    BY <1>t, <1>7, StoppedFollow DEF HandlesQuit
  <2> QED
    BY <1>7, <2>1, ServingStays, ShowingStays DEF HandlesQuit
<1>8. CASE Exits
  BY <1>1, <1>8 DEF Exits
<1> QED
  BY <1>2, <1>3, <1>4, <1>5, <1>6, <1>7, <1>8 DEF App

LEMMA TurnsServe ==
  ASSUME DriveInv, NEW i \in 1 .. Len(workers), Turns(i)
  PROVE  LastServes' /\ StateShows'
<1>t. TypeOK /\ workers[i] \in Work /\ (workers[i].pc = "run" => ~ workers[i].stopped)
  BY WorkersAreTyped DEF DriveInv, LastServes, Serving
<1>1. CASE TakesQueued(i)
  BY <1>1, StandingFollow, ServingStays, ShowingStays DEF TakesQueued
<1>2. ASSUME NEW call \in Calls, CallsUnasked(i, call)
      PROVE  LastServes' /\ StateShows'
  BY <1>2, StandingFollow, ServingStays, ShowingStays DEF CallsUnasked, appVars
<1>3. ASSUME NEW call \in Calls, Asks(i, call)
      PROVE  LastServes' /\ StateShows'
  <2>1. workers[i].pc = "run" /\ state' = "awaiting approval" /\ sid' = sid
    BY <1>3, Zenon DEF Asks, At
  <2>2. workers[i].stopped = FALSE
    BY <1>t, <2>1 DEF Work
  <2> DEFINE w == [pc |-> "ask", sid |-> workers[i].sid, stopped |-> FALSE,
                   asks |-> calls', call |-> call, key |-> None]
  <2>3. Moves(i, w)
    BY <1>3 DEF Asks
  <2>4. w.pc = "ask" /\ w.sid = workers[i].sid /\ w.stopped = FALSE
    OBVIOUS
  <2>5. w \in Work
    <3>1. workers' = [workers EXCEPT ![i] = w]
      BY <2>3 DEF Moves
    <3>2. workers' \in Seq(Work)
      BY <1>3, TurnsTypes DEF Turns, TypeOK
    <3>3. workers \in Seq(Work)
      BY <1>t DEF TypeOK
    <3> HIDE DEF w
    <3>4. workers'[i] = w /\ i \in 1 .. Len(workers')
      BY <3>1, <3>2, <3>3
    <3> QED
      BY <3>2, <3>4
  <2> HIDE DEF w
  <2>6. Follows(workers[i], w)
    BY <2>1, <2>2, <2>4 DEF Follows, Serving, Working
  <2> QED
    BY <1>t, <2>1, <2>3, <2>5, <2>6, OneFollows, ServingStays, ShowingStays DEF BUSY
<1> QED
  BY <1>1, <1>2, <1>3 DEF Turns

LEMMA WorksServe ==
  ASSUME DriveInv, NEW i \in 1 .. Len(workers), WorkerStarts(i) \/ Unwinds(i)
  PROVE  LastServes' /\ StateShows'
<1>t. TypeOK /\ workers[i] \in Work /\ sid' = sid
  BY WorkersAreTyped
     DEF DriveInv, WorkerStarts, Unwinds, Answered, Ends, Feels, Interrupted
<1>w. ASSUME NEW pc \in Begun \cup Ended \cup {"new"}, NEW w,
             w \in {[workers[i] EXCEPT !.pc = pc],
                    WorkerAt(pc, workers[i].sid, workers[i].stopped)},
             Moves(i, w), workers[i].pc # "off",
             pc \in Serving => workers[i].pc \in Serving,
             pc \in Working => workers[i].pc \in Working \/ state' \in BUSY
      PROVE  LastServes' /\ WorkersGoOn /\ workers'[i].pc = pc
  <2>1. /\ w \in Work /\ w.pc = pc
        /\ w.sid = workers[i].sid /\ w.stopped = workers[i].stopped
    <3>1. CASE w = [workers[i] EXCEPT !.pc = pc]
      BY <1>t, <3>1, MovedIsWork
    <3>2. CASE w = WorkerAt(pc, workers[i].sid, workers[i].stopped)
      <4>1. w \in Work
        BY <1>t, <3>2, MovedIsWork
      <4> QED
        BY <3>2, <4>1 DEF WorkerAt
    <3> QED
      BY <1>w, <3>1, <3>2
  <2>2. Follows(workers[i], w)
    BY <1>w, <2>1 DEF Follows
  <2> QED
    BY <1>t, <1>w, <2>1, <2>2, OneMoves, OneFollows, ServingStays
<1> USE DEF Serving, Working, At
<1>1. CASE WorkerStarts(i)
  <2>1. state' \in BUSY /\ workers[i].pc = "new"
    BY <1>1 DEF WorkerStarts, BUSY
  <2>2. LastServes' /\ WorkersGoOn
    BY <1>1, <1>w, <2>1 DEF WorkerStarts, Begun
  <2> QED
    BY <2>1, <2>2, ShowingStays
<1>2. CASE Answered(i)
  <2>1. state' \in BUSY /\ workers[i].pc = "ask"
    BY <1>2 DEF Answered, Closed, BUSY
  <2>2. LastServes' /\ WorkersGoOn
    BY <1>2, <1>w, <2>1 DEF Answered, Begun
  <2> QED
    BY <2>1, <2>2, ShowingStays
<1>3. CASE Feels(i)
  <2>1. (state' \in BUSY \/ state' = state) /\ workers[i].pc = "stop"
    BY <1>3 DEF Feels, Closed, BUSY
  <2>2. LastServes' /\ WorkersGoOn
    BY <1>3, <1>w, <2>1 DEF Feels, Begun
  <2> QED
    BY <2>1, <2>2, ShowingStays
<1>4. CASE Ends(i)
  <2>1. workers[i].pc = "run"
    BY <1>4 DEF Ends
  <2>2. LastServes' /\ WorkersGoOn /\ workers'[i].pc = "off"
    BY <1>4, <1>w, <2>1 DEF Ends, Ended
  <2>3. \A j \in 1 .. Len(workers) : workers[j].pc \in Serving => j = i
    BY <2>1 DEF DriveInv, LastServes
  <2>4. \A j \in 1 .. Len(workers) : workers'[j].pc \notin Working
    BY <2>2, <2>3 DEF WorkersGoOn, Follows
  <2> QED
    BY <2>2, <2>4 DEF WorkersGoOn, StateShows
<1>5. CASE Interrupted(i)
  <2>1. workers[i].pc = "unwind"
    BY <1>5 DEF Interrupted
  <2>2. LastServes' /\ WorkersGoOn /\ workers'[i].pc = "off"
    BY <1>5, <1>w, <2>1 DEF Interrupted, Ended
  <2>3. ASSUME NEW j \in 1 .. Len(workers), workers'[j].pc \in Working
        PROVE  i \in 1 .. j - 1
    <3>1. j # i /\ workers'[j].pc \in Serving
      BY <2>2, <2>3
    <3>2. workers[j].pc \in Serving
      BY <2>2, <3>1 DEF WorkersGoOn, Follows
    <3>3. j = Len(workers)
      BY <3>2 DEF DriveInv, LastServes
    <3> QED
      BY <1>t, <3>1, <3>3 DEF TypeOK
  <2> QED
    BY <2>2, <2>3 DEF WorkersGoOn, StateShows
<1> QED
  BY <1>1, <1>2, <1>3, <1>4, <1>5 DEF Unwinds

-----------------------------------------------------------------------------
(* The texts.                                                              *)
LEMMA CarriedIs ==
  ASSUME NEW kind, NEW x
  PROVE  x \in Carried(kind)
           <=> \E i \in 1 .. Len(pump) : pump[i].kind = kind /\ x \in pump[i].texts
  BY DEF Carried

LEMMA CarriedNext ==
  ASSUME NEW kind, NEW x
  PROVE  x \in Carried(kind)'
           <=> \E i \in 1 .. Len(pump') : pump'[i].kind = kind /\ x \in pump'[i].texts
  BY DEF Carried

LEMMA CarriedWithPosted ==
  ASSUME TypeOK, NEW m \in Mail, pump' = Append(pump, m), NEW kind
  PROVE  Carried(kind)' = Carried(kind) \cup (IF m.kind = kind THEN m.texts ELSE {})
<1>1. /\ Len(pump) \in Nat /\ Len(pump') = Len(pump) + 1 /\ pump'[Len(pump) + 1] = m
      /\ \A i \in 1 .. Len(pump) : pump'[i] = pump[i]
  BY DEF TypeOK
<1>2. \A i \in 1 .. Len(pump') : i \in 1 .. Len(pump) \/ i = Len(pump) + 1
  BY <1>1
<1>3. 1 .. Len(pump) \subseteq 1 .. Len(pump') /\ Len(pump) + 1 \in 1 .. Len(pump')
  BY <1>1
<1>4. ASSUME NEW x
      PROVE  x \in Carried(kind)' <=> x \in Carried(kind) \/ (m.kind = kind /\ x \in m.texts)
  BY <1>1, <1>2, <1>3, CarriedIs, CarriedNext
<1> QED
  BY <1>4

LEMMA TailIs ==
  ASSUME TypeOK, pump # << >>, pump' = Tail(pump)
  PROVE  /\ Len(pump) \in Nat \ {0} /\ Len(pump') = Len(pump) - 1
         /\ \A i \in 1 .. Len(pump') : pump'[i] = pump[i + 1] /\ i + 1 \in 2 .. Len(pump)
  BY DEF TypeOK

LEMMA CarriedWithHandled ==
  ASSUME TypeOK, pump # << >>, pump' = Tail(pump), NEW kind
  PROVE  Carried(kind) = Carried(kind)' \cup (IF pump[1].kind = kind THEN pump[1].texts ELSE {})
<1>1. /\ Len(pump) \in Nat \ {0} /\ Len(pump') = Len(pump) - 1
      /\ \A i \in 1 .. Len(pump') : pump'[i] = pump[i + 1] /\ i + 1 \in 1 .. Len(pump)
  BY TailIs
<1>2. ASSUME NEW i \in 1 .. Len(pump)
      PROVE  i = 1 \/ (i - 1 \in 1 .. Len(pump') /\ pump'[i - 1] = pump[i])
  BY <1>1
<1>3. ASSUME NEW x
      PROVE  x \in Carried(kind)
               <=> x \in Carried(kind)' \/ (pump[1].kind = kind /\ x \in pump[1].texts)
  <2>1. 1 \in 1 .. Len(pump)
    BY <1>1
  <2>2. x \in Carried(kind) => x \in Carried(kind)' \/ (pump[1].kind = kind /\ x \in pump[1].texts)
    <3>1. SUFFICES ASSUME x \in Carried(kind), ~ (pump[1].kind = kind /\ x \in pump[1].texts)
                   PROVE  x \in Carried(kind)'
      OBVIOUS
    <3>2. PICK i \in 1 .. Len(pump) : pump[i].kind = kind /\ x \in pump[i].texts
      BY <3>1, CarriedIs
    <3>3. i # 1
      BY <3>1, <3>2
    <3>4. i - 1 \in 1 .. Len(pump') /\ pump'[i - 1] = pump[i]
      BY <1>2, <3>3
    <3>5. \E j \in 1 .. Len(pump') : pump'[j].kind = kind /\ x \in pump'[j].texts
      BY <3>2, <3>4, Zenon
    <3> QED
      BY <3>5, CarriedNext
  <2>3. x \in Carried(kind)' => x \in Carried(kind)
    BY <1>1, CarriedIs, CarriedNext
  <2>4. pump[1].kind = kind /\ x \in pump[1].texts => x \in Carried(kind)
    BY <2>1, CarriedIs
  <2> QED
    BY <2>2, <2>3, <2>4
<1> QED
  BY <1>3

(* The one Enter on its way is handled, or one of the follow-ups.          *)
LEMMA NoneLeftOfHandled ==
  ASSUME DriveInv, pump # << >>, pump' = Tail(pump)
  PROVE  /\ pump[1].kind = "text" => Carried("text")' = {}
         /\ pump[1].kind = "later" => Carried("later")' \cap pump[1].texts = {}
<1>1. /\ Len(pump) \in Nat \ {0} /\ Len(pump') = Len(pump) - 1
      /\ \A i \in 1 .. Len(pump') : pump'[i] = pump[i + 1] /\ i + 1 \in 2 .. Len(pump)
  BY TailIs DEF DriveInv
<1>2. 1 \in 1 .. Len(pump) /\ 2 .. Len(pump) \subseteq 1 .. Len(pump)
  BY <1>1
<1>3. ASSUME NEW x \in Carried("text")', pump[1].kind = "text"
      PROVE  FALSE
  <2>1. PICK i \in 1 .. Len(pump') : pump'[i].kind = "text"
    BY <1>3, CarriedNext
  <2>2. i + 1 = 1
    BY <1>1, <1>2, <1>3, <2>1 DEF DriveInv, KeysInTurn
  <2> QED
    BY <2>2
<1>4. ASSUME NEW x \in Carried("later")', pump[1].kind = "later", x \in pump[1].texts
      PROVE  FALSE
  <2>1. PICK i \in 1 .. Len(pump') : pump'[i].kind = "later" /\ x \in pump'[i].texts
    BY <1>4, CarriedNext
  <2>2. i + 1 \in 1 .. Len(pump) /\ i + 1 # 1 /\ pump'[i] = pump[i + 1]
    BY <1>1, <1>2
  <2>3. pump[1].texts \cap pump[i + 1].texts = {}
    BY <1>2, <1>4, <2>1, <2>2 DEF DriveInv, LatersApart
  <2> QED
    BY <1>4, <2>1, <2>2, <2>3
<1> QED
  BY <1>3, <1>4

(* TextsAreKept, without its sequence of parts.                            *)
Apart(mine, waiting, later, held, erased, all) ==
  /\ mine \cup waiting \cup later \cup held \cup erased = all
  /\ mine \cap waiting = {} /\ mine \cap later = {} /\ mine \cap held = {}
  /\ waiting \cap later = {} /\ waiting \cap held = {} /\ later \cap held = {}

TextsApart ==
  Apart(sessions[sid].texts, queued, Carried("later"), box \cup Carried("text"), wiped,
        1 .. typed)

LEMMA KeptIsApart == TextsAreKept <=> TextsApart
<1> DEFINE a == sessions[sid].texts
           b == queued
           c == Carried("later")
           d == box \cup Carried("text")
           parts == <<a, b, c, d>>
           all == UNION {parts[i] : i \in 1 .. 4}
           pairs == \A i, j \in 1 .. 4 : i < j => parts[i] \cap parts[j] = {}
           apart == /\ a \cap b = {} /\ a \cap c = {} /\ a \cap d = {}
                    /\ b \cap c = {} /\ b \cap d = {} /\ c \cap d = {}
<1>1. parts[1] = a /\ parts[2] = b /\ parts[3] = c /\ parts[4] = d
  OBVIOUS
<1>2. 1 .. 4 = {1, 2, 3, 4}
  OBVIOUS
<1>3. TextsAreKept <=> all \cup wiped = 1 .. typed /\ pairs
  BY DEF TextsAreKept
<1>4. TextsApart <=> a \cup b \cup c \cup d \cup wiped = 1 .. typed /\ apart
  BY DEF TextsApart, Apart
<1> HIDE DEF parts, a, b, c, d
<1>5. all = a \cup b \cup c \cup d
  BY <1>1, <1>2
<1>6. pairs <=> apart
  BY <1>1, <1>2
<1> HIDE DEF all, pairs, apart
<1> QED
  BY <1>3, <1>4, <1>5, <1>6

LEMMA KeptIsApartNext == TextsAreKept' <=> TextsApart'
  BY KeptIsApart, PTL

(* The order of the messages.                                              *)
MessagesInOrder == KeysInTurn /\ LatersApart

LEMMA PostedInOrder ==
  ASSUME DriveInv, NEW m \in Mail, pump' = Append(pump, m), sid' = sid,
         m.kind \in {"text", "fork"} => ~ Sent(m.kind),
         m.kind = "fork" => sid <= MaxForks,
         m.kind = "later" => m.texts \cap Carried("later") = {}
  PROVE  MessagesInOrder'
<1>1. /\ Len(pump) \in Nat /\ Len(pump') = Len(pump) + 1 /\ pump'[Len(pump) + 1] = m
      /\ \A i \in 1 .. Len(pump) : pump'[i] = pump[i]
  BY DEF DriveInv, TypeOK
<1>2. \A i \in 1 .. Len(pump') : i \in 1 .. Len(pump) \/ i = Len(pump) + 1
  BY <1>1
<1>3. KeysInTurn'
  <2>1. \A i \in 1 .. Len(pump) : pump[i].kind = m.kind => m.kind \notin {"text", "fork"}
    BY DEF Sent
  <2> QED
    BY <1>1, <1>2, <2>1 DEF DriveInv, KeysInTurn
<1>4. LatersApart'
  <2>1. \A i \in 1 .. Len(pump) :
          pump[i].kind = "later" /\ m.kind = "later" => m.texts \cap pump[i].texts = {}
    BY CarriedIs
  <2> QED
    BY <1>1, <1>2, <2>1 DEF DriveInv, LatersApart
<1> QED
  BY <1>3, <1>4 DEF MessagesInOrder

LEMMA HandledInOrder ==
  ASSUME DriveInv, pump # << >>, pump' = Tail(pump), sid' = sid \/ pump[1].kind = "fork"
  PROVE  MessagesInOrder'
<1>1. /\ Len(pump) \in Nat \ {0} /\ Len(pump') = Len(pump) - 1
      /\ \A i \in 1 .. Len(pump') : pump'[i] = pump[i + 1] /\ i + 1 \in 2 .. Len(pump)
  BY TailIs DEF DriveInv
<1>2. 1 \in 1 .. Len(pump) /\ \A i \in 2 .. Len(pump) : i \in 1 .. Len(pump) /\ i # 1
  BY <1>1
<1>3. \A i, j \in 1 .. Len(pump') : i + 1 = j + 1 => i = j
  BY <1>1
<1>4. KeysInTurn'
  <2>1. ASSUME NEW i \in 1 .. Len(pump'), NEW j \in 1 .. Len(pump'),
               pump'[i].kind = pump'[j].kind, pump'[i].kind \in {"text", "fork"}
        PROVE  i = j
    BY <1>1, <1>2, <1>3, <2>1 DEF DriveInv, KeysInTurn
  <2>2. ASSUME NEW i \in 1 .. Len(pump'), pump'[i].kind = "fork"
        PROVE  sid' <= MaxForks
    <3>1. i + 1 \in 1 .. Len(pump) /\ i + 1 # 1 /\ pump[i + 1].kind = "fork"
      BY <1>1, <1>2, <2>2
    <3>2. pump[1].kind # "fork" /\ sid <= MaxForks
      BY <1>2, <3>1 DEF DriveInv, KeysInTurn
    <3> QED
      BY <3>2
  <2> QED
    BY <2>1, <2>2 DEF KeysInTurn
<1>5. LatersApart'
  BY <1>1, <1>2, <1>3 DEF DriveInv, LatersApart
<1> QED
  BY <1>4, <1>5 DEF MessagesInOrder

LEMMA NothingPosted ==
  ASSUME DriveInv, UNCHANGED <<pump, sid>>
  PROVE  MessagesInOrder'
  BY DEF DriveInv, MessagesInOrder, KeysInTurn, LatersApart

(* Each text is in one place.                                              *)
LEMMA PersonKeepsTexts ==
  ASSUME DriveInv, Person
  PROVE  MessagesInOrder' /\ TextsApart'
<1>t. TypeOK /\ TextsApart
  BY KeptIsApart DEF DriveInv
<1>1. CASE Types
  <2>1. UNCHANGED <<pump, sid, sessions, queued, wiped>>
    BY <1>1 DEF Types
  <2>2. /\ typed' = typed + 1 /\ typed + 1 \notin 1 .. typed
        /\ 1 .. typed' = (1 .. typed) \cup {typed + 1}
    BY <1>t, <1>1 DEF Types, TypeOK
  <2>3. box' = box \cup {typed + 1}
    BY <1>1, <2>2 DEF Types
  <2>4. Carried("later")' = Carried("later") /\ Carried("text")' = Carried("text")
    BY <2>1 DEF Carried
  <2>5. sessions'[sid'].texts = sessions[sid].texts /\ queued' = queued /\ wiped' = wiped
    BY <2>1
  <2>6. MessagesInOrder'
    BY <2>1, NothingPosted
  <2>7. ASSUME NEW mine, NEW waiting, NEW later, NEW held, NEW erased, NEW all, NEW x,
               Apart(mine, waiting, later, held, erased, all), x \notin all
        PROVE  Apart(mine, waiting, later, held \cup {x}, erased, all \cup {x})
    BY <2>7 DEF Apart
  <2>8. Apart(sessions[sid].texts, queued, Carried("later"),
              (box \cup Carried("text")) \cup {typed + 1}, wiped, (1 .. typed) \cup {typed + 1})
    BY <1>t, <2>2, <2>7 DEF TextsApart
  <2>9. (box \cup Carried("text")) \cup {typed + 1} = box' \cup Carried("text")'
    BY <2>3, <2>4
  <2> QED
    BY <2>2, <2>4, <2>5, <2>6, <2>8, <2>9 DEF TextsApart
<1>2. ASSUME NEW m \in Mail, Posts(m), m.kind # "later",
             m.kind = "text" => m.texts = box,
             m.kind \in {"text", "fork"} => ~ Sent(m.kind),
             m.kind = "fork" => sid <= MaxForks
      PROVE  MessagesInOrder' /\ TextsApart'
  <2>1. /\ pump' = Append(pump, m)
        /\ UNCHANGED <<sid, sessions, queued, box, typed, wiped>>
    BY <1>2 DEF Posts
  <2>2. MessagesInOrder'
    BY <1>2, <2>1, PostedInOrder
  <2>3. Carried("later")' = Carried("later")
    BY <1>t, <1>2, <2>1, CarriedWithPosted
  <2>4. Carried("text")' = Carried("text") \/ Carried("text")' = Carried("text") \cup box
    BY <1>t, <1>2, <2>1, CarriedWithPosted
  <2> QED
    BY <1>t, <2>1, <2>2, <2>3, <2>4 DEF TextsApart, Apart
<1> USE DEF Message
<1>3. CASE Enters
  <2>1. Message("text", box) \in Mail /\ ~ Sent("text")
    BY <1>t, <1>3, MessagesAreMail DEF Enters, TypeOK, Typing
  <2> QED
    BY <1>2, <1>3, <2>1 DEF Enters
<1>4. CASE TypesFork
  <2>1. Message("fork", {}) \in Mail /\ ~ Sent("fork") /\ sid <= MaxForks
    BY <1>4, MessagesAreMail DEF TypesFork, Typing
  <2> QED
    BY <1>2, <1>4, <2>1 DEF TypesFork
<1>5. CASE PressesStop
  BY <1>2, <1>5, MessagesAreMail DEF PressesStop
<1>6. CASE PressesQuit
  BY <1>2, <1>6, MessagesAreMail DEF PressesQuit
<1>7. ASSUME NEW key \in Keys, Answers(key)
      PROVE  MessagesInOrder' /\ TextsApart'
  <2>1. [kind |-> "answer", texts |-> {}, id |-> prompt.id, key |-> key] \in Mail
    BY <1>t, <1>7 DEF TypeOK, Answers, Mail
  <2> QED
    BY <1>2, <1>7, <2>1 DEF Answers
<1> QED
  BY <1>1, <1>3, <1>4, <1>5, <1>6, <1>7 DEF Person, Keys

LEMMA AppKeepsTexts ==
  ASSUME DriveInv, App
  PROVE  MessagesInOrder' /\ TextsApart'
<1>t. TypeOK /\ TextsApart
  BY KeptIsApart DEF DriveInv
<1>1. ASSUME NEW texts \in SUBSET Texts, pump # << >>, pump' = Tail(pump),
             typed' = typed,
             \/ /\ pump[1].kind = "text" /\ texts = pump[1].texts
             \/ /\ pump[1].kind = "later" /\ texts = pump[1].texts,
             \/ Submit(texts)
             \/ /\ queued' = queued \cup texts
                /\ UNCHANGED <<sid, sessions>>
                /\ \/ UNCHANGED <<box, wiped>> /\ pump[1].kind = "later"
                   \/ box' = {} /\ wiped' = wiped \cup (box \ texts)
      PROVE  MessagesInOrder' /\ TextsApart'
  <2>1. /\ Carried("text") =
             Carried("text")' \cup (IF pump[1].kind = "text" THEN texts ELSE {})
        /\ Carried("later") =
             Carried("later")' \cup (IF pump[1].kind = "later" THEN texts ELSE {})
    BY <1>t, <1>1, CarriedWithHandled
  <2>2. /\ pump[1].kind = "text" => Carried("text")' = {}
        /\ pump[1].kind = "later" => Carried("later")' \cap texts = {}
    BY <1>1, NoneLeftOfHandled
  <2>3. \/ /\ sessions'[sid'].texts = sessions[sid].texts \cup texts /\ queued' = queued
           /\ box' = {} /\ wiped' = wiped \cup (box \ texts)
        \/ /\ sessions'[sid'].texts = sessions[sid].texts /\ queued' = queued \cup texts
           /\ \/ box' = box /\ wiped' = wiped /\ pump[1].kind = "later"
              \/ box' = {} /\ wiped' = wiped \cup (box \ texts)
    <3>1. CASE Submit(texts)
      BY <1>t, <3>1, SubmitTyped
    <3> QED
      BY <1>1, <3>1
  <2>4. sid' = sid
    BY <1>t, <1>1, SubmitTyped
  <2>5. MessagesInOrder'
    BY <1>1, <2>4, HandledInOrder
  <2>6. TextsApart'
    <3>1. CASE pump[1].kind = "text"
      BY <1>t, <1>1, <2>1, <2>2, <2>3, <3>1 DEF TextsApart, Apart
    <3>2. CASE pump[1].kind = "later"
      BY <1>t, <1>1, <2>1, <2>2, <2>3, <3>2 DEF TextsApart, Apart
    <3> QED
      BY <1>1, <3>1, <3>2
  <2> QED
    BY <2>5, <2>6
<1>2. CASE HandlesText
  <2>1. pump[1].texts \in SUBSET Texts
    BY <1>t, <1>2, HandlesTypes DEF HandlesText
  <2> QED
    BY <1>1, <1>2, <2>1 DEF HandlesText, Handles
<1>3. CASE HandlesFollowUp
  <2>1. pump[1].texts \in SUBSET Texts
    BY <1>t, <1>3, HandlesTypes DEF HandlesFollowUp
  <2> QED
    BY <1>1, <1>3, <2>1 DEF HandlesFollowUp, SendFollowUp, Handles
<1>4. ASSUME NEW kind \in {"fork", "stop", "answer", "quit"}, Handles(kind),
             sid' = sid \/ kind = "fork",
             sessions'[sid'].texts = sessions[sid].texts, queued' = queued,
             \/ UNCHANGED <<box, wiped>>
             \/ box' = {} /\ wiped' = wiped \cup box
      PROVE  MessagesInOrder' /\ TextsApart'
  <2>1. pump # << >> /\ pump[1].kind = kind /\ pump' = Tail(pump) /\ typed' = typed
    BY <1>4 DEF Handles
  <2>2. Carried("text")' = Carried("text") /\ Carried("later")' = Carried("later")
    BY <1>t, <1>4, <2>1, CarriedWithHandled
  <2>3. MessagesInOrder'
    BY <1>4, <2>1, HandledInOrder
  <2> QED
    BY <1>t, <1>4, <2>1, <2>2, <2>3 DEF TextsApart, Apart
<1>5. CASE HandlesFork
  <2>1. pump # << >> /\ pump[1].kind = "fork" /\ 1 \in 1 .. Len(pump)
    BY <1>t, <1>5 DEF HandlesFork, Handles, TypeOK
  <2>2. sid <= MaxForks
    BY <2>1 DEF DriveInv, KeysInTurn
  <2>3. sid + 1 \in 1 .. MaxForks + 1
    BY <1>t, <2>2, DriveAssumption DEF TypeOK
  <2>4. sessions'[sid'].texts = sessions[sid].texts
    BY <1>t, <1>5, <2>3 DEF HandlesFork, TypeOK
  <2> QED
    BY <1>4, <1>5, <2>4 DEF HandlesFork
<1>6. CASE HandlesStop
  BY <1>4, <1>6 DEF HandlesStop
<1>7. CASE HandlesAnswer
  BY <1>4, <1>7 DEF HandlesAnswer
<1>8. CASE HandlesQuit
  BY <1>4, <1>8 DEF HandlesQuit
<1>9. CASE Exits
  <2>1. UNCHANGED <<pump, sid, sessions, queued, box, typed, wiped>>
    BY <1>9 DEF Exits
  <2> QED
    BY <1>t, <2>1, NothingPosted DEF TextsApart, Carried
<1> QED
  BY <1>2, <1>3, <1>5, <1>6, <1>7, <1>8, <1>9 DEF App

LEMMA RunsKeepTexts ==
  ASSUME DriveInv, NEW i \in 1 .. Len(workers), Turns(i) \/ WorkerStarts(i) \/ Unwinds(i)
  PROVE  MessagesInOrder' /\ TextsApart'
<1>t. /\ TypeOK /\ TextsApart /\ workers[i].sid \in 1 .. MaxForks + 1
      /\ sid \in 1 .. MaxForks + 1 /\ queued \in SUBSET Texts
  BY KeptIsApart, WorkersAreTyped DEF DriveInv, TypeOK, Work
<1> USE DEF appVars, approverVars
<1>1. ASSUME UNCHANGED <<pump, sid, typed, wiped>>,
             \/ UNCHANGED <<sessions, queued, box>>
             \/ /\ sessions'[sid].texts = sessions[sid].texts \cup queued
                /\ queued' = {} /\ box' = box
             \/ /\ sessions'[sid].texts = sessions[sid].texts
                /\ queued' = {} /\ box' = box \cup queued
      PROVE  MessagesInOrder' /\ TextsApart'
  <2>1. MessagesInOrder'
    BY <1>1, NothingPosted
  <2>2. Carried("text")' = Carried("text") /\ Carried("later")' = Carried("later")
    BY <1>1 DEF Carried
  <2> QED
    BY <1>t, <1>1, <2>1, <2>2 DEF TextsApart, Apart
<1>2. CASE TakesQueued(i)
  <2>1. workers[i].sid = sid
    BY <1>2 DEF TakesQueued, At, DriveInv, LastServes, Serving
  <2>2. sessions'[sid].texts = sessions[sid].texts \cup queued
    BY <1>t, <1>2, <2>1, SessionsStayTyped DEF TakesQueued
  <2> QED
    BY <1>1, <1>2, <2>2 DEF TakesQueued
<1>3. ASSUME NEW call \in Calls, CallsUnasked(i, call) \/ Asks(i, call)
      PROVE  MessagesInOrder' /\ TextsApart'
  <2>1. UNCHANGED <<pump, sid, typed, wiped, sessions, queued, box>>
    BY <1>3, Zenon DEF CallsUnasked, Asks
  <2> QED
    BY <1>1, <2>1
<1>4. CASE WorkerStarts(i) \/ Answered(i) \/ Feels(i)
  BY <1>1, <1>4 DEF WorkerStarts, Answered, Feels
<1>s. ASSUME sessions' = Settled(i)
      PROVE  sessions'[sid].texts = sessions[sid].texts
  <2>1. {} \in SUBSET Texts
    OBVIOUS
  <2> QED
    BY <1>t, <1>s, <2>1, SessionsStayTyped DEF Settled
<1>5. CASE Interrupted(i)
  BY <1>1, <1>5, <1>s DEF Interrupted, Returned
<1>6. CASE Ends(i)
  <2>1. /\ sessions'[sid'].texts = sessions[sid].texts /\ queued' = {}
        /\ UNCHANGED <<sid, box, typed, wiped>>
    BY <1>6, <1>s DEF Ends
  <2>2. CASE queued = {}
    <3>1. pump' = pump
      BY <1>6, <2>2 DEF Ends
    <3> QED
      BY <1>1, <2>1, <2>2, <3>1
  <2>3. CASE queued # {}
    <3> DEFINE m == Message("later", queued)
    <3>1. /\ m \in Mail /\ m.kind = "later" /\ m.texts = queued
          /\ pump' = Append(pump, m)
      BY <1>t, <1>6, <2>3, MessagesAreMail DEF Ends, Message
    <3>2. queued \cap Carried("later") = {}
      BY <1>t DEF TextsApart, Apart
    <3> HIDE DEF m
    <3>3. MessagesInOrder'
      BY <2>1, <3>1, <3>2, PostedInOrder
    <3>4. /\ Carried("text")' = Carried("text")
          /\ Carried("later")' = Carried("later") \cup queued
      BY <1>t, <3>1, CarriedWithPosted
    <3> QED
      BY <1>t, <2>1, <3>3, <3>4 DEF TextsApart, Apart
  <2> QED
    BY <2>2, <2>3
<1> QED
  BY <1>2, <1>3, <1>4, <1>5, <1>6 DEF Turns, Unwinds

-----------------------------------------------------------------------------
(* The consent.                                                            *)
Consent ==
  SaidTyped /\ AsksAreKnown /\ PromptIsOfCall /\ AnswersWereGiven /\ GrantsWereShown /\ OnlyConsent

(* What was shown once was shown.                                          *)
LEMMA ShownStays ==
  ASSUME said \subseteq said'
  PROVE  /\ \A tool : ToolShown(tool) => ToolShown(tool)'
         /\ \A program : ProgramShown(program) => ProgramShown(program)'
  BY DEF ToolShown, ProgramShown

(* OnlyConsent, with what was shown by name.                               *)
Consented(call) ==
  \/ call.tool \in EXEMPT
  \/ call.tool # "bash" /\ ~ GitWrite(call) /\ ToolShown(call.tool)
  \/ /\ call.tool = "bash" /\ ~ call.risky /\ ~ call.glob
     /\ \A c \in call.line : ~ c.reads =>
          c.program \notin READ_ONLY \cup {None} /\ c.plain /\ ProgramShown(c.program)

LEMMA ConsentIs ==
  OnlyConsent
    <=> (did # None => IF did.asked
                       THEN \E s \in said : s.id = did.id /\ s.call = did.call
                       ELSE Consented(did.call))
  BY DEF OnlyConsent, Consented, ToolShown, ProgramShown

LEMMA ConsentStays ==
  ASSUME OnlyConsent, did' = did, said \subseteq said'
  PROVE  OnlyConsent'
  BY DEF OnlyConsent

LEMMA GrantsStay ==
  ASSUME GrantsWereShown, UNCHANGED <<always, programs>>, said \subseteq said'
  PROVE  GrantsWereShown'
  BY ShownStays DEF GrantsWereShown

(* A step that neither asks nor answers.                                   *)
SameAsks ==
  \A i \in 1 .. Len(workers') :
    workers'[i].pc = "ask" =>
      /\ i \in 1 .. Len(workers) /\ workers[i].pc = "ask"
      /\ workers'[i].asks = workers[i].asks
      /\ workers'[i].call = workers[i].call /\ workers'[i].key = workers[i].key

SameAnswers ==
  \A i \in 1 .. Len(pump') :
    pump'[i].kind = "answer" =>
      \E j \in 1 .. Len(pump) : pump[j].kind = "answer" /\ pump'[i].id = pump[j].id
                                                        /\ pump'[i].key = pump[j].key

LEMMA QuietSteps ==
  ASSUME DriveInv, UNCHANGED approverVars, prompt' \in {None, prompt},
         SameAsks, SameAnswers
  PROVE  Consent'
<1> USE DEF approverVars
<1>1. SaidTyped' /\ PromptIsOfCall'
  BY DEF DriveInv, SaidTyped, PromptIsOfCall
<1>2. AsksAreKnown'
  BY DEF DriveInv, AsksAreKnown, SameAsks
<1>3. AnswersWereGiven'
  BY DEF DriveInv, AnswersWereGiven, SameAnswers
<1>4. GrantsWereShown' /\ OnlyConsent'
  BY GrantsStay, ConsentStays DEF DriveInv
<1> QED
  BY <1>1, <1>2, <1>3, <1>4 DEF Consent

LEMMA UnchangedAsks ==
  ASSUME UNCHANGED workers
  PROVE  SameAsks
  BY DEF SameAsks

LEMMA UnchangedAnswers ==
  ASSUME UNCHANGED pump
  PROVE  SameAnswers
  BY DEF SameAnswers

LEMMA OneStopsAsking ==
  ASSUME TypeOK, NEW i \in 1 .. Len(workers), NEW w \in Work, Moves(i, w), w.pc # "ask"
  PROVE  SameAsks
  BY OneMoves DEF SameAsks

LEMMA CancelStopsAsking ==
  ASSUME TypeOK, workers' = IF TurnIsRunning THEN CancelLast ELSE workers
  PROVE  SameAsks
<1>1. \A i \in 1 .. Len(workers) : Cancelled(workers[i]).pc # "ask"
  BY WorkersAreTyped, CancelledIsWork DEF Serving
<1> QED
  BY <1>1, LastIsCancelled DEF SameAsks

LEMMA PostedAnswers ==
  ASSUME TypeOK, NEW m \in Mail, m.kind # "answer", pump' = Append(pump, m)
  PROVE  SameAnswers
<1>1. /\ Len(pump) \in Nat /\ Len(pump') = Len(pump) + 1 /\ pump'[Len(pump) + 1] = m
      /\ \A i \in 1 .. Len(pump) : pump'[i] = pump[i]
  BY DEF TypeOK
<1>2. \A i \in 1 .. Len(pump') : i \in 1 .. Len(pump) \/ i = Len(pump) + 1
  BY <1>1
<1> QED
  BY <1>1, <1>2 DEF SameAnswers

LEMMA HandledAnswers ==
  ASSUME TypeOK, pump # << >>, pump' = Tail(pump)
  PROVE  SameAnswers
<1>1. \A i \in 1 .. Len(pump') : pump'[i] = pump[i + 1] /\ i + 1 \in 1 .. Len(pump)
  BY TailIs
<1> QED
  BY <1>1 DEF SameAnswers

LEMMA AnswerConsents ==
  ASSUME DriveInv, NEW key \in Keys, Answers(key)
  PROVE  Consent'
<1>t. TypeOK
  BY DEF DriveInv
<1> DEFINE m == [kind |-> "answer", texts |-> {}, id |-> prompt.id, key |-> key]
           new == [id |-> prompt.id, key |-> key, call |-> prompt.call]
<1>1. /\ prompt # None /\ prompt' = None /\ pump' = Append(pump, m)
      /\ said' = IF key = "n" THEN said ELSE said \cup {new}
      /\ UNCHANGED <<always, programs, calls, did, workers>>
  BY DEF Answers, Posts
<1>2. /\ prompt.id \in 1 .. calls /\ prompt.call \in Calls
      /\ m.kind = "answer" /\ m.id = prompt.id /\ m.key = key
      /\ new.id = prompt.id /\ new.key = key /\ new.call = prompt.call
  BY <1>t, <1>1 DEF DriveInv, TypeOK, PromptIsOfCall
<1>3. key # "n" => new \in [id : 1 .. calls, key : {"y", "a"}, call : Calls]
  BY <1>2 DEF Keys
<1>4. /\ Len(pump) \in Nat /\ Len(pump') = Len(pump) + 1 /\ pump'[Len(pump) + 1] = m
      /\ \A i \in 1 .. Len(pump) : pump'[i] = pump[i]
  BY <1>t, <1>1 DEF TypeOK
<1>5. \A i \in 1 .. Len(pump') : i \in 1 .. Len(pump) \/ i = Len(pump) + 1
  BY <1>4
<1> HIDE DEF m, new
<1>6. /\ said \subseteq said' /\ \A s \in said' : s \in said \/ (s = new /\ key # "n")
      /\ key # "n" => new \in said'
  BY <1>1
<1>7. SaidTyped' /\ PromptIsOfCall'
  BY <1>1, <1>3 DEF DriveInv, SaidTyped, PromptIsOfCall
<1>8. AsksAreKnown'
  BY <1>1, <1>2, <1>6 DEF DriveInv, AsksAreKnown
<1>9. AnswersWereGiven'
  BY <1>2, <1>4, <1>5, <1>6 DEF DriveInv, AnswersWereGiven
<1>10. GrantsWereShown' /\ OnlyConsent'
  BY <1>1, <1>6, GrantsStay, ConsentStays DEF DriveInv
<1> QED
  BY <1>7, <1>8, <1>9, <1>10 DEF Consent

LEMMA PersonConsents ==
  ASSUME DriveInv, Person
  PROVE  Consent'
<1>t. TypeOK
  BY DEF DriveInv
<1> USE DEF Message
<1>1. CASE Types
  BY <1>1, QuietSteps, UnchangedAsks, UnchangedAnswers DEF Types
<1>2. ASSUME NEW m \in Mail, m.kind # "answer", Posts(m), UNCHANGED <<prompt, approverVars>>
      PROVE  Consent'
  <2>1. pump' = Append(pump, m) /\ UNCHANGED workers
    BY <1>2 DEF Posts
  <2> QED
    BY <1>t, <1>2, <2>1, QuietSteps, UnchangedAsks, PostedAnswers
<1>3. CASE Enters
  <2>1. Message("text", box) \in Mail
    BY <1>t, MessagesAreMail DEF TypeOK
  <2> QED
    BY <1>2, <1>3, <2>1 DEF Enters
<1>4. CASE TypesFork
  BY <1>2, <1>4, MessagesAreMail DEF TypesFork
<1>5. CASE PressesStop
  BY <1>2, <1>5, MessagesAreMail DEF PressesStop
<1>6. CASE PressesQuit
  BY <1>2, <1>6, MessagesAreMail DEF PressesQuit
<1>7. ASSUME NEW key \in Keys, Answers(key)
      PROVE  Consent'
  BY <1>7, AnswerConsents
<1> QED
  BY <1>1, <1>3, <1>4, <1>5, <1>6, <1>7 DEF Person, Keys

LEMMA AnswerReaches ==
  ASSUME DriveInv, HandlesAnswer
  PROVE  Consent'
<1>t. TypeOK
  BY DEF DriveInv
<1> DEFINE m == pump[1]
<1>1. /\ pump # << >> /\ m.kind = "answer" /\ pump' = Tail(pump)
      /\ UNCHANGED <<prompt, approverVars>>
      /\ 1 \in 1 .. Len(pump)
  BY <1>t DEF HandlesAnswer, Handles, TypeOK
<1>2. Len(workers') = Len(workers)
  BY <1>t DEF HandlesAnswer, TypeOK
<1>3. ASSUME NEW i \in 1 .. Len(workers)
      PROVE  /\ workers'[i].pc = workers[i].pc /\ workers'[i].asks = workers[i].asks
             /\ workers'[i].call = workers[i].call
             /\ workers'[i].key # workers[i].key =>
                  workers[i].asks = m.id /\ workers'[i].key = m.key
  <2>1. workers'[i] = IF AnswerFor(workers[i], m)
                      THEN [workers[i] EXCEPT !.key = m.key]
                      ELSE workers[i]
    BY DEF HandlesAnswer
  <2>2. workers[i] \in Work
    BY <1>t, WorkersAreTyped
  <2> QED
    BY <2>1, <2>2 DEF AnswerFor, Work
<1> HIDE DEF m
<1>4. m.key \in {"y", "a"} => \E s \in said : s.id = m.id /\ s.key = m.key
  BY <1>1 DEF DriveInv, AnswersWereGiven, m
<1>5. AsksAreKnown'
  BY <1>1, <1>2, <1>3, <1>4 DEF DriveInv, AsksAreKnown, approverVars
<1>6. AnswersWereGiven'
  <2>1. SameAnswers
    BY <1>t, <1>1, HandledAnswers
  <2> QED
    BY <1>1, <2>1 DEF DriveInv, AnswersWereGiven, SameAnswers, approverVars
<1>7. SaidTyped' /\ PromptIsOfCall'
  BY <1>1 DEF DriveInv, SaidTyped, PromptIsOfCall, approverVars
<1>8. GrantsWereShown' /\ OnlyConsent'
  BY <1>1, GrantsStay, ConsentStays DEF DriveInv, approverVars
<1> QED
  BY <1>5, <1>6, <1>7, <1>8 DEF Consent

LEMMA AppConsents ==
  ASSUME DriveInv, App
  PROVE  Consent'
<1>t. TypeOK
  BY DEF DriveInv
<1>1. ASSUME NEW kind, Handles(kind), SameAsks
      PROVE  Consent'
  <2>1. pump # << >> /\ pump' = Tail(pump) /\ UNCHANGED <<prompt, approverVars>>
    BY <1>1 DEF Handles
  <2> QED
    BY <1>t, <1>1, <2>1, QuietSteps, HandledAnswers
<1>2. ASSUME NEW kind, Handles(kind), Submit(pump[1].texts) \/ UNCHANGED workers
      PROVE  Consent'
  <2>1. SameAsks
    <3>1. CASE Submit(pump[1].texts)
      <4>1. /\ Len(workers) \in Nat /\ Len(workers') = Len(workers) + 1
            /\ workers'[Len(workers) + 1] = NewWorker
            /\ \A i \in 1 .. Len(workers) : workers'[i].pc \notin Serving
        BY <1>t, <3>1, OthersAreReplaced DEF TypeOK
      <4>2. NewWorker.pc = "new"
        BY DEF NewWorker, WorkerAt
      <4>3. \A i \in 1 .. Len(workers') : i \in 1 .. Len(workers) \/ i = Len(workers) + 1
        BY <4>1
      <4> QED
        BY <4>1, <4>2, <4>3 DEF SameAsks, Serving
    <3> QED
      BY <1>2, <3>1, UnchangedAsks
  <2> QED
    BY <1>1, <1>2, <2>1
<1>3. CASE HandlesText
  BY <1>2, <1>3 DEF HandlesText
<1>4. CASE HandlesFollowUp
  BY <1>2, <1>4 DEF HandlesFollowUp, SendFollowUp
<1>5. CASE HandlesFork
  BY <1>2, <1>5 DEF HandlesFork
<1>6. CASE HandlesStop
  BY <1>t, <1>1, <1>6, CancelStopsAsking DEF HandlesStop
<1>7. CASE HandlesAnswer
  BY <1>7, AnswerReaches
<1>8. CASE HandlesQuit
  BY <1>t, <1>1, <1>8, CancelStopsAsking DEF HandlesQuit
<1>9. CASE Exits
  BY <1>9, QuietSteps, UnchangedAsks, UnchangedAnswers DEF Exits
<1> QED
  BY <1>3, <1>4, <1>5, <1>6, <1>7, <1>8, <1>9 DEF App

LEMMA UnaskedConsents ==
  ASSUME DriveInv, NEW i \in 1 .. Len(workers), NEW call \in Calls, CallsUnasked(i, call)
  PROVE  Consent'
<1>1. /\ UNCHANGED <<workers, pump, prompt, always, programs, said>>
      /\ calls' = calls + 1 /\ calls \in Nat /\ Unasked(call)
      /\ did' = [id |-> calls', call |-> call, asked |-> FALSE]
  BY DriveAssumption DEF CallsUnasked, Ran, appVars, DriveInv, TypeOK
<1>2. 1 .. calls \subseteq 1 .. calls' /\ \A n \in Nat : n <= calls => n <= calls'
  BY <1>1
<1>3. SaidTyped'
  BY <1>1, <1>2 DEF DriveInv, SaidTyped
<1>4. PromptIsOfCall'
  <2>1. prompt # None => prompt.id \in Nat
    BY DEF DriveInv, TypeOK
  <2> QED
    BY <1>1, <1>2, <2>1 DEF DriveInv, PromptIsOfCall
<1>5. AsksAreKnown' /\ AnswersWereGiven'
  BY <1>1, <1>2 DEF DriveInv, AsksAreKnown, AnswersWereGiven
<1>6. GrantsWereShown'
  BY <1>1, GrantsStay DEF DriveInv
<1>7. OnlyConsent'
  <2>1. Consented(call)
    BY <1>1 DEF DriveInv, GrantsWereShown, Unasked, UnaskedLine, Consented
  <2>2. did'.call = call /\ did'.asked = FALSE
    BY <1>1
  <2>3. Consented(call)'
    BY <1>1, <2>1, ShownStays DEF Consented
  <2>4. (did # None => IF did.asked
                       THEN \E s \in said : s.id = did.id /\ s.call = did.call
                       ELSE Consented(did.call))'
    BY <2>2, <2>3 DEF Consented
  <2>5. OnlyConsent'
          <=> (did # None => IF did.asked
                             THEN \E s \in said : s.id = did.id /\ s.call = did.call
                             ELSE Consented(did.call))'
    BY ConsentIs, PTL
  <2> QED
    BY <2>4, <2>5
<1> QED
  BY <1>3, <1>4, <1>5, <1>6, <1>7 DEF Consent

LEMMA AskConsents ==
  ASSUME DriveInv, NEW i \in 1 .. Len(workers), NEW call \in Calls, Asks(i, call)
  PROVE  Consent'
<1>t. TypeOK
  BY DEF DriveInv
<1> DEFINE w == [pc |-> "ask", sid |-> workers[i].sid, stopped |-> FALSE,
                 asks |-> calls', call |-> call, key |-> None]
<1>1. Moves(i, w) /\ calls' = calls + 1 /\ UNCHANGED <<pump, always, programs, said, did>>
  BY DEF Asks
<1>p. prompt' = [id |-> calls', call |-> call]
  BY DEF Asks
<1>2. w.pc = "ask" /\ w.asks = calls' /\ w.call = call /\ w.key = None
  OBVIOUS
<1>3. w \in Work
  <2>1. workers' = [workers EXCEPT ![i] = w] /\ workers \in Seq(Work)
    BY <1>t, <1>1 DEF Moves, TypeOK
  <2>2. workers' \in Seq(Work)
    BY TurnsTypes DEF Turns, TypeOK
  <2> HIDE DEF w
  <2>3. workers'[i] = w /\ i \in 1 .. Len(workers')
    BY <2>1, <2>2
  <2> QED
    BY <2>2, <2>3
<1> HIDE DEF w
<1>4. /\ Len(workers') = Len(workers) /\ workers'[i] = w
      /\ \A j \in 1 .. Len(workers) \ {i} : workers'[j] = workers[j]
  BY <1>t, <1>1, <1>3, OneMoves
<1>5. calls \in Nat /\ calls' \in Nat
  BY <1>t, <1>1, DriveAssumption DEF TypeOK
<1>6. /\ 1 .. calls \subseteq 1 .. calls' /\ calls' \in 1 .. calls'
      /\ \A n \in 1 .. calls : n # calls'
  BY <1>1, <1>5
<1>7. /\ \A s \in said : s.id \in 1 .. calls
      /\ prompt'.id = calls' /\ prompt'.call = call
  BY <1>p DEF DriveInv, SaidTyped
<1>8. SaidTyped'
  BY <1>1, <1>6 DEF DriveInv, SaidTyped
<1>9. PromptIsOfCall'
  BY <1>5, <1>7 DEF PromptIsOfCall
<1>10. AsksAreKnown'
  <2>1. ASSUME NEW j \in 1 .. Len(workers) \ {i}, workers[j].pc = "ask"
        PROVE  /\ workers[j].asks \in 1 .. calls' /\ workers[j].call \in Calls
               /\ workers[j].asks # calls'
               /\ \A s \in said : s.id = workers[j].asks => s.call = workers[j].call
               /\ workers[j].key \in {"y", "a"} =>
                    \E s \in said : s.id = workers[j].asks /\ s.key = workers[j].key
    BY <1>6, <2>1 DEF DriveInv, AsksAreKnown
  <2>2. \A s \in said : s.id # calls'
    BY <1>6, <1>7
  <2>3. w.key \notin {"y", "a"}
    BY <1>2, DriveAssumption
  <2> QED
    BY <1>1, <1>2, <1>4, <1>6, <1>7, <2>1, <2>2, <2>3 DEF AsksAreKnown
<1>11. AnswersWereGiven'
  BY <1>1 DEF DriveInv, AnswersWereGiven
<1>12. GrantsWereShown' /\ OnlyConsent'
  BY <1>1, GrantsStay, ConsentStays DEF DriveInv
<1> QED
  BY <1>8, <1>9, <1>10, <1>11, <1>12 DEF Consent

LEMMA TurnsConsent ==
  ASSUME DriveInv, NEW i \in 1 .. Len(workers), Turns(i)
  PROVE  Consent'
<1>1. CASE TakesQueued(i)
  BY <1>1, QuietSteps, UnchangedAsks, UnchangedAnswers DEF TakesQueued
<1> QED
  BY <1>1, UnaskedConsents, AskConsents DEF Turns

(* What an answer grants was shown to whoever gave it.                     *)
LEMMA AnsweredConsents ==
  ASSUME DriveInv, NEW i \in 1 .. Len(workers), Answered(i)
  PROVE  Consent'
<1>t. TypeOK /\ workers[i] \in Work
  BY WorkersAreTyped DEF DriveInv
<1> DEFINE call == workers[i].call
           key == workers[i].key
<1>1. /\ workers[i].pc = "ask" /\ key # None
      /\ prompt' \in {prompt, None}
      /\ Moves(i, WorkerAt("run", workers[i].sid, workers[i].stopped))
      /\ UNCHANGED <<pump, calls, said>>
  BY DEF Answered, At, Closed
<1>2. call \in Calls /\ key \in Keys
  BY <1>t, <1>1 DEF DriveInv, AsksAreKnown, Work
<1>3. key # "n" => \E s \in said : s.id = workers[i].asks /\ s.key = key /\ s.call = call
  BY <1>1, <1>2 DEF DriveInv, AsksAreKnown, Keys
<1>4. SameAsks
  <2>1. WorkerAt("run", workers[i].sid, workers[i].stopped) \in Work
    BY <1>t, MovedIsWork DEF Begun
  <2>2. WorkerAt("run", workers[i].sid, workers[i].stopped).pc = "run"
    BY DEF WorkerAt
  <2> QED
    BY <1>t, <1>1, <2>1, <2>2, OneStopsAsking
<1>5. SaidTyped' /\ PromptIsOfCall' /\ AnswersWereGiven'
  BY <1>1 DEF DriveInv, SaidTyped, PromptIsOfCall, AnswersWereGiven
<1>6. AsksAreKnown'
  BY <1>1, <1>4 DEF DriveInv, AsksAreKnown, SameAsks
<1>7. GrantsWereShown'
  <2>1. CASE key = "a"
    <3>1. PICK s \in said : s.key = "a" /\ s.call = call
      BY <1>3, <2>1
    <3>2. CASE GitWrite(call)
      BY <1>1, <2>1, <3>2, GrantsStay DEF DriveInv, Answered, Grants
    <3>3. CASE ~ GitWrite(call) /\ call.tool = "bash"
      <4>1. programs' = programs \cup Scope(call) /\ always' = always
        BY <2>1, <3>3 DEF Answered, Grants
      <4>2. \A program \in Scope(call) :
              program \notin READ_ONLY \cup {None} /\ ProgramShown(program)
        BY <3>1 DEF Scope, Programs, ProgramShown
      <4>3. \A program \in programs' :
              program \notin READ_ONLY \cup {None} /\ ProgramShown(program)
        BY <4>1, <4>2 DEF DriveInv, GrantsWereShown
      <4> QED
        BY <1>1, <4>1, <4>3, ShownStays DEF DriveInv, GrantsWereShown
    <3>4. CASE ~ GitWrite(call) /\ call.tool # "bash"
      <4>1. always' = always \cup {call.tool} /\ programs' = programs
        BY <2>1, <3>4 DEF Answered, Grants
      <4>2. ToolShown(call.tool)
        BY <3>1, <3>4 DEF ToolShown
      <4> QED
        BY <1>1, <3>4, <4>1, <4>2, ShownStays DEF DriveInv, GrantsWereShown
    <3> QED
      BY <3>2, <3>3, <3>4
  <2>2. CASE key # "a"
    BY <1>1, <2>2, GrantsStay DEF DriveInv, Answered
  <2> QED
    BY <2>1, <2>2
<1>8. OnlyConsent'
  <2>1. CASE key = "n"
    BY <1>1, <2>1, ConsentStays DEF DriveInv, Answered
  <2>2. CASE key # "n"
    <3>1. did' = [id |-> workers[i].asks, call |-> call, asked |-> TRUE]
      BY <2>2 DEF Answered
    <3>2. did'.id = workers[i].asks /\ did'.call = call /\ did'.asked = TRUE
      BY <3>1
    <3>3. \E s \in said' : s.id = did'.id /\ s.call = did'.call
      BY <1>1, <1>3, <2>2, <3>2
    <3> QED
      BY <3>2, <3>3 DEF OnlyConsent
  <2> QED
    BY <2>1, <2>2
<1> QED
  BY <1>5, <1>6, <1>7, <1>8 DEF Consent

LEMMA WorksConsent ==
  ASSUME DriveInv, NEW i \in 1 .. Len(workers), WorkerStarts(i) \/ Unwinds(i)
  PROVE  Consent'
<1>t. TypeOK /\ workers[i] \in Work
  BY WorkersAreTyped DEF DriveInv
<1>w. ASSUME NEW pc \in Begun \cup Ended \cup {"new"}, pc # "ask",
             \/ Moves(i, [workers[i] EXCEPT !.pc = pc])
             \/ Moves(i, WorkerAt(pc, workers[i].sid, workers[i].stopped))
      PROVE  SameAsks
  <2>1. /\ [workers[i] EXCEPT !.pc = pc] \in Work /\ [workers[i] EXCEPT !.pc = pc].pc = pc
        /\ WorkerAt(pc, workers[i].sid, workers[i].stopped) \in Work
    BY <1>t, MovedIsWork
  <2>2. WorkerAt(pc, workers[i].sid, workers[i].stopped).pc = pc
    BY DEF WorkerAt
  <2> QED
    BY <1>t, <1>w, <2>1, <2>2, OneStopsAsking
<1>1. CASE WorkerStarts(i)
  BY <1>1, <1>w, QuietSteps, UnchangedAnswers DEF WorkerStarts, Begun
<1>2. CASE Answered(i)
  BY <1>2, AnsweredConsents
<1>3. CASE Feels(i)
  <2>1. SameAsks
    BY <1>3, <1>w DEF Feels, Begun
  <2>2. prompt' \in {None, prompt} /\ UNCHANGED <<pump, approverVars>>
    BY <1>3 DEF Feels, Closed
  <2> QED
    BY <2>1, <2>2, QuietSteps, UnchangedAnswers
<1>4. CASE Ends(i)
  <2>1. SameAsks
    BY <1>4, <1>w DEF Ends, Ended
  <2>2. SameAnswers
    <3>1. Message("later", queued) \in Mail /\ Message("later", queued).kind = "later"
      BY <1>t, MessagesAreMail DEF TypeOK, Message
    <3> QED
      BY <1>t, <1>4, <3>1, PostedAnswers, UnchangedAnswers DEF Ends
  <2> QED
    BY <1>4, <2>1, <2>2, QuietSteps DEF Ends
<1>5. CASE Interrupted(i)
  BY <1>5, <1>w, QuietSteps, UnchangedAnswers DEF Interrupted, Ended
<1> QED
  BY <1>1, <1>2, <1>3, <1>4, <1>5 DEF Unwinds

-----------------------------------------------------------------------------
(* The invariant.                                                          *)
LEMMA DriveInit == Init => DriveInv
<1> SUFFICES ASSUME Init
             PROVE  DriveInv
  OBVIOUS
<1>1. TypeOK
  <2>1. sessions \in [1 .. MaxForks + 1 -> Conversation]
    BY DEF Init, Conversation
  <2>2. pump \in Seq(Mail) /\ workers \in Seq(Work)
    BY DEF Init
  <2>3. sid \in 1 .. MaxForks + 1 /\ typed \in 0 .. MaxTexts /\ calls \in 0 .. MaxCalls
    BY DriveAssumption DEF Init
  <2> QED
    BY <2>1, <2>2, <2>3 DEF Init, TypeOK
<1>2. sessions[sid].texts = {} /\ 1 \in 1 .. MaxForks + 1
  BY DriveAssumption DEF Init
<1>3. Carried("text") = {} /\ Carried("later") = {}
  BY DEF Init, Carried
<1>4. TextsApart
  BY <1>2, <1>3 DEF Init, TextsApart, Apart
<1>5. Len(pump) = 0 /\ Len(workers) = 0
  BY DEF Init
<1>6. KeysInTurn /\ LatersApart /\ AnswersWereGiven
  BY <1>5 DEF KeysInTurn, LatersApart, AnswersWereGiven
<1>7. LastServes /\ StateShows /\ AsksAreKnown
  BY <1>5 DEF LastServes, StateShows, AsksAreKnown
<1>8. SaidTyped /\ PromptIsOfCall /\ GrantsWereShown /\ OnlyConsent
  BY DEF Init, SaidTyped, PromptIsOfCall, GrantsWereShown, OnlyConsent
<1> QED
  BY <1>1, <1>4, <1>6, <1>7, <1>8, KeptIsApart DEF DriveInv

LEMMA DriveStands ==
  ASSUME DriveInv, UNCHANGED vars
  PROVE  DriveInv'
<1> USE DEF vars, appVars, approverVars
<1>1. TypeOK'
  BY DEF DriveInv, TypeOK
<1>2. KeysInTurn' /\ LatersApart' /\ LastServes' /\ StateShows'
  BY DEF DriveInv, KeysInTurn, LatersApart, LastServes, StateShows
<1>3. SaidTyped' /\ AsksAreKnown' /\ PromptIsOfCall' /\ AnswersWereGiven'
  BY DEF DriveInv, SaidTyped, AsksAreKnown, PromptIsOfCall, AnswersWereGiven
<1>4. GrantsWereShown' /\ OnlyConsent'
  BY ConsentStays, GrantsStay DEF DriveInv
<1>5. TextsAreKept'
  BY KeptIsApart, KeptIsApartNext DEF DriveInv, TextsApart, Carried
<1> QED
  BY <1>1, <1>2, <1>3, <1>4, <1>5 DEF DriveInv

LEMMA DriveStep == DriveInv /\ [Next]_vars => DriveInv'
<1> SUFFICES ASSUME DriveInv, [Next]_vars
             PROVE  DriveInv'
  OBVIOUS
<1>1. ASSUME TypeOK', LastServes', StateShows', MessagesInOrder', TextsApart', Consent'
      PROVE  DriveInv'
  BY <1>1, KeptIsApartNext DEF DriveInv, MessagesInOrder, Consent
<1>2. CASE Person
  BY <1>1, <1>2, PersonTypes, PersonServes, PersonKeepsTexts, PersonConsents
<1>3. CASE App
  BY <1>1, <1>3, AppTypes, AppServes, AppKeepsTexts, AppConsents
<1>4. ASSUME NEW i \in 1 .. Len(workers), WorkerStarts(i) \/ Unwinds(i)
      PROVE  DriveInv'
  BY <1>1, <1>4, WorksTypes, WorksServe, RunsKeepTexts, WorksConsent
<1>5. ASSUME NEW i \in 1 .. Len(workers), Turns(i)
      PROVE  DriveInv'
  BY <1>1, <1>5, TurnsTypes, TurnsServe, RunsKeepTexts, TurnsConsent
<1>6. CASE UNCHANGED vars
  BY <1>6, DriveStands
<1> QED
  BY <1>2, <1>3, <1>4, <1>5, <1>6 DEF Next, Works

LEMMA DriveInvHolds == Spec => []DriveInv
  BY DriveInit, DriveStep, PTL DEF Spec

-----------------------------------------------------------------------------
(* Every value stays in its type: bash is never allowed as a whole, nor a  *)
(* program that runs unasked.                                              *)
THEOREM DriveIsTyped == Spec => []TypeOK
<1>1. DriveInv => TypeOK
  BY DEF DriveInv
<1> QED
  BY <1>1, DriveInvHolds, PTL

(* Whatever a run's end, an interrupt, a fork, an Enter and a follow-up do *)
(* to one another, each text typed is in one place: none is dropped and    *)
(* none is sent twice.                                                     *)
THEOREM TextsStayKept == Spec => []TextsAreKept
<1>1. DriveInv => TextsAreKept
  BY DEF DriveInv
<1> QED
  BY <1>1, DriveInvHolds, PTL

(* Whichever prompt an answer meets, a call runs because a person let this *)
(* very call through, or was shown what it does and answered `a'.          *)
THEOREM ConsentIsGiven == Spec => []OnlyConsent
<1>1. DriveInv => OnlyConsent
  BY DEF DriveInv
<1> QED
  BY <1>1, DriveInvHolds, PTL

(* Only the app's handlers take a message off the pump.                    *)
LEMMA AppHandles ==
  ASSUME DriveInv, [Next]_vars, pump # << >>, pump' = Tail(pump)
  PROVE  \/ HandlesText \/ HandlesFollowUp \/ HandlesFork
         \/ HandlesStop \/ HandlesAnswer \/ HandlesQuit
<1> USE DEF appVars, approverVars
<1>1. Len(pump) \in Nat /\ Len(pump') = Len(pump) - 1
  BY TailIs DEF DriveInv
<1>2. ASSUME NEW m, pump' = pump \/ pump' = Append(pump, m)
      PROVE  FALSE
  <2>1. CASE pump' = pump
    BY <1>1, <2>1
  <2>2. CASE pump' = Append(pump, m)
    BY <1>1, <2>2 DEF DriveInv, TypeOK
  <2> QED
    BY <1>2, <2>1, <2>2
<1>3. ~ Person
  BY <1>2 DEF Person, Types, Enters, TypesFork, PressesStop, PressesQuit, Answers, Posts
<1>4. ~ Exits
  BY <1>2 DEF Exits
<1>5. ASSUME NEW i \in 1 .. Len(workers), WorkerStarts(i) \/ Unwinds(i)
      PROVE  FALSE
  BY <1>2, <1>5 DEF WorkerStarts, Unwinds, Answered, Ends, Feels, Interrupted
<1>6. ASSUME NEW i \in 1 .. Len(workers), Turns(i)
      PROVE  FALSE
  BY <1>2, <1>6 DEF Turns, TakesQueued, CallsUnasked, Asks
<1>7. ~ UNCHANGED vars
  BY <1>2 DEF vars
<1> QED
  BY <1>3, <1>4, <1>5, <1>6, <1>7 DEF Next, Works, App

(* A message the app handles cuts no run that has begun, unless it is the  *)
(* person's stop, or an interrupted run has unwound beside it.             *)
THEOREM RunsAreNotCut == Spec => NoRunIsCut
<1> DEFINE Cuts(i) == ~ \/ \E j \in 1 .. Len(workers') : workers'[j].pc = workers[i].pc
                        \/ \E j \in 1 .. i - 1 : workers[j].pc = "off"
           Message1 == /\ pump # << >> /\ pump' = Tail(pump)
                       /\ pump[1].kind \in {"text", "later", "fork", "answer"}
<1>1. ASSUME DriveInv, [Next]_vars, Message1,
             NEW i \in 1 .. Len(workers), workers[i].pc \in Working
      PROVE  ~ Cuts(i)
  <2>1. /\ \/ HandlesText \/ HandlesFollowUp \/ HandlesFork
           \/ HandlesStop \/ HandlesAnswer \/ HandlesQuit
        /\ Len(workers) \in Nat /\ workers[i] \in Work
    BY <1>1, AppHandles, WorkersAreTyped DEF DriveInv, TypeOK
  <2>2. ASSUME workers' = workers
        PROVE  ~ Cuts(i)
    BY <1>1, <2>2
  <2>3. CASE HandlesText
    <3>1. CASE state \in BUSY
      BY <2>2, <2>3, <3>1 DEF HandlesText
    <3>2. CASE state \notin BUSY
      BY <1>1, <3>2 DEF DriveInv, StateShows
    <3> QED
      BY <3>1, <3>2
  <2>4. CASE HandlesFollowUp
    <3>1. TurnIsRunning
      BY <1>1, NobodyServes DEF Serving, Working
    <3> QED
      BY <2>2, <2>4, <3>1 DEF HandlesFollowUp, SendFollowUp
  <2>5. CASE HandlesFork
    BY <2>2, <2>5 DEF HandlesFork
  <2>6. CASE HandlesAnswer
    <3>1. /\ Len(workers') = Len(workers)
          /\ workers'[i] \in {workers[i], [workers[i] EXCEPT !.key = pump[1].key]}
      BY <1>1, <2>1, <2>6 DEF HandlesAnswer
    <3>2. workers'[i].pc = workers[i].pc
      BY <2>1, <3>1 DEF Work
    <3> QED
      BY <1>1, <3>1, <3>2
  <2>7. ~ HandlesStop /\ ~ HandlesQuit
    BY <1>1 DEF HandlesStop, HandlesQuit, Handles
  <2> QED
    BY <2>1, <2>3, <2>4, <2>5, <2>6, <2>7
<1>2. DriveInv /\ [Next]_vars =>
        (Message1 =>
           \A i \in 1 .. Len(workers) : workers[i].pc \in {"run", "ask"} =>
             \/ \E j \in 1 .. Len(workers') : workers'[j].pc = workers[i].pc
             \/ \E j \in 1 .. i - 1 : workers[j].pc = "off")
  BY <1>1 DEF Working
<1> QED
  BY <1>2, DriveInvHolds, PTL DEF Spec, NoRunIsCut
=============================================================================
