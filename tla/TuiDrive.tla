------------------------------ MODULE TuiDrive ------------------------------
(***************************************************************************)
(* The terminal interface (tui/app.py) and its approver (tui/approve.py):  *)
(* what a person types while a run works, the runs it starts, the stops,   *)
(* the prompts for approval and what an answer grants, and /fork.          *)
(*                                                                         *)
(* Textual hands the app its messages one at a time, in order, and runs    *)
(* each worker as a task that a message may find at any await.  Groups     *)
(* left running, and what they ask at a turn's end, are in ProcessGroups.  *)
(* A person waits for an Enter to take before typing on, and may press     *)
(* another key meanwhile.                                                  *)
(***************************************************************************)
EXTENDS Integers, Sequences, FiniteSets

CONSTANTS
  None,
  Calls,      (* what a model may call, see Call                           *)
  READ_ONLY,  (* the programs that run unasked                             *)
  (* The bounds of an exploration.                                         *)
  MaxTexts, MaxCalls, MaxForks,
  MaxDeeds,   (* texts and calls, together                                 *)
  MaxPending  (* messages to the app, at once                              *)

FILE_WRITES == {"write", "edit"}

EXEMPT == {"read", "list", "search", "ask"}

(* One command of a bash line: the program `a' would approve, whether it   *)
(* only reads, and whether each of its words is what it looks like.        *)
Command == [program : READ_ONLY \cup {"git add", "make", None},
            reads : BOOLEAN, plain : BOOLEAN]

(* No command stands for a line the lexer cannot read.                     *)
Call == [tool : EXEMPT \cup FILE_WRITES \cup {"bash", "mcp"},
         git : BOOLEAN,                  (* the path is in .git            *)
         line : SUBSET Command, risky : BOOLEAN, glob : BOOLEAN]

ASSUME DriveAssumption ==
  /\ Calls \subseteq Call
  /\ None \notin {"y", "n", "a"}
  /\ \A call \in Calls, c \in UNION {k.line : k \in Calls} : c.reads => c.program \in READ_ONLY
  /\ MaxTexts \in Nat /\ MaxCalls \in Nat /\ MaxForks \in Nat /\ MaxDeeds \in Nat
  /\ MaxPending \in Nat

VARIABLES
  (* The app.                                                              *)
  pump,       (* the messages to it                                        *)
  state,      (* run_state                                                 *)
  queued,     (* texts typed while a run works                             *)
  box,        (* texts in the prompt box                                   *)
  sid, sessions, files,
  workers,    (* the last one is self.worker                               *)
  prompt,     (* the ApprovalScreen                                        *)
  quitting,   (* no, a run unwinds first, gone                             *)
  (* The approver.                                                         *)
  always, programs,
  (* What happened.                                                        *)
  typed, calls,
  said,       (* the calls a person let through, and what was shown        *)
  did,        (* the call that ran last                                    *)
  wiped       (* texts erased from the box                                 *)

appVars == <<pump, state, queued, box, sid, sessions, files, workers, prompt, quitting>>

approverVars == <<always, programs, calls, said, did>>

vars == <<appVars, approverVars, typed, wiped>>

BUSY == {"working", "awaiting approval"}

Begun == {"run", "ask", "stop", "unwind"}

(* A worker that asks for nothing.                                         *)
WorkerAt(pc, n, stopped) ==
  [pc |-> pc, sid |-> n, stopped |-> stopped, asks |-> 0, call |-> None, key |-> None]

NewWorker == WorkerAt("new", sid, FALSE)

NoWorker == WorkerAt("gone", 1, FALSE)

Message(kind, texts) == [kind |-> kind, texts |-> texts, id |-> 0, key |-> None]

-----------------------------------------------------------------------------
(***************************************************************************)
(* The approver.                                                           *)
(***************************************************************************)
GitWrite(call) == call.tool \in FILE_WRITES /\ call.git

Programs(line) == {c.program : c \in {d \in line : ~ d.reads}}

(* Faulty: a read-only program that was asked about is approved whole.     *)
ScopeWhole(call) ==
  IF call.risky \/ None \in Programs(call.line) THEN {} ELSE Programs(call.line)

Scope(call) ==
  IF call.risky \/ None \in Programs(call.line)
  THEN {}
  ELSE Programs(call.line) \ READ_ONLY

UnaskedLine(call) ==
  /\ call.line # {} /\ ~ call.risky /\ ~ call.glob
  /\ \A c \in call.line : c.reads \/ (c.program \in programs /\ c.plain)

Unasked(call) ==
  \/ call.tool \in EXEMPT
  \/ /\ ~ GitWrite(call)
     /\ call.tool \in always \/ (call.tool = "bash" /\ UnaskedLine(call))

Grants(call) ==
  IF GitWrite(call)
  THEN UNCHANGED <<always, programs>>
  ELSE IF call.tool = "bash"
       THEN programs' = programs \cup Scope(call) /\ always' = always
       ELSE always' = always \cup {call.tool} /\ programs' = programs

-----------------------------------------------------------------------------
(***************************************************************************)
(* Workers.                                                                *)
(***************************************************************************)
Worker == IF workers = <<>> THEN NoWorker ELSE workers[Len(workers)]

Ended == {"off", "never", "gone"}

TurnIsRunning == Worker.pc \notin Ended /\ ~ Worker.stopped

(* worker.cancel(): a task that never ran never will.                      *)
Cancelled(w) ==
  IF w.pc = "new"
  THEN WorkerAt("never", w.sid, TRUE)
  ELSE IF w.pc \in {"run", "ask"} THEN [w EXCEPT !.pc = "stop", !.stopped = TRUE] ELSE w

(* A worker that a new one takes the place of is cancelled, or forgotten.  *)
Replaced(w) == IF w.pc \in Ended THEN NoWorker ELSE Cancelled(w)

CancelLast == [workers EXCEPT ![Len(workers)] = Cancelled(@)]

Saved(all) == [files EXCEPT ![sid] = all[sid]]

(* reopen, the save, and a worker that takes the place of any other.       *)
Submit(texts) ==
  /\ sessions' = [sessions EXCEPT ![sid] = [texts |-> @.texts \cup texts, live |-> TRUE]]
  /\ files' = Saved(sessions')
  /\ box' = {} /\ wiped' = wiped \cup (box \ texts)
  /\ workers' = Append([i \in 1 .. Len(workers) |-> Replaced(workers[i])], NewWorker)
  /\ UNCHANGED <<state, queued, sid>>

-----------------------------------------------------------------------------
(***************************************************************************)
(* What a person does.                                                     *)
(***************************************************************************)
Sent(kind) == \E i \in 1 .. Len(pump) : pump[i].kind = kind

Present ==
  quitting # "gone" /\ Len(pump) < MaxPending

(* What Enter sends is on its way, and is in the box until it is handled.  *)
Typing == Present /\ prompt = None /\ ~ Sent("text") /\ ~ Sent("fork")

Posts(m) ==
  /\ pump' = Append(pump, m)
  /\ UNCHANGED <<state, queued, box, sid, sessions, files, workers, quitting,
                 typed, wiped>>

Types ==
  /\ Typing /\ typed < MaxTexts /\ typed + calls < MaxDeeds
  /\ typed' = typed + 1
  /\ box' = box \cup {typed'}
  /\ UNCHANGED <<pump, state, queued, sid, sessions, files, workers, prompt, quitting,
                 approverVars, wiped>>

Enters == Typing /\ box # {} /\ Posts(Message("text", box)) /\ UNCHANGED <<prompt, approverVars>>

TypesFork ==
  /\ Typing /\ box = {} /\ sid <= MaxForks
  /\ Posts(Message("fork", {}))
  /\ UNCHANGED <<prompt, approverVars>>

PressesStop ==
  /\ Present /\ ~ Sent("stop")
  /\ Posts(Message("stop", {}))
  /\ UNCHANGED <<prompt, approverVars>>

PressesQuit ==
  /\ Present /\ ~ Sent("quit") /\ quitting = "no"
  /\ Posts(Message("quit", {}))
  /\ UNCHANGED <<prompt, approverVars>>

(* The screen is popped, and its answer is on its way to the app.          *)
Answers(key) ==
  /\ Present /\ prompt # None
  /\ prompt' = None
  /\ said' = IF key = "n"
             THEN said
             ELSE said \cup {[id |-> prompt.id, key |-> key, call |-> prompt.call]}
  /\ Posts([kind |-> "answer", texts |-> {}, id |-> prompt.id, key |-> key])
  /\ UNCHANGED <<always, programs, calls, did>>

-----------------------------------------------------------------------------
(***************************************************************************)
(* The app's messages.                                                     *)
(***************************************************************************)
Handles(kind) ==
  /\ quitting = "no"
  /\ pump # <<>> /\ pump[1].kind = kind
  /\ pump' = Tail(pump)
  /\ UNCHANGED <<prompt, approverVars, typed>>

HandlesText ==
  /\ Handles("text")
  /\ quitting' = quitting
  /\ IF state \in BUSY
     THEN /\ queued' = queued \cup pump[1].texts
          /\ box' = {} /\ wiped' = wiped \cup (box \ pump[1].texts)
          /\ UNCHANGED <<state, sid, sessions, files, workers>>
     ELSE Submit(pump[1].texts)

(* Faulty: it only ever queues.                                            *)
SendFollowUpNever(texts) ==
  /\ queued' = queued \cup texts
  /\ UNCHANGED <<state, box, sid, sessions, files, workers, wiped>>

(* Faulty: it starts its run whatever was started meanwhile.               *)
SendFollowUpAnyway(texts) == Submit(texts)

SendFollowUp(texts) ==
  IF TurnIsRunning
  THEN /\ queued' = queued \cup texts
       /\ UNCHANGED <<state, box, sid, sessions, files, workers, wiped>>
  ELSE Submit(texts)

HandlesFollowUp ==
  Handles("later") /\ quitting' = quitting /\ SendFollowUp(pump[1].texts)

MayFork == state \notin BUSY /\ ~ TurnIsRunning

HandlesFork ==
  /\ Handles("fork")
  /\ box' = {} /\ wiped' = wiped \cup box
  /\ IF MayFork /\ sessions[sid].texts # {}
     THEN /\ sid' = sid + 1
          /\ sessions' = [sessions EXCEPT ![sid'] = sessions[sid]]
          /\ files' = [files EXCEPT ![sid'] = sessions[sid]]
     ELSE UNCHANGED <<sid, sessions, files>>
  /\ UNCHANGED <<state, queued, workers, quitting>>

HandlesStop ==
  /\ Handles("stop")
  /\ workers' = IF TurnIsRunning THEN CancelLast ELSE workers
  /\ UNCHANGED <<state, queued, box, sid, sessions, files, quitting, wiped>>

(* The future of the prompt that was answered, if it still waits.          *)
AnswerFor(w, m) == w.pc = "ask" /\ w.key = None /\ w.asks = m.id

HandlesAnswer ==
  /\ Handles("answer")
  /\ workers' = [i \in 1 .. Len(workers) |->
                   IF AnswerFor(workers[i], pump[1])
                   THEN [workers[i] EXCEPT !.key = pump[1].key]
                   ELSE workers[i]]
  /\ UNCHANGED <<state, queued, box, sid, sessions, files, quitting, wiped>>

(* The app handles nothing more until the run has unwound.                 *)
HandlesQuit ==
  /\ Handles("quit")
  /\ quitting' = "waits"
  /\ workers' = IF TurnIsRunning THEN CancelLast ELSE workers
  /\ UNCHANGED <<state, queued, box, sid, sessions, files, wiped>>

(* exit(), and main() saves once more.                                     *)
Exits ==
  /\ quitting = "waits" /\ Worker.pc \in Ended
  /\ quitting' = "gone"
  /\ files' = Saved(sessions)
  /\ UNCHANGED <<pump, state, queued, box, sid, sessions, workers, prompt,
                 approverVars, typed, wiped>>

-----------------------------------------------------------------------------
(***************************************************************************)
(* A worker: _drive, and the run in it.                                    *)
(***************************************************************************)
At(i, pc) == quitting # "gone" /\ workers[i].pc = pc

Moves(i, w) == workers' = [workers EXCEPT ![i] = w]

Ran(call, asked) == did' = [id |-> calls', call |-> call, asked |-> asked]

WorkerStarts(i) ==
  /\ At(i, "new")
  /\ Moves(i, [workers[i] EXCEPT !.pc = "run"])
  /\ state' = "working"
  /\ UNCHANGED <<pump, queued, box, sid, sessions, files, prompt, quitting,
                 approverVars, typed, wiped>>

(* The loop's inbox, then the save of the turn.                            *)
TakesQueued(i) ==
  /\ At(i, "run") /\ queued # {}
  /\ queued' = {}
  /\ sessions' = [sessions EXCEPT ![workers[i].sid].texts = @ \cup queued]
  /\ files' = Saved(sessions')
  /\ UNCHANGED <<pump, state, box, sid, workers, prompt, quitting, approverVars,
                 typed, wiped>>

CallsUnasked(i, call) ==
  /\ At(i, "run") /\ calls < MaxCalls /\ typed + calls < MaxDeeds
  /\ Unasked(call)
  /\ calls' = calls + 1
  /\ Ran(call, FALSE)
  /\ UNCHANGED <<appVars, always, programs, said, typed, wiped>>

Asks(i, call) ==
  /\ At(i, "run") /\ calls < MaxCalls /\ typed + calls < MaxDeeds
  /\ ~ Unasked(call)
  /\ calls' = calls + 1
  /\ Moves(i, [pc |-> "ask", sid |-> workers[i].sid, stopped |-> FALSE,
               asks |-> calls', call |-> call, key |-> None])
  /\ prompt' = [id |-> calls', call |-> call]
  /\ state' = "awaiting approval"
  /\ UNCHANGED <<pump, queued, box, sid, sessions, files, quitting,
                 always, programs, said, did, typed, wiped>>

(* Once the prompt is over, however it ended, its screen is closed.        *)
Closed(i) ==
  /\ prompt' = IF prompt # None /\ prompt.id = workers[i].asks THEN None ELSE prompt
  /\ state' = "working"

Answered(i) ==
  /\ At(i, "ask") /\ workers[i].key # None
  /\ Closed(i)
  /\ Moves(i, WorkerAt("run", workers[i].sid, workers[i].stopped))
  /\ IF workers[i].key = "a" THEN Grants(workers[i].call) ELSE UNCHANGED <<always, programs>>
  /\ did' = IF workers[i].key = "n"
            THEN did
            ELSE [id |-> workers[i].asks, call |-> workers[i].call, asked |-> TRUE]
  /\ UNCHANGED <<pump, queued, box, sid, sessions, files, quitting, calls, said,
                 typed, wiped>>

(* Its status is no longer working, or it was interrupted.                 *)
Settled(i) == [sessions EXCEPT ![workers[i].sid].live = FALSE]

(* The run settles on its own.  What was typed too late for its inbox is   *)
(* sent by a message to the app.                                           *)
Ends(i) ==
  /\ At(i, "run")
  /\ Moves(i, [workers[i] EXCEPT !.pc = "off"])
  /\ state' = "done"
  /\ sessions' = Settled(i)
  /\ files' = Saved(sessions')
  /\ queued' = {}
  /\ pump' = IF queued = {} THEN pump ELSE Append(pump, Message("later", queued))
  /\ UNCHANGED <<box, sid, prompt, quitting, approverVars, typed, wiped>>

(* The cancel reaches the run, which closes its servers.                   *)
Feels(i) ==
  /\ At(i, "stop")
  /\ IF workers[i].asks # 0 THEN Closed(i) ELSE UNCHANGED <<prompt, state>>
  /\ Moves(i, WorkerAt("unwind", workers[i].sid, workers[i].stopped))
  /\ UNCHANGED <<pump, queued, box, sid, sessions, files, quitting, approverVars,
                 typed, wiped>>

(* Faulty: what was queued is dropped.                                     *)
ReturnedNone == {}

Returned == queued

(* An interrupt does not send what was queued.                             *)
Interrupted(i) ==
  /\ At(i, "unwind")
  /\ Moves(i, [workers[i] EXCEPT !.pc = "off"])
  /\ state' = "interrupted"
  /\ box' = box \cup Returned /\ queued' = {}
  /\ sessions' = Settled(i)
  /\ files' = Saved(sessions')
  /\ UNCHANGED <<pump, sid, prompt, quitting, approverVars, typed, wiped>>

-----------------------------------------------------------------------------
Init ==
  /\ pump = <<>> /\ state = "idle" /\ queued = {} /\ box = {}
  /\ sid = 1
  /\ sessions = [n \in 1 .. MaxForks + 1 |-> [texts |-> {}, live |-> FALSE]]
  /\ files = sessions
  /\ workers = <<>> /\ prompt = None /\ quitting = "no"
  /\ always = {} /\ programs = {}
  /\ typed = 0 /\ calls = 0
  /\ said = {} /\ did = None /\ wiped = {}

Person ==
  \/ Types \/ Enters \/ TypesFork \/ PressesStop \/ PressesQuit
  \/ \E key \in {"y", "n", "a"} : Answers(key)

App ==
  \/ HandlesText \/ HandlesFollowUp \/ HandlesFork \/ HandlesStop \/ HandlesAnswer \/ HandlesQuit
  \/ Exits

Turns(i) ==
  \/ TakesQueued(i)
  \/ \E call \in Calls : CallsUnasked(i, call) \/ Asks(i, call)

Unwinds(i) == Answered(i) \/ Ends(i) \/ Feels(i) \/ Interrupted(i)

Works == \E i \in 1 .. Len(workers) : WorkerStarts(i) \/ Unwinds(i)

Next == Person \/ App \/ Works \/ \E i \in 1 .. Len(workers) : Turns(i)

Spec == Init /\ [][Next]_vars

(* The event loop handles each message and goes on with each task, and a   *)
(* run that waits for nobody ends (AgentLoop).                             *)
FairSpec == Spec /\ WF_vars(App) /\ WF_vars(Works)

-----------------------------------------------------------------------------
(***************************************************************************)
(* Properties.                                                             *)
(***************************************************************************)
Texts == 1 .. MaxTexts

Conversation == [texts : SUBSET Texts, live : BOOLEAN]

Keys == {"y", "n", "a"}

Mail == [kind : {"text", "fork", "later", "stop", "quit", "answer"},
         texts : SUBSET Texts, id : 0 .. MaxCalls, key : Keys \cup {None}]

Work == [pc : Begun \cup Ended \cup {"new"}, sid : 1 .. MaxForks + 1, stopped : BOOLEAN,
         asks : 0 .. MaxCalls, call : Calls \cup {None}, key : Keys \cup {None}]

(* Types.  Whatever is always allowed is a tool a model may call and never *)
(* bash, whose programs are allowed one by one and never one that runs     *)
(* unasked, as its next use may write.                                     *)
TypeOK ==
  /\ pump \in Seq(Mail)
  /\ state \in BUSY \cup {"idle", "done", "interrupted"}
  /\ queued \subseteq Texts /\ box \subseteq Texts /\ wiped \subseteq Texts
  /\ sid \in 1 .. MaxForks + 1
  /\ sessions \in [1 .. MaxForks + 1 -> Conversation]
  /\ files \in [1 .. MaxForks + 1 -> Conversation]
  /\ workers \in Seq(Work)
  /\ prompt # None => prompt \in [id : 1 .. MaxCalls, call : Calls]
  /\ quitting \in {"no", "waits", "gone"}
  /\ always \subseteq {call.tool : call \in Calls} \ {"bash"}
  /\ programs \cap READ_ONLY = {}
  /\ typed \in 0 .. MaxTexts /\ calls \in 0 .. MaxCalls

Carried(kind) == UNION {pump[i].texts : i \in {j \in 1 .. Len(pump) : pump[j].kind = kind}}

(* Each text typed is in one place: sent, queued for the run, on its way   *)
(* as a follow-up, or in the box, unless it was erased there.  None is     *)
(* sent twice and none is dropped, however a run's end, an interrupt, a    *)
(* fork and an Enter fall together.                                        *)
TextsAreKept ==
  LET held == box \cup Carried("text")
      parts == <<sessions[sid].texts, queued, Carried("later"), held>>
  IN  /\ (UNION {parts[i] : i \in 1 .. 4}) \cup wiped = 1 .. typed
      /\ \A i, j \in 1 .. 4 : i < j => parts[i] \cap parts[j] = {}

(* A message the app handles never cancels a run that has begun, unless it *)
(* is a person's stop: what was typed waits its turn.  It does cut a run   *)
(* beside which an interrupted one has unwound, whose state it then shows. *)
NoRunIsCut ==
  [][/\ pump # <<>> /\ pump' = Tail(pump)
     /\ pump[1].kind \in {"text", "later", "fork", "answer"}
     => \A i \in 1 .. Len(workers) :
          workers[i].pc \in {"run", "ask"} =>
            \/ \E j \in 1 .. Len(workers') : workers'[j].pc = workers[i].pc
            \/ \E j \in 1 .. i - 1 : workers[j].pc = "off"]_vars

(* A call runs because a person let this very call through, or because     *)
(* what it does was shown to them and answered `a': the tool, or for bash  *)
(* each program of a line without risks.  A write to .git, a risky line    *)
(* and a read-only program that writes are asked about every time.         *)
OnlyConsent ==
  did # None =>
    LET call == did.call
    IN  IF did.asked
        THEN \E s \in said : s.id = did.id /\ s.call = call
        ELSE \/ call.tool \in EXEMPT
             \/ /\ call.tool # "bash" /\ ~ GitWrite(call)
                /\ \E s \in said : s.key = "a" /\ s.call.tool = call.tool /\ ~ GitWrite(s.call)
             \/ /\ call.tool = "bash" /\ ~ call.risky /\ ~ call.glob
                /\ \A c \in call.line : ~ c.reads =>
                     /\ c.program \notin READ_ONLY \cup {None} /\ c.plain
                     /\ \E s \in said :
                          /\ s.key = "a" /\ ~ s.call.risky
                          /\ \E d \in s.call.line : d.program = c.program

(* What is entered does not wait for good: it is sent, or back in the box, *)
(* once no prompt waits for the person.  Behind a worker cancelled before  *)
(* it began, it waits for the next.                                        *)
NothingWaits ==
  LET waiting == queued \cup Carried("text") \cup Carried("later")
  IN  waiting # {} ~> waiting = {} \/ prompt # None \/ Worker.pc = "never" \/ quitting = "gone"
=============================================================================
