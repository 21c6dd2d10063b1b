------------------------------ MODULE LiveStep ------------------------------
(***************************************************************************)
(* _live_step (loop.py): a step under a streaming transport, shown while   *)
(* it runs.                                                                *)
(*                                                                         *)
(* The step is a task of its own.  It reads the reply as a stream of one   *)
(* of the two vendors' rails (stream_turn), and resends a request that     *)
(* fails in passing (_with_retries).  Its deltas go through a LiveText for *)
(* each kind, which holds back an unfinished word, into a queue.  The      *)
(* generator shows what the queue holds, and otherwise waits for the step  *)
(* and for a waiter, a task that gets the next event, whichever comes      *)
(* first.  The run that drives the generator may close it at any await.    *)
(*                                                                         *)
(* AgentLoop models what the step does to the session; here it only talks. *)
(***************************************************************************)
EXTENDS Integers, Sequences, SequencesExt

CONSTANTS
  None,         (* no reply yet                                            *)
  (* The bounds of an exploration.                                         *)
  MaxWords,     (* words of a kind                                         *)
  MaxRetries    (* attempts that fail and are made again                   *)

ASSUME LiveStepAssumption == MaxWords \in Nat /\ MaxRetries \in Nat

Rails == {"anthropic", "openai"}

Kinds == {"progress", "thinking"}

Word == [attempt : 0 .. MaxRetries, no : 1 .. MaxWords]

Event == [kind : Kinds, text : Seq(Word)] \cup [kind : {"retry"}, attempt : 1 .. MaxRetries]

(* How a request can fail: its stream ends without the marker of the end,  *)
(* the connection is lost or times out, a status that says not now, a 500, *)
(* an overload reported within the stream, or anything else.               *)
Failures == {"dropped", "lost", "busy", "server", "overloaded", "refused"}

(* The reply of a step: whole, or stopped because it repeats itself.       *)
Reply == [stop : {"whole", "repetition"}, words : [Kinds -> Seq(Word)]]

VARIABLES
  rail,      (* the transport                                              *)
  step,      (* where the step task stands                                 *)
  made,      (* the retries it has made                                    *)
  fed,       (* the words it was sent, by kind                             *)
  heard,     (* those of the stream it reads or has read                   *)
  loops,     (* whether what it was sent of a kind ends in a loop          *)
  reply,     (* the reply it got                                           *)
  pending,   (* the words each LiveText holds back                         *)
  queue,     (* the events to be shown                                     *)
  waiter,    (* where the waiter stands                                    *)
  taken,     (* the event it got, in a sequence of one                     *)
  pc,        (* where the generator stands                                 *)
  shown      (* the events it has yielded                                  *)

askVars == <<rail, made, fed, heard, loops, reply>>
vars == <<askVars, step, pending, queue, waiter, taken, pc, shown>>

StepOver == step \in {"returned", "raised", "cancelled"}

-----------------------------------------------------------------------------
(***************************************************************************)
(* The callbacks of the step.  A put wakes a waiter that waits.            *)
(***************************************************************************)
Put(events) ==
  /\ queue' = queue \o events
  /\ waiter' = IF events # <<>> /\ waiter = "waiting" THEN "woken" ELSE waiter

(* An event is put for a text that is not empty.                           *)
Texts(kind, words) == IF words = <<>> THEN <<>> ELSE <<[kind |-> kind, text |-> words]>>

Flushed == Texts("progress", pending["progress"]) \o Texts("thinking", pending["thinking"])

(* Faulty: what finish gives up stays in the buffer.                       *)
FinishedKept == pending

Finished == [kind \in Kinds |-> <<>>]

(* A stream is read from nothing.                                          *)
Unread == [kind \in Kinds |-> <<>>]

(* A delta gives up some of the words held back, none or all of them.  The *)
(* text so far loops or not, and the watch, which tests it once in some    *)
(* hundred characters, sees that it does or has not looked.                *)
Receive(kind, ready, looping, watched) ==
  /\ step = "asking" /\ Len(fed[kind]) < MaxWords
  /\ watched => looping
  /\ LET word == [attempt |-> made, no |-> Len(fed[kind]) + 1]
         held == Append(pending[kind], word)
     IN  /\ ready \in 0 .. Len(held)
         /\ fed' = [fed EXCEPT ![kind] = Append(@, word)]
         /\ heard' = [heard EXCEPT ![kind] = Append(@, word)]
         /\ pending' = [pending EXCEPT ![kind] = SubSeq(held, ready + 1, Len(held))]
         /\ Put(Texts(kind, SubSeq(held, 1, ready)))
  /\ loops' = [loops EXCEPT ![kind] = looping]
  /\ step' = IF watched THEN "stopped" ELSE step
  /\ UNCHANGED <<rail, made, reply, taken, pc, shown>>

(* A reply stopped in a loop leaves out the reasoning on the rail that     *)
(* signs it: it has no signature yet.                                      *)
Repeated ==
  [stop |-> "repetition",
   words |-> [kind \in Kinds |-> IF rail = "anthropic" /\ kind = "thinking"
                                 THEN <<>>
                                 ELSE heard[kind]]]

Whole == [stop |-> "whole", words |-> heard]

Replies(with) ==
  /\ reply' = with
  /\ step' = "replied"
  /\ UNCHANGED <<rail, made, fed, heard, loops, pending, queue, waiter, taken, pc, shown>>

(* The watch has seen a loop: the rest of the stream is not read.          *)
StopsReading == step = "stopped" /\ Replies(Repeated)

(* What the rail makes of a stream that ended without its marker: a loop   *)
(* the watch has not seen yet, or a failure.                               *)
Degenerate == loops["progress"] \/ (rail = "openai" /\ loops["thinking"])

EndsInALoop == step = "asking" /\ Degenerate /\ Replies(Repeated)

(* The marker came, and with it the usage and the reason it stopped.       *)
Completes == step = "asking" /\ Replies(Whole)

(* The failures of a request, by how far it had come.                      *)
Fails(failure) ==
  /\ step = "asking"
  /\ failure \in {"busy", "server"} => heard = Unread
  /\ failure = "dropped" => ~ Degenerate

(* Worth resending as it was.                                              *)
Transient(failure) ==
  \/ failure \in {"dropped", "lost", "busy"}
  \/ rail = "anthropic" /\ failure \in {"server", "overloaded"}

(* Faulty: the event counts the retries made before it.                    *)
AttemptBefore == made

Attempt == made + 1

(* Faulty: the abandoned attempt's last words come after the retry.        *)
RetriedAtOnce ==
  /\ Put(<<[kind |-> "retry", attempt |-> Attempt]>>)
  /\ UNCHANGED pending

Retried ==
  /\ Put(Append(Flushed, [kind |-> "retry", attempt |-> Attempt]))
  /\ pending' = Finished

(* An attempt fails and is made again after a wait.                        *)
Retry(failure) ==
  /\ Fails(failure) /\ Transient(failure) /\ made < MaxRetries
  /\ step' = "resting"
  /\ made' = made + 1
  /\ heard' = Unread
  /\ loops' = [kind \in Kinds |-> FALSE]
  /\ Retried
  /\ UNCHANGED <<rail, fed, reply, taken, pc, shown>>

StepGoes(from, to) ==
  /\ step \in from
  /\ step' = to
  /\ UNCHANGED <<askVars, pending, queue, waiter, taken, pc, shown>>

Ask == StepGoes({"resting"}, "asking")

(* A failure that does not pass, or that outlives the retries or the time  *)
(* there is to wait.                                                       *)
GivesUp(failure) == Fails(failure) /\ StepGoes({"asking"}, "raised")

(* The calls of a reply that was cut off are not run.                      *)
Calls == reply # None /\ reply.stop = "whole" /\ StepGoes({"replied"}, "calling")

Return == StepGoes({"replied", "calling"}, "returned")

Raise == StepGoes({"replied", "calling"}, "raised")

(* A cancelled step answers its calls first; a call of its own can also    *)
(* swallow the cancellation, or fail on the way out.                       *)
Unwound == \E to \in {"cancelled", "returned", "raised"} : StepGoes({"unwinding"}, to)

-----------------------------------------------------------------------------
(***************************************************************************)
(* The waiter: queue.get() as a task.                                      *)
(***************************************************************************)
Get ==
  /\ waiter \in {"new", "woken"}
  /\ IF queue = <<>>
     THEN waiter' = "waiting" /\ UNCHANGED <<queue, taken>>
     ELSE waiter' = "got" /\ taken' = <<Head(queue)>> /\ queue' = Tail(queue)
  /\ UNCHANGED <<askVars, step, pending, pc, shown>>

-----------------------------------------------------------------------------
(***************************************************************************)
(* The generator.                                                          *)
(***************************************************************************)
ShowNext(place) ==
  /\ queue # <<>>
  /\ shown' = Append(shown, Head(queue))
  /\ queue' = Tail(queue)
  /\ pc' = place
  /\ UNCHANGED <<askVars, step, pending, waiter, taken>>

Look == pc = "look" /\ ShowNext("yielded")

Wait ==
  /\ pc = "look" /\ queue = <<>> /\ ~ StepOver
  /\ waiter' = "new"
  /\ pc' = "wait"
  /\ UNCHANGED <<askVars, step, pending, queue, taken, shown>>

(* Faulty: waits for both.                                                 *)
BothDone == StepOver /\ waiter = "got"

SomeDone == StepOver \/ waiter = "got"

Got == waiter = "got"

Wake ==
  /\ pc = "wait" /\ SomeDone
  /\ IF Got
     THEN /\ shown' = shown \o taken
          /\ waiter' = "none"
          /\ pc' = "yielded"
     ELSE /\ waiter' = "cancelled"
          /\ pc' = "drop"
          /\ UNCHANGED shown
  /\ taken' = <<>>
  /\ UNCHANGED <<askVars, step, pending, queue>>

Dropped ==
  /\ pc = "drop"
  /\ waiter' = "none"
  /\ pc' = "look"
  /\ UNCHANGED <<askVars, step, pending, queue, taken, shown>>

Resume ==
  /\ pc \in {"yielded", "yieldedLast"}
  /\ pc' = IF pc = "yielded" THEN "look" ELSE "last"
  /\ UNCHANGED <<askVars, step, pending, queue, waiter, taken, shown>>

(* The step is over and the queue empty: the words still held back.        *)
Flush ==
  /\ pc = "look" /\ queue = <<>> /\ StepOver
  /\ Put(Flushed)
  /\ pending' = Finished
  /\ pc' = "last"
  /\ UNCHANGED <<askVars, step, taken, shown>>

LookLast == pc = "last" /\ ShowNext("yieldedLast")

(* Returns, or raises, as the step did.                                    *)
End ==
  /\ pc = "last" /\ queue = <<>>
  /\ pc' = "over"
  /\ UNCHANGED <<askVars, step, pending, queue, waiter, taken, shown>>

(* aclose at a yield, or the cancellation of the run at an await.          *)
Close ==
  /\ pc \in {"yielded", "yieldedLast", "wait", "drop"}
  /\ pc' = "closing"
  /\ step' = IF StepOver THEN step ELSE "unwinding"
  /\ waiter' = "none"
  /\ taken' = <<>>
  /\ UNCHANGED <<askVars, pending, queue, shown>>

(* Faulty: the cancelled step is left to itself.                           *)
JoinedAtOnce == TRUE

Joined == StepOver

Closed ==
  /\ pc = "closing" /\ Joined
  /\ pc' = "closed"
  /\ UNCHANGED <<askVars, step, pending, queue, waiter, taken, shown>>

-----------------------------------------------------------------------------
Init ==
  /\ rail \in Rails
  /\ step = "asking" /\ made = 0 /\ reply = None
  /\ loops = [kind \in Kinds |-> FALSE]
  /\ fed = [kind \in Kinds |-> <<>>] /\ heard = Unread
  /\ pending = [kind \in Kinds |-> <<>>]
  /\ queue = <<>> /\ waiter = "none" /\ taken = <<>>
  /\ pc = "look" /\ shown = <<>>

Step ==
  \/ \E kind \in Kinds, ready \in 0 .. MaxWords, looping, watched \in BOOLEAN :
       Receive(kind, ready, looping, watched)
  \/ StopsReading \/ EndsInALoop \/ Completes
  \/ \E failure \in Failures : Retry(failure) \/ GivesUp(failure)
  \/ Ask \/ Calls \/ Return \/ Raise \/ Unwound

Drain == Look \/ Wait \/ Wake \/ Dropped \/ Flush \/ LookLast \/ End

Next == Step \/ Get \/ Drain \/ Resume \/ Close \/ Closed

Spec == Init /\ [][Next]_vars

(***************************************************************************)
(* The event loop runs what is ready, and the run asks for the next event  *)
(* or closes.  Nothing says the step ever ends.                            *)
(***************************************************************************)
FairSpec == Spec /\ WF_vars(Get) /\ WF_vars(Drain) /\ WF_vars(Resume) /\ WF_vars(Closed)

-----------------------------------------------------------------------------
(***************************************************************************)
(* Properties.                                                             *)
(***************************************************************************)

(* The types of the step, the queue, the waiter and the generator.         *)
TypeOK ==
  /\ rail \in Rails /\ loops \in [Kinds -> BOOLEAN] /\ reply \in Reply \cup {None}
  /\ step \in {"asking", "stopped", "resting", "replied", "calling", "unwinding", "returned",
               "raised", "cancelled"}
  /\ made \in 0 .. MaxRetries
  /\ {fed, heard, pending} \subseteq [Kinds -> Seq(Word)]
  /\ queue \in Seq(Event) /\ shown \in Seq(Event) /\ taken \in Seq(Event)
  /\ waiter \in {"none", "new", "waiting", "woken", "got", "cancelled"}
  /\ Len(taken) = IF waiter = "got" THEN 1 ELSE 0
  /\ pc \in {"look", "yielded", "wait", "drop", "last", "yieldedLast", "over", "closing",
             "closed"}

(* The words of a kind in some events, since the last of those that begin  *)
(* anew.                                                                   *)
Adds(kind, event, anew, words) ==
  IF event.kind \in anew
  THEN <<>>
  ELSE words \o IF event.kind = kind THEN event.text ELSE <<>>

Said(kind, events, anew) ==
  LET upTo[n \in 0 .. Len(events)] ==
        IF n = 0 THEN <<>> ELSE Adds(kind, events[n], anew, upTo[n - 1])
  IN  upTo[Len(events)]

(* What is shown of a kind is what was sent of it, in order, nothing left  *)
(* out and nothing twice, up to where it has come.                         *)
WordsInOrder == \A kind \in Kinds : IsPrefix(Said(kind, shown, {}), fed[kind])

(* What a caller has been shown since the last retry is the reply the      *)
(* session keeps, no more and no less, the reasoning apart that a stopped  *)
(* reply has no signature for: words of an attempt that failed come before *)
(* the retry that gave it up, and are not part of what the model said.     *)
ReplyIsShown ==
  pc = "over" /\ step = "returned" =>
    \A kind \in Kinds :
      \/ Said(kind, shown, {"retry"}) = reply.words[kind]
      \/ kind = "thinking" /\ rail = "anthropic" /\ reply.stop = "repetition"

(* An event is shown without waiting for the step.                         *)
ShownMeanwhile == []<>(queue = <<>> \/ pc \in {"closing", "closed"})

(* A run that has left the generator, in whatever way, leaves no step      *)
(* behind that still works on its session.                                 *)
NoStepIsLeft == pc \in {"over", "closed"} => StepOver
=============================================================================
