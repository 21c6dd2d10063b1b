------------------------------ MODULE AgentLoop -----------------------------
(***************************************************************************)
(* nare's run loop (loop.py): one session, the invocations of run() on it, *)
(* and the steps each invocation takes.  A step sends the transcript to    *)
(* the model, keeps its reply, and either runs the reply's tool calls one  *)
(* by one or decides whether the reply ends the run.                       *)
(*                                                                         *)
(* Everything between two awaits is one action.  The awaits are the phases *)
(* at which a deadline or a signal can stop the run:                       *)
(*   connect   the MCP servers start          discover  window and prices  *)
(*   request   the model is asked             running   a tool call runs   *)
(*   close     the MCP servers stop           unwind    they stop because  *)
(*                                                      the run was stopped *)
(* and, when the transport streams, post: the reply's last events are      *)
(* still being delivered.  head (the top of the while loop), call (between *)
(* two calls of a reply) and rest (no invocation) have no await.           *)
(***************************************************************************)
EXTENDS Integers, Corrections, Transcript

CONSTANTS
  (* The invocation's limits; None is no limit.                            *)
  MaxTurns,          (* --max-turns                                        *)
  MaxToolCalls,      (* --max-tool-calls                                   *)
  MaxCutoffs,        (* --max-cutoffs                                      *)
  MaxCorrections,    (* --max-corrections                                  *)
  MaxRetries,        (* --request-retries                                  *)
  WarnWithin,        (* turns left at which the wrap-up warning starts: 5  *)
  TokenLimits,       (* the --budget-tokens values callers pass            *)
  UsdLimits,         (* the --budget-usd values callers pass               *)
  (* What the invocation allows.                                           *)
  Schemas,           (* the JSON Schemas callers pass, by identity         *)
  RunSchemas,        (* the --schema values callers pass, None among them  *)
  AskAllowed,        (* the policy allows ask                              *)
  ToolsOffered,      (* the policy offers some tool                        *)
  NudgeOn,           (* question_nudge: headless runs                      *)
  ReadsRequired,     (* --require-reads                                    *)
  CitedReads,        (* --require-cited-reads                              *)
  Checked,           (* the library's check callback is set                *)
  Streaming,         (* the transport streams                              *)
  UsesMcp,           (* --mcp-config                                       *)
  Inbox,             (* texts a person types while a step runs             *)
  (* The environment, and the bounds of an exploration.                    *)
  Unrecorded,        (* a schema stated before its digest was recorded     *)
  OldFile,           (* the first session may be of such an older nare     *)
  CallLists,         (* the call lists a reply can carry                   *)
  Costs,             (* the costs a reply can report, None for unknown     *)
  MaxRuns            (* invocations explored                               *)

ASSUME LoopAssumption ==
  /\ MaxTurns \in Nat /\ MaxRetries \in Nat /\ WarnWithin \in Nat /\ MaxRuns \in Nat
  /\ MaxToolCalls \in Nat \cup {None}
  /\ MaxCutoffs \in Nat \cup {None}
  /\ MaxCorrections \in Nat \ {0}
  /\ TokenLimits \subseteq (Nat \ {0}) \cup {None}
  /\ UsdLimits \subseteq Nat \cup {None}
  /\ Costs \subseteq Nat \cup {None}
  /\ Unrecorded \notin Schemas \cup {None}
  /\ {OldFile, AskAllowed, ToolsOffered, NudgeOn, ReadsRequired, CitedReads, Checked,
      Streaming, UsesMcp, Inbox} \subseteq BOOLEAN
  /\ None \notin Schemas /\ None \notin {"timeout", "interrupted"}
  /\ RunSchemas \subseteq Schemas \cup {None}
  /\ CallLists \subseteq Seq(CallNames) \ {<< >>}

VARIABLES
  phase,      (* where the invocation stands                               *)
  messages,   (* session.messages                                          *)
  results,    (* the answers of the reply being dispatched, so far         *)
  status,     (* session.status                                            *)
  stop,       (* session.stop_reason                                       *)
  usage,      (* session.usage: tokens, and cost (None once unknown)       *)
  budget,     (* session.budget                                            *)
  turns,      (* session.turns                                             *)
  output,     (* session.output: None, or the schema it last satisfied     *)
  stated,     (* session.schema_sha256, or None before schema_stated       *)
  nudged,     (* session.ask_nudged                                        *)
  corr,       (* session.schema_*: the correction state                    *)
  inv,        (* the invocation: its arguments and its counters            *)
  runs        (* invocations started: bounds the exploration               *)

vars == <<phase, messages, results, status, stop, usage, budget, turns, output,
          stated, nudged, corr, inv, runs>>

Phases == {"rest", "connect", "discover", "head", "request", "call", "running",
           "post", "close", "unwind"}

Statuses == {"working", "done", "blocked", "error"}

CutOffs == {"max_tokens"}                 (* and repetition, treated alike *)

Unfinished == CutOffs \cup {"refusal"}

ReplyStops == {"end_turn"} \cup Unfinished    (* end_turn also stands for  *)
                                              (* tool_use, stop_sequence   *)

StopReasons == ReplyStops \cup
  {None, "max_turns", "context", "budget", "timeout", "tool_calls", "schema_violation",
   "reads_required", "no_answer", "interrupted", "mcp"}

Invocation == [schema  : Schemas \cup {None},
               from    : Nat,        (* session.turns when it started      *)
               at      : Nat,        (* the transcript's length then       *)
               ran     : Nat,        (* ToolCallLimit.used                 *)
               capped  : BOOLEAN,    (* a call of this reply was refused   *)
               refused : Nat,        (* ToolCallLimit.refused_turns        *)
               cutoffs : Nat,        (* CutoffLimit.used                   *)
               retries : Nat,        (* retries of this request            *)
               summary : BOOLEAN,    (* this is the turn-limit summary     *)
               stopped : {None, "timeout", "interrupted"}]   (* _Stop.reason  *)

(***************************************************************************)
(* A reply.  `text' is what its text blocks are, as far as the loop looks: *)
(* no block at all, thinking alone, prose, prose that asks a question, or  *)
(* a JSON document, which makes `errs' distinct errors under the run's     *)
(* schema and may cite files the run has not read.                         *)
(***************************************************************************)
Reply == [stop  : ReplyStops,
          calls : CallLists \cup {<< >>},
          text  : {"none", "thinking", "prose", "question", "doc"},
          errs  : 0 .. MaxErrors,
          cites : BOOLEAN]

Replies ==
  {r \in Reply :
     /\ r.text # "doc" => r.errs = 0 /\ ~ r.cites
     /\ r.text = "question" => NudgeOn /\ inv.schema = None
     /\ r.text = "doc" => inv.schema # None
     /\ r.cites => CitedReads /\ r.errs = 0
     /\ r.stop \in Unfinished => r.text \in {"none", "prose", "doc"} /\ r.errs = 0
     /\ r.calls # << >> => r.text \in {"none", "doc"} /\ r.errs = 0 /\ ~ r.cites}
-----------------------------------------------------------------------------
(***************************************************************************)
(* Budgets: session ceilings, checked before a request and after a step.   *)
(***************************************************************************)
CostExhausted == /\ budget.usd # None
                 /\ usage.cost = None \/ usage.cost >= budget.usd

Exhausted ==
  \/ budget.tokens # None /\ usage.tokens >= budget.tokens
  \/ CostExhausted

AddUsage(cost) ==
  [tokens |-> usage.tokens + 1,
   cost   |-> IF usage.cost = None \/ cost = None THEN None ELSE usage.cost + cost]

(***************************************************************************)
(* How a step leaves the run: a status and what ended it.                  *)
(***************************************************************************)
Ends(st, why) == [status |-> st, stop |-> why]

BudgetOutcome(o) ==
  IF o.status \notin {"done", "blocked"} /\ Exhausted THEN Ends("error", "budget") ELSE o

(* Faulty: a stop reason the contract does not list.                       *)
CapOutcomeUnlisted(o) ==
  IF o.status = "working" /\ inv.refused > 1 THEN Ends("error", "max_tool_calls") ELSE o

CapOutcome(o) ==
  IF o.status = "working" /\ inv.refused > 1 THEN Ends("error", "tool_calls") ELSE o

(* Faulty: the reason of the reply stands.                                 *)
SummaryOutcomeHalf(o) == IF inv.summary THEN Ends("error", o.stop) ELSE o

SummaryOutcome(o) == IF inv.summary THEN Ends("error", "max_turns") ELSE o

LeaveWith(o) == status' = o.status /\ stop' = o.stop

(* Where the generator goes when its while loop ends.                      *)
AfterLoop == IF UsesMcp THEN "close" ELSE "rest"

-----------------------------------------------------------------------------
(***************************************************************************)
(* Starting an invocation: run() and the head of _run().                   *)
(***************************************************************************)
NewInvocation(schema) ==
  [schema |-> schema, from |-> turns, at |-> Len(messages), ran |-> 0, capped |-> FALSE,
   refused |-> 0, cutoffs |-> 0, retries |-> 0, summary |-> FALSE, stopped |-> None]

(* A ceiling given replaces the saved one; usage is kept.                  *)
ConfiguredBudgets(tokens, usd) ==
  [tokens |-> IF tokens = None THEN budget.tokens ELSE tokens,
   usd    |-> IF usd = None THEN budget.usd ELSE usd]

(* A resumed exhausted session must not call the backend, even for         *)
(* metadata: the ceiling, raised or kept, is checked first.                *)
Start(schema, tokens, usd) ==
  /\ phase = "rest" /\ status = "working" /\ runs < MaxRuns
  /\ budget' = ConfiguredBudgets(tokens, usd)
  /\ inv' = NewInvocation(schema)
  /\ runs' = runs + 1
  /\ UNCHANGED <<messages, results, usage, turns, output, stated, nudged, corr>>
  /\ IF Exhausted'
     THEN phase' = "rest" /\ LeaveWith(Ends("error", "budget"))
     ELSE /\ phase' = IF UsesMcp THEN "connect" ELSE "discover"
          /\ UNCHANGED <<status, stop>>

Connect(ok) ==
  /\ phase = "connect"
  /\ IF ok
     THEN phase' = "discover" /\ UNCHANGED <<status, stop>>
     ELSE phase' = "rest" /\ LeaveWith(Ends("error", "mcp"))
  /\ UNCHANGED <<messages, results, usage, budget, turns, output, stated, nudged, corr,
                 inv, runs>>

(***************************************************************************)
(* state_schema: the schema is stated once, and again when it changes.     *)
(* `valid' says whether the retained output satisfies the new schema.  In  *)
(* a session stated before the digest was recorded nothing is stated, and  *)
(* the output stays: the run's schema is taken for the one it was shown.   *)
(***************************************************************************)
(* Faulty: the output of the schema before stands under the new one.       *)
StateSchemaKeeping(valid) ==
  IF inv.schema = None \/ stated \in {inv.schema, Unrecorded}
  THEN /\ stated' = IF inv.schema = None THEN stated ELSE inv.schema
       /\ UNCHANGED <<messages, output>>
  ELSE /\ messages' = AppendUserText(messages)
       /\ stated' = inv.schema
       /\ output' = output

StateSchema(valid) ==
  IF inv.schema = None \/ stated \in {inv.schema, Unrecorded}
  THEN /\ stated' = IF inv.schema = None THEN stated ELSE inv.schema
       /\ UNCHANGED <<messages, output>>
  ELSE /\ messages' = AppendUserText(messages)
       /\ stated' = inv.schema
       /\ output' = IF output # None /\ valid THEN inv.schema ELSE None

Discover(valid) ==
  /\ phase = "discover"
  /\ phase' = "head"
  /\ StateSchema(valid)
  /\ UNCHANGED <<results, status, stop, usage, budget, turns, nudged, corr, inv, runs>>

DiscoveryFails ==
  /\ phase = "discover"
  /\ phase' = AfterLoop
  /\ LeaveWith(Ends("error", None))
  /\ UNCHANGED <<messages, results, usage, budget, turns, output, stated, nudged, corr,
                 inv, runs>>

-----------------------------------------------------------------------------
(***************************************************************************)
(* The top of the while loop: queued texts, the ceilings, the turn limit,  *)
(* and the step's own start.                                               *)
(***************************************************************************)
Left == MaxTurns - (turns - inv.from)

Typed(typed) == IF typed THEN AppendUserText(messages) ELSE messages

(* The summary request and the wrap-up warning are user texts.             *)
Told(m) == IF Left <= 0 \/ (Left <= WarnWithin /\ ToolsOffered)
           THEN AppendUserText(m) ELSE m

MayRequest == ~ Exhausted

HeadStops(typed) ==
  /\ phase = "head"
  /\ typed => Inbox
  /\ messages' = Typed(typed)
  /\ phase' = AfterLoop
  /\ LeaveWith(Ends("error", "budget"))
  /\ UNCHANGED <<results, usage, budget, turns, output, stated, nudged, corr, inv, runs>>

(* The step compacts, and asks the model unless the context is still full. *)
HeadSteps(typed, full) ==
  /\ phase = "head"
  /\ typed => Inbox
  /\ messages' = Told(Typed(typed))
  /\ inv' = [inv EXCEPT !.summary = (Left <= 0), !.retries = 0]
  /\ IF full
     THEN phase' = "post" /\ LeaveWith(Ends("error", "context"))
     ELSE phase' = "request" /\ UNCHANGED <<status, stop>>
  /\ UNCHANGED <<results, usage, budget, turns, output, stated, nudged, corr, runs>>

AtHead(typed, full) == IF MayRequest THEN HeadSteps(typed, full) ELSE HeadStops(typed)

-----------------------------------------------------------------------------
(***************************************************************************)
(* The request.  A failed attempt leaves nothing behind: the transcript,   *)
(* the turn and the usage are written once a reply arrives.                *)
(***************************************************************************)
RequestRetried ==
  /\ phase = "request"
  /\ inv.retries < MaxRetries
  /\ inv' = [inv EXCEPT !.retries = @ + 1]
  /\ UNCHANGED <<phase, messages, results, status, stop, usage, budget, turns, output,
                 stated, nudged, corr, runs>>

(* A permanent failure, or one more than the retry budget allows.          *)
RequestFails ==
  /\ phase = "request"
  /\ phase' = AfterLoop
  /\ LeaveWith(SummaryOutcome(Ends("error", None)))
  /\ UNCHANGED <<messages, results, usage, budget, turns, output, stated, nudged, corr,
                 inv, runs>>

(***************************************************************************)
(* What every completed reply does, whatever it says: usage, the turn, the *)
(* cut-off decision, the assistant turn, the retained document, the stop   *)
(* reason.  An empty cut-off reply that is corrected is not kept.          *)
(***************************************************************************)
Corrected(r) == r.stop \in CutOffs /\ MaxCutoffs # None /\ inv.cutoffs < MaxCutoffs

Empty(r) == r.calls = << >> /\ r.text = "none"

Kept(r) == IF Corrected(r) /\ Empty(r)
           THEN messages ELSE Append(messages, AssistantTurn(r.calls))

ValidDoc(r) == r.text = "doc" /\ r.errs = 0

Retained(r) == IF inv.schema # None /\ ~ Checked /\ ValidDoc(r)
               THEN inv.schema ELSE output

CountCutoff(r) == IF r.stop \in CutOffs /\ MaxCutoffs # None
                  THEN [inv EXCEPT !.cutoffs = @ + 1] ELSE inv

Received(r, cost) ==
  /\ phase = "request"
  /\ usage' = AddUsage(cost)
  /\ turns' = turns + 1
  /\ inv' = [CountCutoff(r) EXCEPT !.capped = FALSE]
  /\ UNCHANGED <<budget, stated, runs>>

Final(r) == r.calls = << >>

-----------------------------------------------------------------------------
(***************************************************************************)
(* A reply without tool calls.  Decide is how each branch leaves the step: *)
(* the transcript, the correction state, the output, and the outcome.      *)
(***************************************************************************)
Decide(m, c, out, o) ==
  /\ phase' = "post"
  /\ messages' = m
  /\ corr' = c
  /\ output' = out
  /\ LeaveWith(o)
  /\ UNCHANGED results

Natural(r) == r.stop \notin Unfinished

(* A cut-off or refused reply is corrected, or it is the run's error.      *)
ReplyCutOff(r, cost) ==
  /\ Received(r, cost)
  /\ Final(r) /\ ~ Natural(r)
  /\ IF Corrected(r)
     THEN Decide(AppendUserText(Kept(r)), corr, Retained(r), Ends(status, r.stop))
     ELSE Decide(Kept(r), corr, Retained(r), Ends("error", r.stop))
  /\ UNCHANGED nudged

(* Reasoning with no answer is not a completion.                           *)
ReplyWithoutAnswer(r, cost) ==
  /\ Received(r, cost)
  /\ Final(r) /\ Natural(r)
  /\ r.text = "thinking"
  /\ Decide(Kept(r), corr, Retained(r), Ends("error", "no_answer"))
  /\ UNCHANGED nudged

(***************************************************************************)
(* _hold_for_reads: a final answer the run has not read enough to rest on  *)
(* is held, and charged, or ends the run.  The turn after a hold keeps its *)
(* tools, since the model now has to read.                                 *)
(***************************************************************************)
(* Faulty: only cited files are asked for.                                 *)
OwedCited(r) == r.cites

Owed(r) == (ReadsRequired /\ ~ Came(messages, "read", "ok")) \/ r.cites

Untied(c) == [c EXCEPT !.retried = FALSE]

Hold(r) ==
  IF Granted(Untied(corr), 1, MaxCorrections, FALSE)
  THEN Decide(AppendUserText(Kept(r)),
              Charge(Untied(corr), 1, MaxCorrections, FALSE, "reads"),
              Retained(r), Ends(status, r.stop))
  ELSE Decide(Kept(r), Untied(corr), Retained(r), Ends("error", "reads_required"))

(* _nudge_question, for a question in prose before any file was written.   *)
Nudges(r) ==
  /\ NudgeOn /\ ~ inv.summary /\ ~ nudged /\ AskAllowed
  /\ r.text = "question"
  /\ ~ WroteAFile(messages)

ReplyInText(r, cost) ==
  /\ Received(r, cost)
  /\ Final(r) /\ Natural(r) /\ r.text # "thinking"
  /\ inv.schema = None
  /\ IF Nudges(r)
     THEN /\ nudged' = TRUE
          /\ Decide(AppendUserText(Kept(r)), corr, Retained(r), Ends(status, r.stop))
     ELSE /\ UNCHANGED nudged
          /\ IF Owed(r)
             THEN Hold(r)
             ELSE Decide(Kept(r), corr, Retained(r), Ends("done", r.stop))

(* The summary of a schema run is free text: not checked, not charged.     *)
ReplySummarises(r, cost) ==
  /\ Received(r, cost)
  /\ Final(r) /\ Natural(r) /\ r.text # "thinking"
  /\ inv.schema # None /\ inv.summary
  /\ Decide(Kept(r), corr, Retained(r), Ends(status, r.stop))
  /\ UNCHANGED nudged

AnswerErrors(r) == IF r.text = "doc" THEN r.errs ELSE 1

(* A final answer in a schema run.  `found' is what the caller's check     *)
(* says of an answer that satisfies the schema.                            *)
ErrorsOf(r, found) == IF AnswerErrors(r) = 0 /\ Checked THEN found ELSE AnswerErrors(r)

ReplyAnswers(r, cost, found) ==
  /\ Received(r, cost)
  /\ Final(r) /\ Natural(r) /\ r.text # "thinking"
  /\ inv.schema # None /\ ~ inv.summary
  /\ LET n == ErrorsOf(r, found)
         comparable == r.text = "doc"
     IN  IF n = 0
         THEN IF Owed(r)
              THEN Hold(r)
              ELSE Decide(Kept(r), corr, inv.schema, Ends("done", r.stop))
         ELSE IF Granted(corr, n, MaxCorrections, comparable)
              THEN Decide(AppendUserText(Kept(r)),
                          Charge(corr, n, MaxCorrections, comparable, "schema"),
                          Retained(r), Ends(status, r.stop))
              ELSE Decide(Kept(r), corr, Retained(r), Ends("error", "schema_violation"))
  /\ UNCHANGED nudged

(* The caller's check raised on the answer.                                *)
CheckRaises(r, cost) ==
  /\ Received(r, cost)
  /\ Final(r) /\ Natural(r)
  /\ inv.schema # None /\ ~ inv.summary
  /\ Checked /\ ValidDoc(r)
  /\ Decide(Kept(r), corr, Retained(r), Ends("error", None))
  /\ UNCHANGED nudged

-----------------------------------------------------------------------------
(***************************************************************************)
(* A reply with tool calls.                                                *)
(***************************************************************************)
Calls == messages[Len(messages)].calls

OnlyAsks(calls) == \A k \in 1 .. Len(calls) : calls[k] = "ask"

Failed(answers) == \E k \in 1 .. Len(answers) : IsError(answers[k])

(* An ask that succeeded in a turn of asks that does not block was never   *)
(* delivered, and its answer says so.                                      *)
(* Faulty: an ask that did not block still reads as recorded.              *)
DeliveredAnyway(calls, answers) == answers

Delivered(calls, answers) ==
  IF OnlyAsks(calls) /\ Failed(answers)
  THEN [k \in 1 .. Len(answers) |->
          IF IsError(answers[k]) THEN answers[k] ELSE "not_delivered"]
  ELSE answers

(* The finally of the dispatch: whatever ended it, every call is answered. *)
(* Faulty: a cancelled dispatch answers the calls that returned.           *)
AnswerReturned(calls, answers) == answers

AnswerRest(calls, answers) ==
  [k \in 1 .. Len(calls) |-> IF k <= Len(answers) THEN answers[k] ELSE "error"]

WithAnswers(m, answers) ==
  Append(m, UserTurn(Delivered(m[Len(m)].calls, answers)))

(* The calls of a truncated turn, or of the summary, are not run.          *)
ReplyCallsRefused(r, cost) ==
  /\ Received(r, cost)
  /\ ~ Final(r)
  /\ ~ Natural(r) \/ inv.summary
  /\ LET m == Append(Kept(r), UserTurn(AllAnswered(r.calls, "not_run")))
     IN  IF Natural(r)
         THEN Decide(m, corr, Retained(r), Ends(status, r.stop))
         ELSE IF Corrected(r)
         THEN Decide(AppendUserText(m), corr, Retained(r), Ends(status, r.stop))
         ELSE Decide(m, corr, Retained(r), Ends("error", r.stop))
  /\ UNCHANGED nudged

ReplyCalls(r, cost) ==
  /\ Received(r, cost)
  /\ ~ Final(r) /\ Natural(r) /\ ~ inv.summary
  /\ phase' = "call"
  /\ messages' = Kept(r)
  /\ results' = << >>
  /\ stop' = r.stop
  /\ output' = Retained(r)
  /\ UNCHANGED <<status, nudged, corr>>

NextCall == Calls[Len(results) + 1]

AskBesideOthers == NextCall = "ask" /\ AskAllowed /\ ~ OnlyAsks(Calls)

(* Faulty: one call too many.                                              *)
PastCap == MaxToolCalls # None /\ inv.ran > MaxToolCalls

AtCap == MaxToolCalls # None /\ inv.ran >= MaxToolCalls

Answer(a) == results' = Append(results, a)

(* Faulty: it waits until it is the last of them.                          *)
AskWaits ==
  /\ phase = "call" /\ Len(results) + 1 = Len(Calls)
  /\ AskBesideOthers
  /\ Answer("not_run")
  /\ UNCHANGED <<phase, messages, status, stop, usage, budget, turns, output, stated,
                 nudged, corr, inv, runs>>

(* An ask beside other calls is not a question about the request.          *)
AskRefused ==
  /\ phase = "call" /\ Len(results) < Len(Calls)
  /\ AskBesideOthers
  /\ Answer("not_run")
  /\ UNCHANGED <<phase, messages, status, stop, usage, budget, turns, output, stated,
                 nudged, corr, inv, runs>>

CallCapped ==
  /\ phase = "call" /\ Len(results) < Len(Calls)
  /\ ~ AskBesideOthers /\ AtCap
  /\ Answer("not_run")
  /\ inv' = [inv EXCEPT !.capped = TRUE]
  /\ UNCHANGED <<phase, messages, status, stop, usage, budget, turns, output, stated,
                 nudged, corr, runs>>

(* Counted as it starts: a call that is cancelled or raises was still run. *)
CallStarts ==
  /\ phase = "call" /\ Len(results) < Len(Calls)
  /\ ~ AskBesideOthers /\ ~ AtCap
  /\ phase' = "running"
  /\ inv' = IF MaxToolCalls = None THEN inv ELSE [inv EXCEPT !.ran = @ + 1]
  /\ UNCHANGED <<messages, results, status, stop, usage, budget, turns, output, stated,
                 nudged, corr, runs>>

(* dispatch never raises: a refusal or an exception is an error result.    *)
CallAnswers(name) ==
  IF name # "ask" THEN {"ok", "error"}
  ELSE IF AskAllowed THEN {"recorded", "error"} ELSE {"error"}

CallReturns(a) ==
  /\ phase = "running"
  /\ a \in CallAnswers(NextCall)
  /\ phase' = "call"
  /\ Answer(a)
  /\ UNCHANGED <<messages, status, stop, usage, budget, turns, output, stated, nudged,
                 corr, inv, runs>>

(* Blocked on what happened, not on what the model called.                 *)
Blocks(calls, answers) == OnlyAsks(calls) /\ ~ Failed(answers)

CallsDone ==
  /\ phase = "call" /\ Len(results) = Len(Calls)
  /\ phase' = "post"
  /\ messages' = WithAnswers(messages, results)
  /\ status' = IF Blocks(Calls, results) THEN "blocked" ELSE status
  /\ inv' = [inv EXCEPT !.refused = IF inv.capped THEN @ + 1 ELSE @]
  /\ UNCHANGED <<results, stop, usage, budget, turns, output, stated, nudged, corr, runs>>

-----------------------------------------------------------------------------
(***************************************************************************)
(* After a step, and the end of the run.                                   *)
(***************************************************************************)
StepEnds ==
  /\ phase = "post"
  /\ LET o == SummaryOutcome(CapOutcome(BudgetOutcome(Ends(status, stop))))
     IN  /\ LeaveWith(o)
         /\ phase' = IF o.status = "working" THEN "head" ELSE AfterLoop
  /\ UNCHANGED <<messages, results, usage, budget, turns, output, stated, nudged, corr,
                 inv, runs>>

(* A server that fails to close makes the run an mcp error.                *)
Close(ok) ==
  /\ phase = "close"
  /\ phase' = "rest"
  /\ IF ok THEN UNCHANGED <<status, stop>> ELSE LeaveWith(Ends("error", "mcp"))
  /\ UNCHANGED <<messages, results, usage, budget, turns, output, stated, nudged, corr,
                 inv, runs>>

(***************************************************************************)
(* A deadline or a signal cancels the run at the await it stands at.  The  *)
(* dispatch answers the call it interrupts and every call after it, the    *)
(* MCP servers are closed, and the host records the stop (_stopped).  The  *)
(* step's finally still marks a summary.                                   *)
(***************************************************************************)
Awaiting == {"connect", "discover", "request", "running", "close"}
            \cup (IF Streaming THEN {"post"} ELSE {})

Interrupted ==
  IF phase = "running"
  THEN WithAnswers(messages, AnswerRest(Calls, results))
  ELSE messages

Stop(reason) ==
  /\ phase \in Awaiting
  /\ messages' = Interrupted
  /\ inv' = [inv EXCEPT !.stopped = reason]
  /\ IF UsesMcp
     THEN phase' = "unwind" /\ LeaveWith(SummaryOutcome(Ends(status, stop)))
     ELSE phase' = "rest" /\ LeaveWith(Ends("error", reason))
  /\ UNCHANGED <<results, usage, budget, turns, output, stated, nudged, corr, runs>>

(* A server that fails to close then replaces the cancel by an exception,  *)
(* which run() reports as its own.                                         *)
Unwind(ok) ==
  /\ phase = "unwind"
  /\ phase' = "rest"
  /\ LeaveWith(Ends("error", IF ok THEN inv.stopped ELSE "mcp"))
  /\ UNCHANGED <<messages, results, usage, budget, turns, output, stated, nudged, corr,
                 inv, runs>>

(***************************************************************************)
(* reopen: a finished session is made runnable again, with or without a    *)
(* text.  The correction state and the error are per run; the usage, the   *)
(* turns, the output, the stated schema and the nudge are kept.            *)
(***************************************************************************)
Reopened(text) ==
  IF text THEN AppendUserText(AnswerUnanswered(messages))
          ELSE AnswerUnanswered(messages)

Reopen(text) ==
  /\ phase = "rest" /\ status # "working" /\ runs < MaxRuns
  /\ messages' = Reopened(text)
  /\ LeaveWith(Ends("working", None))
  /\ corr' = NoCorrections
  /\ UNCHANGED <<phase, results, usage, budget, turns, output, stated, nudged, inv, runs>>

-----------------------------------------------------------------------------
(* new_session(prompt).                                                    *)
NewSession ==
  /\ messages = <<UserTurn(<< >>)>>
  /\ turns = 0 /\ runs = 0
  /\ output = None /\ stated = None

(* A session reopened from a file saved before the digest was recorded:    *)
(* one run, of a turn, which may have retained a document.                 *)
OldSession ==
  /\ OldFile
  /\ messages = <<UserTurn(<< >>), AssistantTurn(<< >>)>>
  /\ turns = 1 /\ runs = 1
  /\ output \in {None, Unrecorded} /\ stated = Unrecorded

Init ==
  /\ phase = "rest"
  /\ NewSession \/ OldSession
  /\ results = << >>
  /\ status = "working" /\ stop = None
  /\ usage = [tokens |-> turns, cost |-> 0]
  /\ budget = [tokens |-> None, usd |-> None]
  /\ nudged = FALSE
  /\ corr = NoCorrections
  /\ inv = NewInvocation(None)

ReplyComes ==
  \E r \in Replies, cost \in Costs :
    \/ ReplyCutOff(r, cost)
    \/ ReplyWithoutAnswer(r, cost)
    \/ ReplyInText(r, cost)
    \/ ReplySummarises(r, cost)
    \/ \E found \in 0 .. MaxErrors : ReplyAnswers(r, cost, found)
    \/ CheckRaises(r, cost)
    \/ ReplyCallsRefused(r, cost)
    \/ ReplyCalls(r, cost)

Loop ==
  \/ \E ok \in BOOLEAN : Connect(ok) \/ Close(ok) \/ Unwind(ok)
  \/ \E valid \in BOOLEAN : Discover(valid)
  \/ DiscoveryFails
  \/ \E typed, full \in BOOLEAN : AtHead(typed, full)
  \/ RequestRetried
  \/ RequestFails
  \/ ReplyComes
  \/ AskRefused \/ CallCapped \/ CallStarts
  \/ \E a \in Answers : CallReturns(a)
  \/ CallsDone
  \/ StepEnds

Host ==
  \/ \E schema \in RunSchemas, tokens \in TokenLimits, usd \in UsdLimits :
       Start(schema, tokens, usd)
  \/ \E text \in BOOLEAN : Reopen(text)
  \/ \E reason \in {"timeout", "interrupted"} : Stop(reason)

Next == Loop \/ Host

(***************************************************************************)
(* The loop is one task of an event loop, and every await it makes ends:   *)
(* a request by its timeout, a command by its own, an MCP call by its      *)
(* deadline.  Nobody has to start, reopen or stop a run.                   *)
(***************************************************************************)
Spec == Init /\ [][Next]_vars

FairSpec == Spec /\ WF_vars(Loop)

-----------------------------------------------------------------------------
(***************************************************************************)
(* Properties.                                                             *)
(***************************************************************************)

(* The types of the session's and the invocation's state.                  *)
TypeOK ==
  /\ phase \in Phases
  /\ messages \in Seq(Message)
  /\ results \in Seq(Answers)
  /\ status \in Statuses
  /\ stop \in StopReasons
  /\ usage \in [tokens : Nat, cost : Nat \cup {None}]
  /\ budget \in [tokens : Nat \cup {None}, usd : Nat \cup {None}]
  /\ turns \in Nat
  /\ {output, stated} \subseteq Schemas \cup {None, Unrecorded}
  /\ nudged \in BOOLEAN
  /\ corr \in Correction
  /\ inv \in Invocation
  /\ runs \in Nat

Dispatching == phase \in {"call", "running"}

(* Every tool call of the transcript is answered by the turn after it, one *)
(* answer a call, whatever ended the dispatch: a vendor rejects any other  *)
(* transcript on every later request.  Only the reply being dispatched has *)
(* calls still open.                                                       *)
CallsAnswered ==
  IF Dispatching
  THEN SettledButLast(messages) /\ Unanswered(messages) # << >>
  ELSE Settled(messages)

(* No two user turns follow each other: a text for the model joins the     *)
(* answers, the prompt or the text before it.                              *)
UserTurnsMerged == NoUserPair(messages)

(* A run reported done ends on a reply the model finished, without calls,  *)
(* read what it had to, and in a schema run holds a document the current   *)
(* schema accepts.                                                         *)
DoneIsEarned ==
  phase = "rest" /\ status = "done" =>
    /\ EndsWith(messages, "assistant") /\ Unanswered(messages) = << >>
    /\ stop = "end_turn"
    /\ inv.schema # None => output = inv.schema /\ stated = inv.schema
    /\ ReadsRequired => Came(messages, "read", "ok")

(* An ask the transcript records ends the run: its turn holds nothing but  *)
(* recorded asks, no request follows it, and the run is blocked, unless a  *)
(* stop or a server that fails to close ended the run in its place.  And a *)
(* run reported blocked has questions the transcript records.              *)
AsksEndTheRun ==
  /\ \A i \in inv.at + 1 .. Len(messages) :
       HasRecorded(messages[i]) =>
         /\ i = Len(messages)
         /\ \A k \in 1 .. Len(messages[i].answers) : messages[i].answers[k] = "recorded"
         /\ \/ phase \in {"post", "close"} /\ status = "blocked"
            \/ phase = "unwind"
            \/ phase = "rest" /\ status \in {"working", "blocked"}
            \/ phase = "rest" /\ (inv.stopped # None \/ stop = "mcp")
  /\ phase = "rest" /\ status = "blocked" =>
       HasRecorded(messages[Len(messages)]) /\ inv.stopped = None

(* What an invocation's own limits bound, whatever the model replies: its  *)
(* turns and one summary, the calls it runs, the turns it may still spend  *)
(* on calls past that cap, and the cut-off replies it may see.             *)
LimitsHold ==
  /\ turns - inv.from <= MaxTurns + 1
  /\ MaxToolCalls # None => inv.ran <= MaxToolCalls /\ inv.refused <= 2
  /\ MaxCutoffs # None => inv.cutoffs <= MaxCutoffs + 1

(* Corrections, charged and free, are bounded whatever the model replies.  *)
CorrectionsBounded == WithinBudget(corr, MaxCorrections)

(* The retained output satisfies the schema last stated to the model, or   *)
(* was retained by a nare that did not record which it was.  A change of   *)
(* schema between two runs never leaves the answer of the one before.      *)
OutputIsCurrent == output \in {None, stated, Unrecorded}

(* A run that starts comes to rest, whatever the model replies.            *)
Terminates == phase # "rest" ~> phase = "rest"

(* docs/contract.md, on a deadline or a signal: the result line reports    *)
(* its stop_reason.                                                        *)
StopIsReported ==
  phase = "rest" /\ inv.stopped # None /\ status # "working" => stop = inv.stopped

-----------------------------------------------------------------------------
(***************************************************************************)
(* The loop keeps the contract.  Until an invocation rests, a caller sees  *)
(* a run at work; the status a step leaves behind may still be replaced.   *)
(***************************************************************************)
Contract == INSTANCE RunContract WITH
  status <- IF phase = "rest" THEN status ELSE "working",
  stop   <- IF phase = "rest" THEN stop ELSE None,
  taken  <- IF phase = "rest" /\ status = "working" THEN 0 ELSE turns - inv.from

KeepsContract == Contract!ContractSpec

-----------------------------------------------------------------------------
(***************************************************************************)
(* Strengthenings: what the properties rest on, step by step.              *)
(***************************************************************************)

(* A reply being dispatched ends the transcript, and no call is answered   *)
(* twice.                                                                  *)
TranscriptInv ==
  /\ messages # << >>
  /\ NoUserPair(messages)
  /\ ~ Dispatching => Settled(messages)
  /\ Dispatching => /\ SettledButLast(messages)
                    /\ EndsWith(messages, "assistant") /\ Calls # << >>
                    /\ Len(results) <= Len(Calls)
  /\ phase = "running" => Len(results) < Len(Calls)

(* A step that may still lead to a request leaves a turn to take, a cap    *)
(* refused at most once, and a cut-off budget not yet overdrawn.           *)
Underway == phase \in {"connect", "discover", "head", "request", "call", "running"}

LimitsInv ==
  /\ inv.from <= turns
  /\ turns <= inv.from + MaxTurns + 1
  /\ Underway => turns <= inv.from + MaxTurns
  /\ phase = "request" /\ ~ inv.summary => turns < inv.from + MaxTurns
  /\ phase = "post" /\ ~ inv.summary => turns <= inv.from + MaxTurns
  /\ MaxToolCalls # None => inv.ran <= MaxToolCalls
  /\ inv.refused <= IF Underway THEN 1 ELSE 2
  /\ MaxCutoffs # None =>
       /\ inv.cutoffs <= MaxCutoffs + 1
       /\ Underway => inv.cutoffs <= MaxCutoffs
       /\ phase = "post" /\ status = "working" => inv.cutoffs <= MaxCutoffs

(* A run underway is working and not stopped.  What a step or a loop that  *)
(* ended leaves is an outcome of the contract, and a run that asks is in   *)
(* no summary, whose calls are refused.                                    *)
OutcomeInv ==
  /\ Underway => status = "working" /\ inv.stopped = None
  /\ Dispatching => stop = "end_turn" /\ ~ inv.summary
  /\ phase = "post" => /\ inv.stopped = None
                       /\ status = "working" \/ <<status, stop>> \in Contract!Results
                       /\ status = "blocked" => ~ inv.summary
  /\ phase = "close" => inv.stopped = None /\ <<status, stop>> \in Contract!Results
  /\ phase = "unwind" => inv.stopped # None
  /\ phase = "rest" /\ status = "working" => stop = None

(* A run that reports done earned it when it decided, and nothing between  *)
(* that and its rest takes it back.                                        *)
EarnedInv ==
  /\ OutputIsCurrent
  /\ stated = None => output = None
  /\ phase \in {"head", "request", "call", "running", "post"} /\ inv.schema # None
       => stated = inv.schema
  /\ status = "done" =>
       /\ EndsWith(messages, "assistant") /\ Unanswered(messages) = << >>
       /\ stop = "end_turn"
       /\ inv.schema # None => output = inv.schema /\ stated = inv.schema
       /\ ReadsRequired => Came(messages, "read", "ok")

(* An ask is recorded in a reply of asks alone, in which no call is "ok":  *)
(* all of its answers are recorded, or none is once it is delivered.       *)
AsksInv ==
  /\ inv.at <= Len(messages)
  /\ \A i \in 1 .. Len(messages) :
       messages[i].role = "assistant" => messages[i].answers = << >>
  /\ Dispatching => \A k \in 1 .. Len(results) :
                      /\ results[k] = "recorded" => OnlyAsks(Calls)
                      /\ results[k] = "ok" => Calls[k] # "ask"
  /\ phase = "running" /\ NextCall = "ask" /\ AskAllowed => OnlyAsks(Calls)
  /\ status = "blocked" => HasRecorded(messages[Len(messages)])
  /\ AsksEndTheRun
=============================================================================
