------------------------------ MODULE Elision ------------------------------
(***************************************************************************)
(* What a request holds of the history: compaction (compact.py), the       *)
(* context estimate, and the thinking that goes back to the model.         *)
(*                                                                         *)
(* A vendor signs a block of thinking against the request it was made in:  *)
(* the block may be sent again only while the tools, the system prompt and *)
(* every message sent before it are what they were.  Four parts of the     *)
(* program rewrite those (compaction, the redaction of a saved file, a     *)
(* resume with other tools or another system prompt, a file an older nare  *)
(* wrote), and each has to drop the thinking it makes stale.               *)
(*                                                                         *)
(* Sizes are tokens, four characters each.  A message keeps what these     *)
(* parts tell apart.  One call in a turn is enough: every pass below takes *)
(* the blocks one by one.  Blocks that are saved and never sent (thinking  *)
(* with no signature, empty text) are left out.                            *)
(***************************************************************************)
EXTENDS Integers, Sequences, FiniteSetsExt, SequencesExt

CONSTANTS
  None,        (* No thinking, no call, no file.                           *)
  ToolSets,    (* The tool sets a run can send.                            *)
  Prompts,     (* The system prompts it can be given: [name, secret].      *)
  Calls,       (* The calls the model makes: [name, part].                 *)
  Results,     (* The results they have: [name, part, error].              *)
  OldFiles,    (* The sessions an older nare may have left.                *)
  Thinks,      (* Whether the model thinks before a reply.                 *)
  ImageInputs, (* The --image-input settings of the runs.                  *)
  Structured,  (* Answer turns may be constrained to a schema.             *)
  Window,      (* The context window.                                      *)
  Overhead,    (* Tokens of a request besides the messages.                *)
  ImageSize,   (* Tokens of an image.                                      *)
  MaxLength,   (* Bound: no model call from a history this long.           *)
  MaxText,     (* Bound on the texts merged into one user turn.            *)
  MaxResumes   (* Bound on the processes that resume the file.             *)

CallNames == {c.name : c \in Calls}

NoTools == "withheld"

ASSUME PrefixAssumption == NoTools \notin ToolSets /\ None \notin ToolSets \cup {NoTools}
ASSUME StopAssumption == None # "context"
ASSUME SizeAssumption == /\ Window \in Nat \ {0} /\ Overhead \in Nat
                         /\ ImageSize \in Nat /\ ImageInputs \subseteq BOOLEAN
                         /\ Thinks \subseteq BOOLEAN /\ MaxResumes \in Nat

VARIABLES
  pc,        (* Where the program is.                                      *)
  msgs,      (* Session.messages.                                          *)
  last,      (* Session.last_input_*.                                      *)
  tools,     (* Session.policy: the tools of the session's last run.       *)
  system,    (* Session.system: the system prompt this process sends.      *)
  images,    (* policy.image_input of this run.                            *)
  retried,   (* Session.schema_retried.                                    *)
  summary,   (* This turn is the turn-limit summary.                       *)
  stop,      (* Session.stop_reason.                                       *)
  wire,      (* The request the vendor is answering.                       *)
  resumes    (* Processes that have resumed the file.                      *)

session == <<msgs, last, tools, system, retried, stop>>
vars == <<pc, session, summary, images, wire, resumes>>

-----------------------------------------------------------------------------
(***************************************************************************)
(* Messages.  `call' of a user turn is the call its result answers, and    *)
(* `part' is what a call holds or a result returns.                        *)
(***************************************************************************)
Part == [size : Nat, form : {"whole", "stub", "redacted"}, secret : BOOLEAN, image : BOOLEAN]

ASSUME CallsAssumption ==
  /\ \A c \in Calls : c \in [name : CallNames, part : Part]
  /\ \A r \in Results : r \in [name : {s.name : s \in Results}, part : Part, error : BOOLEAN]
  /\ None \notin CallNames

NoPart == [size |-> 0, form |-> "whole", secret |-> FALSE, image |-> FALSE]

Saying(n) == [role |-> "user", text |-> n, think |-> None, call |-> None,
              part |-> NoPart, error |-> FALSE]

(* append_user_text: merge into a trailing user turn.                      *)
(* Faulty: every text opens a turn.                                        *)
OpenUserTurn(m) == Append(m, Saying(1))

AppendUserText(m) ==
  IF m # << >> /\ m[Len(m)].role = "user"
  THEN [m EXCEPT ![Len(m)].text = @ + 1]
  ELSE Append(m, Saying(1))

HasResult(m) == m.role = "user" /\ m.call # None

(***************************************************************************)
(* What of a message is sent: nothing, when an assistant turn has nothing  *)
(* left to send, and a withheld image when the run takes none.             *)
(***************************************************************************)
Empty(m) == m.role = "assistant" /\ m.text = 0 /\ m.think = None /\ m.call = None

Wire(m, img) ==
  IF Empty(m) THEN <<"nothing">> ELSE <<m, IF m.part.image THEN img ELSE FALSE>>

Request(m, img) == [i \in 1 .. Len(m) |-> Wire(m[i], img)]

-----------------------------------------------------------------------------
(***************************************************************************)
(* context_chars and estimate.                                             *)
(***************************************************************************)
MessageSize(m, img) ==
  m.text + (IF m.think = None THEN 0 ELSE 1) + m.part.size
    + (IF img /\ m.part.image THEN ImageSize ELSE 0)

Size(m, img) ==
  LET upTo[i \in 0 .. Len(m)] == IF i = 0 THEN 0 ELSE upTo[i - 1] + MessageSize(m[i], img)
  IN  upTo[Len(m)]

NotMeasured == [tokens |-> 0, messages |-> 0, chars |-> 0, images |-> FALSE]

Estimate(m, img) ==
  IF last.tokens = 0 \/ last.images # img
  THEN Size(m, img)
  ELSE LET delta == Size(SubSeq(m, 1, last.messages), img) - last.chars
           appended == Size(SubSeq(m, last.messages + 1, Len(m)), img)
       IN  Max({0, last.tokens + delta + appended})

-----------------------------------------------------------------------------
(***************************************************************************)
(* without_sent_thinking, of the messages from `start' on: a block whose   *)
(* request changed cannot be sent again.                                   *)
(***************************************************************************)
DropThinking(m, start) ==
  [i \in 1 .. Len(m) |-> IF i >= start THEN [m[i] EXCEPT !.think = None] ELSE m[i]]

(***************************************************************************)
(* What compaction may take, oldest first: the results before the second   *)
(* to last assistant turn, then the texts those turns wrote.  A failed     *)
(* call keeps its result and its input, and a question its answer.  (The   *)
(* two texts of an edit are one part, elided together.)                    *)
(***************************************************************************)
Assistants(m) == {i \in 1 .. Len(m) : m[i].role = "assistant"}

ProtectedFrom(m) ==
  IF Cardinality(Assistants(m)) < 2
  THEN 1
  ELSE Max(Assistants(m) \ {Max(Assistants(m))})

StubSize == 1

Shorter(p) == StubSize < p.size /\ p.form # "stub"

OldResults(m, img) ==
  {i \in 2 .. Len(m) :
     /\ i < ProtectedFrom(m)
     /\ HasResult(m[i]) /\ ~ m[i].error /\ m[i].call # "ask"
     /\ Shorter(m[i].part) \/ (img /\ m[i].part.image)}

OldInputs(m) ==
  {i \in 1 .. Len(m) :
     /\ i < ProtectedFrom(m)
     /\ m[i].role = "assistant" /\ m[i].call \in {"write", "edit"}
     /\ ~ (i < Len(m) /\ m[i + 1].error)
     /\ Shorter(m[i].part)}

Stubbed(p, img) == [size |-> StubSize, form |-> "stub", secret |-> FALSE,
                    image |-> p.image /\ ~ img]

(* Faulty: the thinking stays.                                             *)
ElidedAlone(m, i, img) == [m EXCEPT ![i].part = Stubbed(@, img)]

Elided(m, i, img) == DropThinking([m EXCEPT ![i].part = Stubbed(@, img)], i)

(* compact begins at 80% of the window and goes on while above 60%.        *)
(* Faulty: it begins above the window.                                     *)
FullLate(m, img) == Estimate(m, img) > Window

Full(m, img) == 10 * Estimate(m, img) >= 8 * Window

StillHigh(m, img) == 10 * Estimate(m, img) > 6 * Window

-----------------------------------------------------------------------------
(***************************************************************************)
(* dumps and loads.  Redaction rewrites what holds a secret, and the saved *)
(* copy drops the thinking from the first message it changes on.  A file   *)
(* no nare vetted is dropped by the marks redaction and elision leave.     *)
(***************************************************************************)
Redacted(m) ==
  IF m.part.secret THEN [m EXCEPT !.part.secret = FALSE, !.part.form = "redacted"] ELSE m

FirstOf(S, m) == IF S = {} THEN Len(m) + 1 ELSE CHOOSE i \in S : \A j \in S : i <= j

FirstRedacted(m) == FirstOf({i \in 1 .. Len(m) : Redacted(m[i]) # m[i]}, m)

FirstMarked(m) == FirstOf({i \in 1 .. Len(m) : m[i].part.form # "whole"}, m)

Dumped(m) == DropThinking([i \in 1 .. Len(m) |-> Redacted(m[i])], FirstRedacted(m))

Loaded(file) ==
  IF file.vetted THEN file.msgs ELSE DropThinking(file.msgs, FirstMarked(file.msgs))

RedactedPrompt(p) == [p EXCEPT !.secret = FALSE]

File == [msgs |-> Dumped(msgs), last |-> last, tools |-> tools,
         system |-> RedactedPrompt(system), retried |-> retried, vetted |-> TRUE]

-----------------------------------------------------------------------------
(***************************************************************************)
(* What a session holds, and what an older nare may have left of one: its  *)
(* thinking was made with the tools and the system prompt of the file,     *)
(* after messages that stand up to the first mark of a later change.       *)
(***************************************************************************)
Sendable == Prompts \cup {RedactedPrompt(p) : p \in Prompts}

IsMessage(m) ==
  /\ m \in [role : {"user", "assistant"}, text : Nat, think : {m.think},
            call : CallNames \cup {None}, part : Part, error : BOOLEAN]
  /\ m.think # None => /\ m.role = "assistant"
                       /\ m.think.tools \in ToolSets \cup {NoTools}
                       /\ m.think.system \in Sendable

Alternates(m) ==
  \A i \in 1 .. Len(m) : IsMessage(m[i]) /\ (m[i].role = "user" <=> i % 2 = 1)

Measure(m) == [tokens : Nat, messages : 0 .. Len(m), chars : Nat, images : BOOLEAN]

FreshBefore(m, end, img) ==
  \A i \in 1 .. Len(m) :
    i < end /\ m[i].think # None => m[i].think.msgs = Request(SubSeq(m, 1, i - 1), img)

ASSUME PromptsAssumption ==
  \A p \in Prompts : p \in [name : {q.name : q \in Prompts}, secret : BOOLEAN]

ASSUME OldFilesAssumption ==
  \A f \in OldFiles :
    /\ f.msgs \in Seq({f.msgs[i] : i \in 1 .. Len(f.msgs)}) /\ Alternates(f.msgs)
    /\ f.last \in Measure(f.msgs)
    /\ f.last.tokens > 0 => f.last.tokens = f.last.chars + Overhead
    /\ f.tools \in ToolSets /\ f.system \in Sendable /\ f.retried \in BOOLEAN /\ ~ f.vetted
    /\ \A i \in 1 .. Len(f.msgs) :
         f.msgs[i].think # None => /\ f.msgs[i].think.tools = f.tools
                                  /\ f.msgs[i].think.system = f.system
    /\ \A img \in ImageInputs : FreshBefore(f.msgs, FirstMarked(f.msgs), img)

-----------------------------------------------------------------------------
Init ==
  /\ pc = "idle" /\ stop = None
  /\ msgs = << >> /\ last = NotMeasured /\ retried = FALSE
  /\ tools = None /\ system \in Prompts
  /\ images \in ImageInputs
  /\ wire = None
  /\ resumes = 0 /\ summary = FALSE

(***************************************************************************)
(* adopt_system: a resume given no prompt sends the recorded one, as it    *)
(* reads in the file; given another, it drops the thinking.                *)
(***************************************************************************)
Adopted(given, f) == IF given = None THEN f.system ELSE given

PromptChanged(given, f) == given # None /\ RedactedPrompt(given) # f.system

(***************************************************************************)
(* A new process reads the file the last save wrote.  The caller saves     *)
(* between steps, where the loop yields, and when a run ends; what a       *)
(* process did after its last save dies with it, so a resume is taken from *)
(* the moment of the save.  The first process may resume an older file.    *)
(***************************************************************************)
Saved ==
  {f \in {File} : pc \in {"step", "idle"} /\ tools # None}
    \cup (IF msgs = << >> THEN OldFiles ELSE {})

Resume ==
  \E f \in Saved, given \in Prompts \cup {None} :
    /\ resumes < MaxResumes
    /\ resumes' = resumes + 1
    /\ msgs' = IF PromptChanged(given, f) THEN DropThinking(Loaded(f), 1) ELSE Loaded(f)
    /\ last' = f.last /\ retried' = f.retried
    /\ tools' = f.tools /\ system' = Adopted(given, f)
    /\ images' \in ImageInputs
    /\ pc' = "idle" /\ stop' = None
    /\ wire' = None /\ summary' = FALSE

(***************************************************************************)
(* A run starts: the prompt is appended, and a session that recorded other *)
(* tools loses its signed thinking.                                        *)
(***************************************************************************)
PrefixChanges(now) == tools \notin {None, now}

Run(now) ==
  /\ pc = "idle"
  /\ Len(msgs) < MaxLength
  /\ msgs # << >> => msgs[Len(msgs)].text < MaxText
  /\ msgs' = IF PrefixChanges(now)
             THEN DropThinking(AppendUserText(msgs), 1)
             ELSE AppendUserText(msgs)
  /\ tools' = now
  /\ retried' = FALSE /\ summary' = FALSE
  /\ stop' = None
  /\ pc' = "step"
  /\ UNCHANGED <<last, system, images, wire, resumes>>

(***************************************************************************)
(* At the turn limit one more turn is asked for, a summary: the run ends   *)
(* after it, whatever it holds.                                            *)
(***************************************************************************)
Summarise ==
  /\ pc = "step" /\ ~ summary
  /\ msgs[Len(msgs)].text < MaxText
  /\ msgs' = AppendUserText(msgs)
  /\ summary' = TRUE
  /\ UNCHANGED <<pc, last, tools, system, retried, stop, images, wire, resumes>>

Ends(reason) ==
  /\ pc' = "idle"
  /\ stop' = IF summary THEN "max_turns" ELSE reason

(***************************************************************************)
(* step, up to the request.  compact is a loop over the history, which     *)
(* runs to its end before anything else does.                              *)
(***************************************************************************)
Compact ==
  /\ pc = "step" /\ Len(msgs) < MaxLength
  /\ Full(msgs, images)
  /\ pc' = "compact"
  /\ UNCHANGED <<session, images, wire, resumes, summary>>

ElideResult ==
  /\ pc = "compact" /\ StillHigh(msgs, images)
  /\ OldResults(msgs, images) # {}
  /\ msgs' = Elided(msgs, FirstOf(OldResults(msgs, images), msgs), images)
  /\ UNCHANGED <<pc, last, tools, system, retried, stop, images, wire, resumes, summary>>

ElideInput ==
  /\ pc = "compact" /\ StillHigh(msgs, images)
  /\ OldResults(msgs, images) = {} /\ OldInputs(msgs) # {}
  /\ msgs' = Elided(msgs, FirstOf(OldInputs(msgs), msgs), images)
  /\ UNCHANGED <<pc, last, tools, system, retried, stop, images, wire, resumes, summary>>

Compacted ==
  \/ pc = "step" /\ Len(msgs) < MaxLength /\ ~ Full(msgs, images)
  \/ /\ pc = "compact"
     /\ StillHigh(msgs, images) => OldResults(msgs, images) = {} /\ OldInputs(msgs) = {}

Overfull(m, img) == Estimate(m, img) >= Window

ContextStop ==
  /\ Compacted
  /\ Overfull(msgs, images)
  /\ Ends("context")
  /\ UNCHANGED <<msgs, last, tools, system, retried, summary, images, wire, resumes>>

(***************************************************************************)
(* The tools the request carries: a constrained answer turn withholds      *)
(* them, and a summary is not constrained.  (Nor is it offered any, in a   *)
(* run that has none: there the two requests carry the same tools.)        *)
(***************************************************************************)
Offered == IF Structured /\ retried /\ ~ summary THEN NoTools ELSE tools

Send ==
  /\ Compacted
  /\ ~ Overfull(msgs, images)
  /\ wire' = [tools |-> Offered, system |-> system, msgs |-> Request(msgs, images)]
  /\ pc' = "request"
  /\ UNCHANGED <<session, summary, images, resumes>>

(***************************************************************************)
(* step, from the reply on.  The measure is of the request, which the      *)
(* history still is: the reply is appended after it.                       *)
(*                                                                         *)
(* Idealised: the vendor counts a token where the estimate has four        *)
(* characters of JSON, so `tokens' is the size of the messages and         *)
(* Overhead, the tools and the system prompt, is all the estimate lacks    *)
(* before a first measure.  "This is a heuristic, not a tokenizer".        *)
(***************************************************************************)
(* Faulty: the reply is in the characters the tokens are compared with.    *)
MeasuredWith(m) == [tokens |-> Size(msgs, images) + Overhead, messages |-> Len(msgs),
                    chars |-> Size(m, images), images |-> images]

Measured(m) == [tokens |-> Size(msgs, images) + Overhead, messages |-> Len(msgs),
                chars |-> Size(msgs, images), images |-> images]

Thoughts == {IF t THEN wire ELSE None : t \in Thinks}

Turn(think, text, call, part) ==
  [role |-> "assistant", text |-> text, think |-> think, call |-> call,
   part |-> part, error |-> FALSE]

Replied(turn) ==
  /\ msgs' = Append(msgs, turn)
  /\ last' = Measured(Append(msgs, turn))
  /\ pc' = IF turn.call = None THEN "answered" ELSE "dispatch"
  /\ wire' = None
  /\ UNCHANGED <<tools, system, retried, stop, summary, images, resumes>>

(* A reply that calls a tool, which a turn with no tools may do as well.   *)
ReplyCalls ==
  /\ pc = "request"
  /\ \E think \in Thoughts, c \in Calls :
       /\ Replied(Turn(think, 0, c.name, c.part))

(* A reply that answers, or was cut off after its thinking.                *)
ReplyAnswers ==
  /\ pc = "request"
  /\ \E think \in Thoughts, text \in 0 .. 1 :
       /\ text = 0 => think # None
       /\ Replied(Turn(think, text, None, NoPart))

(* The request fails: the run ends, and what compaction took stays taken.  *)
RequestFails ==
  /\ pc = "request"
  /\ Ends("error")
  /\ wire' = None
  /\ UNCHANGED <<msgs, last, tools, system, retried, summary, images, resumes>>

(* The call is answered in the user turn that follows it; a summary's is    *)
(* not run.                                                                *)
Notice == [NoPart EXCEPT !.size = 1]

Answers(call) ==
  IF summary
  THEN {[name |-> call, part |-> Notice, error |-> TRUE]}
  ELSE {r \in Results : r.name = call /\ (r.part.image => images)}

Dispatch ==
  /\ pc = "dispatch"
  /\ \E r \in Answers(msgs[Len(msgs)].call) :
       msgs' = Append(msgs, [role |-> "user", text |-> 0, think |-> None,
                             call |-> r.name, part |-> r.part, error |-> r.error])
  /\ IF summary THEN Ends(None) ELSE pc' = "step" /\ UNCHANGED stop
  /\ UNCHANGED <<last, tools, system, retried, summary, images, wire, resumes>>

(* The answer stands.                                                      *)
Finish ==
  /\ pc = "answered"
  /\ Ends("done")
  /\ UNCHANGED <<msgs, last, tools, system, retried, summary, images, wire, resumes>>

(* The answer is corrected: one off its schema, a cut-off one, one before  *)
(* the reads it must rest on.                                              *)
Correct ==
  /\ pc = "answered"
  /\ msgs' = AppendUserText(msgs)
  /\ retried' \in {TRUE, FALSE, retried}
  /\ IF summary THEN Ends(None) ELSE pc' = "step" /\ UNCHANGED stop
  /\ UNCHANGED <<last, tools, system, summary, images, wire, resumes>>

Next ==
  \/ Resume \/ (\E now \in ToolSets : Run(now))
  \/ Summarise \/ Compact \/ ElideResult \/ ElideInput \/ ContextStop \/ Send
  \/ ReplyCalls \/ ReplyAnswers \/ RequestFails
  \/ Dispatch \/ Finish \/ Correct

Spec == Init /\ [][Next]_vars

-----------------------------------------------------------------------------
(* Every variable has its type, only an assistant turn holds thinking, and *)
(* the roles alternate, as the vendors require.                            *)
TypeOK ==
  /\ pc \in {"idle", "step", "compact", "request", "answered", "dispatch"}
  /\ Alternates(msgs)
  /\ last \in Measure(msgs)
  /\ tools \in ToolSets \cup {None} /\ system \in Sendable
  /\ images \in ImageInputs /\ retried \in BOOLEAN /\ summary \in BOOLEAN
  /\ stop \in {None, "context", "error", "done", "max_turns"}
  /\ resumes \in 0 .. MaxResumes

(***************************************************************************)
(* Thinking is sent only after the messages it was made after: what        *)
(* compaction, redaction and an older file changed takes with it every     *)
(* block it made stale.  A vendor answers a stale one with a 400.          *)
(***************************************************************************)
Sent == IF pc = "request" THEN msgs ELSE << >>

MessagesStand ==
  \A i \in 1 .. Len(Sent) :
    Sent[i].think # None => Sent[i].think.msgs = SubSeq(wire.msgs, 1, i - 1)

(***************************************************************************)
(* Thinking is sent only with the tools it was made with: "signed thinking *)
(* binds to the tools array" (loop.py:806).                                *)
(***************************************************************************)
ToolsStand ==
  \A i \in 1 .. Len(Sent) : Sent[i].think # None => Sent[i].think.tools = wire.tools

(***************************************************************************)
(* Thinking is sent only after the system prompt it was made after: "a     *)
(* resume that changes the system prompt changes the prefix signed         *)
(* thinking was made against" (session.py:55).                             *)
(***************************************************************************)
PromptStands ==
  \A i \in 1 .. Len(Sent) : Sent[i].think # None => Sent[i].think.system = wire.system

(***************************************************************************)
(* No request carries thinking the vendor would refuse.                    *)
(***************************************************************************)
ThinkingIsFresh == MessagesStand /\ ToolsStand /\ PromptStands

(***************************************************************************)
(* A run stops for its context only when compaction has nothing left to    *)
(* take: the window is full of what it may not touch.                      *)
(***************************************************************************)
StopIsHonest ==
  stop = "context" /\ pc = "idle" => OldResults(msgs, images) = {} /\ OldInputs(msgs) = {}

(***************************************************************************)
(* Once a request was measured, no request is sent that the window does    *)
(* not hold: the estimate follows what is appended, elided, dropped,       *)
(* redacted and resumed since.                                             *)
(***************************************************************************)
RequestsFit ==
  pc = "request" /\ last.tokens > 0 /\ last.images = images
    => Size(msgs, images) + Overhead < Window
=============================================================================
