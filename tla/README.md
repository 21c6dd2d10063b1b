# nare in TLA+

nare runs a coding agent: it sends a transcript to a model, keeps the reply, runs
the tool calls the reply makes, and goes on until the model's answer, a limit or
the caller ends the run.  This directory models the parts of it whose order of
events decides whether a run is correct, checks them with TLC on small instances,
and proves the properties that matter most with TLAPS for every value of the
constants.  File names below are relative to `src/src/nare/`, the program's
package.

## The system

| component | state it keeps | operations | hard part |
|---|---|---|---|
| run loop (`loop.py`) | the invocation: schema, limits, counters, summary flag | start, discover, head of the loop, request and retries, reply, dispatch, step end | every await can be a stop; ten outcomes overwrite one another |
| transcript (`session.py`) | `messages` | append a text, append a reply, answer its calls, repair on reopen | a vendor rejects a call without its answer and two user turns in a row, for ever after |
| correction budget (`corrections.py`) | `schema_*` of the session | `charge` | free corrections must not go on for ever |
| contract (`contract.py`) | none | the table of status and stop reason | a caller branches on it |
| session file (`session.py`, `cli.py`) | the JSON file | save, load, reopen | crash between saves, failed write, a reader meanwhile; redaction changes what a resume sends |
| attach watcher (`tui/attach.py`) | stamp, size, problem | poll | stat and read are two steps |
| live step (`loop.py`, `events.py`) | a queue of deltas, a waiter, a step task | put, drain, cancel | events lost, out of order or after a retry; a step left running |
| transports (`transport/`, `repetition.py`) | a stream being read | build a request, read a stream, judge a loop or a failure | the last words, the end marker, a loop and a lost connection in any order |
| compaction (`compact.py`) | `elided`, dropped thinking, the last measure | estimate, elide before a request | signed thinking goes stale; the estimate must follow every edit |
| MCP connections (`mcp.py`) | sessions, exit stacks | connect, call with a deadline, close | a deadline races an outer cancel |
| MCP authorization (`mcp_auth.py`) | token file shared by processes, its lock | refresh, login, logout | rotation of a token two processes hold |
| bash process groups (`tools.py`, `caller_tools.py`) | groups left running | spawn, time out, report, stop | a cancel during the spawn; the number of a group that is gone |
| pages (`tools.py`) | none: a cursor the model holds | list, glob, search | the tree changes between two pages |
| command line (`cli.py`) | stop reason, last saved state | signals, deadline, saves, result line | a stop during anything |
| terminal interface (`tui/`) | the run's task, typed texts, approvals | submit, interrupt, approve, fork, group offer, quit | messages and tasks in every order |
| required reads (`reads.py`) | none | what an answer still has to read | read against the transcript |
| other tools, policy, schema, sandbox, bash rules, accounting | files | sequential functions | little order to get wrong |

How they interact:

* `run()` (loop.py) is an async generator.  It enters the MCP servers (`connect`),
  runs `_run`, and leaves them again.  `_run` loops: head, `step()`, events out.
  A streaming transport puts `_live_step` between the two: the step is then a task
  of its own, and every event it causes is an await of the run.
* `step()` asks the transport, appends the reply to the transcript, and either
  dispatches its calls (tools, caller tools, MCP servers, all through
  `tools.dispatch`) or decides on the answer with the correction budget and the
  required reads.
* The host is the command line (`_execute`), a library caller, or the terminal
  interface.  It consumes events, saves the session between two of them, and
  stops the run by cancelling the task that consumes it.
* The session file is the only state that outlives a process.  A resume loads it
  and calls `reopen`.  The attach watcher reads it while another process writes.
* The MCP token file is shared by every process of the user, under a lock file.

What makes each component correct:

* run loop: the transcript it leaves is one a vendor accepts; it ends; its limits
  hold; the pair it reports is in the contract and is earned; a stop at any await
  leaves all of that true.
* correction budget: bounded whatever the model replies.
* session file: never torn; never promises what was not written; a kill loses at
  most the turn under way; a resume never sends open calls.
* watcher: shows the file's last state, or that it cannot.
* live step: words in order, none lost, none twice, none of an abandoned attempt
  after its retry; no step left behind; nothing waits for the step to end.
* MCP authorization: a rotated token is not spent twice nor overwritten; a logout
  is not undone.
* process groups: every group a bash call started is killed, reported, or recorded; a
  stop takes its own run's groups and no others; a stop ends.  (A command tool is
  promised the last only, and not that where its own spawn is cancelled.)
* compaction and what is sent: no request holds thinking whose prefix has changed, none
  is larger than the window, and a run stops for its context only as a last resort.
* pages: what stays in the tree is on exactly one page.
* terminal interface: a typed text is sent once; no message cuts a run; an approval
  answers the call it was asked for, and grants only what was shown.

## Modules

| module | models | depends on |
|---|---|---|
| `Transcript` | `session.py`'s messages and their repairs, as operators | |
| `Corrections` | `corrections.charge` | |
| `AgentLoop` | `run`, `_run`, `step` and the stop, with `reopen` | Corrections, Transcript |
| `RunContract` | the abstract specification: what a caller may rely on | |
| `LiveStep` | `_live_step`, its queue, waiter and step task, over either rail's `stream_turn` | |
| `SessionFile` | saving, killing, resuming, watching | |
| `McpTokens` | `mcp_auth.py`: runs, a login and a logout on one token file | |
| `ProcessGroups` | bash's and caller tools' processes, and what both front ends do with those left | |
| `TuiDrive` | `tui/app.py` and its approver: texts, runs, stops, prompts, forks | |
| `Elision` | `compact.py`, the estimate, and every edit that makes thinking stale | |
| `Pages` | the pages of `list` and `search` | |
| `MCAgentLoop`, `MCSessionFile`, `MCTuiDrive`, `MCElision`, `MCPages` | the instances TLC checks | the module named |
| `AgentLoopProofs`, `LiveStepProofs`, `McpTokensProofs`, `SessionFileProofs`, `ProcessGroupsProofs`, `TuiDriveProofs`, `ElisionProofs`, `PagesProofs` | theorems | the module named, TLAPS |

Operators under a comment `(* Faulty: ... *)` are not used by the
specifications: each is a variant of the definition after it with a plausible bug,
kept to show that a property would notice.

### AgentLoop

Everything between two awaits of `_run` and `step` is one action, because nothing
else runs in between; `phase` says at which await, or which branch point, the
invocation stands.  An action is a whole branch of the handler: `ReplyAnswers`,
for instance, is everything `step` does with a reply without calls in a schema
run, down to the correction or the hold it appends.  The correspondence:

| action | code |
|---|---|
| `Start`, `Connect` | `run` to the end of `connect`'s entry |
| `Discover`, `DiscoveryFails` | `_run` to the `while`: window and prices, `state_schema` |
| `AtHead` | the head of the `while`: typed texts, the turn limit, the warning, the budget |
| `RequestRetried`, `RequestFails` | `_with_retries`, `_run`'s handler |
| `ReplyCutOff`, `ReplyWithoutAnswer`, `ReplyInText`, `ReplySummarises`, `ReplyAnswers`, `CheckRaises`, `ReplyCallsRefused`, `ReplyCalls` | `step` after the reply, one action a branch |
| `AskRefused`, `CallCapped`, `CallStarts`, `CallReturns`, `CallsDone` | the dispatch of a reply's calls |
| `StepEnds` | `_run` after the step: budget, cap, summary |
| `Close`, `Unwind` | leaving `connect`, normally or cancelled |
| `Stop` | the cancellation by `_Stop` at an await, with the answers the dispatch gives as it unwinds |
| `Reopen` | `session.reopen` |

Data is kept to what the branches test: a reply is its stop reason, its calls, what
its text is (none, thinking, prose, a question, a document), how many errors the
document makes and whether it cites unread files.  A user turn is its answers.
`NewSession` and `OldSession` are the two sessions a process may begin with, the second
from a file whose schema was stated before its digest was recorded.  The tools that a
constrained turn withholds are left to `Elision`.  The head's second budget check is folded into one
action with the head: `StepEnds` has already ended a run whose budget is spent, so
only a budget changed from outside could make the two differ.

### LiveStep

`step` is the step task as `_live_step` sees it.  While it is `asking`, a transport reads
a stream: `Receive` is one delta, through `LiveText.feed` and the watch that tests the
text so far for a loop now and then; `StopsReading`, `EndsInALoop`, `Completes` and the
failures are the ways `stream_turn` ends, in the order in which its code looks at them.
The two rails differ in what they do with the reasoning of a loop and in which failures
they call transient (`Repeated`, `Degenerate`, `Transient`).  `Retry` and `GivesUp` are
`_with_retries`, with the event it puts; `Calls`, `Return`, `Raise` and `Unwound` the rest
of the step, which only has to end, or not.

`Get` is the waiter task's turn; `Look`, `Wait`, `Wake`, `Dropped`, `Flush`, `LookLast`,
`End` the generator between two of its awaits; `Close` and `Closed` its `finally`.
`asyncio.Queue` is modelled from how it is used: a put wakes a waiter, which takes its
item at its own next turn.

`fed` is every word the step was sent, `heard` those of the stream it reads, and `Said` is
what a list of events says of a kind, in all or since the last retry.  `ReplyIsShown`
compares what a caller was shown since the last retry with the reply the session keeps.
It is about every order in which words are held back, a loop is seen by the watch or by
the last look, the marker comes or not, and an attempt is given up.

### SessionFile

A process is `_execute`: `Emit` is one event written to the caller and the save that
may follow it, `Create`, `Fill` and `Rename` are `save`, `SaveFails` an `OSError` in
any of them, `EmitFails` a closed pipe, `Stop` a deadline or a signal, `Kill` the end
of the process between any two steps, `Begin` a new session or a resume of whatever
the path holds.  The run itself is reduced to what a save can tell: turns, whether
calls are open, and the status; `AgentLoop` has the rest.  An event line that fails
while the stopped run is reported is, for the file, a kill at `report`.  The watcher
(`Look`, `Draw` and their failures) is `Watcher.poll` cut in two at the point where
the file may change.  The stamp it compares is the `mtime_ns` and the size of the file
(`attach.py:61`), given by `Fill`: a clock too coarse to tick between two fills of one
size gives both files one stamp, and the ghost `twins` says that it did.

### McpTokens

The processes of one user that share the token file of one MCP server: runs, each
with an httpx client whose requests pass through `_auth_flow`, `nare mcp login` and
`nare mcp logout`.  The authorization server and the SDK's flow are not under `src/`;
they are modelled from how `_auth_flow` drives them: the server grants one refresh a
token, to the client it was issued to, and the SDK refreshes a token it
finds stale before it sends the request, and begins a full authorization
at a 401, which a headless run refuses in `present`.

| action | code |
|---|---|
| `Start` | `build_provider` without an authorizer |
| `Request` | the flow's first step, with `_initialize` when the last refresh was refused |
| `Acquire`, `LockBusy` | `_auth_flow` before a refresh: the lock, `reload`, spend or adopt |
| `Exchange`, `ExchangeFails`, `ReplyLost` | the refresh at the server, and a request or an answer that is lost |
| `Stored`, `Refused` | the answer: `set_tokens`, or the SDK's `clear_tokens` |
| `Answered`, `Denied`, `GiveUp` | the MCP request itself, its 401 (which gives the lock back), `present` |
| `Share`, `ShareWrites` | `set_metadata` and `_save_shared` after any answer and before what the flow does with it, its look at the file and its write as two steps |
| `LoginStart` ... `LoginStores`, `LoginAbandoned` | `login`: `reset`, `set_metadata`, `set_client_info`, the code, `set_tokens` |
| `LogoutLocks`, `LogoutRevokes`, `LogoutRemoves` | `logout`, under the lock |
| `Kill` | a process ends |

`tokens` in memory are kept twice in the code, by the SDK's context (`token`, `client`)
and by the `TokenFile` (`kept`), and twice here: an adoption changes the first without
its client.  A login writes its tokens without the lock, as the code does; its save of
the metadata or of its client is one step, as it needs the lock free and nobody else
writes then but another login.

No clock is modelled.  A token has a lifetime, and what a run sees of its end is a choice:
at any request it may find the token it sends stale (`Request`, `Acquire`).  `_initialize`
and an adoption take 30 s off the expiry (`mcp_auth.py:709-714`, `743-744`), so a request
with a token from the file is never late, if the request takes less than that.  The SDK
takes nothing off a token this run refreshed itself (`own`): the server may deny it at the
boundary (`Denies`).  A token that came without `expires_in` (`:382-384`) would never be
found stale and be denied at its end; it is idealised as having one.

### ProcessGroups

A group is a number with the processes that run under it; the machine (`Forks`, `Exits`,
`Taken`) may fork, exit, and give a number that is free to another program.

| action | code |
|---|---|
| `CallStarts`, `Popen`, `Connects`, `SpawnFails`, `Started` | `_run_shell` and `_command_call` up to a running process; asyncio forks before it connects the pipes |
| `Said`, `TimesOut` | `communicate` under the timeout, and its handler |
| `Asks`, `AsksAgain`, `LeftRunning` | `_lingers`, then `bash_outcome` and the record `step` makes |
| `CancelledSpawn` ... `CancelledRest`, `Reaps`, `GivesUp`, `Waited` | a cancel at each await: bash's shielded spawn waited for, or given up after `_SPAWN_WAIT`; the kill; the wait |
| `CancelledCommand`, `CleansUp` | a cancel of a command tool's bare spawn (`caller_tools.py:156`): asyncio kills the leader and waits for the pipes, for good while they are not connected or a child holds them (`HeldUp`) |
| `Opens`, `RunStarts`, `Stop` | a process, a run of the session, and what stops it |
| `HeadlessStops`, `HeadlessEnds` | `_stopped` and the end of `_execute` |
| `TuiEnds`, `TuiStops`, `Answered` | the end of `_drive`, `_live_groups`, the screen at a turn's end |
| `Quit`, `QuitAsks`, `QuitAnswered` | Ctrl-Q and its own screen |

`escaped` is the ghost of a spawn that never handed its process over, which `tools.py`
itself gives up on.  The number of the group of a call under way is idealised as not
reused, though its leader may be reaped just before the kill.  `stop_group` may be refused for a group that another user took.

### TuiDrive

Textual hands the app one message at a time (`pump`) and runs each worker as a task.  A
message is handled whole, because no handler here awaits anything but the quit.  A worker
stands at `new` (not yet scheduled), `run`, `ask` (a prompt is up), `stop` (cancelled, not
yet resumed), `unwind`, `off`, `never` (cancelled before it ran), or `gone` (ended, and
the app has another).

| action | code |
|---|---|
| `Types`, `Enters`, `TypesFork`, `PressesStop`, `PressesQuit`, `Answers` | the person's keys, as messages |
| `HandlesText`, `Submit` | `on_input_submitted`, `_submit` |
| `HandlesFollowUp` | `_send_follow_up` |
| `HandlesFork` | `/fork`: `_fork_to` |
| `HandlesStop`, `HandlesQuit`, `Exits` | `action_copy_or_interrupt`, `action_interrupt`, `action_quit`, `main` |
| `HandlesAnswer`, `Asks`, `Answered` | the prompt's future in `_ask` |
| `CallsUnasked`, `Unasked`, `Scope`, `Grants` | `Approver.__call__`, `_unasked`, `_approved`, `scope` |
| `WorkerStarts`, `TakesQueued`, `Ends`, `Feels`, `Interrupted` | `_drive` and its `finally` |

A bash line is the set of its commands, each the program `a` would approve, whether it
only reads, and whether its words are what they look like; whether the line has a risk or
a glob is an input.  The lexing that decides these is a function of text and left out.

### Elision

A message keeps what these parts tell apart: its text's size, the request its thinking
was signed against, the call, and the size, secrets and form of what the call holds or
returns.  Thinking carries the whole request it was made in (tools, system prompt,
messages as sent), so whether it is stale is a comparison and no bookkeeping.

The code estimates a token as four characters of JSON (`compact.py:58-60`); the model's
vendor counts just so, and a request holds `Overhead` tokens besides.  `RequestsFit` is
thus about the bookkeeping of the estimate, through every edit since the measure, and
says nothing of how good a tokenizer four characters are.

| action | code |
|---|---|
| `Resume` | `loads` of what `dumps` wrote, or of an older file, with `adopt_system` |
| `Run` | the head of `_run`: `prefix_changes`, the record of the tools |
| `Compact`, `ElideResult`, `ElideInput`, `Compacted` | `compact` and `_elide_inputs`, one block a step |
| `Summarise` | the turn limit: a summary is asked for, and the run ends after it (`Ends`) |
| `ContextStop`, `Send` | `step` up to the request, a constrained turn's tools withheld, a summary's kept (`Offered`) |
| `ReplyCalls`, `ReplyAnswers`, `RequestFails` | `step` after it, with the measure |
| `Dispatch`, `Finish`, `Correct` | the rest of the step; a summary's calls are refused |

### Pages

nare keeps nothing between two pages.  `NextPage` is a call, from the cursor's position
to the next cursor: the walk of the tree that skips what is `Done`, and `Paginate`.
`Changes` adds, removes or replaces an entry between two pages, a file where a directory
was included.

## Runs

| run | question | bounds, and why they are enough |
|---|---|---|
| `loop` | free-text runs: what do asks, calls, caps, cut-offs, nudges, retries, budgets, servers and stops leave behind, does every run end, and in a pair the contract lists? | two runs of two turns and the summary, one permitted call, one cut-off, one retry, two calls a reply: each limit is reached and passed, and two calls are the fewest that can differ; costs known and unknown, a token ceiling set, kept or never set, and a dollar ceiling always set |
| `loop_schema` | schema sessions resumed under the same, another or no schema, or kept in a file with no digest, with holds, corrections and the check callback | two schemas (interchangeable, so a symmetry), two runs of three turns, three errors and a budget of two, the least at which a correction can be free: a change, a return, one and two free corrections, a budget spent, a hold after a correction and an answer all occur |
| `live_step` | are the words of a streamed step shown, all of them, in order, in time, and are they the reply? | two words of each kind and one retry, on either rail: a word held back, one queued and one with the waiter at once, and an attempt given up with each |
| `file` | can anybody find a torn file, what does a result promise, what does a resume send, and does the watcher end up right? | two settings: two processes, one turn, one failure and a watcher; or one path saved by three processes in turn, three turns and two failures: a resume of a resume, and a failed save followed by a failed one; a tick the clock misses counts as a failure |
| `tokens` | is a rotated token ever spent twice, a logout undone, an authorization or the lock lost? | two runs, two logins, three tokens, and one logout, kill or lost answer: both runs can refresh, each adopt the other's token, and a login come between |
| `groups` | is a group lost, does a stop take what is its own and nothing else, does it end? | two numbers, two runs of two calls, either front end: a group of an earlier run beside one of this run, and a number taken again |
| `tui` | is a text lost or sent twice, a run cut, a call run that nobody let through? | up to four texts and three calls, four of them together, one fork, three messages at once: one text with the run, one on its way as a follow-up, one in the box, and a run started beside an interrupted one; a grant, a call it covers and one it does not |
| `elision` | is a request ever refused for stale thinking, or too large, or a run stopped too early? | a window of 14 tokens against results of 4, eight messages, one resume, two tool sets and two prompts (each a symmetry), a summary at any turn, and files of an older nare: several elisions before and after a resume |
| `pages` | does a walk show what stays exactly once, whatever changes? | five paths, two lines, pages of one or two, three changes: a change before, at and after the cursor, a file that takes a directory's place |
| `stop_is_reported`, `tools_withheld`, `prompt_redacted` | three statements of the documentation and the comments that the code does not keep | the smallest instance that shows it |

The runs turn the deadlock check off, because a session, a step, a walk and a history of
processes may all really be over.

### Fairness

* `AgentLoop!FairSpec` asks weak fairness of `Loop` only.  The loop is one task of an
  event loop, and each await it makes ends: the request by the client's timeout, a
  command by its own, an MCP call by its deadline, a command tool by its timeout.  A
  Python callable a library caller registers has no timeout; the run then ends when
  the callable does.  Nor has the spawn of a command tool that a stop cancels, which
  `ProcessGroups` is about.  Nobody is assumed to start, reopen or stop a run.
* `LiveStep!FairSpec` asks it of the waiter, the generator, the run that asks for the
  next event, and the join of a closed generator, and not of the step: what is said
  is shown though the step never ends.
* `SessionFile!FairSpec` asks it of the watcher's poll, a timer.  No process is
  assumed to go on, so `ViewCatchesUp` also holds when one dies mid-save.
* `McpTokens!FairSpec` asks it of whoever holds the lock (`HolderProceeds`): a run that has
  begun a request, which has a timeout, or a logout, whose request has one.  The lock is
  an flock: the end of a process releases it.
* `ProcessGroups!FairSpec` asks it of `Unwinding`, what a cancelled call has left to do,
  and of `Settling`, what the host does next.  Each wait of the first has a deadline or is
  for a process already killed, but for one: the cleanup of a command tool's cancelled
  spawn (`caller_tools.py:156`), which `CleansUp` takes only once nothing holds it up, and
  which `StopEnds` excepts.  Nothing is assumed of a spawn, a command, or a person.
* `TuiDrive!FairSpec` asks it of the app, which handles each message, and of each worker
  that waits for nobody.  A person may never answer a prompt: `NothingWaits` excepts that.

### What the violations say

* `stop_is_reported`: `docs/contract.md` says a deadline or a signal is reported as
  `timeout` or `interrupted`.  When an MCP server fails to close while the stop
  unwinds, the result says `mcp`.
* `tools_withheld`: `loop.py` says signed thinking binds to the tools array, and keeps the
  tools in the summary turn for that reason.  A constrained correction turn sends the same
  thinking without tools.
* `prompt_redacted`: `session.py` says a resume that changes the system prompt cannot send
  the signed thinking again.  The file records the prompt redacted, and a resume without a
  system option sends it so, with the thinking made under the whole one.

### Other departures met

Small disagreements between the code and its comments, seen while modelling and kept in
the models, without a run of their own:

* `session.py:330` says a transcript with open calls is never saved mid-run.  When the
  caller's pipe closes during a streamed dispatch, the final save (`cli.py:1046`) writes
  one.  `RequestsAreAnswered` shows that a resume repairs it.
* `tui/attach.py:56-57` says a problem clears once the file can be read again.  A read
  that fails after a stat that succeeded leaves the stamp (`:64`), so the problem stays
  until the next save.  `ViewCatchesUp` says just that much.
* `tools.py:681-684` and `:690-695` say why bash's spawn is shielded and waited for with a
  deadline: cancelled, asyncio's cleanup hangs on the pipes a child holds.  The spawn of a
  command tool (`caller_tools.py:156`) is awaited bare.  `StopEnds` excepts it (`HeldUp`).
* Two writes that leave the file one `mtime_ns` and one size have one stamp, and the
  watcher does not draw the second (`tui/attach.py:61`).  `ViewCatchesUp` excepts `twins`.
* `mcp_auth.py:66-68` says the token lock is held for a token exchange or a logout.  A run
  that adopts another's tokens keeps it (`:706-734`) while its MCP request is answered.
* `tui/app.py:653-654` says of texts an interrupt puts back that they can be edited or
  sent.  A line entered before the interrupt and handled after it empties the box
  (`:497`, `:503`, `:611`); `TextsAreKept` counts such texts as `wiped`.
* A worker cancelled before it began (a message right after another) never runs its
  `finally`, so the file says `working` and what it was to run waits for the next message.
  `NothingWaits` excepts it.
* `tui/app.py:572-573` keeps a second run from cancelling the first.  A stop pressed after an
  Enter, as the run ends with a text queued, lets the follow-up start a run beside the
  interrupted one.  When that one has unwound it shows `interrupted`, and the next text
  cuts the run at work.  `NoRunIsCut` excepts just that.
* `tui/app.py:804-807` offers the groups it found alive; one that exits meanwhile is still
  on the screen, and `k` signals its number (`:832`).
* A resume without `--image-input` leaves the images out of the requests, and the signed
  thinking made after them is sent (`session.py:67-75` says a block is valid only while
  all before it is unchanged).  `elision` gives every process the same setting.
* A looping reply whose connection is lost with a network error, not just closed, is
  resent, where `transport/anthropic.py:658-659` and `openai.py:493-494` say it would loop
  the same way.

## Proofs

TLAPS checks these for every value of the constants the modules' assumptions allow:
`LoopAssumption`, `NoneAssumption` and `MaxErrorsAssumption` (loop), `LiveStepAssumption`,
`SettingsAssumption` and `DocAssumption` (session file), `McpTokensAssumption`,
`GroupsAssumption`, `DriveAssumption`, `PagesAssumption`, and `PrefixAssumption`,
`StopAssumption`, `SizeAssumption`, `CallsAssumption`, `PromptsAssumption` and
`OldFilesAssumption` (elision).  Most only give a constant its type, or say that `None` is no
value of it.  `OldFilesAssumption` says what a file of an older nare holds: turns that
alternate, a measure that is of a request, and thinking made with the file's own tools and
prompt, which was not yet made stale by a block elided before it.  The bounds of an
exploration, as `MaxRuns`, are constants too, so they are no restriction.  TLC evaluates
each assumption on the run of its module.

**Loop** (`AgentLoopProofs`)

* `TypeCorrect`: `TypeOK`.  Not inductive alone, because the dispatch reads the last
  message: `WellTyped` adds that the transcript is never empty.  One lemma for each group of
  actions.
* `CallsAreAnswered`, `UserTurnsAreMerged`: from `TranscriptInv`, which says what the
  transcript looks like at each phase: well-formed when no reply is being dispatched, and
  otherwise well-formed up to a last reply with calls, no more answers than calls.
* `CorrectionsAreBounded`: `WithinBudget` is inductive given the types; the lemma
  `ChargeKeepsBudget` is about `charge` alone: a free correction takes at least one
  error off the fewest seen, so the free ones and the fewest sum to at most
  `MaxErrors`.
* `LimitsAlwaysHold`: from `LimitsInv`, which says at which phases a counter has
  reached its limit and at which it still has room: a step under way leaves a turn to
  take, a cap refused at most once, a cut-off budget not yet overdrawn.
* `LoopKeepsContract`: the refinement of `RunContract`.  `OutcomeInv` says at which phases
  an outcome has been decided and that it is one the table lists; with `LimitsInv` for the
  turns, the step that comes to rest is the abstract `Finish`, a step that takes a turn is
  `Turn`, and every other a stutter.
* `DoneIsAlwaysEarned`, `OutputIsAlwaysCurrent`: from `EarnedInv`.  While a step runs, the
  schema stated is the invocation's own; from the action that decides on `done` the five
  conditions hold, and nothing between it and the rest takes them back.  That an answer to
  a call stays an answer while the transcript grows are the lemmas `HeadKeeps` and
  `CallsKeep`.
* `AsksAlwaysEndTheRun`: from `AsksInv`.  In a dispatch an answer is `recorded` only if all
  calls of the reply are asks, and then none of them ran; the transcript before the
  invocation (`inv.at`) is not looked at.

**Live step** (`LiveStepProofs`)

* `TypeCorrect`: `WellTyped` adds `PlacesInv`, what the place of the generator tells of the
  waiter, the step and the words held back.
* `WordsStayInOrder`: from `SaidInv`.  While nobody has closed the generator, what the events
  put so far say (those shown, the one with the waiter, those queued: `Stream`), followed by
  the words held back, is what was sent, and since the last retry what was heard.  What is
  shown is then a beginning of it, and a closed generator shows nothing more.
* `ShownReplyIsKept`: with `ReplyInv`, the reply of a step that has one is what was heard, as
  far as the rail keeps it.  At the end the queue is empty and nothing is held back.
* What a list of events says is a recursive function; `SaidAppend` and `SaidGrows` say how it
  grows, for every list, by an induction obtained from the pigeonhole principle of finite
  sets (`NatIsInductive`), as the library's induction theorems take an operator the provers
  cannot instantiate.  `ElisionProofs`, `PagesProofs` and `ProcessGroupsProofs` do the same.
* `NoStepIsEverLeft`: from `JoinInv`: the generator looks at its queue for the last time only
  when the step is over, and a step over stays over.

**MCP authorization** (`McpTokensProofs`)

* `TypeCorrect`: from `WellTyped`, which adds that no token is held that was not issued, that
  the lock says where a login and a logout stand, and that only a refresh under way has a
  reply.
* `LogoutsStay`: `GoneInv` adds that nobody is about to store a removed token.  It is
  kept by a removal because whoever is about to store one holds the lock, or is a login
  with a token of its own.
* `TokensAreSpentOnce`: `SpentInv` says the token on disk is unspent, or its answer lost,
  or revoked, or spent by the one refresh still under the lock; that whoever stores a
  token stores such a one; and that nobody yet holds the token a login is about to
  store.  `RunsTurn`, `SavesTurn` and `LoginTurns` say once what each action makes of its
  process, for all three invariants.
* `AuthorizationsAreKept`, which excepts a run whose own refreshed token is denied at the
  end of its life: from `KeptInv`, which says of the time without an upset that the
  refresh of the token on disk is granted to the client beside it, unless a run holds the
  answer to one; that every run has that client and some token; and that a run which is
  refreshing refreshes the token on disk.  The last is why the lock and the reload under it
  suffice: a refusal, which would clear the file, needs a token that is not the file's.

**Session file** (`SessionFileProofs`)

* `TypeCorrect`, `FileStaysWhole`, `FinishedStaysKept`, `RequestsStayAnswered`: from
  `SaveInv`, which says of each process that the temporary file it is about to rename is its
  whole session, that only a dispatch has open calls and a save on the way of a run never
  does, that the last save is of a run that is over or raised, and that whoever is about to
  report a finished run has just written it.  A process's step changes its own entries only,
  so the others' parts stay (`Mine`).

**Process groups** (`ProcessGroupsProofs`)

* `TypeCorrect`, `GroupsAreNeverLost`, `StopsLeaveNothing`, `EarlierStaysAlone`: from
  `GroupsInv`.  Whatever runs is recorded, escaped, or the group of a call that still answers
  for it; in a headless run the groups reported are the run's own and all it left; a number
  still in use is not given away, which is why a stop cannot take an earlier group of the
  same number.  The records are filtered by the recursive function `Without`, and what it
  returns is proved for every list.

**Terminal interface** (`TuiDriveProofs`)

* `DriveIsTyped`, `TextsStayKept`, `ConsentIsGiven`, `RunsAreNotCut`: from `DriveInv`.  At
  most one worker serves, the last, not stopped and on the session shown (`LastServes`): why
  nothing queued is given to another session, and why a follow-up that finds no turn running
  cuts none.  A run at work shows as busy unless one unwound beside it (`StateShows`).  One
  Enter and one `/fork` are on their way, and the follow-ups carry different texts.  The
  prompt, what was said to it, an answer on its way and an answer taken are all of the call
  that waits (`AsksAreKnown`, `AnswersWereGiven`), and each grant was shown and answered `a`
  (`GrantsWereShown`).

**Elision** (`ElisionProofs`)

* `TypeCorrect`: `WellTyped` adds that the turns alternate from the first (`Turns`), that a
  session past its first run has tools, and that what is on the wire is the request of the
  history as it stands.
* `RequestsAlwaysFit`: from `SentFits`, that a request is made only when the estimate says it
  fits, and `MeasuredWell`, that the tokens measured are the characters measured with them
  and the overhead.  `SizeSplits` says that the size of a history is that of its measured
  part and of the rest, wherever it is cut; so the estimate, which corrects the tokens by
  what has changed since in either part, is exact (`EstimateIs`).
* `StopsAreHonest`: the limit a run stops at is above the one compaction begins at and the
  one it ends at, and compaction ends above its own only with nothing left to elide.
* `MessagesAlwaysStand`, `ToolsAlwaysStand`, `PromptsAlwaysStand` and, of all three,
  `ThinkingStaysFresh`: from `ThinkingInv`.  Each edit keeps thinking only before the first
  message it changes, so what stays was made after the very messages that stand there
  (`Fresh`); a prefix of tools or prompt that changes drops it all.  Each has a hypothesis:
  one image setting for all runs of a session (`OneImageInput`), no constrained turn
  (`~ Structured`), no secret in a prompt (`PromptsArePlain`).  They are just the settings
  under which the code does send stale thinking: `tools_withheld` and `prompt_redacted` are
  the violations, and the image setting is among the departures above.  `elision` explores
  the settings that meet the hypotheses.

**Pages** (`PagesProofs`)

* `WhatStaysIsOnOnePage`: from `PagesInv`, which says that a walk under way has shown nothing
  past its cursor.  The order of the records is a strict total one (`Less`, `Precedes`), a
  page is an initial segment of the records after the cursor, and a segment of that length
  exists in every finite tree.  So a record that stays is not skipped while it is ahead of
  the cursor, and not shown again once it is behind.

Only model-checked: the liveness properties (`Terminates`, `ShownMeanwhile`, `ViewCatchesUp`,
`LockIsReleased`, `StopEnds`, `NothingWaits`), which are beyond TLAPS.  The three violated
statements are what no theorem could say; two of them hold under the hypotheses above.

## Plan

In order of what matters, with what is done marked:

1. `Transcript`, `Corrections`, `AgentLoop`, `RunContract`: done.
2. Types, safety and the refinement of the loop proved: done.
3. `SessionFile` with the watcher: done, and its safety proved.
4. `LiveStep`, with the streams of both rails: done, and its safety proved.
5. `McpTokens`: done, and its safety proved.
6. `ProcessGroups`, the command tools beside bash: done, and its safety proved.
7. `TuiDrive`: done, and its safety proved.
8. `Elision`: done, and its safety proved.
9. `Pages`: done, and its safety proved.

Left, in the same order: `_bounded` of `mcp.py`, a deadline against an outer cancel
(`mcp.py:163`); the one-shot listener of a login (`mcp_auth.py:757`); the pure parts
against a reference, `schema.py`'s validator and `bash_rules.py`.

Every safety property a run checks is a theorem.  Further theorems would be about what no
run asks yet: that a corrected or resumed session is one a vendor accepts in `Elision` and
`AgentLoop` at once, and the parts above once they are modelled.

## Not modelled

* Text: redaction patterns, formatting, help, rendering, prompts, JSON layout, the lexing
  of a bash line, the choice of what a stream shows and holds back.
* Tools as functions of files, but for the pages; a call is answered ok or with an error.
  A change of the tree in the middle of one page is left out, and so is what becomes of a
  search whose top is a file that goes or turns into a directory (one that stays is a
  directory of one file).  A line of a file is known by its number: lines that move are
  other records.
* Vendor formats: a request is sent, a reply, a stream or a failure comes.
* Of `SessionFile`: what only the guard on a save mid-run keeps (`cli.py:1028`).  A resume
  repairs open calls (`Reopened`), so `RequestsAreAnswered` is about that repair.
* Of `McpTokens`: tokens with no lifetime, and a request that outlasts the 30 s.
* Of `ProcessGroups`: the output of a command and its cap, zombies, setsid, and the groups
  a `/fork` gives up.
* Of `Elision`: thinking without a signature and empty text, which are saved and not sent;
  more than one call in a turn, as every pass takes the blocks one by one; one of an
  edit's two texts elided without the other; the change of
  overhead between tool sets; a file from before tools were recorded, which keeps its
  thinking whatever the tools are.
* Of `TuiDrive`: a person waits for an Enter or a `/fork` to take before typing on, so
  two texts are not on their way to the app at once; other keys may be pressed meanwhile.
* The deadline of one MCP request, and the loopback listener of a login.
* The sandbox profile and the bash rules: text in, text out.
* The picker: sequential, on a loaded copy.
* `benchmarks/`: tooling that runs nare from outside.
