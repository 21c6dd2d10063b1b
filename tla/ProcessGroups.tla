---------------------------- MODULE ProcessGroups ---------------------------
(***************************************************************************)
(* The process groups that a run's commands start (tools.py,               *)
(* caller_tools.py): spawned, waited for, killed by a timeout or a stop,   *)
(* or left running and recorded in the session; and what `nare run' and    *)
(* the terminal interface do with the recorded ones.                       *)
(*                                                                         *)
(* A group is known by its number, which the machine gives to another      *)
(* program once nothing of the group runs.  Idealised: it gives none away  *)
(* while the call that has it goes on, though the leader may be reaped a   *)
(* fraction of a second before that call kills or asks after its group.    *)
(* Zombies and setsid are left out.                                        *)
(***************************************************************************)
EXTENDS Integers, Sequences

CONSTANTS
  None,
  Pgids,
  Tools,      (* what is called: bash, a caller's command                  *)
  Fronts,     (* who runs the session: headless, the terminal interface    *)
  Looks,      (* times _lingers asks                                       *)
  (* The bounds of an exploration.                                         *)
  MaxRuns,
  MaxCalls    (* of one run                                                *)

ASSUME GroupsAssumption ==
  /\ None \notin Pgids \cup {"bash", "command", "other"}
  /\ Tools \subseteq {"bash", "command"}
  /\ Fronts \subseteq {"headless", "tui"} /\ Fronts # {}
  /\ Looks \in Nat \ {0} /\ MaxRuns \in Nat /\ MaxCalls \in Nat

VARIABLES
  (* The machine.                                                          *)
  group,      (* what runs under each number                               *)
  (* The call in progress, and the task that spawns its command.           *)
  call, spawn,
  (* The session: the groups recorded, and how many when the run began.    *)
  recorded, from,
  (* The process that runs it.                                             *)
  life,       (* [pc, front, quits]                                        *)
  screens,    (* GroupsScreens, the last one on top                        *)
  left,       (* groups a person left at a turn end                        *)
  runs, calls,
  (* What happened.                                                        *)
  escaped     (* groups whose spawn never handed over a process            *)

callVars == <<call, spawn>>

lifeVars == <<recorded, from, life, screens, left, runs, calls>>

vars == <<group, callVars, lifeVars, escaped>>

Numbers(list) == {list[i] : i \in 1 .. Len(list)}

Group == [of      : {None, "other"} \cup Tools,
          run     : 0 .. MaxRuns,
          members : SUBSET {"leader", "child"},
          pipe    : BOOLEAN]         (* the child holds the output open    *)

NoGroup == [of |-> None, run |-> 0, members |-> {}, pipe |-> FALSE]

LeaderOf(of, run) == [of |-> of, run |-> run, members |-> {"leader"}, pipe |-> FALSE]

NoCall == [pc |-> "idle", tool |-> None, pgid |-> None, looks |-> 0]

-----------------------------------------------------------------------------
(***************************************************************************)
(* The machine.                                                            *)
(***************************************************************************)
Alive(g) == group[g].members # {}

Forked(h, pipe) == [h EXCEPT !.members = {"leader", "child"}, !.pipe = pipe]

Forks(g) ==
  /\ "leader" \in group[g].members /\ "child" \notin group[g].members
  /\ \E pipe \in BOOLEAN : group' = [group EXCEPT ![g] = Forked(@, pipe)]
  /\ UNCHANGED <<callVars, lifeVars, escaped>>

(* A group of which only `members' are left.                               *)
LeftOf(h, members) == [h EXCEPT !.members = members, !.pipe = @ /\ "child" \in members]

Exits(g) ==
  /\ \E m \in group[g].members :
       group' = [group EXCEPT ![g] = LeftOf(@, group[g].members \ {m})]
  /\ UNCHANGED <<callVars, lifeVars, escaped>>

(* Another program gets the number of a group that is gone, but for the    *)
(* one the call still uses (see above).                                    *)
Taken(g) ==
  /\ ~ Alive(g) /\ group[g].of # "other" /\ g # call.pgid
  /\ group' = [group EXCEPT ![g] = LeaderOf("other", 0)]
  /\ UNCHANGED <<callVars, lifeVars, escaped>>

(* What SIGKILL leaves of `gs'.                                            *)
Killed(gs) == [g \in Pgids |-> IF g \in gs THEN LeftOf(group[g], {}) ELSE group[g]]

-----------------------------------------------------------------------------
(***************************************************************************)
(* A call.  bash spawns in a task of its own, and the call waits for it    *)
(* behind a shield; a caller's command is spawned by the call itself.      *)
(***************************************************************************)
CallStarts(tool) ==
  /\ life.pc = "running" /\ call.pc = "idle" /\ calls < MaxCalls
  /\ calls' = calls + 1
  /\ call' = [NoCall EXCEPT !.pc = "spawn", !.tool = tool]
  /\ spawn' = "new"
  /\ UNCHANGED <<group, recorded, from, life, screens, left, runs, escaped>>

(* The process exists, and asyncio has not connected its pipes.            *)
Popen ==
  /\ spawn = "new"
  /\ spawn' = "connecting"
  /\ \E g \in Pgids :
       /\ ~ Alive(g)
       /\ group' = [group EXCEPT ![g] = LeaderOf(call.tool, runs)]
       /\ call' = [call EXCEPT !.pgid = g]
       /\ escaped' = escaped \ {g}
  /\ UNCHANGED lifeVars

Connects ==
  /\ spawn = "connecting"
  /\ spawn' = "up"
  /\ UNCHANGED <<group, call, lifeVars, escaped>>

(* A spawn that ends without a process to hand over.  asyncio's own        *)
(* cleanup kills the leader alone, and closes the pipes it has connected.  *)
Abandoned ==
  IF spawn \in {"connecting", "up"}
  THEN /\ group' = [group EXCEPT ![call.pgid] = LeftOf(@, @.members \ {"leader"})]
       /\ escaped' = escaped \cup {call.pgid}
  ELSE UNCHANGED <<group, escaped>>

SpawnFails ==
  /\ spawn \in {"new", "connecting"}
  /\ spawn' = "failed"
  /\ Abandoned
  /\ UNCHANGED <<call, lifeVars>>

Started ==
  /\ call.pc = "spawn" /\ spawn \in {"up", "failed"}
  /\ call' = IF spawn = "up" THEN [call EXCEPT !.pc = "talk"] ELSE NoCall
  /\ spawn' = "off"
  /\ UNCHANGED <<group, lifeVars, escaped>>

PipeHeld(g) == "child" \in group[g].members /\ group[g].pipe

(* communicate returns once the leader exited and the output is closed.    *)
Said ==
  /\ call.pc = "talk"
  /\ "leader" \notin group[call.pgid].members /\ ~ PipeHeld(call.pgid)
  /\ call' = IF call.tool = "bash" THEN [call EXCEPT !.pc = "probe"] ELSE NoCall
  /\ UNCHANGED <<group, spawn, lifeVars, escaped>>

TimesOut ==
  /\ call.pc = "talk"
  /\ group' = Killed({call.pgid})
  /\ call' = [call EXCEPT !.pc = "wait"]
  /\ UNCHANGED <<spawn, lifeVars, escaped>>

(* _lingers asks, and sleeps when the answer is yes.                       *)
Asks ==
  /\ call.pc = "probe"
  /\ call' = IF Alive(call.pgid)
             THEN [call EXCEPT !.pc = "sleep", !.looks = @ + 1]
             ELSE NoCall
  /\ UNCHANGED <<group, spawn, lifeVars, escaped>>

AsksAgain ==
  /\ call.pc = "sleep" /\ call.looks < Looks
  /\ call' = [call EXCEPT !.pc = "probe"]
  /\ UNCHANGED <<group, spawn, lifeVars, escaped>>

(* bash_outcome names the group, and dispatch tells step() to record it.   *)
LeftRunning ==
  /\ call.pc = "sleep" /\ call.looks = Looks
  /\ recorded' = Append(recorded, call.pgid)
  /\ call' = NoCall
  /\ UNCHANGED <<group, spawn, from, life, screens, left, runs, calls, escaped>>

(* The killed process was waited for.                                      *)
Waited ==
  /\ call.pc = "wait"
  /\ call' = NoCall
  /\ UNCHANGED <<group, spawn, lifeVars, escaped>>

(* Faulty: the probe is outside the handler that kills.                    *)
GuardedTalk == {"talk"}

(* Where a cancel kills the group of the call.                             *)
Guarded == {"talk", "probe", "sleep"}

(* A cancel, as the call feels it.  The process of a bash call is killed,  *)
(* and waited for.  A caller's command is killed too, but its spawn is     *)
(* awaited without a shield: a cancel there starts asyncio's own cleanup,  *)
(* which waits for the leader it killed, and, where the pipes were not     *)
(* connected yet, for those (Python 3.12).                                 *)
CancelledSpawn ==
  /\ call.pc = "spawn" /\ call.tool = "bash"
  /\ call' = [call EXCEPT !.pc = "reap"]
  /\ UNCHANGED <<group, spawn, escaped>>

CancelledCommand ==
  /\ call.pc = "spawn" /\ call.tool = "command"
  /\ call' = CASE spawn = "connecting"      -> [call EXCEPT !.pc = "cleanup"]
              [] spawn = "up"              -> [call EXCEPT !.pc = "wait"]
              [] spawn \in {"new", "failed"} -> NoCall
  /\ spawn' = IF spawn = "connecting" THEN spawn ELSE "off"
  /\ Abandoned

CancelledCall ==
  /\ call.pc \in {"talk", "probe", "sleep"}
  /\ group' = IF call.pc \in Guarded THEN Killed({call.pgid}) ELSE group
  /\ call' = IF call.tool = "bash" /\ call.pc \in Guarded
             THEN [call EXCEPT !.pc = "wait"]
             ELSE NoCall
  /\ UNCHANGED <<spawn, escaped>>

CancelledRest ==
  /\ call.pc \in {"idle", "wait"}
  /\ call' = NoCall
  /\ UNCHANGED <<group, spawn, escaped>>

Cancel == CancelledSpawn \/ CancelledCommand \/ CancelledCall \/ CancelledRest

(* A cancelled bash call waits its spawn out, and kills what it started.   *)
Reaps ==
  /\ call.pc = "reap" /\ spawn \in {"up", "failed"}
  /\ IF spawn = "up"
     THEN group' = Killed({call.pgid}) /\ call' = [call EXCEPT !.pc = "wait"]
     ELSE group' = group /\ call' = NoCall
  /\ spawn' = "off"
  /\ UNCHANGED <<lifeVars, escaped>>

(* Faulty: the wait for the spawn has no deadline.                         *)
OverdueNever == FALSE

Overdue == call.pc = "reap" /\ spawn \in {"new", "connecting"}

GivesUp ==
  /\ Overdue
  /\ call' = NoCall
  /\ spawn' = "off"
  /\ Abandoned
  /\ UNCHANGED lifeVars

(* What that cleanup waits for: every pipe to be connected, and none to be *)
(* held open by a child of the leader it killed.                           *)
HeldUp == call.pc = "cleanup" /\ (spawn # "up" \/ PipeHeld(call.pgid))

CleansUp ==
  /\ call.pc = "cleanup" /\ ~ HeldUp
  /\ call' = NoCall
  /\ spawn' = "off"
  /\ UNCHANGED <<group, lifeVars, escaped>>

-----------------------------------------------------------------------------
(***************************************************************************)
(* A run, and the process that runs it.                                    *)
(***************************************************************************)
Opens(front) ==
  /\ life.pc = "closed" /\ runs < MaxRuns
  /\ life' = [pc |-> "idle", front |-> front, quits |-> FALSE]
  /\ screens' = <<>> /\ left' = {}
  /\ UNCHANGED <<group, callVars, recorded, from, runs, calls, escaped>>

(* Faulty: one group too many is taken for an earlier run's.               *)
EarlierGroups1 == Len(recorded) + 1

EarlierGroups == Len(recorded)

RunStarts ==
  /\ life.pc = "idle" /\ ~ life.quits /\ runs < MaxRuns
  /\ life' = [life EXCEPT !.pc = "running"]
  /\ runs' = runs + 1 /\ calls' = 0
  /\ from' = EarlierGroups
  /\ UNCHANGED <<group, callVars, recorded, screens, left, escaped>>

(* A deadline or a signal, or Esc and Ctrl-C.                              *)
Stop ==
  /\ life.pc = "running"
  /\ life' = [life EXCEPT !.pc = "stopping"]
  /\ Cancel
  /\ UNCHANGED <<recorded, from, screens, left, runs, calls>>

(* Faulty: the earlier invocations' groups are stopped too.                *)
ReportedEver == Numbers(recorded)

(* The groups this invocation reported.                                    *)
Reported == {recorded[i] : i \in from + 1 .. Len(recorded)}

HeadlessStops ==
  /\ life.front = "headless" /\ life.pc = "stopping" /\ call.pc = "idle"
  /\ \E refused \in SUBSET {g \in Reported : group[g].of = "other"} :
       group' = Killed(Reported \ refused)
  /\ life' = [life EXCEPT !.pc = "closed"]
  /\ UNCHANGED <<callVars, recorded, from, screens, left, runs, calls, escaped>>

HeadlessEnds ==
  /\ life.front = "headless" /\ life.pc = "running" /\ call.pc = "idle"
  /\ life' = [life EXCEPT !.pc = "closed"]
  /\ UNCHANGED <<group, callVars, recorded, from, screens, left, runs, calls, escaped>>

(* The list, without some of its numbers.                                  *)
Without(list, gone) ==
  LET kept[i \in 0 .. Len(list)] ==
        IF i = 0 THEN <<>>
        ELSE IF list[i] \in gone THEN kept[i - 1] ELSE Append(kept[i - 1], list[i])
  IN  kept[Len(list)]

(* _live_groups: what is recorded and alive stays recorded.                *)
Kept == Without(recorded, {g \in Pgids : ~ Alive(g)})

Pushed(list, quitting) == screens \o <<[list |-> list, quits |-> quitting]>>

TuiEnds ==
  /\ life.front = "tui" /\ life.pc = "running" /\ call.pc = "idle"
  /\ life' = [life EXCEPT !.pc = "idle"]
  /\ recorded' = Kept
  /\ screens' = IF Numbers(Kept) \subseteq left
                THEN screens
                ELSE Pushed(Numbers(Kept) \ left, FALSE)
  /\ UNCHANGED <<group, callVars, from, left, runs, calls, escaped>>

TuiStops ==
  /\ life.front = "tui" /\ life.pc = "stopping" /\ call.pc = "idle"
  /\ life' = [life EXCEPT !.pc = "idle"]
  /\ UNCHANGED <<group, callVars, recorded, from, screens, left, runs, calls, escaped>>

TopScreen == screens[Len(screens)]

Below == SubSeq(screens, 1, Len(screens) - 1)

(* k kills what the screen names, and forgets what could be killed; l, or  *)
(* Esc, leaves it.                                                         *)
KillsNamed ==
  \E refused \in SUBSET {g \in TopScreen.list : group[g].of = "other"} :
    LET stopped == TopScreen.list \ refused
    IN  /\ group' = Killed(stopped)
        /\ recorded' = Without(recorded, stopped)

Answered ==
  /\ screens # <<>> /\ ~ TopScreen.quits
  /\ screens' = Below
  /\ \/ KillsNamed /\ left' = left
     \/ left' = left \cup TopScreen.list /\ UNCHANGED <<group, recorded>>
  /\ UNCHANGED <<callVars, from, life, runs, calls, escaped>>

(* Ctrl-Q stops the run, and asks once it has unwound.                     *)
Quit ==
  /\ life.front = "tui" /\ life.pc # "closed" /\ ~ life.quits
  /\ life' = [pc    |-> IF life.pc = "running" THEN "stopping" ELSE life.pc,
              front |-> "tui", quits |-> TRUE]
  /\ IF life.pc = "running" THEN Cancel ELSE UNCHANGED <<group, callVars, escaped>>
  /\ UNCHANGED <<recorded, from, screens, left, runs, calls>>

QuitList == Numbers(Kept)

QuitAsks ==
  /\ life.quits /\ life.pc = "idle"
  /\ screens # <<>> => ~ TopScreen.quits
  /\ recorded' = Kept
  /\ IF QuitList = {}
     THEN screens' = <<>> /\ life' = [life EXCEPT !.pc = "closed"]
     ELSE /\ screens' = (IF screens = <<>> THEN <<>> ELSE Below)
                        \o <<[list |-> QuitList, quits |-> TRUE]>>
          /\ life' = life
  /\ UNCHANGED <<group, callVars, from, left, runs, calls, escaped>>

QuitAnswered ==
  /\ screens # <<>> /\ TopScreen.quits
  /\ KillsNamed \/ UNCHANGED <<group, recorded>>
  /\ screens' = <<>>
  /\ life' = [life EXCEPT !.pc = "closed"]
  /\ UNCHANGED <<callVars, from, left, runs, calls, escaped>>

-----------------------------------------------------------------------------
Init ==
  /\ group = [g \in Pgids |-> NoGroup]
  /\ call = NoCall /\ spawn = "off"
  /\ recorded = <<>> /\ from = 0
  /\ life = [pc |-> "closed", front |-> CHOOSE f \in Fronts : TRUE, quits |-> FALSE]
  /\ screens = <<>> /\ left = {}
  /\ runs = 0 /\ calls = 0
  /\ escaped = {}

Machine == \E g \in Pgids : Forks(g) \/ Exits(g) \/ Taken(g)

Spawning == Popen \/ Connects \/ SpawnFails

Calling ==
  \/ \E tool \in Tools : CallStarts(tool)
  \/ Started \/ Said \/ TimesOut \/ Asks \/ AsksAgain \/ LeftRunning

Unwinding == Waited \/ Reaps \/ GivesUp \/ CleansUp

Running ==
  \/ \E front \in Fronts : Opens(front)
  \/ RunStarts \/ Stop \/ HeadlessEnds \/ TuiEnds \/ Answered \/ Quit \/ QuitAnswered

Settling == HeadlessStops \/ TuiStops \/ QuitAsks

Next == Machine \/ Spawning \/ Calling \/ Unwinding \/ Running \/ Settling

Spec == Init /\ [][Next]_vars

(* The event loop goes on with what a stop left to do: a killed process is *)
(* waited for, the wait for a bash spawn has a deadline, and a cleanup     *)
(* ends once nothing holds it up.  Nothing is assumed of a spawn, of a     *)
(* command, or of a person, so a cleanup may be held up for good.          *)
FairSpec == Spec /\ WF_vars(Unwinding) /\ WF_vars(Settling)

-----------------------------------------------------------------------------
(***************************************************************************)
(* Properties.                                                             *)
(***************************************************************************)
Call == [pc    : {"idle", "spawn", "reap", "cleanup", "talk", "probe", "sleep", "wait"},
         tool  : {None} \cup Tools,
         pgid  : {None} \cup Pgids,
         looks : 0 .. Looks]

Screen == [list : SUBSET Pgids, quits : BOOLEAN]

(* Types, and how a call, its spawn and the recorded groups stand to each  *)
(* other.                                                                  *)
TypeOK ==
  /\ group \in [Pgids -> Group]
  /\ call \in Call
  /\ spawn \in {"off", "new", "connecting", "up", "failed"}
  /\ spawn # "off" <=> call.pc \in {"spawn", "reap", "cleanup"}
  /\ call.pc = "cleanup" => call.tool = "command"
  /\ spawn \in {"connecting", "up"} \/ call.pc \in {"talk", "probe", "sleep", "wait"} =>
       call.pgid # None
  /\ recorded \in Seq(Pgids) /\ from \in Nat
  /\ life \in [pc : {"closed", "idle", "running", "stopping"}, front : Fronts, quits : BOOLEAN]
  /\ life.front = "headless" /\ life.pc \in {"running", "stopping"} => from <= Len(recorded)
  /\ call.pc # "idle" => life.pc \in {"running", "stopping"}
  /\ screens \in Seq(Screen) /\ left \subseteq Pgids
  /\ runs \in 0 .. MaxRuns /\ calls \in 0 .. MaxCalls
  /\ escaped \subseteq Pgids

Lives(g) == group[g].of = "bash" /\ Alive(g)

(* Once a bash call is over, whatever of its group still runs is recorded  *)
(* in the session: cancelled or timed out, it was killed, wherever that    *)
(* found the call, the probe included.  Only a spawn that never handed     *)
(* over its process loses one, as tools.py says.                           *)
NoGroupIsLost ==
  call.pc = "idle" =>
    \A g \in Pgids : Lives(g) => g \in Numbers(recorded) \cup escaped

HeadlessStop == life.front = "headless" /\ life.pc = "stopping" /\ life'.pc = "closed"

(* A deadline or a signal leaves nothing running that this invocation's    *)
(* bash calls started, the finished ones included (docs/contract.md).      *)
StopLeavesNothing ==
  [][HeadlessStop =>
       \A g \in Pgids : Lives(g) /\ group[g].run = runs => ~ Alive(g)' \/ g \in escaped]_vars

(* And it leaves alone what an earlier invocation left running.            *)
EarlierIsLeftAlone ==
  [][HeadlessStop => \A g \in Pgids : Lives(g) /\ group[g].run < runs => Alive(g)']_vars

(* A stop is not held up by a bash call, even by a spawn that never ends   *)
(* (the wait that tools.py bounds): it ends, unless it cancelled a caller's*)
(* command between its Popen and its pipes, and those are never connected  *)
(* or a child holds them open for good (caller_tools.py awaits the spawn   *)
(* bare).                                                                  *)
StopEnds == life.pc = "stopping" ~> (life.pc # "stopping" \/ []HeldUp)

=============================================================================
