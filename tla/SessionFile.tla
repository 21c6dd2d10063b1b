----------------------------- MODULE SessionFile ----------------------------
(***************************************************************************)
(* The session file of `nare run --session' (cli.py, session.py), and the  *)
(* watcher of `nare tui --attach' (tui/attach.py) that reads it meanwhile. *)
(*                                                                         *)
(* A process consumes the events of its run and saves once a turn, between *)
(* two events; it saves a last time when the run is over, however it is    *)
(* over.  A save fills a temporary file and renames it over the path.  A   *)
(* process may be killed between any two steps, and another started.       *)
(*                                                                         *)
(* Of a session only what a save can get wrong is kept: how many turns it  *)
(* has, whether its last reply has calls without answers, and its status.  *)
(***************************************************************************)
EXTENDS Integers, FiniteSets

CONSTANTS
  None,
  Partial,      (* a file truncated, or not yet filled                     *)
  Settings      (* what is explored: one of these, from the start on       *)

(***************************************************************************)
(* A setting: the processes that may save to the path, whether their       *)
(* transport streams (events come in mid-step), whether somebody watches   *)
(* the file, and the bounds of its exploration: the turns of a session,    *)
(* the processes started, what may fail and how often.                     *)
(***************************************************************************)
Setting == [procs    : SUBSET {"p1", "p2"},
            streams  : BOOLEAN,
            attached : BOOLEAN,
            turns    : Nat,
            lives    : Nat,
            kinds    : SUBSET {"write", "pipe", "read", "stat", "tick"},
            faults   : Nat]

ASSUME SettingsAssumption == Settings \subseteq Setting

Procs == UNION {w.procs : w \in Settings}

Session == [turns  : Nat,
            open   : BOOLEAN,
            status : {"working", "done", "blocked", "error"}]

Doc == Session \cup {Partial}

Outcomes == {"done", "blocked", "error"}

ASSUME DocAssumption == None \notin Doc \cup Outcomes /\ Partial \notin Session

VARIABLES
  setting,   (* the one explored                                           *)
  file,      (* the path: None, or what it holds and its stamp: its        *)
             (* modification time and size                                 *)
  temp,      (* the temporary files, by name                               *)
  pc,        (* where each process stands                                  *)
  mem,       (* each process's session                                     *)
  tried,     (* saved_turns: the turn whose save was tried last            *)
  back,      (* where a save returns to; "report" is the final one's       *)
  raising,   (* an exception is on its way out: no result line follows     *)
  result,    (* the status of the result line, None before it              *)
  (* The watcher.                                                          *)
  stamp,     (* _stamp                                                     *)
  reading,   (* it has stat'ed the file and reads it next                  *)
  drawn,     (* the session it has drawn, None before the first            *)
  problem,   (* it shows a problem                                         *)
  (* What happened, for the properties and the bounds.                     *)
  written,   (* the session each process last put in the path's place      *)
  faults, lives,
  clock,     (* the stamp of the file filled last                          *)
  stamps,    (* the stamps of the temporary files                          *)
  twins      (* two files were filled with one stamp                       *)

procVars == <<pc, mem, tried, back, raising, result, written, lives>>

watchVars == <<stamp, reading, drawn, problem>>

timeVars == <<clock, stamps, twins>>

vars == <<setting, file, temp, procVars, watchVars, faults, timeVars>>

Fails(kind) ==
  /\ kind \in setting.kinds /\ faults < setting.faults /\ faults' = faults + 1

Go(p, place) == pc' = [pc EXCEPT ![p] = place]

-----------------------------------------------------------------------------
(***************************************************************************)
(* Starting a process: a new session, or a saved one reopened.             *)
(***************************************************************************)
NewSession == [turns |-> 0, open |-> FALSE, status |-> "working"]

(* Faulty: the calls of a transcript saved in mid-dispatch stay open.      *)
ReopenedAsSaved(s) == [s EXCEPT !.status = "working"]

Reopened(s) == [s EXCEPT !.open = FALSE, !.status = "working"]

Opened ==
  {NewSession} \cup {Reopened(f.doc) : f \in {g \in {file} : g # None /\ g.doc # Partial}}

Start(p, session) ==
  /\ Go(p, "request")
  /\ mem' = [mem EXCEPT ![p] = session]
  /\ tried' = [tried EXCEPT ![p] = -1]
  /\ raising' = [raising EXCEPT ![p] = FALSE]
  /\ result' = [result EXCEPT ![p] = None]
  /\ written' = [written EXCEPT ![p] = None]
  /\ lives' = lives + 1
  /\ UNCHANGED <<file, temp, back, watchVars, faults, timeVars>>

Begin(p) ==
  /\ pc[p] = "off" /\ lives < setting.lives
  /\ \E session \in Opened : Start(p, session)

-----------------------------------------------------------------------------
(***************************************************************************)
(* The run, as far as a save can tell.                                     *)
(***************************************************************************)
Becomes(p, session, place) ==
  /\ mem' = [mem EXCEPT ![p] = session]
  /\ Go(p, place)
  /\ UNCHANGED <<file, temp, tried, back, raising, result, written, lives,
                 watchVars, faults, timeVars>>

(* step() commits a reply: with calls to dispatch, or ending the step.     *)
Reply(p, calls, status) ==
  /\ pc[p] = "request" /\ mem[p].turns < setting.turns
  /\ calls => status = "working"
  /\ Becomes(p, [turns |-> mem[p].turns + 1, open |-> calls, status |-> status],
             IF calls THEN "dispatch" ELSE "drain")

RequestFails(p) ==
  /\ pc[p] = "request"
  /\ Becomes(p, [mem[p] EXCEPT !.status = "error"], "drain")

Answered(p, status) ==
  /\ pc[p] = "dispatch"
  /\ Becomes(p, [mem[p] EXCEPT !.open = FALSE, !.status = status], "drain")

(* The step's events are out: the next request, or the end of the run.     *)
GoOn(p) ==
  /\ pc[p] = "drained"
  /\ Go(p, IF mem[p].status = "working" THEN "request" ELSE "create")
  /\ back' = [back EXCEPT ![p] = "report"]
  /\ UNCHANGED <<file, temp, mem, tried, raising, result, written, lives,
                 watchVars, faults, timeVars>>

-----------------------------------------------------------------------------
(***************************************************************************)
(* An event of the run, written to the caller; then the save of the turn.  *)
(***************************************************************************)
Emitting(p) == pc[p] = "drain" \/ (setting.streams /\ pc[p] \in {"request", "dispatch"})

SaveDue(p) == mem[p].turns # tried[p] /\ ~ mem[p].open

Tried(p) == IF SaveDue(p) THEN mem[p].turns ELSE tried[p]

Emit(p) ==
  /\ Emitting(p)
  /\ LET next == IF pc[p] = "drain" THEN "drained" ELSE pc[p]
     IN  /\ Go(p, IF SaveDue(p) THEN "create" ELSE next)
         /\ back' = [back EXCEPT ![p] = IF SaveDue(p) THEN next ELSE @]
  /\ tried' = [tried EXCEPT ![p] = Tried(p)]
  /\ UNCHANGED <<file, temp, mem, raising, result, written, lives, watchVars,
                 faults, timeVars>>

(* The caller is gone: the exception leaves _execute through its finally,  *)
(* with the run suspended where it was.                                    *)
EmitFails(p) ==
  /\ Emitting(p)
  /\ Fails("pipe")
  /\ Go(p, "create")
  /\ back' = [back EXCEPT ![p] = "report"]
  /\ raising' = [raising EXCEPT ![p] = TRUE]
  /\ UNCHANGED <<file, temp, mem, tried, result, written, lives, watchVars,
                 timeVars>>

(***************************************************************************)
(* A deadline or a signal, at an await of the run: the dispatch answers    *)
(* its calls as it unwinds, and _stopped writes an event of its own.       *)
(***************************************************************************)
Stop(p) ==
  /\ pc[p] \in {"request", "dispatch"}
  /\ mem' = [mem EXCEPT ![p].open = FALSE, ![p].status = "error"]
  /\ Go(p, "create")
  /\ back' = [back EXCEPT ![p] = "report"]
  /\ \/ UNCHANGED <<raising, faults>>
     \/ Fails("pipe") /\ raising' = [raising EXCEPT ![p] = TRUE]
  /\ UNCHANGED <<file, temp, tried, result, written, lives, watchVars, timeVars>>

(* What a process remembers dies with it.                                  *)
Forgets(p) ==
  /\ tried' = [tried EXCEPT ![p] = -1]
  /\ back' = [back EXCEPT ![p] = "report"]
  /\ raising' = [raising EXCEPT ![p] = FALSE]

(* SIGKILL, or the machine.                                                *)
Kill(p) ==
  /\ pc[p] # "off"
  /\ Go(p, "off")
  /\ Forgets(p)
  /\ mem' = [mem EXCEPT ![p] = NewSession]
  /\ result' = [result EXCEPT ![p] = None]
  /\ written' = [written EXCEPT ![p] = None]
  /\ UNCHANGED <<file, temp, lives, watchVars, faults, timeVars>>

-----------------------------------------------------------------------------
(***************************************************************************)
(* save: a temporary file in the path's directory, filled, and renamed.    *)
(***************************************************************************)
(* Faulty: one name beside the path, for whoever saves.                    *)
SharedTemp(p) == CHOOSE q \in Procs : TRUE

TempName(p) == p

Create(p) ==
  /\ pc[p] = "create"
  /\ Go(p, "fill")
  /\ temp' = [temp EXCEPT ![TempName(p)] = Partial]
  /\ UNCHANGED <<file, mem, tried, back, raising, result, written, lives,
                 watchVars, faults, timeVars>>

(* A file filled before the clock has ticked, with a text of the same      *)
(* length, has the stamp of the one before.                                *)
Fill(p) ==
  /\ pc[p] = "fill"
  /\ Go(p, "rename")
  /\ temp' = [temp EXCEPT ![TempName(p)] = mem[p]]
  /\ \/ clock' = clock + 1 /\ UNCHANGED <<faults, twins>>
     \/ Fails("tick") /\ clock' = clock /\ twins' = TRUE
  /\ stamps' = [stamps EXCEPT ![TempName(p)] = clock']
  /\ UNCHANGED <<file, mem, tried, back, raising, result, written, lives, watchVars>>

Returns(p) == Go(p, back[p]) /\ back' = [back EXCEPT ![p] = "report"]

Rename(p) ==
  /\ pc[p] = "rename" /\ temp[TempName(p)] # None
  /\ file' = [doc |-> temp[TempName(p)], stamp |-> stamps[TempName(p)]]
  /\ temp' = [temp EXCEPT ![TempName(p)] = None]
  /\ written' = [written EXCEPT ![p] = mem[p]]
  /\ Returns(p)
  /\ UNCHANGED <<mem, tried, raising, result, lives, watchVars, faults, timeVars>>

(* Faulty: the result line says what the run came to, kept or not.         *)
UnkeptAsIs(p) == mem[p]

(* Faulty: the reason is written where the status belongs.                 *)
UnkeptReason(p) ==
  IF back[p] = "report" THEN [mem[p] EXCEPT !.status = "session_write"] ELSE mem[p]

(* Only the final write decides the run.                                   *)
Unkept(p) == IF back[p] = "report" THEN [mem[p] EXCEPT !.status = "error"] ELSE mem[p]

(* A rename that fails removes the temporary file, a write that fails does *)
(* not.                                                                    *)
SaveFails(p) ==
  /\ pc[p] \in {"create", "fill", "rename"}
  /\ Fails("write")
  /\ Returns(p)
  /\ mem' = [mem EXCEPT ![p] = Unkept(p)]
  /\ temp' = IF pc[p] = "rename" THEN [temp EXCEPT ![TempName(p)] = None] ELSE temp
  /\ UNCHANGED <<file, tried, raising, result, written, lives, watchVars, timeVars>>

(* The result line, unless an exception is on its way out.                 *)
Report(p) ==
  /\ pc[p] = "report"
  /\ Go(p, "off")
  /\ Forgets(p)
  /\ result' = [result EXCEPT ![p] = IF raising[p] THEN None ELSE mem[p].status]
  /\ UNCHANGED <<file, temp, mem, written, lives, watchVars, faults, timeVars>>

-----------------------------------------------------------------------------
(***************************************************************************)
(* Watcher.poll: stat, then read.  Between the two the file may change.    *)
(***************************************************************************)
(* Faulty: a save is told from the one before by its turns.                *)
StampByTurns == IF file.doc = Partial THEN 0 ELSE file.doc.turns

Stamp == file.stamp

Look ==
  /\ setting.attached /\ ~ reading
  /\ IF file = None
     THEN stamp' = None /\ problem' = TRUE /\ UNCHANGED reading
     ELSE IF Stamp = stamp
     THEN UNCHANGED <<stamp, problem, reading>>
     ELSE stamp' = Stamp /\ reading' = TRUE /\ UNCHANGED problem
  /\ UNCHANGED <<drawn, file, temp, procVars, faults, timeVars>>

LookFails ==
  /\ setting.attached /\ ~ reading /\ file # None
  /\ Fails("stat")
  /\ stamp' = None /\ problem' = TRUE
  /\ UNCHANGED <<reading, drawn, file, temp, procVars, timeVars>>

Draw ==
  /\ reading /\ file # None
  /\ reading' = FALSE
  /\ IF file.doc = Partial
     THEN problem' = TRUE /\ UNCHANGED drawn
     ELSE problem' = FALSE /\ drawn' = file.doc
  /\ UNCHANGED <<stamp, file, temp, procVars, faults, timeVars>>

DrawFails ==
  /\ reading
  /\ Fails("read")
  /\ reading' = FALSE /\ problem' = TRUE
  /\ UNCHANGED <<stamp, drawn, file, temp, procVars, timeVars>>

-----------------------------------------------------------------------------
Init ==
  /\ setting \in Settings
  /\ file = None
  /\ temp = [p \in Procs |-> None]
  /\ pc = [p \in Procs |-> "off"]
  /\ mem = [p \in Procs |-> NewSession]
  /\ tried = [p \in Procs |-> -1]
  /\ back = [p \in Procs |-> "report"]
  /\ raising = [p \in Procs |-> FALSE]
  /\ result = [p \in Procs |-> None]
  /\ stamp = None /\ reading = FALSE /\ drawn = None /\ problem = FALSE
  /\ written = [p \in Procs |-> None]
  /\ faults = 0 /\ lives = 0
  /\ clock = 0 /\ stamps = [p \in Procs |-> 0] /\ twins = FALSE

Run(p) ==
  \/ Begin(p)
  \/ \E calls \in BOOLEAN, status \in {"working", "done", "error"} : Reply(p, calls, status)
  \/ RequestFails(p)
  \/ \E status \in {"working", "blocked"} : Answered(p, status)
  \/ GoOn(p) \/ Emit(p) \/ EmitFails(p) \/ Stop(p) \/ Kill(p) \/ Report(p)

Save(p) == Create(p) \/ Fill(p) \/ Rename(p) \/ SaveFails(p)

Poll == UNCHANGED setting /\ (Look \/ LookFails \/ Draw \/ DrawFails)

Next ==
  \/ \E p \in setting.procs : UNCHANGED setting /\ (Run(p) \/ Save(p))
  \/ Poll

Spec == Init /\ [][Next]_vars

(***************************************************************************)
(* The watcher polls on a timer; nothing makes a process go on.            *)
(***************************************************************************)
FairSpec == Spec /\ WF_vars(Poll)

-----------------------------------------------------------------------------
(***************************************************************************)
(* Properties.                                                             *)
(***************************************************************************)

Places == {"off", "request", "dispatch", "drain", "drained", "create", "fill", "rename",
           "report"}

(* The types of the file, the processes and the watcher.                   *)
TypeOK ==
  /\ setting \in Settings
  /\ file = None \/ (file.doc \in Doc /\ file.stamp \in Nat)
  /\ temp \in [Procs -> Doc \cup {None}]
  /\ pc \in [Procs -> Places]
  /\ mem \in [Procs -> Session]
  /\ tried \in [Procs -> Nat \cup {-1}]
  /\ back \in [Procs -> Places]
  /\ raising \in [Procs -> BOOLEAN]
  /\ result \in [Procs -> Outcomes \cup {None}]
  /\ stamp \in Nat \cup {None} /\ reading \in BOOLEAN /\ problem \in BOOLEAN
  /\ drawn \in Session \cup {None}
  /\ written \in [Procs -> Session \cup {None}]
  /\ faults \in 0 .. setting.faults /\ lives \in 0 .. setting.lives
  /\ clock \in Nat /\ stamps \in [Procs -> Nat] /\ twins \in BOOLEAN

(* Whoever saves, and wherever one of them is killed, the path holds a     *)
(* whole session.                                                          *)
FileIsWhole == file # None => file.doc # Partial

(* A result line that says done or blocked follows a write of just that    *)
(* session: unpersisted work is not done.                                  *)
FinishedIsKept ==
  \A p \in Procs :
    pc[p] = "off" /\ result[p] \in {"done", "blocked"} =>
      written[p] = mem[p] /\ mem[p].status = result[p]

(* No request is sent with calls still open, whatever the file held.       *)
RequestsAreAnswered == \A p \in Procs : pc[p] = "request" => ~ mem[p].open

(* Once nothing writes the file, the watcher has drawn what it holds, or   *)
(* shows the problem it had in reading just that; or it cannot tell, for   *)
(* two files had one stamp.                                                *)
ViewCatchesUp ==
  setting.attached =>
    <>[](file # None => drawn = file.doc \/ ((problem \/ twins) /\ stamp = file.stamp))

=============================================================================
