------------------------- MODULE SessionFileProofs -------------------------
(***************************************************************************)
(* Theorems about SessionFile, for any settings: any number of faults,     *)
(* turns and processes started, and one process or two.                    *)
(***************************************************************************)
EXTENDS SessionFile, TLAPS

Saving == {"create", "fill", "rename"}

(* The temporary file to be renamed is this process's session, whole.      *)
TempIsOwn(p) == pc[p] = "rename" => temp[p] = mem[p]

(* Calls are open in the dispatch alone, so a turn saved on the way has    *)
(* none, whatever the save returns to.                                     *)
CallsAnswered(p) ==
  /\ pc[p] \in {"request", "drain", "drained"} => ~ mem[p].open
  /\ back[p] # "report" => /\ pc[p] \in Saving
                           /\ back[p] \in {"request", "dispatch", "drained"}
                           /\ ~ mem[p].open

(* The last save is made of a run that is over, or that an exception left. *)
RunIsOver(p) ==
  pc[p] \in Saving \cup {"report"} /\ back[p] = "report" =>
    raising[p] \/ mem[p].status # "working"

(* Where the result line is due, a run that finished has just been saved.  *)
FinishIsSaved(p) ==
  pc[p] = "report" /\ mem[p].status \in {"done", "blocked"} =>
    raising[p] \/ written[p] = mem[p]

ResultIsTrue(p) ==
  pc[p] = "off" /\ result[p] \in {"done", "blocked"} =>
    written[p] = mem[p] /\ mem[p].status = result[p]

Sound(p) ==
  /\ TempIsOwn(p) /\ CallsAnswered(p) /\ RunIsOver(p)
  /\ FinishIsSaved(p) /\ ResultIsTrue(p)

SaveInv ==
  /\ TypeOK
  /\ FileIsWhole
  /\ \A p \in Procs : Sound(p)

-----------------------------------------------------------------------------
(* Every step of a process is a step on its own entries alone.             *)
Mine(p) ==
  \A q \in Procs \ {p} :
    /\ pc'[q] = pc[q] /\ mem'[q] = mem[q] /\ temp'[q] = temp[q]
    /\ back'[q] = back[q] /\ raising'[q] = raising[q]
    /\ result'[q] = result[q] /\ written'[q] = written[q]

LEMMA ProcsAreNamed ==
  ASSUME TypeOK
  PROVE  setting \in Setting /\ setting.procs \subseteq Procs
  BY SettingsAssumption DEF TypeOK, Procs

LEMMA FaultsAreBounded ==
  ASSUME TypeOK, NEW kind, Fails(kind)
  PROVE  faults' \in 0 .. setting.faults
  BY ProcsAreNamed DEF TypeOK, Fails, Setting

(* The steps of the others leave what is said of a process as it was.      *)
LEMMA OthersStaySound ==
  ASSUME NEW p \in Procs, \A q \in Procs : Sound(q), Mine(p)
  PROVE  \A q \in Procs \ {p} : Sound(q)'
  BY DEF Mine, Sound, TempIsOwn, CallsAnswered, RunIsOver, FinishIsSaved, ResultIsTrue

(* What Sound depends on.                                                  *)
LEMMA SoundStays ==
  ASSUME \A q \in Procs : Sound(q), UNCHANGED <<procVars, temp>>
  PROVE  \A q \in Procs : Sound(q)'
  BY DEF procVars, Sound, TempIsOwn, CallsAnswered, RunIsOver, FinishIsSaved, ResultIsTrue

-----------------------------------------------------------------------------
(* A session whose calls and status are replaced.                          *)
LEMMA SessionsAreSessions ==
  ASSUME NEW s \in Session, NEW o \in BOOLEAN, NEW t \in Outcomes \cup {"working"}
  PROVE  /\ [s EXCEPT !.status = t] = [turns |-> s.turns, open |-> s.open, status |-> t]
         /\ [s EXCEPT !.open = o, !.status = t] = [turns |-> s.turns, open |-> o, status |-> t]
         /\ [s EXCEPT !.status = t] \in Session
         /\ [s EXCEPT !.open = o, !.status = t] \in Session
<1>1. s = [turns |-> s.turns, open |-> s.open, status |-> s.status]
  BY DEF Session
<1>2. [s EXCEPT !.open = o] = [turns |-> s.turns, open |-> o, status |-> s.status]
  BY <1>1
<1>3. [s EXCEPT !.open = o, !.status = t] = [turns |-> s.turns, open |-> o, status |-> t]
  <2>1. ASSUME NEW u, u = [turns |-> s.turns, open |-> o, status |-> s.status]
        PROVE  [u EXCEPT !.status = t] = [turns |-> s.turns, open |-> o, status |-> t]
    BY <2>1
  <2> QED
    BY <1>2, <2>1, Zenon
<1>4. [s EXCEPT !.status = t] = [turns |-> s.turns, open |-> s.open, status |-> t]
  BY <1>1
<1> QED
  BY <1>3, <1>4 DEF Session, Outcomes

(* A process starts with no open call, whatever was saved.                 *)
LEMMA OpenedIsASession ==
  ASSUME TypeOK, NEW session \in Opened
  PROVE  session \in Session /\ ~ session.open
<1>1. CASE session = NewSession
  BY <1>1 DEF NewSession, Session
<1>2. CASE file # None /\ file.doc # Partial /\ session = Reopened(file.doc)
  <2>1. file.doc \in Session
    BY <1>2 DEF TypeOK, Doc
  <2>2. Reopened(file.doc) = [turns |-> file.doc.turns, open |-> FALSE, status |-> "working"]
    BY <2>1, SessionsAreSessions DEF Reopened
  <2> QED
    BY <1>2, <2>1, <2>2 DEF Session
<1> QED
  BY <1>1, <1>2 DEF Opened

(* The types.                                                              *)
LEMMA RunTypes ==
  ASSUME SaveInv, NEW p \in setting.procs, Run(p), UNCHANGED setting
  PROVE  TypeOK'
<1>t. TypeOK /\ Sound(p) /\ p \in Procs /\ setting \in Setting
  BY ProcsAreNamed DEF SaveInv
<1> USE DEF TypeOK, Places, Go, watchVars, timeVars
<1>1. CASE Begin(p)
  <2>1. PICK session \in Opened : Start(p, session)
    BY <1>1 DEF Begin
  <2>2. session \in Session
    BY <1>t, <2>1, OpenedIsASession
  <2>3. lives' \in 0 .. setting.lives
    BY <1>t, <1>1, <2>1 DEF Begin, Start, Setting
  <2> QED
    BY <1>t, <2>1, <2>2, <2>3 DEF Start
<1>2. ASSUME NEW calls \in BOOLEAN, NEW status \in {"working", "done", "error"},
             Reply(p, calls, status)
      PROVE  TypeOK'
  <2>1. [turns |-> mem[p].turns + 1, open |-> calls, status |-> status] \in Session
    BY <1>t DEF Session
  <2> QED
    BY <1>t, <1>2, <2>1 DEF Reply, Becomes
<1>3. CASE RequestFails(p)
  <2>1. [mem[p] EXCEPT !.status = "error"] \in Session
    BY <1>t, SessionsAreSessions DEF Outcomes
  <2> QED
    BY <1>t, <1>3, <2>1 DEF RequestFails, Becomes
<1>4. ASSUME NEW status \in {"working", "blocked"}, Answered(p, status)
      PROVE  TypeOK'
  <2>1. [mem[p] EXCEPT !.open = FALSE, !.status = status] \in Session
    BY <1>t, SessionsAreSessions DEF Outcomes
  <2> QED
    BY <1>t, <1>4, <2>1 DEF Answered, Becomes
<1>5. CASE GoOn(p)
  BY <1>t, <1>5 DEF GoOn
<1>6. CASE Emit(p)
  <2>1. Tried(p) \in Nat \cup {-1}
    BY <1>t DEF Tried, Session
  <2> QED
    BY <1>t, <1>6, <2>1 DEF Emit
<1>7. CASE EmitFails(p)
  <2>1. faults' \in 0 .. setting.faults
    BY <1>t, <1>7, FaultsAreBounded DEF EmitFails
  <2> QED
    BY <1>t, <1>7, <2>1 DEF EmitFails
<1>8. CASE Stop(p)
  <2>1. faults' \in 0 .. setting.faults /\ raising' \in [Procs -> BOOLEAN]
    BY <1>t, <1>8, FaultsAreBounded DEF Stop
  <2>2. [[mem[p] EXCEPT !.open = FALSE] EXCEPT !.status = "error"] \in Session
    BY <1>t, SessionsAreSessions DEF Outcomes
  <2>3. mem' \in [Procs -> Session]
    BY <1>t, <1>8, <2>2 DEF Stop
  <2> QED
    BY <1>t, <1>8, <2>1, <2>3 DEF Stop
<1>9. CASE Kill(p)
  <2>1. NewSession \in Session
    BY DEF NewSession, Session
  <2> QED
    BY <1>t, <1>9, <2>1 DEF Kill, Forgets
<1>10. CASE Report(p)
  <2>1. raising[p] \/ mem[p].status \in {"done", "blocked", "error"}
    BY <1>t, <1>10 DEF Report, Sound, RunIsOver, CallsAnswered, Saving, Session
  <2> QED
    BY <1>t, <1>10, <2>1 DEF Report, Forgets, Outcomes
<1> QED
  BY <1>1, <1>2, <1>3, <1>4, <1>5, <1>6, <1>7, <1>8, <1>9, <1>10 DEF Run

LEMMA SaveTypes ==
  ASSUME SaveInv, NEW p \in setting.procs, Save(p), UNCHANGED setting
  PROVE  TypeOK' /\ FileIsWhole'
<1>t. TypeOK /\ FileIsWhole /\ Sound(p) /\ p \in Procs /\ setting \in Setting
  BY ProcsAreNamed DEF SaveInv
<1> USE DEF TypeOK, Places, Go, watchVars, timeVars, TempName, Returns, Doc
<1>1. CASE Create(p)
  BY <1>t, <1>1 DEF Create, FileIsWhole
<1>2. CASE Fill(p)
  <2>1. faults' \in 0 .. setting.faults /\ clock' \in Nat /\ twins' \in BOOLEAN
    <3>1. faults' = faults \/ Fails("tick")
      BY <1>2 DEF Fill
    <3>2. faults' \in 0 .. setting.faults
      BY <1>t, <3>1, FaultsAreBounded
    <3>3. clock \in Nat /\ twins \in BOOLEAN
      BY <1>t
    <3>4. (clock' = clock + 1 /\ twins' = twins) \/ (clock' = clock /\ twins' = TRUE)
      BY <1>2 DEF Fill
    <3>5. clock' \in Nat
      BY <3>3, <3>4
    <3>6. twins' \in BOOLEAN
      BY <3>3, <3>4
    <3> QED
      BY <3>2, <3>5, <3>6
  <2> QED
    BY <1>t, <1>2, <2>1 DEF Fill, FileIsWhole
<1>3. CASE Rename(p)
  <2>1. temp[p] = mem[p] /\ mem[p] \in Session
    BY <1>t, <1>3 DEF Rename, Sound, TempIsOwn
  <2>2. file'.doc \in Session /\ file'.stamp \in Nat
    BY <1>t, <1>3, <2>1 DEF Rename
  <2>3. FileIsWhole'
    BY <2>2, DocAssumption DEF FileIsWhole
  <2> QED
    BY <1>t, <1>3, <2>1, <2>2, <2>3 DEF Rename
<1>4. CASE SaveFails(p)
  <2>1. faults' \in 0 .. setting.faults
    BY <1>t, <1>4, FaultsAreBounded DEF SaveFails
  <2>2. Unkept(p) \in Session
    BY <1>t DEF Unkept, Session
  <2> QED
    BY <1>t, <1>4, <2>1, <2>2 DEF SaveFails, FileIsWhole
<1> QED
  BY <1>1, <1>2, <1>3, <1>4 DEF Save

LEMMA PollTypes ==
  ASSUME SaveInv, Poll
  PROVE  TypeOK' /\ FileIsWhole'
<1>t. TypeOK /\ FileIsWhole /\ setting \in Setting
  BY ProcsAreNamed DEF SaveInv
<1> USE DEF TypeOK, procVars, timeVars, FileIsWhole
<1>1. CASE Look
  <2>1. file # None => file.stamp \in Nat
    BY <1>t
  <2>2. stamp' \in Nat \cup {None} /\ reading' \in BOOLEAN /\ problem' \in BOOLEAN
    BY <1>t, <1>1, <2>1 DEF Look, Stamp
  <2>3. UNCHANGED <<setting, file, temp, procVars, drawn, faults, timeVars>>
    BY <1>1 DEF Poll, Look
  <2> QED
    BY <1>t, <2>2, <2>3
<1>2. CASE LookFails
  BY <1>t, <1>2, FaultsAreBounded DEF Poll, LookFails
<1>3. CASE Draw
  BY <1>t, <1>3 DEF Poll, Draw, Doc
<1>4. CASE DrawFails
  BY <1>t, <1>4, FaultsAreBounded DEF Poll, DrawFails
<1> QED
  BY <1>1, <1>2, <1>3, <1>4 DEF Poll

-----------------------------------------------------------------------------
(* What a process's own steps keep of it.                                  *)
LEMMA RunKeeps ==
  ASSUME SaveInv, NEW p \in setting.procs, Run(p)
  PROVE  FileIsWhole' /\ Mine(p) /\ Sound(p)'
<1>t. TypeOK /\ FileIsWhole /\ Sound(p) /\ p \in Procs
  BY ProcsAreNamed DEF SaveInv
<1> USE DEF TypeOK, Go, Mine, FileIsWhole, Saving,
            Sound, TempIsOwn, CallsAnswered, RunIsOver, FinishIsSaved, ResultIsTrue
<1>n. None \notin {"done", "blocked"}
  BY DocAssumption DEF Outcomes
<1>1. CASE Begin(p)
  <2>1. PICK session \in Opened : Start(p, session)
    BY <1>1 DEF Begin
  <2>2. ~ session.open
    BY <1>t, <2>1, OpenedIsASession
  <2> QED
    BY <1>t, <1>n, <1>1, <2>1, <2>2 DEF Begin, Start
<1>2. ASSUME NEW calls \in BOOLEAN, NEW status \in {"working", "done", "error"},
             Reply(p, calls, status)
      PROVE  FileIsWhole' /\ Mine(p) /\ Sound(p)'
  BY <1>t, <1>2 DEF Reply, Becomes
<1>3. CASE RequestFails(p)
  BY <1>t, <1>3 DEF RequestFails, Becomes, Session
<1>4. ASSUME NEW status \in {"working", "blocked"}, Answered(p, status)
      PROVE  FileIsWhole' /\ Mine(p) /\ Sound(p)'
  BY <1>t, <1>4 DEF Answered, Becomes, Session
<1>5. CASE GoOn(p)
  BY <1>t, <1>5 DEF GoOn
<1>6. CASE Emit(p)
  BY <1>t, <1>6 DEF Emit, Emitting, SaveDue
<1>7. CASE EmitFails(p)
  BY <1>t, <1>7 DEF EmitFails, Emitting
<1>8. CASE Stop(p)
  BY <1>t, <1>8 DEF Stop, Session
<1>9. CASE Kill(p)
  BY <1>t, <1>n, <1>9 DEF Kill, Forgets, NewSession
<1>10. CASE Report(p)
  BY <1>t, <1>n, <1>10 DEF Report, Forgets
<1> QED
  BY <1>1, <1>2, <1>3, <1>4, <1>5, <1>6, <1>7, <1>8, <1>9, <1>10 DEF Run

LEMMA SaveKeeps ==
  ASSUME SaveInv, NEW p \in setting.procs, Save(p)
  PROVE  Mine(p) /\ Sound(p)'
<1>t. TypeOK /\ Sound(p) /\ p \in Procs
  BY ProcsAreNamed DEF SaveInv
<1> USE DEF TypeOK, Go, Mine, Saving, TempName, Returns,
            Sound, TempIsOwn, CallsAnswered, RunIsOver, FinishIsSaved, ResultIsTrue
<1>1. CASE Create(p)
  BY <1>t, <1>1 DEF Create
<1>2. CASE Fill(p)
  BY <1>t, <1>2 DEF Fill
<1>3. CASE Rename(p)
  BY <1>t, <1>3 DEF Rename
<1>4. CASE SaveFails(p)
  <2>1. /\ back[p] = "report" => Unkept(p).status = "error"
        /\ back[p] # "report" => Unkept(p) = mem[p]
        /\ Unkept(p).open = mem[p].open
    BY <1>t DEF Unkept, Session
  <2> QED
    BY <1>t, <1>4, <2>1 DEF SaveFails
<1> QED
  BY <1>1, <1>2, <1>3, <1>4 DEF Save

LEMMA SaveInit == Init => SaveInv
<1> SUFFICES ASSUME Init PROVE SaveInv
  OBVIOUS
<1>1. NewSession \in Session /\ ~ NewSession.open
  BY DEF NewSession, Session
<1>2. TypeOK
  <2>1. setting.faults \in Nat /\ setting.lives \in Nat
    BY SettingsAssumption DEF Init, Setting
  <2>2. faults \in 0 .. setting.faults /\ lives \in 0 .. setting.lives /\ clock \in Nat
    BY <2>1 DEF Init
  <2>3. /\ pc \in [Procs -> Places]
        /\ back \in [Procs -> Places]
        /\ raising \in [Procs -> BOOLEAN]
        /\ stamps \in [Procs -> Nat] /\ twins \in BOOLEAN
    BY DEF Init, Places
  <2>4. /\ temp \in [Procs -> Doc \cup {None}]
        /\ mem \in [Procs -> Session]
        /\ tried \in [Procs -> Nat \cup {-1}]
        /\ result \in [Procs -> Outcomes \cup {None}]
        /\ written \in [Procs -> Session \cup {None}]
    BY <1>1 DEF Init
  <2> QED
    BY <2>2, <2>3, <2>4 DEF Init, TypeOK
<1>3. \A p \in Procs : Sound(p)
  BY <1>1, DocAssumption
     DEF Outcomes, Init, Sound, TempIsOwn, CallsAnswered, RunIsOver, FinishIsSaved, ResultIsTrue,
         Saving
<1> QED
  BY <1>2, <1>3 DEF SaveInv, Init, FileIsWhole

LEMMA SaveStep == SaveInv /\ [Next]_vars => SaveInv'
<1> SUFFICES ASSUME SaveInv, [Next]_vars PROVE SaveInv'
  OBVIOUS
<1>s. \A q \in Procs : Sound(q)
  BY DEF SaveInv
<1>1. ASSUME NEW p \in setting.procs, UNCHANGED setting, Run(p) \/ Save(p)
      PROVE  SaveInv'
  <2>1. TypeOK' /\ FileIsWhole' /\ Mine(p) /\ Sound(p)'
    BY <1>1, RunTypes, SaveTypes, RunKeeps, SaveKeeps
  <2>2. p \in Procs
    BY ProcsAreNamed DEF SaveInv
  <2>3. \A q \in Procs \ {p} : Sound(q)'
    BY <1>s, <2>1, <2>2, OthersStaySound
  <2>4. Procs' = Procs
    BY DEF Procs
  <2> QED
    BY <2>1, <2>3, <2>4 DEF SaveInv
<1>2. CASE Poll
  <2>1. UNCHANGED <<procVars, temp>>
    BY <1>2 DEF Poll, Look, LookFails, Draw, DrawFails
  <2> QED
    BY <1>2, <1>s, <2>1, PollTypes, SoundStays DEF SaveInv
<1>3. CASE UNCHANGED vars
  <2>1. UNCHANGED <<procVars, temp>>
    BY <1>3 DEF vars
  <2>2. TypeOK' /\ FileIsWhole'
    BY <1>3 DEF vars, procVars, watchVars, timeVars, SaveInv, TypeOK, FileIsWhole
  <2> QED
    BY <1>s, <2>1, <2>2, SoundStays DEF SaveInv
<1> QED
  BY <1>1, <1>2, <1>3 DEF Next

LEMMA SaveInvHolds == Spec => []SaveInv
  BY SaveInit, SaveStep, PTL DEF Spec

-----------------------------------------------------------------------------
(* The types of the file, the processes and the watcher hold throughout: a *)
(* result line never says `working'.                                       *)
THEOREM TypeCorrect == Spec => []TypeOK
<1>1. SaveInv => TypeOK
  BY DEF SaveInv
<1> QED
  BY <1>1, SaveInvHolds, PTL

(* session.save: whoever saves to the path, however many writes fail, and  *)
(* wherever a process is killed, the path holds a whole session.           *)
THEOREM FileStaysWhole == Spec => []FileIsWhole
<1>1. SaveInv => FileIsWhole
  BY DEF SaveInv
<1> QED
  BY <1>1, SaveInvHolds, PTL

(* _execute and _report: a result line that says done or blocked follows a *)
(* write of just that session.                                             *)
THEOREM FinishedStaysKept == Spec => []FinishedIsKept
<1>1. SaveInv => FinishedIsKept
  BY DEF SaveInv, FinishedIsKept, Sound, ResultIsTrue
<1> QED
  BY <1>1, SaveInvHolds, PTL

(* reopen and the dispatch: a request is never sent with calls still open, *)
(* whether the session is new, was resumed, or was saved by another.       *)
THEOREM RequestsStayAnswered == Spec => []RequestsAreAnswered
<1>1. SaveInv => RequestsAreAnswered
  BY DEF SaveInv, RequestsAreAnswered, Sound, CallsAnswered
<1> QED
  BY <1>1, SaveInvHolds, PTL
=============================================================================
