------------------------ MODULE ProcessGroupsProofs ------------------------
(***************************************************************************)
(* Theorems about ProcessGroups, for any set of group numbers and any      *)
(* number of runs, calls and looks.                                        *)
(***************************************************************************)
EXTENDS ProcessGroups, SequenceTheorems, FiniteSetTheorems, TLAPS

(* The group a call still answers for.                                     *)
Owned ==
  IF call.pc \in {"talk", "probe", "sleep"} \/ spawn \in {"connecting", "up"}
  THEN {call.pgid}
  ELSE {}

(* It is of this run, and stays the call's: its number is not given away.  *)
CallOwnsGroup ==
  \A g \in Owned : group[g].of = call.tool /\ group[g].run = runs

(* Whatever still runs is recorded, escaped, or a call answers for it.     *)
LivesKnown ==
  \A g \in Pgids : Lives(g) => g \in Numbers(recorded) \cup escaped \cup Owned

RunsAreBehind == \A g \in Pgids : group[g].run <= runs

InHeadlessRun == life.front = "headless" /\ life.pc \in {"running", "stopping"}

(* What a headless run started is among what it reported, and nothing      *)
(* else is.                                                                *)
RunIsReported ==
  InHeadlessRun =>
    \A g \in Pgids : Lives(g) /\ group[g].run = runs => g \in Reported \cup escaped \cup Owned

ReportIsOfRun ==
  InHeadlessRun => \A g \in Reported : group[g].of = "bash" => group[g].run = runs

(* _lingers asks as often as it may, and not once more.                    *)
LooksLeft == call.pc \in {"spawn", "talk", "probe"} => call.looks < Looks

(* Only the terminal interface asks about groups.                          *)
HeadlessIsBare == life.front = "headless" => screens = <<>> /\ ~ life.quits

(* Asked about before it exits, the app runs nothing more.                 *)
QuitsWait == \A i \in 1 .. Len(screens) : screens[i].quits => life.quits /\ life.pc = "idle"

GroupsInv ==
  /\ TypeOK /\ QuitsWait /\ HeadlessIsBare /\ LooksLeft
  /\ CallOwnsGroup /\ LivesKnown /\ RunsAreBehind /\ RunIsReported /\ ReportIsOfRun

-----------------------------------------------------------------------------
(* A set of naturals that has 0 and every successor has them all: mapped   *)
(* to its successor, no x below n could be mapped twice.                   *)
LEMMA NatIsInductive ==
  ASSUME NEW S, 0 \in S, \A n \in Nat : n \in S => n + 1 \in S
  PROVE  \A n \in Nat : n \in S
<1> SUFFICES ASSUME NEW n \in Nat, n \notin S PROVE FALSE
  OBVIOUS
<1> DEFINE T == (0 .. n) \cap S
           U == T \ {0}
           next == [x \in T |-> x + 1]
<1>1. IsFiniteSet(T)
  <2>1. IsFiniteSet(0 .. n)
    BY FS_Interval
  <2>2. T \in SUBSET (0 .. n)
    OBVIOUS
  <2> QED
    BY <2>1, <2>2, FS_Subset
<1>2. IsFiniteSet(U) /\ Cardinality(U) < Cardinality(T)
  <2>1. 0 \in T
    OBVIOUS
  <2>2. IsFiniteSet(U) /\ Cardinality(U) = Cardinality(T) - 1
    BY <1>1, <2>1, FS_RemoveElement
  <2> QED
    BY <1>1, <2>2, FS_CardinalityType
<1>3. next \in [T -> U]
  OBVIOUS
<1>4. \E x, y \in T : x # y /\ next[x] = next[y]
  <2> HIDE DEF T, U, next
  <2> QED
    BY <1>1, <1>2, <1>3, FS_PigeonHole
<1> QED
  BY <1>4

(* The numbers of a list that grows.                                       *)
LEMMA NumbersOfAppend ==
  ASSUME NEW s \in Seq(Pgids), NEW g \in Pgids
  PROVE  Numbers(Append(s, g)) = Numbers(s) \cup {g}
<1> DEFINE t == Append(s, g)
<1>1. Len(t) = Len(s) + 1 /\ t[Len(s) + 1] = g /\ Len(s) \in Nat
  OBVIOUS
<1>2. \A i \in 1 .. Len(s) : t[i] = s[i]
  OBVIOUS
<1>3. 1 .. Len(t) = (1 .. Len(s)) \cup {Len(s) + 1}
  BY <1>1
<1> HIDE DEF t
<1>4. {t[i] : i \in 1 .. Len(t)} = {s[i] : i \in 1 .. Len(s)} \cup {g}
  BY <1>1, <1>2, <1>3
<1> QED
  BY <1>4 DEF Numbers, t

(* What Without has kept after each entry.                                 *)
Keeps(f, s, gone, n) ==
  f = [i \in 0 .. n |-> IF i = 0 THEN << >>
                        ELSE IF s[i] \in gone THEN f[i - 1] ELSE Append(f[i - 1], s[i])]

LEMMA KeepsExists ==
  ASSUME NEW s, NEW gone
  PROVE  \A n \in Nat : \E f : Keeps(f, s, gone, n)
<1> DEFINE S == {n \in Nat : \E f : Keeps(f, s, gone, n)}
<1>1. 0 \in S
  <2> DEFINE f == [i \in 0 .. 0 |-> << >>]
  <2>1. Keeps(f, s, gone, 0)
    BY DEF Keeps
  <2> QED
    BY <2>1
<1>2. ASSUME NEW n \in Nat, n \in S
      PROVE  n + 1 \in S
  <2>1. PICK f : Keeps(f, s, gone, n)
    BY <1>2
  <2> DEFINE g == [i \in 0 .. n + 1 |->
                     IF i = n + 1
                     THEN IF s[i] \in gone THEN f[i - 1] ELSE Append(f[i - 1], s[i])
                     ELSE f[i]]
  <2>2. \A i \in 0 .. n : g[i] = f[i]
    OBVIOUS
  <2>3. \A i \in 0 .. n :
           f[i] = IF i = 0 THEN << >>
                  ELSE IF s[i] \in gone THEN f[i - 1] ELSE Append(f[i - 1], s[i])
    BY <2>1 DEF Keeps
  <2>4. ASSUME NEW i \in 0 .. n + 1
        PROVE  g[i] = IF i = 0 THEN << >>
                      ELSE IF s[i] \in gone THEN g[i - 1] ELSE Append(g[i - 1], s[i])
    <3>1. CASE i = n + 1
      <4>1. i # 0 /\ i - 1 \in 0 .. n /\ g[i - 1] = f[i - 1]
        BY <3>1, <2>2
      <4> QED
        BY <3>1, <4>1
    <3>2. CASE i \in 0 .. n
      <4>1. i # 0 => i - 1 \in 0 .. n /\ g[i - 1] = f[i - 1]
        BY <3>2, <2>2
      <4>2. g[i] = f[i]
        BY <3>2, <2>2
      <4> QED
        BY <3>2, <4>1, <4>2, <2>3
    <3> QED
      BY <3>1, <3>2
  <2>5. Keeps(g, s, gone, n + 1)
    <3> DEFINE h == [i \in 0 .. n + 1 |->
                       IF i = 0 THEN << >>
                       ELSE IF s[i] \in gone THEN g[i - 1] ELSE Append(g[i - 1], s[i])]
    <3>1. g = h
      <4>1. DOMAIN g = DOMAIN h
        OBVIOUS
      <4>2. \A i \in 0 .. n + 1 : g[i] = h[i]
        BY <2>4
      <4> HIDE <2>4
      <4> QED
        BY <4>2
    <3> QED
      BY <3>1 DEF Keeps
  <2> QED
    BY <2>5
<1> HIDE DEF S
<1>3. \A n \in Nat : n \in S
  BY <1>1, <1>2, NatIsInductive
<1> QED
  BY <1>3 DEF S

LEMMA WithoutIsKept ==
  ASSUME NEW s \in Seq(Pgids), NEW gone
  PROVE  \E f : Keeps(f, s, gone, Len(s)) /\ Without(s, gone) = f[Len(s)]
<1> DEFINE f == CHOOSE g : Keeps(g, s, gone, Len(s))
<1>1. Len(s) \in Nat
  OBVIOUS
<1>2. Keeps(f, s, gone, Len(s))
  BY <1>1, KeepsExists
<1>3. Without(s, gone) = f[Len(s)]
  BY DEF Without, Keeps
<1> QED
  BY <1>2, <1>3

(* The numbers of a list without some.                                     *)
LEMMA NumbersOfWithout ==
  ASSUME NEW s \in Seq(Pgids), NEW gone
  PROVE  /\ Without(s, gone) \in Seq(Pgids)
         /\ Numbers(Without(s, gone)) = Numbers(s) \ gone
<1> DEFINE Heads(n) == {s[i] : i \in 1 .. n}
<1>1. PICK f : Keeps(f, s, gone, Len(s)) /\ Without(s, gone) = f[Len(s)]
  BY WithoutIsKept
<1>2. /\ f[0] = << >>
      /\ \A i \in 1 .. Len(s) :
           f[i] = IF s[i] \in gone THEN f[i - 1] ELSE Append(f[i - 1], s[i])
  <2> DEFINE g == [i \in 0 .. Len(s) |->
                     IF i = 0 THEN << >>
                     ELSE IF s[i] \in gone THEN f[i - 1] ELSE Append(f[i - 1], s[i])]
  <2>1. \A i \in 0 .. Len(s) :
           g[i] = IF i = 0 THEN << >>
                  ELSE IF s[i] \in gone THEN f[i - 1] ELSE Append(f[i - 1], s[i])
    OBVIOUS
  <2>2. f = g
    BY <1>1 DEF Keeps
  <2>3. Len(s) \in Nat
    OBVIOUS
  <2> HIDE DEF g
  <2>4. \A i \in 0 .. Len(s) : f[i] = g[i]
    BY <2>2
  <2> QED
    BY <2>1, <2>3, <2>4
<1> DEFINE Stays(n) == f[n] \in Seq(Pgids) /\ Numbers(f[n]) = Heads(n) \ gone
           S == {n \in Nat : n <= Len(s) => Stays(n)}
<1>3. 0 \in S
  <2>1. Numbers(<< >>) = {} /\ Heads(0) = {} /\ << >> \in Seq(Pgids)
    BY DEF Numbers
  <2> HIDE DEF Heads
  <2> QED
    BY <1>2, <2>1
<1>4. ASSUME NEW n \in Nat, n \in S
      PROVE  n + 1 \in S
  <2> SUFFICES ASSUME n + 1 <= Len(s) PROVE Stays(n + 1)
    OBVIOUS
  <2>1. Stays(n)
    BY <1>4
  <2>2. n + 1 \in 1 .. Len(s) /\ s[n + 1] \in Pgids
    OBVIOUS
  <2>3. Heads(n + 1) = Heads(n) \cup {s[n + 1]}
    <3>1. 1 .. n + 1 = (1 .. n) \cup {n + 1}
      OBVIOUS
    <3> QED
      BY <3>1
  <2>4. f[n + 1] = IF s[n + 1] \in gone THEN f[n] ELSE Append(f[n], s[n + 1])
    BY <1>2, <2>2
  <2> HIDE DEF Heads
  <2>5. CASE s[n + 1] \in gone
    BY <2>1, <2>3, <2>4, <2>5
  <2>6. CASE s[n + 1] \notin gone
    <3>1. f[n + 1] = Append(f[n], s[n + 1])
      BY <2>4, <2>6
    <3>2. Numbers(f[n + 1]) = Numbers(f[n]) \cup {s[n + 1]}
      BY <2>1, <2>2, <3>1, NumbersOfAppend
    <3> QED
      BY <2>1, <2>2, <2>3, <2>6, <3>1, <3>2
  <2> QED
    BY <2>5, <2>6
<1> HIDE DEF S
<1>5. \A n \in Nat : n \in S
  BY <1>3, <1>4, NatIsInductive
<1>6. Stays(Len(s))
  BY <1>5 DEF S
<1> QED
  BY <1>1, <1>6 DEF Numbers

-----------------------------------------------------------------------------
(* What a step does to the groups and the call, unless it starts one:      *)
(* nothing comes to life, and a group the call no longer answers for is    *)
(* dead or escaped.                                                        *)
GroupsGoOn ==
  /\ group' \in [Pgids -> Group]
  /\ \A g \in Pgids : /\ Lives(g)' => Lives(g)
                      /\ group'[g].of = "bash" => group[g].of = "bash"
                                                 /\ group'[g].run = group[g].run
                      /\ group'[g].run <= group[g].run
  /\ \A g \in Owned' : group'[g].of = group[g].of /\ group'[g].run = group[g].run

CallTyped ==
  /\ call \in Call
  /\ spawn \in {"off", "new", "connecting", "up", "failed"}
  /\ spawn # "off" <=> call.pc \in {"spawn", "reap", "cleanup"}
  /\ call.pc = "cleanup" => call.tool = "command"
  /\ spawn \in {"connecting", "up"} \/ call.pc \in {"talk", "probe", "sleep", "wait"} =>
       call.pgid # None
  /\ escaped \subseteq Pgids

CallGoesOn ==
  /\ CallTyped' /\ LooksLeft'
  /\ call'.pc # "idle" => call.pc # "idle"
  /\ escaped \subseteq escaped'
  /\ Owned' \subseteq Owned
  /\ Owned' # {} => call'.tool = call.tool
  /\ \A g \in Owned : g \in Owned' \cup escaped' \/ ~ Lives(g)'

-----------------------------------------------------------------------------
(* The types.                                                              *)
LEMMA IdleOwnsNothing ==
  ASSUME TypeOK, call.pc = "idle" \/ call.pc = "wait"
  PROVE  spawn = "off" /\ Owned = {}
  BY DEF TypeOK, Owned

LEMMA OwnedIsAGroup ==
  ASSUME TypeOK
  PROVE  Owned \subseteq Pgids
  BY DEF TypeOK, Owned, Call

(* A group whose members change.                                           *)
LEMMA LeftOfIsTyped ==
  ASSUME NEW h \in Group, NEW m \in SUBSET {"leader", "child"}
  PROVE  /\ LeftOf(h, m) \in Group
         /\ LeftOf(h, m).of = h.of
         /\ LeftOf(h, m).run = h.run
         /\ LeftOf(h, m).members = m
<1> DEFINE pipe == h.pipe /\ "child" \in m
           first == [of |-> h.of, run |-> h.run, members |-> m, pipe |-> h.pipe]
           then == [of |-> h.of, run |-> h.run, members |-> m, pipe |-> pipe]
<1>1. [h EXCEPT !.members = m] = first
  BY DEF Group
<1>2. pipe \in BOOLEAN
  BY DEF Group
<1>3. LeftOf(h, m) = [[h EXCEPT !.members = m] EXCEPT !.pipe = @ /\ "child" \in m]
  BY DEF LeftOf
<1>4. first.pipe = h.pipe
  OBVIOUS
<1>5. ASSUME NEW u, u = first, NEW p
      PROVE  [u EXCEPT !.pipe = p] = [first EXCEPT !.pipe = p]
  BY <1>5
<1>6. LeftOf(h, m) = [first EXCEPT !.pipe = pipe]
  BY <1>1, <1>3, <1>4
<1>7. \A p : [first EXCEPT !.pipe = p]
             = [of |-> h.of, run |-> h.run, members |-> m, pipe |-> p]
  OBVIOUS
<1> HIDE DEF pipe, first
<1>8. LeftOf(h, m) = then
  BY <1>6, <1>7, Zenon
<1>9. h.of \in {None, "other"} \cup Tools /\ h.run \in 0 .. MaxRuns
  BY DEF Group
<1> QED
  BY <1>2, <1>8, <1>9 DEF Group

LEMMA ForkedIsTyped ==
  ASSUME NEW h \in Group, NEW pipe \in BOOLEAN
  PROVE  Forked(h, pipe) \in Group /\ Forked(h, pipe).of = h.of /\ Forked(h, pipe).run = h.run
<1> DEFINE both == {"leader", "child"}
           first == [of |-> h.of, run |-> h.run, members |-> both, pipe |-> h.pipe]
           then == [of |-> h.of, run |-> h.run, members |-> both, pipe |-> pipe]
<1>1. [h EXCEPT !.members = both] = first
  BY DEF Group
<1>2. ASSUME NEW u, u = first
      PROVE  [u EXCEPT !.pipe = pipe] = then
  BY <1>2
<1>3. then \in Group /\ then.of = h.of /\ then.run = h.run
  BY DEF Group
<1> HIDE DEF first, then
<1>4. Forked(h, pipe) = then
  BY <1>1, <1>2, Zenon DEF Forked
<1> QED
  BY <1>3, <1>4

LEMMA KilledIsTyped ==
  ASSUME TypeOK, NEW gs
  PROVE  /\ Killed(gs) \in [Pgids -> Group]
         /\ \A g \in Pgids : /\ Killed(gs)[g].of = group[g].of
                             /\ Killed(gs)[g].run = group[g].run
                             /\ g \in gs => Killed(gs)[g].members = {}
                             /\ g \notin gs => Killed(gs)[g] = group[g]
<1>1. \A g \in Pgids : group[g] \in Group
  BY DEF TypeOK
<1>2. \A g \in Pgids : /\ LeftOf(group[g], {}) \in Group
                       /\ LeftOf(group[g], {}).of = group[g].of
                       /\ LeftOf(group[g], {}).run = group[g].run
                       /\ LeftOf(group[g], {}).members = {}
  BY <1>1, LeftOfIsTyped
<1> QED
  BY <1>1, <1>2 DEF Killed

LEMMA KeptIsTyped ==
  ASSUME TypeOK
  PROVE  Kept \in Seq(Pgids) /\ Numbers(Kept) = {g \in Numbers(recorded) : Alive(g)}
<1>1. Numbers(recorded) \subseteq Pgids
  BY DEF TypeOK, Numbers
<1> QED
  BY <1>1, NumbersOfWithout DEF TypeOK, Kept

LEMMA StartsAs ==
  ASSUME NEW t
  PROVE  [NoCall EXCEPT !.pc = "spawn", !.tool = t]
           = [pc |-> "spawn", tool |-> t, pgid |-> None, looks |-> 0]
<1>1. [NoCall EXCEPT !.pc = "spawn"]
        = [pc |-> "spawn", tool |-> None, pgid |-> None, looks |-> 0]
  BY DEF NoCall
<1>2. ASSUME NEW u, u = [pc |-> "spawn", tool |-> None, pgid |-> None, looks |-> 0]
      PROVE  [u EXCEPT !.tool = t] = [pc |-> "spawn", tool |-> t, pgid |-> None, looks |-> 0]
  BY <1>2
<1> QED
  BY <1>1, <1>2, Zenon

LEMMA SleepsAs ==
  ASSUME TypeOK
  PROVE  [call EXCEPT !.pc = "sleep", !.looks = @ + 1]
           = [pc |-> "sleep", tool |-> call.tool, pgid |-> call.pgid, looks |-> call.looks + 1]
<1> DEFINE slept == [pc |-> "sleep", tool |-> call.tool, pgid |-> call.pgid,
                     looks |-> call.looks]
<1>1. [call EXCEPT !.pc = "sleep"] = slept
  BY DEF TypeOK, Call
<1>2. ASSUME NEW u, u = slept
      PROVE  [u EXCEPT !.looks = @ + 1]
               = [pc |-> "sleep", tool |-> call.tool, pgid |-> call.pgid,
                  looks |-> call.looks + 1]
  BY <1>2
<1> HIDE DEF slept
<1> QED
  BY <1>1, <1>2, Zenon

LEMMA CallsAreCalls ==
  ASSUME TypeOK
  PROVE  /\ NoCall \in Call
         /\ \A t \in Tools : [NoCall EXCEPT !.pc = "spawn", !.tool = t] \in Call
         /\ \A pc \in {"spawn", "reap", "cleanup", "talk", "probe", "sleep", "wait"} :
              [call EXCEPT !.pc = pc] \in Call
         /\ \A g \in Pgids : [call EXCEPT !.pgid = g] \in Call
         /\ call.looks < Looks => [call EXCEPT !.pc = "sleep", !.looks = @ + 1] \in Call
<1>1. call \in Call /\ Looks \in Nat
  BY GroupsAssumption DEF TypeOK
<1>3. NoCall \in Call
  BY <1>1 DEF NoCall, Call
<1>4. ASSUME NEW t \in Tools
      PROVE  [NoCall EXCEPT !.pc = "spawn", !.tool = t] \in Call
  <2>1. [pc |-> "spawn", tool |-> t, pgid |-> None, looks |-> 0] \in Call
    BY <1>1 DEF Call
  <2> QED
    BY <2>1, StartsAs, Zenon
<1>5. ASSUME NEW pc \in {"spawn", "reap", "cleanup", "talk", "probe", "sleep", "wait"}
      PROVE  [call EXCEPT !.pc = pc] \in Call
  BY <1>1 DEF Call
<1>6. ASSUME NEW g \in Pgids
      PROVE  [call EXCEPT !.pgid = g] \in Call
  BY <1>1 DEF Call
<1>7. ASSUME call.looks < Looks
      PROVE  [call EXCEPT !.pc = "sleep", !.looks = @ + 1] \in Call
  <2>1. [pc |-> "sleep", tool |-> call.tool, pgid |-> call.pgid, looks |-> call.looks + 1]
          \in Call
    BY <1>1, <1>7 DEF Call
  <2> QED
    BY <2>1, SleepsAs, Zenon
<1> QED
  BY <1>3, <1>4, <1>5, <1>6, <1>7

LEMMA MachineGoesOn ==
  ASSUME TypeOK, Machine
  PROVE  GroupsGoOn /\ UNCHANGED <<callVars, lifeVars, escaped>>
<1>1. PICK g \in Pgids : Forks(g) \/ Exits(g) \/ Taken(g)
  BY DEF Machine
<1>2. UNCHANGED <<callVars, lifeVars, escaped>>
  BY <1>1 DEF Forks, Exits, Taken
<1>t. group \in [Pgids -> Group] /\ group[g] \in Group /\ Owned \subseteq {call.pgid}
  BY DEF TypeOK, Owned
<1>o. Owned' = Owned
  BY <1>2 DEF Owned, callVars
<1>3. GroupsGoOn
  <2> USE DEF GroupsGoOn, Lives, Alive
  <2>1. CASE Forks(g)
    <3>1. PICK pipe \in BOOLEAN : group' = [group EXCEPT ![g] = Forked(group[g], pipe)]
      BY <2>1 DEF Forks
    <3>2. /\ Forked(group[g], pipe) \in Group
          /\ Forked(group[g], pipe).of = group[g].of
          /\ Forked(group[g], pipe).run = group[g].run
      BY <1>t, ForkedIsTyped
    <3>3. Alive(g)
      BY <2>1 DEF Forks
    <3> QED
      BY <1>t, <1>o, <3>1, <3>2, <3>3, OwnedIsAGroup DEF Group
  <2>2. CASE Exits(g)
    <3>1. PICK m \in group[g].members :
             group' = [group EXCEPT ![g] = LeftOf(group[g], group[g].members \ {m})]
      BY <1>t, <2>2 DEF Exits
    <3>m. group[g].members \ {m} \in SUBSET {"leader", "child"}
      BY <1>t DEF Group
    <3> DEFINE h == LeftOf(group[g], group[g].members \ {m})
    <3>2. h \in Group /\ h.of = group[g].of /\ h.run = group[g].run
      BY <1>t, <3>m, LeftOfIsTyped
    <3>3. group' = [group EXCEPT ![g] = h]
      BY <3>1
    <3>4. Alive(g)
      BY <3>1
    <3> HIDE DEF h
    <3> QED
      BY <1>t, <1>o, <3>2, <3>3, <3>4, OwnedIsAGroup DEF Group
  <2>3. CASE Taken(g)
    <3>1. LeaderOf("other", 0) \in Group
      BY GroupsAssumption DEF LeaderOf, Group
    <3>2. g \notin Owned
      BY <1>t, <2>3 DEF Taken
    <3> QED
      BY <1>t, <1>o, <2>3, <3>1, <3>2, OwnedIsAGroup DEF Taken, LeaderOf, Group
  <2> QED
    BY <1>1, <2>1, <2>2, <2>3
<1> QED
  BY <1>2, <1>3

(* A kill, or no change at all, lets the groups go on.                     *)
LEMMA KillGoesOn ==
  ASSUME TypeOK, Owned' \subseteq Owned, NEW gs, group' = Killed(gs) \/ group' = group
  PROVE  GroupsGoOn
<1>1. group \in [Pgids -> Group] /\ \A g \in Pgids : group[g].run \in Nat
  BY GroupsAssumption DEF TypeOK, Group
<1>2. CASE group' = Killed(gs)
  BY <1>1, <1>2, KilledIsTyped, OwnedIsAGroup DEF GroupsGoOn, Lives, Alive
<1>3. CASE group' = group
  BY <1>1, <1>3, OwnedIsAGroup DEF GroupsGoOn, Lives, Alive
<1> QED
  BY <1>2, <1>3

LEMMA AbandonedGoesOn ==
  ASSUME TypeOK, Owned' \subseteq Owned, Abandoned
  PROVE  /\ GroupsGoOn
         /\ escaped \subseteq escaped' /\ escaped' \subseteq Pgids
         /\ spawn \in {"connecting", "up"} => call.pgid \in escaped'
<1>t. /\ group \in [Pgids -> Group] /\ escaped \subseteq Pgids
      /\ \A g \in Pgids : group[g] \in Group /\ group[g].run \in Nat
  BY GroupsAssumption DEF TypeOK, Group
<1>1. CASE spawn \in {"connecting", "up"}
  <2>1. call.pgid \in Pgids
    BY <1>1 DEF TypeOK, Call
  <2>2. PICK m \in SUBSET {"leader", "child"} : m = group[call.pgid].members \ {"leader"}
    BY <1>t, <2>1 DEF Group
  <2> DEFINE h == LeftOf(group[call.pgid], m)
  <2>3. group' = [group EXCEPT ![call.pgid] = h] /\ escaped' = escaped \cup {call.pgid}
    BY <1>t, <1>1, <2>1, <2>2 DEF Abandoned
  <2>g. group[call.pgid] \in Group
    BY <1>t, <2>1
  <2>4. h \in Group /\ h.of = group[call.pgid].of /\ h.run = group[call.pgid].run
    BY <2>g, LeftOfIsTyped
  <2>m. h.members \subseteq group[call.pgid].members
    BY <2>g, <2>2, LeftOfIsTyped DEF Group
  <2> HIDE DEF h
  <2>5. GroupsGoOn
    BY <1>t, <2>1, <2>3, <2>4, <2>m, OwnedIsAGroup DEF GroupsGoOn, Lives, Alive
  <2> QED
    BY <1>t, <2>1, <2>3, <2>5
<1>2. CASE spawn \notin {"connecting", "up"}
  <2>1. UNCHANGED <<group, escaped>>
    BY <1>2 DEF Abandoned
  <2> QED
    BY <1>t, <1>2, <2>1, KillGoesOn
<1> QED
  BY <1>1, <1>2

LEMMA CallGoesTo ==
  ASSUME TypeOK, NEW pc \in {"spawn", "reap", "cleanup", "talk", "probe", "sleep", "wait"}
  PROVE  /\ [call EXCEPT !.pc = pc] \in Call
         /\ [call EXCEPT !.pc = pc].pc = pc
         /\ [call EXCEPT !.pc = pc].pgid = call.pgid
         /\ [call EXCEPT !.pc = pc].tool = call.tool
         /\ [call EXCEPT !.pc = pc].looks = call.looks
<1>1. call \in Call
  BY DEF TypeOK
<1>2. [call EXCEPT !.pc = pc] \in Call
  BY CallsAreCalls
<1> QED
  BY <1>1, <1>2 DEF Call

(* A cancel of the call, wherever it finds it.                             *)
LEMMA CancelGoesOn ==
  ASSUME TypeOK, LooksLeft, CallOwnsGroup, Cancel
  PROVE  GroupsGoOn /\ CallGoesOn
<1>t. CallTyped /\ \A g \in Owned : g \in Pgids
  BY OwnedIsAGroup DEF TypeOK, CallTyped
<1>1. CASE CancelledSpawn
  <2>1. [call EXCEPT !.pc = "reap"] \in Call
    BY CallsAreCalls
  <2>2. CallGoesOn
    BY <1>t, <1>1, <2>1 DEF CancelledSpawn, CallGoesOn, CallTyped, Owned, Call, LooksLeft
  <2> QED
    BY <1>1, <2>2, KillGoesOn DEF CancelledSpawn, CallGoesOn
<1>2. CASE CancelledCommand
  <2>1. /\ call.pc = "spawn" /\ Abandoned
        /\ spawn \in {"new", "connecting", "up", "failed"}
    BY <1>t, <1>2 DEF CancelledCommand, CallTyped
  <2>2. Owned \subseteq {call.pgid} /\ (Owned # {} => spawn \in {"connecting", "up"})
    BY <2>1 DEF Owned
  <2>3. CASE spawn = "connecting"
    <3>1. call' = [call EXCEPT !.pc = "cleanup"] /\ spawn' = spawn
      BY <1>2, <2>3 DEF CancelledCommand
    <3>2. call' \in Call /\ call'.pc = "cleanup" /\ call'.pgid = call.pgid
          /\ call'.tool = call.tool
      BY <3>1, CallGoesTo
    <3>3. Owned' \subseteq Owned
      BY <2>3, <3>1, <3>2 DEF Owned
    <3>4. GroupsGoOn /\ escaped \subseteq escaped' /\ escaped' \subseteq Pgids
          /\ (spawn \in {"connecting", "up"} => call.pgid \in escaped')
      BY <2>1, <3>3, AbandonedGoesOn
    <3> QED
      <4>1. CallTyped' /\ LooksLeft'
        BY <1>t, <1>2, <2>1, <2>3, <3>1, <3>2, <3>4 DEF LooksLeft, CallTyped, CancelledCommand
      <4>2. \A g \in Owned : g \in escaped'
        BY <2>2, <2>3, <3>4
      <4> QED
        BY <2>1, <3>2, <3>3, <3>4, <4>1, <4>2 DEF CallGoesOn
  <2>4. CASE spawn = "up"
    <3>1. call' = [call EXCEPT !.pc = "wait"] /\ spawn' = "off"
      BY <1>2, <2>4 DEF CancelledCommand
    <3>2. call' \in Call /\ call'.pc = "wait" /\ call'.pgid = call.pgid
      BY <3>1, CallGoesTo
    <3>3. Owned' = {}
      BY <3>1, <3>2 DEF Owned
    <3>4. GroupsGoOn /\ escaped \subseteq escaped' /\ escaped' \subseteq Pgids
          /\ (spawn \in {"connecting", "up"} => call.pgid \in escaped')
      BY <2>1, <3>3, AbandonedGoesOn
    <3> QED
      BY <1>t, <2>1, <2>2, <2>4, <3>1, <3>2, <3>3, <3>4 DEF CallGoesOn, LooksLeft, CallTyped
  <2>5. CASE spawn \in {"new", "failed"}
    <3>1. call' = NoCall /\ spawn' = "off" /\ Owned' = {} /\ Owned = {}
      BY <1>2, <2>1, <2>5 DEF CancelledCommand, Owned, NoCall
    <3>2. GroupsGoOn /\ escaped \subseteq escaped' /\ escaped' \subseteq Pgids
      BY <2>1, <3>1, AbandonedGoesOn
    <3>3. CallTyped'
      BY <3>1, <3>2, CallsAreCalls DEF CallTyped, NoCall
    <3> QED
      BY <3>1, <3>2, <3>3 DEF CallGoesOn, NoCall, LooksLeft
  <2> QED
    BY <2>1, <2>3, <2>4, <2>5
<1>3. CASE CancelledCall
  <2>1. /\ spawn' = spawn /\ escaped' = escaped /\ spawn = "off"
        /\ call' = [call EXCEPT !.pc = "wait"] \/ call' = NoCall
        /\ group' = Killed({call.pgid})
    BY <1>3, <1>t DEF CancelledCall, Guarded, CallTyped
  <2>2. Owned = {call.pgid} /\ call.pgid \in Pgids /\ call.pgid # None
    BY <1>3, <1>t DEF CancelledCall, Owned, CallTyped
  <2>3. /\ Owned' = {} /\ call'.pc \in {"wait", "idle"}
        /\ call'.pc = "wait" => call'.pgid = call.pgid
    BY <1>t, <2>1 DEF Owned, NoCall, CallTyped, Call
  <2>4. CallTyped'
    BY <1>t, <2>1, <2>2, <2>3, CallsAreCalls DEF CallTyped
  <2>5. \A g \in Owned : ~ Lives(g)'
    BY <2>1, <2>2, KilledIsTyped DEF Alive, Lives
  <2>6. GroupsGoOn
    BY <2>1, <2>3, KillGoesOn
  <2> QED
    BY <1>3, <2>1, <2>3, <2>4, <2>5, <2>6 DEF CallGoesOn, LooksLeft, CancelledCall
<1>4. CASE CancelledRest
  <2>1. Owned = {} /\ spawn = "off"
    BY <1>4, IdleOwnsNothing DEF CancelledRest
  <2>2. call' = NoCall /\ UNCHANGED <<group, spawn, escaped>> /\ Owned' = {}
    BY <1>4, <2>1 DEF CancelledRest, Owned, NoCall
  <2>3. CallTyped'
    BY <1>t, <2>1, <2>2, CallsAreCalls DEF CallTyped, NoCall
  <2> QED
    BY <2>1, <2>2, <2>3, KillGoesOn DEF CallGoesOn, NoCall, LooksLeft
<1> QED
  BY <1>1, <1>2, <1>3, <1>4 DEF Cancel

(* The steps of a call that has its group, or will never get one.          *)
CallSteps ==
  \/ Connects \/ SpawnFails \/ Started \/ Said \/ TimesOut \/ Asks \/ AsksAgain
  \/ Waited \/ Reaps \/ GivesUp \/ CleansUp

LEMMA CallStepsGoOn ==
  ASSUME TypeOK, LooksLeft, CallOwnsGroup, CallSteps
  PROVE  GroupsGoOn /\ CallGoesOn /\ UNCHANGED lifeVars
<1>t. CallTyped /\ \A g \in Owned : g \in Pgids
  BY OwnedIsAGroup DEF TypeOK, CallTyped
<1>c. \A pc \in {"spawn", "reap", "cleanup", "talk", "probe", "sleep", "wait"} :
         /\ [call EXCEPT !.pc = pc] \in Call
         /\ [call EXCEPT !.pc = pc].pc = pc
         /\ [call EXCEPT !.pc = pc].pgid = call.pgid
         /\ [call EXCEPT !.pc = pc].tool = call.tool
         /\ [call EXCEPT !.pc = pc].looks = call.looks
  BY CallGoesTo
<1>n. NoCall \in Call /\ NoCall.pc = "idle"
  BY CallsAreCalls DEF NoCall
<1>1. CASE Connects
  <2>1. CallGoesOn
    BY <1>t, <1>1 DEF Connects, CallGoesOn, LooksLeft, CallTyped, Owned
  <2> QED
    BY <1>1, <2>1, KillGoesOn DEF Connects, CallGoesOn
<1>2. CASE SpawnFails
  <2>1. /\ spawn' = "failed" /\ UNCHANGED <<call, lifeVars>> /\ Abandoned
        /\ call.pc \in {"spawn", "reap", "cleanup"}
    BY <1>t, <1>2 DEF SpawnFails, CallTyped
  <2>2. Owned' = {} /\ Owned \subseteq {call.pgid}
        /\ (Owned # {} => spawn \in {"connecting", "up"})
    BY <2>1 DEF Owned
  <2>3. GroupsGoOn /\ escaped \subseteq escaped' /\ escaped' \subseteq Pgids
        /\ (spawn \in {"connecting", "up"} => call.pgid \in escaped')
    BY <2>1, <2>2, AbandonedGoesOn
  <2> QED
    BY <1>t, <2>1, <2>2, <2>3 DEF CallGoesOn, LooksLeft, CallTyped
<1>3. CASE Started
  <2>1. CallGoesOn
    BY <1>t, <1>c, <1>n, <1>3 DEF Started, CallGoesOn, LooksLeft, CallTyped, Owned
  <2> QED
    BY <1>3, <2>1, KillGoesOn DEF Started, CallGoesOn
<1>4. CASE Said
  <2>1. call.pgid \in Owned /\ spawn = "off"
    BY <1>t, <1>4 DEF Said, Owned, CallTyped
  <2>2. call.tool # "bash" => \A g \in Owned : ~ Lives(g)'
    BY <1>4 DEF Said, CallOwnsGroup, Lives
  <2>3. CallGoesOn
    BY <1>t, <1>c, <1>n, <1>4, <2>1, <2>2 DEF Said, CallGoesOn, LooksLeft, CallTyped, Owned
  <2> QED
    BY <1>4, <2>3, KillGoesOn DEF Said, CallGoesOn
<1>5. CASE TimesOut
  <2>1. /\ group' = Killed({call.pgid}) /\ call' = [call EXCEPT !.pc = "wait"]
        /\ UNCHANGED <<spawn, lifeVars, escaped>> /\ spawn = "off"
        /\ Owned = {call.pgid}
    BY <1>t, <1>5 DEF TimesOut, CallTyped, Owned
  <2>2. ~ Alive(call.pgid)'
    BY <1>t, <2>1, KilledIsTyped DEF Alive
  <2>3. Owned' = {}
    BY <1>c, <2>1 DEF Owned
  <2>4. CallGoesOn
    BY <1>t, <1>c, <1>5, <2>1, <2>2, <2>3 DEF TimesOut, CallGoesOn, LooksLeft, CallTyped, Lives
  <2> QED
    BY <2>1, <2>3, <2>4, KillGoesOn
<1>6. CASE Asks
  <2>1. UNCHANGED <<group, spawn, lifeVars, escaped>> /\ spawn = "off" /\ Owned = {call.pgid}
    BY <1>t, <1>6 DEF Asks, CallTyped, Owned
  <2>2. CallGoesOn
    <3>1. CASE Alive(call.pgid)
      <4>1. call' = [call EXCEPT !.pc = "sleep", !.looks = @ + 1]
        BY <1>6, <3>1 DEF Asks
      <4>2. call' = [pc |-> "sleep", tool |-> call.tool, pgid |-> call.pgid,
                     looks |-> call.looks + 1]
        BY <4>1, SleepsAs, Zenon
      <4>3. call' \in Call
        BY <1>6, <4>1, CallsAreCalls DEF Asks, LooksLeft
      <4> QED
        BY <1>t, <1>6, <2>1, <4>2, <4>3 DEF Asks, CallGoesOn, LooksLeft, CallTyped, Owned, Call
    <3>2. CASE ~ Alive(call.pgid)
      BY <1>t, <1>n, <1>6, <2>1, <3>2
         DEF Asks, CallGoesOn, LooksLeft, CallTyped, Owned, Lives, Alive
    <3> QED
      BY <3>1, <3>2
  <2> QED
    BY <2>1, <2>2, KillGoesOn DEF CallGoesOn
<1>7. CASE AsksAgain
  <2>1. CallGoesOn
    BY <1>t, <1>c, <1>7 DEF AsksAgain, CallGoesOn, LooksLeft, CallTyped, Owned
  <2> QED
    BY <1>7, <2>1, KillGoesOn DEF AsksAgain, CallGoesOn
<1>8. CASE Waited
  <2>1. CallGoesOn
    BY <1>t, <1>n, <1>8 DEF Waited, CallGoesOn, LooksLeft, CallTyped, Owned
  <2> QED
    BY <1>8, <2>1, KillGoesOn DEF Waited, CallGoesOn
<1>9. CASE Reaps
  <2>1. /\ UNCHANGED <<lifeVars, escaped>> /\ spawn' = "off" /\ Owned' = {}
        /\ group' = Killed({call.pgid}) \/ group' = group
    BY <1>t, <1>c, <1>n, <1>9 DEF Reaps, Owned
  <2>2. Owned \subseteq {call.pgid} /\ (Owned # {} => spawn = "up")
    BY <1>9 DEF Reaps, Owned
  <2>3. CallTyped' /\ LooksLeft' /\ (Owned' # {} => call'.tool = call.tool)
    <3>1. CASE spawn = "up"
      <4>1. call' = [call EXCEPT !.pc = "wait"] /\ call.pgid # None
        BY <1>t, <1>9, <3>1 DEF Reaps, CallTyped
      <4>2. call' \in Call /\ call'.pc = "wait" /\ call'.pgid = call.pgid
        BY <1>c, <4>1
      <4> QED
        BY <1>t, <2>1, <4>1, <4>2 DEF LooksLeft, CallTyped
    <3>2. CASE spawn # "up"
      BY <1>t, <1>n, <1>9, <2>1, <3>2 DEF Reaps, LooksLeft, CallTyped
    <3> QED
      BY <3>1, <3>2
  <2>4. \A g \in Owned : ~ Lives(g)'
    <3>1. ASSUME spawn = "up", NEW g \in {call.pgid} PROVE ~ Lives(g)'
      BY <1>t, <1>9, <3>1, KilledIsTyped DEF Reaps, Alive, Lives, CallTyped, Call
    <3> QED
      BY <2>2, <3>1
  <2>5. CallGoesOn
    BY <1>9, <2>1, <2>3, <2>4 DEF Reaps, CallGoesOn
  <2> QED
    BY <2>1, <2>5, KillGoesOn
<1>10. CASE GivesUp
  <2>1. call' = NoCall /\ spawn' = "off" /\ Owned' = {} /\ Abandoned /\ UNCHANGED lifeVars
    BY <1>10, <1>n DEF GivesUp, Owned
  <2>2. Owned \subseteq {call.pgid} /\ (Owned # {} => spawn \in {"connecting", "up"})
    BY <1>10 DEF GivesUp, Overdue, Owned
  <2>3. GroupsGoOn /\ escaped \subseteq escaped' /\ escaped' \subseteq Pgids
        /\ (spawn \in {"connecting", "up"} => call.pgid \in escaped')
    BY <2>1, AbandonedGoesOn
  <2> QED
    BY <1>n, <2>1, <2>2, <2>3 DEF CallGoesOn, LooksLeft, CallTyped
<1>11. CASE CleansUp
  <2>1. /\ call' = NoCall /\ spawn' = "off" /\ UNCHANGED <<group, escaped, lifeVars>>
        /\ Owned' = {}
    BY <1>11, <1>n DEF CleansUp, Owned
  <2>2. \A g \in Owned : ~ Lives(g)'
    BY <1>t, <1>11, <2>1 DEF CleansUp, CallTyped, CallOwnsGroup, Lives
  <2>3. CallTyped'
    BY <1>t, <2>1, CallsAreCalls DEF CallTyped, NoCall
  <2>4. CallGoesOn
    BY <1>n, <2>1, <2>2, <2>3 DEF CallGoesOn, LooksLeft
  <2> QED
    BY <2>1, <2>4, KillGoesOn
<1> QED
  BY <1>1, <1>2, <1>3, <1>4, <1>5, <1>6, <1>7, <1>8, <1>9, <1>10, <1>11 DEF CallSteps

-----------------------------------------------------------------------------
(* Steps that start no group and record none keep what is known of them.   *)
Known == CallOwnsGroup /\ LivesKnown /\ RunsAreBehind /\ RunIsReported /\ ReportIsOfRun

LEMMA GoingOnKeeps ==
  ASSUME GroupsInv, GroupsGoOn, CallGoesOn, UNCHANGED <<recorded, from, runs>>,
         InHeadlessRun' => InHeadlessRun
  PROVE  Known'
<1>t. /\ TypeOK /\ CallOwnsGroup /\ LivesKnown /\ RunsAreBehind /\ RunIsReported
      /\ ReportIsOfRun /\ Owned \subseteq Pgids
      /\ runs \in Nat /\ \A g \in Pgids : group[g].run \in Nat /\ group'[g].run \in Nat
  BY OwnedIsAGroup, GroupsAssumption DEF GroupsInv, GroupsGoOn, TypeOK, Group
<1>1. CallOwnsGroup'
  BY <1>t DEF CallOwnsGroup, GroupsGoOn, CallGoesOn
<1>2. LivesKnown'
  BY <1>t DEF LivesKnown, GroupsGoOn, CallGoesOn, Numbers
<1>3. RunsAreBehind'
  BY <1>t DEF RunsAreBehind, GroupsGoOn
<1>4. RunIsReported'
  <2> SUFFICES ASSUME InHeadlessRun', NEW g \in Pgids, Lives(g)', group'[g].run = runs'
               PROVE  g \in Reported' \cup escaped' \cup Owned'
    BY DEF RunIsReported
  <2>1. Lives(g) /\ group[g].run = runs
    BY DEF GroupsGoOn, Lives
  <2>2. g \in Reported \cup escaped \cup Owned
    BY <1>t, <2>1 DEF RunIsReported
  <2> QED
    BY <2>2 DEF CallGoesOn, Reported
<1>5. ReportIsOfRun'
  <2> SUFFICES ASSUME InHeadlessRun', NEW g \in Reported', group'[g].of = "bash"
               PROVE  group'[g].run = runs'
    BY DEF ReportIsOfRun
  <2>1. g \in Reported /\ g \in Pgids
    BY <1>t DEF Reported, InHeadlessRun, TypeOK
  <2> QED
    BY <1>t, <2>1 DEF ReportIsOfRun, GroupsGoOn
<1> QED
  BY <1>1, <1>2, <1>3, <1>4, <1>5 DEF Known

LEMMA CallStays ==
  ASSUME GroupsInv, UNCHANGED <<callVars, escaped>>
  PROVE  CallGoesOn
  BY DEF GroupsInv, TypeOK, callVars, CallGoesOn, CallTyped, LooksLeft, Owned

(* What may be forgotten, outside of a headless run, is dead.              *)
LEMMA ForgettingKeeps ==
  ASSUME GroupsInv, GroupsGoOn, UNCHANGED <<callVars, escaped, runs>>,
         \A g \in Numbers(recorded) : g \in Numbers(recorded') \/ ~ Lives(g)',
         ~ InHeadlessRun'
  PROVE  Known'
<1>t. /\ TypeOK /\ CallOwnsGroup /\ LivesKnown /\ RunsAreBehind /\ Owned \subseteq Pgids
      /\ runs \in Nat /\ \A g \in Pgids : group[g].run \in Nat /\ group'[g].run \in Nat
  BY OwnedIsAGroup, GroupsAssumption DEF GroupsInv, GroupsGoOn, TypeOK, Group
<1>o. Owned' = Owned
  BY DEF Owned, callVars
<1>1. CallOwnsGroup'
  BY <1>t, <1>o DEF CallOwnsGroup, GroupsGoOn, callVars
<1>2. LivesKnown'
  BY <1>t, <1>o DEF LivesKnown, GroupsGoOn
<1>3. RunsAreBehind'
  BY <1>t DEF RunsAreBehind, GroupsGoOn
<1> QED
  BY <1>1, <1>2, <1>3 DEF Known, RunIsReported, ReportIsOfRun

(* Steps that leave the session, the process and its screens alone.        *)
LEMMA WithinARun ==
  ASSUME GroupsInv, GroupsGoOn, CallGoesOn, UNCHANGED lifeVars
  PROVE  GroupsInv'
<1>1. TypeOK'
  BY DEF GroupsInv, TypeOK, GroupsGoOn, CallGoesOn, CallTyped, lifeVars
<1>2. Known'
  BY GoingOnKeeps DEF lifeVars, InHeadlessRun
<1> QED
  BY <1>1, <1>2 DEF GroupsInv, Known, QuitsWait, HeadlessIsBare, CallGoesOn, lifeVars

-----------------------------------------------------------------------------
(* The steps that start a group or record one.                             *)
LEMMA CallStartsKeeps ==
  ASSUME GroupsInv, NEW tool \in Tools, CallStarts(tool)
  PROVE  GroupsInv'
<1>t. TypeOK
  BY DEF GroupsInv
<1>1. call' = [NoCall EXCEPT !.pc = "spawn", !.tool = tool] /\ call' \in Call
  BY <1>t, CallsAreCalls DEF CallStarts
<1>2. call' = [pc |-> "spawn", tool |-> tool, pgid |-> None, looks |-> 0]
  BY <1>1, StartsAs, Zenon
<1>3. Owned = {} /\ Owned' = {} /\ spawn' = "new"
  BY <1>t, <1>2, IdleOwnsNothing DEF CallStarts, Owned
<1>4. GroupsGoOn
  BY <1>t, <1>3, KillGoesOn DEF CallStarts
<1>5. calls' \in 0 .. MaxCalls
  BY <1>t, GroupsAssumption DEF CallStarts, TypeOK
<1>6. TypeOK'
  BY <1>t, <1>1, <1>2, <1>5 DEF TypeOK, CallStarts
<1>7. LooksLeft'
  BY <1>2, GroupsAssumption DEF LooksLeft
<1>8. Known'
  <2>1. UNCHANGED <<recorded, from, runs, life, escaped>>
    BY DEF CallStarts
  <2> QED
    BY <1>3, <1>4, <2>1
       DEF GroupsInv, Known, CallOwnsGroup, LivesKnown, RunsAreBehind, RunIsReported,
           ReportIsOfRun, GroupsGoOn, CallStarts, Lives, Alive, Reported, InHeadlessRun
<1> QED
  BY <1>6, <1>7, <1>8 DEF GroupsInv, Known, QuitsWait, HeadlessIsBare, CallStarts

LEMMA PopenKeeps ==
  ASSUME GroupsInv, Popen
  PROVE  GroupsInv'
<1>t. TypeOK
  BY DEF GroupsInv
<1>1. PICK g \in Pgids :
        /\ ~ Alive(g)
        /\ group' = [group EXCEPT ![g] = LeaderOf(call.tool, runs)]
        /\ call' = [call EXCEPT !.pgid = g]
        /\ escaped' = escaped \ {g}
  BY DEF Popen
<1>2. spawn = "new" /\ spawn' = "connecting" /\ UNCHANGED lifeVars
  BY DEF Popen
<1>3. call' \in Call /\ call'.pc = call.pc /\ call'.tool = call.tool /\ call'.pgid = g
      /\ call'.looks = call.looks
  <2>1. call \in Call /\ [call EXCEPT !.pgid = g] \in Call
    BY <1>t, CallsAreCalls DEF TypeOK
  <2> QED
    BY <1>1, <2>1 DEF Call
<1>4. LeaderOf(call.tool, runs) \in Group /\ LeaderOf(call.tool, runs).of = call.tool
      /\ LeaderOf(call.tool, runs).run = runs
  BY <1>t DEF TypeOK, LeaderOf, Group, Call
<1>5. TypeOK'
  BY <1>t, <1>1, <1>2, <1>3, <1>4, GroupsAssumption DEF TypeOK, lifeVars
<1>6. Owned = {} /\ Owned' = {g}
  BY <1>t, <1>2, <1>3 DEF TypeOK, Owned
<1>7. \A h \in Pgids \ {g} : group'[h] = group[h]
  BY <1>t, <1>1 DEF TypeOK
<1>8. group'[g].of = call.tool /\ group'[g].run = runs
  BY <1>t, <1>1, <1>4 DEF TypeOK
<1>9. Known'
  <2>1. CallOwnsGroup'
    BY <1>2, <1>3, <1>6, <1>8 DEF CallOwnsGroup, lifeVars
  <2>2. LivesKnown'
    BY <1>1, <1>2, <1>6, <1>7 DEF GroupsInv, LivesKnown, Lives, Alive, lifeVars
  <2>3. RunsAreBehind'
    BY <1>t, <1>2, <1>7, <1>8 DEF GroupsInv, RunsAreBehind, lifeVars, TypeOK
  <2>4. RunIsReported'
    BY <1>1, <1>2, <1>6, <1>7
       DEF GroupsInv, RunIsReported, Lives, Alive, lifeVars, InHeadlessRun, Reported
  <2>5. ReportIsOfRun'
    <3> SUFFICES ASSUME InHeadlessRun', NEW h \in Reported', group'[h].of = "bash"
                 PROVE  group'[h].run = runs'
      BY DEF ReportIsOfRun
    <3>1. InHeadlessRun /\ h \in Reported /\ h \in Pgids /\ runs' = runs
      BY <1>t, <1>2 DEF Reported, InHeadlessRun, lifeVars, TypeOK
    <3> QED
      BY <1>7, <1>8, <3>1 DEF GroupsInv, ReportIsOfRun
  <2> QED
    BY <2>1, <2>2, <2>3, <2>4, <2>5 DEF Known
<1> QED
  BY <1>2, <1>3, <1>5, <1>9 DEF GroupsInv, Known, QuitsWait, HeadlessIsBare, LooksLeft, lifeVars

LEMMA LeftRunningKeeps ==
  ASSUME GroupsInv, LeftRunning
  PROVE  GroupsInv'
<1>t. TypeOK
  BY DEF GroupsInv
<1> DEFINE g == call.pgid
<1>1. Owned = {g} /\ g \in Pgids
  BY <1>t, OwnedIsAGroup DEF LeftRunning, Owned
<1>2. /\ recorded' = Append(recorded, g) /\ call' = NoCall
      /\ UNCHANGED <<group, spawn, from, life, screens, left, runs, calls, escaped>>
      /\ spawn = "off"
  BY <1>t DEF LeftRunning, TypeOK
<1>3. Owned' = {} /\ call' \in Call
  BY <1>t, <1>2, CallsAreCalls DEF Owned, NoCall
<1>4. recorded' \in Seq(Pgids) /\ Len(recorded') = Len(recorded) + 1 /\ from \in Nat
      /\ Len(recorded) \in Nat
  BY <1>t, <1>1, <1>2 DEF TypeOK
<1>5. TypeOK'
  BY <1>t, <1>2, <1>3, <1>4 DEF TypeOK, NoCall
<1>6. Numbers(recorded)' = Numbers(recorded) \cup {g}
  BY <1>t, <1>1, <1>2, NumbersOfAppend DEF TypeOK
<1>7. InHeadlessRun => Reported' = Reported \cup {g}
  <2> SUFFICES ASSUME InHeadlessRun PROVE Reported' = Reported \cup {g}
    OBVIOUS
  <2>1. from + 1 .. Len(recorded') = (from + 1 .. Len(recorded)) \cup {Len(recorded) + 1}
    BY <1>t, <1>4 DEF InHeadlessRun, TypeOK
  <2>2. recorded'[Len(recorded) + 1] = g
    BY <1>t, <1>2, <1>4 DEF TypeOK
  <2>3. \A i \in from + 1 .. Len(recorded) : recorded'[i] = recorded[i]
    BY <1>t, <1>2, <1>4 DEF TypeOK
  <2>4. Reported' = {recorded'[i] : i \in from + 1 .. Len(recorded')}
    BY <1>2 DEF Reported
  <2>5. {recorded'[i] : i \in from + 1 .. Len(recorded)} = Reported
    BY <2>3 DEF Reported
  <2> HIDE DEF g
  <2> QED
    BY <2>1, <2>2, <2>4, <2>5
<1>8. InHeadlessRun' <=> InHeadlessRun
  BY <1>2 DEF InHeadlessRun
<1> HIDE DEF g
<1>9. Known'
  <2> USE DEF GroupsInv, Known, Lives, Alive
  <2>1. CallOwnsGroup' /\ RunsAreBehind'
    BY <1>2, <1>3 DEF CallOwnsGroup, RunsAreBehind
  <2>2. LivesKnown'
    BY <1>1, <1>2, <1>6 DEF LivesKnown
  <2>3. RunIsReported'
    BY <1>1, <1>2, <1>7, <1>8 DEF RunIsReported
  <2>4. ReportIsOfRun'
    BY <1>1, <1>2, <1>7, <1>8 DEF ReportIsOfRun, CallOwnsGroup
  <2> QED
    BY <2>1, <2>2, <2>3, <2>4
<1> QED
  BY <1>2, <1>5, <1>9 DEF GroupsInv, Known, QuitsWait, HeadlessIsBare, LooksLeft, NoCall

-----------------------------------------------------------------------------
(* A run, and the process that runs it.                                    *)
LEMMA OpensKeeps ==
  ASSUME GroupsInv, NEW front \in Fronts, Opens(front)
  PROVE  GroupsInv'
<1>t. TypeOK
  BY DEF GroupsInv
<1>1. /\ life' = [pc |-> "idle", front |-> front, quits |-> FALSE]
      /\ screens' = <<>> /\ left' = {}
      /\ UNCHANGED <<group, callVars, recorded, from, runs, calls, escaped>>
      /\ call.pc = "idle"
  BY <1>t DEF Opens, TypeOK
<1>2. GroupsGoOn
  BY <1>t, <1>1, KillGoesOn DEF Owned, callVars
<1>3. ~ InHeadlessRun'
  BY <1>1 DEF InHeadlessRun
<1>4. Known'
  BY <1>1, <1>2, <1>3, ForgettingKeeps
<1>5. TypeOK'
  BY <1>t, <1>1 DEF TypeOK, callVars
<1> QED
  BY <1>1, <1>4, <1>5 DEF GroupsInv, Known, QuitsWait, HeadlessIsBare, LooksLeft, callVars

LEMMA RunStartsKeeps ==
  ASSUME GroupsInv, RunStarts
  PROVE  GroupsInv'
<1>t. TypeOK /\ call.pc = "idle"
  BY DEF GroupsInv, RunStarts, TypeOK
<1>1. /\ life' = [life EXCEPT !.pc = "running"]
      /\ runs' = runs + 1 /\ calls' = 0 /\ from' = Len(recorded)
      /\ UNCHANGED <<group, callVars, recorded, screens, left, escaped>>
  BY DEF RunStarts, EarlierGroups
<1>2. life'.pc = "running" /\ life'.front = life.front /\ life'.quits = life.quits
  BY <1>t, <1>1 DEF TypeOK
<1>3. TypeOK'
  <2>1. Len(recorded) \in Nat /\ runs' \in 0 .. MaxRuns /\ calls' \in 0 .. MaxCalls
    BY <1>t, <1>1, GroupsAssumption DEF TypeOK, RunStarts
  <2> QED
    BY <1>t, <1>1, <2>1 DEF TypeOK, callVars
<1>4. Owned = {} /\ Owned' = {} /\ Reported' = {}
  <2>1. Len(recorded) \in Nat
    BY <1>t DEF TypeOK
  <2> QED
    BY <1>t, <1>1, <2>1, IdleOwnsNothing DEF Owned, callVars, Reported
<1>5. \A g \in Pgids : group[g].run \in Nat /\ group[g].run <= runs /\ runs \in Nat
  BY <1>t, GroupsAssumption DEF GroupsInv, RunsAreBehind, TypeOK, Group
<1>6. Known'
  BY <1>1, <1>4, <1>5
     DEF GroupsInv, Known, CallOwnsGroup, LivesKnown, RunsAreBehind, RunIsReported, ReportIsOfRun,
         Lives, Alive
<1> QED
  <2>1. QuitsWait'
    BY <1>1 DEF GroupsInv, QuitsWait, RunStarts
  <2> QED
    BY <1>1, <1>2, <1>3, <1>6, <2>1 DEF GroupsInv, Known, HeadlessIsBare, LooksLeft, callVars

(* A stop, by a signal, a deadline or a person who quits, cancels the call *)
(* of a run.                                                               *)
LEMMA CancelKeeps ==
  ASSUME GroupsInv, Cancel, life.pc = "running", life'.pc = "stopping",
         life'.front = life.front, life' \in [pc : {"closed", "idle", "running", "stopping"},
                                              front : Fronts, quits : BOOLEAN],
         life.front = "headless" => life'.quits = life.quits,
         UNCHANGED <<recorded, from, screens, left, runs, calls>>
  PROVE  GroupsInv'
<1>1. GroupsGoOn /\ CallGoesOn
  BY CancelGoesOn DEF GroupsInv
<1>2. TypeOK'
  BY <1>1 DEF GroupsInv, TypeOK, GroupsGoOn, CallGoesOn, CallTyped
<1>3. Known'
  BY <1>1, GoingOnKeeps DEF InHeadlessRun
<1> QED
  BY <1>1, <1>2, <1>3 DEF GroupsInv, Known, QuitsWait, HeadlessIsBare, CallGoesOn

(* A step of a process whose call stands still.                            *)
LEMMA StandingKeeps ==
  ASSUME GroupsInv, GroupsGoOn, UNCHANGED <<callVars, escaped, runs, calls>>,
         life' \in [pc : {"closed", "idle", "running", "stopping"},
                    front : Fronts, quits : BOOLEAN],
         life'.front = life.front,
         life.front = "headless" => life'.quits = life.quits /\ screens' = screens,
         call.pc = "idle" \/ life'.pc = life.pc \/ life'.pc = "stopping",
         screens' \in Seq(Screen), QuitsWait', left' \subseteq Pgids, from' = from,
         \/ UNCHANGED recorded /\ (InHeadlessRun' => InHeadlessRun)
         \/ /\ recorded' \in Seq(Pgids) /\ ~ InHeadlessRun'
            /\ \A g \in Numbers(recorded) : g \in Numbers(recorded') \/ ~ Lives(g)'
  PROVE  GroupsInv'
<1>1. TypeOK'
  BY DEF GroupsInv, TypeOK, GroupsGoOn, callVars, InHeadlessRun
<1>2. Known'
  BY CallStays, GoingOnKeeps, ForgettingKeeps
<1> QED
  BY <1>1, <1>2 DEF GroupsInv, Known, QuitsWait, HeadlessIsBare, LooksLeft, callVars

LEMMA LifeIsTyped ==
  ASSUME TypeOK, NEW pc \in {"closed", "idle", "running", "stopping"}
  PROVE  /\ [life EXCEPT !.pc = pc] \in [pc : {"closed", "idle", "running", "stopping"},
                                         front : Fronts, quits : BOOLEAN]
         /\ [life EXCEPT !.pc = pc].pc = pc
         /\ [life EXCEPT !.pc = pc].front = life.front
         /\ [life EXCEPT !.pc = pc].quits = life.quits
  BY DEF TypeOK

LEMMA ScreensAreTyped ==
  ASSUME TypeOK, screens # <<>>
  PROVE  TopScreen \in Screen /\ Below \in Seq(Screen)
<1>1. screens \in Seq(Screen) /\ Len(screens) \in Nat \ {0}
  BY DEF TypeOK
<1>2. Below \in Seq(Screen)
  BY <1>1, SubSeqProperties DEF Below
<1> QED
  BY <1>1, <1>2 DEF TopScreen

(* k on a screen kills what it forgets.                                    *)
LEMMA KillsNamedKeeps ==
  ASSUME GroupsInv, screens # <<>>, KillsNamed, UNCHANGED callVars
  PROVE  /\ GroupsGoOn
         /\ recorded' \in Seq(Pgids)
         /\ \A g \in Numbers(recorded) : g \in Numbers(recorded') \/ ~ Lives(g)'
<1>t. TypeOK /\ TopScreen.list \subseteq Pgids
  BY ScreensAreTyped DEF GroupsInv, Screen
<1>1. PICK stopped \in SUBSET Pgids :
        group' = Killed(stopped) /\ recorded' = Without(recorded, stopped)
  BY <1>t DEF KillsNamed
<1>2. GroupsGoOn
  BY <1>t, <1>1, KillGoesOn DEF Owned, callVars
<1>3. recorded' \in Seq(Pgids) /\ Numbers(recorded') = Numbers(recorded) \ stopped
  BY <1>t, <1>1, NumbersOfWithout DEF TypeOK
<1>4. \A g \in stopped : ~ Lives(g)'
  BY <1>t, <1>1, KilledIsTyped DEF Lives, Alive
<1> QED
  BY <1>2, <1>3, <1>4

(* Screens that stand, or go, wait as they did.                            *)
LEMMA QuitsStillWait ==
  ASSUME TypeOK, QuitsWait, life.quits => life'.quits, life.pc = "idle" => life'.pc = "idle",
         screens' = screens \/ (screens # <<>> /\ screens' = Below)
  PROVE  QuitsWait'
<1>1. CASE screens' = screens
  BY <1>1 DEF QuitsWait
<1>2. CASE screens # <<>> /\ screens' = Below
  <2>1. screens \in Seq(Screen) /\ Len(screens) \in Nat \ {0}
    BY <1>2 DEF TypeOK
  <2>2. Len(Below) = Len(screens) - 1 /\ \A i \in 1 .. Len(Below) : Below[i] = screens[i]
    <3> DEFINE n == Len(screens) - 1
    <3>1. n \in Nat /\ 1 \in Int /\ n \in Int /\ \A i \in 1 .. n : screens[i] \in Screen
      BY <2>1
    <3> HIDE DEF n
    <3>2. /\ Len(SubSeq(screens, 1, n)) = IF 1 <= n THEN n - 1 + 1 ELSE 0
          /\ \A i \in 1 .. n - 1 + 1 : SubSeq(screens, 1, n)[i] = screens[1 + i - 1]
      BY <3>1, SubSeqProperties
    <3>b. Below = SubSeq(screens, 1, n)
      BY DEF Below, n
    <3>3. Len(Below) = n /\ \A i \in 1 .. n : Below[i] = screens[i]
      BY <3>1, <3>2, <3>b
    <3> QED
      BY <3>3 DEF n
  <2> QED
    BY <1>2, <2>1, <2>2 DEF QuitsWait
<1> QED
  BY <1>1, <1>2

LEMMA RunningKeeps ==
  ASSUME GroupsInv, Running
  PROVE  GroupsInv'
<1>t. TypeOK /\ HeadlessIsBare /\ QuitsWait
  BY DEF GroupsInv
<1>l. life \in [pc : {"closed", "idle", "running", "stopping"}, front : Fronts, quits : BOOLEAN]
      /\ screens \in Seq(Screen) /\ left \subseteq Pgids /\ recorded \in Seq(Pgids)
  BY <1>t DEF TypeOK
<1>o. UNCHANGED <<group, callVars>> => GroupsGoOn
  BY <1>t, KillGoesOn DEF callVars, Owned
<1>1. ASSUME NEW front \in Fronts, Opens(front) PROVE GroupsInv'
  BY <1>1, OpensKeeps
<1>2. CASE RunStarts
  BY <1>2, RunStartsKeeps
<1>3. CASE Stop
  <2>1. Cancel /\ life.pc = "running" /\ life' = [life EXCEPT !.pc = "stopping"]
        /\ UNCHANGED <<recorded, from, screens, left, runs, calls>>
    BY <1>3 DEF Stop
  <2> QED
    BY <1>t, <2>1, LifeIsTyped, CancelKeeps
<1>4. CASE HeadlessEnds
  <2>1. life' = [life EXCEPT !.pc = "closed"] /\ call.pc = "idle"
        /\ UNCHANGED <<group, callVars, recorded, from, screens, left, runs, calls, escaped>>
    BY <1>4 DEF HeadlessEnds
  <2>2. ~ InHeadlessRun'
    BY <1>t, <2>1, LifeIsTyped DEF InHeadlessRun
  <2>3. life' \in [pc : {"closed", "idle", "running", "stopping"}, front : Fronts,
                   quits : BOOLEAN]
        /\ life'.front = life.front /\ life'.quits = life.quits
    BY <1>t, <2>1, LifeIsTyped
  <2>4. life.pc = "running"
    BY <1>4 DEF HeadlessEnds
  <2>5. QuitsWait'
    BY <1>t, <2>1, <2>3, <2>4, QuitsStillWait
  <2> QED
    BY <1>l, <1>o, <2>1, <2>2, <2>3, <2>5, StandingKeeps
<1>5. CASE TuiEnds
  <2>1. life' = [life EXCEPT !.pc = "idle"] /\ call.pc = "idle" /\ life.front = "tui"
        /\ recorded' = Kept
        /\ UNCHANGED <<group, callVars, from, left, runs, calls, escaped>>
    BY <1>5 DEF TuiEnds
  <2>2. life' \in [pc : {"closed", "idle", "running", "stopping"}, front : Fronts,
                   quits : BOOLEAN]
        /\ life'.front = life.front
    BY <1>t, <2>1, LifeIsTyped
  <2>3. screens' \in Seq(Screen)
    <3>1. Numbers(Kept) \subseteq Pgids
      BY <1>t, <1>l, KeptIsTyped DEF Numbers
    <3>2. <<[list |-> Numbers(Kept) \ left, quits |-> FALSE]>> \in Seq(Screen)
      BY <3>1 DEF Screen
    <3> QED
      BY <1>5, <1>l, <3>2, ConcatProperties DEF TuiEnds, Pushed
  <2>4. recorded' \in Seq(Pgids)
        /\ \A g \in Numbers(recorded) : g \in Numbers(recorded') \/ ~ Lives(g)'
    BY <1>t, <2>1, KeptIsTyped DEF Lives, Alive
  <2>5. ~ InHeadlessRun'
    BY <2>1, <2>2 DEF InHeadlessRun
  <2>6. QuitsWait'
    <3>1. \A i \in 1 .. Len(screens) : ~ screens[i].quits
      BY <1>t, <1>5 DEF TuiEnds, QuitsWait, TypeOK, Screen
    <3>2. screens' = screens \/ screens' = Append(screens, [list |-> Numbers(Kept) \ left,
                                                           quits |-> FALSE])
      BY <1>5, <1>l, AppendIsConcat DEF TuiEnds, Pushed
    <3>3. \A i \in 1 .. Len(screens') : ~ screens'[i].quits
      <4>1. CASE screens' = screens
        BY <3>1, <4>1
      <4>2. ASSUME NEW e, e.quits = FALSE, screens' = Append(screens, e)
            PROVE  \A i \in 1 .. Len(screens') : ~ screens'[i].quits
        BY <1>l, <3>1, <4>2
      <4> QED
        BY <3>2, <4>1, <4>2
    <3> QED
      BY <3>3 DEF QuitsWait
  <2> QED
    BY <1>l, <1>o, <2>1, <2>2, <2>3, <2>4, <2>5, <2>6, StandingKeeps
<1>6. CASE Answered
  <2>1. screens # <<>> /\ screens' = Below /\ life' = life
        /\ UNCHANGED <<callVars, from, runs, calls, escaped>>
    BY <1>6 DEF Answered
  <2>2. life.front # "headless" /\ ~ InHeadlessRun'
    BY <1>t, <2>1 DEF HeadlessIsBare, InHeadlessRun
  <2>3. screens' \in Seq(Screen) /\ TopScreen.list \subseteq Pgids
    BY <1>t, <2>1, ScreensAreTyped DEF Screen
  <2>4. left' \subseteq Pgids
    BY <1>6, <1>l, <2>3 DEF Answered
  <2>5. GroupsGoOn /\ recorded' \in Seq(Pgids)
        /\ \A g \in Numbers(recorded) : g \in Numbers(recorded') \/ ~ Lives(g)'
    <3>1. CASE KillsNamed
      BY <2>1, <3>1, KillsNamedKeeps
    <3>2. CASE UNCHANGED <<group, recorded>>
      BY <1>l, <1>o, <2>1, <3>2
    <3> QED
      BY <1>6, <3>1, <3>2 DEF Answered
  <2>6. QuitsWait'
    BY <1>t, <2>1, QuitsStillWait
  <2> QED
    BY <1>l, <2>1, <2>2, <2>3, <2>4, <2>5, <2>6, StandingKeeps
<1>7. CASE Quit
  <2> DEFINE pc == IF life.pc = "running" THEN "stopping" ELSE life.pc
  <2>1. life.front = "tui" /\ UNCHANGED <<recorded, from, screens, left, runs, calls>>
        /\ life' = [pc |-> pc, front |-> "tui", quits |-> TRUE]
    BY <1>7 DEF Quit
  <2>3. life' \in [pc : {"closed", "idle", "running", "stopping"}, front : Fronts,
                   quits : BOOLEAN]
        /\ life'.front = life.front /\ life'.pc = pc /\ ~ InHeadlessRun'
    BY <1>l, <2>1 DEF InHeadlessRun
  <2>w. QuitsWait'
    BY <1>t, <2>1, QuitsStillWait
  <2>4. CASE life.pc = "running"
    <3>1. Cancel
      BY <1>7, <2>4 DEF Quit
    <3> QED
      BY <2>1, <2>3, <2>4, <3>1, CancelKeeps
  <2>5. CASE life.pc # "running"
    <3>1. UNCHANGED <<group, callVars, escaped>>
      BY <1>7, <2>5 DEF Quit
    <3>2. life.front # "headless" /\ life'.pc = life.pc
      BY <2>1, <2>3, <2>5
    <3> QED
      BY <1>l, <1>o, <2>1, <2>3, <2>w, <3>1, <3>2, StandingKeeps
  <2> QED
    BY <2>4, <2>5
<1>8. CASE QuitAnswered
  <2>1. screens # <<>> /\ screens' = <<>> /\ life' = [life EXCEPT !.pc = "closed"]
        /\ UNCHANGED <<callVars, from, left, runs, calls, escaped>>
    BY <1>8 DEF QuitAnswered
  <2>2. life.pc = "idle" /\ life.front # "headless"
    <3>1. Len(screens) \in 1 .. Len(screens) /\ screens[Len(screens)].quits
      BY <1>l, <1>8 DEF QuitAnswered, TopScreen
    <3> QED
      BY <1>t, <2>1, <3>1 DEF QuitsWait, HeadlessIsBare
  <2>3. call.pc = "idle"
    BY <1>t, <2>2 DEF TypeOK
  <2>4. life' \in [pc : {"closed", "idle", "running", "stopping"}, front : Fronts,
                   quits : BOOLEAN]
        /\ life'.front = life.front /\ ~ InHeadlessRun'
    BY <1>t, <2>1, <2>2, LifeIsTyped DEF InHeadlessRun
  <2>5. GroupsGoOn /\ recorded' \in Seq(Pgids)
        /\ \A g \in Numbers(recorded) : g \in Numbers(recorded') \/ ~ Lives(g)'
    <3>1. CASE KillsNamed
      BY <2>1, <3>1, KillsNamedKeeps
    <3>2. CASE UNCHANGED <<group, recorded>>
      BY <1>l, <1>o, <2>1, <3>2
    <3> QED
      BY <1>8, <3>1, <3>2 DEF QuitAnswered
  <2>6. screens' \in Seq(Screen) /\ QuitsWait'
    BY <2>1 DEF QuitsWait
  <2> QED
    BY <1>l, <2>1, <2>2, <2>3, <2>4, <2>5, <2>6, StandingKeeps
<1> QED
  BY <1>1, <1>2, <1>3, <1>4, <1>5, <1>6, <1>7, <1>8 DEF Running

LEMMA SettlingKeeps ==
  ASSUME GroupsInv, Settling
  PROVE  GroupsInv'
<1>t. TypeOK /\ HeadlessIsBare /\ QuitsWait
  BY DEF GroupsInv
<1>l. life \in [pc : {"closed", "idle", "running", "stopping"}, front : Fronts, quits : BOOLEAN]
      /\ screens \in Seq(Screen) /\ left \subseteq Pgids /\ recorded \in Seq(Pgids)
  BY <1>t DEF TypeOK
<1>o. UNCHANGED <<group, callVars>> => GroupsGoOn
  BY <1>t, KillGoesOn DEF callVars, Owned
<1>1. CASE HeadlessStops
  <2>1. life' = [life EXCEPT !.pc = "closed"] /\ call.pc = "idle" /\ life.pc = "stopping"
        /\ UNCHANGED <<callVars, recorded, from, screens, left, runs, calls, escaped>>
    BY <1>1 DEF HeadlessStops
  <2>2. life' \in [pc : {"closed", "idle", "running", "stopping"}, front : Fronts,
                   quits : BOOLEAN]
        /\ life'.front = life.front /\ life'.quits = life.quits /\ ~ InHeadlessRun'
    BY <1>t, <2>1, LifeIsTyped DEF InHeadlessRun
  <2>3. \E gs : group' = Killed(gs)
    BY <1>1 DEF HeadlessStops
  <2>4. GroupsGoOn
    BY <1>t, <2>1, <2>3, KillGoesOn DEF callVars, Owned
  <2>5. QuitsWait'
    BY <1>t, <2>1, <2>2, QuitsStillWait
  <2> QED
    BY <1>l, <2>1, <2>2, <2>4, <2>5, StandingKeeps
<1>2. CASE TuiStops
  <2>1. life' = [life EXCEPT !.pc = "idle"] /\ call.pc = "idle" /\ life.pc = "stopping"
        /\ life.front = "tui"
        /\ UNCHANGED <<group, callVars, recorded, from, screens, left, runs, calls, escaped>>
    BY <1>2 DEF TuiStops
  <2>2. life' \in [pc : {"closed", "idle", "running", "stopping"}, front : Fronts,
                   quits : BOOLEAN]
        /\ life'.front = life.front /\ life'.quits = life.quits /\ ~ InHeadlessRun'
    BY <1>t, <2>1, LifeIsTyped DEF InHeadlessRun
  <2>3. QuitsWait'
    BY <1>t, <2>1, <2>2, QuitsStillWait
  <2> QED
    BY <1>l, <1>o, <2>1, <2>2, <2>3, StandingKeeps
<1>3. CASE QuitAsks
  <2>1. life.quits /\ life.pc = "idle" /\ recorded' = Kept
        /\ UNCHANGED <<group, callVars, from, left, runs, calls, escaped>>
    BY <1>3 DEF QuitAsks
  <2>2. call.pc = "idle" /\ life.front # "headless"
    BY <1>t, <2>1 DEF TypeOK, HeadlessIsBare
  <2>3. recorded' \in Seq(Pgids)
        /\ \A g \in Numbers(recorded) : g \in Numbers(recorded') \/ ~ Lives(g)'
    BY <1>t, <2>1, KeptIsTyped DEF Lives, Alive
  <2>4. CASE QuitList = {}
    <3>1. screens' = <<>> /\ life' = [life EXCEPT !.pc = "closed"]
      BY <1>3, <2>4 DEF QuitAsks
    <3>2. life' \in [pc : {"closed", "idle", "running", "stopping"}, front : Fronts,
                     quits : BOOLEAN]
          /\ life'.front = life.front /\ ~ InHeadlessRun'
      BY <1>t, <3>1, LifeIsTyped DEF InHeadlessRun
    <3>3. screens' \in Seq(Screen) /\ QuitsWait'
      BY <3>1 DEF QuitsWait
    <3> QED
      BY <1>l, <1>o, <2>1, <2>2, <2>3, <3>1, <3>2, <3>3, StandingKeeps
  <2>5. CASE QuitList # {}
    <3> DEFINE under == IF screens = <<>> THEN <<>> ELSE Below
               asked == [list |-> QuitList, quits |-> TRUE]
    <3>1. screens' = under \o <<asked>> /\ life' = life
      BY <1>3, <2>5 DEF QuitAsks
    <3>2. under \in Seq(Screen)
      BY <1>t, ScreensAreTyped
    <3>3. QuitList \subseteq Pgids
      BY <1>t, <1>l, KeptIsTyped DEF QuitList, Numbers
    <3>4. asked \in Screen
      BY <3>3 DEF Screen
    <3> HIDE DEF under, asked
    <3>5. screens' = Append(under, asked) /\ screens' \in Seq(Screen)
      BY <3>1, <3>2, <3>4, AppendIsConcat
    <3>6. QuitsWait'
      BY <2>1, <3>1 DEF QuitsWait
    <3>7. ~ InHeadlessRun'
      BY <2>1, <3>1 DEF InHeadlessRun
    <3> QED
      BY <1>l, <1>o, <2>1, <2>2, <2>3, <3>1, <3>5, <3>6, <3>7, StandingKeeps
  <2> QED
    BY <2>4, <2>5
<1> QED
  BY <1>1, <1>2, <1>3 DEF Settling

LEMMA GroupsInit == Init => GroupsInv
<1> SUFFICES ASSUME Init PROVE GroupsInv
  OBVIOUS
<1>1. NoGroup \in Group /\ NoCall \in Call /\ runs \in Nat
  BY GroupsAssumption DEF NoGroup, Group, NoCall, Call, Init
<1>2. life \in [pc : {"closed", "idle", "running", "stopping"}, front : Fronts, quits : BOOLEAN]
      /\ life.pc = "closed" /\ ~ life.quits
  BY GroupsAssumption DEF Init
<1>3. TypeOK
  BY <1>1, <1>2, GroupsAssumption DEF Init, TypeOK, NoCall
<1>4. Owned = {} /\ \A g \in Pgids : group[g].of = None /\ group[g].run = 0
  BY DEF Init, Owned, NoCall, NoGroup
<1>5. Known
  BY <1>1, <1>2, <1>4, GroupsAssumption
     DEF Init, Known, CallOwnsGroup, LivesKnown, RunsAreBehind, RunIsReported, ReportIsOfRun,
         InHeadlessRun, Lives
<1> QED
  BY <1>2, <1>3, <1>5
     DEF Init, GroupsInv, Known, QuitsWait, HeadlessIsBare, LooksLeft, NoCall

LEMMA GroupsStep == GroupsInv /\ [Next]_vars => GroupsInv'
<1> SUFFICES ASSUME GroupsInv, [Next]_vars PROVE GroupsInv'
  OBVIOUS
<1>t. TypeOK /\ LooksLeft /\ CallOwnsGroup
  BY DEF GroupsInv
<1>1. CASE Machine
  BY <1>t, <1>1, MachineGoesOn, CallStays, WithinARun
<1>2. CASE CallSteps
  BY <1>t, <1>2, CallStepsGoOn, WithinARun
<1>3. ASSUME NEW tool \in Tools, CallStarts(tool) PROVE GroupsInv'
  BY <1>3, CallStartsKeeps
<1>4. CASE Popen
  BY <1>4, PopenKeeps
<1>5. CASE LeftRunning
  BY <1>5, LeftRunningKeeps
<1>6. CASE Running
  BY <1>6, RunningKeeps
<1>7. CASE Settling
  BY <1>7, SettlingKeeps
<1>8. CASE UNCHANGED vars
  BY <1>t, <1>8, KillGoesOn, CallStays, WithinARun DEF vars, callVars, Owned
<1> QED
  BY <1>1, <1>2, <1>3, <1>4, <1>5, <1>6, <1>7, <1>8
     DEF Next, Spawning, Calling, Unwinding, CallSteps

LEMMA GroupsInvHolds == Spec => []GroupsInv
  BY GroupsInit, GroupsStep, PTL DEF Spec

-----------------------------------------------------------------------------
(* The types, and how a call, its spawn and the recorded groups stand to   *)
(* each other, hold throughout.                                            *)
THEOREM TypeCorrect == Spec => []TypeOK
<1>1. GroupsInv => TypeOK
  BY DEF GroupsInv
<1> QED
  BY <1>1, GroupsInvHolds, PTL

(* _run_shell: once a bash call is over, however it ended, what still runs *)
(* of its group is recorded, unless its spawn never handed over a process. *)
THEOREM GroupsAreNeverLost == Spec => []NoGroupIsLost
<1>1. GroupsInv => NoGroupIsLost
  <2> SUFFICES ASSUME GroupsInv, call.pc = "idle" PROVE NoGroupIsLost
    BY DEF NoGroupIsLost
  <2>1. Owned = {}
    BY IdleOwnsNothing DEF GroupsInv
  <2> QED
    BY <2>1 DEF GroupsInv, LivesKnown, NoGroupIsLost
<1> QED
  BY <1>1, GroupsInvHolds, PTL

(* Which step ends a stop of `nare run'.                                   *)
LEMMA HeadlessStopStep ==
  ASSUME GroupsInv, [Next]_vars, HeadlessStop
  PROVE  HeadlessStops
<1>t. TypeOK /\ HeadlessIsBare /\ life' # life
  BY DEF GroupsInv, HeadlessStop
<1>1. ~ Machine /\ ~ CallSteps /\ ~ Popen /\ ~ LeftRunning /\ \A tool \in Tools : ~ CallStarts(tool)
  <2>1. Machine => life' = life
    BY <1>t, MachineGoesOn DEF lifeVars
  <2>2. CallSteps => life' = life
    BY <1>t, CallStepsGoOn DEF GroupsInv, lifeVars
  <2> QED
    BY <1>t, <2>1, <2>2 DEF Popen, LeftRunning, CallStarts, lifeVars
<1>2. ~ Running
  BY <1>t DEF Running, Opens, RunStarts, Stop, HeadlessEnds, TuiEnds, Answered, Quit,
              QuitAnswered, HeadlessStop, HeadlessIsBare
<1>3. ~ TuiStops /\ ~ QuitAsks
  BY DEF TuiStops, QuitAsks, HeadlessStop
<1>4. ~ UNCHANGED vars
  BY <1>t DEF vars, lifeVars
<1> QED
  BY <1>1, <1>2, <1>3, <1>4
     DEF Next, Settling, Spawning, Calling, Unwinding, CallSteps

(* _stopped: a deadline or a signal leaves nothing running that this       *)
(* invocation's bash calls started.                                        *)
THEOREM StopsLeaveNothing == Spec => StopLeavesNothing
<1>1. ASSUME GroupsInv, [Next]_vars, HeadlessStop,
             NEW g \in Pgids, Lives(g), group[g].run = runs
      PROVE  ~ Alive(g)' \/ g \in escaped
  <2>1. HeadlessStops
    BY <1>1, HeadlessStopStep
  <2>2. PICK refused \in SUBSET {h \in Reported : group[h].of = "other"} :
          group' = Killed(Reported \ refused)
    BY <2>1 DEF HeadlessStops
  <2>3. Owned = {} /\ TypeOK
    BY <1>1, <2>1, IdleOwnsNothing DEF GroupsInv, HeadlessStops
  <2>4. g \in Reported \cup escaped
    BY <1>1, <2>3 DEF GroupsInv, RunIsReported, InHeadlessRun, HeadlessStop
  <2>5. g \notin refused
    BY <1>1 DEF Lives
  <2> QED
    BY <2>2, <2>3, <2>4, <2>5, KilledIsTyped DEF Alive
<1>2. GroupsInv /\ [Next]_vars =>
        (HeadlessStop =>
           \A g \in Pgids : Lives(g) /\ group[g].run = runs => ~ Alive(g)' \/ g \in escaped)
  BY <1>1
<1> QED
  BY <1>2, GroupsInvHolds, PTL DEF Spec, StopLeavesNothing

(* And it leaves alone what an earlier invocation left running.            *)
THEOREM EarlierStaysAlone == Spec => EarlierIsLeftAlone
<1>1. ASSUME GroupsInv, [Next]_vars, HeadlessStop,
             NEW g \in Pgids, Lives(g), group[g].run < runs
      PROVE  Alive(g)'
  <2>1. HeadlessStops
    BY <1>1, HeadlessStopStep
  <2>2. PICK refused \in SUBSET {h \in Reported : group[h].of = "other"} :
          group' = Killed(Reported \ refused)
    BY <2>1 DEF HeadlessStops
  <2>3. TypeOK /\ runs \in Nat /\ group[g].run \in Nat
    BY <1>1, GroupsAssumption DEF GroupsInv, TypeOK, Group
  <2>4. g \notin Reported
    BY <1>1, <2>3 DEF GroupsInv, ReportIsOfRun, InHeadlessRun, HeadlessStop, Lives
  <2> QED
    BY <1>1, <2>2, <2>3, <2>4, KilledIsTyped DEF Alive, Lives
<1>2. GroupsInv /\ [Next]_vars =>
        (HeadlessStop => \A g \in Pgids : Lives(g) /\ group[g].run < runs => Alive(g)')
  BY <1>1
<1> QED
  BY <1>2, GroupsInvHolds, PTL DEF Spec, EarlierIsLeftAlone
=============================================================================
