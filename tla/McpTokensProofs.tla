--------------------------- MODULE McpTokensProofs --------------------------
(***************************************************************************)
(* The types of McpTokens, that no token is spent twice, that a logout     *)
(* stays, and that runs keep the authorization they share, for every value *)
(* of the constants.                                                       *)
(***************************************************************************)
EXTENDS McpTokens, TLAPS

-----------------------------------------------------------------------------
(* What the types rest on: nobody holds a token that was not issued; the   *)
(* lock says where a logout stands; only a refresh has a reply, and it     *)
(* sent a token.                                                           *)
Known == (1 .. issued) \cup {None}

TokensKnown ==
  /\ disk # None => disk.token \in Known
  /\ \A p \in Procs :
       proc[p].token \in Known /\ proc[p].kept.token \in Known /\ proc[p].reply \in Known
  /\ login.kept.token \in Known /\ login.reply \in Known /\ logout.record.token \in Known

LocksTold == logout.pc # "off" <=> lock = "logout"

(* A run with the answer to a refresh in its hand.                         *)
Expects(r) == r.pc \in {"reply", "handle"} \/ (r.pc = "share" /\ r.next = "handle")

Replies ==
  /\ \A p \in Procs : proc[p].reply # None => Expects(proc[p]) /\ proc[p].token # None
  /\ login.pc # "off" => logins > 0

WellTyped == TypeOK /\ TokensKnown /\ LocksTold /\ Replies

(* A token on disk was spent only by a refresh that has not stored its     *)
(* answer, and whoever is about to send or to store a token has a good one.*)
Good == live \cup orphans \cup revoked

Spending(p, t) == proc[p].reply # None /\ proc[p].token = t

RunSpends(p) ==
  /\ proc[p].pc = "refresh" => proc[p].token \in Good
  /\ proc[p].reply # None => proc[p].reply \in live
  /\ proc[p].pc = "share" /\ proc[p].kept.token # None =>
       proc[p].kept.token \in Good \/ Spending(p, proc[p].kept.token)

LoginFresh ==
  login.pc = "store" =>
    /\ login.reply \in live
    /\ disk # None => disk.token # login.reply
    /\ \A p \in Procs :
         login.reply \notin {proc[p].token, proc[p].kept.token, proc[p].reply}
    /\ logout.record.token # login.reply

SpentInv ==
  /\ disk # None /\ disk.token # None =>
       disk.token \in Good \/ \E p \in Procs : Spending(p, disk.token)
  /\ \A p \in Procs : RunSpends(p)
  /\ LoginFresh

(* Nobody is about to store a token a logout removed.                      *)
GoneInv ==
  /\ gone \subseteq 1 .. issued
  /\ disk # None => disk.token \notin gone
  /\ \A p \in Procs :
       /\ proc[p].reply \notin gone
       /\ proc[p].pc = "share" => proc[p].kept.token \notin gone
  /\ login.pc = "store" => login.reply \notin gone

(* Until a process is killed, an answer lost, a logout or a second login,  *)
(* the file of a login that ended has a token whose refresh the server     *)
(* grants to the client beside it, but for the time a run holds the answer *)
(* of one; and every run has that client, and a token.                     *)
Calm == faults = 0 /\ logouts = 0 /\ logins <= 1

Authorized == disk # None /\ disk.token # None

Refreshes(t, c) == t \in live /\ owner[t] = c

(* A request with the run's own token, of which the server said no.        *)
Overdue(r) == r.pc = "denied" \/ (r.pc = "share" /\ r.next = "denied")

RunKeeps(p) ==
  /\ Overdue(proc[p]) => proc[p].own
  /\ proc[p].token # None /\ proc[p].kept.token # None
  /\ proc[p].client = disk.client /\ proc[p].kept.client = disk.client
  /\ proc[p].pc = "refresh" => proc[p].token = disk.token
  /\ proc[p].pc = "share" => proc[p].kept.token = disk.token
  /\ Expects(proc[p]) => proc[p].reply # None
  /\ proc[p].reply # None =>
       proc[p].token = disk.token /\ Refreshes(proc[p].reply, disk.client)

Kept ==
  /\ revoked = {} /\ logout.pc = "off"
  /\ logins = 0 => disk = None
  /\ login.pc # "off" => ~ Authorized
  /\ login.pc \in {"present", "store"} => login.kept.client # None
  /\ login.pc = "store" => Refreshes(login.reply, login.kept.client)
  /\ Authorized => disk.client # None
  /\ Authorized /\ (\A p \in Procs : proc[p].reply = None) => Refreshes(disk.token, disk.client)
  /\ \A p \in Procs : proc[p].pc # "off" => Authorized /\ RunKeeps(p)

KeptInv == Calm => Kept

-----------------------------------------------------------------------------
LEMMA Becoming ==
  ASSUME NEW p \in Procs, NEW r \in Process, proc \in [Procs -> Process], Becomes(p, r)
  PROVE  /\ proc' \in [Procs -> Process]
         /\ proc'[p] = r
         /\ \A q \in Procs \ {p} : proc'[q] = proc[q]
  BY DEF Becomes

(* A run's step: what it becomes is told, and it says how the lock stands. *)
LEMMA RunStepTyped ==
  ASSUME WellTyped, NEW p \in Procs, NEW r \in Process, Becomes(p, r),
         disk' \in Record \cup {None},
         disk' # None => disk'.token \in Known',
         r.token \in Known' /\ r.kept.token \in Known' /\ r.reply \in Known',
         r.reply # None => Expects(r) /\ r.token # None,
         lock' = lock \/ (lock' = p /\ lock = None) \/ (lock' = None /\ lock = p),
         lock' = p => r.pc \in {"refresh", "reply", "handle", "call", "share"},
         r.pc \in {"refresh", "reply", "handle", "share"} => lock' = p,
         issued' \in issued .. MaxTokens,
         live' \subseteq 1 .. issued', revoked' \subseteq 1 .. issued',
         owner' \in [Token -> Client \cup {None}],
         orphans' \subseteq Token, faults' \in 0 .. MaxUpsets,
         UNCHANGED <<login, logout, gone, logins, logouts>>
  PROVE  WellTyped'
<1>1. /\ proc' \in [Procs -> Process]
      /\ proc'[p] = r
      /\ \A q \in Procs \ {p} : proc'[q] = proc[q]
  BY Becoming DEF WellTyped, TypeOK
<1>2. Known \subseteq Known'
  BY DEF Known, WellTyped, TypeOK
<1>3. \A q \in Procs : Holder(q)'
  <2> TAKE q \in Procs
  <2>1. CASE q = p
    BY <1>1, <2>1 DEF Holder
  <2>2. CASE q # p
    <3>1. Holder(q)
      BY DEF WellTyped, TypeOK
    <3> QED
      BY <1>1, <2>2, <3>1, McpTokensAssumption DEF Holder
  <2> QED
    BY <2>1, <2>2
<1>4. TypeOK'
  BY <1>1, <1>3, McpTokensAssumption DEF WellTyped, TypeOK
<1>5. TokensKnown'
  BY <1>1, <1>2 DEF WellTyped, TokensKnown
<1>6. LocksTold'
  BY McpTokensAssumption DEF WellTyped, LocksTold
<1>7. Replies'
  BY <1>1 DEF WellTyped, Replies
<1> QED
  BY <1>4, <1>5, <1>6, <1>7 DEF WellTyped

(* What a run knows when its step begins.                                  *)
LEMMA RunTyped ==
  ASSUME WellTyped, NEW p \in Procs
  PROVE  /\ proc[p] \in Process /\ proc[p].kept \in Record
         /\ proc[p].token \in Known /\ proc[p].kept.token \in Known /\ proc[p].reply \in Known
         /\ proc[p].reply # None => Expects(proc[p]) /\ proc[p].token # None
         /\ lock = p => proc[p].pc \in {"refresh", "reply", "handle", "call", "share"}
         /\ proc[p].pc \in {"refresh", "reply", "handle", "share"} => lock = p
         /\ disk # None => disk \in Record /\ disk.token \in Known
  BY DEF WellTyped, TypeOK, TokensKnown, Replies, Holder, Process

(* A run's step that only the run, the file and the lock take part in.     *)
LEMMA OwnStepTyped ==
  ASSUME WellTyped, NEW p \in Procs, NEW r \in Process, Becomes(p, r),
         disk' \in Record \cup {None},
         disk' # None => disk'.token \in Known,
         r.token \in Known /\ r.kept.token \in Known /\ r.reply \in Known,
         r.reply # None => Expects(r) /\ r.token # None,
         lock' = lock \/ (lock' = p /\ lock = None) \/ (lock' = None /\ lock = p),
         lock' = p => r.pc \in {"refresh", "reply", "handle", "call", "share"},
         r.pc \in {"refresh", "reply", "handle", "share"} => lock' = p,
         UNCHANGED <<login, logout, serverVars, countVars>>
  PROVE  WellTyped'
<1>1. Known' = Known
  BY DEF Known, serverVars
<1>2. /\ issued' \in issued .. MaxTokens /\ orphans' \subseteq Token /\ faults' \in 0 .. MaxUpsets
      /\ live' \subseteq 1 .. issued' /\ revoked' \subseteq 1 .. issued'
      /\ owner' \in [Token -> Client \cup {None}]
  BY McpTokensAssumption DEF WellTyped, TypeOK, serverVars, countVars
<1> QED
  BY <1>1, <1>2, RunStepTyped, None \in Known DEF serverVars, countVars, Known

(* A run between two requests, and one that goes on with another token.    *)
LEMMA IdleFields ==
  ASSUME NEW r \in Process
  PROVE  /\ Idle(r) \in Process /\ Idle(r).pc = "idle" /\ Idle(r).reply = None
         /\ Idle(r).token = r.token /\ Idle(r).kept = r.kept /\ Idle(r).client = r.client
<1>1. Idle(r) \in Process
  BY DEF Idle, Process
<1>2. /\ Idle(r).pc = "idle" /\ Idle(r).reply = None
      /\ Idle(r).token = r.token /\ Idle(r).kept = r.kept /\ Idle(r).client = r.client
  BY DEF Idle, Process
<1> QED
  BY <1>1, <1>2

(* Between two requests a run holds nothing.                               *)
LEMMA IdleTyped ==
  ASSUME WellTyped, NEW p \in Procs, NEW r \in Process, Becomes(p, Idle(r)),
         disk' \in Record \cup {None},
         disk' # None => disk'.token \in Known,
         r.token \in Known /\ r.kept.token \in Known,
         lock' = IF lock = p THEN None ELSE lock,
         UNCHANGED <<login, logout, serverVars, countVars>>
  PROVE  WellTyped'
<1>1. /\ Idle(r) \in Process /\ Idle(r).pc = "idle" /\ Idle(r).reply = None
      /\ Idle(r).token = r.token /\ Idle(r).kept = r.kept
  BY IdleFields
<1>2. lock' # p
  BY McpTokensAssumption
<1> QED
  BY <1>1, <1>2, OwnStepTyped DEF Known

LEMMA ReloadedTyped ==
  ASSUME WellTyped, NEW p \in Procs
  PROVE  Reloaded(p) \in Record /\ Reloaded(p).token \in Known
  BY RunTyped DEF Reloaded, Empty, Record, Known

LEMMA SharedTyped ==
  ASSUME WellTyped, NEW kept \in Record, kept.token \in Known
  PROVE  \A k \in Saves(kept) : k \in Record /\ k.token \in Known
  BY DEF Saves, Shared, WellTyped, TypeOK, TokensKnown, Record

(* A run that takes the token of the file.                                 *)
Moving(r, t, pc) == [r EXCEPT !.token = t, !.own = FALSE, !.pc = pc]

LEMMA Moved ==
  ASSUME NEW r \in Process, NEW t \in Token \cup {None}, NEW pc \in {"refresh", "call"}
  PROVE  /\ Moving(r, t, pc) \in Process
         /\ Moving(r, t, pc).pc = pc /\ Moving(r, t, pc).token = t
         /\ Moving(r, t, pc).kept = r.kept /\ Moving(r, t, pc).reply = r.reply
         /\ Moving(r, t, pc).client = r.client
  BY DEF Moving, Process

(* The token and the client of an initialization.                          *)
Again(p) == [proc[p] EXCEPT !.token = proc[p].kept.token, !.own = FALSE,
                            !.client = proc[p].kept.client]

LEMMA Requested ==
  ASSUME WellTyped, NEW p \in Procs, Request(p)
  PROVE  \E r \in Process, pc \in {"call", "denied", "lock"} :
           /\ Becomes(p, [r EXCEPT !.pc = pc])
           /\ r = Again(p) \/ (r = proc[p] /\ proc[p].token # None)
           /\ r.token \in {proc[p].token, proc[p].kept.token}
           /\ r.client \in {proc[p].client, proc[p].kept.client}
           /\ r.kept = proc[p].kept /\ r.reply = None
           /\ pc = "denied" => r.client = None
<1> USE RunTyped
<1>1. /\ Again(p) \in Process /\ Again(p).token = proc[p].kept.token
      /\ Again(p).client = proc[p].kept.client
      /\ Again(p).kept = proc[p].kept /\ Again(p).reply = proc[p].reply
  BY DEF Again, Process, Record
<1> DEFINE r == IF proc[p].token = None THEN Again(p) ELSE proc[p]
<1>2. PICK stale \in BOOLEAN : Becomes(p, [r EXCEPT !.pc = Begins(r, stale)])
  BY DEF Request, Again
<1>3. /\ r \in Process /\ r.kept = proc[p].kept /\ r.reply = proc[p].reply
      /\ r = Again(p) \/ (r = proc[p] /\ proc[p].token # None)
      /\ r.token \in {proc[p].token, proc[p].kept.token}
      /\ r.client \in {proc[p].client, proc[p].kept.client}
  BY <1>1
<1>4. proc[p].reply = None
  BY DEF Request, Expects
<1> HIDE DEF r
<1>5. /\ Begins(r, stale) \in {"call", "denied", "lock"}
      /\ Begins(r, stale) = "denied" => r.client = None
  BY DEF Begins
<1> QED
  BY <1>2, <1>3, <1>4, <1>5

(* A run that has the lock, and has read the file again.                   *)
ReloadedOf(p) == [proc[p] EXCEPT !.kept = Reloaded(p)]

LEMMA ReloadedKept ==
  ASSUME WellTyped, NEW p \in Procs
  PROVE  /\ [proc[p] EXCEPT !.kept = Reloaded(p)] \in Process
         /\ [proc[p] EXCEPT !.kept = Reloaded(p)].kept = Reloaded(p)
         /\ [proc[p] EXCEPT !.kept = Reloaded(p)].token = proc[p].token
         /\ [proc[p] EXCEPT !.kept = Reloaded(p)].client = proc[p].client
         /\ [proc[p] EXCEPT !.kept = Reloaded(p)].reply = proc[p].reply
  BY RunTyped, ReloadedTyped DEF Process

LEMMA Acquired ==
  ASSUME WellTyped, NEW p \in Procs, Acquire(p)
  PROVE  /\ Reloaded(p).token = None => Becomes(p, Idle(ReloadedOf(p))) /\ lock' = lock
         /\ Reloaded(p).token # None =>
              \E s \in Process :
                /\ Becomes(p, s) /\ s.pc \in {"refresh", "call"} /\ s.token = Reloaded(p).token
                /\ s.kept = Reloaded(p) /\ s.reply = None /\ s.client = proc[p].client
<1> DEFINE r == [proc[p] EXCEPT !.kept = Reloaded(p)]
<1>1. /\ r \in Process /\ r.kept = Reloaded(p) /\ r.token = proc[p].token
      /\ r.client = proc[p].client /\ r.reply = proc[p].reply /\ proc[p].reply = None
  <2>1. proc[p].reply = None
    BY RunTyped DEF Acquire, Expects
  <2> QED
    BY <2>1, ReloadedKept
<1>2. Reloaded(p).token \in Token \cup {None}
  BY ReloadedTyped DEF Record
<1>3. \/ r.kept.token = None /\ lock' = lock /\ Becomes(p, Idle(r))
      \/ /\ r.kept.token # None
         /\ IF Adopted(p) = proc[p].token
            THEN Becomes(p, [r EXCEPT !.pc = "refresh"])
            ELSE \E pc \in {"refresh", "call"} :
                   Becomes(p, [r EXCEPT !.token = Adopted(p), !.own = FALSE, !.pc = pc])
  BY Zenon DEF Acquire
<1>4. r = ReloadedOf(p)
  BY DEF ReloadedOf
<1> HIDE DEF r
<1>5. ASSUME Reloaded(p).token # None
      PROVE  \E s \in Process :
               /\ Becomes(p, s) /\ s.pc \in {"refresh", "call"} /\ s.token = Reloaded(p).token
               /\ s.kept = Reloaded(p) /\ s.reply = None /\ s.client = proc[p].client
  <2>1. CASE Adopted(p) = proc[p].token
    <3> DEFINE s == [r EXCEPT !.pc = "refresh"]
    <3>1. /\ s \in Process /\ s.pc = "refresh" /\ s.token = r.token /\ s.kept = r.kept
          /\ s.reply = r.reply /\ s.client = r.client
      BY <1>1 DEF Process
    <3>2. Becomes(p, s) /\ r.token = Reloaded(p).token
      BY <1>1, <1>3, <1>5, <2>1 DEF Adopted
    <3> HIDE DEF s
    <3> QED
      BY <1>1, <3>1, <3>2
  <2>2. CASE Adopted(p) # proc[p].token
    <3>1. PICK pc \in {"refresh", "call"} :
            Becomes(p, [r EXCEPT !.token = Adopted(p), !.own = FALSE, !.pc = pc])
      BY <1>1, <1>3, <1>5, <2>2
    <3>2. Becomes(p, Moving(r, Adopted(p), pc))
      BY <3>1 DEF Moving
    <3>3. Adopted(p) = Reloaded(p).token
      BY DEF Adopted
    <3> QED
      BY <1>1, <1>2, <3>2, <3>3, Moved
  <2> QED
    BY <2>1, <2>2
<1> QED
  BY <1>1, <1>3, <1>4, <1>5

LEMMA RunsKeepTypes ==
  ASSUME WellTyped, NEW p \in Procs, Start(p) \/ Request(p) \/ Acquire(p) \/ LockBusy(p)
  PROVE  WellTyped'
<1> USE RunTyped
<1>1. CASE Start(p)
  <2> DEFINE r == [Off EXCEPT !.pc = "idle", !.token = disk.token, !.client = disk.client,
                              !.kept = disk]
  <2>1. r \in Process /\ r.pc = "idle" /\ r.reply = None /\ r.token = disk.token /\ r.kept = disk
    BY <1>1 DEF Start, Off, Process, Record
  <2>2. lock # p
    BY <1>1 DEF Start
  <2> QED
    BY <1>1, <2>1, <2>2, OwnStepTyped DEF Start, Known
<1>2. CASE Request(p)
  <2>1. PICK r \in Process, pc \in {"call", "denied", "lock"} :
          /\ Becomes(p, [r EXCEPT !.pc = pc])
          /\ r.token \in {proc[p].token, proc[p].kept.token}
          /\ r.kept = proc[p].kept /\ r.reply = None
    BY <1>2, Requested
  <2> DEFINE s == [r EXCEPT !.pc = pc]
  <2>2. s \in Process /\ s.token = r.token /\ s.kept = r.kept /\ s.reply = r.reply /\ s.pc = pc
    BY DEF Process
  <2>3. lock # p /\ Becomes(p, s)
    BY <1>2, <2>1 DEF Request
  <2> HIDE DEF s
  <2> QED
    BY <1>2, <2>1, <2>2, <2>3, OwnStepTyped DEF Request, Known
<1>3. CASE Acquire(p)
  <2>1. /\ proc[p].reply = None /\ ReloadedOf(p) \in Process
        /\ Reloaded(p) \in Record /\ Reloaded(p).token \in Known /\ lock = None
        /\ UNCHANGED <<disk, login, logout, serverVars, countVars>>
    BY <1>3, ReloadedTyped DEF Acquire, Expects, ReloadedOf, Process
  <2>2. CASE Reloaded(p).token = None
    <3>1. Becomes(p, Idle(ReloadedOf(p))) /\ lock' = lock
      BY <1>3, <2>2, Acquired
    <3>2. ReloadedOf(p).token = proc[p].token /\ ReloadedOf(p).kept = Reloaded(p)
      BY DEF ReloadedOf, Process
    <3> QED
      BY <2>1, <3>1, <3>2, IdleTyped, McpTokensAssumption
  <2>3. CASE Reloaded(p).token # None
    <3>1. PICK s \in Process :
            /\ Becomes(p, s) /\ s.pc \in {"refresh", "call"} /\ s.token = Reloaded(p).token
            /\ s.kept = Reloaded(p) /\ s.reply = None
      BY <1>3, <2>3, Acquired
    <3>2. lock' = p
      BY <1>3, <2>3, ReloadedKept DEF Acquire
    <3> QED
      BY <2>1, <3>1, <3>2, OwnStepTyped DEF Known
  <2> QED
    BY <2>2, <2>3
<1>4. CASE LockBusy(p)
  <2>1. lock # p
    BY <1>4 DEF LockBusy
  <2> QED
    BY <1>4, <2>1, IdleTyped DEF LockBusy
<1> QED
  BY <1>1, <1>2, <1>3, <1>4

LEMMA IssueTyped ==
  ASSUME WellTyped, NEW client \in Client \cup {None}, NEW spent, Issue(client, spent)
  PROVE  /\ issued' = issued + 1 /\ issued' \in issued .. MaxTokens
         /\ issued + 1 \in Token /\ issued + 1 \in Known' /\ Known \subseteq Known'
         /\ live' \subseteq 1 .. issued' /\ revoked' \subseteq 1 .. issued'
         /\ owner' \in [Token -> Client \cup {None}]
<1>1. issued \in Nat /\ MaxTokens \in Nat /\ issued' = issued + 1 /\ issued + 1 <= MaxTokens
  BY McpTokensAssumption DEF WellTyped, TypeOK, Issue
<1>2. live' \subseteq 1 .. issued' /\ revoked' \subseteq 1 .. issued'
  <2>1. live \subseteq 1 .. issued /\ revoked \subseteq 1 .. issued
    BY DEF WellTyped, TypeOK
  <2>2. live' = (live \ spent) \cup {issued + 1} /\ revoked' = revoked
    BY DEF Issue
  <2>3. 1 .. issued \subseteq 1 .. issued' /\ issued + 1 \in 1 .. issued'
    BY <1>1
  <2> QED
    BY <2>1, <2>2, <2>3, Zenon
<1>3. owner' \in [Token -> Client \cup {None}]
  BY DEF WellTyped, TypeOK, Issue
<1>4. issued + 1 \in Token /\ issued + 1 \in Known' /\ Known \subseteq Known'
  BY <1>1 DEF Token, Known
<1> QED
  BY <1>1, <1>2, <1>3, <1>4

LEMMA ExchangesKeepTypes ==
  ASSUME WellTyped, NEW p \in Procs, Exchange(p) \/ ExchangeFails(p) \/ Stored(p) \/ Refused(p)
  PROVE  WellTyped'
<1> USE RunTyped
<1>1. CASE Exchange(p)
  <2> DEFINE r(t) == [proc[p] EXCEPT !.pc = "reply", !.reply = t]
  <2>1. /\ proc[p].pc = "refresh" /\ lock = p /\ lock' = p
        /\ UNCHANGED <<disk, login, logout, countVars>>
    BY <1>1 DEF Exchange
  <2>2. \A t \in Token \cup {None} :
          /\ r(t) \in Process /\ r(t).pc = "reply" /\ r(t).reply = t
          /\ r(t).token = proc[p].token /\ r(t).kept = proc[p].kept
    BY DEF Process
  <2>3. CASE /\ Grants(proc[p]) /\ Issue(proc[p].client, {proc[p].token})
             /\ Becomes(p, r(issued + 1))
    <3>1. proc[p].client \in Client \cup {None}
      BY DEF Process
    <3>2. proc[p].token # None
      BY <2>3, McpTokensAssumption DEF Grants, WellTyped, TypeOK
    <3>3. orphans' \subseteq Token /\ faults' \in 0 .. MaxUpsets
      BY <2>1 DEF WellTyped, TypeOK, countVars
    <3> HIDE DEF r
    <3> QED
      BY <2>1, <2>2, <2>3, <3>1, <3>2, <3>3, IssueTyped, RunStepTyped DEF countVars, Expects
  <2>4. CASE Becomes(p, r(None)) /\ UNCHANGED serverVars
    <3> HIDE DEF r
    <3> QED
      BY <2>1, <2>2, <2>4, OwnStepTyped DEF Known
  <2> QED
    BY <1>1, <2>3, <2>4 DEF Exchange
<1>2. CASE ExchangeFails(p)
  BY <1>2, IdleTyped DEF ExchangeFails, Released
<1>3. CASE Stored(p)
  <2> DEFINE k == [proc[p].kept EXCEPT !.token = proc[p].reply]
             r == [Idle(proc[p]) EXCEPT !.pc = "call", !.token = proc[p].reply, !.own = TRUE,
                                        !.kept = k]
  <2>1. /\ lock = p /\ lock' = None /\ disk' = k /\ Becomes(p, r)
        /\ UNCHANGED <<login, logout, serverVars, countVars>>
    BY <1>3 DEF Stored
  <2>2. proc[p].reply \in Token \cup {None}
    BY DEF Process
  <2>3. k \in Record /\ k.token = proc[p].reply
    BY <2>2 DEF Record
  <2> HIDE DEF k
  <2>4. r \in Process
    BY <2>2, <2>3 DEF Process, Idle
  <2>5. r.pc = "call" /\ r.token = proc[p].reply /\ r.kept = k /\ r.reply = None
    BY DEF Process, Idle
  <2> HIDE DEF r
  <2> QED
    BY <2>1, <2>3, <2>4, <2>5, OwnStepTyped, McpTokensAssumption DEF Known
<1>4. CASE Refused(p)
  <2> DEFINE r == [Idle(proc[p]) EXCEPT !.pc = "call", !.token = None, !.own = FALSE]
  <2>1. /\ lock = p /\ lock' = None /\ Becomes(p, r)
        /\ UNCHANGED <<disk, login, logout, serverVars, countVars>>
    BY <1>4 DEF Refused
  <2>2. r \in Process /\ r.pc = "call" /\ r.token = None /\ r.kept = proc[p].kept
        /\ r.reply = None
    BY DEF Process, Idle
  <2>3. disk' \in Record \cup {None} /\ (disk' # None => disk'.token \in Known)
    BY <2>1 DEF WellTyped, TypeOK
  <2> HIDE DEF r
  <2> QED
    BY <2>1, <2>2, <2>3, OwnStepTyped, McpTokensAssumption DEF Known
<1> QED
  BY <1>1, <1>2, <1>3, <1>4

LEMMA LossesKeepTypes ==
  ASSUME WellTyped, NEW p \in Procs, NEW r \in {Idle(proc[p]), Off},
         (ReplyLost(p) /\ r = Idle(proc[p])) \/ (Kill(p) /\ r = Off)
  PROVE  WellTyped'
<1>1. /\ r \in Process /\ r.pc \in {"idle", "off"} /\ r.reply = None
      /\ r.token \in Known /\ r.kept.token \in Known
  <2>1. CASE r = Idle(proc[p])
    BY <2>1, RunTyped, IdleFields
  <2>2. CASE r = Off
    BY <2>2 DEF Off, Process, Empty, Record, Known
  <2> QED
    BY <2>1, <2>2
<1>2. /\ Becomes(p, r) /\ Orphaned(p) /\ faults' = faults + 1 /\ logouts + faults < MaxUpsets
      /\ lock' = (IF lock = p THEN None ELSE lock)
      /\ UNCHANGED <<disk, login, logout, serverVars, gone, logins, logouts>>
  BY DEF ReplyLost, Kill, Released
<1>3. faults' \in 0 .. MaxUpsets
  <2>1. logouts \in Nat /\ faults \in Nat /\ MaxUpsets \in Nat
    BY McpTokensAssumption DEF WellTyped, TypeOK
  <2> QED
    BY <1>2, <2>1
<1>4. orphans' \subseteq Token
  <2>1. proc[p].reply # None => proc[p].token \in Token
    BY RunTyped DEF Process
  <2> QED
    BY <1>2, <2>1 DEF Orphaned, WellTyped, TypeOK
<1>5. /\ issued' \in issued .. MaxTokens /\ owner' \in [Token -> Client \cup {None}]
      /\ live' \subseteq 1 .. issued' /\ revoked' \subseteq 1 .. issued'
      /\ disk' \in Record \cup {None}
  BY <1>2, McpTokensAssumption DEF WellTyped, TypeOK, serverVars
<1>6. Known' = Known /\ lock' # p
  BY <1>2, McpTokensAssumption DEF Known, serverVars
<1>7. /\ disk' # None => disk'.token \in Known
      /\ lock' = lock \/ (lock' = None /\ lock = p)
      /\ UNCHANGED <<login, logout, gone, logins, logouts>>
  BY <1>2, RunTyped
<1>8. /\ Becomes(p, r) /\ r.token \in Known' /\ r.kept.token \in Known' /\ r.reply \in Known'
      /\ disk' # None => disk'.token \in Known'
  BY <1>1, <1>2, <1>6, <1>7 DEF Known
<1> QED
  BY <1>1, <1>3, <1>4, <1>5, <1>6, <1>7, <1>8, RunStepTyped

LEMMA FollowsOn ==
  ASSUME WellTyped, NEW p \in Procs, NEW next \in Following(proc[p])
  PROVE  /\ next \in {"idle", "handle", "denied"}
         /\ proc[p].pc \in {"reply", "call", "denied"}
         /\ next = "handle" <=> proc[p].pc = "reply"
         /\ next = "denied" => proc[p].pc = "call" /\ Denies(proc[p])
         /\ proc[p].reply # None => next = "handle"
<1>1. /\ next \in {"idle", "handle", "denied"}
      /\ proc[p].pc \in {"reply", "call", "denied"}
      /\ next = "handle" <=> proc[p].pc = "reply"
      /\ next = "denied" => proc[p].pc = "call" /\ Denies(proc[p])
  BY DEF Following
<1> QED
  BY <1>1, RunTyped DEF Expects

LEMMA CallsKeepTypes ==
  ASSUME WellTyped, NEW p \in Procs,
         Answered(p) \/ Denied(p) \/ GiveUp(p) \/ Share(p) \/ ShareWrites(p)
  PROVE  WellTyped'
<1> USE RunTyped
<1>1. CASE Answered(p) \/ GiveUp(p)
  <2>1. lock' = IF lock = p THEN None ELSE lock
    BY <1>1 DEF Answered, GiveUp, Released
  <2> QED
    BY <1>1, <2>1, IdleTyped DEF Answered, GiveUp
<1>2. CASE Denied(p)
  <2> DEFINE r == [proc[p] EXCEPT !.pc = "denied"]
  <2>1. r \in Process /\ r.pc = "denied" /\ r.token = proc[p].token /\ r.kept = proc[p].kept
        /\ r.reply = proc[p].reply
    BY DEF Process
  <2>2. Becomes(p, r) /\ proc[p].reply = None /\ lock' = IF lock = p THEN None ELSE lock
    BY <1>2 DEF Denied, Expects, Released
  <2> HIDE DEF r
  <2> QED
    BY <1>2, <2>1, <2>2, OwnStepTyped, McpTokensAssumption DEF Denied, Known
<1>3. CASE Share(p)
  <2>1. PICK k \in Saves(proc[p].kept), next \in Following(proc[p]) :
          Becomes(p, [proc[p] EXCEPT !.pc = "share", !.kept = k, !.next = next])
    BY <1>3 DEF Share
  <2>2. k \in Record /\ k.token \in Known
    BY SharedTyped
  <2>3. /\ next \in {"idle", "handle", "denied"}
        /\ proc[p].reply # None => next = "handle"
    BY FollowsOn
  <2> DEFINE r == [proc[p] EXCEPT !.pc = "share", !.kept = k, !.next = next]
  <2>4. r \in Process /\ r.pc = "share" /\ r.token = proc[p].token /\ r.kept = k
        /\ r.reply = proc[p].reply /\ r.next = next
    BY <2>2, <2>3 DEF Process
  <2>5. Becomes(p, r)
    BY <2>1
  <2> HIDE DEF r
  <2>6. r.reply # None => Expects(r) /\ r.token # None
    BY <2>3, <2>4 DEF Expects
  <2> QED
    BY <1>3, <2>2, <2>4, <2>5, <2>6, OwnStepTyped DEF Share
<1>4. CASE ShareWrites(p)
  <2> DEFINE r == [proc[p] EXCEPT !.pc = proc[p].next, !.next = "idle"]
  <2>1. r \in Process /\ r.pc = proc[p].next /\ r.token = proc[p].token
        /\ r.kept = proc[p].kept /\ r.reply = proc[p].reply
        /\ proc[p].next \in {"idle", "handle", "denied"}
    BY DEF Process
  <2>2. /\ Becomes(p, r) /\ proc[p].pc = "share" /\ lock = p /\ disk' = proc[p].kept
        /\ lock' = IF proc[p].next = "handle" THEN p ELSE None
        /\ UNCHANGED <<login, logout, serverVars, countVars>>
    BY <1>4 DEF ShareWrites, Released
  <2> HIDE DEF r
  <2>3. r.reply # None => Expects(r) /\ r.token # None
    BY <2>1, <2>2 DEF Expects
  <2> QED
    BY <2>1, <2>2, <2>3, OwnStepTyped, McpTokensAssumption
<1> QED
  BY <1>1, <1>2, <1>3, <1>4

(* A step of a login or a logout.                                          *)
LEMMA OtherStepTyped ==
  ASSUME WellTyped, UNCHANGED proc,
         disk' \in Record \cup {None}, disk' # None => disk'.token \in Known',
         lock' \in {None, "logout"} \/ lock' = lock,
         lock' # lock => lock \in {None, "logout"},
         login' \in [pc : {"off", "register", "registered", "present", "store"}, kept : Record,
                     reply : Token \cup {None}],
         logout' \in [pc : {"off", "revoke", "remove"}, record : Record],
         login'.kept.token \in Known' /\ login'.reply \in Known' /\ logout'.record.token \in Known',
         logout'.pc # "off" <=> lock' = "logout",
         login'.pc # "off" => logins' > 0,
         issued' \in issued .. MaxTokens,
         live' \subseteq 1 .. issued', revoked' \subseteq 1 .. issued',
         owner' \in [Token -> Client \cup {None}],
         gone' \subseteq Token, logins' \in 0 .. MaxLogins, logouts' \in 0 .. MaxUpsets,
         UNCHANGED <<orphans, faults>>
  PROVE  WellTyped'
<1>1. Known \subseteq Known'
  BY DEF Known, WellTyped, TypeOK
<1>2. \A p \in Procs : Holder(p)'
  BY McpTokensAssumption DEF WellTyped, TypeOK, Holder
<1>3. lock' \in Procs \cup {None, "logout"}
  BY DEF WellTyped, TypeOK
<1>4. issued' \in 0 .. MaxTokens
  BY McpTokensAssumption DEF WellTyped, TypeOK
<1>5. TypeOK'
  BY <1>2, <1>3, <1>4 DEF WellTyped, TypeOK
<1>6. TokensKnown'
  BY <1>1 DEF WellTyped, TokensKnown
<1>7. LocksTold' /\ Replies'
  BY DEF WellTyped, LocksTold, Replies
<1> QED
  BY <1>5, <1>6, <1>7 DEF WellTyped

LEMMA OthersTyped ==
  ASSUME WellTyped
  PROVE  /\ login.pc \in {"off", "register", "registered", "present", "store"}
         /\ login.kept \in Record /\ login.reply \in Token \cup {None}
         /\ login = [pc |-> login.pc, kept |-> login.kept, reply |-> login.reply]
         /\ logout.pc \in {"off", "revoke", "remove"} /\ logout.record \in Record
         /\ logout = [pc |-> logout.pc, record |-> logout.record]
         /\ login.kept.token \in Known /\ login.reply \in Known /\ logout.record.token \in Known
         /\ disk \in Record \cup {None} /\ (disk # None => disk.token \in Known)
         /\ logout.pc # "off" <=> lock = "logout"
         /\ login.pc # "off" => logins > 0
         /\ issued \in 0 .. MaxTokens
         /\ live \subseteq 1 .. issued /\ revoked \subseteq 1 .. issued
         /\ owner \in [Token -> Client \cup {None}]
         /\ gone \subseteq Token /\ logins \in 0 .. MaxLogins /\ logouts \in 0 .. MaxUpsets
         /\ MaxTokens \in Nat /\ MaxLogins \in Nat /\ MaxUpsets \in Nat /\ faults \in Nat
         /\ None \in Known /\ Empty \in Record /\ Empty.token = None
<1>1. /\ login = [pc |-> login.pc, kept |-> login.kept, reply |-> login.reply]
      /\ logout = [pc |-> logout.pc, record |-> logout.record]
  BY DEF WellTyped, TypeOK
<1>2. Empty \in Record /\ Empty.token = None /\ None \in Known
  BY DEF Empty, Record, Known
<1> QED
  BY <1>1, <1>2, McpTokensAssumption DEF WellTyped, TypeOK, TokensKnown, LocksTold, Replies

(* A save of what a login learnt.                                          *)
LEMMA LoginSaved ==
  ASSUME WellTyped, NEW kept \in Record, kept.token \in Known, NEW next, LoginSaves(kept, next)
  PROVE  \E saved \in Record :
           /\ saved.token \in Known
           /\ login' = [pc |-> next, kept |-> saved, reply |-> login.reply]
           /\ \/ saved \in Saves(kept) /\ disk' = saved
              \/ saved = kept /\ disk' = disk
<1>1. login = [pc |-> login.pc, kept |-> login.kept, reply |-> login.reply]
  BY OthersTyped
<1>2. CASE lock = None /\ Saves(kept) # {}
  <2>1. PICK saved \in Saves(kept) :
          disk' = saved /\ login' = [login EXCEPT !.pc = next, !.kept = saved]
    BY <1>2 DEF LoginSaves
  <2>2. saved \in Record /\ saved.token \in Known
    BY SharedTyped
  <2> QED
    BY <1>1, <2>1, <2>2
<1>3. CASE ~ (lock = None /\ Saves(kept) # {})
  <2>1. disk' = disk /\ login' = [login EXCEPT !.pc = next, !.kept = kept]
    BY <1>3 DEF LoginSaves
  <2> QED
    BY <1>1, <2>1
<1> QED
  BY <1>2, <1>3

LEMMA LoginSavesTyped ==
  ASSUME WellTyped, NEW kept \in Record, kept.token \in Known, login.pc # "off",
         NEW next \in {"registered", "present"}, LoginSaves(kept, next),
         UNCHANGED <<lock, proc, logout, serverVars, countVars>>
  PROVE  WellTyped'
<1>1. PICK saved \in Record :
        /\ saved.token \in Known
        /\ login' = [pc |-> next, kept |-> saved, reply |-> login.reply]
        /\ disk' = saved \/ disk' = disk
  BY LoginSaved
<1>2. UNCHANGED <<issued, live, revoked, owner, gone, orphans, logins, logouts, faults>>
  BY DEF serverVars, countVars
<1> QED
  BY <1>1, <1>2, OthersTyped, OtherStepTyped DEF Known

(* What a registration adds.                                               *)
Registering == [login.kept EXCEPT !.client = logins]

LEMMA RegisteringTyped ==
  ASSUME WellTyped, login.pc # "off"
  PROVE  /\ Registering \in Record /\ Registering.token \in Known
         /\ Registering.client = logins /\ logins # None
<1>1. logins \in Client /\ logins # None
  BY OthersTyped, McpTokensAssumption DEF Client
<1> QED
  BY <1>1, OthersTyped DEF Registering, Record

LEMMA LoginKeepsTypes ==
  ASSUME WellTyped, Login
  PROVE  WellTyped'
<1> USE OthersTyped, McpTokensAssumption
<1>1. CASE LoginStart
  <2>1. /\ disk' = Empty /\ logins' = logins + 1 /\ logins' \in 0 .. MaxLogins
        /\ login' = [pc |-> "register", kept |-> Empty, reply |-> None]
        /\ UNCHANGED <<lock, proc, logout, issued, live, revoked, owner, gone, orphans,
                       logouts, faults>>
    BY <1>1 DEF LoginStart, NoLogin, serverVars
  <2> QED
    BY <2>1, OtherStepTyped DEF Known
<1>2. CASE LoginDiscovers
  <2>1. LoginSaves(login.kept, "registered") /\ login.pc = "register"
    BY <1>2 DEF LoginDiscovers
  <2> QED
    BY <1>2, <2>1, LoginSavesTyped DEF LoginDiscovers
<1>3. CASE LoginRegisters
  <2>1. login.pc = "registered" /\ LoginSaves(Registering, "present")
    BY <1>3 DEF LoginRegisters, Registering
  <2> QED
    BY <1>3, <2>1, LoginSavesTyped, RegisteringTyped DEF LoginRegisters
<1>4. CASE LoginExchange
  <2>1. login.kept.client \in Client \cup {None}
    BY DEF Record
  <2>2. /\ login.pc = "present" /\ Issue(login.kept.client, {})
        /\ login' = [pc |-> "store", kept |-> login.kept, reply |-> issued + 1]
        /\ UNCHANGED <<disk, lock, proc, logout, gone, orphans, logins, logouts, faults>>
    BY <1>4 DEF LoginExchange, countVars
  <2> QED
    BY <2>1, <2>2, IssueTyped, OtherStepTyped
<1>5. CASE LoginStores
  <2>1. /\ disk' = [token |-> login.reply, client |-> login.kept.client]
        /\ login' = [pc |-> "off", kept |-> Empty, reply |-> None]
        /\ UNCHANGED <<lock, proc, logout, issued, live, revoked, owner, gone, orphans,
                       logins, logouts, faults>>
    BY <1>5 DEF LoginStores, NoLogin, serverVars, countVars
  <2>2. disk' \in Record /\ disk'.token = login.reply
    BY <2>1 DEF Record
  <2> QED
    BY <2>1, <2>2, OtherStepTyped DEF Known
<1>6. CASE LoginAbandoned
  <2>1. /\ login' = [pc |-> "off", kept |-> Empty, reply |-> None]
        /\ UNCHANGED <<disk, lock, proc, logout, issued, live, revoked, owner, gone, orphans,
                       logins, logouts, faults>>
    BY <1>6 DEF LoginAbandoned, NoLogin, serverVars, countVars
  <2> QED
    BY <2>1, OtherStepTyped DEF Known
<1> QED
  BY <1>1, <1>2, <1>3, <1>4, <1>5, <1>6 DEF Login

LEMMA LogoutKeepsTypes ==
  ASSUME WellTyped, Logout
  PROVE  WellTyped'
<1> USE OthersTyped, McpTokensAssumption
<1>1. CASE LogoutLocks
  <2>1. /\ disk \in Record /\ disk # None /\ lock = None /\ lock' = "logout"
        /\ logout' = [pc |-> "revoke", record |-> disk] /\ logouts' \in 0 .. MaxUpsets
        /\ UNCHANGED <<disk, proc, login, issued, live, revoked, owner, gone, orphans,
                       logins, faults>>
    BY <1>1 DEF LogoutLocks, serverVars
  <2> QED
    BY <2>1, OtherStepTyped DEF Known
<1>2. CASE LogoutRevokes
  <2>1. /\ logout' = [pc |-> "remove", record |-> Empty] /\ lock = "logout"
        /\ UNCHANGED <<disk, lock, proc, login, issued, owner, gone, orphans, logins,
                       logouts, faults>>
        /\ live' \subseteq live /\ revoked' \subseteq revoked \cup ({logout.record.token} \ {None})
    BY <1>2 DEF LogoutRevokes, NoLogout, countVars
  <2>2. logout.record.token # None => logout.record.token \in 1 .. issued
    BY DEF Known
  <2>3. live' \subseteq 1 .. issued /\ revoked' \subseteq 1 .. issued
    BY <2>1, <2>2
  <2> QED
    BY <2>1, <2>3, OtherStepTyped DEF Known
<1>3. CASE LogoutRemoves
  <2>1. /\ disk' = None /\ lock = "logout" /\ lock' = None /\ gone' \subseteq Token
        /\ logout' = [pc |-> "off", record |-> Empty]
        /\ UNCHANGED <<proc, login, issued, live, revoked, owner, orphans, logins, logouts,
                       faults>>
    BY <1>3 DEF LogoutRemoves, NoLogout, serverVars, Token
  <2> QED
    BY <2>1, OtherStepTyped DEF Known
<1> QED
  BY <1>1, <1>2, <1>3 DEF Logout

LEMMA TypesInit == Init => WellTyped
<1> SUFFICES ASSUME Init PROVE WellTyped
  OBVIOUS
<1>1. Off \in Process /\ Off.pc = "off" /\ Off.token = None /\ Off.reply = None
      /\ Off.kept.token = None
  BY DEF Off, Process, Empty, Record
<1>2. NoLogin \in [pc : {"off", "register", "registered", "present", "store"}, kept : Record,
                   reply : Token \cup {None}]
      /\ NoLogin.pc = "off" /\ NoLogin.kept.token = None /\ NoLogin.reply = None
  BY DEF NoLogin, Empty, Record
<1>3. NoLogout \in [pc : {"off", "revoke", "remove"}, record : Record]
      /\ NoLogout.pc = "off" /\ NoLogout.record.token = None
  BY DEF NoLogout, Empty, Record
<1>4. TypeOK
  BY <1>1, <1>2, <1>3, McpTokensAssumption DEF Init, TypeOK, Holder
<1>5. TokensKnown /\ LocksTold /\ Replies
  BY <1>1, <1>2, <1>3, McpTokensAssumption DEF Init, TokensKnown, LocksTold, Replies, Known
<1> QED
  BY <1>4, <1>5 DEF WellTyped

LEMMA TypesStep == WellTyped /\ [Next]_vars => WellTyped'
<1> SUFFICES ASSUME WellTyped, [Next]_vars PROVE WellTyped'
  OBVIOUS
<1>1. ASSUME NEW p \in Procs, Run(p) PROVE WellTyped'
  BY <1>1, RunsKeepTypes, ExchangesKeepTypes, LossesKeepTypes, CallsKeepTypes DEF Run, Proceed
<1>2. CASE UNCHANGED vars
  BY <1>2 DEF vars, serverVars, countVars, WellTyped, TypeOK, Holder, TokensKnown, Known, LocksTold,
              Replies
<1> QED
  BY <1>1, <1>2, LoginKeepsTypes, LogoutKeepsTypes DEF Next

(* The file, the processes and the server are what TypeOK says, and the    *)
(* lock is with nobody who has no use for it.                              *)
THEOREM TypeCorrect == Spec => []TypeOK
<1>1. WellTyped => TypeOK
  BY DEF WellTyped
<1> QED
  BY <1>1, TypesInit, TypesStep, PTL DEF Spec

-----------------------------------------------------------------------------
(* What a run's step makes of it.                                          *)
Turns(p, pcs, token, kept, reply) ==
  /\ proc'[p].pc \in pcs /\ proc'[p].token = token
  /\ proc'[p].kept = kept /\ proc'[p].reply = reply

Idles(p) == Turns(p, {"idle"}, proc[p].token, proc[p].kept, None)

LEMMA OthersStand ==
  ASSUME WellTyped, NEW p \in Procs, Run(p)
  PROVE  /\ \A q \in Procs \ {p} : proc'[q] = proc[q]
         /\ UNCHANGED <<login, logout, gone>>
  BY DEF WellTyped, TypeOK, Run, Proceed, Start, Request, Acquire, LockBusy, Exchange, ExchangeFails,
         Stored, Refused, Answered, Denied, GiveUp, Share, ShareWrites, ReplyLost, Kill, Becomes,
         countVars

LEMMA RunsTurn ==
  ASSUME WellTyped, NEW p \in Procs
  PROVE  /\ Start(p) => Turns(p, {"idle"}, disk.token, disk, None)
         /\ Request(p) =>
              \E t \in {proc[p].token, proc[p].kept.token} :
                Turns(p, {"lock", "call", "denied"}, t, proc[p].kept, None)
         /\ Acquire(p) =>
              \/ Turns(p, {"idle"}, proc[p].token, Reloaded(p), None)
              \/ /\ Reloaded(p).token # None
                 /\ Turns(p, {"refresh", "call"}, Reloaded(p).token, Reloaded(p), None)
         /\ LockBusy(p) \/ ExchangeFails(p) \/ ReplyLost(p) \/ Answered(p) \/ GiveUp(p) =>
              Idles(p)
         /\ Denied(p) => Turns(p, {"denied"}, proc[p].token, proc[p].kept, None)
         /\ Refused(p) => Turns(p, {"call"}, None, proc[p].kept, None)
         /\ Kill(p) => Turns(p, {"off"}, None, Empty, None)
<1> USE RunTyped
<1>1. \A r : Becomes(p, r) => proc'[p] = r
  BY DEF Becomes, WellTyped, TypeOK
<1>2. Start(p) => Turns(p, {"idle"}, disk.token, disk, None)
  BY <1>1 DEF Start, Off, Turns
<1>3. ASSUME Request(p)
      PROVE  \E t \in {proc[p].token, proc[p].kept.token} :
               Turns(p, {"lock", "call", "denied"}, t, proc[p].kept, None)
  <2>1. PICK r \in Process, pc \in {"call", "denied", "lock"} :
          /\ Becomes(p, [r EXCEPT !.pc = pc])
          /\ r.token \in {proc[p].token, proc[p].kept.token}
          /\ r.kept = proc[p].kept /\ r.reply = None
    BY <1>3, Requested
  <2> DEFINE s == [r EXCEPT !.pc = pc]
  <2>2. s.token = r.token /\ s.kept = r.kept /\ s.reply = r.reply /\ s.pc = pc
    BY DEF Process
  <2>3. proc'[p] = s
    BY <1>1, <2>1
  <2> HIDE DEF s
  <2> QED
    BY <2>1, <2>2, <2>3 DEF Turns
<1>4. ASSUME Acquire(p)
      PROVE  \/ Turns(p, {"idle"}, proc[p].token, Reloaded(p), None)
             \/ /\ Reloaded(p).token # None
                /\ Turns(p, {"refresh", "call"}, Reloaded(p).token, Reloaded(p), None)
  <2>1. CASE Reloaded(p).token = None
    <3>1. proc'[p] = Idle(ReloadedOf(p))
      BY <1>1, <1>4, <2>1, Acquired
    <3>2. /\ ReloadedOf(p) \in Process /\ ReloadedOf(p).token = proc[p].token
          /\ ReloadedOf(p).kept = Reloaded(p)
      BY ReloadedKept DEF ReloadedOf
    <3>3. /\ Idle(ReloadedOf(p)).pc = "idle" /\ Idle(ReloadedOf(p)).token = ReloadedOf(p).token
          /\ Idle(ReloadedOf(p)).kept = ReloadedOf(p).kept /\ Idle(ReloadedOf(p)).reply = None
      BY <3>2, IdleFields
    <3> QED
      BY <3>1, <3>2, <3>3 DEF Turns
  <2>2. CASE Reloaded(p).token # None
    BY <1>1, <1>4, <2>2, Acquired DEF Turns
  <2> QED
    BY <2>1, <2>2
<1>5. LockBusy(p) \/ ExchangeFails(p) \/ ReplyLost(p) \/ Answered(p) \/ GiveUp(p) => Idles(p)
  <2>1. LockBusy(p) \/ ExchangeFails(p) \/ ReplyLost(p) \/ Answered(p) \/ GiveUp(p) =>
          proc'[p] = Idle(proc[p])
    BY <1>1 DEF LockBusy, ExchangeFails, ReplyLost, Answered, GiveUp
  <2>2. proc'[p] = Idle(proc[p]) => Idles(p)
    BY IdleFields DEF Idles, Turns
  <2> QED
    BY <2>1, <2>2
<1>6. Denied(p) => Turns(p, {"denied"}, proc[p].token, proc[p].kept, None)
  <2>1. Denied(p) => proc'[p] = [proc[p] EXCEPT !.pc = "denied"] /\ proc[p].reply = None
    BY <1>1 DEF Denied, Expects
  <2> QED
    BY <2>1 DEF Turns, Process
<1>7. Refused(p) => Turns(p, {"call"}, None, proc[p].kept, None)
  <2>1. Refused(p) =>
          proc'[p] = [Idle(proc[p]) EXCEPT !.pc = "call", !.token = None, !.own = FALSE]
    BY <1>1 DEF Refused
  <2> QED
    BY <2>1 DEF Turns, Process, Idle
<1>8. Kill(p) => Turns(p, {"off"}, None, Empty, None)
  BY <1>1 DEF Kill, Off, Turns
<1> QED
  BY <1>2, <1>3, <1>4, <1>5, <1>6, <1>7, <1>8

LEMMA SavesTurn ==
  ASSUME WellTyped, NEW p \in Procs
  PROVE  /\ Exchange(p) => Turns(p, {"reply"}, proc[p].token, proc[p].kept,
                                 IF Grants(proc[p]) THEN issued + 1 ELSE None)
         /\ Stored(p) => Turns(p, {"call"}, proc[p].reply,
                               [proc[p].kept EXCEPT !.token = proc[p].reply], None)
         /\ Share(p) => \E k \in Saves(proc[p].kept), next \in Following(proc[p]) :
                          /\ Turns(p, {"share"}, proc[p].token, k, proc[p].reply)
                          /\ proc'[p].next = next /\ proc'[p].own = proc[p].own
         /\ ShareWrites(p) =>
              /\ Turns(p, {proc[p].next}, proc[p].token, proc[p].kept, proc[p].reply)
              /\ proc'[p].own = proc[p].own
<1> USE RunTyped
<1>1. \A r : Becomes(p, r) => proc'[p] = r
  BY DEF Becomes, WellTyped, TypeOK
<1>2. ASSUME Exchange(p)
      PROVE  Turns(p, {"reply"}, proc[p].token, proc[p].kept,
                   IF Grants(proc[p]) THEN issued + 1 ELSE None)
  <2>1. CASE Grants(proc[p])
    <3>1. proc'[p] = [proc[p] EXCEPT !.pc = "reply", !.reply = issued + 1]
      BY <1>1, <1>2, <2>1 DEF Exchange
    <3> QED
      BY <2>1, <3>1 DEF Turns, Process
  <2>2. CASE ~ Grants(proc[p])
    <3>1. proc'[p] = [proc[p] EXCEPT !.pc = "reply", !.reply = None]
      BY <1>1, <1>2, <2>2 DEF Exchange
    <3> QED
      BY <2>2, <3>1 DEF Turns, Process
  <2> QED
    BY <2>1, <2>2
<1>3. ASSUME Stored(p)
      PROVE  Turns(p, {"call"}, proc[p].reply, [proc[p].kept EXCEPT !.token = proc[p].reply], None)
  <2> DEFINE s == Idle(proc[p])
             k == [proc[p].kept EXCEPT !.token = proc[p].reply]
  <2>1. s \in Process /\ s.reply = None
    BY IdleFields
  <2>2. proc'[p] = [s EXCEPT !.pc = "call", !.token = proc[p].reply, !.own = TRUE, !.kept = k]
    BY <1>1, <1>3 DEF Stored
  <2> HIDE DEF s, k
  <2>3. Turns(p, {"call"}, proc[p].reply, k, None)
    BY <2>1, <2>2 DEF Turns, Process
  <2> QED
    BY <2>3 DEF k
<1>4. ASSUME Share(p)
      PROVE  \E k \in Saves(proc[p].kept), next \in Following(proc[p]) :
               /\ Turns(p, {"share"}, proc[p].token, k, proc[p].reply)
               /\ proc'[p].next = next /\ proc'[p].own = proc[p].own
  <2>1. PICK k \in Saves(proc[p].kept), next \in Following(proc[p]) :
          proc'[p] = [proc[p] EXCEPT !.pc = "share", !.kept = k, !.next = next]
    BY <1>1, <1>4 DEF Share
  <2>2. /\ Turns(p, {"share"}, proc[p].token, k, proc[p].reply)
        /\ proc'[p].next = next /\ proc'[p].own = proc[p].own
    BY <2>1 DEF Turns, Process
  <2> QED
    BY <2>2
<1>5. ASSUME ShareWrites(p)
      PROVE  /\ Turns(p, {proc[p].next}, proc[p].token, proc[p].kept, proc[p].reply)
             /\ proc'[p].own = proc[p].own
  <2>1. proc'[p] = [proc[p] EXCEPT !.pc = proc[p].next, !.next = "idle"]
    BY <1>1, <1>5 DEF ShareWrites
  <2> QED
    BY <2>1 DEF Turns, Process
<1> QED
  BY <1>2, <1>3, <1>4, <1>5

(* A save of metadata or of a registration has the token of the file, and  *)
(* the client it was asked for.                                            *)
LEMMA SavesTokens ==
  ASSUME WellTyped, NEW kept \in Record, NEW k \in Saves(kept)
  PROVE  k.token = (IF disk = None THEN None ELSE disk.token) /\ k.client = kept.client
  BY DEF Saves, LoggedOut, Shared, Record

(* What a login's step makes of it, and of the file.                       *)
DiskTokenStays == disk' # None /\ disk'.token # None => disk # None /\ disk.token = disk'.token

LEMMA LoginTurns ==
  ASSUME WellTyped
  PROVE  /\ LoginStart => login'.pc = "register" /\ DiskTokenStays
         /\ LoginDiscovers => login'.pc = "registered" /\ DiskTokenStays
         /\ LoginRegisters =>
              login'.pc = "present" /\ login'.kept.client # None /\ DiskTokenStays
         /\ LoginExchange =>
              /\ login'.pc = "store" /\ login'.reply = issued + 1 /\ login'.kept = login.kept
              /\ DiskTokenStays
         /\ LoginStores \/ LoginAbandoned => login'.pc = "off"
         /\ LoginAbandoned => DiskTokenStays
<1> USE OthersTyped DEF DiskTokenStays
<1>1. login = [pc |-> login.pc, kept |-> login.kept, reply |-> login.reply]
  OBVIOUS
<1>2. LoginStart => login'.pc = "register" /\ DiskTokenStays
  BY DEF LoginStart, NoLogin
<1>3. ASSUME NEW kept \in Record, kept.token \in Known, NEW next, LoginSaves(kept, next)
      PROVE  login'.pc = next /\ login'.kept.client = kept.client /\ DiskTokenStays
  <2>1. PICK saved \in Record :
          /\ login' = [pc |-> next, kept |-> saved, reply |-> login.reply]
          /\ (saved \in Saves(kept) /\ disk' = saved) \/ (saved = kept /\ disk' = disk)
    BY <1>3, LoginSaved
  <2> QED
    BY <2>1, SavesTokens
<1>4. LoginDiscovers => login'.pc = "registered" /\ DiskTokenStays
  BY <1>3 DEF LoginDiscovers
<1>5. LoginRegisters => login'.pc = "present" /\ login'.kept.client # None /\ DiskTokenStays
  BY <1>3, RegisteringTyped DEF LoginRegisters, Registering
<1>6. LoginExchange =>
        /\ login'.pc = "store" /\ login'.reply = issued + 1 /\ login'.kept = login.kept
        /\ DiskTokenStays
  BY <1>1 DEF LoginExchange
<1>7. /\ LoginStores \/ LoginAbandoned => login'.pc = "off"
      /\ LoginAbandoned => DiskTokenStays
  BY DEF LoginStores, LoginAbandoned, NoLogin
<1> QED
  BY <1>2, <1>4, <1>5, <1>6, <1>7

-----------------------------------------------------------------------------
(* A logout stays.                                                         *)
LEMMA GoneIsOld ==
  ASSUME GoneInv, WellTyped
  PROVE  None \notin gone /\ issued + 1 \notin gone /\ gone \subseteq 1 .. issued
<1>1. issued \in Nat /\ gone \subseteq 1 .. issued
  BY OthersTyped DEF GoneInv
<1>2. None \notin 1 .. issued /\ issued + 1 \notin 1 .. issued
  BY <1>1, McpTokensAssumption
<1> QED
  BY <1>1, <1>2

LEMMA RunIsHarmless ==
  ASSUME WellTyped, GoneInv, NEW p \in Procs, Run(p),
         issued' \in {issued, issued + 1},
         disk' # None => disk'.token \notin gone,
         proc'[p].reply \notin gone,
         proc'[p].pc = "share" => proc'[p].kept.token \notin gone
  PROVE  GoneInv'
<1>1. gone' \subseteq 1 .. issued'
  BY OthersStand, OthersTyped DEF GoneInv
<1> QED
  BY <1>1, OthersStand DEF GoneInv

LEMMA RunsKeepGone ==
  ASSUME WellTyped, GoneInv, NEW p \in Procs, Run(p)
  PROVE  GoneInv'
<1> USE GoneIsOld, RunIsHarmless DEF GoneInv
<1>1. CASE Start(p) \/ Request(p) \/ Acquire(p) \/ LockBusy(p) \/ ExchangeFails(p) \/ ReplyLost(p)
             \/ Answered(p) \/ GiveUp(p) \/ Denied(p) \/ Refused(p) \/ Kill(p)
  <2>1. UNCHANGED disk /\ issued' = issued
    BY <1>1 DEF Start, Request, Acquire, LockBusy, ExchangeFails, ReplyLost, Answered, GiveUp, Denied,
                Refused, Kill, serverVars
  <2>2. proc'[p].reply = None /\ proc'[p].pc # "share"
    BY <1>1, RunsTurn DEF Turns, Idles
  <2> QED
    BY <2>1, <2>2
<1>2. CASE Exchange(p)
  <2>1. UNCHANGED disk /\ issued' \in {issued, issued + 1}
    BY <1>2 DEF Exchange, Issue, serverVars
  <2>2. proc'[p].pc = "reply" /\ proc'[p].reply \in {issued + 1, None}
    BY <1>2, SavesTurn DEF Turns
  <2> QED
    BY <2>1, <2>2
<1>3. CASE Stored(p)
  <2>1. disk' = [proc[p].kept EXCEPT !.token = proc[p].reply] /\ issued' = issued
    BY <1>3 DEF Stored, serverVars
  <2>2. disk'.token = proc[p].reply
    BY <2>1, RunTyped DEF Record
  <2>3. proc'[p].pc = "call" /\ proc'[p].reply = None
    BY <1>3, SavesTurn DEF Turns
  <2> QED
    BY <2>1, <2>2, <2>3
<1>5. CASE Share(p)
  <2>1. issued' = issued /\ UNCHANGED disk
    BY <1>5 DEF Share, serverVars
  <2>2. /\ proc'[p].reply = proc[p].reply /\ proc'[p].kept.token \notin gone
    <3>1. PICK k \in Saves(proc[p].kept) :
            Turns(p, {"share"}, proc[p].token, k, proc[p].reply)
      BY <1>5, SavesTurn
    <3>2. k.token = IF disk = None THEN None ELSE disk.token
      BY SavesTokens, RunTyped
    <3> QED
      BY <3>1, <3>2 DEF Turns
  <2> QED
    BY <2>1, <2>2
<1>6. CASE ShareWrites(p)
  <2>1. issued' = issued /\ disk' = proc[p].kept /\ proc[p].pc = "share"
    BY <1>6 DEF ShareWrites, serverVars
  <2>2. proc'[p].pc # "share" /\ proc'[p].reply = proc[p].reply
    BY <1>6, SavesTurn, RunTyped DEF Turns, Process
  <2> QED
    BY <2>1, <2>2
<1> QED
  BY <1>1, <1>2, <1>3, <1>5, <1>6 DEF Run, Proceed

LEMMA LoginKeepsGone ==
  ASSUME WellTyped, GoneInv, Login
  PROVE  GoneInv'
<1> USE GoneIsOld, OthersTyped
<1>1. UNCHANGED <<proc, gone>> /\ issued' \in {issued, issued + 1}
  BY DEF Login, LoginStart, LoginDiscovers, LoginRegisters, LoginExchange, LoginStores,
         LoginAbandoned, countVars, serverVars, Issue
<1>2. gone' \subseteq 1 .. issued'
  BY <1>1
<1>3. disk' # None => disk'.token \notin gone
  <2>1. CASE LoginStores
    BY <2>1 DEF LoginStores, GoneInv
  <2>2. CASE ~ LoginStores
    BY <2>2, LoginTurns DEF Login, DiskTokenStays, GoneInv
  <2> QED
    BY <2>1, <2>2
<1>5. login'.pc = "store" => login'.reply \notin gone
  BY LoginTurns DEF Login
<1> QED
  BY <1>1, <1>2, <1>3, <1>5 DEF GoneInv

LEMMA LogoutKeepsGone ==
  ASSUME WellTyped, GoneInv, Logout
  PROVE  GoneInv'
<1>1. CASE LogoutLocks \/ LogoutRevokes
  BY <1>1 DEF LogoutLocks, LogoutRevokes, GoneInv, serverVars, countVars
<1>2. CASE LogoutRemoves
  <2>1. /\ disk' = None /\ gone' = (1 .. issued) \ {login.reply} /\ lock = "logout"
        /\ UNCHANGED <<proc, login, issued>>
    BY <1>2, OthersTyped DEF LogoutRemoves, serverVars
  <2>2. \A p \in Procs : proc[p].pc # "share" /\ proc[p].reply = None
    BY <2>1, RunTyped, McpTokensAssumption DEF Expects
  <2>3. None \notin 1 .. issued
    BY OthersTyped, McpTokensAssumption
  <2> QED
    BY <2>1, <2>2, <2>3 DEF GoneInv
<1> QED
  BY <1>1, <1>2 DEF Logout

LEMMA GoneStep == WellTyped /\ GoneInv /\ [Next]_vars => GoneInv'
<1> SUFFICES ASSUME WellTyped, GoneInv, [Next]_vars PROVE GoneInv'
  OBVIOUS
<1>2. CASE UNCHANGED vars
  BY <1>2 DEF vars, serverVars, countVars, GoneInv
<1> QED
  BY <1>2, RunsKeepGone, LoginKeepsGone, LogoutKeepsGone DEF Next

(* A token stored or on its way to be when a logout removed the file, at   *)
(* whatever process, is never stored again: not by a refresh that waited   *)
(* for the lock, not by a save of metadata, not by a login.                *)
THEOREM LogoutsStay == Spec => []LogoutStays
<1>1. Init => GoneInv
  BY DEF Init, GoneInv, Off, NoLogin
<1>2. GoneInv => LogoutStays
  BY DEF GoneInv, LogoutStays
<1> QED
  BY <1>1, <1>2, TypesInit, TypesStep, GoneStep, PTL DEF Spec

-----------------------------------------------------------------------------
(* No token is spent twice.                                                *)
Waiting(p) == proc[p].reply # None

(* Only one process refreshes or saves under the lock.                     *)
LEMMA Alone ==
  ASSUME WellTyped, NEW p, lock \in {None, p, "logout"}
  PROVE  \A q \in Procs \ {p} :
           proc[q].pc \notin {"refresh", "reply", "handle", "share"} /\ ~ Waiting(q)
  BY RunTyped, McpTokensAssumption DEF Waiting, Expects

LEMMA DiskIsGood ==
  ASSUME SpentInv, disk # None, disk.token # None, \A q \in Procs : ~ Waiting(q)
  PROVE  disk.token \in Good
  BY DEF SpentInv, Spending, Waiting

LEMMA FreshIsIssued ==
  ASSUME WellTyped, SpentInv, login.pc = "store"
  PROVE  login.reply # None /\ login.reply # issued + 1
<1>1. issued \in Nat /\ login.reply \in 1 .. issued
  BY OthersTyped DEF SpentInv, LoginFresh
<1> QED
  BY <1>1, McpTokensAssumption

LEMMA RunIsFrugal ==
  ASSUME WellTyped, SpentInv, NEW p \in Procs, Run(p),
         Good \subseteq Good', live \subseteq live',
         disk' # None /\ disk'.token # None =>
           disk'.token \in Good' \/ \E q \in Procs : Spending(q, disk.token)',
         RunSpends(p)',
         login.pc = "store" =>
           /\ login.reply \notin {proc'[p].token, proc'[p].kept.token, proc'[p].reply}
           /\ disk' # None => disk'.token # login.reply
  PROVE  SpentInv'
<1>1. ASSUME NEW q \in Procs PROVE RunSpends(q)'
  <2>1. CASE q # p
    BY <2>1, OthersStand DEF SpentInv, RunSpends, Spending
  <2> QED
    BY <2>1
<1>2. LoginFresh'
  BY OthersStand DEF SpentInv, LoginFresh
<1> QED
  BY <1>1, <1>2 DEF SpentInv

(* The file a step does not write.                                         *)
LEMMA DiskStands ==
  ASSUME WellTyped, SpentInv, NEW p \in Procs, Run(p), UNCHANGED disk, Good \subseteq Good',
         Waiting(p) => proc[p].token \in Good'
  PROVE  disk' # None /\ disk'.token # None =>
           disk'.token \in Good' \/ \E q \in Procs : Spending(q, disk.token)'
<1> SUFFICES ASSUME disk # None, disk.token # None, disk.token \notin Good'
             PROVE  \E q \in Procs : Spending(q, disk.token)'
  OBVIOUS
<1>1. PICK q \in Procs : Spending(q, disk.token)
  BY DEF SpentInv
<1>2. q # p
  BY <1>1 DEF Spending, Waiting
<1> QED
  BY <1>1, <1>2, OthersStand DEF Spending

LEMMA QuietRunsKeepSpent ==
  ASSUME WellTyped, SpentInv, NEW p \in Procs, Run(p),
         Start(p) \/ Request(p) \/ Acquire(p) \/ LockBusy(p) \/ ExchangeFails(p) \/ ReplyLost(p)
           \/ Answered(p) \/ GiveUp(p) \/ Denied(p) \/ Refused(p) \/ Kill(p)
  PROVE  SpentInv'
<1>1. UNCHANGED <<disk, live, revoked>> /\ orphans \subseteq orphans'
  BY DEF Start, Request, Acquire, LockBusy, ExchangeFails, ReplyLost, Answered, GiveUp, Denied,
         Refused, Kill, Orphaned, serverVars, countVars
<1>2. Good \subseteq Good'
  BY <1>1 DEF Good
<1>3. Waiting(p) => proc[p].token \in Good'
  <2>1. CASE ReplyLost(p) \/ Kill(p)
    BY <2>1 DEF ReplyLost, Kill, Orphaned, Good, Waiting
  <2>2. CASE ~ (ReplyLost(p) \/ Kill(p))
    BY <2>2, RunTyped DEF Waiting, Start, Request, Acquire, LockBusy, ExchangeFails, Answered,
                          GiveUp, Denied, Refused, Expects
  <2> QED
    BY <2>1, <2>2
<1>4. proc'[p].pc # "share" /\ proc'[p].reply = None
  BY RunsTurn DEF Turns, Idles
<1>5. proc'[p].pc = "refresh" => proc'[p].token \in Good'
  <2>1. CASE Acquire(p)
    <3>1. \A q \in Procs : ~ Waiting(q)
      <4>1. lock = None /\ proc[p].reply = None
        BY <2>1, RunTyped DEF Acquire, Expects
      <4> QED
        BY <4>1, Alone DEF Waiting
    <3>2. Reloaded(p).token # None => Reloaded(p).token \in Good
      BY <3>1, DiskIsGood DEF Reloaded, Empty
    <3> QED
      BY <2>1, <3>2, <1>2, RunsTurn DEF Turns
  <2>2. CASE ~ Acquire(p)
    <3>1. CASE Request(p)
      BY <3>1, RunsTurn DEF Turns
    <3>2. CASE ~ Request(p)
      BY <2>2, <3>2, RunsTurn DEF Turns, Idles
    <3> QED
      BY <3>1, <3>2
  <2> QED
    BY <2>1, <2>2
<1>6. RunSpends(p)'
  BY <1>4, <1>5 DEF RunSpends
<1>7. ASSUME login.pc = "store"
      PROVE  login.reply \notin {proc'[p].token, proc'[p].kept.token, proc'[p].reply}
  <2>1. /\ login.reply \notin {proc[p].token, proc[p].kept.token, None}
        /\ disk # None => disk.token # login.reply
    BY <1>7, FreshIsIssued DEF SpentInv, LoginFresh
  <2>2. Reloaded(p).token # login.reply /\ Empty.token = None
    BY <2>1 DEF Reloaded, Empty
  <2>3. Start(p) => disk # None
    BY DEF Start
  <2> QED
    BY <2>1, <2>2, <2>3, RunsTurn DEF Turns, Idles
<1>8. login.pc = "store" => (disk' # None => disk'.token # login.reply)
  BY <1>1 DEF SpentInv, LoginFresh
<1> QED
  BY <1>1, <1>2, <1>3, <1>6, <1>7, <1>8, DiskStands, RunIsFrugal

LEMMA ExchangeKeepsSpent ==
  ASSUME WellTyped, SpentInv, NEW p \in Procs, Run(p), Exchange(p)
  PROVE  SpentInv'
<1>1. /\ UNCHANGED <<disk, orphans>> /\ lock = p /\ proc[p].pc = "refresh"
      /\ proc'[p].pc = "reply" /\ proc'[p].token = proc[p].token /\ proc'[p].kept = proc[p].kept
  BY RunTyped, SavesTurn DEF Exchange, Turns, countVars
<1>2. CASE Grants(proc[p])
  <2>1. /\ live' = (live \ {proc[p].token}) \cup {issued + 1} /\ UNCHANGED revoked
        /\ proc'[p].reply = issued + 1 /\ issued + 1 # None
    <3>1. Issue(proc[p].client, {proc[p].token})
      BY <1>2 DEF Exchange
    <3>2. proc'[p].reply = issued + 1
      BY <1>2, SavesTurn DEF Turns
    <3>3. issued + 1 \in Nat
      BY OthersTyped
    <3> QED
      BY <3>1, <3>2, <3>3, McpTokensAssumption DEF Issue
  <2>2. \A q \in Procs \ {p} :
          proc'[q].pc \notin {"refresh", "reply", "handle", "share"} /\ proc'[q].reply = None
    BY <1>1, Alone, OthersStand DEF Waiting
  <2>3. \A q \in Procs : RunSpends(q)'
    <3>1. RunSpends(p)'
      BY <1>1, <2>1 DEF RunSpends
    <3>2. \A q \in Procs \ {p} : RunSpends(q)'
      BY <2>2 DEF RunSpends
    <3> QED
      BY <3>1, <3>2
  <2>4. ASSUME disk # None, disk.token # None, disk.token \notin Good'
        PROVE  Spending(p, disk.token)'
    <3>1. \A q \in Procs : ~ Waiting(q)
      BY <1>1, Alone, RunTyped DEF Waiting, Expects
    <3>2. disk.token \in Good
      BY <2>4, <3>1, DiskIsGood
    <3>3. disk.token = proc[p].token
      BY <1>1, <2>1, <2>4, <3>2 DEF Good
    <3> QED
      BY <1>1, <2>1, <3>3 DEF Spending
  <2>6. LoginFresh'
    BY <1>1, <2>1, OthersStand, FreshIsIssued DEF SpentInv, LoginFresh
  <2> QED
    BY <1>1, <2>3, <2>4, <2>6 DEF SpentInv
<1>3. CASE ~ Grants(proc[p])
  <2>1. UNCHANGED <<live, revoked>> /\ proc'[p].reply = None
    BY <1>3, SavesTurn DEF Exchange, Turns, serverVars
  <2>2. Good \subseteq Good' /\ RunSpends(p)' /\ ~ Waiting(p)
    BY <1>1, <2>1, RunTyped DEF Good, RunSpends, Waiting, Expects
  <2>3. login.pc = "store" =>
          /\ login.reply \notin {proc'[p].token, proc'[p].kept.token, proc'[p].reply}
          /\ disk' # None => disk'.token # login.reply
    BY <1>1, <2>1, FreshIsIssued DEF SpentInv, LoginFresh
  <2> QED
    BY <1>1, <2>1, <2>2, <2>3, DiskStands, RunIsFrugal
<1> QED
  BY <1>2, <1>3

LEMMA SavesKeepSpent ==
  ASSUME WellTyped, SpentInv, NEW p \in Procs, Run(p),
         Stored(p) \/ Share(p) \/ ShareWrites(p)
  PROVE  SpentInv'
<1>1. UNCHANGED <<live, revoked, orphans>>
  BY DEF Stored, Share, ShareWrites, serverVars, countVars
<1>2. Good' = Good /\ live \subseteq live'
  BY <1>1 DEF Good
<1>3. /\ login.pc = "store" =>
           /\ login.reply \notin {proc[p].token, proc[p].kept.token, proc[p].reply, None}
           /\ disk # None => disk.token # login.reply
  BY FreshIsIssued DEF SpentInv, LoginFresh
<1>4. CASE Stored(p)
  <2>1. /\ proc[p].reply # None
        /\ disk' = [proc[p].kept EXCEPT !.token = proc[p].reply]
        /\ Turns(p, {"call"}, proc[p].reply, disk', None)
    BY <1>4, SavesTurn DEF Stored
  <2>2. disk'.token = proc[p].reply
    BY <2>1, RunTyped DEF Record
  <2>3. disk'.token \in Good' /\ RunSpends(p)'
    BY <1>2, <2>1, <2>2 DEF SpentInv, RunSpends, Good, Turns
  <2> QED
    BY <1>2, <1>3, <2>1, <2>2, <2>3, RunIsFrugal DEF Turns
<1>5. CASE Share(p)
  <2>1. PICK k \in Saves(proc[p].kept) :
          Turns(p, {"share"}, proc[p].token, k, proc[p].reply)
    BY <1>5, SavesTurn
  <2>2. k.token = IF disk = None THEN None ELSE disk.token
    BY SavesTokens, RunTyped
  <2>3. UNCHANGED disk /\ \A q \in Procs \ {p} : ~ Waiting(q)
    <3>1. UNCHANGED disk /\ lock \in {None, p}
      BY <1>5 DEF Share
    <3> QED
      BY <3>1, Alone
  <2>4. disk # None /\ disk.token # None =>
          disk.token \in Good \/ Spending(p, disk.token)
    BY <2>3 DEF SpentInv, Spending, Waiting
  <2>5. Spending(p, disk.token) => Spending(p, disk.token)'
    BY <2>1, <2>3 DEF Spending, Turns
  <2>6. RunSpends(p)'
    <3>1. k.token # None => k.token \in Good \/ (Spending(p, disk.token) /\ k.token = disk.token)
      BY <2>2, <2>4
    <3>2. proc[p].reply # None => proc[p].reply \in live
      BY DEF SpentInv, RunSpends
    <3> QED
      BY <1>1, <1>2, <2>1, <3>1, <3>2 DEF RunSpends, Turns, Spending
  <2>7. login.pc = "store" =>
          /\ login.reply \notin {proc'[p].token, proc'[p].kept.token, proc'[p].reply}
          /\ disk' # None => disk'.token # login.reply
    BY <1>3, <2>1, <2>2, <2>3 DEF Turns
  <2>8. disk' # None /\ disk'.token # None =>
          disk'.token \in Good' \/ \E q \in Procs : Spending(q, disk.token)'
    BY <1>2, <2>3, <2>4, <2>5
  <2> QED
    BY <1>2, <2>6, <2>7, <2>8, RunIsFrugal
<1>6. CASE ShareWrites(p)
  <2>1. /\ disk' = proc[p].kept /\ proc[p].pc = "share"
        /\ Turns(p, {proc[p].next}, proc[p].token, proc[p].kept, proc[p].reply)
        /\ proc[p].next \in {"idle", "handle", "denied"}
    BY <1>6, SavesTurn, RunTyped DEF ShareWrites, Process
  <2>2. disk'.token # None => disk'.token \in Good' \/ Spending(p, disk.token)'
    BY <1>2, <2>1 DEF SpentInv, RunSpends, Spending, Turns
  <2>3. RunSpends(p)'
    BY <1>1, <2>1 DEF SpentInv, RunSpends, Turns
  <2> QED
    BY <1>2, <1>3, <2>1, <2>2, <2>3, RunIsFrugal DEF Turns
<1> QED
  BY <1>4, <1>5, <1>6

LEMMA LoginKeepsSpent ==
  ASSUME WellTyped, SpentInv, Login
  PROVE  SpentInv'
<1>1. UNCHANGED <<proc, logout, revoked, orphans>> /\ live \subseteq live'
  BY DEF Login, LoginStart, LoginDiscovers, LoginRegisters, LoginExchange, LoginStores,
         LoginAbandoned, Issue, serverVars, countVars
<1>2. Good \subseteq Good'
  BY <1>1 DEF Good
<1>3. \A q \in Procs : RunSpends(q)'
  BY <1>1, <1>2 DEF SpentInv, RunSpends, Spending
<1>4. DiskTokenStays \/ disk'.token \in Good'
  <2>1. CASE LoginStores
    BY <1>2, <2>1 DEF LoginStores, SpentInv, LoginFresh, Good
  <2>2. CASE ~ LoginStores
    BY <2>2, LoginTurns DEF Login
  <2> QED
    BY <2>1, <2>2
<1>5. disk' # None /\ disk'.token # None =>
        disk'.token \in Good' \/ \E q \in Procs : Spending(q, disk.token)'
  BY <1>1, <1>2, <1>4 DEF SpentInv, Spending, DiskTokenStays
<1>7. LoginFresh'
  <2>1. CASE LoginExchange
    <3>1. issued \in Nat /\ issued + 1 \notin Known
      BY OthersTyped, McpTokensAssumption DEF Known
    <3>2. issued + 1 \in live' /\ login'.reply = issued + 1 /\ UNCHANGED disk
      BY <2>1, LoginTurns DEF LoginExchange, Issue
    <3> QED
      BY <1>1, <3>1, <3>2, OthersTyped, RunTyped DEF LoginFresh
  <2>2. CASE ~ LoginExchange
    BY <2>2, LoginTurns DEF Login, LoginFresh
  <2> QED
    BY <2>1, <2>2
<1> QED
  BY <1>3, <1>5, <1>7 DEF SpentInv

LEMMA LogoutKeepsSpent ==
  ASSUME WellTyped, SpentInv, Logout
  PROVE  SpentInv'
<1>1. UNCHANGED <<proc, login, orphans>>
  BY DEF Logout, LogoutLocks, LogoutRevokes, LogoutRemoves, countVars
<1>2. CASE LogoutLocks
  BY <1>1, <1>2 DEF LogoutLocks, SpentInv, RunSpends, LoginFresh, Spending, Good, serverVars
<1>3. CASE LogoutRevokes
  <2>1. /\ UNCHANGED disk /\ lock = "logout"
        /\ logout'.record.token = None
        /\ live \ {logout.record.token} \subseteq live'
        /\ live \cup revoked \subseteq live' \cup revoked'
    BY <1>3, OthersTyped, McpTokensAssumption DEF LogoutRevokes, NoLogout, Empty
  <2>2. Good \subseteq Good'
    BY <1>1, <2>1 DEF Good
  <2>3. \A q \in Procs : ~ Waiting(q) /\ proc[q].pc # "share"
    BY <2>1, RunTyped, McpTokensAssumption DEF Waiting, Expects
  <2>4. \A q \in Procs : RunSpends(q)'
    BY <1>1, <2>2, <2>3 DEF SpentInv, RunSpends, Waiting
  <2>5. LoginFresh'
    <3>1. login.pc = "store" => login.reply # logout.record.token
      BY DEF SpentInv, LoginFresh
    <3> QED
      BY <1>1, <2>1, <3>1, FreshIsIssued DEF SpentInv, LoginFresh
  <2> QED
    BY <1>1, <2>1, <2>2, <2>3, <2>4, <2>5, DiskIsGood DEF SpentInv
<1>4. CASE LogoutRemoves
  <2>1. disk' = None /\ UNCHANGED <<live, revoked>> /\ logout'.record.token = None
    BY <1>4 DEF LogoutRemoves, serverVars, NoLogout, Empty
  <2> QED
    BY <1>1, <2>1, FreshIsIssued DEF SpentInv, RunSpends, LoginFresh, Good, Spending
<1> QED
  BY <1>2, <1>3, <1>4 DEF Logout

LEMMA SpentStep == WellTyped /\ SpentInv /\ [Next]_vars => SpentInv'
<1> SUFFICES ASSUME WellTyped, SpentInv, [Next]_vars PROVE SpentInv'
  OBVIOUS
<1>1. ASSUME NEW p \in Procs, Run(p) PROVE SpentInv'
  BY <1>1, QuietRunsKeepSpent, ExchangeKeepsSpent, SavesKeepSpent DEF Run, Proceed
<1>3. CASE UNCHANGED vars
  BY <1>3 DEF vars, serverVars, countVars, SpentInv, RunSpends, LoginFresh, Spending, Good
<1> QED
  BY <1>1, <1>3, LoginKeepsSpent, LogoutKeepsSpent DEF Next

(* However many runs share the file and however long each waits for the    *)
(* lock, a refresh sends a token nobody has spent, unless the answer of    *)
(* the one that spent it was lost, or a logout revoked it.                 *)
THEOREM TokensAreSpentOnce == Spec => []SpentOnce
<1>1. Init => SpentInv
  BY DEF Init, SpentInv, RunSpends, LoginFresh, Off, NoLogin
<1>2. SpentInv => SpentOnce
  BY DEF SpentInv, RunSpends, SpentOnce, Good
<1> QED
  BY <1>1, <1>2, TypesInit, TypesStep, SpentStep, PTL DEF Spec
-----------------------------------------------------------------------------
(* Runs keep the authorization they share.                                 *)
LEMMA ClientsTurn ==
  ASSUME WellTyped, NEW p \in Procs, Run(p)
  PROVE  /\ Start(p) => proc'[p].client = disk.client
         /\ Request(p) => proc'[p].client \in {proc[p].client, proc[p].kept.client}
         /\ Start(p) \/ Request(p) \/ Kill(p) \/ proc'[p].client = proc[p].client
<1>1. proc[p] \in Process
  BY RunTyped
<1>2. \A r : Becomes(p, r) => proc'[p] = r
  BY DEF Becomes, WellTyped, TypeOK
<1>3. Start(p) => proc'[p].client = disk.client
  BY <1>2 DEF Start, Off
<1>4. ASSUME Request(p) PROVE proc'[p].client \in {proc[p].client, proc[p].kept.client}
  <2>1. PICK r \in Process, pc \in {"call", "denied", "lock"} :
          /\ proc'[p] = [r EXCEPT !.pc = pc]
          /\ r.client \in {proc[p].client, proc[p].kept.client}
    BY <1>2, <1>4, Requested
  <2>2. [r EXCEPT !.pc = pc].client = r.client
    BY DEF Process
  <2> QED
    BY <2>1, <2>2
<1>5. ASSUME LockBusy(p) \/ ExchangeFails(p) \/ ReplyLost(p) \/ Answered(p) \/ GiveUp(p)
      PROVE  proc'[p].client = proc[p].client
  <2>1. proc'[p] = Idle(proc[p])
    BY <1>2, <1>5 DEF LockBusy, ExchangeFails, ReplyLost, Answered, GiveUp
  <2> QED
    BY <1>1, <2>1, IdleFields
<1>6. ASSUME Acquire(p) PROVE proc'[p].client = proc[p].client
  <2>1. CASE Reloaded(p).token = None
    <3>1. proc'[p] = Idle(ReloadedOf(p))
      BY <1>2, <1>6, <2>1, Acquired
    <3>2. ReloadedOf(p) \in Process /\ ReloadedOf(p).client = proc[p].client
      BY ReloadedKept DEF ReloadedOf
    <3>3. Idle(ReloadedOf(p)).client = ReloadedOf(p).client
      BY <3>2, IdleFields
    <3> QED
      BY <3>1, <3>2, <3>3
  <2>2. CASE Reloaded(p).token # None
    BY <1>2, <1>6, <2>2, Acquired
  <2> QED
    BY <2>1, <2>2
<1>7. ASSUME Denied(p) \/ Share(p) \/ ShareWrites(p) PROVE proc'[p].client = proc[p].client
  <2>1. \E pc, kept, next :
          proc'[p] \in {[proc[p] EXCEPT !.pc = pc],
                        [proc[p] EXCEPT !.pc = pc, !.next = next],
                        [proc[p] EXCEPT !.pc = pc, !.kept = kept, !.next = next]}
    BY <1>2, <1>7 DEF Denied, Share, ShareWrites
  <2> QED
    BY <1>1, <2>1 DEF Process
<1>8. ASSUME Exchange(p) \/ Stored(p) \/ Refused(p) PROVE proc'[p].client = proc[p].client
  <2>1. CASE Exchange(p)
    <3>1. \E t : proc'[p] = [proc[p] EXCEPT !.pc = "reply", !.reply = t]
      BY <1>2, <2>1 DEF Exchange
    <3> QED
      BY <1>1, <3>1 DEF Process
  <2>2. CASE Stored(p)
    <3>1. \E t, k : proc'[p] = [Idle(proc[p]) EXCEPT !.pc = "call", !.token = t, !.own = TRUE,
                                                    !.kept = k]
      BY <1>2, <2>2 DEF Stored
    <3> QED
      BY <1>1, <3>1 DEF Process, Idle
  <2>3. CASE Refused(p)
    <3>1. proc'[p] = [Idle(proc[p]) EXCEPT !.pc = "call", !.token = None, !.own = FALSE]
      BY <1>2, <2>3 DEF Refused
    <3> QED
      BY <1>1, <3>1 DEF Process, Idle
  <2> QED
    BY <1>8, <2>1, <2>2, <2>3
<1> QED
  BY <1>3, <1>4, <1>5, <1>6, <1>7, <1>8 DEF Run, Proceed

(* While nothing was revoked, only a token of the run's own is denied.     *)
LEMMA OwnIsDenied ==
  ASSUME WellTyped, NEW p \in Procs, revoked = {}, proc[p].token # None
  PROVE  /\ Denies(proc[p]) => proc[p].own
         /\ Denied(p) => proc[p].own /\ proc'[p].own
<1>1. Denies(proc[p]) => proc[p].own
  BY DEF Denies, Accepts
<1>2. ASSUME Denied(p) PROVE proc'[p].own = proc[p].own
  <2>1. proc'[p] = [proc[p] EXCEPT !.pc = "denied"]
    BY <1>2 DEF Denied, Becomes, WellTyped, TypeOK
  <2> QED
    BY <2>1, RunTyped DEF Process
<1> QED
  BY <1>1, <1>2 DEF Denied

LEMMA KillIsTold ==
  ASSUME WellTyped, NEW p, Kill(p)
  PROVE  faults' # faults
BY OthersTyped DEF Kill

(* A run's step that leaves the server alone, and the file as it was.      *)
LEMMA RunIsLoyal ==
  ASSUME WellTyped, Kept, NEW p \in Procs, Run(p), Authorized,
         UNCHANGED <<live, revoked, owner, logins>>,
         disk' # None, disk'.token = disk.token, disk'.client = disk.client,
         proc'[p].reply = None => proc[p].reply = None, RunKeeps(p)'
  PROVE  Kept'
<1>1. Authorized' /\ login.pc = "off" /\ logins # 0 /\ disk'.client # None
  BY DEF Kept, Authorized
<1>2. ASSUME NEW q \in Procs \ {p}, proc'[q].pc # "off" PROVE RunKeeps(q)'
  BY <1>2, OthersStand DEF Kept, RunKeeps, Refreshes
<1>3. (\A q \in Procs : proc'[q].reply = None) => \A q \in Procs : proc[q].reply = None
  BY OthersStand
<1>4. (\A q \in Procs : proc'[q].reply = None) => Refreshes(disk.token, disk.client)'
  BY <1>3 DEF Kept, Authorized, Refreshes
<1> QED
  BY <1>1, <1>2, <1>4, OthersStand DEF Kept

LEMMA QuietRunsKeep ==
  ASSUME WellTyped, Kept, NEW p \in Procs, Run(p),
         Start(p) \/ Request(p) \/ Acquire(p) \/ LockBusy(p) \/ ExchangeFails(p) \/ Answered(p)
           \/ Denied(p) \/ GiveUp(p)
  PROVE  Kept'
<1>1. UNCHANGED <<disk, live, revoked, owner, logins>>
  BY DEF Start, Request, Acquire, LockBusy, ExchangeFails, Answered, Denied, GiveUp, serverVars,
         countVars
<1>2. /\ Authorized /\ disk.client # None /\ revoked = {} /\ ~ Expects(proc[p])
      /\ proc[p].reply = None
  BY RunTyped DEF Start, Request, Acquire, LockBusy, ExchangeFails, Answered, Denied, GiveUp, Kept,
                  Authorized, Expects
<1>3. ~ Start(p) => RunKeeps(p)
  BY DEF Request, Acquire, LockBusy, ExchangeFails, Answered, Denied, GiveUp, Kept
<1>4. Reloaded(p) = disk
  BY <1>2 DEF Reloaded, Authorized
<1>5. /\ proc'[p].pc \in {"idle", "lock", "refresh", "call", "denied"}
      /\ proc'[p].pc = "refresh" => proc'[p].token = disk.token
      /\ proc'[p].pc = "denied" => proc'[p].own
      /\ proc'[p].token # None /\ proc'[p].kept.token # None
      /\ proc'[p].kept.client = disk.client /\ proc'[p].reply = None
  <2>1. CASE Start(p)
    BY <1>2, <2>1, RunsTurn DEF Turns, Authorized
  <2>2. CASE Request(p)
    <3>1. RunKeeps(p)
      BY <1>3, <2>2 DEF Request, Start
    <3>2. proc'[p].pc # "denied"
      <4>1. PICK r \in Process, pc \in {"call", "denied", "lock"} :
              /\ Becomes(p, [r EXCEPT !.pc = pc])
              /\ r.client \in {proc[p].client, proc[p].kept.client}
              /\ pc = "denied" => r.client = None
        BY <2>2, Requested
      <4>2. pc # "denied"
        BY <1>2, <3>1, <4>1 DEF RunKeeps
      <4>3. proc'[p] = [r EXCEPT !.pc = pc]
        BY <4>1 DEF Becomes, WellTyped, TypeOK
      <4> QED
        BY <4>2, <4>3 DEF Process
    <3> QED
      BY <2>2, <3>1, <3>2, RunsTurn DEF Turns, RunKeeps
  <2>3. CASE Acquire(p)
    BY <1>2, <1>3, <1>4, <2>3, RunsTurn DEF Turns, RunKeeps, Start, Acquire, Authorized
  <2>4. CASE LockBusy(p) \/ ExchangeFails(p) \/ Answered(p) \/ GiveUp(p)
    <3>1. RunKeeps(p)
      BY <1>3, <2>4 DEF LockBusy, ExchangeFails, Answered, GiveUp, Start
    <3> QED
      BY <2>4, <3>1, RunsTurn DEF Turns, Idles, RunKeeps
  <2>5. CASE Denied(p)
    <3>1. RunKeeps(p)
      BY <1>3, <2>5 DEF Denied, Start
    <3>2. proc'[p].own
      BY <1>2, <2>5, <3>1, OwnIsDenied DEF RunKeeps
    <3> QED
      BY <2>5, <3>1, <3>2, RunsTurn DEF Turns, RunKeeps
  <2> QED
    BY <2>1, <2>2, <2>3, <2>4, <2>5
<1>6. proc'[p].client = disk.client
  <2>1. ~ Start(p) => proc[p].client = disk.client /\ proc[p].kept.client = disk.client
    BY <1>3 DEF RunKeeps
  <2>2. ~ Kill(p)
    BY KillIsTold DEF Start, Request, Acquire, LockBusy, ExchangeFails, Answered, Denied, GiveUp,
                      countVars
  <2> QED
    BY <2>1, <2>2, ClientsTurn
<1>7. RunKeeps(p)'
  BY <1>1, <1>5, <1>6 DEF RunKeeps, Overdue, Expects
<1> QED
  BY <1>1, <1>2, <1>5, <1>7, RunIsLoyal DEF Authorized

LEMMA SavesKeep ==
  ASSUME WellTyped, Kept, NEW p \in Procs, Run(p), Share(p) \/ ShareWrites(p)
  PROVE  Kept'
<1>1. /\ UNCHANGED <<live, revoked, owner, logins>> /\ revoked = {}
      /\ Authorized /\ RunKeeps(p)
  <2>1. proc[p].pc # "off"
    <3>1. ASSUME Share(p) PROVE proc[p].pc # "off"
      BY <3>1, FollowsOn DEF Share
    <3> QED
      BY <3>1 DEF ShareWrites
  <2> QED
    BY <2>1 DEF Share, ShareWrites, serverVars, countVars, Kept
<1>2. proc'[p].client = disk.client
  <2>1. ~ (Start(p) \/ Request(p) \/ Kill(p))
    <3>1. UNCHANGED faults /\ proc[p].pc \in {"reply", "call", "denied", "share"}
      BY FollowsOn DEF Share, ShareWrites, countVars
    <3> QED
      BY <3>1, KillIsTold DEF Start, Request
  <2> QED
    BY <1>1, <2>1, ClientsTurn DEF RunKeeps
<1>3. CASE Share(p)
  <2>1. PICK k \in Saves(proc[p].kept), next \in Following(proc[p]) :
          /\ Turns(p, {"share"}, proc[p].token, k, proc[p].reply)
          /\ proc'[p].next = next /\ proc'[p].own = proc[p].own
    BY <1>3, SavesTurn
  <2>2. k.token = disk.token /\ k.client = proc[p].kept.client
    BY <1>1, SavesTokens, RunTyped DEF Authorized
  <2>3. disk' = disk
    BY <1>3 DEF Share
  <2>4. next = "denied" => proc[p].own
    BY <1>1, FollowsOn, OwnIsDenied DEF RunKeeps
  <2>5. next = "handle" => Expects(proc[p])
    BY FollowsOn DEF Expects
  <2>6. RunKeeps(p)'
    <3>1. Overdue(proc[p])' => proc'[p].own
      BY <2>1, <2>4 DEF Overdue, Turns
    <3>2. Expects(proc[p])' => proc'[p].reply # None
      BY <1>1, <2>1, <2>5 DEF Expects, Turns, RunKeeps
    <3> QED
      BY <1>1, <1>2, <2>1, <2>2, <2>3, <3>1, <3>2 DEF RunKeeps, Turns, Authorized, Refreshes
  <2> QED
    BY <1>1, <2>1, <2>3, <2>6, RunIsLoyal DEF Turns, Authorized
<1>4. CASE ShareWrites(p)
  <2>1. /\ disk' = proc[p].kept /\ proc[p].pc = "share"
        /\ Turns(p, {proc[p].next}, proc[p].token, proc[p].kept, proc[p].reply)
        /\ proc'[p].own = proc[p].own /\ proc[p].next \in {"idle", "handle", "denied"}
    BY <1>4, SavesTurn, RunTyped DEF ShareWrites, Process
  <2>2. disk' # None /\ disk'.token = disk.token /\ disk'.client = disk.client
    BY <1>1, <2>1, RunTyped, McpTokensAssumption DEF RunKeeps
  <2>3. RunKeeps(p)'
    <3>1. Overdue(proc[p])' => proc'[p].own
      BY <1>1, <2>1 DEF Overdue, Turns, RunKeeps
    <3>2. Expects(proc[p])' => proc'[p].reply # None
      BY <1>1, <2>1 DEF Expects, Turns, RunKeeps
    <3> QED
      BY <1>1, <1>2, <2>1, <2>2, <3>1, <3>2 DEF RunKeeps, Turns, Refreshes
  <2> QED
    BY <1>1, <2>1, <2>2, <2>3, RunIsLoyal DEF Turns
<1> QED
  BY <1>3, <1>4

LEMMA ExchangeKeeps ==
  ASSUME WellTyped, Kept, NEW p \in Procs, Run(p), Exchange(p)
  PROVE  Kept'
<1>1. /\ UNCHANGED <<disk, logins>> /\ lock = p /\ proc[p].pc = "refresh"
      /\ proc'[p].pc = "reply" /\ proc'[p].token = proc[p].token /\ proc'[p].kept = proc[p].kept
  BY RunTyped, SavesTurn DEF Exchange, Turns, countVars
<1>2. Authorized /\ RunKeeps(p) /\ login.pc = "off"
  BY <1>1 DEF Kept
<1>3. /\ proc[p].reply = None
      /\ \A q \in Procs \ {p} :
           proc[q].reply = None /\ proc[q].pc \notin {"refresh", "reply", "handle", "share"}
  BY <1>1, Alone, RunTyped DEF Waiting, Expects
<1>4. Grants(proc[p])
  <2>1. Refreshes(disk.token, disk.client)
    BY <1>1, <1>2, <1>3 DEF Kept
  <2> QED
    BY <1>1, <1>2, <2>1 DEF RunKeeps, Refreshes, Grants
<1>5. Issue(disk.client, {disk.token})
  BY <1>1, <1>2, <1>4 DEF Exchange, RunKeeps
<1>6. proc'[p].reply = issued + 1 /\ proc'[p].client = disk.client
  <2>1. ~ (Start(p) \/ Request(p) \/ Kill(p))
    BY <1>1, KillIsTold DEF Exchange, Start, Request, countVars
  <2> QED
    BY <1>2, <1>4, <2>1, SavesTurn, ClientsTurn DEF Turns, RunKeeps
<1>7. issued + 1 \in live' /\ owner'[issued + 1] = disk.client /\ revoked' = revoked
  <2>1. issued + 1 \in Token /\ owner \in [Token -> Client \cup {None}]
    BY <1>5, OthersTyped DEF Issue, Token
  <2> QED
    BY <1>5, <2>1 DEF Issue
<1>8. issued + 1 # None
  BY OthersTyped, McpTokensAssumption
<1>9. RunKeeps(p)'
  BY <1>1, <1>2, <1>6, <1>7, <1>8 DEF RunKeeps, Refreshes, Overdue
<1>10. ASSUME NEW q \in Procs \ {p}, proc'[q].pc # "off" PROVE RunKeeps(q)'
  BY <1>1, <1>3, <1>10, OthersStand DEF Kept, RunKeeps
<1> QED
  BY <1>1, <1>2, <1>6, <1>7, <1>8, <1>9, <1>10, OthersStand DEF Kept, Authorized

LEMMA StoredKeeps ==
  ASSUME WellTyped, Kept, NEW p \in Procs, Run(p), Stored(p)
  PROVE  Kept'
<1>1. /\ proc[p].pc # "off" /\ proc[p].reply # None /\ lock = p
      /\ disk' = [proc[p].kept EXCEPT !.token = proc[p].reply]
      /\ Turns(p, {"call"}, proc[p].reply, disk', None)
      /\ UNCHANGED <<live, revoked, owner, logins>>
  BY RunTyped, SavesTurn DEF Stored, serverVars, countVars
<1>2. Authorized /\ RunKeeps(p) /\ login.pc = "off"
  BY <1>1 DEF Kept
<1>3. /\ disk' # None /\ disk'.token = proc[p].reply /\ disk'.client = disk.client
  <2>1. proc[p].kept \in Record /\ proc[p].reply \in Token \cup {None}
    BY RunTyped DEF Process
  <2>2. disk' \in Record /\ disk'.token = proc[p].reply /\ disk'.client = proc[p].kept.client
    BY <1>1, <2>1 DEF Record
  <2> QED
    BY <1>2, <2>2, McpTokensAssumption DEF RunKeeps
<1>4. Refreshes(disk.token, disk.client)'
  BY <1>1, <1>2, <1>3 DEF RunKeeps, Refreshes
<1>5. proc'[p].client = disk.client
  <2>1. ~ (Start(p) \/ Request(p) \/ Kill(p))
    BY KillIsTold DEF Stored, Start, Request, countVars
  <2> QED
    BY <1>2, <2>1, ClientsTurn DEF RunKeeps
<1>6. RunKeeps(p)'
  BY <1>1, <1>3, <1>5 DEF RunKeeps, Turns, Overdue, Expects
<1>7. ASSUME NEW q \in Procs \ {p}, proc'[q].pc # "off" PROVE RunKeeps(q)'
  <2>1. /\ proc'[q] = proc[q] /\ proc[q].reply = None
        /\ proc[q].pc \notin {"refresh", "reply", "handle", "share"}
    BY <1>1, <1>7, Alone, OthersStand DEF Waiting
  <2>2. RunKeeps(q)
    BY <1>7, <2>1 DEF Kept
  <2> QED
    BY <1>3, <2>1, <2>2 DEF RunKeeps
<1>8. Authorized' /\ disk'.client # None
  BY <1>1, <1>2, <1>3 DEF Authorized, Kept
<1>9. logins # 0
  BY <1>2 DEF Kept, Authorized
<1> QED
  BY <1>1, <1>2, <1>4, <1>6, <1>7, <1>8, <1>9, OthersStand DEF Kept

LEMMA RunsKeep ==
  ASSUME WellTyped, Kept, NEW p \in Procs, Run(p), faults' = faults
  PROVE  Kept'
<1>1. ~ ReplyLost(p) /\ ~ Kill(p)
  BY OthersTyped DEF ReplyLost, Kill
<1>2. ~ Refused(p)
  BY DEF Refused, Kept, RunKeeps, Expects
<1> QED
  BY <1>1, <1>2, QuietRunsKeep, SavesKeep, ExchangeKeeps, StoredKeeps DEF Run, Proceed

(* While a login lasts there is no token, and no run.                      *)
LEMMA LoginKeeps ==
  ASSUME WellTyped, Kept, Login, Calm'
  PROVE  Kept'
<1>1. UNCHANGED <<proc, logout, revoked>>
  BY DEF Login, LoginStart, LoginDiscovers, LoginRegisters, LoginExchange, LoginStores,
         LoginAbandoned, Issue, serverVars
<1>2. ~ Authorized
  <2>1. LoginStart => logins = 0
    BY OthersTyped DEF LoginStart, Calm
  <2>2. ~ LoginStart => login.pc # "off"
    BY DEF Login, LoginDiscovers, LoginRegisters, LoginExchange, LoginStores, LoginAbandoned
  <2> QED
    BY <2>1, <2>2 DEF Kept, Authorized
<1>3. \A q \in Procs : proc'[q].pc = "off"
  BY <1>1, <1>2 DEF Kept
<1>4. logins' # 0
  BY OthersTyped DEF Login, LoginStart, LoginDiscovers, LoginRegisters, LoginExchange,
                     LoginStores, LoginAbandoned, countVars
<1>5. CASE LoginStart \/ LoginDiscovers \/ LoginRegisters
  <2>1. /\ login'.pc \in {"register", "registered", "present"} /\ DiskTokenStays
        /\ login'.pc = "present" => login'.kept.client # None
    BY <1>5, LoginTurns
  <2> QED
    BY <1>1, <1>2, <1>3, <1>4, <2>1 DEF Kept, Authorized, DiskTokenStays
<1>8. CASE LoginExchange
  <2>1. /\ disk' = disk /\ login'.pc = "store" /\ login'.reply = issued + 1
        /\ login'.kept = login.kept
    BY <1>8, OthersTyped, LoginTurns DEF LoginExchange
  <2>2. issued + 1 \in live' /\ owner'[issued + 1] = login.kept.client
    <3>1. issued + 1 \in Token /\ owner \in [Token -> Client \cup {None}]
      BY <1>8, OthersTyped DEF LoginExchange, Issue, Token
    <3> QED
      BY <1>8, <3>1 DEF LoginExchange, Issue
  <2>3. Refreshes(login.reply, login.kept.client)'
    BY <2>1, <2>2 DEF Refreshes
  <2> QED
    BY <1>1, <1>2, <1>3, <1>4, <1>8, <2>1, <2>3 DEF Kept, Authorized, LoginExchange
<1>9. CASE LoginStores
  <2>1. /\ disk' = [token |-> login.reply, client |-> login.kept.client]
        /\ login'.pc = "off" /\ UNCHANGED <<live, owner>>
        /\ Refreshes(login.reply, login.kept.client) /\ login.kept.client # None
    BY <1>9, LoginTurns DEF LoginStores, serverVars, Kept
  <2>2. Refreshes(disk.token, disk.client)'
    BY <2>1 DEF Refreshes
  <2> QED
    BY <1>1, <1>3, <1>4, <2>1, <2>2 DEF Kept
<1>10. CASE LoginAbandoned
  <2>1. disk' = disk /\ login'.pc = "off"
    BY <1>10, LoginTurns DEF LoginAbandoned
  <2> QED
    BY <1>1, <1>2, <1>3, <1>4, <2>1 DEF Kept, Authorized
<1> QED
  BY <1>5, <1>8, <1>9, <1>10 DEF Login

LEMMA KeptStep == WellTyped /\ KeptInv /\ [Next]_vars => KeptInv'
<1> SUFFICES ASSUME WellTyped, KeptInv, [Next]_vars, Calm' PROVE Kept'
  BY DEF KeptInv
<1> USE OthersTyped
<1>1. ASSUME NEW p \in Procs, Run(p) PROVE Kept'
  <2>1. logouts' = logouts /\ logins' = logins /\ faults' \in {faults, faults + 1}
    BY <1>1 DEF Run, Proceed, Start, Request, Acquire, LockBusy, Exchange, ExchangeFails,
                Stored, Refused, Answered, Denied, GiveUp, Share, ShareWrites, ReplyLost,
                Kill, countVars
  <2>2. faults' = faults /\ Calm
    BY <2>1 DEF Calm
  <2> QED
    BY <1>1, <2>2, RunsKeep DEF KeptInv
<1>2. CASE Login
  <2>1. faults' = faults /\ logouts' = logouts /\ logins' \in {logins, logins + 1}
    BY <1>2 DEF Login, LoginStart, LoginDiscovers, LoginRegisters, LoginExchange, LoginStores,
                LoginAbandoned, countVars
  <2>2. Calm
    BY <2>1 DEF Calm
  <2> QED
    BY <1>2, <2>2, LoginKeeps DEF KeptInv
<1>3. ~ Logout
  <2>1. ~ LogoutLocks
    BY DEF LogoutLocks, Calm
  <2>2. LogoutRevokes \/ LogoutRemoves => Calm /\ logout.pc # "off"
    BY DEF LogoutRevokes, LogoutRemoves, Calm, countVars
  <2> QED
    BY <2>1, <2>2 DEF Logout, KeptInv, Kept
<1>4. CASE UNCHANGED vars
  BY <1>4 DEF vars, serverVars, countVars, Calm, KeptInv, Kept, Authorized, RunKeeps, Refreshes
<1> QED
  BY <1>1, <1>2, <1>3, <1>4 DEF Next

(* However many runs share one login's authorization, and however their    *)
(* refreshes and saves interleave, no run is denied until a process is     *)
(* killed, an answer lost, a logout begun or a second login started, but   *)
(* for one with a token of its own refreshing whose life has just ended.   *)
THEOREM AuthorizationsAreKept == Spec => []AuthorizationIsKept
<1>1. Init => KeptInv
  BY DEF Init, KeptInv, Kept, Authorized, Off, NoLogin, NoLogout
<1>2. WellTyped /\ KeptInv => AuthorizationIsKept
  BY OthersTyped DEF KeptInv, Calm, Kept, RunKeeps, Overdue, AuthorizationIsKept
<1> QED
  BY <1>1, <1>2, TypesInit, TypesStep, KeptStep, PTL DEF Spec
=============================================================================
