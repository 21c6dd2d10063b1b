------------------------------ MODULE McpTokens -----------------------------
(***************************************************************************)
(* The stored authorization of one remote MCP server (mcp_auth.py), shared *)
(* by the runs of a user, `nare mcp login' and `nare mcp logout'.          *)
(*                                                                         *)
(* A refresh spends the token it sends, and the server answers with the    *)
(* next.  So a run takes the lock beside the token file, reads the file    *)
(* again, and spends or adopts what it finds.  A login writes without the  *)
(* lock.  A run is headless: it never authorizes anew.                     *)
(*                                                                         *)
(* A token is its number; it stands for the access token and the refresh   *)
(* token issued together.  A client is the login that registered it.       *)
(*                                                                         *)
(* An access token has a lifetime (expires_in).  Its end is not told, but  *)
(* what runs see of it is: _initialize and an adoption take a skew of 30 s *)
(* off the expiry, so a run that has its token from the file may find it   *)
(* stale at any request, and no request it sends with it comes too late.   *)
(* The SDK takes none off a token the run itself refreshed, and counts     *)
(* from the answer, so the server may deny that one.                       *)
(***************************************************************************)
EXTENDS Integers, FiniteSets

CONSTANTS
  None,
  Procs,        (* the runs                                                *)
  (* The bounds of an exploration.                                         *)
  MaxTokens,    (* tokens issued                                           *)
  MaxLogins,
  MaxUpsets     (* logouts, processes killed and answers lost              *)

Token == 1 .. MaxTokens

Client == 1 .. MaxLogins

(* A token file, or what a process remembers of one.                       *)
Record == [token : Token \cup {None}, client : Client \cup {None}]

ASSUME McpTokensAssumption ==
  /\ {MaxTokens, MaxLogins, MaxUpsets} \subseteq Nat
  /\ None \notin Nat \cup Procs \cup {"logout"}
  /\ None \notin Record
  /\ "logout" \notin Procs

Empty == [token |-> None, client |-> None]

Process == [pc     : {"off", "idle", "lock", "refresh", "reply", "handle", "call", "denied",
                      "share"},
            token  : Token \cup {None},   (* context.current_tokens        *)
            own    : BOOLEAN,             (* this run refreshed it         *)
            client : Client \cup {None},  (* context.client_info           *)
            kept   : Record,              (* the TokenFile's memory        *)
            reply  : Token \cup {None},   (* the answer to a refresh       *)
            next   : {"idle", "handle", "denied"}]   (* after a share      *)

Off == [pc |-> "off", token |-> None, own |-> FALSE, client |-> None, kept |-> Empty,
        reply |-> None, next |-> "idle"]

(* A run between two requests.                                             *)
Idle(r) == [r EXCEPT !.pc = "idle", !.reply = None, !.next = "idle"]

VARIABLES
  (* The machine.                                                          *)
  disk,      (* the token file, None when there is none                    *)
  lock,      (* who holds the lock                                         *)
  proc,      (* the runs                                                   *)
  login,     (* [pc, kept, client, reply]                                  *)
  logout,    (* [pc, record]                                               *)
  (* The authorization server.                                             *)
  issued,    (* tokens issued                                              *)
  live,      (* tokens whose refresh it grants                             *)
  revoked,   (* tokens it accepts no more                                  *)
  owner,     (* the client each token was issued to                        *)
  (* What happened.                                                        *)
  gone,      (* tokens stored, or to be, when a logout removed the file    *)
  orphans,   (* tokens spent for an answer that was never stored           *)
  logins, logouts, faults

serverVars == <<issued, live, revoked, owner>>

countVars == <<gone, orphans, logins, logouts, faults>>

vars == <<disk, lock, proc, login, logout, serverVars, countVars>>

Becomes(p, r) == proc' = [proc EXCEPT ![p] = r]

(* Faulty: the flow has no finally.                                        *)
ReleasedNever(p) == lock

(* The end of the flow gives the lock back, on every way out.              *)
Released(p) == IF lock = p THEN None ELSE lock

(* The server issues a token, for a code or for the token `spent'.         *)
Issue(client, spent) ==
  /\ issued < MaxTokens
  /\ issued' = issued + 1
  /\ live' = (live \ spent) \cup {issued + 1}
  /\ owner' = [owner EXCEPT ![issued + 1] = client]
  /\ revoked' = revoked

-----------------------------------------------------------------------------
(***************************************************************************)
(* A run.                                                                  *)
(***************************************************************************)

(* build_provider and _initialize.                                         *)
Start(p) ==
  /\ proc[p].pc = "off" /\ disk # None /\ disk.token # None
  /\ Becomes(p, [Off EXCEPT !.pc = "idle", !.token = disk.token, !.client = disk.client,
                            !.kept = disk])
  /\ UNCHANGED <<disk, lock, login, logout, serverVars, countVars>>

(* A request that has a token to send, or none; one whose token is stale,  *)
(* and has no client to refresh it, is sent without it and denied.         *)
Begins(r, stale) ==
  IF ~ stale \/ r.token = None THEN "call" ELSE IF r.client = None THEN "denied" ELSE "lock"

(* The next request; a refused refresh made the flow initialize again.     *)
Request(p) ==
  /\ proc[p].pc = "idle"
  /\ LET again == proc[p].token = None
         r == IF again
              THEN [proc[p] EXCEPT !.token = proc[p].kept.token, !.own = FALSE,
                                   !.client = proc[p].kept.client]
              ELSE proc[p]
     IN  \E stale \in BOOLEAN : Becomes(p, [r EXCEPT !.pc = Begins(r, stale)])
  /\ UNCHANGED <<disk, lock, login, logout, serverVars, countVars>>

(* Faulty: the file is not read again under the lock.                      *)
ReloadedNot(p) == proc[p].kept

Reloaded(p) == IF disk = None THEN Empty ELSE disk

(* Faulty: another run's refresh is not noticed.                           *)
AdoptedNot(p) == proc[p].token

Adopted(p) == Reloaded(p).token

Acquire(p) ==
  /\ proc[p].pc = "lock" /\ lock = None
  /\ LET r == [proc[p] EXCEPT !.kept = Reloaded(p)]
     IN  IF r.kept.token = None
         THEN lock' = lock /\ Becomes(p, Idle(r))
         ELSE /\ lock' = p
              /\ IF Adopted(p) = proc[p].token
                 THEN Becomes(p, [r EXCEPT !.pc = "refresh"])
                 ELSE \E pc \in {"refresh", "call"} :
                        Becomes(p, [r EXCEPT !.token = Adopted(p), !.own = FALSE, !.pc = pc])
  /\ UNCHANGED <<disk, login, logout, serverVars, countVars>>

LockBusy(p) ==
  /\ proc[p].pc = "lock" /\ lock # None
  /\ Becomes(p, Idle(proc[p]))
  /\ UNCHANGED <<disk, lock, login, logout, serverVars, countVars>>

(* The server grants a refresh of a live token to the client it was issued *)
(* to, and refuses any other.                                              *)
Grants(r) == r.token \in live /\ owner[r.token] = r.client

Exchange(p) ==
  /\ proc[p].pc = "refresh"
  /\ \/ /\ Grants(proc[p])
        /\ Issue(proc[p].client, {proc[p].token})
        /\ Becomes(p, [proc[p] EXCEPT !.pc = "reply", !.reply = issued + 1])
     \/ /\ ~ Grants(proc[p])
        /\ Becomes(p, [proc[p] EXCEPT !.pc = "reply", !.reply = None])
        /\ UNCHANGED serverVars
  /\ UNCHANGED <<disk, lock, login, logout, countVars>>

(* The request did not reach the server.                                   *)
ExchangeFails(p) ==
  /\ proc[p].pc = "refresh"
  /\ lock' = Released(p)
  /\ Becomes(p, Idle(proc[p]))
  /\ UNCHANGED <<disk, login, logout, serverVars, countVars>>

(* The answer to a refresh, once set_metadata has seen it (see Share):     *)
(* set_tokens, and the lock is given back.                                 *)
Stored(p) ==
  /\ proc[p].pc \in {"reply", "handle"} /\ proc[p].reply # None
  /\ LET kept == [proc[p].kept EXCEPT !.token = proc[p].reply]
     IN  /\ disk' = kept
         /\ Becomes(p, [Idle(proc[p]) EXCEPT !.pc = "call", !.token = proc[p].reply,
                                             !.own = TRUE, !.kept = kept])
  /\ lock' = None
  /\ UNCHANGED <<login, logout, serverVars, countVars>>

(* clear_tokens: the request goes out without a token.                     *)
Refused(p) ==
  /\ proc[p].pc \in {"reply", "handle"} /\ proc[p].reply = None
  /\ lock' = None
  /\ Becomes(p, [Idle(proc[p]) EXCEPT !.pc = "call", !.token = None, !.own = FALSE])
  /\ UNCHANGED <<disk, login, logout, serverVars, countVars>>

Orphaned(p) ==
  orphans' = IF proc[p].reply # None THEN orphans \cup {proc[p].token} ELSE orphans

ReplyLost(p) ==
  /\ proc[p].pc \in {"reply", "handle"} /\ logouts + faults < MaxUpsets
  /\ faults' = faults + 1
  /\ Orphaned(p)
  /\ lock' = Released(p)
  /\ Becomes(p, Idle(proc[p]))
  /\ UNCHANGED <<disk, login, logout, serverVars, gone, logins, logouts>>

Accepts(r) == r.token # None /\ r.token \notin revoked

Denies(r) == ~ Accepts(r) \/ r.own

Answered(p) ==
  /\ proc[p].pc = "call" /\ Accepts(proc[p])
  /\ lock' = Released(p)
  /\ Becomes(p, Idle(proc[p]))
  /\ UNCHANGED <<disk, login, logout, serverVars, countVars>>

(* A 401 gives the lock back, and starts a full authorization.             *)
Denied(p) ==
  /\ proc[p].pc = "call" /\ Denies(proc[p])
  /\ lock' = Released(p)
  /\ Becomes(p, [proc[p] EXCEPT !.pc = "denied"])
  /\ UNCHANGED <<disk, login, logout, serverVars, countVars>>

(* present raises: this needs a login.                                     *)
GiveUp(p) ==
  /\ proc[p].pc = "denied"
  /\ Becomes(p, Idle(proc[p]))
  /\ UNCHANGED <<disk, lock, login, logout, serverVars, countVars>>

(***************************************************************************)
(* set_metadata, after any response: metadata that differs from what the   *)
(* TokenFile remembers is saved, with the tokens the file holds and the    *)
(* client it remembers, under the lock the flow has, or else one it need   *)
(* not wait for.  Metadata differs when it was discovered anew, or another *)
(* process saved its own; here, it may at any response.                    *)
(***************************************************************************)

(* Faulty: a file that is gone is written again.                           *)
LoggedOutNever(kept) == FALSE

LoggedOut(kept) == disk = None /\ kept.token # None

Shared(kept) == IF disk = None THEN kept ELSE [kept EXCEPT !.token = disk.token]

Saves(kept) == IF LoggedOut(kept) THEN {} ELSE {Shared(kept)}

(* What the flow does with the response then.                              *)
Following(r) ==
  CASE r.pc = "reply"  -> {"handle"}
    [] r.pc = "call"   -> {next \in {"idle", "denied"} : IF next = "idle" THEN Accepts(r)
                                                         ELSE Denies(r)}
    [] r.pc = "denied" -> {"idle"}
    [] OTHER           -> {}

Share(p) ==
  /\ lock \in {None, p} /\ lock' = p
  /\ \E kept \in Saves(proc[p].kept), next \in Following(proc[p]) :
       Becomes(p, [proc[p] EXCEPT !.pc = "share", !.kept = kept, !.next = next])
  /\ UNCHANGED <<disk, login, logout, serverVars, countVars>>

(* Only a refresh still has use for the lock then.                         *)
ShareWrites(p) ==
  /\ proc[p].pc = "share"
  /\ disk' = proc[p].kept
  /\ lock' = IF proc[p].next = "handle" THEN lock ELSE Released(p)
  /\ Becomes(p, [proc[p] EXCEPT !.pc = proc[p].next, !.next = "idle"])
  /\ UNCHANGED <<login, logout, serverVars, countVars>>

Kill(p) ==
  /\ proc[p].pc # "off" /\ logouts + faults < MaxUpsets
  /\ faults' = faults + 1
  /\ Orphaned(p)
  /\ lock' = Released(p)
  /\ Becomes(p, Off)
  /\ UNCHANGED <<disk, login, logout, serverVars, gone, logins, logouts>>

-----------------------------------------------------------------------------
(***************************************************************************)
(* A login: the file is reset, a client registered, a person asked, and    *)
(* the code exchanged.  Of these only the registration looks at the lock,  *)
(* twice: for what was discovered, and for the client.                     *)
(***************************************************************************)
NoLogin == [pc |-> "off", kept |-> Empty, reply |-> None]

LoginStart ==
  /\ login.pc = "off" /\ logins < MaxLogins
  /\ logins' = logins + 1
  /\ disk' = Empty
  /\ login' = [NoLogin EXCEPT !.pc = "register"]
  /\ UNCHANGED <<lock, proc, logout, serverVars, gone, orphans, logouts, faults>>

(* A save of what the login learnt, if the lock is free.  Nobody else      *)
(* writes between its read and its write, so they are one step.            *)
LoginSaves(kept, next) ==
  IF lock = None /\ Saves(kept) # {}
  THEN \E saved \in Saves(kept) :
         disk' = saved /\ login' = [login EXCEPT !.pc = next, !.kept = saved]
  ELSE disk' = disk /\ login' = [login EXCEPT !.pc = next, !.kept = kept]

(* set_metadata, at the first response after the discovery.                *)
LoginDiscovers ==
  /\ login.pc = "register"
  /\ LoginSaves(login.kept, "registered")
  /\ UNCHANGED <<lock, proc, logout, serverVars, countVars>>

(* set_client_info.                                                        *)
LoginRegisters ==
  /\ login.pc = "registered"
  /\ LoginSaves([login.kept EXCEPT !.client = logins], "present")
  /\ UNCHANGED <<lock, proc, logout, serverVars, countVars>>

LoginExchange ==
  /\ login.pc = "present"
  /\ Issue(login.kept.client, {})
  /\ login' = [login EXCEPT !.pc = "store", !.reply = issued + 1]
  /\ UNCHANGED <<disk, lock, proc, logout, countVars>>

LoginStores ==
  /\ login.pc = "store"
  /\ disk' = [token |-> login.reply, client |-> login.kept.client]
  /\ login' = NoLogin
  /\ UNCHANGED <<lock, proc, logout, serverVars, countVars>>

(* Nobody answers in the browser, or the server refuses.                   *)
LoginAbandoned ==
  /\ login.pc \in {"register", "registered", "present"}
  /\ login' = NoLogin
  /\ UNCHANGED <<disk, lock, proc, logout, serverVars, countVars>>

-----------------------------------------------------------------------------
(***************************************************************************)
(* A logout, under the lock from end to end.                               *)
(***************************************************************************)
NoLogout == [pc |-> "off", record |-> Empty]

LogoutLocks ==
  /\ logout.pc = "off" /\ lock = None /\ disk # None /\ logouts + faults < MaxUpsets
  /\ logouts' = logouts + 1
  /\ lock' = "logout"
  /\ logout' = [pc |-> "revoke", record |-> disk]
  /\ UNCHANGED <<disk, proc, login, serverVars, gone, orphans, logins, faults>>

LogoutRevokes ==
  /\ logout.pc = "revoke"
  /\ logout' = [NoLogout EXCEPT !.pc = "remove"]
  /\ \/ UNCHANGED <<live, revoked>>
     \/ /\ live' = live \ {logout.record.token}
        /\ revoked' = revoked \cup ({logout.record.token} \ {None})
  /\ UNCHANGED <<disk, lock, proc, login, issued, owner, countVars>>

LogoutRemoves ==
  /\ logout.pc = "remove"
  /\ disk' = None
  /\ lock' = None
  /\ logout' = NoLogout
  /\ gone' = (1 .. issued) \ {login.reply}
  /\ UNCHANGED <<proc, login, serverVars, orphans, logins, logouts, faults>>

-----------------------------------------------------------------------------
Init ==
  /\ disk = None /\ lock = None
  /\ proc = [p \in Procs |-> Off]
  /\ login = NoLogin /\ logout = NoLogout
  /\ issued = 0 /\ live = {} /\ revoked = {}
  /\ owner = [t \in Token |-> None]
  /\ gone = {} /\ orphans = {} /\ logins = 0 /\ logouts = 0 /\ faults = 0

(* What a run does once it has begun a request.                            *)
Proceed(p) ==
  \/ Acquire(p) \/ LockBusy(p) \/ Exchange(p) \/ ExchangeFails(p) \/ Stored(p) \/ Refused(p)
  \/ Answered(p) \/ Denied(p) \/ GiveUp(p) \/ Share(p) \/ ShareWrites(p)

Run(p) == Start(p) \/ Request(p) \/ Proceed(p) \/ ReplyLost(p) \/ Kill(p)

Login ==
  \/ LoginStart \/ LoginDiscovers \/ LoginRegisters \/ LoginExchange \/ LoginStores
  \/ LoginAbandoned

Logout == LogoutLocks \/ LogoutRevokes \/ LogoutRemoves

Next == (\E p \in Procs : Run(p)) \/ Login \/ Logout

Spec == Init /\ [][Next]_vars

(* Every request a run or a logout makes has a timeout, so whoever holds   *)
(* the lock goes on.  Nobody has to begin anything.                        *)
HolderProceeds ==
  (\E p \in Procs : lock = p /\ Proceed(p)) \/ LogoutRevokes \/ LogoutRemoves

FairSpec == Spec /\ WF_vars(HolderProceeds)

-----------------------------------------------------------------------------
(***************************************************************************)
(* Properties.                                                             *)
(***************************************************************************)
Holder(p) ==
  /\ lock = p => proc[p].pc \in {"refresh", "reply", "handle", "call", "share"}
  /\ proc[p].pc \in {"refresh", "reply", "handle", "share"} => lock = p

(* The types of the file, the processes and the server; and only who has   *)
(* use for the lock holds it.                                              *)
TypeOK ==
  /\ disk \in Record \cup {None}
  /\ lock \in Procs \cup {None, "logout"}
  /\ proc \in [Procs -> Process]
  /\ \A p \in Procs : Holder(p)
  /\ login \in [pc : {"off", "register", "registered", "present", "store"}, kept : Record,
                reply : Token \cup {None}]
  /\ logout \in [pc : {"off", "revoke", "remove"}, record : Record]
  /\ issued \in 0 .. MaxTokens
  /\ live \subseteq 1 .. issued /\ revoked \subseteq 1 .. issued
  /\ owner \in [Token -> Client \cup {None}]
  /\ gone \subseteq Token /\ orphans \subseteq Token
  /\ logins \in 0 .. MaxLogins /\ {logouts, faults} \subseteq 0 .. MaxUpsets

(* A run sends no token another refresh has spent and stored, however long *)
(* it waited for the lock: the only retired tokens ever sent are those     *)
(* whose answer was lost, and those a logout revoked.                      *)
SpentOnce ==
  \A p \in Procs :
    proc[p].pc = "refresh" => proc[p].token \in live \cup orphans \cup revoked

(* A logout is not undone: no process stores again a token it removed.     *)
LogoutStays == disk # None /\ disk.token # None => disk.token \notin gone

(* Runs that share an authorization never lose it among themselves: a run  *)
(* is denied only after a lost answer or a crash, a logout, or a second    *)
(* login; or when it sent a token that it refreshed itself, whose life may *)
(* just have ended.                                                        *)
AuthorizationIsKept ==
  \A p \in Procs :
    proc[p].pc = "denied" =>
      \/ faults > 0 \/ logouts > 0 \/ logins > 1
      \/ proc[p].own /\ proc[p].token # None

(* Whoever holds the lock gives it back.                                   *)
LockIsReleased == []<>(lock = None)

=============================================================================
