------------------------------- MODULE Access -------------------------------
(***************************************************************************)
(* Who may enter the admin panel: the setup command that creates the first *)
(* párroco, password and magic link logins, sessions, and the párroco's    *)
(* management of the team.  A user stands for his e-mail, which is unique; *)
(* handlers run concurrently, each statement on PostgreSQL or Redis a step *)
(* of its own.  A tick is longer than any single request's own checks.     *)
(***************************************************************************)
EXTENDS Naturals, Tables

CONSTANTS
  Person,      \* e-mail addresses
  Setup,       \* runs of the setup command
  Session,     \* session rows, reserved by the login that inserts them
  Link,        \* jtis of magic links
  Request,     \* admin requests in flight
  LinkTTL,     \* MagicLinkTTL, in ticks
  SessionTTL,  \* SessionTTL, in ticks
  MaxTime      \* bound on the clock

ASSUME AccAssumption ==
  /\ LinkTTL \in Nat /\ SessionTTL \in Nat /\ MaxTime \in Nat
  /\ "password" \notin Link

VARIABLES
  now,       \* the clock, shared by the API, PostgreSQL and Redis
  users,     \* table users, by e-mail
  setup,     \* where each setup command is
  links,     \* magic links issued, by jti
  spent,     \* Redis records magic:jti:*, by jti: when each expires
  entry,     \* logins past their checks that have not inserted the session
  sessions,  \* table sessions
  admitted,  \* admin requests past requireSession and requireParroco
  leaving    \* open transactions that switch an account off, by their request

vars == <<now, users, setup, links, spent, entry, sessions, admitted, leaving>>

\* Instants the clock, an expiry or a record can take.
Instant == 0..(MaxTime + LinkTTL + SessionTTL)

Role == {"parroco", "secretaria"}
UserRow == [role : Role, active : BOOLEAN, password : BOOLEAN]
LinkToken == [user : Person, expires : Instant]
ByPassword == "password"
Entry == [user : Person, via : Link \cup {ByPassword}, checked : BOOLEAN]
\* late: inserted when its account was off, or swept by a transaction still open
SessionRow == [user : Person, via : Link \cup {ByPassword}, expires : Instant,
               revoked : BOOLEAN, late : BOOLEAN]
\* A switch-off before its commit: the account locked and the sessions it updated.
SwitchOffTx == [user : Person, swept : SUBSET Session]
SetupRun == [state : {"ready", "looked", "created", "refused"}, email : Person]

(***************************************************************************)
(* Types of the tables, the links, the records in Redis and the requests.  *)
(***************************************************************************)
AccTypeOK ==
  /\ now \in 0..MaxTime
  /\ IsTable(users, Person, UserRow)
  /\ setup \in [Setup -> SetupRun]
  /\ IsTable(links, Link, LinkToken)
  /\ IsTable(spent, Link, Instant)
  /\ IsTable(entry, Session, Entry)
  /\ IsTable(sessions, Session, SessionRow)
  /\ IsTable(admitted, Request, Person)
  /\ IsTable(leaving, Request, SwitchOffTx)

AccInit ==
  /\ now = 0
  /\ users = NoRows /\ links = NoRows /\ spent = NoRows
  /\ entry = NoRows /\ sessions = NoRows /\ admitted = NoRows
  /\ leaving = NoRows
  /\ setup \in [Setup -> {r \in SetupRun : r.state = "ready"}]

Active(p) == p \in DOMAIN users /\ users[p].active
CanManage == {p \in DOMAIN users : users[p].active /\ users[p].role = "parroco"}
LeavingNow(p) == \E r \in DOMAIN leaving : leaving[r].user = p
Free == Session \ (DOMAIN entry \cup DOMAIN sessions)

Tick ==
  /\ now < MaxTime /\ now' = now + 1
  /\ UNCHANGED <<users, setup, links, spent, entry, sessions, admitted, leaving>>

-----------------------------------------------------------------------------
(* The setup command: one INSERT ... WHERE NOT EXISTS, whose subquery      *)
(* looks at the committed rows and whose insert comes later.               *)

SetupLook(s) ==
  /\ setup[s].state = "ready"
  /\ setup' = [setup EXCEPT ![s].state =
                 IF users = NoRows THEN "looked" ELSE "refused"]
  /\ UNCHANGED <<now, users, links, spent, entry, sessions, admitted, leaving>>

FirstParroco == [role |-> "parroco", active |-> TRUE, password |-> TRUE]

\* Two commands for one e-mail: ON CONFLICT overwrites the first one's password.
SetupInsertOver(s) ==
  /\ setup[s].state = "looked"
  /\ users' = Put(users, setup[s].email, FirstParroco)
  /\ setup' = [setup EXCEPT ![s].state = "created"]
  /\ UNCHANGED <<now, links, spent, entry, sessions, admitted, leaving>>

SetupInsert(s) ==
  /\ setup[s].state = "looked"
  /\ IF setup[s].email \in DOMAIN users
     THEN /\ setup' = [setup EXCEPT ![s].state = "refused"]
          /\ UNCHANGED users
     ELSE /\ setup' = [setup EXCEPT ![s].state = "created"]
          /\ users' = Put(users, setup[s].email, FirstParroco)
  /\ UNCHANGED <<now, links, spent, entry, sessions, admitted, leaving>>

-----------------------------------------------------------------------------
(* Logins.  A refused one leaves no trace, so only the others are steps.   *)

LoginCheck(i, p) ==
  /\ i \in Free
  /\ Active(p) /\ users[p].password
  /\ entry' = Put(entry, i, [user |-> p, via |-> ByPassword, checked |-> TRUE])
  /\ UNCHANGED <<now, users, setup, links, spent, sessions, admitted, leaving>>

RequestLink(l, p) ==
  /\ l \notin DOMAIN links
  /\ Active(p)
  /\ links' = Put(links, l, [user |-> p, expires |-> now + LinkTTL])
  /\ UNCHANGED <<now, users, setup, spent, entry, sessions, admitted, leaving>>

\* Redis keeps a spent jti for MagicLinkTTL from the moment it was spent.
Remembered(l) == l \in DOMAIN spent /\ now <= spent[l]

\* The record is kept one tick less than the link lives.
VerifySpendBriefly(i, l) ==
  /\ i \in Free
  /\ l \in DOMAIN links /\ now <= links[l].expires
  /\ ~Remembered(l)
  /\ spent' = Put(spent, l, now + LinkTTL - 1)
  /\ entry' = Put(entry, i, [user |-> links[l].user, via |-> l, checked |-> FALSE])
  /\ UNCHANGED <<now, users, setup, links, sessions, admitted, leaving>>

\* ParseMagicToken and SetNX; a replayed, unknown or expired token is refused.
VerifySpend(i, l) ==
  /\ i \in Free
  /\ l \in DOMAIN links /\ now <= links[l].expires
  /\ ~Remembered(l)
  /\ spent' = Put(spent, l, now + LinkTTL)
  /\ entry' = Put(entry, i, [user |-> links[l].user, via |-> l, checked |-> FALSE])
  /\ UNCHANGED <<now, users, setup, links, sessions, admitted, leaving>>

\* GetUserByID; an inactive account is refused and its link stays spent.
VerifyCheck(i) ==
  /\ i \in DOMAIN entry /\ ~entry[i].checked
  /\ entry' = IF Active(entry[i].user)
              THEN [entry EXCEPT ![i].checked = TRUE]
              ELSE Without(entry, i)
  /\ UNCHANGED <<now, users, setup, links, spent, sessions, admitted, leaving>>

CreateSession(i) ==
  /\ i \in DOMAIN entry /\ entry[i].checked
  /\ sessions' = Put(sessions, i,
       [user |-> entry[i].user, via |-> entry[i].via,
        expires |-> now + SessionTTL, revoked |-> FALSE,
        late |-> ~Active(entry[i].user) \/ LeavingNow(entry[i].user)])
  /\ entry' = Without(entry, i)
  /\ UNCHANGED <<now, users, setup, links, spent, admitted, leaving>>

\* PostgreSQL fails, or the client gives up, before the session is inserted.
EntryFails(i) ==
  /\ i \in DOMAIN entry
  /\ entry' = Without(entry, i)
  /\ UNCHANGED <<now, users, setup, links, spent, sessions, admitted, leaving>>

\* It waits for a transaction that has updated the row.
Logout(i) ==
  /\ i \in DOMAIN sessions /\ ~sessions[i].revoked
  /\ \A r \in DOMAIN leaving : i \notin leaving[r].swept
  /\ sessions' = [sessions EXCEPT ![i].revoked = TRUE]
  /\ UNCHANGED <<now, users, setup, links, spent, entry, admitted, leaving>>

-----------------------------------------------------------------------------
(* The párroco manages the team.                                           *)

ValidSession(i) ==
  /\ i \in DOMAIN sessions
  /\ ~sessions[i].revoked
  /\ sessions[i].expires > now
  /\ Active(sessions[i].user)

\* requireSession and requireParroco: the role read with the session.
Admit(r, i) ==
  /\ r \notin DOMAIN admitted
  /\ ValidSession(i)
  /\ users[sessions[i].user].role = "parroco"
  /\ admitted' = Put(admitted, r, sessions[i].user)
  /\ UNCHANGED <<now, users, setup, links, spent, entry, sessions, leaving>>

CreateUser(r, p, role, password) ==
  /\ p \notin DOMAIN users
  /\ users' = Put(users, p, [role |-> role, active |-> TRUE, password |-> password])
  /\ UNCHANGED sessions

\* It waits for a transaction that has updated the row, like SwitchOn.
UpdateUser(r, p, role) ==
  /\ p \in DOMAIN users /\ ~LeavingNow(p)
  /\ users' = [users EXCEPT ![p].role = role]
  /\ UNCHANGED sessions

SwitchOn(r, p) ==
  /\ p \in DOMAIN users /\ ~LeavingNow(p)
  /\ users' = [users EXCEPT ![p].active = TRUE]
  /\ UNCHANGED sessions

\* The request was refused, failed, or asked for nothing that changes state.
NoChange == UNCHANGED <<users, sessions>>

Manage(r) ==
  /\ r \in DOMAIN admitted \ DOMAIN leaving
  /\ \/ \E p \in Person, role \in Role, pw \in BOOLEAN : CreateUser(r, p, role, pw)
     \/ \E p \in Person, role \in Role : UpdateUser(r, p, role)
     \/ \E p \in Person : SwitchOn(r, p)
     \/ NoChange
  /\ admitted' = Without(admitted, r)
  /\ UNCHANGED <<now, setup, links, spent, entry, leaving>>

\* Sessions are left to the is_active predicate.
SweepNothing(p) == {}

Sweep(p) == {i \in DOMAIN sessions : sessions[i].user = p /\ ~sessions[i].revoked}

\* The guard against switching oneself off is gone.
SwitchOffAnyone(r, p) ==
  /\ r \in DOMAIN admitted \ DOMAIN leaving
  /\ p \in DOMAIN users /\ ~LeavingNow(p)
  /\ leaving' = Put(leaving, r, [user |-> p, swept |-> Sweep(p)])
  /\ UNCHANGED <<now, users, setup, links, spent, entry, sessions, admitted>>

\* Both statements of SetUserActive(p, false), which nobody sees before the commit.
SwitchOff(r, p) ==
  /\ r \in DOMAIN admitted \ DOMAIN leaving
  /\ p # admitted[r]
  /\ p \in DOMAIN users /\ ~LeavingNow(p)
  /\ leaving' = Put(leaving, r, [user |-> p, swept |-> Sweep(p)])
  /\ UNCHANGED <<now, users, setup, links, spent, entry, sessions, admitted>>

CommitSwitchOff(r) ==
  /\ r \in DOMAIN leaving
  /\ users' = [users EXCEPT ![leaving[r].user].active = FALSE]
  /\ sessions' = [i \in DOMAIN sessions |->
       IF i \in leaving[r].swept
       THEN [sessions[i] EXCEPT !.revoked = TRUE] ELSE sessions[i]]
  /\ leaving' = Without(leaving, r)
  /\ admitted' = Without(admitted, r)
  /\ UNCHANGED <<now, setup, links, spent, entry>>

RollbackSwitchOff(r) ==
  /\ r \in DOMAIN leaving
  /\ leaving' = Without(leaving, r)
  /\ admitted' = Without(admitted, r)
  /\ UNCHANGED <<now, users, setup, links, spent, entry, sessions>>

-----------------------------------------------------------------------------
AccNext ==
  \/ Tick
  \/ \E s \in Setup : SetupLook(s) \/ SetupInsert(s)
  \/ \E i \in Session, p \in Person : LoginCheck(i, p)
  \/ \E l \in Link, p \in Person : RequestLink(l, p)
  \/ \E i \in Session, l \in Link : VerifySpend(i, l)
  \/ \E i \in Session : VerifyCheck(i) \/ CreateSession(i) \/ EntryFails(i) \/ Logout(i)
  \/ \E r \in Request, i \in Session : Admit(r, i)
  \/ \E r \in Request, p \in Person : SwitchOff(r, p)
  \/ \E r \in Request : Manage(r) \/ CommitSwitchOff(r) \/ RollbackSwitchOff(r)

AccSpec == AccInit /\ [][AccNext]_vars

-----------------------------------------------------------------------------
(***************************************************************************)
(* A magic link opens at most one session, however many verifications race *)
(* and whenever they come ("so a link works exactly once"; MagicLinkTTL: a *)
(* replayed token can never outlive its own record).                       *)
(***************************************************************************)
LinkOpensOnce ==
  \A i, j \in DOMAIN sessions :
    sessions[i].via = sessions[j].via /\ sessions[i].via \in Link => i = j

(***************************************************************************)
(* A session that has stopped working never works again, not even when its *)
(* account is switched on again (SetUserActive revokes in the same         *)
(* transaction).  The one exception is a session inserted by a login that  *)
(* passed its check earlier, after the account was switched off or between *)
(* the revoking statement and its commit: nothing revokes it, and the      *)
(* account's return brings it to life.                                     *)
(***************************************************************************)
NoSessionRevives ==
  [][\A i \in DOMAIN sessions :
       ~ValidSession(i) /\ ValidSession(i)' => sessions[i].late]_vars

(***************************************************************************)
(* The parish loses its last párroco who can manage only by a change of    *)
(* role, or by a request whose author was switched off or demoted after it *)
(* was admitted: never by one who switches himself off (setUserActive: it  *)
(* "would leave the parish with no way back in").                          *)
(***************************************************************************)
LockedOutByOthersOnly ==
  [][CanManage # {} /\ CanManage' = {} =>
       \/ \E p \in DOMAIN users : users'[p].role # users[p].role
       \/ \E r \in DOMAIN admitted \ DOMAIN admitted' : admitted[r] \notin CanManage]_vars

(***************************************************************************)
(* Two setup commands for one e-mail never both hand out a password        *)
(* (CreateInitialParroco; for two e-mails nothing prevents it).            *)
(***************************************************************************)
OnePasswordEach ==
  \A s, t \in Setup :
    /\ setup[s].state = "created" /\ setup[t].state = "created"
    /\ setup[s].email = setup[t].email
    => s = t
=============================================================================
