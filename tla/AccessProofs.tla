---------------------------- MODULE AccessProofs ----------------------------
(* Proofs about Access, for any team, any number of racing requests and    *)
(* any lifetime of links and sessions.                                     *)
EXTENDS Access, TLAPS

(***************************************************************************)
(* The rows after a Put or a Without are rows.                             *)
(***************************************************************************)
LEMMA TableSteps ==
  ASSUME NEW Id, NEW Rows, NEW table, IsTable(table, Id, Rows), NEW id \in Id
  PROVE  /\ \A row \in Rows : IsTable(Put(table, id, row), Id, Rows)
         /\ IsTable(Without(table, id), Id, Rows)
  BY DEF IsTable, Put, Without

(***************************************************************************)
(* The commit of a switch-off changes a session only by revoking it, and   *)
(* revokes the ones its transaction swept (SetUserActive).                 *)
(***************************************************************************)
LEMMA Revoking ==
  ASSUME IsTable(sessions, Session, SessionRow), NEW r \in Request, CommitSwitchOff(r)
  PROVE  /\ IsTable(sessions', Session, SessionRow) /\ DOMAIN sessions' = DOMAIN sessions
         /\ \A i \in DOMAIN sessions :
              /\ sessions'[i] = sessions[i] \/ sessions'[i] = [sessions[i] EXCEPT !.revoked = TRUE]
              /\ i \in leaving[r].swept => sessions'[i] = [sessions[i] EXCEPT !.revoked = TRUE]
<1>1. \A i \in DOMAIN sessions : sessions[i] \in SessionRow
  BY DEF IsTable
<1>2. \A i \in DOMAIN sessions : [sessions[i] EXCEPT !.revoked = TRUE] \in SessionRow
  BY <1>1 DEF SessionRow
<1> QED
  BY <1>1, <1>2 DEF CommitSwitchOff, IsTable

(***************************************************************************)
(* What an admin request does in one statement keeps the accounts' types   *)
(* and leaves the sessions alone (createUser, updateUser, setUserActive).  *)
(***************************************************************************)
LEMMA ManageTyped ==
  ASSUME AccTypeOK, NEW r \in Request, Manage(r)
  PROVE  IsTable(users', Person, UserRow) /\ sessions' = sessions
<1>0. IsTable(users, Person, UserRow)
  BY DEF AccTypeOK
<1>a. \A p \in DOMAIN users : users[p] \in UserRow
  BY <1>0 DEF IsTable
<1>1. ASSUME NEW p \in Person, NEW role \in Role, NEW pw \in BOOLEAN, CreateUser(r, p, role, pw)
      PROVE  IsTable(users', Person, UserRow) /\ sessions' = sessions
  BY <1>0, <1>1, TableSteps DEF CreateUser, UserRow
<1>2. ASSUME NEW p \in Person, NEW role \in Role, UpdateUser(r, p, role)
      PROVE  IsTable(users', Person, UserRow) /\ sessions' = sessions
  <2>1. [users[p] EXCEPT !.role = role] \in UserRow
    BY <1>a, <1>2 DEF UpdateUser, UserRow
  <2> QED
    BY <1>0, <1>2, <2>1 DEF UpdateUser, IsTable
<1>3. ASSUME NEW p \in Person, SwitchOn(r, p)
      PROVE  IsTable(users', Person, UserRow) /\ sessions' = sessions
  <2>1. [users[p] EXCEPT !.active = TRUE] \in UserRow
    BY <1>a, <1>3 DEF SwitchOn, UserRow
  <2> QED
    BY <1>0, <1>3, <2>1 DEF SwitchOn, IsTable
<1> QED
  BY <1>0, <1>1, <1>2, <1>3 DEF Manage, NoChange

(***************************************************************************)
(* The commit of a switch-off keeps the types of accounts and sessions.    *)
(***************************************************************************)
LEMMA CommitTyped ==
  ASSUME AccTypeOK, NEW r \in Request, CommitSwitchOff(r)
  PROVE  IsTable(users', Person, UserRow) /\ IsTable(sessions', Session, SessionRow)
<1>0. IsTable(users, Person, UserRow) /\ IsTable(sessions, Session, SessionRow)
  BY DEF AccTypeOK
<1>1. \A p \in DOMAIN users : [users[p] EXCEPT !.active = FALSE] \in UserRow
  BY <1>0 DEF IsTable, UserRow
<1>2. IsTable(users', Person, UserRow)
  BY <1>0, <1>1 DEF CommitSwitchOff, IsTable
<1> QED
  BY <1>0, <1>2, Revoking

(***************************************************************************)
(* Every step of setup, logins, requests and clock keeps the types.        *)
(***************************************************************************)
LEMMA AccTypeStep == AccTypeOK /\ [AccNext]_vars => AccTypeOK'
<1> SUFFICES ASSUME AccTypeOK, [AccNext]_vars PROVE AccTypeOK'
  OBVIOUS
<1>0. /\ now \in 0..MaxTime /\ IsTable(users, Person, UserRow) /\ setup \in [Setup -> SetupRun]
      /\ IsTable(links, Link, LinkToken) /\ IsTable(spent, Link, Instant)
      /\ IsTable(entry, Session, Entry) /\ IsTable(sessions, Session, SessionRow)
      /\ IsTable(admitted, Request, Person) /\ IsTable(leaving, Request, SwitchOffTx)
  BY DEF AccTypeOK
<1>a. /\ now + LinkTTL \in Instant /\ now + SessionTTL \in Instant
      /\ MaxTime \in Nat /\ LinkTTL \in Nat /\ SessionTTL \in Nat
  BY <1>0, AccAssumption DEF Instant
<1>1. CASE Tick
  BY <1>0, <1>1, <1>a DEF Tick, AccTypeOK
<1>2. ASSUME NEW s \in Setup, SetupLook(s) PROVE AccTypeOK'
  <2>1. setup[s] \in SetupRun
    BY <1>0
  <2>2. \A st \in {"looked", "refused"} : [setup[s] EXCEPT !.state = st] \in SetupRun
    BY <2>1 DEF SetupRun
  <2>3. setup' \in [Setup -> SetupRun]
    BY <1>0, <1>2, <2>2 DEF SetupLook
  <2> QED
    BY <1>0, <1>2, <2>3 DEF SetupLook, AccTypeOK
<1>3. ASSUME NEW s \in Setup, SetupInsert(s) PROVE AccTypeOK'
  <2>1. setup[s] \in SetupRun /\ setup[s].email \in Person
    BY <1>0 DEF SetupRun
  <2>2. \A st \in {"created", "refused"} : [setup[s] EXCEPT !.state = st] \in SetupRun
    BY <2>1 DEF SetupRun
  <2>3. setup' \in [Setup -> SetupRun]
    BY <1>0, <1>3, <2>2 DEF SetupInsert
  <2>4. FirstParroco \in UserRow
    BY DEF FirstParroco, UserRow, Role
  <2>5. IsTable(users', Person, UserRow)
    BY <1>0, <1>3, <2>1, <2>4, TableSteps DEF SetupInsert
  <2> QED
    BY <1>0, <1>3, <2>3, <2>5 DEF SetupInsert, AccTypeOK
<1>4. ASSUME NEW i \in Session, NEW p \in Person, LoginCheck(i, p) PROVE AccTypeOK'
  <2>1. [user |-> p, via |-> ByPassword, checked |-> TRUE] \in Entry
    BY DEF Entry
  <2> QED
    BY <1>0, <1>4, <2>1, TableSteps DEF LoginCheck, AccTypeOK
<1>5. ASSUME NEW l \in Link, NEW p \in Person, RequestLink(l, p) PROVE AccTypeOK'
  <2>1. [user |-> p, expires |-> now + LinkTTL] \in LinkToken
    BY <1>a DEF LinkToken
  <2> QED
    BY <1>0, <1>5, <2>1, TableSteps DEF RequestLink, AccTypeOK
<1>6. ASSUME NEW i \in Session, NEW l \in Link, VerifySpend(i, l) PROVE AccTypeOK'
  <2>1. links[l].user \in Person
    BY <1>0, <1>6 DEF VerifySpend, IsTable, LinkToken
  <2>2. [user |-> links[l].user, via |-> l, checked |-> FALSE] \in Entry
    BY <2>1 DEF Entry
  <2> QED
    BY <1>0, <1>a, <1>6, <2>2, TableSteps DEF VerifySpend, AccTypeOK
<1>7. ASSUME NEW i \in Session, VerifyCheck(i) PROVE AccTypeOK'
  <2>1. i \in DOMAIN entry /\ [entry[i] EXCEPT !.checked = TRUE] \in Entry
    BY <1>0, <1>7 DEF VerifyCheck, IsTable, Entry
  <2>2. IsTable([entry EXCEPT ![i].checked = TRUE], Session, Entry)
    BY <1>0, <2>1 DEF IsTable
  <2>3. IsTable(entry', Session, Entry)
    BY <1>0, <1>7, <2>2, TableSteps DEF VerifyCheck
  <2> QED
    BY <1>0, <1>7, <2>3 DEF VerifyCheck, AccTypeOK
<1>8. ASSUME NEW i \in Session, CreateSession(i) PROVE AccTypeOK'
  <2>1. entry[i] \in Entry
    BY <1>0, <1>8 DEF CreateSession, IsTable
  <2>2. [user |-> entry[i].user, via |-> entry[i].via, expires |-> now + SessionTTL,
         revoked |-> FALSE,
         late |-> ~Active(entry[i].user) \/ LeavingNow(entry[i].user)] \in SessionRow
    BY <1>a, <2>1 DEF Entry, SessionRow
  <2> QED
    BY <1>0, <1>8, <2>2, TableSteps DEF CreateSession, AccTypeOK
<1>9. ASSUME NEW i \in Session, EntryFails(i) PROVE AccTypeOK'
  BY <1>0, <1>9, TableSteps DEF EntryFails, AccTypeOK
<1>10. ASSUME NEW i \in Session, Logout(i) PROVE AccTypeOK'
  <2>1. i \in DOMAIN sessions /\ [sessions[i] EXCEPT !.revoked = TRUE] \in SessionRow
    BY <1>0, <1>10 DEF Logout, IsTable, SessionRow
  <2>2. IsTable(sessions', Session, SessionRow)
    BY <1>0, <1>10, <2>1 DEF Logout, IsTable
  <2> QED
    BY <1>0, <1>10, <2>2 DEF Logout, AccTypeOK
<1>11. ASSUME NEW r \in Request, NEW i \in Session, Admit(r, i) PROVE AccTypeOK'
  <2>1. sessions[i].user \in Person
    BY <1>0, <1>11 DEF Admit, ValidSession, IsTable, SessionRow
  <2> QED
    BY <1>0, <1>11, <2>1, TableSteps DEF Admit, AccTypeOK
<1>12. ASSUME NEW r \in Request, Manage(r) PROVE AccTypeOK'
  <2>1. IsTable(admitted', Request, Person)
    BY <1>0, <1>12, TableSteps DEF Manage
  <2> QED
    BY <1>0, <1>12, <2>1, ManageTyped DEF Manage, AccTypeOK
<1>13. ASSUME NEW r \in Request, NEW p \in Person, SwitchOff(r, p) PROVE AccTypeOK'
  <2>1. Sweep(p) \subseteq Session
    BY <1>0 DEF Sweep, IsTable
  <2>2. [user |-> p, swept |-> Sweep(p)] \in SwitchOffTx
    BY <2>1 DEF SwitchOffTx
  <2> QED
    BY <1>0, <1>13, <2>2, TableSteps DEF SwitchOff, AccTypeOK
<1>14. ASSUME NEW r \in Request, CommitSwitchOff(r) PROVE AccTypeOK'
  <2>1. IsTable(admitted', Request, Person) /\ IsTable(leaving', Request, SwitchOffTx)
    BY <1>0, <1>14, TableSteps DEF CommitSwitchOff
  <2> QED
    BY <1>0, <1>14, <2>1, CommitTyped DEF CommitSwitchOff, AccTypeOK
<1>15. ASSUME NEW r \in Request, RollbackSwitchOff(r) PROVE AccTypeOK'
  BY <1>0, <1>15, TableSteps DEF RollbackSwitchOff, AccTypeOK
<1>16. CASE UNCHANGED vars
  BY <1>0, <1>16 DEF vars, AccTypeOK
<1> QED
  BY <1>1, <1>2, <1>3, <1>4, <1>5, <1>6, <1>7, <1>8, <1>9, <1>10, <1>11, <1>12, <1>13, <1>14,
     <1>15, <1>16 DEF AccNext

\* The types hold at the start.
LEMMA AccTypeInit == AccInit => AccTypeOK
  BY AccAssumption DEF AccInit, AccTypeOK, IsTable, NoRows

(***************************************************************************)
(* Tables, links, Redis records and requests keep their types.             *)
(***************************************************************************)
THEOREM AccTypeCorrect == AccSpec => []AccTypeOK
  BY AccTypeInit, AccTypeStep, PTL DEF AccSpec

-----------------------------------------------------------------------------
(***************************************************************************)
(* The inductive invariant of the magic links.  A login under way or a     *)
(* session that came by a link has left a record in Redis, no record goes  *)
(* before its link does, and no two came by the same link.                 *)
(***************************************************************************)
Opened(i, l) ==
  \/ i \in DOMAIN entry /\ entry[i].via = l
  \/ i \in DOMAIN sessions /\ sessions[i].via = l

OpenedIsSpent == \A i \in Session, l \in Link : Opened(i, l) => l \in DOMAIN spent

RecordOutlivesLink ==
  /\ \A l \in DOMAIN links : links[l].expires <= now + LinkTTL
  /\ \A l \in DOMAIN spent : l \in DOMAIN links /\ links[l].expires <= spent[l]

OpenedOnce == \A i, j \in Session, l \in Link : Opened(i, l) /\ Opened(j, l) => i = j

LinkInv == AccTypeOK /\ OpenedIsSpent /\ RecordOutlivesLink /\ OpenedOnce

(***************************************************************************)
(* A step that opens nothing new and forgets no link or record keeps it.   *)
(***************************************************************************)
LEMMA NothingOpened ==
  ASSUME LinkInv, AccTypeOK', UNCHANGED <<links, spent>>, now' >= now,
         \A i \in Session, l \in Link : Opened(i, l)' => Opened(i, l)
  PROVE  LinkInv'
<1>1. OpenedIsSpent' /\ OpenedOnce'
  BY DEF LinkInv, OpenedIsSpent, OpenedOnce
<1>2. /\ now \in Nat /\ now' \in Nat /\ LinkTTL \in Nat
      /\ \A l \in DOMAIN links : links[l].expires \in Nat
  BY AccAssumption DEF LinkInv, AccTypeOK, IsTable, LinkToken, Instant
<1>3. RecordOutlivesLink'
  BY <1>2 DEF LinkInv, RecordOutlivesLink
<1> QED
  BY <1>1, <1>3 DEF LinkInv

(***************************************************************************)
(* Every step keeps the invariant; only VerifySpend opens a link, and only *)
(* one with no record, for which nobody has entered.                       *)
(***************************************************************************)
LEMMA LinkInvStep == LinkInv /\ [AccNext]_vars => LinkInv'
<1> SUFFICES ASSUME LinkInv, [AccNext]_vars PROVE LinkInv'
  OBVIOUS
<1>0. AccTypeOK /\ AccTypeOK'
  BY AccTypeStep DEF LinkInv
<1>a. now \in Nat /\ now' \in Nat /\ LinkTTL \in Nat /\ MaxTime \in Nat
  BY <1>0, AccAssumption DEF AccTypeOK
<1>b. ASSUME UNCHANGED <<links, spent, entry, sessions>>, now' >= now PROVE LinkInv'
  BY <1>0, <1>b, NothingOpened DEF Opened
<1>1. CASE Tick
  BY <1>a, <1>b, <1>1 DEF Tick
<1>2. ASSUME NEW s \in Setup, SetupLook(s) \/ SetupInsert(s) PROVE LinkInv'
  BY <1>a, <1>b, <1>2 DEF SetupLook, SetupInsert
<1>3. ASSUME NEW i \in Session, NEW p \in Person, LoginCheck(i, p) PROVE LinkInv'
  <2>1. \A l \in Link : l # ByPassword
    BY AccAssumption DEF ByPassword
  <2>2. \A j \in Session, l \in Link : Opened(j, l)' => Opened(j, l)
    BY <1>3, <2>1 DEF LoginCheck, Opened, Put
  <2> QED
    BY <1>0, <1>a, <1>3, <2>2, NothingOpened DEF LoginCheck
<1>4. ASSUME NEW l \in Link, NEW p \in Person, RequestLink(l, p) PROVE LinkInv'
  <2>1. l \notin DOMAIN links /\ links' = Put(links, l, [user |-> p, expires |-> now + LinkTTL])
        /\ UNCHANGED <<now, spent, entry, sessions>>
    BY <1>4 DEF RequestLink
  <2>2. RecordOutlivesLink'
    BY <1>a, <2>1 DEF LinkInv, RecordOutlivesLink, Put
  <2>3. OpenedIsSpent' /\ OpenedOnce'
    BY <2>1 DEF LinkInv, OpenedIsSpent, OpenedOnce, Opened
  <2> QED
    BY <1>0, <2>2, <2>3 DEF LinkInv
<1>5. ASSUME NEW i \in Session, NEW l \in Link, VerifySpend(i, l) PROVE LinkInv'
  <2>1. /\ i \in Free /\ l \in DOMAIN links /\ now <= links[l].expires /\ ~Remembered(l)
        /\ spent' = Put(spent, l, now + LinkTTL)
        /\ entry' = Put(entry, i, [user |-> links[l].user, via |-> l, checked |-> FALSE])
        /\ UNCHANGED <<now, links, sessions>>
    BY <1>5 DEF VerifySpend
  <2>2. l \notin DOMAIN spent
    <3> SUFFICES ASSUME l \in DOMAIN spent PROVE FALSE
      OBVIOUS
    <3>1. spent[l] \in Nat /\ links[l].expires \in Nat /\ links[l].expires <= spent[l]
      BY <1>0, <2>1, AccAssumption
         DEF LinkInv, RecordOutlivesLink, AccTypeOK, IsTable, LinkToken, Instant
    <3> QED
      BY <1>a, <2>1, <3>1 DEF Remembered
  <2>3. \A j \in Session : ~Opened(j, l)
    BY <2>2 DEF LinkInv, OpenedIsSpent
  <2>4. \A j \in Session, k \in Link : Opened(j, k)' => Opened(j, k) \/ (j = i /\ k = l)
    BY <2>1 DEF Opened, Put
  <2>5. OpenedOnce'
    BY <2>3, <2>4 DEF LinkInv, OpenedOnce
  <2>6. OpenedIsSpent'
    BY <2>1, <2>4 DEF LinkInv, OpenedIsSpent, Put
  <2>7. RecordOutlivesLink'
    BY <1>a, <2>1 DEF LinkInv, RecordOutlivesLink, Put
  <2> QED
    BY <1>0, <2>5, <2>6, <2>7 DEF LinkInv
<1>6. ASSUME NEW i \in Session, VerifyCheck(i) PROVE LinkInv'
  <2>1. UNCHANGED <<now, links, spent, sessions>> /\ i \in DOMAIN entry
        /\ (entry' = [entry EXCEPT ![i].checked = TRUE] \/ entry' = Without(entry, i))
    BY <1>6 DEF VerifyCheck
  <2>2. \A j \in DOMAIN entry : entry[j] \in Entry
    BY <1>0 DEF AccTypeOK, IsTable
  <2>3. \A j \in DOMAIN entry' : j \in DOMAIN entry /\ entry'[j].via = entry[j].via
    BY <2>1, <2>2 DEF Without, Entry
  <2>4. \A j \in Session, l \in Link : Opened(j, l)' => Opened(j, l)
    BY <2>1, <2>3 DEF Opened
  <2> QED
    BY <1>0, <1>a, <2>1, <2>4, NothingOpened
<1>7. ASSUME NEW i \in Session, CreateSession(i) PROVE LinkInv'
  <2>1. \A j \in Session, l \in Link : Opened(j, l)' => Opened(j, l)
    BY <1>7 DEF CreateSession, Opened, Put, Without
  <2> QED
    BY <1>0, <1>a, <1>7, <2>1, NothingOpened DEF CreateSession
<1>8. ASSUME NEW i \in Session, EntryFails(i) PROVE LinkInv'
  <2>1. \A j \in Session, l \in Link : Opened(j, l)' => Opened(j, l)
    BY <1>8 DEF EntryFails, Opened, Without
  <2> QED
    BY <1>0, <1>a, <1>8, <2>1, NothingOpened DEF EntryFails
<1>9. ASSUME NEW i \in Session, Logout(i) PROVE LinkInv'
  <2>1. \A j \in DOMAIN sessions : sessions[j] \in SessionRow
    BY <1>0 DEF AccTypeOK, IsTable
  <2>2. \A j \in Session, l \in Link : Opened(j, l)' => Opened(j, l)
    BY <1>9, <2>1 DEF Logout, Opened, SessionRow
  <2> QED
    BY <1>0, <1>a, <1>9, <2>2, NothingOpened DEF Logout
<1>10. ASSUME NEW r \in Request, NEW i \in Session, Admit(r, i) PROVE LinkInv'
  BY <1>a, <1>b, <1>10 DEF Admit
<1>11. ASSUME NEW r \in Request, Manage(r) PROVE LinkInv'
  BY <1>0, <1>a, <1>b, <1>11, ManageTyped DEF Manage
<1>12. ASSUME NEW r \in Request, CommitSwitchOff(r) PROVE LinkInv'
  <2>0. IsTable(sessions, Session, SessionRow)
    BY <1>0 DEF AccTypeOK
  <2>1. DOMAIN sessions' = DOMAIN sessions
        /\ \A j \in DOMAIN sessions : sessions'[j].via = sessions[j].via
    BY <1>12, <2>0, Revoking DEF IsTable, SessionRow
  <2>2. UNCHANGED <<now, links, spent, entry>>
    BY <1>12 DEF CommitSwitchOff
  <2>3. \A j \in Session, l \in Link : Opened(j, l)' => Opened(j, l)
    BY <2>1, <2>2 DEF Opened
  <2> QED
    BY <1>0, <1>a, <2>2, <2>3, NothingOpened
<1>13. ASSUME NEW r \in Request, NEW p \in Person, SwitchOff(r, p) PROVE LinkInv'
  BY <1>a, <1>b, <1>13 DEF SwitchOff
<1>14. ASSUME NEW r \in Request, RollbackSwitchOff(r) PROVE LinkInv'
  BY <1>a, <1>b, <1>14 DEF RollbackSwitchOff
<1>15. CASE UNCHANGED vars
  BY <1>a, <1>b, <1>15 DEF vars
<1> QED
  BY <1>1, <1>2, <1>3, <1>4, <1>5, <1>6, <1>7, <1>8, <1>9, <1>10, <1>11, <1>12, <1>13, <1>14,
     <1>15 DEF AccNext

(***************************************************************************)
(* A magic link opens at most one session, for any number of racing        *)
(* verifications and any lifetime (magicLinkVerifyHandler, MagicLinkTTL).  *)
(***************************************************************************)
THEOREM LinkIsSpentOnce == AccSpec => []LinkOpensOnce
<1>1. AccInit => LinkInv
  <2> SUFFICES ASSUME AccInit PROVE LinkInv
    OBVIOUS
  <2>1. DOMAIN NoRows = {}
    BY DEF NoRows
  <2> QED
    BY <2>1, AccTypeInit DEF AccInit, LinkInv, OpenedIsSpent, OpenedOnce, RecordOutlivesLink, Opened
<1>2. LinkInv => LinkOpensOnce
  <2> SUFFICES ASSUME LinkInv, NEW i \in DOMAIN sessions, NEW j \in DOMAIN sessions,
                      sessions[i].via = sessions[j].via, sessions[i].via \in Link
               PROVE  i = j
    BY DEF LinkOpensOnce
  <2>1. i \in Session /\ j \in Session
    BY DEF LinkInv, AccTypeOK, IsTable
  <2> QED
    BY <2>1 DEF LinkInv, OpenedOnce, Opened
<1> QED
  BY <1>1, <1>2, LinkInvStep, PTL DEF AccSpec

-----------------------------------------------------------------------------
(***************************************************************************)
(* The inductive invariant of revocation: a session that is not late       *)
(* belongs to an account that is on or has been revoked, a transaction     *)
(* about to switch an account off has swept every such session of it, and  *)
(* a session is inserted under an id of its own.                           *)
(***************************************************************************)
OnOrRevoked ==
  \A i \in DOMAIN sessions :
    sessions[i].late \/ sessions[i].revoked \/ Active(sessions[i].user)

SweptOrRevoked ==
  \A r \in DOMAIN leaving, i \in DOMAIN sessions :
    sessions[i].user = leaving[r].user =>
      sessions[i].late \/ sessions[i].revoked \/ i \in leaving[r].swept

IdsOfTheirOwn == DOMAIN entry \cap DOMAIN sessions = {}

RevokeInv == AccTypeOK /\ OnOrRevoked /\ SweptOrRevoked /\ IdsOfTheirOwn

(***************************************************************************)
(* Every step keeps the invariant, leaves a session's owner, expiry and    *)
(* insertion alone and never takes back a revocation.                      *)
(***************************************************************************)
SessionsAge ==
  /\ now' >= now
  /\ \A i \in DOMAIN sessions :
       /\ i \in DOMAIN sessions'
       /\ sessions'[i].user = sessions[i].user /\ sessions'[i].expires = sessions[i].expires
       /\ sessions'[i].late = sessions[i].late
       /\ sessions[i].revoked => sessions'[i].revoked

\* Some transactions may end.
FewerLeaving ==
  /\ DOMAIN leaving' \subseteq DOMAIN leaving
  /\ \A r \in DOMAIN leaving' : leaving'[r] = leaving[r]

(***************************************************************************)
(* The accounts that are on stay on, and sessions are as they were.        *)
(***************************************************************************)
LEMMA NobodyLeaves ==
  ASSUME RevokeInv, AccTypeOK', sessions' = sessions, now' >= now, FewerLeaving,
         \A p \in Person : Active(p) => Active(p)', DOMAIN entry' \cap DOMAIN sessions = {}
  PROVE  RevokeInv' /\ SessionsAge
<1>1. \A i \in DOMAIN sessions : sessions[i].user \in Person
  BY DEF RevokeInv, AccTypeOK, IsTable, SessionRow
<1>2. OnOrRevoked'
  BY <1>1 DEF RevokeInv, OnOrRevoked
<1>3. SweptOrRevoked'
  BY DEF RevokeInv, SweptOrRevoked, FewerLeaving
<1>4. IdsOfTheirOwn'
  BY DEF IdsOfTheirOwn
<1>5. SessionsAge
  BY DEF SessionsAge
<1> QED
  BY <1>2, <1>3, <1>4, <1>5 DEF RevokeInv

(***************************************************************************)
(* The commit of a switch-off: what it does not revoke came late.          *)
(***************************************************************************)
LEMMA CommitRevokes ==
  ASSUME RevokeInv, AccTypeOK', NEW r \in Request, CommitSwitchOff(r)
  PROVE  RevokeInv' /\ SessionsAge
<1>0. /\ IsTable(sessions, Session, SessionRow) /\ \A i \in DOMAIN sessions : sessions[i] \in SessionRow
      /\ IsTable(users, Person, UserRow) /\ \A p \in DOMAIN users : users[p] \in UserRow
      /\ now \in Nat /\ OnOrRevoked /\ SweptOrRevoked /\ IdsOfTheirOwn
  BY AccAssumption DEF RevokeInv, AccTypeOK, IsTable
<1>1. /\ DOMAIN sessions' = DOMAIN sessions
      /\ \A i \in DOMAIN sessions :
           /\ sessions'[i] = sessions[i] \/ sessions'[i] = [sessions[i] EXCEPT !.revoked = TRUE]
           /\ i \in leaving[r].swept => sessions'[i] = [sessions[i] EXCEPT !.revoked = TRUE]
  BY <1>0, Revoking
<1>2. UNCHANGED <<now, entry>> /\ r \in DOMAIN leaving
      /\ users' = [users EXCEPT ![leaving[r].user].active = FALSE]
      /\ leaving' = Without(leaving, r)
  BY DEF CommitSwitchOff
<1>3. SessionsAge
  BY <1>0, <1>1, <1>2 DEF SessionsAge, SessionRow
<1>4. \A q \in Person : Active(q) /\ q # leaving[r].user => Active(q)'
  BY <1>0, <1>2 DEF Active, UserRow
<1>5. OnOrRevoked'
  <2> SUFFICES ASSUME NEW i \in DOMAIN sessions'
               PROVE  (sessions[i].late \/ sessions[i].revoked \/ Active(sessions[i].user))'
    BY DEF OnOrRevoked
  <2>1. i \in DOMAIN sessions /\ sessions[i] \in SessionRow /\ sessions[i].user \in Person
    BY <1>0, <1>1 DEF SessionRow
  <2>2. /\ sessions'[i].user = sessions[i].user /\ sessions'[i].late = sessions[i].late
        /\ sessions[i].revoked => sessions'[i].revoked
    BY <1>3, <2>1 DEF SessionsAge
  <2>3. CASE sessions[i].user # leaving[r].user
    BY <1>0, <1>4, <2>1, <2>2, <2>3 DEF OnOrRevoked, Active
  <2>4. CASE sessions[i].user = leaving[r].user /\ i \in leaving[r].swept
    BY <1>1, <2>1, <2>4 DEF SessionRow
  <2>5. CASE sessions[i].user = leaving[r].user /\ i \notin leaving[r].swept
    BY <1>0, <1>2, <2>1, <2>2, <2>5 DEF SweptOrRevoked
  <2> QED
    BY <2>3, <2>4, <2>5
<1>6. SweptOrRevoked'
  <2>1. FewerLeaving
    BY <1>2 DEF FewerLeaving, Without
  <2> QED
    BY <1>0, <1>1, <1>3, <2>1 DEF SweptOrRevoked, FewerLeaving, SessionsAge
<1>7. IdsOfTheirOwn'
  BY <1>0, <1>1, <1>2 DEF IdsOfTheirOwn
<1> QED
  BY <1>3, <1>5, <1>6, <1>7 DEF RevokeInv

\* Every step keeps the revocation, and sessions only age.
LEMMA RevokeInvStep == RevokeInv /\ [AccNext]_vars => RevokeInv' /\ SessionsAge
<1> SUFFICES ASSUME RevokeInv, [AccNext]_vars PROVE RevokeInv' /\ SessionsAge
  OBVIOUS
<1>0. AccTypeOK /\ AccTypeOK' /\ OnOrRevoked /\ SweptOrRevoked /\ DOMAIN entry \cap DOMAIN sessions = {}
  BY AccTypeStep DEF RevokeInv, IdsOfTheirOwn
<1>a. now \in Nat /\ now' \in Nat /\ MaxTime \in Nat
  BY <1>0, AccAssumption DEF AccTypeOK
<1>b. \A i \in DOMAIN sessions : sessions[i] \in SessionRow
  BY <1>0 DEF AccTypeOK, IsTable
<1>c. ASSUME sessions' = sessions, now' >= now, FewerLeaving, \A p \in Person : Active(p) => Active(p)',
             DOMAIN entry' \cap DOMAIN sessions = {}
      PROVE  RevokeInv' /\ SessionsAge
  BY <1>0, <1>c, NobodyLeaves
<1>d. ASSUME UNCHANGED <<users, leaving>>
      PROVE  FewerLeaving /\ \A p \in Person : Active(p) => Active(p)'
  BY <1>d DEF FewerLeaving, Active
<1>1. CASE Tick
  BY <1>0, <1>a, <1>c, <1>d, <1>1 DEF Tick
<1>2. ASSUME NEW s \in Setup, SetupLook(s) \/ SetupInsert(s) PROVE RevokeInv' /\ SessionsAge
  <2>1. \A p \in Person : Active(p) => Active(p)'
    BY <1>2 DEF SetupLook, SetupInsert, Active, Put
  <2>2. UNCHANGED <<now, entry, sessions, leaving>>
    BY <1>2 DEF SetupLook, SetupInsert
  <2> QED
    BY <1>0, <1>a, <1>c, <2>1, <2>2 DEF FewerLeaving
<1>3. ASSUME NEW i \in Session, NEW p \in Person, LoginCheck(i, p) PROVE RevokeInv' /\ SessionsAge
  BY <1>0, <1>a, <1>c, <1>d, <1>3 DEF LoginCheck, Free, Put
<1>4. ASSUME NEW l \in Link, NEW p \in Person, RequestLink(l, p) PROVE RevokeInv' /\ SessionsAge
  BY <1>0, <1>a, <1>c, <1>d, <1>4 DEF RequestLink
<1>5. ASSUME NEW i \in Session, NEW l \in Link, VerifySpend(i, l) PROVE RevokeInv' /\ SessionsAge
  BY <1>0, <1>a, <1>c, <1>d, <1>5 DEF VerifySpend, Free, Put
<1>6. ASSUME NEW i \in Session, VerifyCheck(i) PROVE RevokeInv' /\ SessionsAge
  <2>1. DOMAIN entry' \subseteq DOMAIN entry
    BY <1>6 DEF VerifyCheck, Without
  <2> QED
    BY <1>0, <1>a, <1>c, <1>d, <1>6, <2>1 DEF VerifyCheck
<1>7. ASSUME NEW i \in Session, CreateSession(i) PROVE RevokeInv' /\ SessionsAge
  <2>1. /\ i \in DOMAIN entry /\ i \notin DOMAIN sessions
        /\ entry' = Without(entry, i) /\ UNCHANGED <<now, users, leaving>>
        /\ sessions' = Put(sessions, i,
             [user |-> entry[i].user, via |-> entry[i].via, expires |-> now + SessionTTL,
              revoked |-> FALSE, late |-> ~Active(entry[i].user) \/ LeavingNow(entry[i].user)])
    BY <1>0, <1>7 DEF CreateSession
  <2>2. \A j \in DOMAIN sessions : j \in DOMAIN sessions' /\ sessions'[j] = sessions[j]
    BY <2>1 DEF Put
  <2>3. DOMAIN sessions' = DOMAIN sessions \cup {i} /\ DOMAIN entry' = DOMAIN entry \ {i}
    BY <2>1 DEF Put, Without
  <2>4. /\ sessions'[i].user = entry[i].user
        /\ sessions'[i].late = (~Active(entry[i].user) \/ LeavingNow(entry[i].user))
    BY <2>1 DEF Put
  <2>5. OnOrRevoked'
    BY <1>0, <2>1, <2>2, <2>3, <2>4 DEF OnOrRevoked, Active
  <2>6. SweptOrRevoked'
    <3>1. ASSUME NEW r \in DOMAIN leaving, leaving[r].user = entry[i].user PROVE sessions'[i].late
      BY <2>4, <3>1 DEF LeavingNow
    <3>2. \A r \in DOMAIN leaving, j \in DOMAIN sessions :
            sessions'[j].user = leaving[r].user =>
              sessions'[j].late \/ sessions'[j].revoked \/ j \in leaving[r].swept
      BY <1>0, <2>2 DEF SweptOrRevoked
    <3> QED
      BY <2>1, <2>3, <2>4, <3>1, <3>2 DEF SweptOrRevoked
  <2>7. IdsOfTheirOwn'
    BY <1>0, <2>1, <2>3 DEF IdsOfTheirOwn
  <2>8. SessionsAge
    <3>1. now' >= now
      BY <1>a, <2>1
    <3>2. \A j \in DOMAIN sessions :
            /\ j \in DOMAIN sessions' /\ sessions'[j].user = sessions[j].user
            /\ sessions'[j].expires = sessions[j].expires /\ sessions'[j].late = sessions[j].late
      BY <2>2
    <3>3. \A j \in DOMAIN sessions : sessions[j].revoked => sessions'[j].revoked
      BY <1>b, <2>2 DEF SessionRow
    <3> QED
      BY <3>1, <3>2, <3>3, Zenon DEF SessionsAge
  <2> QED
    BY <1>0, <2>5, <2>6, <2>7, <2>8 DEF RevokeInv
<1>8. ASSUME NEW i \in Session, EntryFails(i) PROVE RevokeInv' /\ SessionsAge
  BY <1>0, <1>a, <1>c, <1>d, <1>8 DEF EntryFails, Without
<1>9. ASSUME NEW i \in Session, Logout(i) PROVE RevokeInv' /\ SessionsAge
  <2>1. sessions' = [sessions EXCEPT ![i].revoked = TRUE] /\ UNCHANGED <<now, users, entry, leaving>>
    BY <1>9 DEF Logout
  <2>2. SessionsAge
    BY <1>a, <1>b, <2>1 DEF SessionsAge, SessionRow
  <2>3. OnOrRevoked'
    BY <1>0, <1>b, <2>1 DEF OnOrRevoked, Active, SessionRow
  <2>4. SweptOrRevoked'
    BY <1>0, <1>b, <2>1 DEF SweptOrRevoked, SessionRow
  <2>5. IdsOfTheirOwn'
    BY <1>0, <2>1 DEF IdsOfTheirOwn
  <2> QED
    BY <1>0, <2>2, <2>3, <2>4, <2>5 DEF RevokeInv
<1>10. ASSUME NEW r \in Request, NEW i \in Session, Admit(r, i) PROVE RevokeInv' /\ SessionsAge
  BY <1>0, <1>a, <1>c, <1>d, <1>10 DEF Admit
<1>11. ASSUME NEW r \in Request, Manage(r) PROVE RevokeInv' /\ SessionsAge
  <2>0. UNCHANGED <<now, entry, leaving, sessions>> /\ \A p \in DOMAIN users : users[p] \in UserRow
    BY <1>0, <1>11, ManageTyped DEF Manage, AccTypeOK, IsTable
  <2>1. ASSUME NEW p \in Person, NEW role \in Role, NEW pw \in BOOLEAN, CreateUser(r, p, role, pw)
        PROVE  \A q \in Person : Active(q) => Active(q)'
    BY <2>1 DEF CreateUser, Active, Put
  <2>2. ASSUME NEW p \in Person, NEW role \in Role, UpdateUser(r, p, role)
        PROVE  \A q \in Person : Active(q) => Active(q)'
    BY <2>0, <2>2 DEF UpdateUser, Active, UserRow
  <2>3. ASSUME NEW p \in Person, SwitchOn(r, p)
        PROVE  \A q \in Person : Active(q) => Active(q)'
    BY <2>0, <2>3 DEF SwitchOn, Active, UserRow
  <2>4. ASSUME NoChange
        PROVE  \A q \in Person : Active(q) => Active(q)'
    BY <2>4 DEF NoChange, Active
  <2>5. \A q \in Person : Active(q) => Active(q)'
    BY <1>11, <2>1, <2>2, <2>3, <2>4, Zenon DEF Manage
  <2>6. FewerLeaving
    BY <2>0 DEF FewerLeaving
  <2>7. now' >= now /\ DOMAIN entry' \cap DOMAIN sessions = {}
    BY <1>0, <1>a, <2>0
  <2> QED
    BY <1>c, <2>0, <2>5, <2>6, <2>7
<1>12. ASSUME NEW r \in Request, NEW p \in Person, SwitchOff(r, p) PROVE RevokeInv' /\ SessionsAge
  <2>1. /\ UNCHANGED <<now, users, entry, sessions>>
        /\ leaving' = Put(leaving, r, [user |-> p, swept |-> Sweep(p)])
    BY <1>12 DEF SwitchOff
  <2>2. OnOrRevoked'
    BY <1>0, <2>1 DEF OnOrRevoked, Active
  <2>3. SweptOrRevoked'
    BY <1>0, <2>1 DEF SweptOrRevoked, Put, Sweep
  <2>4. IdsOfTheirOwn'
    BY <1>0, <2>1 DEF IdsOfTheirOwn
  <2>5. SessionsAge
    BY <1>a, <2>1 DEF SessionsAge
  <2> QED
    BY <1>0, <2>2, <2>3, <2>4, <2>5 DEF RevokeInv
<1>13. ASSUME NEW r \in Request, CommitSwitchOff(r) PROVE RevokeInv' /\ SessionsAge
  BY <1>0, <1>13, CommitRevokes
<1>14. ASSUME NEW r \in Request, RollbackSwitchOff(r) PROVE RevokeInv' /\ SessionsAge
  <2>1. UNCHANGED <<now, users, entry, sessions>> /\ leaving' = Without(leaving, r)
    BY <1>14 DEF RollbackSwitchOff
  <2>2. FewerLeaving
    BY <2>1 DEF FewerLeaving, Without
  <2>3. \A p \in Person : Active(p) => Active(p)'
    BY <2>1 DEF Active
  <2> QED
    BY <1>0, <1>a, <1>c, <2>1, <2>2, <2>3
<1>15. CASE UNCHANGED vars
  BY <1>0, <1>a, <1>c, <1>d, <1>15 DEF vars
<1> QED
  BY <1>1, <1>2, <1>3, <1>4, <1>5, <1>6, <1>7, <1>8, <1>9, <1>10, <1>11, <1>12, <1>13, <1>14,
     <1>15 DEF AccNext

(***************************************************************************)
(* A session that has stopped working never works again, unless it was     *)
(* inserted after its account was switched off, or after the statement     *)
(* that revokes and before its commit (SetUserActive, ValidateSession,     *)
(* RevokeSession).                                                         *)
(***************************************************************************)
THEOREM NoRevival == AccSpec => NoSessionRevives
<1>1. AccInit => RevokeInv
  <2> SUFFICES ASSUME AccInit PROVE RevokeInv
    OBVIOUS
  <2>1. DOMAIN NoRows = {}
    BY DEF NoRows
  <2> QED
    BY <2>1, AccTypeInit DEF AccInit, RevokeInv, OnOrRevoked, SweptOrRevoked, IdsOfTheirOwn
<1>2. RevokeInv /\ [AccNext]_vars =>
        [\A i \in DOMAIN sessions : ~ValidSession(i) /\ ValidSession(i)' => sessions[i].late]_vars
  <2> SUFFICES ASSUME RevokeInv, [AccNext]_vars, NEW i \in DOMAIN sessions,
                      ~ValidSession(i), ValidSession(i)'
               PROVE  sessions[i].late
    OBVIOUS
  <2>1. SessionsAge
    BY RevokeInvStep
  <2>2. now \in Nat /\ now' \in Nat /\ sessions[i].expires \in Nat
    <3>1. AccTypeOK /\ AccTypeOK' /\ sessions[i] \in SessionRow
      BY AccTypeStep DEF RevokeInv, AccTypeOK, IsTable
    <3> QED
      BY <3>1, AccAssumption DEF AccTypeOK, SessionRow, Instant
  <2>3. ~sessions[i].revoked /\ sessions[i].expires > now
    BY <2>1, <2>2 DEF SessionsAge, ValidSession
  <2>4. ~Active(sessions[i].user)
    BY <2>3 DEF ValidSession
  <2> QED
    BY <2>3, <2>4 DEF RevokeInv, OnOrRevoked
<1> QED
  BY <1>1, <1>2, RevokeInvStep, PTL DEF AccSpec, NoSessionRevives

-----------------------------------------------------------------------------
(* The setup command.                                                      *)

\* A command that handed out a password has its account, and accounts stay.
PasswordInv ==
  /\ AccTypeOK /\ OnePasswordEach
  /\ \A s \in Setup : setup[s].state = "created" => setup[s].email \in DOMAIN users

\* No account is ever removed.
LEMMA AccountsStay ==
  ASSUME AccTypeOK, [AccNext]_vars
  PROVE  DOMAIN users \subseteq DOMAIN users'
<1>1. ASSUME NEW r \in Request, Manage(r) \/ CommitSwitchOff(r)
      PROVE  DOMAIN users \subseteq DOMAIN users'
  BY <1>1 DEF Manage, CreateUser, UpdateUser, SwitchOn, NoChange, CommitSwitchOff, Put
<1>2. ASSUME NEW s \in Setup, SetupInsert(s) PROVE DOMAIN users \subseteq DOMAIN users'
  BY <1>2 DEF SetupInsert, Put
<1> QED
  BY <1>1, <1>2 DEF vars, AccNext, Tick, SetupLook, LoginCheck, RequestLink, VerifySpend, VerifyCheck,
     CreateSession, EntryFails, Logout, Admit, SwitchOff, RollbackSwitchOff

\* Every step keeps the passwords apart.
LEMMA PasswordStep == PasswordInv /\ [AccNext]_vars => PasswordInv'
<1> SUFFICES ASSUME PasswordInv, [AccNext]_vars PROVE PasswordInv'
  OBVIOUS
<1>0. AccTypeOK /\ AccTypeOK' /\ DOMAIN users \subseteq DOMAIN users'
  BY AccTypeStep, AccountsStay DEF PasswordInv
<1>a. setup \in [Setup -> SetupRun]
  BY <1>0 DEF AccTypeOK
<1>1. CASE UNCHANGED setup
  BY <1>0, <1>1 DEF PasswordInv, OnePasswordEach
<1>2. ASSUME NEW s \in Setup, SetupLook(s) PROVE PasswordInv'
  <2>1. \A u \in Setup : /\ setup'[u].email = setup[u].email
                         /\ setup'[u].state = "created" => setup[u].state = "created"
    BY <1>a, <1>2 DEF SetupLook, SetupRun
  <2> QED
    BY <1>0, <2>1 DEF PasswordInv, OnePasswordEach
<1>3. ASSUME NEW s \in Setup, SetupInsert(s) PROVE PasswordInv'
  <2>1. \A u \in Setup : /\ setup'[u].email = setup[u].email
                         /\ u # s => setup'[u] = setup[u]
    BY <1>a, <1>3 DEF SetupInsert, SetupRun
  <2>2. CASE setup[s].email \in DOMAIN users
    <3>1. setup'[s].state = "refused"
      BY <1>a, <1>3, <2>2 DEF SetupInsert, SetupRun
    <3> QED
      BY <1>0, <2>1, <3>1 DEF PasswordInv, OnePasswordEach
  <2>3. CASE setup[s].email \notin DOMAIN users
    <3>1. setup[s].email \in DOMAIN users'
      BY <1>3, <2>3 DEF SetupInsert, Put
    <3>2. \A u \in Setup : setup[u].state = "created" => setup[u].email # setup[s].email
      BY <2>3 DEF PasswordInv
    <3> QED
      BY <1>0, <2>1, <3>1, <3>2 DEF PasswordInv, OnePasswordEach
  <2> QED
    BY <2>2, <2>3
<1>4. UNCHANGED setup \/ \E s \in Setup : SetupLook(s) \/ SetupInsert(s)
  BY DEF vars, AccNext, Tick, LoginCheck, RequestLink, VerifySpend, VerifyCheck,
     CreateSession, EntryFails, Logout, Admit, Manage, SwitchOff, CommitSwitchOff, RollbackSwitchOff
<1> QED
  BY <1>1, <1>2, <1>3, <1>4

(***************************************************************************)
(* Two setup commands for one e-mail never both hand out a password,       *)
(* however many commands race.                                             *)
(***************************************************************************)
THEOREM PasswordsAreUnique == AccSpec => []OnePasswordEach
<1>1. AccInit => PasswordInv
  <2> SUFFICES ASSUME AccInit PROVE PasswordInv
    OBVIOUS
  <2>1. \A s \in Setup : setup[s].state # "created"
    BY DEF AccInit
  <2> QED
    BY <2>1, AccTypeInit DEF PasswordInv, OnePasswordEach
<1>2. PasswordInv => OnePasswordEach
  BY DEF PasswordInv
<1> QED
  BY <1>1, <1>2, PasswordStep, PTL DEF AccSpec

-----------------------------------------------------------------------------
(* The last párroco.                                                       *)

\* LockedOutByOthersOnly, of one step.
OthersLockedOut ==
  CanManage # {} /\ CanManage' = {} =>
    \/ \E p \in DOMAIN users : users'[p].role # users[p].role
    \/ \E r \in DOMAIN admitted \ DOMAIN admitted' : admitted[r] \notin CanManage

(***************************************************************************)
(* The inductive invariant: a transaction that switches an account off is  *)
(* of an admitted request of somebody else.                                *)
(***************************************************************************)
OthersLeave ==
  \A r \in DOMAIN leaving : r \in DOMAIN admitted /\ leaving[r].user # admitted[r]

LockOutInv == AccTypeOK /\ OthersLeave

\* Every step keeps it.
LEMMA OthersLeaveStep == LockOutInv /\ [AccNext]_vars => LockOutInv'
<1> SUFFICES ASSUME LockOutInv, [AccNext]_vars PROVE OthersLeave'
  BY AccTypeStep DEF LockOutInv
<1>0. OthersLeave
  BY DEF LockOutInv
<1>1. ASSUME NEW r \in Request, NEW i \in Session, Admit(r, i) PROVE OthersLeave'
  BY <1>0, <1>1 DEF Admit, OthersLeave, Put
<1>2. ASSUME NEW r \in Request, Manage(r) PROVE OthersLeave'
  BY <1>0, <1>2 DEF Manage, OthersLeave, Without
<1>3. ASSUME NEW r \in Request, NEW p \in Person, SwitchOff(r, p) PROVE OthersLeave'
  BY <1>0, <1>3 DEF SwitchOff, OthersLeave, Put
<1>4. ASSUME NEW r \in Request, CommitSwitchOff(r) \/ RollbackSwitchOff(r) PROVE OthersLeave'
  BY <1>0, <1>4 DEF CommitSwitchOff, RollbackSwitchOff, OthersLeave, Without
<1>5. CASE UNCHANGED <<leaving, admitted>>
  BY <1>0, <1>5 DEF OthersLeave
<1> QED
  BY <1>1, <1>2, <1>3, <1>4, <1>5 DEF vars, AccNext, Tick, SetupLook, SetupInsert, LoginCheck,
     RequestLink, VerifySpend, VerifyCheck, CreateSession, EntryFails, Logout

\* Nobody is left to manage the team only by a demotion, or by the request of somebody already switched off.
LEMMA LockOutStep == LockOutInv /\ [AccNext]_vars => [OthersLockedOut]_vars
<1> SUFFICES ASSUME LockOutInv, [AccNext]_vars, CanManage # {}, CanManage' = {}
             PROVE  \/ \E p \in DOMAIN users : users'[p].role # users[p].role
                    \/ \E r \in DOMAIN admitted \ DOMAIN admitted' : admitted[r] \notin CanManage
  BY DEF OthersLockedOut
<1>1. PICK p \in DOMAIN users : users[p].active /\ users[p].role = "parroco"
  BY DEF CanManage
<1>2. ~(p \in DOMAIN users' /\ users'[p] = users[p])
  BY <1>1 DEF CanManage
<1>3. PICK r \in Request : Manage(r) \/ CommitSwitchOff(r)
  BY <1>1, <1>2 DEF vars, AccNext, Tick, SetupLook, SetupInsert, Put, LoginCheck, RequestLink,
     VerifySpend, VerifyCheck, CreateSession, EntryFails, Logout, Admit, SwitchOff, RollbackSwitchOff
<1>4. \A q \in DOMAIN users : users[q] \in UserRow
  BY DEF LockOutInv, AccTypeOK, IsTable
<1>5. CASE \E q \in Person, role \in Role, pw \in BOOLEAN : CreateUser(r, q, role, pw)
  BY <1>1, <1>2, <1>5 DEF CreateUser, Put
<1>6. ASSUME NEW q \in Person, NEW role \in Role, UpdateUser(r, q, role)
      PROVE  \E d \in DOMAIN users : users'[d].role # users[d].role
  <2>1. q = p /\ users'[p] = [users[p] EXCEPT !.role = role]
    BY <1>1, <1>2, <1>6 DEF UpdateUser
  <2>2. role # users[p].role
    BY <1>1, <1>2, <1>4, <1>6, <2>1 DEF UpdateUser, UserRow
  <2> QED
    BY <1>1, <1>4, <2>1, <2>2 DEF UserRow
<1>7. ASSUME NEW q \in Person, SwitchOn(r, q) PROVE FALSE
  BY <1>1, <1>2, <1>4, <1>7 DEF SwitchOn, UserRow
<1>8. CASE NoChange
  BY <1>1, <1>2, <1>8 DEF NoChange
<1>9. CASE CommitSwitchOff(r)
  <2>1. r \in DOMAIN admitted \ DOMAIN admitted' /\ leaving[r].user # admitted[r]
    BY <1>9 DEF LockOutInv, OthersLeave, CommitSwitchOff, Without
  <2>2. DOMAIN users' = DOMAIN users /\ \A d \in DOMAIN users : d # leaving[r].user => users'[d] = users[d]
    BY <1>9 DEF CommitSwitchOff
  <2>3. \A d \in CanManage : d # leaving[r].user => d \in CanManage'
    BY <2>2 DEF CanManage
  <2> QED
    BY <2>1, <2>3
<1> QED
  BY <1>3, <1>5, <1>6, <1>7, <1>8, <1>9 DEF Manage

(***************************************************************************)
(* The last párroco who can manage is lost only by a change of role, or by *)
(* a request whose author could no longer manage either.                   *)
(***************************************************************************)
THEOREM NobodyLocksHimselfOut == AccSpec => LockedOutByOthersOnly
<1>1. AccInit => LockOutInv
  <2>1. DOMAIN NoRows = {}
    BY DEF NoRows
  <2> QED
    BY <2>1, AccTypeInit DEF AccInit, LockOutInv, OthersLeave
<1> QED
  BY <1>1, OthersLeaveStep, LockOutStep, PTL DEF AccSpec, LockedOutByOthersOnly, OthersLockedOut
=============================================================================
