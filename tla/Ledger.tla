------------------------------- MODULE Ledger -------------------------------
(***************************************************************************)
(* The broadcasts table as the admin panel knows it: the rows of the       *)
(* difusión log and how they may change.  Difusion.tla implements this     *)
(* specification; Panel.tla relies on nothing else of the engine.          *)
(***************************************************************************)
EXTENDS Tables

CONSTANT Key  \* <<channel, outbox id>>

VARIABLES
  rows,   \* table: key -> state
  loose   \* rows retried by hand, or sent and not recorded as sent: these may be sent twice

ledgerVars == <<rows, loose>>

RowState == {"queued", "sent", "failed", "dead"}

LedgerTypeOK == IsTable(rows, Key, RowState) /\ loose \subseteq Key

LedgerInit == rows = NoRows /\ loose = {}

\* CreateBroadcast: a key is recorded once.
Record(k) ==
  /\ k \notin DOMAIN rows
  /\ rows' = Put(rows, k, "queued")
  /\ UNCHANGED loose

\* A delivery is attempted and its end recorded; what is sent is left alone.
Attempt(k, state) ==
  /\ k \in DOMAIN rows
  /\ rows[k] # "sent" \/ k \in loose
  /\ rows' = [rows EXCEPT ![k] = state]
  /\ UNCHANGED loose

\* ResetBroadcastForRetry: only a row that failed.
Reset(k) ==
  /\ k \in DOMAIN rows /\ rows[k] \in {"failed", "dead"}
  /\ rows' = [rows EXCEPT ![k] = "queued"]
  /\ loose' = loose \cup {k}

\* The rows of a deleted event go with it.
Drop(gone) ==
  /\ gone # {} /\ gone \subseteq DOMAIN rows
  /\ rows' = [k \in DOMAIN rows \ gone |-> rows[k]]
  /\ UNCHANGED loose

\* The mark of a message that was sent is lost, or says that it failed.
LoseMark(k) == loose' = loose \cup {k} /\ UNCHANGED rows

LedgerNext ==
  \/ \E k \in Key : \/ Record(k) \/ Reset(k) \/ LoseMark(k)
                    \/ \E state \in RowState \ {"queued"} : Attempt(k, state)
  \/ \E gone \in SUBSET DOMAIN rows : Drop(gone)

LedgerSpec == LedgerInit /\ [][LedgerNext]_ledgerVars
=============================================================================
