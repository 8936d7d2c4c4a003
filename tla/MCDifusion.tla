----------------------------- MODULE MCDifusion -----------------------------
(* Instances of the engine small enough for TLC.                           *)
EXTENDS Difusion, TLC

CONSTANT g1 \* a group

Mail(group, active) == [kind |-> "email", group |-> group, active |-> active]
WhatsApp(group, active) == [kind |-> "whatsapp", group |-> group, active |-> active]

AlwaysOn == {Mail(Parish, TRUE)}
OnOrOff == {WhatsApp(Parish, TRUE), Mail(Parish, FALSE)}
OneGroup == {Mail(g1, TRUE)}

(* Two openings: an empty outbox, with every fault to come and the retry   *)
(* button pressed no more; and an announcement that has been relayed and   *)
(* that no fanout has taken yet, with one fault less and the button.       *)
NothingSent ==
  /\ channels \in [Opening -> {row \in ChannelEdits : row.active}] /\ removed = {}
  /\ batch = [w \in Relay |-> {}] /\ left = [w \in Relay |-> {}]
  /\ del = NoRows /\ broadcasts = NoRows /\ retrying = {}
  /\ heard = [k \in Key |-> 0] /\ fanned = {} /\ excused = {}

FromNothing ==
  /\ LogInit /\ NothingSent
  /\ processed = {} /\ fan = NoRows
  /\ faults = 0 /\ manual = MaxManual

FromRelayed ==
  \E e \in Event, data \in Payload, t \in FanTask :
    /\ events = Put(NoRows, e, Row(TRUE, FALSE, data)) /\ deleted = {}
    /\ outbox = <<[event |-> e, kind |-> "published", payload |-> data]>>
    /\ NothingSent
    /\ processed = {1} /\ fan = Put(NoRows, t, Waiting(1, 0))
    /\ faults = 1 /\ manual = 0

ReplaySpec == (FromNothing \/ FromRelayed) /\ [][DifNext]_vars

Symmetry == Permutations(FanTask) \cup Permutations(DelTask) \cup Permutations(Relay)
              \cup Permutations(Slot)
=============================================================================
