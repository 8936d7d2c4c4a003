-------------------------------- MODULE Gate --------------------------------
(***************************************************************************)
(* The gate before the login and magic link endpoints: whose request it is *)
(* (package clientip) and whether that address may still try (package      *)
(* ratelimit, fixed windows in memory, one mutex around every call).       *)
(***************************************************************************)
EXTENDS Naturals, Sequences, SequencesExt, FiniteSets, Tables

CONSTANTS
  Client,          \* addresses of clients
  Proxy,           \* address of the reverse proxy
  Trusted,         \* TRUSTED_PROXY: the addresses in the CIDR, {} when empty
  Garbage,         \* a hop that is no address
  Limit, Window,   \* loginRateLimit, loginRateWindow
  SweepThreshold,  \* sweepThreshold
  MaxTime          \* bound on the clock

ASSUME GateAssumption ==
  /\ Limit \in Nat \ {0} /\ Window \in Nat \ {0}
  /\ SweepThreshold \in Nat /\ MaxTime \in Nat
  /\ Proxy \notin Client /\ Garbage \notin Client \cup {Proxy}

VARIABLES
  now,       \* the clock
  hits,      \* the limiter's map: key -> [count, start]
  admitted   \* history: the instants at which each client was let through

vars == <<now, hits, admitted>>

Instant == 0..MaxTime
Address == Client \cup {Proxy}

GateInit ==
  /\ now = 0 /\ hits = NoRows
  /\ admitted = [c \in Client |-> << >>]

-----------------------------------------------------------------------------
(* Whose request it is.  A request is its socket peer and its              *)
(* X-Forwarded-For hops; the proxy appends the address it was called from  *)
(* to whatever hops the client wrote.                                      *)

Forged == {<< >>} \cup {<<h>> : h \in Client \cup {Garbage}}
RequestsOf(c) == [peer : {c}, hops : Forged]
                   \cup {[peer |-> Proxy, hops |-> Append(h, c)] : h \in Forged}

\* Mutant: the first hop, which the client may have written.
FromRequestFirst(req) ==
  IF req.peer \in Trusted /\ req.hops # << >> /\ Head(req.hops) \in Address
  THEN Head(req.hops) ELSE req.peer

FromRequest(req) ==
  IF req.peer \in Trusted /\ req.hops # << >> /\ Last(req.hops) \in Address
  THEN Last(req.hops) ELSE req.peer

-----------------------------------------------------------------------------
(* Whether it may still try.                                               *)

Expired(key) == now - hits[key].start >= Window
Fresh(key) == key \notin DOMAIN hits \/ (key \in DOMAIN hits /\ Expired(key))

Swept == IF Cardinality(DOMAIN hits) > SweepThreshold
         THEN [k \in {x \in DOMAIN hits : ~Expired(x)} |-> hits[k]]
         ELSE hits

Refused(key) == ~Fresh(key) /\ hits[key].count >= Limit

\* Mutant: the window starts anew with every call.
AllowSliding(key) ==
  hits' = IF Fresh(key) THEN Put(Swept, key, [count |-> 1, start |-> now])
          ELSE IF Refused(key) THEN hits
          ELSE [hits EXCEPT ![key] = [count |-> @.count + 1, start |-> now]]

Allow(key) ==
  hits' = IF Fresh(key) THEN Put(Swept, key, [count |-> 1, start |-> now])
          ELSE IF Refused(key) THEN hits
          ELSE [hits EXCEPT ![key].count = @ + 1]

Attempt(c) ==
  \E req \in RequestsOf(c) :
    LET key == FromRequest(req)
    IN  /\ Allow(key)
        /\ admitted' = IF Refused(key) THEN admitted
                       ELSE [admitted EXCEPT ![c] = Append(@, now)]
        /\ UNCHANGED now

Tick == now < MaxTime /\ now' = now + 1 /\ UNCHANGED <<hits, admitted>>

GateNext == Tick \/ \E c \in Client : Attempt(c)
GateSpec == GateInit /\ [][GateNext]_vars

-----------------------------------------------------------------------------
AdmittedIn(c, I) == Cardinality({i \in DOMAIN admitted[c] : admitted[c][i] \in I})

(***************************************************************************)
(* Over any stretch as long as the window, wherever it starts, a client    *)
(* gets through fewer than twice the limit, whatever hops he writes,       *)
(* whichever way he comes and whoever else's calls sweep the map.          *)
(***************************************************************************)
TwiceAtMost ==
  \A c \in Client, t \in Instant : AdmittedIn(c, t..(t + Window - 1)) <= 2 * Limit - 1

(***************************************************************************)
(* A client is refused only when he himself used up the limit within the   *)
(* last window: nobody else's calls, forged hops or refused attempts count *)
(* against him.                                                            *)
(***************************************************************************)
RefusedOnlyWhenSpent ==
  \A c \in Client : \A req \in RequestsOf(c) :
    Refused(FromRequest(req)) =>
      AdmittedIn(c, {t \in Instant : now - t < Window /\ t <= now}) >= Limit
=============================================================================
