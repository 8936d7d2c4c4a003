----------------------------- MODULE GateProofs -----------------------------
(***************************************************************************)
(* The gate's two promises, for every number of clients, every limit and   *)
(* window, every sweep threshold and every clock, behind the proxy it      *)
(* trusts.                                                                 *)
(***************************************************************************)
EXTENDS Gate, FiniteSetTheorems, TLAPS

(* The deployment: the reverse proxy is within TRUSTED_PROXY and no client *)
(* is.  With TRUSTED_PROXY empty every client behind the proxy shares its  *)
(* address, and neither promise can be made.                               *)
BehindTheProxy == Proxy \in Trusted /\ Trusted \cap Client = {}

-----------------------------------------------------------------------------
(* Counting what a client was let through.                                 *)

Count(s, I) == Cardinality({i \in DOMAIN s : s[i] \in I})
From(t) == {u \in Instant : u >= t}

(* A count is a number.                                                    *)
LEMMA Counted ==
  ASSUME NEW s \in Seq(Instant), NEW I
  PROVE  /\ IsFiniteSet({i \in DOMAIN s : s[i] \in I})
         /\ Count(s, I) \in Nat
<1>1. DOMAIN s = 1..Len(s) /\ Len(s) \in Nat
  OBVIOUS
<1>2. IsFiniteSet(1..Len(s))
  BY <1>1, FS_Interval
<1>3. {i \in DOMAIN s : s[i] \in I} \subseteq 1..Len(s)
  BY <1>1
<1>4. IsFiniteSet({i \in DOMAIN s : s[i] \in I})
  BY <1>2, <1>3, FS_Subset
<1> QED
  BY <1>4, FS_CardinalityType DEF Count

(* Where every entry in one set is in another, the other counts as many.   *)
LEMMA CountsMore ==
  ASSUME NEW s \in Seq(Instant), NEW I, NEW J,
         \A i \in DOMAIN s : s[i] \in I => s[i] \in J
  PROVE  Count(s, I) <= Count(s, J)
<1>1. {i \in DOMAIN s : s[i] \in I} \subseteq {i \in DOMAIN s : s[i] \in J}
  OBVIOUS
<1>2. IsFiniteSet({i \in DOMAIN s : s[i] \in J})
  BY Counted
<1> QED
  BY <1>1, <1>2, FS_Subset DEF Count

(* One more entry counts for one where it belongs and for none elsewhere.  *)
LEMMA CountsOne ==
  ASSUME NEW s \in Seq(Instant), NEW t \in Instant, NEW I
  PROVE  Count(Append(s, t), I) = IF t \in I THEN Count(s, I) + 1 ELSE Count(s, I)
<1> DEFINE a == Append(s, t)
           S == {i \in DOMAIN s : s[i] \in I}
           T == {i \in DOMAIN a : a[i] \in I}
           n == Len(s) + 1
<1>1. /\ DOMAIN s = 1..Len(s) /\ Len(s) \in Nat /\ DOMAIN a = 1..n
      /\ \A i \in DOMAIN s : a[i] = s[i]
      /\ a[n] = t
  OBVIOUS
<1>2. n \notin S
  BY <1>1
<1>3. DOMAIN a = DOMAIN s \cup {n}
  BY <1>1
<1>4. T = IF t \in I THEN S \cup {n} ELSE S
  BY <1>1, <1>3
<1>5. IsFiniteSet(S)
  BY Counted
<1>6. Cardinality(S \cup {n}) = Cardinality(S) + 1
  BY <1>2, <1>5, FS_AddElement
<1> QED
  BY <1>4, <1>6 DEF Count

-----------------------------------------------------------------------------
(* The invariant.                                                          *)

Hit == [count : 1..Limit, start : Instant]

GateTypes ==
  /\ now \in Instant
  /\ IsTable(hits, Address, Hit)
  /\ \A k \in DOMAIN hits : hits[k].start <= now
  /\ admitted \in [Client -> Seq(Instant)]
  /\ \A c \in Client : \A i \in DOMAIN admitted[c] : admitted[c][i] <= now

Since(c, t) == Count(admitted[c], From(t))

\* No window is open: nothing was let through at this instant, and of the
\* last Window instants the client has used up less than the limit, whether
\* or not the sweep forgot his record.
NoneOpen(c) ==
  Fresh(c) => /\ Since(c, now) = 0
              /\ \A t \in Instant : t + Window > now => Since(c, t) <= Limit - 1

\* A window is open: its count is what the client did in it, some of that at
\* its start, and the Window instants before it saw less than the limit.
Open(c) ==
  ~Fresh(c) =>
    /\ hits[c].count = Since(c, hits[c].start)
    /\ Since(c, hits[c].start + 1) < Since(c, hits[c].start)
    /\ \A t \in Instant : t + Window > hits[c].start =>
         Since(c, t) <= Since(c, hits[c].start) + Limit - 1

Kept(c) == NoneOpen(c) /\ Open(c)

GateInv == GateTypes /\ (\A c \in Client : Kept(c)) /\ TwiceAtMost

(* A client's instants are numbers.                                        *)
LEMMA Instants == ASSUME NEW s \in Seq(Instant), NEW i \in DOMAIN s PROVE s[i] \in Nat
<1>1. s[i] \in Instant
  OBVIOUS
<1> QED
  BY <1>1 DEF Instant

(* Nothing is let through after now.                                       *)
LEMMA NoneAhead ==
  ASSUME NEW s \in Seq(Instant), NEW n \in Nat, NEW t \in Nat, t > n,
         \A i \in DOMAIN s : s[i] <= n
  PROVE  Count(s, From(t)) = 0
<1>1. ASSUME NEW i \in DOMAIN s PROVE s[i] \notin From(t)
  BY <1>1, Instants DEF From
<1>2. {i \in DOMAIN s : s[i] \in From(t)} = {}
  BY <1>1
<1> QED
  BY <1>2, FS_EmptySet DEF Count

-----------------------------------------------------------------------------
(* Whoever writes the hops, a request is its sender's.                     *)
LEMMA HisOwn ==
  ASSUME BehindTheProxy, NEW c \in Client, NEW req \in RequestsOf(c)
  PROVE  FromRequest(req) = c
<1>1. CASE req \in [peer : {c}, hops : Forged]
  BY <1>1 DEF FromRequest, BehindTheProxy
<1>2. CASE req \in {[peer |-> Proxy, hops |-> Append(h, c)] : h \in Forged}
  <2>1. PICK h \in Forged : req = [peer |-> Proxy, hops |-> Append(h, c)]
    BY <1>2
  <2>2. h \in Seq(Client \cup {Garbage})
    <3>1. CASE h = << >>
      BY <3>1
    <3>2. CASE h \in {<<x>> : x \in Client \cup {Garbage}}
      BY <3>2
    <3> QED
      BY <3>1, <3>2 DEF Forged
  <2>3. Append(h, c) # << >> /\ Last(Append(h, c)) = c
    BY <2>2 DEF Last
  <2> QED
    BY <2>1, <2>3 DEF FromRequest, BehindTheProxy, Address
<1> QED
  BY <1>1, <1>2 DEF RequestsOf

(* What an attempt of c comes to: a new window, one more in the open one,  *)
(* or a refusal that changes nothing.                                      *)
LEMMA Attempts ==
  ASSUME BehindTheProxy, GateTypes, NEW c \in Client, Attempt(c)
  PROVE  /\ now' = now
         /\ \/ /\ Fresh(c)
               /\ hits' = Put(Swept, c, [count |-> 1, start |-> now])
               /\ admitted' = [admitted EXCEPT ![c] = Append(@, now)]
            \/ /\ ~Fresh(c) /\ hits[c].count < Limit
               /\ hits' = [hits EXCEPT ![c].count = @ + 1]
               /\ admitted' = [admitted EXCEPT ![c] = Append(@, now)]
            \/ hits' = hits /\ admitted' = admitted
<1>1. PICK req \in RequestsOf(c) : /\ Allow(FromRequest(req))
                                   /\ admitted' = IF Refused(FromRequest(req)) THEN admitted
                                                  ELSE [admitted EXCEPT ![c] = Append(@, now)]
                                   /\ UNCHANGED now
  BY DEF Attempt
<1>2. FromRequest(req) = c
  BY HisOwn
<1>3. CASE Fresh(c)
  BY <1>1, <1>2, <1>3 DEF Allow, Refused
<1>4. CASE ~Fresh(c) /\ hits[c].count < Limit
  <2>1. ~Refused(c)
    BY <1>4, GateAssumption DEF Refused, Fresh, GateTypes, IsTable, Hit
  <2> QED
    BY <1>1, <1>2, <1>4, <2>1 DEF Allow
<1>5. CASE ~Fresh(c) /\ ~(hits[c].count < Limit)
  <2>1. Refused(c)
    BY <1>5, GateAssumption DEF Refused, Fresh, GateTypes, IsTable, Hit
  <2> QED
    BY <1>1, <1>2, <1>5, <2>1 DEF Allow
<1> QED
  BY <1>3, <1>4, <1>5

-----------------------------------------------------------------------------
(* The invariant is inductive.                                             *)

LEMMA GateStarts == GateInit => GateInv
<1> SUFFICES ASSUME GateInit PROVE GateInv
  OBVIOUS
<1>1. GateTypes
  BY GateAssumption DEF GateInit, GateTypes, IsTable, NoRows, Instant
<1>2. ASSUME NEW c \in Client, NEW I PROVE Count(admitted[c], I) = 0
  <2>1. {i \in DOMAIN admitted[c] : admitted[c][i] \in I} = {}
    BY DEF GateInit
  <2> QED
    BY <2>1, FS_EmptySet DEF Count
<1>3. ASSUME NEW c \in Client PROVE Kept(c)
  <2>1. Fresh(c)
    BY DEF Fresh, GateInit, NoRows
  <2> QED
    BY <1>2, <1>3, <2>1, GateAssumption DEF Kept, NoneOpen, Open, Since
<1>4. TwiceAtMost
  <2>1. \A c \in Client, t \in Instant : AdmittedIn(c, t..(t + Window - 1)) = 0
    BY <1>2 DEF AdmittedIn, Count
  <2>2. 0 <= 2 * Limit - 1
    BY GateAssumption
  <2> QED
    BY <2>1, <2>2 DEF TwiceAtMost
<1> QED
  BY <1>1, <1>3, <1>4 DEF GateInv

(* Time passes: an open window may run out, and then it held less than the *)
(* limit after its start.                                                  *)
LEMMA TickKeeps ==
  ASSUME GateInv, Tick
  PROVE  GateInv'
<1>1. GateTypes'
  <2>1. /\ now' \in Instant /\ now \in Nat /\ now' = now + 1
        /\ \A t \in Instant : t \in Nat
        /\ hits' = hits /\ admitted' = admitted
    BY GateAssumption DEF GateInv, GateTypes, Tick, Instant
  <2>2. IsTable(hits, Address, Hit)' /\ admitted' \in [Client -> Seq(Instant)]
    BY <2>1 DEF GateInv, GateTypes, IsTable, Instant, Hit
  <2>3. \A k \in DOMAIN hits' : hits'[k].start <= now'
    BY <2>1 DEF GateInv, GateTypes, IsTable, Hit
  <2>4. ASSUME NEW c \in Client, NEW i \in DOMAIN admitted'[c] PROVE admitted'[c][i] <= now'
    <3>1. admitted[c] \in Seq(Instant) /\ admitted[c][i] <= now
      BY <2>1, <2>4 DEF GateInv, GateTypes
    <3>2. admitted[c][i] \in Nat
      BY <2>1, <2>4, <3>1, Instants
    <3> QED
      BY <2>1, <3>1, <3>2
  <2> QED
    BY <2>1, <2>2, <2>3, <2>4 DEF GateTypes
<1>2. ASSUME NEW c \in Client PROVE Kept(c)'
  <2>1. /\ now \in Nat /\ now' = now + 1 /\ hits' = hits /\ Window \in Nat /\ Limit \in Nat
        /\ \A t : Since(c, t)' = Since(c, t)
        /\ \A t \in Instant : t \in Nat
    BY GateAssumption DEF Tick, Since, GateInv, GateTypes, Instant
  <2>2. admitted[c] \in Seq(Instant)
    BY DEF GateInv, GateTypes
  <2>3. \A t : Since(c, t) \in Nat
    BY <2>2, Counted DEF Since
  <2>6. Since(c, now)' = 0
    <3>1. admitted'[c] = admitted[c] /\ now' \in Nat /\ now' > now
      BY <2>1 DEF Tick
    <3>2. \A i \in DOMAIN admitted[c] : admitted[c][i] <= now
      BY DEF GateInv, GateTypes
    <3>3. Count(admitted[c], From(now')) = 0
      BY <2>1, <2>2, <3>1, <3>2, NoneAhead
    <3> QED
      BY <3>1, <3>3 DEF Since
  <2>4. CASE Fresh(c)
    <3>1. Fresh(c)'
      BY <2>1, <2>4 DEF Fresh, Expired, GateInv, GateTypes, IsTable, Hit
    <3> QED
      BY <2>1, <2>3, <2>4, <2>6, <3>1 DEF Kept, NoneOpen, Open, GateInv
  <2>5. CASE ~Fresh(c)
    <3> DEFINE s == hits[c].start
    <3>1. c \in DOMAIN hits /\ s \in Instant /\ now - s < Window
      BY <2>1, <2>5 DEF Fresh, Expired, GateInv, GateTypes, IsTable, Hit
    <3>2. Since(c, s + 1) <= Limit - 1
      <4>1. hits[c].count <= Limit
        BY <2>1, <3>1 DEF GateInv, GateTypes, IsTable, Hit
      <4> QED
        BY <2>1, <2>3, <2>5, <4>1 DEF GateInv, Kept, Open
    <3>3. CASE Fresh(c)'
      <4>1. now + 1 - s >= Window
        BY <2>1, <3>1, <3>3 DEF Fresh, Expired
      <4>2. ASSUME NEW t \in Instant, t + Window > now + 1 PROVE Since(c, t) <= Limit - 1
        <5>1. t >= s + 1
          BY <2>1, <3>1, <4>1, <4>2
        <5>2. \A i \in DOMAIN admitted[c] : admitted[c][i] \in From(t) => admitted[c][i] \in From(s + 1)
          BY <2>1, <2>2, <3>1, <5>1 DEF From
        <5>3. Since(c, t) <= Since(c, s + 1)
          BY <2>2, <5>2, CountsMore DEF Since
        <5> QED
          BY <2>1, <2>3, <3>2, <5>3
      <4> QED
        BY <2>1, <2>6, <3>3, <4>2 DEF Kept, NoneOpen, Open
    <3>4. CASE ~Fresh(c)'
      BY <2>1, <2>3, <2>5, <3>4 DEF Kept, NoneOpen, Open, GateInv
    <3> QED
      BY <3>3, <3>4
  <2> QED
    BY <2>4, <2>5
<1>3. TwiceAtMost'
  BY DEF TwiceAtMost, AdmittedIn, Tick, GateInv
<1> QED
  BY <1>1, <1>2, <1>3 DEF GateInv

(* Someone else's attempt: the sweep forgets a record only when its window *)
(* has run out.                                                            *)
LEMMA OthersKept ==
  ASSUME BehindTheProxy, GateInv, NEW c \in Client, NEW d \in Client \ {c}, Attempt(c)
  PROVE  Kept(d)'
<1>1. /\ now' = now
      /\ admitted \in [Client -> Seq(Instant)] /\ admitted'[d] = admitted[d]
  BY Attempts DEF GateInv, GateTypes
<1>2. \/ hits' = Put(Swept, c, [count |-> 1, start |-> now])
      \/ hits' = [hits EXCEPT ![c].count = @ + 1]
      \/ hits' = hits
  BY Attempts DEF GateInv
<1>3. Fresh(d)' <=> Fresh(d)
  <2>1. CASE hits' = Put(Swept, c, [count |-> 1, start |-> now])
    BY <1>1, <2>1 DEF Fresh, Expired, Put, Swept
  <2>2. CASE hits' = [hits EXCEPT ![c].count = @ + 1]
    BY <1>1, <2>2 DEF Fresh, Expired
  <2> QED
    BY <1>1, <1>2, <2>1, <2>2 DEF Fresh, Expired
<1>4. ~Fresh(d) => hits'[d] = hits[d]
  <2>1. CASE hits' = Put(Swept, c, [count |-> 1, start |-> now])
    BY <2>1 DEF Fresh, Expired, Put, Swept
  <2>2. CASE hits' = [hits EXCEPT ![c].count = @ + 1]
    BY <2>2 DEF Fresh
  <2> QED
    BY <1>2, <2>1, <2>2
<1>5. \A t : Since(d, t)' = Since(d, t)
  BY <1>1 DEF Since
<1>6. NoneOpen(d)'
  BY <1>1, <1>3, <1>5 DEF NoneOpen, Kept, GateInv
<1>7. Open(d)'
  BY <1>3, <1>4, <1>5 DEF Open, Kept, GateInv
<1> QED
  BY <1>6, <1>7 DEF Kept

(* The types after an attempt that got through, whichever way it counted.  *)
LEMMA AttemptTypes ==
  ASSUME BehindTheProxy, GateTypes, NEW c \in Client, Attempt(c)
  PROVE  GateTypes'
<1>1. /\ now' = now /\ now \in Instant /\ \A t \in Instant : t \in Nat
      /\ IsTable(hits, Address, Hit) /\ admitted \in [Client -> Seq(Instant)]
      /\ Limit \in Nat \ {0} /\ c \in Address
  BY Attempts, GateAssumption DEF GateTypes, Instant, Address
<1>2. CASE hits' = hits /\ admitted' = admitted
  BY <1>1, <1>2 DEF GateTypes, IsTable, Hit, Instant
<1>3. ASSUME admitted' = [admitted EXCEPT ![c] = Append(@, now)]
      PROVE  /\ admitted' \in [Client -> Seq(Instant)]
             /\ \A d \in Client : \A i \in DOMAIN admitted'[d] : admitted'[d][i] <= now'
  <2>1. admitted' \in [Client -> Seq(Instant)]
    BY <1>1, <1>3
  <2>2. ASSUME NEW d \in Client, NEW i \in DOMAIN admitted'[d] PROVE admitted'[d][i] <= now'
    <3>1. CASE d = c
      <4>1. admitted'[c] = Append(admitted[c], now) /\ admitted[c] \in Seq(Instant)
        BY <1>1, <1>3
      <4>2. \/ i \in DOMAIN admitted[c] /\ admitted'[c][i] = admitted[c][i]
            \/ admitted'[c][i] = now
        BY <1>1, <2>2, <3>1, <4>1
      <4> QED
        BY <1>1, <3>1, <4>2 DEF GateTypes
    <3>2. CASE d # c
      BY <1>1, <1>3, <2>2, <3>2 DEF GateTypes
    <3> QED
      BY <3>1, <3>2
  <2> QED
    BY <2>1, <2>2
<1>4. ASSUME hits' = Put(Swept, c, [count |-> 1, start |-> now])
      PROVE  IsTable(hits', Address, Hit) /\ \A k \in DOMAIN hits' : hits'[k].start <= now'
  <2>1. DOMAIN hits' \subseteq DOMAIN hits \cup {c}
    BY <1>4 DEF Put, Swept
  <2>2. [count |-> 1, start |-> now] \in Hit
    BY <1>1 DEF Hit
  <2>3. ASSUME NEW k \in DOMAIN hits'
        PROVE  \/ hits'[k] = [count |-> 1, start |-> now]
               \/ k \in DOMAIN hits /\ hits'[k] = hits[k]
    <3>1. DOMAIN Swept \subseteq DOMAIN hits /\ \A j \in DOMAIN Swept : Swept[j] = hits[j]
      BY DEF Swept
    <3>2. k \in DOMAIN Swept \cup {c} /\ hits'[k] = IF k = c THEN [count |-> 1, start |-> now] ELSE Swept[k]
      BY <1>4, <2>3 DEF Put
    <3> QED
      BY <3>1, <3>2
  <2>4. \A k \in DOMAIN hits' : hits'[k] \in Hit
    BY <1>1, <2>2, <2>3 DEF IsTable
  <2>5. hits' \in [DOMAIN hits' -> Hit]
    BY <1>4, <2>4 DEF Put
  <2>6. \A k \in DOMAIN hits' : hits'[k].start <= now'
    BY <1>1, <2>3 DEF GateTypes, Instant
  <2> QED
    BY <1>1, <2>1, <2>5, <2>6 DEF IsTable
<1>5. ASSUME ~Fresh(c), hits[c].count < Limit, hits' = [hits EXCEPT ![c].count = @ + 1]
      PROVE  IsTable(hits', Address, Hit) /\ \A k \in DOMAIN hits' : hits'[k].start <= now'
  <2>1. c \in DOMAIN hits /\ hits[c] \in Hit
    BY <1>1, <1>5 DEF Fresh, IsTable
  <2>2. [hits[c] EXCEPT !.count = @ + 1] \in Hit
    BY <1>1, <1>5, <2>1 DEF Hit
  <2>3. hits' \in [DOMAIN hits -> Hit]
    BY <1>1, <1>5, <2>1, <2>2 DEF IsTable
  <2>4. \A k \in DOMAIN hits' : hits'[k].start = hits[k].start
    BY <1>5, <2>1 DEF Hit
  <2> QED
    BY <1>1, <2>3, <2>4 DEF IsTable, GateTypes
<1> QED
  BY <1>1, <1>2, <1>3, <1>4, <1>5, Attempts DEF GateTypes

(* One more let through moves a count by one where the instant belongs.    *)
LEMMA OneMore ==
  ASSUME GateTypes, NEW c \in Client, NEW t \in Instant,
         now' = now, admitted' = [admitted EXCEPT ![c] = Append(@, now)]
  PROVE  Since(c, t)' = IF t <= now THEN Since(c, t) + 1 ELSE Since(c, t)
<1>1. now \in Instant /\ admitted[c] \in Seq(Instant) /\ admitted'[c] = Append(admitted[c], now)
  BY DEF GateTypes
<1>2. now \in From(t) <=> t <= now
  BY <1>1, GateAssumption DEF From, Instant
<1> QED
  BY <1>1, <1>2, CountsOne DEF Since

(* His own attempt keeps what is known of his windows.                     *)
LEMMA HisKept ==
  ASSUME BehindTheProxy, GateInv, NEW c \in Client, Attempt(c)
  PROVE  Kept(c)'
<1>1. /\ now' = now /\ now \in Instant /\ now \in Nat /\ \A t \in Instant : t \in Nat
      /\ IsTable(hits, Address, Hit) /\ admitted \in [Client -> Seq(Instant)]
      /\ Limit \in Nat \ {0} /\ Window \in Nat \ {0}
      /\ GateTypes /\ Kept(c)
  BY Attempts, GateAssumption DEF GateInv, GateTypes, Instant
<1>2. \A t : Since(c, t) \in Nat
  BY <1>1, Counted DEF Since
<1>3. CASE hits' = hits /\ admitted' = admitted
  BY <1>1, <1>3 DEF Kept, NoneOpen, Open, Fresh, Expired, Since
<1>6. Since(c, now + 1)' = 0
  <2>1. GateTypes'
    BY <1>1, AttemptTypes
  <2>2. Since(c, now + 1)' = Count(admitted'[c], From(now + 1))
    BY <1>1 DEF Since
  <2> QED
    <3>1. /\ admitted'[c] \in Seq(Instant)
          /\ \A i \in DOMAIN admitted'[c] : admitted'[c][i] <= now
      BY <1>1, <2>1 DEF GateTypes
    <3> QED
      BY <1>1, <2>2, <3>1, NoneAhead
<1>4. CASE /\ Fresh(c)
           /\ hits' = Put(Swept, c, [count |-> 1, start |-> now])
           /\ admitted' = [admitted EXCEPT ![c] = Append(@, now)]
  <2>1. hits'[c] = [count |-> 1, start |-> now] /\ c \in DOMAIN hits' /\ ~Fresh(c)'
    BY <1>1, <1>4 DEF Put, Fresh, Expired
  <2>2. \A t \in Instant : t + Window > now => Since(c, t) <= Limit - 1
    BY <1>1, <1>4 DEF Kept, NoneOpen
  <2>0. ASSUME NEW t \in Instant
        PROVE  Since(c, t)' = IF t <= now THEN Since(c, t) + 1 ELSE Since(c, t)
    BY <1>1, <1>4, OneMore
  <2>3. Since(c, now)' = 1
    BY <1>1, <1>4, <2>0 DEF Kept, NoneOpen
  <2>5. ASSUME NEW t \in Instant, t + Window > now PROVE Since(c, t)' <= 1 + Limit - 1
    BY <1>1, <1>2, <2>0, <2>2, <2>5
  <2>6. NoneOpen(c)'
    BY <2>1 DEF NoneOpen
  <2>7. Open(c)'
    BY <1>1, <1>6, <2>1, <2>3, <2>5 DEF Open
  <2> QED
    BY <2>6, <2>7 DEF Kept
<1>5. CASE /\ ~Fresh(c) /\ hits[c].count < Limit
           /\ hits' = [hits EXCEPT ![c].count = @ + 1]
           /\ admitted' = [admitted EXCEPT ![c] = Append(@, now)]
  <2>7. PICK s : s = hits[c].start
    OBVIOUS
  <2>0. ASSUME NEW t \in Instant
        PROVE  Since(c, t)' = IF t <= now THEN Since(c, t) + 1 ELSE Since(c, t)
    BY <1>1, <1>5, OneMore
  <2>1. c \in DOMAIN hits /\ hits[c] \in Hit /\ s \in Instant /\ s \in Nat /\ s <= now
    BY <1>1, <1>5, <2>7 DEF Fresh, IsTable, Hit, GateTypes
  <2>2. hits'[c].start = s /\ hits'[c].count = hits[c].count + 1 /\ c \in DOMAIN hits' /\ ~Fresh(c)'
    BY <1>1, <1>5, <2>1, <2>7 DEF Hit, Fresh, Expired
  <2>3. /\ hits[c].count = Since(c, s)
        /\ Since(c, s + 1) < Since(c, s)
        /\ \A t \in Instant : t + Window > s => Since(c, t) <= Since(c, s) + Limit - 1
    BY <1>1, <1>5, <2>7 DEF Kept, Open
  <2>4. hits'[c].count = Since(c, s)'
    BY <1>2, <2>0, <2>1, <2>2, <2>3
  <2>5. Since(c, s + 1)' < Since(c, s)'
    <3>1. Since(c, s)' = Since(c, s) + 1
      BY <2>0, <2>1
    <3>2. CASE s < now
      <4>1. s + 1 \in Instant /\ s + 1 <= now
        BY <1>1, <2>1, <3>2, GateAssumption DEF Instant
      <4>2. Since(c, s + 1)' = Since(c, s + 1) + 1
        BY <2>0, <4>1
      <4> QED
        BY <1>2, <2>3, <3>1, <4>2
    <3>3. CASE s = now
      <4>1. Since(c, s + 1)' = 0
        BY <1>1, <1>6, <3>3
      <4> QED
        BY <1>2, <2>1, <3>1, <4>1
    <3> QED
      BY <1>1, <2>1, <3>2, <3>3
  <2>6. ASSUME NEW t \in Instant, t + Window > s PROVE Since(c, t)' <= Since(c, s)' + Limit - 1
    <3>1. Since(c, t) <= Since(c, s) + Limit - 1
      BY <2>3, <2>6
    <3>2. Since(c, s)' = Since(c, s) + 1
      BY <2>0, <2>1
    <3>3. Since(c, t)' = Since(c, t) + 1 \/ Since(c, t)' = Since(c, t)
      BY <1>2, <2>0
    <3> QED
      BY <1>1, <1>2, <3>1, <3>2, <3>3
  <2> QED
    <3>1. Since(c, s)' = Since(c, hits[c].start)' /\ Since(c, s + 1)' = Since(c, hits[c].start + 1)'
      BY <2>2 DEF Since
    <3> QED
      BY <2>2, <2>4, <2>5, <2>6, <3>1 DEF Kept, NoneOpen, Open
<1> QED
  BY <1>3, <1>4, <1>5, Attempts, <1>1

(* A client's attempt leaves every stretch within twice the limit: what it *)
(* adds to falls in the open window and the Window instants before it.     *)
LEMMA AttemptBounded ==
  ASSUME BehindTheProxy, GateInv, NEW c \in Client, Attempt(c)
  PROVE  TwiceAtMost'
<1> SUFFICES ASSUME NEW d \in Client, NEW t \in Instant
             PROVE  AdmittedIn(d, t..(t + Window - 1))' <= 2 * Limit - 1
  BY DEF TwiceAtMost
<1> DEFINE I == t..(t + Window - 1)
<1>1. /\ now' = now /\ now \in Nat /\ \A u \in Instant : u \in Nat
      /\ GateTypes /\ GateTypes'
      /\ Limit \in Nat \ {0} /\ Window \in Nat \ {0}
  BY Attempts, AttemptTypes, GateAssumption DEF GateInv, GateTypes, Instant
<1>2. /\ admitted[d] \in Seq(Instant) /\ admitted'[d] \in Seq(Instant)
      /\ Count(admitted[d], I) \in Nat /\ Count(admitted'[d], I) \in Nat
      /\ Since(d, t) \in Nat /\ Since(d, t)' \in Nat
  BY <1>1, Counted DEF GateTypes, Since
<1>3. Count(admitted[d], I) <= 2 * Limit - 1
  BY DEF GateInv, TwiceAtMost, AdmittedIn, Count
<1>4. SUFFICES Count(admitted'[d], I) <= 2 * Limit - 1
  BY DEF AdmittedIn, Count
<1>5. CASE admitted'[d] = admitted[d]
  BY <1>3, <1>5
<1>6. CASE admitted'[d] # admitted[d]
  <2>1. d = c /\ admitted' = [admitted EXCEPT ![c] = Append(@, now)]
    BY <1>1, <1>6, Attempts DEF GateTypes
  <2>2. CASE now \notin I
    <3>1. Count(admitted'[d], I) = Count(admitted[d], I)
      BY <1>1, <1>2, <2>1, <2>2, CountsOne DEF GateTypes
    <3> QED
      BY <1>3, <3>1
  <2>3. CASE now \in I
    <3>1. t <= now /\ t + Window > now
      BY <1>1, <2>3
    <3>2. \A i \in DOMAIN admitted'[d] : admitted'[d][i] \in I => admitted'[d][i] \in From(t)
      <4>1. ASSUME NEW i \in DOMAIN admitted'[d], admitted'[d][i] \in I PROVE admitted'[d][i] \in From(t)
        <5>1. admitted'[d][i] \in Instant
          BY <1>2, <4>1
        <5> QED
          BY <1>1, <4>1, <5>1 DEF From
      <4> QED
        BY <4>1
    <3>3. Count(admitted'[d], I) <= Since(d, t)'
      BY <1>2, <3>2, CountsMore DEF Since
    <3>4. Since(d, t)' = Since(d, t) + 1
      BY <1>1, <2>1, <3>1, OneMore
    <3>5. CASE Fresh(c)
      <4>1. Since(d, t) <= Limit - 1
        BY <2>1, <3>1, <3>5 DEF GateInv, Kept, NoneOpen
      <4> QED
        BY <1>1, <1>2, <3>3, <3>4, <4>1
    <3>6. CASE ~Fresh(c)
      <4>1. /\ hits[c].count + 1 <= Limit /\ hits[c] \in Hit /\ hits[c].start <= now
        <5>1. hits[c].count < Limit
          BY <1>1, <1>6, <3>6, Attempts
        <5>2. hits[c] \in Hit /\ hits[c].start <= now
          BY <1>1, <3>6 DEF GateTypes, IsTable, Fresh
        <5> QED
          BY <1>1, <5>1, <5>2 DEF Hit
      <4>2. hits[c].count = Since(c, hits[c].start) /\ Since(c, hits[c].start) \in Nat
        BY <1>1, <3>6, Counted DEF GateInv, Kept, Open, Since, GateTypes
      <4>3. t + Window > hits[c].start
        BY <1>1, <3>1, <4>1 DEF Hit
      <4>4. Since(d, t) <= Since(c, hits[c].start) + Limit - 1
        BY <2>1, <3>6, <4>3 DEF GateInv, Kept, Open
      <4> QED
        BY <1>1, <1>2, <3>3, <3>4, <4>1, <4>2, <4>4
    <3> QED
      BY <3>5, <3>6
  <2> QED
    BY <2>2, <2>3
<1> QED
  BY <1>5, <1>6

LEMMA GateSteps ==
  ASSUME BehindTheProxy, GateInv, [GateNext]_vars
  PROVE  GateInv'
<1>1. CASE Tick
  BY <1>1, TickKeeps
<1>2. ASSUME NEW c \in Client, Attempt(c) PROVE GateInv'
  <2>1. GateTypes' /\ TwiceAtMost'
    BY <1>2, AttemptTypes, AttemptBounded DEF GateInv
  <2>2. ASSUME NEW d \in Client PROVE Kept(d)'
    <3>1. CASE d = c
      BY <1>2, <3>1, HisKept
    <3>2. CASE d # c
      BY <1>2, <3>2, OthersKept
    <3> QED
      BY <3>1, <3>2
  <2> QED
    BY <2>1, <2>2 DEF GateInv
<1>3. CASE UNCHANGED vars
  BY <1>3 DEF vars, GateInv, GateTypes, Kept, NoneOpen, Open, Since, Fresh, Expired, TwiceAtMost, AdmittedIn
<1> QED
  BY <1>1, <1>2, <1>3 DEF GateNext

-----------------------------------------------------------------------------
(***************************************************************************)
(* Behind the trusted proxy, over any stretch as long as the window a      *)
(* client gets through fewer than twice the limit, for any clients, limit, *)
(* window and sweep threshold (ratelimit.Allow, clientip.FromRequest).     *)
(***************************************************************************)
THEOREM TwiceIsTheMost == BehindTheProxy => (GateSpec => []TwiceAtMost)
<1> SUFFICES ASSUME BehindTheProxy PROVE GateSpec => []TwiceAtMost
  OBVIOUS
<1>1. GateInit => GateInv
  BY GateStarts
<1>2. GateInv /\ [GateNext]_vars => GateInv'
  BY GateSteps
<1>3. GateInv => TwiceAtMost
  BY DEF GateInv
<1> QED
  BY <1>1, <1>2, <1>3, PTL DEF GateSpec

(* A refusal means an open window and the limit used up in it.             *)
LEMMA Spent ==
  ASSUME BehindTheProxy, GateInv
  PROVE  RefusedOnlyWhenSpent
<1> SUFFICES ASSUME NEW c \in Client, NEW req \in RequestsOf(c), Refused(FromRequest(req))
             PROVE  AdmittedIn(c, {t \in Instant : now - t < Window /\ t <= now}) >= Limit
  BY DEF RefusedOnlyWhenSpent
<1> DEFINE Recently == {t \in Instant : now - t < Window /\ t <= now}
<1>1. Refused(c)
  BY HisOwn
<1>2. /\ ~Fresh(c) /\ c \in DOMAIN hits /\ hits[c].count >= Limit
      /\ now - hits[c].start < Window
  BY <1>1, GateAssumption DEF Refused, Fresh, Expired, GateInv, GateTypes, IsTable, Hit, Instant
<1>3. /\ hits[c] \in Hit /\ hits[c].start <= now /\ now \in Nat /\ \A u \in Instant : u \in Nat
      /\ admitted[c] \in Seq(Instant) /\ Limit \in Nat /\ Window \in Nat
  BY <1>2, GateAssumption DEF GateInv, GateTypes, IsTable, Instant
<1>4. hits[c].count = Count(admitted[c], From(hits[c].start))
  BY <1>2 DEF GateInv, Kept, Open, Since
<1>5. ASSUME NEW i \in DOMAIN admitted[c], admitted[c][i] \in From(hits[c].start)
      PROVE  admitted[c][i] \in Recently
  <2>1. admitted[c][i] \in Instant /\ admitted[c][i] <= now
    BY <1>3, <1>5 DEF GateInv, GateTypes
  <2>2. admitted[c][i] >= hits[c].start
    BY <1>5 DEF From
  <2> QED
    BY <1>2, <1>3, <2>1, <2>2 DEF Hit
<1>6. Count(admitted[c], From(hits[c].start)) <= Count(admitted[c], Recently)
  BY <1>3, <1>5, CountsMore
<1>7. Count(admitted[c], Recently) \in Nat
  BY <1>3, Counted
<1> QED
  <2>1. AdmittedIn(c, Recently) = Count(admitted[c], Recently)
    BY DEF AdmittedIn, Count
  <2>2. hits[c].count \in Nat
    BY <1>3 DEF Hit
  <2>3. Count(admitted[c], Recently) >= Limit
    BY <1>2, <1>3, <1>4, <1>6, <1>7, <2>2
  <2> QED
    BY <2>1, <2>3

(***************************************************************************)
(* Behind the trusted proxy a client is refused only when he himself used  *)
(* up the limit within the last window, whatever others do and whatever    *)
(* hops are forged (ratelimit.Allow, clientip.FromRequest).                *)
(***************************************************************************)
THEOREM SpentBeforeRefused == BehindTheProxy => (GateSpec => []RefusedOnlyWhenSpent)
<1> SUFFICES ASSUME BehindTheProxy PROVE GateSpec => []RefusedOnlyWhenSpent
  OBVIOUS
<1>1. GateInit => GateInv
  BY GateStarts
<1>2. GateInv /\ [GateNext]_vars => GateInv'
  BY GateSteps
<1>3. GateInv => RefusedOnlyWhenSpent
  BY Spent
<1> QED
  BY <1>1, <1>2, <1>3, PTL DEF GateSpec
=============================================================================
