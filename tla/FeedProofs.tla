----------------------------- MODULE FeedProofs -----------------------------
(* Proofs about Feed, for any number of events and editors and any clock.  *)
EXTENDS Feed, FiniteSetTheorems, WellFoundedInduction, TLAPS

(***************************************************************************)
(* A nonempty set of naturals with a bound has a greatest element.         *)
(***************************************************************************)
LEMMA Greatest ==
  ASSUME NEW b \in Nat, NEW S \in SUBSET (0..b), S # {}
  PROVE  \E x \in S : \A y \in S : x >= y
<1> DEFINE less == OpToRel(<, Nat)
           room == {b - x : x \in S}
<1>1. \A x, y \in Nat : x < y => <<x, y>> \in less
  BY DEF OpToRel
<1>2. IsWellFoundedOn(less, Nat)
  BY NatLessThanWellFounded
<1> HIDE DEF less
<1>3. room \subseteq Nat /\ room # {}
  <2>1. \A x \in S : b - x \in Nat
    OBVIOUS
  <2>2. PICK x \in S : TRUE
    OBVIOUS
  <2> QED
    BY <2>1, <2>2
<1> HIDE DEF room
<1>4. PICK r \in room : \A y \in room : ~ (<<y, r>> \in less)
  BY <1>2, <1>3, WFMin
<1>5. PICK x \in S : r = b - x
  BY <1>4 DEF room
<1>6. ASSUME NEW y \in S PROVE x >= y
  <2>1. b - y \in room /\ b - y \in Nat /\ r \in Nat
    BY <1>3, <1>4 DEF room
  <2>2. ~ (b - y < r)
    BY <2>1, <1>4, <1>1
  <2> QED
    BY <2>2, <1>5
<1> QED
  BY <1>6

(***************************************************************************)
(* The latest stamp of the listed events bounds them all and is one of     *)
(* them, or 0 (icsHandler).                                                *)
(***************************************************************************)
LEMMA LatestIs ==
  ASSUME FeedTypeOK
  PROVE  /\ Latest \in 0..MaxTime
         /\ \A e \in Listed : events[e].updated <= Latest
         /\ Latest = 0 \/ \E e \in Listed : Latest = events[e].updated
<1> DEFINE stamps == {0} \cup {events[e].updated : e \in Listed}
<1>1. MaxTime \in Nat
  BY FeedAssumption
<1>2. \A e \in Listed : events[e].updated \in 0..MaxTime
  BY <1>1 DEF FeedTypeOK, IsTable, Listed, EventRow, Second
<1>3. stamps \in SUBSET (0..MaxTime) /\ stamps # {}
  BY <1>1, <1>2
<1>4. \A x \in stamps : x = 0 \/ \E e \in Listed : x = events[e].updated
  OBVIOUS
<1>5. \A e \in Listed : events[e].updated \in stamps
  OBVIOUS
<1>6. Latest = CHOOSE x \in stamps : \A y \in stamps : x >= y
  BY DEF Latest, Max
<1> HIDE DEF stamps
<1>7. \E x \in stamps : \A y \in stamps : x >= y
  BY <1>1, <1>3, Greatest
<1>8. Latest \in stamps /\ \A y \in stamps : Latest >= y
  BY <1>6, <1>7
<1> QED
  BY <1>2, <1>3, <1>4, <1>5, <1>8

(***************************************************************************)
(* What a download stores is well typed.                                   *)
(***************************************************************************)
LEMMA DownloadTyped ==
  ASSUME FeedTypeOK
  PROVE  /\ Listed \subseteq Event
         /\ Cardinality(Listed) \in 0..Cardinality(Event) /\ IsFiniteSet(Listed)
         /\ CurrentETag \in ETag
         /\ \E D \in SUBSET Event : Body \in [D -> [text : Text, cancelled : BOOLEAN]]
<1>1. Listed \subseteq Event
  BY DEF FeedTypeOK, IsTable, Listed
<1>2. IsFiniteSet(Listed) /\ Cardinality(Listed) \in 0..Cardinality(Event)
  BY <1>1, FeedAssumption, FS_Subset, FS_CardinalityType
<1>3. CurrentETag \in ETag
  BY <1>2, LatestIs DEF CurrentETag, ETag
<1>4. Body \in [Listed -> [text : Text, cancelled : BOOLEAN]]
  <2>1. \A e \in Listed : events[e] \in EventRow
    BY DEF FeedTypeOK, IsTable, Listed
  <2>2. \A e \in Listed : [text |-> events[e].text, cancelled |-> events[e].off # "no"]
                           \in [text : Text, cancelled : BOOLEAN]
    BY <2>1 DEF EventRow
  <2> QED
    BY <2>2 DEF Body
<1> QED
  BY <1>1, <1>2, <1>3, <1>4

(***************************************************************************)
(* A commit writes one row, stamped with the start of its transaction, or  *)
(* removes one (UpdateEvent, PublishEvent, UnpublishEvent, DeleteEvent).   *)
(***************************************************************************)
LEMMA CommitWrites ==
  ASSUME FeedTypeOK, NEW i \in Editor, Commit(i)
  PROVE  \E e \in Event : \/ \E row \in EventRow : /\ row.updated = open[i]
                                                   /\ events' = Put(events, e, row)
                          \/ events' = Without(events, e)
<1>1. open[i] \in Second
  BY DEF FeedTypeOK, IsTable, Commit
<1>2. \A row \in EventRow : SetUpdatedAt(row, i) \in EventRow
                           /\ SetUpdatedAt(row, i).updated = open[i]
  BY <1>1 DEF SetUpdatedAt, EventRow
<1>3. PICK e \in Event :
        \/ \E text \in Text, public \in BOOLEAN, when \in Planned :
             UpdateEvent(i, e, text, public, when)
        \/ PublishEvent(i, e) \/ UnpublishEvent(i, e) \/ DeleteEvent(i, e)
  BY DEF Commit
<1>4. e \in DOMAIN events => events[e] \in EventRow
  BY DEF FeedTypeOK, IsTable
<1>5. ASSUME NEW text \in Text, NEW public \in BOOLEAN, NEW when \in Planned,
             UpdateEvent(i, e, text, public, when)
      PROVE  \E row \in EventRow : row.updated = open[i] /\ events' = Put(events, e, row)
  <2>1. [events[e] EXCEPT !.text = text, !.public = public, !.when = when] \in EventRow
    BY <1>4, <1>5 DEF UpdateEvent, EventRow, Planned
  <2> QED
    BY <1>2, <1>5, <2>1 DEF UpdateEvent, Write
<1>6. CASE PublishEvent(i, e)
  <2>1. [events[e] EXCEPT !.published = TRUE, !.off = "no"] \in EventRow
    BY <1>4, <1>6 DEF PublishEvent, EventRow
  <2> QED
    BY <1>2, <1>6, <2>1 DEF PublishEvent, Write
<1>7. CASE UnpublishEvent(i, e)
  <2>1. [events[e] EXCEPT !.published = FALSE] \in EventRow
    BY <1>4, <1>7 DEF UnpublishEvent, EventRow
  <2> QED
    BY <1>2, <1>7, <2>1 DEF UnpublishEvent, Write
<1>8. CASE DeleteEvent(i, e)
  <2>1. e \in DOMAIN events => [events[e] EXCEPT !.off = "recent"] \in EventRow
    BY <1>4 DEF EventRow
  <2> QED
    BY <1>2, <1>8, <2>1 DEF DeleteEvent, Write
<1> QED
  BY <1>3, <1>5, <1>6, <1>7, <1>8

(***************************************************************************)
(* The rows after a Put or a Without are rows.                             *)
(***************************************************************************)
LEMMA TableSteps ==
  ASSUME NEW Id, NEW Rows, NEW table, IsTable(table, Id, Rows), NEW id \in Id
  PROVE  /\ \A row \in Rows : IsTable(Put(table, id, row), Id, Rows)
         /\ IsTable(Without(table, id), Id, Rows)
  BY DEF IsTable, Put, Without

(***************************************************************************)
(* Every step of editors, clock, window and phone keeps the types.         *)
(***************************************************************************)
LEMMA FeedTypeStep == FeedTypeOK /\ [FeedNext]_vars => FeedTypeOK'
<1> SUFFICES ASSUME FeedTypeOK, [FeedNext]_vars PROVE FeedTypeOK'
  OBVIOUS
<1>0. /\ now \in Second /\ IsTable(events, Event, EventRow) /\ IsTable(open, Editor, Second)
      /\ phone \in Phone /\ MaxTime \in Nat
  BY FeedAssumption DEF FeedTypeOK
<1>a. ASSUME NEW b \in BOOLEAN, phone' = [phone EXCEPT !.excused = b] PROVE phone' \in Phone
  BY <1>0, <1>a DEF Phone
<1>1. CASE Tick
  BY <1>0, <1>1 DEF Tick, FeedTypeOK, Second
<1>2. ASSUME NEW i \in Editor, Begin(i) PROVE FeedTypeOK'
  BY <1>0, <1>2, TableSteps DEF Begin, FeedTypeOK
<1>3. ASSUME NEW i \in Editor, Commit(i) PROVE FeedTypeOK'
  <2>1. IsTable(events, Event, EventRow)'
    BY <1>0, <1>3, CommitWrites, TableSteps
  <2>2. IsTable(open, Editor, Second)'
    BY <1>0, <1>3, TableSteps DEF Commit
  <2>3. phone.excused \in BOOLEAN
    BY <1>0 DEF Phone
  <2>4. phone' = [phone EXCEPT !.excused = phone.excused \/ open[i] <= phone.fetched]
    BY <1>3 DEF Commit
  <2>5. (phone.excused \/ open[i] <= phone.fetched) \in BOOLEAN
    BY <2>3
  <2>6. phone' \in Phone
    BY <1>a, <2>4, <2>5
  <2> QED
    BY <1>0, <1>3, <2>1, <2>2, <2>6 DEF Commit, FeedTypeOK
<1>4. ASSUME NEW i \in Editor, Rollback(i) PROVE FeedTypeOK'
  BY <1>0, <1>4, TableSteps DEF Rollback, FeedTypeOK
<1>5. ASSUME NEW e \in Event, NEW text \in Text, NEW public \in BOOLEAN, NEW when \in Planned,
             CreateEvent(e, text, public, when)
      PROVE  FeedTypeOK'
  <2>1. [text |-> text, public |-> public, when |-> when, published |-> FALSE,
         off |-> "no", updated |-> now] \in EventRow
    BY <1>0 DEF EventRow, Planned
  <2> QED
    BY <1>0, <1>5, <2>1, TableSteps DEF CreateEvent, Write, FeedTypeOK
<1>6. ASSUME NEW e \in Event, WindowMoves(e) PROVE FeedTypeOK'
  <2>1. e \in DOMAIN events /\ \A d \in DOMAIN events : events[d] \in EventRow
    BY <1>0, <1>6 DEF WindowMoves, IsTable
  <2>2. PICK row \in EventRow : events' = [events EXCEPT ![e] = row]
    <3>1. CASE events' = [events EXCEPT ![e].when = Grows(@)]
      <4>1. [events[e] EXCEPT !.when = Grows(@)] \in EventRow
        BY <2>1 DEF EventRow, Grows
      <4> QED
        BY <3>1, <4>1
    <3>2. CASE events' = [events EXCEPT ![e].off = "old"]
      <4>1. [events[e] EXCEPT !.off = "old"] \in EventRow
        BY <2>1 DEF EventRow
      <4> QED
        BY <3>2, <4>1
    <3> QED
      BY <1>6, <3>1, <3>2 DEF WindowMoves
  <2>3. IsTable(events, Event, EventRow)'
    BY <1>0, <2>1, <2>2 DEF IsTable
  <2> QED
    BY <1>0, <1>a, <1>6, <2>3 DEF WindowMoves, FeedTypeOK
<1>7. CASE Download
  <2> DEFINE fresh == [copy |-> Body, etag |-> CurrentETag, fetched |-> now, excused |-> FALSE]
  <2>1. PICK D \in SUBSET Event : Body \in [D -> [text : Text, cancelled : BOOLEAN]]
    BY DownloadTyped
  <2>2. Body \in UNION {[E -> [text : Text, cancelled : BOOLEAN]] : E \in SUBSET Event}
    BY <2>1
  <2>3. CurrentETag \in ETag /\ now \in 0..MaxTime
    BY <1>0, DownloadTyped DEF Second
  <2>4. fresh \in Phone
    BY <2>2, <2>3 DEF Phone
  <2> QED
    BY <1>0, <1>7, <2>4 DEF Download, FeedTypeOK
<1>8. CASE UNCHANGED vars
  BY <1>0, <1>8 DEF vars, FeedTypeOK
<1> QED
  BY <1>1, <1>2, <1>3, <1>4, <1>5, <1>6, <1>7, <1>8 DEF FeedNext, NotModified

LEMMA FeedTypeInit == FeedInit => FeedTypeOK
<1> SUFFICES ASSUME FeedInit PROVE FeedTypeOK
  OBVIOUS
<1>1. NoRows = [x \in {} |-> x] /\ DOMAIN NoRows = {}
  BY DEF NoRows
<1>2. IsTable(NoRows, Event, EventRow) /\ IsTable(NoRows, Editor, Second)
  BY <1>1 DEF IsTable
<1>3. {} \in SUBSET Event /\ NoRows \in [{} -> [text : Text, cancelled : BOOLEAN]]
  BY <1>1
<1>4. NoRows \in UNION {[D -> [text : Text, cancelled : BOOLEAN]] : D \in SUBSET Event}
  BY <1>3
<1>5. NoETag \in ETag
  BY FeedAssumption, FS_CardinalityType DEF NoETag, ETag
<1>6. 1 \in Second /\ 0 \in 0..MaxTime
  BY FeedAssumption DEF Second
<1> QED
  BY <1>2, <1>4, <1>5, <1>6 DEF FeedInit, FeedTypeOK, Phone

(***************************************************************************)
(* The events table, the open transactions and the phone keep their types. *)
(***************************************************************************)
THEOREM FeedTypeCorrect == FeedSpec => []FeedTypeOK
  BY FeedTypeInit, FeedTypeStep, PTL DEF FeedSpec

-----------------------------------------------------------------------------
(***************************************************************************)
(* The inductive invariant.  No stamp is in the future; the ETag the phone *)
(* sends is of its copy; and a listed event it does not show as it is has  *)
(* been stamped after the download.                                        *)
(***************************************************************************)
StampsArePast ==
  /\ phone.fetched <= now
  /\ \A i \in DOMAIN open : open[i] <= now
  /\ \A e \in DOMAIN events : events[e].updated <= now

ETagIsOfTheCopy ==
  phone.etag.latest <= phone.fetched /\ phone.etag.count = Cardinality(DOMAIN phone.copy)

ShownOrNewer ==
  phone.fetched # 0 /\ ~phone.excused =>
    \A e \in Listed : \/ events[e].updated > phone.fetched
                      \/ e \in DOMAIN phone.copy /\ phone.copy[e] = Body[e]

FeedInv == FeedTypeOK /\ StampsArePast /\ ETagIsOfTheCopy /\ ShownOrNewer

(***************************************************************************)
(* The invariant makes a matching ETag a true one: no listed event has a   *)
(* newer stamp, so the copy shows them all, and as many as it holds.       *)
(***************************************************************************)
LEMMA MatchIsTrue == FeedInv => NotModifiedIsTrue
<1> SUFFICES ASSUME FeedInv, Known, ~phone.excused PROVE phone.copy = Body
  BY DEF NotModifiedIsTrue
<1>0. FeedTypeOK
  BY DEF FeedInv
<1>1. phone.etag.latest = Latest /\ phone.etag.count = Cardinality(Listed) /\ phone.fetched # 0
  BY DEF Known, CurrentETag
<1>2. PICK D \in SUBSET Event : phone.copy \in [D -> [text : Text, cancelled : BOOLEAN]]
  BY <1>0 DEF FeedTypeOK, Phone
<1>3. \A e \in Listed : e \in DOMAIN phone.copy /\ phone.copy[e] = Body[e]
  <2> SUFFICES ASSUME NEW e \in Listed PROVE e \in DOMAIN phone.copy /\ phone.copy[e] = Body[e]
    OBVIOUS
  <2>1. events[e].updated <= Latest /\ Latest \in 0..MaxTime /\ MaxTime \in Nat
    BY <1>0, LatestIs, FeedAssumption
  <2>2. events[e].updated \in Nat /\ phone.fetched \in Nat
    BY <1>0, <2>1 DEF FeedTypeOK, IsTable, Listed, EventRow, Second, Phone
  <2>3. Latest <= phone.fetched
    BY <1>1 DEF FeedInv, ETagIsOfTheCopy
  <2>4. ~ (events[e].updated > phone.fetched)
    BY <2>1, <2>2, <2>3
  <2> QED
    BY <1>1, <2>4 DEF FeedInv, ShownOrNewer
<1>4. DOMAIN phone.copy = Listed
  <2>1. IsFiniteSet(D) /\ DOMAIN phone.copy = D /\ Listed \in SUBSET D
    BY <1>2, <1>3, FeedAssumption, FS_Subset
  <2>2. Cardinality(D) = Cardinality(Listed)
    BY <1>1, <2>1 DEF FeedInv, ETagIsOfTheCopy
  <2> QED
    BY <2>1, <2>2, FS_Subset
<1>5. DOMAIN Body = Listed
  BY DEF Body
<1>6. phone.copy = [e \in Listed |-> phone.copy[e]] /\ Body = [e \in Listed |-> Body[e]]
  BY <1>2, <1>4, <1>5 DEF Body
<1> QED
  BY <1>3, <1>6

(***************************************************************************)
(* A row written with a stamp after the download cannot be a stale one,    *)
(* and what happens to a row changes nothing in the others.                *)
(***************************************************************************)
LEMMA WriteShows ==
  ASSUME FeedInv, phone' = phone \/ phone' = [phone EXCEPT !.excused = FALSE],
         ~phone'.excused => ~phone.excused,
         NEW e \in Event,
         \/ \E row \in EventRow : /\ events' = Put(events, e, row)
                                  /\ row.updated > phone.fetched \/ ~row.published
         \/ events' = Without(events, e)
  PROVE  ShownOrNewer'
<1> SUFFICES ASSUME phone'.fetched # 0, ~phone'.excused, NEW d \in Listed'
             PROVE  \/ events'[d].updated > phone'.fetched
                    \/ d \in DOMAIN phone'.copy /\ phone'.copy[d] = Body'[d]
  BY DEF ShownOrNewer
<1>1. phone'.fetched = phone.fetched /\ phone'.copy = phone.copy
  BY DEF FeedInv, FeedTypeOK, Phone
<1>2. Body'[d] = [text |-> events'[d].text, cancelled |-> events'[d].off # "no"]
  BY DEF Body
<1>3. CASE d = e
  BY <1>1, <1>3 DEF Put, Without, Listed
<1>4. CASE d # e
  <2>1. events'[d] = events[d] /\ d \in DOMAIN events
    BY <1>4 DEF Put, Without, Listed
  <2>2. d \in Listed
    BY <2>1 DEF Listed
  <2>3. Body[d] = Body'[d]
    BY <1>2, <2>1, <2>2 DEF Body
  <2> QED
    BY <1>1, <2>1, <2>2, <2>3 DEF FeedInv, ShownOrNewer
<1> QED
  BY <1>3, <1>4

(***************************************************************************)
(* Every step keeps the invariant.                                         *)
(***************************************************************************)
LEMMA FeedInvStep == FeedInv /\ [FeedNext]_vars => FeedInv'
<1> SUFFICES ASSUME FeedInv, [FeedNext]_vars PROVE FeedInv'
  OBVIOUS
<1>0. /\ FeedTypeOK /\ FeedTypeOK' /\ StampsArePast /\ ETagIsOfTheCopy /\ ShownOrNewer
  BY FeedTypeStep DEF FeedInv
<1>a. /\ now \in Nat /\ now \in Second /\ MaxTime \in Nat /\ phone.fetched \in Nat
      /\ phone \in Phone /\ \A i \in DOMAIN open : open[i] \in Nat
      /\ \A e \in DOMAIN events : events[e] \in EventRow /\ events[e].updated \in Nat
  BY <1>0, FeedAssumption DEF FeedTypeOK, IsTable, EventRow, Second, Phone
<1>b. ASSUME UNCHANGED <<events, phone>> PROVE ShownOrNewer' /\ ETagIsOfTheCopy'
  BY <1>0, <1>b DEF ShownOrNewer, ETagIsOfTheCopy, Listed, Body
<1>c. ASSUME NEW b \in BOOLEAN, phone' = [phone EXCEPT !.excused = b]
      PROVE  /\ ETagIsOfTheCopy' /\ phone'.fetched = phone.fetched
             /\ phone'.copy = phone.copy /\ phone'.excused = b
  BY <1>0, <1>a, <1>c DEF ETagIsOfTheCopy, Phone
<1>1. CASE Tick
  BY <1>0, <1>1, <1>a, <1>b DEF Tick, FeedInv, StampsArePast
<1>2. ASSUME NEW i \in Editor, Begin(i) PROVE FeedInv'
  BY <1>0, <1>2, <1>a, <1>b DEF Begin, FeedInv, StampsArePast, Put
<1>3. ASSUME NEW i \in Editor, Commit(i) PROVE FeedInv'
  <2> DEFINE b == phone.excused \/ open[i] <= phone.fetched
  <2>1. phone' = [phone EXCEPT !.excused = b] /\ now' = now /\ i \in DOMAIN open
        /\ open' = Without(open, i)
    BY <1>3 DEF Commit
  <2>2. b \in BOOLEAN /\ phone.excused \in BOOLEAN
    BY <1>a DEF Phone
  <2> HIDE DEF b
  <2>3. ETagIsOfTheCopy' /\ phone'.fetched = phone.fetched /\ phone'.copy = phone.copy
        /\ phone'.excused = b
    BY <1>c, <2>1, <2>2
  <2>4. PICK e \in Event : \/ \E row \in EventRow : /\ row.updated = open[i]
                                                    /\ events' = Put(events, e, row)
                           \/ events' = Without(events, e)
    BY <1>0, <1>3, CommitWrites
  <2>5. StampsArePast'
    BY <1>0, <1>a, <2>1, <2>3, <2>4 DEF StampsArePast, Put, Without
  <2>6. ShownOrNewer'
    <3>1. CASE b
      BY <2>3, <3>1 DEF ShownOrNewer
    <3>2. CASE ~b
      <4>1. open[i] > phone.fetched /\ ~phone.excused
        BY <1>a, <2>1, <3>2 DEF b
      <4>2. phone' = [phone EXCEPT !.excused = FALSE]
        BY <2>1, <2>2, <3>2
      <4> QED
        BY <2>4, <4>1, <4>2, WriteShows
    <3> QED
      BY <3>1, <3>2
  <2> QED
    BY <1>0, <2>3, <2>5, <2>6 DEF FeedInv
<1>4. ASSUME NEW i \in Editor, Rollback(i) PROVE FeedInv'
  BY <1>0, <1>4, <1>a, <1>b DEF Rollback, FeedInv, StampsArePast, Without
<1>5. ASSUME NEW e \in Event, NEW text \in Text, NEW public \in BOOLEAN, NEW when \in Planned,
             CreateEvent(e, text, public, when)
      PROVE  FeedInv'
  <2> DEFINE row == [text |-> text, public |-> public, when |-> when, published |-> FALSE,
                     off |-> "no", updated |-> now]
  <2>1. row \in EventRow /\ row.updated = now /\ ~row.published
    BY <1>a DEF EventRow, Planned
  <2>2. events' = Put(events, e, row) /\ phone' = phone /\ now' = now /\ open' = open
    BY <1>5 DEF CreateEvent, Write
  <2> HIDE DEF row
  <2>3. StampsArePast'
    BY <1>0, <1>a, <2>1, <2>2 DEF StampsArePast, Put
  <2>4. ETagIsOfTheCopy'
    BY <1>0, <2>2 DEF ETagIsOfTheCopy
  <2>5. ShownOrNewer'
    BY <2>1, <2>2, WriteShows
  <2> QED
    BY <1>0, <2>3, <2>4, <2>5 DEF FeedInv
<1>6. ASSUME NEW e \in Event, WindowMoves(e) PROVE FeedInv'
  <2>1. phone' = [phone EXCEPT !.excused = TRUE] /\ UNCHANGED <<now, open>>
    BY <1>6 DEF WindowMoves
  <2>2. ETagIsOfTheCopy' /\ phone'.fetched = phone.fetched /\ phone'.excused
    BY <1>c, <2>1
  <2>3. DOMAIN events' = DOMAIN events /\ \A d \in DOMAIN events : events'[d].updated = events[d].updated
    BY <1>6, <1>a DEF WindowMoves, EventRow
  <2> QED
    BY <1>0, <2>1, <2>2, <2>3 DEF FeedInv, StampsArePast, ShownOrNewer
<1>7. CASE Download
  <2>1. /\ phone' = [copy |-> Body, etag |-> CurrentETag, fetched |-> now, excused |-> FALSE]
        /\ now' = now /\ events' = events /\ open' = open
    BY <1>7 DEF Download
  <2>2. StampsArePast'
    BY <1>0, <1>a, <2>1 DEF StampsArePast
  <2>3. Latest <= now
    <3>1. Latest = 0 \/ \E e \in Listed : Latest = events[e].updated
      BY <1>0, LatestIs
    <3> QED
      BY <1>0, <1>a, <3>1 DEF StampsArePast, Listed
  <2>4. ETagIsOfTheCopy'
    <3>1. DOMAIN Body = Listed
      BY DEF Body
    <3> QED
      BY <2>1, <2>3, <3>1 DEF ETagIsOfTheCopy, CurrentETag
  <2>5. Listed' = Listed /\ Body' = Body
    BY <2>1 DEF Listed, Body
  <2>6. ShownOrNewer'
    BY <2>1, <2>5 DEF ShownOrNewer, Body
  <2> QED
    BY <1>0, <2>2, <2>4, <2>6 DEF FeedInv
<1>8. CASE UNCHANGED vars
  BY <1>0, <1>8, <1>b DEF vars, FeedInv, StampsArePast
<1> QED
  BY <1>1, <1>2, <1>3, <1>4, <1>5, <1>6, <1>7, <1>8 DEF FeedNext, NotModified

(***************************************************************************)
(* For any number of events, editors and seconds: a phone that is answered *)
(* 304 holds the feed as it is, unless the ETag is known to miss what      *)
(* happened since its download (icsHandler, set_updated_at).               *)
(***************************************************************************)
THEOREM FeedIsTrue == FeedSpec => []NotModifiedIsTrue
<1>1. FeedInit => FeedInv
  <2> SUFFICES ASSUME FeedInit PROVE FeedInv
    OBVIOUS
  <2>1. DOMAIN NoRows = {}
    BY DEF NoRows
  <2>2. StampsArePast /\ ShownOrNewer
    BY <2>1 DEF FeedInit, StampsArePast, ShownOrNewer
  <2>3. ETagIsOfTheCopy
    BY <2>1, FS_EmptySet DEF FeedInit, ETagIsOfTheCopy, NoETag
  <2> QED
    BY <2>2, <2>3, FeedTypeInit DEF FeedInv
<1> QED
  BY <1>1, FeedInvStep, MatchIsTrue, PTL DEF FeedSpec
=============================================================================
