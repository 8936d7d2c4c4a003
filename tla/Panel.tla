------------------------------- MODULE Panel --------------------------------
(***************************************************************************)
(* The whole admin panel on one browser: its screens, the cache they share *)
(* and the office behind them.                                             *)
(***************************************************************************)
EXTENDS Desk, Entry, Avisos, Team

CONSTANT Opening  \* the scenes to begin from: page, office, and how much of the bounds is left

Page ==
  [at : {"login"}, error : BOOLEAN, sent : BOOLEAN]
  \cup [at : {"list"}, month : Months, back : {Nothing} \cup [id : Event, slot : Slot]]
  \cup [at : {"editor"}, id : {Nothing} \cup Event, form : {Nothing} \cup Form, error : BOOLEAN,
        ask : BOOLEAN, notify : BOOLEAN, fault : BOOLEAN, made : SUBSET Event, stumbled : BOOLEAN]
  \cup [at : {"difusion"}, editing : {Nothing, New} \cup Channel, form : {Nothing} \cup ChannelRow]
  \cup [at : {"equipo"}, inviting : BOOLEAN, editing : UNION {[S -> Role] : S \in SUBSET Person}]

\* A page just opened, or one that has loaded what its account may see.
Fresh(p) == /\ p \in Page
            /\ p.at = "list" => p.back = Nothing
            /\ p.at = "editor" => p.made = {}
            /\ p.at = "difusion" => p.editing = Nothing
Loadable(p, o) == /\ p.at # "login"
                  /\ p.at = "editor" => p.id \in {Nothing} \cup DOMAIN o.events
                  /\ p.at = "equipo" => o.team[Self].role = "parroco"

ASSUME OpeningAssumption ==
  \A o \in Opening :
    /\ Fresh(o.page) /\ IsOffice(o.office)
    /\ o.presses \in 0..MaxPresses /\ o.slips \in 0..MaxSlips
    /\ IF o.office.session /\ Self \in DOMAIN o.office.team /\ o.office.team[Self].active
       THEN Loadable(o.page, o.office)
       ELSE o.page.at = "editor" => o.page.form = Nothing

PanelInit == \E o \in Opening : BrowserInit(o.page, o.office, MaxPresses - o.presses, MaxSlips - o.slips)

PanelNext ==
  \/ Network \/ Meanwhile \/ Poll
  \/ DeskPress \/ DeskStep
  \/ EntryPress \/ EntryStep
  \/ AvisosPress \/ AvisosStep
  \/ TeamPress \/ TeamStep

Query == {MeQ, BroadcastsQ, ChannelsQ, UsersQ}
           \cup {EventsQ(m) : m \in Months} \cup {EventQ(e) : e \in Event}

\* Every request is answered, every answer is handled and the timer of the log
\* ticks.  Nobody has to press, and nothing is asked of the worker: a queued row
\* may have no task (an enqueue failed) and stay queued.
PanelFairness ==
  /\ \A q \in Query : WF_panelVars(Serve(q) \/ Arrive(q))
  /\ WF_panelVars(DeskStep \/ EntryStep \/ AvisosStep \/ TeamStep)
  /\ WF_panelVars(Poll)

PanelSpec == PanelInit /\ [][PanelNext]_panelVars /\ PanelFairness

-----------------------------------------------------------------------------
PanelTypeOK ==
  /\ OfficeTypeOK /\ page \in Page
  /\ DOMAIN cache \subseteq Query
  /\ \A q \in DOMAIN cache : cache[q].state \in InFlight \cup {"done", "failed"}
  /\ \A c \in calls : /\ c.op \in EventOps \cup EntryOps \cup AvisosOps \cup TeamOps
                       /\ c.from \in {"screen", "card", "left", "gone"}
                       /\ c.stage \in {"sent", "ok", "refused", "unauthorized"}
  /\ owed \subseteq {"Me", "Events", "Broadcasts", "Channels", "Users"}
  /\ aged \subseteq Query

(***************************************************************************)
(* Once nothing is under way, what the panel shows is what the server has, *)
(* but for what others changed since: the tags of api.ts name every query  *)
(* a mutation can make stale, in whatever order its requests, its polls    *)
(* and its mutations ended.  (Who one is, /auth/me, is read at the start.) *)
(***************************************************************************)
QuietIsFresh ==
  AtRest => \A q \in DOMAIN cache \ (aged \cup {MeQ}) :
              cache[q].state = "done" /\ Allowed(q) => cache[q].data = Read(q)

(***************************************************************************)
(* One visit of the new-event screen makes one event however often she     *)
(* presses its buttons, until an error invites her to press again.         *)
(***************************************************************************)
OneEventPerForm ==
  page.at = "editor" /\ Cardinality(page.made) > 1 => page.stumbled

(***************************************************************************)
(* The list opened after a save shows the event that was saved             *)
(* (EventoEditor.tsx: "returning to it blind after saving an event for a   *)
(* later month showed a list the event was not in").                       *)
(***************************************************************************)
SavedIsListed ==
  /\ page.at = "list" /\ page.back # Nothing
  /\ AtRest /\ ListShown /\ EventsQ(page.month) \notin aged
  /\ page.back.id \in DOMAIN events /\ events[page.back.id].slot = page.back.slot
  => \E v \in Listed : v.id = page.back.id

(***************************************************************************)
(* The login screen knows nothing of who was there before (api.ts:         *)
(* "nothing cached belongs to the next person to sign in on this           *)
(* browser"), and no request of theirs can still turn the page.            *)
(***************************************************************************)
LoginRemembersNothing ==
  page.at = "login" => /\ DOMAIN cache \subseteq {MeQ}
                       /\ \A c \in Held(calls) : c.op \in {"login", "magicLink"}

(***************************************************************************)
(* A delete confirmed on a screen that had nothing under way, and handled  *)
(* before anything else happened, takes an event off the calendar without  *)
(* a word only if the modal had said it was a draft or its box was cleared *)
(* (admin_events.go: "silently dropping an event the parish was already    *)
(* told about is the worse mistake").                                      *)
(***************************************************************************)
NoSilentDeletion ==
  [][\A e \in deleted' \ deleted, c \in calls :
       /\ c.op = "delete" /\ c.on = e /\ c.body.rest
       /\ others' = c.body.others0 /\ presses = c.n + 1
       /\ OnAir(events[e])
       => c.body.published /\ ~c.body.notify]_panelVars

(***************************************************************************)
(* What is being typed in the editor changes only when she types: no       *)
(* answer, refetch or error rewrites the form (it is seeded once).         *)
(***************************************************************************)
NothingTypedIsLost ==
  [][/\ page.at = "editor" /\ Here(page') = Here(page) /\ page.form # Nothing
     /\ page'.form # page.form
     => UNCHANGED <<officeVars, cache, calls>>]_panelVars

(***************************************************************************)
(* However requests, polls and mutations overlap, the panel comes to rest  *)
(* with every stale query asked again: invalidations are put off while     *)
(* something is under way, never for good.                                 *)
(***************************************************************************)
ComesToRest == []<>AtRest

(***************************************************************************)
(* A row that is no longer queued on the server does not stay queued on    *)
(* the screen: while it shows one, the page polls the log, whatever polls  *)
(* and mutations come between or fail, until she leaves it.                *)
(***************************************************************************)
ShownQueued(k) == page.at = "difusion" /\ k \in DOMAIN Log /\ Log[k] = "queued"
QueuedIsFollowed ==
  \A k \in Key : []<>(ShownQueued(k) => k \in DOMAIN rows /\ rows[k] = "queued")
=============================================================================
