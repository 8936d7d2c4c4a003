# Calendario Pastoral: verification project

TLA+ models of the parish calendar, the TLC runs that check them on small
instances, and TLAPS proofs of the results that matter most. Every definition
is translated from the source under `src/` (the file `PROJECT.json` gives, for
each definition, the lines it stands for).

1. [The system](#1-the-system)
2. [Modules](#2-modules)
3. [What each run checks, and its bounds](#3-what-each-run-checks-and-its-bounds)
4. [Fairness and deadlock](#4-fairness-and-deadlock)
5. [What is proved](#5-what-is-proved)
6. [What is only model-checked](#6-what-is-only-model-checked)
7. [Findings](#7-findings)
8. [Known behaviours](#8-known-behaviours)
9. [Abstractions, and what is not modelled](#9-abstractions-and-what-is-not-modelled)
10. [Plan](#10-plan)
11. [Running it](#11-running-it)

## 1. The system

Two Go processes (the API and the worker), PostgreSQL, Redis (asynq's queues and
the spent magic links) and an Astro site with React islands (the public
calendar and the admin panel).

| Component | State | Operations | Talks to |
|---|---|---|---|
| Events and outbox (`store/events_admin.go`, `events.go`, `outbox.go`) | tables `events`, `outbox` | create, update, publish, unpublish, delete, each one transaction with its outbox row | panel calls it; the relay reads the outbox |
| Difusión engine (`difusion/`, `store/broadcasts.go`, `cmd/worker`) | `outbox.processed_at`, `broadcasts`, asynq tasks | relay loop, fanout handler, deliver handler | outbox, channels, asynq, senders |
| Channels (`store/channels.go`) | table `channels` | create, update, delete | read by fanout and deliver |
| Broadcast panel (`http/admin_broadcasts.go`) | rows of `broadcasts` | list, manual retry | resets a row, enqueues a second task |
| Accounts and sessions (`auth/`, `http/auth.go`, `magiclink.go`, `admin_users.go`, `store/setup.go`, `sessions.go`, `users.go`) | tables `users`, `sessions`; Redis `magic:jti:*` | setup command, password login, magic link, logout, team management | gate before it, panel behind it |
| ICS feed (`ics/`, `http/ics.go`, `store/ics_query.go`, migration 00004) | `events.updated_at`; the copy and ETag a phone holds | conditional GET | reads what the panel commits |
| Gate (`ratelimit/`, `clientip/`) | in-memory map of windows | `Allow`, `FromRequest` | before login and magic link |
| Delivery schedule (`difusion/schedule.go`) | none, pure | `Stagger`, `NextAllowed` | called by the loop of `Fanout` |
| Public read API (`http/public.go`, `store/events.go`, `seasons.go`) | none of its own | events of a range, seasons of a year, groups | calendar island |
| Public calendar island (`islands/calendar/`, `lib/calendar.ts`) | held events, ranges asked for, seasons, view, anchor, picked day, sheet, filter | page, change view, pick, open, filter, effects that fetch | read API |
| Admin panel (`admin/`) | query cache, the page shown and its form, mutations under way | every button of its five screens, polling, the gates of its routes | admin API |
| Senders (`sender/`), passwords, start-up, deployment, static pages | see section 9 | | |

Paths are relative to `src/backend/internal` and `src/frontend/src`.

What is hard, and the property that answers for it:

- **The outbox is at-least-once.** Enqueueing in Redis and marking in PostgreSQL
  are not one transaction, several relays may run, and every handler may be
  replayed. Nothing may be lost (`NoAnnouncementLost`), nothing repeated
  (`HeardOnce`), the rows may change only as their readers expect
  (`KeepsTheLedger`: what is sent is final, only a failed row is reset), and the
  panel must not mislead who decides to press *retry* (`PanelTellsTheTruth`), as far as the code can know:
  an error of the sender is no proof that the message was not taken.
- **Corrections supersede each other, events come and go.** The outbox must tell
  the truth and read as a story (`LogTellsTheTruth`, `StoryIsCoherent`), and the
  skipping of superseded rows must not skip the last one (`CurrentIsAnnounced`).
- **A cancellation goes to who was told.** Nobody else hears it
  (`RetractionOnlyToTheTold`); who was told should (`RetractionArrives` and the
  finding about `ToldHearsTheRetraction`).
- **Channels change under deliveries** (`QueuedIsOnItsWay`, `OnlyItsGroupHears`).
- **A cached panel.** Mutations, refetches and polls overlap, and RTK Query puts an
  invalidation off while anything is under way: what is shown at rest is what the
  server has (`QuietIsFresh`), rest is reached (`ComesToRest`), a row that is no longer queued does not
  stay queued on the screen (`QueuedIsFollowed`), the list opened after a save shows
  what was saved (`SavedIsListed`).
- **Decisions on stale copies.** A delete without notice of an event that was
  announced (`NoSilentDeletion`), two events from one form (`OneEventPerForm`), a form
  rewritten by an answer (`NothingTypedIsLost`), what one person leaves for the next on the
  same browser (`LoginRemembersNothing`).
- **Access races**: replayed links (`LinkOpensOnce`), sessions inserted while the
  account is switched off (`NoSessionRevives`), párrocos who switch each other off
  (`LockedOutByOthersOnly`), two setup commands (`OnePasswordEach`).
- **A cache validator made of a timestamp and a count**: when does a 304 tell the
  truth (`NotModifiedIsTrue`).
- **The clock changes twice a year**: quiet hours on such nights
  (`DueAsSoonAsAllowed`, `Staggered`), and an event through the editor's form and back
  (`UntouchedStays`, `SavedAsTyped`).
- **Windows and boundaries**: fixed windows and the lazy sweep (`TwiceAtMost`,
  `RefusedOnlyWhenSpent`), half-open ranges and seasons over a turn of the year
  (`NothingMissing`, `TintedOnceBegun`), lanes and pixels of the week grid (`LanesFit`,
  `BoxesApart`), the two lines of a month's cell (`CellsHideTheLeast`).
- **Answers out of order** in the calendar (`HeldOnce`, `NothingMissing`).

`PROJECT.json` lists each of these under `hazards` at the line where it bites.
Two of them no property covers, with the reason: an older correction delivered after a newer one (`fanout.go:33`; the code does
not prevent it), and the seasons of two years whose answers cross (`Calendar.tsx:92`; the wrong year's colours stay). Others are
covered by a property that excuses the case in which the code does otherwise; the excuse is a conjunct of the property, the hazard's note names it, and section 8
says what happens then.

## 2. Modules

    Tables                        database tables as functions with a changing domain
      EventLog                    events and outbox        (abstract specification)
        Difusion                  engine, channels, retry button; conjoins LogNext
          MCDifusion              instances for TLC
        EventLogProofs            proofs about EventLog
          DifusionProofs          the engine's invariants; it implements EventLog and Ledger
      Ledger                      the broadcasts table as its readers know it (abstract
                                  specification); Difusion implements it (INSTANCE Ledger WITH ...)
      Office (EventLog, Ledger)   what stands behind the panel, and everybody else
        Browser                   page, query cache, mutations under way
          Desk                    list, editor, confirmation of a delete
          Entry                   login, magic link, sign-out
          Avisos                  difusión log, retry button, polling, channels
          Team                    accounts and roles
            Panel                 the four screens composed; fairness; properties
              MCPanel
              PanelProofs         the panel's invariants and action properties
      Access  - AccessProofs, MCAccess
      Feed    - FeedProofs, MCFeed
      Gate    - GateProofs, MCGate
    ParishClock                   wall clock and instants over both changes of the clock
      Schedule, EventTimes        quiet hours; the time fields of the editor
        MCClock, ClockProofs
    Calendar - MCCalendar         ranges, answers, seasons, lanes
      Visitor - MCVisitor         what a visitor picks, opens, filters and sees
        CalendarProofs            what the calendar holds and tints, its lanes and cells

**EventLog.** `events` maps an id to what decides whether the parish is told:
`published`, `cancelled`, the broadcast-worthy data (`slot`: start, end, place) and
the group. Each mutation of `events_admin.go` locks the event's row first, so one
action is one transaction: the row and `InsertOutbox` together. `CreateEvent`,
`UpdateEvent`, `PublishEvent`, `UnpublishEvent` and `DeleteEvent` are the store's
functions of the same names.

**Difusion** composes that log with the engine. `EditEvents` is a step of
`LogNext` plus the cascade on `broadcasts`; everything else leaves the log alone.
Each SQL statement, enqueue and send is a step. An attempt ends in one of four ways: the channel is off, the sender takes
the message, it refuses it, or it takes it and returns an error all the same (`smtp.SendMail` may, at `mail.go:55`):

| Code | Actions |
|---|---|
| `RelayOnce`, `ClaimOutboxBatch` | `RelayClaim` (locks with SKIP LOCKED), `RelayRow` (one row: skip or enqueue), `RelayCommit`, `RelayAbort` |
| `Fanout` | `FanStart` (superseded? recipients), `FanRecord` (`CreateBroadcast`), `FanEnqueue`, `FanFinish`, `FanFail` |
| `Deliver`, `settleFailure` | `DelFetch`, `DelSend` (channel, sender), `DelSettle`, `DelRefused`, `DelFail` |
| `retryBroadcast` | `RetryReset`, `RetryEnqueue`, `RetryLost` |
| channel handlers | `CreateChannel`, `UpdateChannel`, `DeleteChannel` |

asynq is external and modelled from its use: a task may be taken at any later
moment and in any order, a returned error or a dead worker consumes a retry, a
spent budget archives the task, and an acknowledgement may be lost. The two
servers' concurrency is kept (`Idle`). The time a correction waits out the
debounce, quiet hours and backoff only postpone a task, which "at any later
moment" includes.

**Ledger** is what is left of the engine when only the rows of `broadcasts` are
looked at: `Record`, `Attempt`, `Reset`, `Drop`, and `LoseMark` for the send whose record
never happened, or that the sender reported as an error. `KeepsTheLedger` checks that every step of the engine is one of
these or leaves the rows alone; the mapping is `rows <- broadcasts, loose <- excused`, and DifusionProofs
proves it.
The panel's modules are built on it and on nothing else of the engine, which is what
makes the composition small enough to check.

**Office** is the server side of the panel: EventLog's tables, Ledger's rows, channels, team, the
session of the one browser followed, the worker (`Announce`, `Deliver`) and other
people (`Others`: an edit of an event, a channel or an account elsewhere, a session
that ends).

**Browser** is what the panel's screens share. A query is *asked* (`Mounted`, `Refetched`),
*served* from the tables of that moment (`Serve`), and *arrives* later (`Arrive`), or
is lost (`LoseQuery`). A mutation is a record in `calls`: pressed (`Send`), handled by
the server (`HandleEvent` and its like in each screen), ended on the page that is there by
then (`Finish`), or lost before or after the server acted (`LoseCall`). Its `from` says
whether the screen, the card or the page that sent it still exists to react. RTK Query is external and modelled
from its use (`invalidationBehavior: 'delayed'`, its default): the tags of an ended mutation are *owed* until nothing is under way,
then the stale queries in use are asked again and the others dropped. `Routed` is the
gates of `App.tsx`, `Reloaded` the interceptor's `location.assign`. `aged`, `made`, `stumbled`,
`back` and the fields of a delete's body are history, so that properties can speak of what others changed and
of what she knew.

**Desk, Entry, Avisos, Team** are the screens: one action for each button, link or
field (`PressPublish`, `ConfirmDelete`, `SaveChannel`, `ToggleActive`...), one for the server's handler,
one for the end of the call. `Panel` is their disjunction.

**Access.** A user stands for an e-mail. Statements of concurrent handlers are
steps: `SetupLook`/`SetupInsert` are the two halves of the one
`INSERT ... WHERE NOT EXISTS`, `VerifySpend`/`VerifyCheck`/`CreateSession` those of
`verify`, `LoginCheck`/`CreateSession` those of `login`, and `Admit` is the
middleware whose verdict an admin handler uses later: `Manage` if it changes an account in one statement,
`SwitchOff` if it switches one off. That is a transaction of two statements (`store/users.go:88-99`): `SwitchOff` has executed both
and holds the locks of the rows they wrote (`leaving`), and `CommitSwitchOff` or `RollbackSwitchOff` ends it.
Between them others see the account on and its sessions valid, a login may insert a session that the second
statement did not find, and what would write a locked row waits.

**Feed.** One phone revalidates while transactions overlap: `Begin` fixes `now()`,
`Commit` writes with that stamp (the trigger of migration 00004), whatever second
it is by then. `WindowMoves` is the passing of days that no one commits.
`excused` is history: a commit no later than the last download began it, or the
window moved, since then; these the ETag cannot see.

**Gate.** `FromRequest` picks the hop, `Allow` counts. A request is a socket peer and
hops; the proxy appends the address that called it to whatever was written there.
`admitted` is history, per client and instant, so that the properties speak of
what a client got and not of the map.

**ParishClock, Schedule, EventTimes.** `Instant` is `parishToISO` of `admin/dates.ts`, which
looks the offset up twice, and Go's `time.Date`, which does the same. Schedule is the loop of
`Fanout` over recipients, each with the stagger's jitter chosen among all values. EventTimes
opens an event in the form (`fromEvent`), retimes it or not, and saves it (`toInput`).

**Calendar, Visitor.** Calendar has the two effects and the handlers of `Calendar.tsx` with the
date arithmetic of `lib/calendar.ts` and the answers of `public.go`. A request is
answered by the server at one moment and seen by the page at a later one, or fails.
Visitor adds the picked day, the sheet, the filter, the width, and what the views show of all that:
the cell of the month grid, the agenda, the boxes of the week. Days are numbers; day 0 is a Sunday.

Each property is stated with a comment above it, in the module it is about.
Definitions that precede the one they vary and are described as a *mutant* are
broken variants of an operation. They are used by no specification; each shows, for one
property, a plausible bug that property catches (`PROJECT.json`, `mutants`).

## 3. What each run checks, and its bounds

| Run | Instance | Shows |
|---|---|---|
| `dif_replay` | 1 event, 2 outbox rows, 1 channel, 2 relays, 2 fanout and 2 deliver tasks, 1 retry each; two openings: an empty outbox and 2 faults anywhere, or an announcement already relayed, 1 fault and 1 manual retry | nothing lost, nothing repeated but by a fault or by hand, the panel is right, the rows change as the ledger promises |
| `dif_corrections` | 3 outbox rows, 2 slots, 2 groups, a channel of one group, no retries | the log tells the truth and a story; what is on the calendar at rest was announced, to its group only |
| `dif_live` | 2 rows, `RelayBatch` = 1, a channel that is created late, switched on and off, moved between mail and WhatsApp, deleted; senders refusing at will; fairness, no faults | rows are processed, deliveries settle, retractions arrive, and only to the told; queued rows are on their way |
| `panel` | 1 browser, 2 events of 2 months, 2 outbox rows, 1 channel, 2 accounts, nine openings | the nine panel properties |
| `access` | 2 people, 2 setup commands, 2 sessions, 1 link, 2 admin requests, clock to 2, `LinkTTL` 1, `SessionTTL` 2 | the four access properties |
| `feed` | 2 events, 2 texts, 1 open transaction besides creations, 2 seconds | a 304 is true, but for the excused |
| `gate` | 3 clients, direct or through the proxy, one forged hop of any kind, limit 2, window 2, sweep over 1, clock to 4 | the two gate properties |
| `schedule` | five days of half-hour ticks with a spring and an autumn change; hours in {-1, 0, 1, 2, 3, 7, 22, 24}, 3 recipients; events starting at any tick, 2 saves | due when asked, or when the quiet hours end and within the stagger of it; order and spacing; the form moves no time |
| `calendar` | 3 events, 2 of them there from the start, 2 moves, 1 edit, the seasons of migration 00002, a visit on 16 December 2026; 2 taps, a phone and a desktop | the six calendar properties |
| `bug_orphan`, `bug_untold`, `bug_season` | as small as shows it | the findings of section 7 |

Why the bounds are enough for the cases they are there for:

- *Two rows and one event* is what a cancellation needs after an announcement, or a
  correction after it; every interaction of the engine is between rows of one
  event. `dif_corrections` has three, so that a correction can be superseded after
  a publication and an event can be unpublished and published again. *Two relays*
  exercise SKIP LOCKED; *two tasks of a kind* two handlers in each other's way;
  when all ids are in use a producer waits, which stands for a slow broker.
  *One or two faults* may fall on any step: after the enqueue and before the mark, after the
  send and before its record, after the handler and before its acknowledgement. With
  one retry each a task reaches its last attempt and the archive.
- *Two slots*, *two groups*: different or the same is all the code distinguishes.
- *`panel`*: an opening is a screen with a past, and says how many presses and lost
  requests are left (`MCPanel`): three at the editor (a draft; an announced event whose
  delete is being asked about; a typed new event, with one request to lose), one at the list, two at the
  log (a failed row, a queued row), two at the team, one at the door. From each she presses up to three
  times, with two mutations under way at most, one loss and one act of others. Two presses are a double click,
  or save and then leave; three are leave, come back, press again. Two months make the event's month
  and the list's differ. Two accounts: oneself and another.
- *`access`*: `LinkTTL` 1 and a clock to 2 let a link expire while its record lives
  and the other way round were it wrong; two requests are two párrocos deciding at
  once, or the second signs in while the first's transaction is open. A person can be anything a third would be: the author, or the subject.
- *`feed`*: two seconds are one second boundary; the same second, the next and a
  transaction across the boundary all occur. Two events make the count matter.
- *`gate`*: four ticks hold two whole windows and every offset between them; three
  keys against a threshold of one make the sweep run with live and expired keys.
- *`schedule`*: every kind of pair of hours: over midnight, inside a day, empty, out of range on
  either side, and ending at the hours each change of the clock skips or repeats (the changes are at two
  in the morning of the second and the fourth day). Nothing in the code distinguishes the recipients after the
  second. Events of durations -2, 0, 3 and 4 ticks are one with its end before its start, one without
  duration, one with half a minute to round and one on whole minutes (for the form, a minute is two ticks).
- *`calendar`*: the three slots are on 9 January 2027, the last cell of December's
  grid and in January's first weeks too: ranges overlap, years turn, and a block
  overlaps two that touch. The page is opened with its requests under way (two moves: away and
  back, over the month, the week and the neighbouring month or year), or it holds what it
  shows and the visitor looks around: on a phone, in January, with two taps (a filter and a cell, a weekday and a sheet); at a
  desk, in December, where the sheet of an event of the grid's last day is open, with one.
  Three events of three ranks fill more than the two lines of a cell.

Symmetry is used for model values that nothing compares or orders (task ids,
slots, people, clients), never in the runs with liveness. Each configuration names
its bounds as constants; the modules' comments say which constants are bounds.

## 4. Fairness and deadlock

Two specifications are fair.

`DifFairSpec` has weak fairness for each relay's
own steps (the worker's ticker calls `RelayOnce` for ever), for each fanout and
deliver task (asynq's servers keep their goroutines busy while tasks wait) and for
the second half of a manual retry (a handler that has begun goes on). It assumes
nothing of people (edits, channels, retry button), nothing of which answer a sender
gives, and the run allows no faults: with infinitely many failures nothing need
arrive, and with finitely many a suffix has none.

`PanelFairness` says that each query is served and its answer handled, that mutations under way are
handled and end (a request ends, if only by failing), and that the timer of the log ticks. Nobody has to press,
nothing is assumed of others or of the worker (a row without a task stays queued for ever, as `bug_orphan` shows),
and the network may lose what `MaxSlips` allows at any moment.

`CHECK_DEADLOCK FALSE` stands in every configuration because every model stops
legitimately: the outbox, the clock, the visitor's moves, the presses or the recipients are
used up. That the engine never stops with work left is what `EveryRowProcessed`
and `EveryDeliverySettles` say; that the panel never does, `ComesToRest`.

## 5. What is proved

All for every value of the constants, from the assumptions declared next to them
(`EventLogConstants`, `DifusionConstants`, `OfficeAssumption`, `BrowserAssumption`, `AvisosAssumption`,
`OpeningAssumption`, `AccAssumption`, `FeedAssumption`, `GateAssumption`, `ClockAssumption`, `ScheduleAssumption`,
`SummerAssumption`, `TimesAssumption`, `CalendarAssumption`, `VisitAssumption`, `VisitorAssumption`: bounds are naturals; `Parish` is no group, `"password"` no link, "nothing" no
role, channel or event; the set of event ids is finite; the clock is whole minutes off UTC, behind it, its summer is
longer than that and its summer hour an hour, which comes and goes at whole hours but midnight, as Tijuana's does at two; there is a group and a slot of this month, which a blank form needs; the panel is opened on a page that
has asked for nothing yet, or on what its office would have answered; months are in order, in whole years; the calendar opens
on finitely many events, whose minutes and durations are naturals and whose ranks none is after `parroquial`; seasons do not
overlap, which `00001` has the database exclude). TLC evaluates each of them on the instances of section 3.

Three theorems have a hypothesis of their own, because the code has: the gate's two hold `BehindTheProxy`, with the
proxy in `TRUSTED_PROXY` and no client in it (with the variable empty all who come through the proxy share its
limit); the tints hold with `SeasonsReachIn`, that a season showing in the grid of a day has a day in that day's year.
The page asks for one year's seasons, so without it the last row of December could have no color. It is
true of the seasons of migration 00002, since that of Christmas spans the new year: `SeedsReachIn` of MCCalendar has TLC
check it on every day they cover.

| Theorem | Says | Argument |
|---|---|---|
| `LogTypeCorrect`, `LogIsTrue`, `LogIsCoherent` (EventLogProofs) | types; `LogTellsTheTruth`, `StoryIsCoherent` | `LogInv` adds that a published event has a row in the outbox and that an unused id has none: without the first a cancellation or correction could come first, without the second a new id could inherit a story. Two lemmas carry the actions: `AnnounceKeepsInv` for those that append, `SilentKeepsInv` for the others |
| `DifTypeCorrect` (DifusionProofs) | types of the engine | one lemma per group of actions |
| `EngineKeepsTheLog`, `StoryStaysCoherent` (DifusionProofs) | `DifSpec => LogSpec`: every step of the composed system is a step of the log or leaves it alone; so what is proved of the log, `StoryIsCoherent` among it, holds of the system | every step but `EditEvents` leaves the log's variables as they are |
| `NothingLost` (DifusionProofs) | `NoAnnouncementLost`, any number of relays, failures and replays | `HandInv`: what a relay claimed and is through with (`batch \ left`) is already handed out, which is what makes the mark at commit safe; `Superseded` only ever becomes true, because the outbox only grows |
| `OnlyTheToldHearARetraction` (DifusionProofs) | `RetractionOnlyToTheTold` | `ToldInv`: every copy of a recipient on its way from the outbox to the channel (todo, owed, row, task, manual retry, message heard) is *grounded*: if the row is a cancellation, its channel has heard an announcement of the event; and a sent row, or one about to be recorded as sent, was heard |
| `NothingRepeated`, `PanelIsRight` (DifusionProofs) | `HeardOnce`, `PanelTellsTheTruth`, any number of tasks, failures and replays | `OnceInv`: a message not excused passes through one hand after another. At most one fanout owes it, or one task holds it, or it was heard (`OneHand`); a task at work is about a row not sent, and not heard of before the sender takes it (`AtWorkOnce`); what was heard is recorded or about to be (`Recorded`); and what was done left a row, unless its event is gone (`Traced`), so `CreateBroadcast` cannot begin again. It stands on `ToldInv` and `LogInv`. Both properties except what was excused: a message whose record was lost, or whose sender failed after taking it, and a row reset by hand while its task waited |
| `EngineKeepsTheLedger` (DifusionProofs) | `DifSpec => KeepsTheLedger`: the engine implements Ledger, on which the panel's modules are built | every step maps to a step of the ledger or a stutter; `AtWorkOnce` is what makes a mark fall on a row not sent |
| `OnlyTheAddressedHear` (DifusionProofs) | `OnlyItsGroupHears` while no channel is moved to another group (`NobodyMoves`) | `AddressInv`: every copy of a message is addressed by its row; the events may change their groups, because the copies follow the snapshot of the row |
| `QueuedStaysOnItsWay` (DifusionProofs) | `QueuedIsOnItsWay` while nothing fails (`NothingFails`), which `bug_orphan` shows to be needed | `WayInv`: a queued row is held by a task, by a fanout's debt or by a retry. A fanout owes one recipient at a time and nothing when it ends (`OwesOne`), and a task that ends has settled its row |
| `WhatIsOnAirWasAnnounced` (DifusionProofs) | `CurrentIsAnnounced` while no channel joins a group's active ones (`NobodyJoins`) and asynq gives up no fanout of an event that exists (`NoneGivenUp`); other failures and replays are allowed | `CurrentInv`: a loop has each channel wanted before it or covered (`Underway`), so a fanout runs to its end covered or superseded (`FannedOut`). `NoAnnouncementLost` brings every row there, `LogTellsTheTruth` says that the newest row of an event on air is an announcement, and the newest is never superseded |
| `FeedTypeCorrect`, `FeedIsTrue` (FeedProofs) | types; `NotModifiedIsTrue` | `FeedInv`: stamps are not of the future, the ETag held is that of the copy held, and each listed event is as in the copy or has a stamp later than the download. So an equal newest stamp leaves no newer event, and an equal count no missing one |
| `AccTypeCorrect`, `LinkIsSpentOnce` (AccessProofs) | types; `LinkOpensOnce` for any lifetime of links | `LinkInv`: whoever entered by a link has left a record of it, the record outlives the link, and at most one session or pending login came of it |
| `NoRevival` (AccessProofs) | `NoSessionRevives` | `RevokeInv`: a session not inserted late belongs to an account that is on, or is revoked (`SweptOrRevoked`), and an open transaction has swept every such session of the account it switches off, so that `CommitRevokes`; and `SessionsAge`: a step leaves owner, expiry and lateness alone and never takes back a revocation |
| `PasswordsAreUnique` (AccessProofs) | `OnePasswordEach` | `PasswordInv`: a setup command that handed out a password has its account, and accounts stay |
| `NobodyLocksHimselfOut` (AccessProofs) | `LockedOutByOthersOnly` | `LockOutInv`: who has a transaction open is not whom it switches off (`OthersLeave`), and a step leaves fewer active párrocos only by committing one, or by changing a role (`LockOutStep`) |
| `OpeningMovesNothing`, `SavingKeepsTheTime` (ClockProofs) | `UntouchedStays`, `SavedAsTyped`, for any offsets and any moments at which the clock changes | two lookups of the offset suffice: `InstantOfWall` (an instant comes back from its wall time, but for the hour shown twice) and `WallOfInstant` (a wall time comes back from its instant, but for the hour skipped); `FormInv`: an untouched form is that of the saved event |
| `DueWhenAllowed` (ClockProofs) | `DueAsSoonAsAllowed`, for all quiet hours, staggers and starts | the property bounds what is held by the stagger, to say no more than the design document does; the proof shows the instant itself. `ScheduleInv`: what is due is `NextAllowed` of what was asked. `FirstFree`: from a held instant on, every instant is held until the wall time that opens (`HeldUntilOpen`), and the instant found for that wall time is the first that shows it (`Found`). Autumn does not break it, because the clock never goes back before a whole hour of the day that it has reached (`NeverBackBefore`) |
| `KeptApart` (ClockProofs) | `Staggered` | `InOrder`: `NextAllowed` keeps the order of what it is asked, the skipped hour included (`FreeThenHeld`, `OpensInOrder`); `StaggerGap`: staggers are apart by the base, less both jitters |
| `TwiceIsTheMost`, `SpentBeforeRefused` (GateProofs) | `TwiceAtMost`, `RefusedOnlyWhenSpent`, for any clients, limit, window, sweep threshold and clock, behind the proxy | `GateInv`, of each client on his own: while his window is open its count is what he did in it, some of that at its start, and no stretch reaching back less than a window before it adds a whole limit (`Open`); with no window open, whether the record expired or was swept, the last window's worth of instants is below the limit (`NoneOpen`), which is all that a new window needs to know. `HisOwn`: the key is the sender's, whatever hops are forged |
| `EachHeldOnce`, `NothingIsMissing` (CalendarProofs) | `HeldOnce`, `NothingMissing`, for any events, edits, views and orders of the answers | `PageInv`: what the page or an answer under way holds of an event nobody edited is what the server has (`AsServed`), which is why skipping an event the page has already seen loses nothing; a range asked for is in flight or here (`Complete`). `RangeCovers`: the half-open range of a view has its last day, from the days of the week and the month by `FS_Interval` |
| `TintedRightly` (CalendarProofs) | `TintedOnceBegun` with `SeasonsReachIn`, in whatever order the seasons of years arrive | `TintInv`: the page's seasons are all those of the year it says. `TintedRight`: on a day no season ends, the inclusive comparison of the page and the half-open one of the API pick the same one |
| `VisitorOnlyLooks` (CalendarProofs) | every step of the visitor is one of the calendar or leaves it as it is, so the three above and `LanesAlwaysFit` hold under him | `OpenFromAgenda` is a change of view |
| `LanesAlwaysFit` (CalendarProofs) | `LanesFit`, for any number of events, times and orders of ties | `EntriesInv`: the page holds finitely many entries, of slots. For each day `LanesInv` of the first n turns of `layoutLanes`' loop, by induction on n (`LanesLaid`). It says that a lane's end is that of the last of the cluster's blocks in it (`EndsOf`); that no two blocks in a lane of a cluster meet (`NoneMeet`); that at a block's start each lane before its own is taken, which is why it was not put there (`NoGaps`); and that a cluster is a part of the day (`ClustersAreParts`), because a new one begins exactly at a moment by which all before has finished (`ReadyToPlace`). So the blocks at one moment are no more than the lanes (`NoneBusier`), and at the start of a block in the last lane as many (`SomeAsBusy`), by counting injections |
| `BoxesAlwaysApart` (CalendarProofs) | `BoxesApart`, whatever the events and the filter | blocks that are not side by side do not overlap (`LayoutRight`, on the filtered day), and rounding each to a pixel loses less than the three the box leaves free (`PixelsAdd`, `HeightOf`) |
| `CellsAlwaysHideTheLeast` (CalendarProofs) | `CellsHideTheLeast`, whatever the events and the filter | sorted by rank, the celebration is the first of the day or there is none (`CelebrationFirst`); so a cell tells the first two of the day and counts the rest (`CellTells`) |
| `PanelTypesCorrect` (PanelProofs) | `PanelTypeOK` | `TypesInv` says what each kind of call, page and cached entry may hold. `Steps` reduces the panel to twelve kinds of step (a press, a link, an answer served, arriving or lost, a call handled, ended or lost, ...), and each invariant below has one lemma per kind |
| `NothingRemembered` (PanelProofs) | `LoginRemembersNothing` | `EntryInv`: until `/auth/me` has answered nothing else is cached, no call is held and nothing owed; and the door's calls and the panel's are never under way together |
| `RestIsFresh` (PanelProofs) | `QuietIsFresh` | `FreshInv`: an answer others did not change, shown or on its way, is what the server has, or its tag is owed, or a call the server has handled will make it stale when it ends. At rest the last two are gone |
| `OneEventMade`, `SavedAreListed` (PanelProofs) | `OneEventPerForm`, `SavedIsListed` | `FormInv`: one saving call at a time (`OneSaving`); what a visit has made is nothing, or the one event whose saving is still under way (`MadeOnce`); a list opened on an event is on its month (`BackInMonth`), and with `FreshInv` the event is in it |
| `NothingDeletedSilently` (PanelProofs) | `NoSilentDeletion`, of each step | `DeleteInv`: a delete confirmed at rest, with nothing pressed and nobody at work since, is the only call and the event is as its modal showed it (`Undisturbed`) |
| `TypedIsKept` (PanelProofs) | `NothingTypedIsLost`, of each step | of one step: a form that is there is kept by whatever routes, seeds or draws the page anew |

Induction over data is done without the library's induction theorems, whose parameter is an operator no installed
prover can instantiate: `LeastNat` of CalendarProofs takes the least element of a set of naturals (from `WFMin`, that the
order of the naturals is well founded), and an induction takes the least number at which its claim would fail. That is why
the walk over a day's blocks is a recursive function, `Laid`: `LaidBySteps` shows that there is one, and that each turn
adds to the last as `Place` says.

The runs check types through `DifTypeOK` and `PanelTypeOK`; those of EventLog (part of
`DifTypeOK`), Feed, Gate and Access are proved instead of run.

## 6. What is only model-checked

- Liveness (`dif_live`, and `ComesToRest` and `QueuedIsFollowed` of `panel`) is outside what the prover does.
  Every invariant and every action property of the passing runs is proved.
- The three runs of section 7: a counterexample is TLC's to find.

## 7. Findings

Three runs end in a counterexample, each to a line of the repository:

- **`bug_orphan`**: `Fanout` records a broadcast and then enqueues it. If the enqueue
  fails, or the process dies between, the replay finds the row and skips it
  (`fanout.go:67-70`), and the comment there, "An earlier attempt already recorded and
  queued this one.", is not true: the row stays queued with no task, and the retry button
  accepts only failed and dead rows.
- **`bug_untold`**: an event is cancelled while its announcement is queued. The
  cancellation finds nobody told, then the announcement is delivered.
  `events_admin.go:141-142` says "so anyone already told about it learns it is off".
- **`bug_season`**: `seasonOf` (`lib/calendar.ts:246`) compares with `key <= s.end`, but the
  API's end is exclusive (`store/seasons.go:14`), so the first day of a season is
  tinted as the previous one.

## 8. Known behaviours

Met while modelling, besides the findings of section 7. The properties are worded around them, and each that excuses one says so.

Some of them contradict a comment or a document all the same. Each of the following was given a property that says what the text says, and TLC
found its counterexample in a few steps; none is kept as a run, because a passing property already marks the exact border of each:

- *"only a broadcast that failed can be sent again"* (`store/broadcasts.go:15-17`): `smtp.SendMail` (`mail.go:55`) may fail after the
  server took the message, and `deliver.go:74-77` writes failed or dead for it; it is then retried, by asynq or by hand. `PanelTellsTheTruth` and
  `HeardOnce` excuse the row whose sender said so.
- *"so a concurrent double-click cannot requeue a row that is already on its way out"* (`store/broadcasts.go:147-149`): a row is failed
  from its first refused attempt, while asynq holds the task for the next. Retried by hand it has two tasks, and both may send. The same two excuse it.
- *"dead means asynq has no retries left, so nothing will move this row again without a manual retry"* (133-134): for a channel that is off
  `Deliver` marks the row dead whatever retries are left; if the acknowledgement is lost, the next attempt sends it when the channel is on again.
  `Ledger` allows an attempt at a dead row.
- *"sending both would contradict the parish's own message"* (`fanout.go:44-45`): supersession is asked by relay and fanout, not by `Deliver`, so a
  correction that waits may be heard after a newer one. No property speaks of it.
- *"next `QUIET_END` plus their stagger"* (design document `2026-08-10-pastoral-calendar-design.md`, 218, and 210): `fanout.go:76` adds the
  stagger before the quiet hours, so what they hold is all due at once when they end. `DueAsSoonAsAllowed` accepts both readings (when they end, and
  no later than the stagger after it); `Staggered` asks of what is held only its order.
- updated_at *"must advance on every write or subscribed phones keep receiving 304 and never see a correction"* (migration `00004`, 2-4): an edit in
  the second of the download, or by a transaction that began before it, leaves the ETag as it was. `NotModifiedIsTrue` excuses exactly these.
- *"hiding [an aviso] a published event needs is worse than showing nothing"* (in `DeleteModal.tsx:4-7`): an event that somebody else has published since is
  still a draft on the screen; its modal offers no notice and it is deleted without one. `NoSilentDeletion` speaks of a copy nobody has changed.
- *"two concurrent setup runs cannot both succeed and hand out two admin passwords"* (`store/setup.go:14-16`): with different e-mails both find the table
  empty and both succeed. `OnePasswordEach` speaks of one e-mail.

Engine and schedule:

- A worker that dies between the send and its record repeats the message; so does the retry of a send that the sender
  called an error. Of two tasks of one row the older may move a row that the newer has sent or marked dead.
  `HeardOnce` and the ledger's `loose` excuse these rows.
- asynq's own retries do not know quiet hours.
- When the quiet hours end at the very hour that spring skips, what they hold that night is due an hour
  before it, still in them; so is what waits that day for the next morning, because `AddDate` starts from the
  instant found for today's (`schedule.go:49-51`). `DueAsSoonAsAllowed` excuses both (`NoSuchHour`), and
  `Staggered` holds all the same.
- Deleting with notice an event already cancelled announces the cancellation again.
- A hard delete leaves outbox rows behind; their fanout fails on the foreign key until asynq
  archives it.

Access and feed:

- Two párrocos who switch each other off at once, or one who demotes himself, leave nobody who can
  manage the team (`http/admin_users.go:135` guards only against oneself).
- A login past its check when the account is switched off, or between the revoking statement and its commit, inserts a session that does not work, and
  does once the account is switched on again.
- A magic link is spent even if the insertion of its session fails; the team asks for another.
- The feed's ETag also misses an event leaving the window as another enters.

Panel:

- A retry whose enqueue fails answers an error while the row is queued, with no task: as in `bug_orphan`, and shown as queued for ever.
- A published, then unpublished event is a draft to the delete's modal, although it was announced (`EventosList.tsx:101`, `DeleteModal.tsx:27`).
- The editor, when the event was created and its publication failed, creates a second draft
  if *Publicar* is pressed again (`EventoEditor.tsx:174`); `OneEventPerForm` excuses exactly that.
- A save or delete that ends late navigates away from the page she is on by then; the save of one channel
  closes whichever channel form is open.
- Writes are of whole rows: of two editors the last one wins, field by field unseen.
- New rows of a publication do not appear on *Difusión* while it is open and at rest. A poll that
  fails unmounts the channels card, with what was typed in it. A row whose channel was renamed keeps the old
  name until the log is asked again. A channel deleted elsewhere leaves the form open on it, and an event deleted
  elsewhere leaves the editor at "Cargando…".
- A failed logout leaves the session valid while the panel shows the login (`Shell.tsx:208-216`).
- After a change of one's own role or name, the header is that of before until reloaded.
- Unpublishing opens the list on the month of the form, whatever month it had.
- *Con fallo* does not count cancellations, and counts an unpublished event whose row shows "—".
- `Equipo.tsx:379` says the secretaría "no toca canales"; the API lets her (`server.go:87-92`).
- An event at the second showing of the autumn hour, or typed in the hour the spring skips, moves by an hour when
  saved; seconds are dropped by a save without a change.

Calendar:

- The copy of an event stays until the page is reloaded (`Calendar.tsx:114`), the seasons of the wrong year when two answers
  cross (91-92), the error message for ever (121), and *today* past midnight.
- A day picked in the month, then *Semana*, shows the anchor's week, not the day's; so does a tap in the agenda.
- Blocks of less than 35 minutes are drawn longer than they are and may overlap the next one; an event
  before five in the morning is outside the week grid. The banner is of the season of the anchor's year.

## 9. Abstractions, and what is not modelled

- **Difusion**: the channel's look-up and the send are one step (a channel switched off between them is
  as one switched off after the send); the retry handler's reading of the channel and its reset are one
  step; one press of the button in flight per row. Message texts and the calendars they link are left out.
- **Panel**: the list of groups is constant; titles, places, ranks, wording and messages of error are left
  out, but for whether there is one. A month is all that a date says. The list shows nothing while another month is
  asked, where the code shows the previous one's rows. The engine is Ledger, where a queued row may be attempted at any
  moment, or never. One browser is followed; everybody else is `Others`.
- **Access**: parsing a link and recording its use are one step, because a tick of the clock is longer than
  that; Redis keeps what it acknowledged (its append-only file may lose the last second). The HMAC and
  Argon2id are assumed to do their work. A refused login changes nothing and is no step.
- **Feed**: an event gets a date ahead of or inside the window and leaves it only as days go by;
  an editor who types a date more than 90 days gone is left out.
- **Gate**: addresses are model values, so a hop parses or is garbage; one forged hop stands for any number
  before the last. `Allow` holds one mutex, so it is one step.
- **Schedule, EventTimes**: a tick is half an hour for the schedule and half a minute for the form; offsets are whole ticks.
- **Calendar**: the text of an error and the line of the present moment are left out. Two requests for the
  seasons of one year in flight are one. Titles are not compared. Of the API, the validation of parameters and the body's ETag, computed
  from the answer itself, are left out.
- **Senders** (partly): whether there is a sender and how an attempt ends (taken, refused, taken and reported as an error) are in `Difusion`; SMTP and the Evolution
  API are input and output.
- **Deployment** (partly): only the hop its proxy appends. The rollback's `.tag.prev` may be that of an earlier
  deployment when a step fails before the script's first line (`deploy.yml:79`).
- **Not modelled**: the password hash (no state), start-up, configuration and migrations (run once, before
  anything modelled), the static pages, the banner and the legend (rendering), the design bundle `project/` (a prototype that
  nothing in the program loads, and most of the lines the map does not reach).

## 10. Plan

Written: the engine and its log first, then access, feed, gate, schedule, the calendar and its visitor, the panel.
Nine runs that pass and three that end in a counterexample, one per question, all rerun on every change.

Left to model: the feed with two open transactions at once, for which the property is already proved; the
deployment's rollback beside the migrations' advisory lock.

Left to prove: liveness, which the prover does not reach (section 6).

## 11. Running it

    tlc -workers 2 -config dif_replay.cfg MCDifusion
    tlapm DifusionProofs.tla

Each run's module is in `PROJECT.json`. The longest runs are `dif_replay`, `dif_corrections`, `panel`, `access` and
`calendar`, of one to three minutes each with two workers.
