# Signalpost in TLA+

Signalpost is a traffic light for coding agents. Claude Code sessions fire hooks;
each hook starts a small process that posts one normalized event to a local
server; the server keeps one state per session and answers `GET /state`; a
menu bar app and a terminal client poll it and show the most urgent state. The
light is only of use if it can be trusted, and that trust rests on things tests
hardly reach: deadlines without timers, a dedup memory with a bound, events that
come late or not at all, polls that overlap. This directory models those parts,
checks them with TLC on small instances, and proves with TLAPS, for every value of
the constants, the safety properties that the runs check: from the rows of the
session manager to what is on the screens.

## The system

| Part | State | Operations | Hard part |
|---|---|---|---|
| state machine (`server/internal/statemachine`) | none | `Next(state, event)` | which of 48 pairs are listed; UNKNOWN for the rest |
| session manager (`server/internal/sessions`) | table of rows, `updatedAt`, one mutex | `Apply`, `Snapshot`; each first runs `reconcile` | no timer: DONE expiry, removal and staleness happen when the next call looks at the clock; dedup set and FIFO cut together; pending removals |
| aggregation (`server/internal/aggregation`) | none | `Build` | ties, map order, dates cut to seconds |
| HTTP API (`server/internal/api`) | none | `POST /events`, `GET /state`, `GET /health` | the answer is built after the lock is released, with a later clock |
| event validation (`server/internal/events`) | none | `Parse`, `Validate` | a list of event names that must agree with two others; what gets past it becomes a key of the table |
| auth (`server/internal/auth`) | the token file | `LoadOrCreate`, `Require` | a crash between making and filling the file; nothing locks it; clients hold old tokens |
| server process (`server/main.go`) | its token | start, stop | the token is made before the port is known to be free; a restart forgets every session |
| Claude adapter (`server/internal/adapters/claude`) | none | `Normalize` | one kind of Notification counts and one does not; identities must not collide |
| hook process (`server/cmd/traffic-light-hook`) | none | one POST, bounded wait, exit | processes run side by side; requests outlive their senders; nothing is retried |
| Dart core (`packages/traffic_light_core`) | `_token` | `fetch`, `loadToken` | state read before an await and used after it |
| desktop tray (`apps/desktop`) | `_lastTitle`, menu, timer | `start`, `_refresh` | polls overlap and their answers come out of order |
| terminal client (`apps/cli`) | `bearer`, `last`, `lastErr`, ticker, signal channel | one poll at a time | token read once; changes found with two memories; signals wait for a poll |
| simulator, capture tools (`tools`) | – | development only | – |

Interactions: hooks call the API, which calls the manager under its mutex; clients
call the API, which takes copies under the mutex and aggregates outside it; the
server writes the token file, hooks and clients read it. Concurrency is between
HTTP handlers, between hook processes, and between the awaits of the app.

What makes each part right:

* state machine and manager: a row is consistent after any sequence of events and
  waits; nothing is overdue after a call; time alone never raises or clears an
  alarm; a session is only gone when it was ended; a repeat is a no-op as long as
  it can be recognised; and lazy deadlines cannot be told from timers.
* API and aggregation: the headline is the most urgent state, an answer is one
  moment of the table, no snapshot is older than one before it, all clients converge.
* validation: nothing that is unfit gets a row, and nothing that hooks send is
  refused.
* hooks: the light fits what the session does when all was heard in order; the
  agent is never held up; no event is taken for a repeat of another.
* end to end: a session that asks is on every screen as long as it asks, and no
  client is left asking for attention afterwards.
* both clients: what is shown is at most so old, and they tell one story of an
  answer, though states and names are ranked in two languages.
* tray: title and menu agree, and both settle on what the server says, over token
  changes as well.
* terminal: the screen says what the last poll came to, though only changes are
  printed; nothing is printed twice in a row; a signal ends it.
* token file: no server asks for another token than the one in the file.

## Modules

| Module | Models | Notes |
|---|---|---|
| `StateMachine` | `statemachine.go`, `types.go` | `matrix` is a function of (state, event) pairs, its rows grouped by the state they lead to; `NextState` and `Unexpected` are the two fields of `Result` |
| `SessionTable` | one `SessionRecord` and what the manager does to it | pure operators named as the code's methods: `create`, `setState`, `markSeen`, `observe`, `median`, `isStale`, `reconcile`, `scheduleRemoval` |
| `Sessions` | `Manager` | variables `now`, `sessions`, `updatedAt`; one action for each way out of `Apply`, each with the `reconcile` it begins with; `Snapshot`; `Tick`; `Restart` |
| `SessionLifecycle` | what `docs/protocol.md` promises of a session | abstract: no dedup, no cadence, timers that fire on their tick |
| `SessionsHistory` | `Sessions` with a record of accepted ids | history variables only; for what is said of repeats and of lingering states |
| `Aggregation` | `aggregation.go` | a tool is a number in the order that Go gives names |
| `EventValidation` | `events.go` | a body is what is in it and the envelope if it is one; `Unfit` are the identifiers that `checkIdentifier` refuses |
| `StateServer` | `api.go` | composes `Sessions`, `EventValidation` and `Aggregation`; a `GET /state` is two steps, snapshot and build, on one of any number of connections |
| `Rendering` | `agent_state.dart`, `state_response.dart`, the tray's title and menu, `render` of the terminal | pure operators on an answer of `Aggregation`; `utf16` is the order that Dart gives names |
| `Screens` | – | `StateServer` with what both clients make of its answers |
| `ClaudeAdapter` | `claude.go` | a payload is the three fields that are decoded |
| `HookPipeline` | the hook's `main.go` | composes `Sessions`, `EventValidation` and `ClaudeAdapter` with Claude Code sessions (external) and events on their way |
| `EndToEnd` | – | composes `HookPipeline` and `Screens`: agent, hooks, server, polling clients, one clock and one table |
| `TokenFile` | `auth.go`, start and stop of `server/main.go` | file absent, empty or filled; any number of server processes, each somewhere between reading the file and having the port |
| `StateService` | the address that clients poll | `TokenFile`, the bearer check, and an answer of `Aggregation` that changes in any way |
| `Display` | what a client of `GET /state` promises | abstract: what is right, what is shown, how long ago it was right |
| `TrayClient` | `tray_presenter.dart`, `state_client.dart` | composes `StateService` and `Rendering` with the app at the granularity of its awaits; implements `Display` |
| `TerminalClient` | `apps/cli/main.go` | composes `StateService` and `Rendering` with the poll loop; implements `Display` |
| `Orders` | – | a finite set in an order, in a form that the provers can look into |
| `SessionsProofs`, `SessionsHistoryProofs` | – | theorems about `Sessions` and `SessionsHistory` |
| `StateServerProofs` | – | theorems about `StateServer` and `Screens` |
| `HookPipelineProofs` | – | theorems about `HookPipeline` and `EndToEnd` |
| `TokenFileProofs`, `DisplayProofs`, `TrayClientProofs`, `TerminalClientProofs` | – | theorems about the modules they are named after |
| `MC*` | – | instances for TLC of `SessionsHistory`, `StateServer` with `Screens`, `EndToEnd` and both clients; the other runs take their module as it is |

Each definition that models code is listed with its lines in `PROJECT.json`
("map"). Operators named `X_something` before an `X` are broken versions of `X`,
kept to show that each property can fail.

Connections. A connection of `StateServer` carries one request at a time. The
terminal client is one connection. The tray's timer starts a poll whether or not
earlier ones came back (`tray_presenter.dart:100`), so the tray is as many
connections as it has polls out, and its answers may come out of order.
`SnapshotsNeverGoBack` is said of all pairs of connections: a snapshot is not of an
older table than any that was taken or answered before it, and an answer has the
`updatedAt` of its own snapshot. It does not say that answers arrive in the order of
their snapshots; that an old one may replace a newer one on the menu bar, and for how
long, is what `TrayClient` models and `TrayIsADisplay` bounds.

Names. The server picks the tool of the headline with `sort.Strings`, by bytes of
UTF-8 (`aggregation.go:92`); the app sorts rows of one state with `compareTo`, by
UTF-16 code units (`state_response.dart:88`). For ASCII names these are one
order, but `checkIdentifier` (`events.go:95-106`) lets others through: U+FB00
comes before U+1F600 for Go and after it for Dart. In a tie of two such tools the title
names one and the first row is the other's, and if only one of them waits too long
their signs differ. So `ScreensAgree` says what holds in spite of it: the headline's
tool has a row with the title's sign, no row above it is in another state, and it is the
first row unless the two orders differ on the names in that state. `screens` has two
tools whose orders differ and one for which they agree.

Prompts. `HookPipeline`'s sessions do one thing at a time, so nothing fires while a
prompt is up. Claude Code fires `PostToolUse` after every tool call and the adapter
makes each a `permission_granted` (`claude.go:79`), so one of a parallel tool or of
a subagent, fired while another tool's prompt is up, would take the light to
EXECUTING. `LightIsHonest`, `AskingReachesScreens` and `CalmReachesScreens` rest on the
assumption that this does not happen.

Other abstractions. Time is in whole ticks; the code's `StaleFactor` is a float and a
whole number here. Strings (ids, tools, tokens) are values with an identity.
Handlers that take the mutex are one step, which is what the mutex gives. Of a
string the validation only matters as far as its checks tell strings apart: fit or
not, a known name or not, an RFC 3339 date or not.
`HookPipeline` gives a new event the least id that no row and no process still
holds: with 128 random bits an id is new, and one that is forgotten everywhere
is as good as new. A hook is fired while some id is free, which is the bound in `Fire`
that stands for random ids not running out. Session ids are fit and not empty, as
Claude Code's are; the empty one is kept for payloads that have none. The events of a session on their way are kept in the order
they were fired so that overtaking can be seen; any of them may be handled next.
In `TrayClient` a tick is a poll interval. Steps of the app that do not involve
the network (reading the token file, calls to the menu bar) take less than an
interval, and calls to the menu bar return in the order they were made; requests
take any time up to the timeout. JSON errors count as an unreachable server.
In `TerminalClient` the loop's own steps take no time and a tick is what both
`Interval` and `Timeout` are counted in. Go's `select` picks at random between a
tick and a signal that are both there; a tick that finds the ticker's channel full
is dropped; a signal that finds one pending is too. The user may remove the token
file at any time but within its writing, which is a matter of microseconds and
would let a server fill a file that is gone.

## What is checked

| Run | Instance | Shows |
|---|---|---|
| `table` | 2 sessions, 2 ids, 3 clock readings, 1 restart, clients that poll | dates stay ordered, `updatedAt` covers every visible change, no call leaves anything overdue, sessions vanish only when ended or in the restart; DONE windows close and scheduled removals happen |
| `row` | 1 session, 3 ids, memory of 2, 4 events, 9 clock readings, windows of 2 and 3 gaps, 1 restart | the row's fields stay consistent, a repeat of a recent event is a no-op, time only decays, alarms are explicit; the lazy table implements `SessionLifecycle`; staleness by counting gaps, not by the median |
| `tool` | 2 sessions of one tool, 2 connections, 2 ticks a second, 1 restart, bodies of every kind | no refused body leaves a trace; `waitingTooLong` and the date tell one story; an answer is one moment; no snapshot is older than one before it |
| `screens` | 3 tools, two of which Go and Dart order differently, 1 connection, 1 restart | headline, menu bar and terminal of one mind, convergence of what clients see |
| `token` | 3 servers, 3 tokens | servers run on the token in the file, but for the races that the code does not handle |
| `hooks` | 1 Claude Code session, 2 events on their way, hooks async or not | the light is honest when all was heard in order; no event is refused, without a row or dropped as a repeat |
| `end_to_end` | 1 session, 1 event on its way, 1 restart, 1 connection | the light is honest over restarts; hooks let the agent go; a prompt reaches the screen, and leaves it |
| `tray` | 3 answers, 3 tokens, a timeout of one interval | the tray implements `Display`, title and menu agree, the tray converges |
| `terminal` | 2 answers, 2 tokens, an interval of 1 and a timeout of 2 ticks | the terminal implements `Display`, says what it heard, prints changes only, converges and can be interrupted |

Three runs end in a violation, each of a sentence in the documentation:

| Run | Documentation | Code |
|---|---|---|
| `duplicate` | `docs/protocol.md:57`, a repeated `eventId` is a no-op in any state | the memory is in the row: a repeat after the end of the session, or after 256 other events, is applied again (`sessions.go:158`) |
| `lingering` | `docs/protocol.md:165`, a state that needs attention stays visible for `doneDuration` after the end | a late event of the session replaces it at once (`sessions.go:199`) |
| `hooks_arrive` | `docs/protocol.md:110`, hooks arrive in order over loopback HTTP | one process per hook, started with `"async": true`, each with its own connection (`traffic-light-hook/main.go:120`) |

Some comments of the repository are out of date. They say nothing that a run could
refute, since documentation, code and model agree on the behaviour, but a reader of
the code should not go by them:

* `sessions.go:194-198` says that `session_started` for a tracked session has no matrix
  row "and so lands in UNKNOWN as an unexpected transition", and `sessions.go:167-168`
  that there is no such row by design. There is none, but `statemachine.go:95-104`
  and `docs/protocol.md` make it IDLE from any state, which is what `NextState` and
  `SessionLifecycle` have.
* `sessions_test.go:919-920` says that no matrix row maps a state to itself. Three do:
  EXECUTING with `task_started` and with `permission_granted`, WAITING with
  `permission_requested` (`statemachine.go:18-57`). `since` is kept then, as
  `setState` has it.
* `claude.go:59-62` leaves out `PreToolUse` because EXECUTING with `task_started` "is
  not a listed transition". It is one now.

The bounds are enough for the interesting cases to happen. In `row` the memory
overflows twice and a DONE window is entered, left and entered again; the four events
that may be accepted leave windows of two and three gaps, both enough to judge silence, so
that both branches of the median are taken; `MaxTime` leaves room for gaps that differ,
out of order, and a silence longer than `StaleFactor` medians after them (a median
that does not sort, or halves an even window wrongly, is found); a session can be
removed, revived and go stale, and a restart meets late events. In
`table` two sessions fall due at different calls. Rows do not influence each other
except through `updatedAt`, so two suffice. In `hooks` two events on their way are
the least that can overtake each other, and an event can be lost, late, or handled
after its sender has given up. In `tray` a poll overlaps the next one and is
overtaken by it; `Timeout = 1` gives the worst case of `Bound` exactly (it cannot be
lowered), and it is stated in `Timeout`: with the shipped 2 s and 300 ms, no state that
has ended is shown for longer than about 4.3 s. In `terminal` a request outlasts the
ticker, so that ticks are dropped and polls begin the moment another ends; the
terminal's bound is two timeouts, 4 s as shipped. Neither client's instance has a
bound on how long it runs: ages are told apart up to one more than the bound and no
further. Both have one server process, which crashes at every step of its start. In
`token` first starts run side by side, a server starts beside one that runs, each
may crash at any step, and the file may be removed under them; three are enough for one
to come upon the traces of two others. In `tool` the bodies each differ in one thing
from one that would be taken, and two connections are the least that overlap. In
`end_to_end` a second reading of the clock lets a DONE expire and a removal fall due,
and the restart cuts a request; two sessions or two events on their way are left to
`hooks` and `table`, where they matter. Symmetry is used only for ids and connections
in safety and refinement runs, none of which names one. Deadlock is checked in every
run; at the end of the clock calls are still possible.

## Fairness

* `Sessions!FairSpec`: time passes, and some client keeps reading. The terminal
  client polls every second and the tray every 300 ms for as long as they run, and
  without a reader there is nobody to show a state to. Nothing is assumed of
  events.
* `StateServer!SFairSpec`: each connection goes on being polled, as it does for a
  client that runs, and a handler that has its
  copies finishes: nothing in `Build` blocks.
* `EndToEnd!EFairSpec`: hook processes run and their timers fire, whatever the server
  does with their requests; time passes; clients poll and are answered. Delivery is
  not fair, nor is anything assumed of Claude Code: `AskingReachesScreens` has as
  premise that the server has heard the session.
* `TerminalClient!CFairSpec`: the loop runs, a request times out, time passes. For
  `Quit` it is strong fairness, since each poll makes the loop look away from the
  signal and Go's `select` picks at random among what is ready: a signal that is
  there at one look after the other is taken at some time. With weak fairness a
  server that answers as slowly as the ticker ticks would keep the client for ever.
* `TrayClient!TFairSpec`: the app's event loop runs, time passes and a request is
  answered, refused or timed out. `TrayConverges` has as premises what no fairness
  gives: that the server stays up, its token stays in the file, and requests are
  eventually answered in time.

## What is proved

All of these hold for any sets of tools, sessions, ids, tokens and connections, any orders of names, any tuning
of durations, factors, memory, timeouts and intervals, any clock and any number of
restarts. The assumptions are those named in the modules: the tuning consists of
natural numbers, intervals and timeouts are positive, markers (no tool, no token) are
none of the things they mark, no two names are in one place of an order, and what hooks carry is what Claude Code sends. The
shipped configuration satisfies them and the two extra ones stated with some theorems.

| Module | Theorem | Property |
|---|---|---|
| `Sessions` | `TypeCorrect` | `TypeOK` |
| | `DoneWindowHolds` | a DONE deadline exactly while DONE, `DoneDuration` after `since` |
| | `DatesOrderedHolds` | no date ahead of `updatedAt`, nor that of the clock |
| | `DedupMemoryHolds` | set and FIFO hold the same ids, none twice, at most `MaxSeenEventIDs` |
| | `AlarmsAreExplicitHolds` | WAITING and ERROR are entered by their own event only |
| | `UpdatedAtHolds` | `updatedAt` dates every visible change |
| | `GoneOnlyWhenEndedHolds` | a session leaves only by its end, its removal or a restart |
| | `NothingOverdueHolds` | no call leaves anything overdue, if `DoneDuration > 0` |
| | `TimeOnlyDecaysHolds` | time alone only makes DONE IDLE and EXECUTING UNKNOWN, if `DoneDuration > 0` and `MaxSeenEventIDs > 0` |
| | `StaleOnlyWhenSilentHolds` | EXECUTING goes UNKNOWN only after a silence beyond the floor and `StaleFactor` medians, under the same two conditions |
| | `ImplementsLifecycleHolds` | the lazy manager implements `SessionLifecycle`, if `DoneDuration > 0` |
| | `AskingAgainHolds` | `AskingAgainTellsTheSame`: no call leaves work to the next, if `DoneDuration > 0` |
| | `ReadsLeaveNoTraceHolds` | `ReadsLeaveNoTrace`: a read changes nothing that a later call would find, but the date of an UNKNOWN |
| `SessionsHistory` | `RecentRepeatHolds` | a repeat of one of the last `MaxSeenEventIDs` accepted events changes nothing |
| `StateServer` | `STypeCorrect` | `STypeOK`: nothing unfit gets into the table or an answer |
| | `HeadlineHolds` | `HeadlineIsMostUrgent` |
| | `WaitingTooLongHolds` | `WaitingTooLongFollowsSince`: flag and date agree to the second |
| | `AnswerIsOneMomentHolds` | no date in an answer is later than its `updatedAt`, nor that than the answer |
| | `SnapshotsNeverGoBackHolds` | no snapshot is of an older table than one before it, on whichever connection, and an answer has its own snapshot's `updatedAt` |
| | `ServerImplementsSessions` | behind the API the table takes the manager's steps only: `SSpec => Spec` |
| `Screens` | `ScreensAgreeHolds` | menu bar and terminal tell one story of each answer, but for which tool comes first in a tie of names that Go and Dart order differently |
| `HookPipeline` | `PTypeCorrect` | `PTypeOK` |
| | `EveryHookIsAcceptedHolds` | no event on its way is refused, and each has its rows in `fromEvent` and `matrix` (`session_ended` needs none) |
| | `EveryHookCountsHolds` | no event on its way is taken for a repeat |
| | `LightIsHonestHolds` | the light is right for a session of which all was heard in order |
| `EndToEnd` | `LightIsHonestOverRestarts` | the same, with restarts and clients |
| | `SnapshotsTellHolds` | `SnapshotsTell`: a prompt that was heard is in every answer built of a later snapshot; when none is up, no such answer has Claude Code WAITING |
| | `EndToEndImplementsSessions` | `ESpec => Spec`, so that all that is proved of `Sessions` holds of the whole |
| | `AnswersHoldEndToEnd`, `NeverGoBackEndToEnd` | what is said of answers holds of the whole as well |
| `TokenFile` | `TokenIsSharedHolds` | `TokenIsShared` for any number of servers |
| `Display` | `NeverLongWrongHolds` | nothing is shown that has been over for longer than `Bound`, if `Fresh <= Bound` |
| `TrayClient` | `TTypeCorrect` | `TTypeOK` |
| | `TitleAndMenuAgreeHolds` | `TitleAndMenuAgree` |
| | `TrayIsADisplayHolds`, `TrayIsNeverLongWrong` | the tray implements `Display`, so it is never long wrong |
| `TerminalClient` | `CTypeCorrect` | `CTypeOK` |
| | `TerminalSaysWhatItHeardHolds` | the last thing printed is what the last poll heard |
| | `PrintsOnlyChangesHolds` | nothing is printed twice in a row |
| | `TerminalIsADisplayHolds`, `TerminalIsNeverLongWrong` | the terminal implements `Display`, so it is never long wrong |

### The manager

The argument goes along the code's layers. Lemmas give the type of what each row
operator returns; a row after a call is either an old row that `expire` has
passed over or one that `put` has just written (`RowOrigin`), so each invariant
is shown for `expire` and for what an accepted event leaves. `TypeOK` and
`DoneWindow` are inductive together. `DatesOrdered` needs both: an expired DONE is
dated from its deadline, which is in the past only because `DoneWindow` says what
the deadline is. `DedupMemory` follows from `MemoryInv`, which also says that no
id occurs twice in the FIFO, which keeps the cut of the queue and that of the set
the same; it is preserved because a repeat never reaches `markSeen`.
`NothingOverdueHolds` needs `DoneDuration > 0`, since with zero a DONE is overdue
when it is entered. `TimeOnlyDecaysHolds` needs `PendingInv`, and a memory that
holds at least the last id, by which an accepted event can be told from none.

`StaleOnlyWhenSilent` counts gaps where the code sorts them: at least half of the
kept gaps are shorter than the silence divided by `StaleFactor`. The proof shows that
at least half of the gaps are no longer than the code's median (`MedianIs`), split on
an odd or even number of them; the sort itself is not needed, only that its entry
at a place is the least gap that so many are no longer than. `ImplementsLifecycle` goes action by action: each
way out of `Apply` is a step of the abstract session or a stutter, with the
removals and expiries that the call finds due as the timers that had gone off.
`TypeOK'` and `DoneWindow` are what the mapping needs besides the step.

Two theorems say directly what lazy deadlines rest on. A call leaves every row
`Settled`, so a second call at the same moment finds nothing to do. And looking at a
row at one time and then at another is looking at the other (`ExpireTwice`), since
deadlines stay passed and silence only gets longer: polls do not influence what the
light becomes. The one trace is the date of an UNKNOWN, which is that of the call
that noticed; without this exception TLC refutes the property.

`RecentRepeat` needs `HistoryInv`: the FIFO of a row is the end of the log of what
its key has accepted since the row was made, as long as the memory allows. Neither
log nor FIFO says enough alone, for the row may be new and the memory cut.

### The server and its answers

`ServerInv` says that whatever a client holds comes of one snapshot (`IsSnapshot`): a
finite set of copies, none dated after the `updatedAt` that was taken with them. It
stays so while the table moves on under the handler, which is why the properties
of an answer hold however long `Build` is delayed. `DatesOrdered` gives it when the
snapshot is taken. The lemmas about steps take a step of the manager and one of
the calls, whoever posts the events, so that they serve `EndToEnd` as well.

`ScreensAgree` compares an order that is sorted in Dart with one taken over from Go.
`IsOrder` and `ListExists` show that a finite set can be listed in any total order,
by taking least elements away; so `InOrder` is such a list, and since all that comes
before a tool in it is as urgent or more, the tool of the headline, than which none is more
urgent, has only ties above it (`HeadlineInMenu`). Where the two orders agree on the
ties, a first among the most urgent is both the headline's and the list's.

### Hooks and the light

`EveryHookCounts` is not inductive: a hook could be taken for a repeat of another one
that is still on its way. `Unseen` says that no row knows an id on its way, and
`Distinct` that no two events on their way share one.

`LightIsHonest` speaks of sessions of which nothing is on its way, and no step is
known to keep that alone. `QueueInv` carries it: the overtaken events of a queue are
before the others; each event that was not overtaken was fired in a state that the
next one follows from, and the last in one that fits what the session does now
(`Linked`); and the row of a session that is heard in order fits what the session
did when the oldest of these was fired (`UpToDate`). `Fits` is stronger than honest,
because it has to last while time passes: WAITING stays, EXECUTING may only become
UNKNOWN by silence, and an ended session may only vanish. A restart
leaves no session `synced`, and what is still on its way counts as overtaken, so the
invariant survives it.
`EndToEndInvHolds` puts `HookInv` and `ServerInv` together, and `SnapshotsTell` is
what both say of a snapshot. It is the safety half of `AskingReachesScreens` and
`CalmReachesScreens`; their other half, that snapshots are taken, is fairness.

### Token file and clients

`TokenIsShared`: once a server is past loading its token, the file holds it. The
exception is what the code does not handle, two first starts side by side or a
file removed under a server (`disturbed`). The inductive invariant is `Settled`: a
server that makes a token is alone until the file holds it, so no other can have
loaded something else.

Both clients are shown to implement `Display` from an invariant with the same parts:
an answer on its way was right after its poll began; what is right now is of age
zero; and what has been over for long is about to be replaced. That last part is
what makes the bound inductive, and is where the clients differ. In the tray a
poll begins each interval (`OneEachInterval`), so that some poll is young enough
whatever overtook what. In the terminal one poll is in flight at a time and ticks are
dropped, so its bound takes the longer of interval and timeout, and `TickerAhead`
says when the next poll begins. `MenuFollows` (the title is of the refresh whose
menu comes last) gives `TitleAndMenuAgree`; `Remembers` (what the loop compares with
is what it printed last) gives the two properties of the terminal's output.

### What is only model-checked

* Liveness: `ScreensConverge`, `AskingReachesScreens`, `CalmReachesScreens`,
  `AgentIsNeverHeldUp`, `TrayConverges`, `TerminalConverges`, `InterruptIsHeeded`,
  `DoneIsEphemeral`, `EndedIsForgotten`. They rest on fairness, and so on ENABLED, which
  the provers do not have.
* The three violated sentences of the documentation.
* What the provers cannot look into is kept out of what is proved about: no
  definition is declared RECURSIVE, and the menu's order and the ids left after a
  restart are lists by `InOrder`, not by the sort and the selection of the
  community modules. TLC evaluates the same definition that the proofs use.

## What is not modelled

* Configuration: defaults and a path; the values are the constants.
* The terminal's `-once`, which is one poll and no state, its colours and stamps.
* `GET /health`, JSON, logging, the time the server's shutdown gives to requests.
* The tray's icon, wording of rows, clock and quitting.
* Simulator and capture tools, which keep no state of their own: their event sequences are among the arbitrary ones.
* The crash that leaves an empty token file is in `TokenFile`, but no property says
  that it is recovered from: it is not, until the file is removed.

## Plan

Done, in this order: the manager with its proofs, its history and lifecycle, the
server with its clients, the hook pipeline, the tray with the token file; then event
validation, the terminal client, the abstract display that both clients implement,
the system from agent to screen, and the proofs about the token file and displays;
then the proofs of every safety property that the runs check, with the refinements
of `SessionLifecycle` and `Display` and the invariant of the whole system.
What is left is proof:

1. `SnapshotsTell` carried on to the moment an answer arrives: what a session does
   may have changed since the snapshot, so it takes a history of the moment of it.
2. That rows do not influence one another but through `updatedAt`: the steps of one
   key are those of a table with no other, which is why two sessions suffice in `table`.
3. The bearer check and both clients beside several servers, where `TokenFile` has
   any number and the instances of both clients one.
