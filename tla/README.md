# A verification development for DevLogBus

DevLogBus collects log records from the programs of a developer's machine in one
daemon, `devlogbusd`, keeps the newest of them in memory, and shows them in a
terminal viewer and a browser. This directory holds TLA+ modules translated from
the code, TLC configurations that check them on small instances, and theorems
about them that the TLA+ proof system checks for every value of the constants.
Paths below are relative to the repository.

## The system

| part | state it keeps | operations | interacts with |
|---|---|---|---|
| Broker core, `internal/devlogbusd/app/broker.go` | `ring`, `nextRecord`, `subscribers`, all under `mu`; a channel of 512 per subscriber | `publish`, `replay`, `addSubscriber`, `removeSubscriber`, `expunge`, `stream` | every connection is a goroutine that calls it |
| HTTP API and SSE, `http.go` | none of its own | POST/GET/DELETE records, `GET /api/stream` | calls the broker core, in one goroutine per request |
| Wire protocol, `pkg/protocol` | none | `NormalizeLevel`, `LevelValue`, `Matches`, `Validate` | called by broker, client and viewers |
| Go client, `pkg/client` | a connection, a record and an error channel | `Publish`, `Subscribe`, `Expunge`, `Close`, hooks | a reader goroutine feeds the viewer |
| slog handler, `pkg/sloghandler` | a bounded queue | `Handle`, sink goroutine with redial | client |
| Runtime, `pkg/runtime` | configuration, publisher, queue | `Enable`, `Disable`, `Configure`, `Close`, worker goroutine | slog, client |
| CLI and TUI, `internal/devlogbus/app` | rows by record id, source filters, subscription | tail, replay, expunge, reconnect | client |
| Daemon lifecycle, `broker.go`, `settings_rpc.go` | listening sockets, settings socket | run, shutdown, rebind, settings calls | file system, other daemons |
| Settings and accounts, `settings.go`, `auth.go` | users, sessions, persisted settings | login, logout, add, delete, change | HTTP API, settings RPC |
| Journal bridge, `internal/journalbridge/app` | position in the journal | follow, publish | client |
| Browser Tap, `extensions/chrome-devlogbus` | attached tabs, queue, options | attach, detach, flush | `POST /api/records` |
| Browser UI, `internal/devlogbusd/ui/src` | records, windows, workspaces | stream, clear, expunge | HTTP API |
| SDKs, `sdk/*` | none between calls | publish | `POST /api/records` |

What is hard here: publishing connections send to subscriber channels outside the
lock that numbers their records; a stream takes its replay under one lock section
and enters the table under another; channels are bounded and lossy; expunges run
against all of this; clients stop reading or go away; queues in the publishing
programs fill, redial and lose; the daemon restarts and numbers records from 1
again; the handlers of the browser extension interleave at every `await`, and its
worker is stopped at will; the effects of the viewer run after what they depend on was
rendered, with events and answers between; and several windows change one list in
`localStorage` and tell each other by two channels at once. `PROJECT.json` lists these
hazards at their lines, with the properties that cover them, or why none does.

## The modules

| module | what it is |
|---|---|
| `Protocol` | level names, their order, and the subscription filter |
| `Retention` | what the ring keeps, an expunge removes and a replay takes, as sets of record numbers |
| `LogBus` | the abstract specification: a log, a replay set of the newest records of each source, and at most one, publisher-ordered delivery to each stream. It is a specification and models no code |
| `Broker` | the broker core and its two transports, with every interleaving |
| `RingArray` | the ring slice and the in-place loops over it. Extends `Retention` and `Lists` |
| `RingArrayProofs` | the theorems about the slice |
| `BrokerInv` | the inductive invariant of the broker |
| `BrokerProofs` | the theorems about the broker |
| `Uplink` | what the slog handler and the runtime share: the bounded queue and the client's publisher |
| `SlogSink` | the slog handler and its worker goroutine |
| `Runtime` | the reconfigurable runtime, its callers and its worker goroutine |
| `ListProofs` | the lemmas about sequences, counting, places and lines of records that other proofs cite |
| `RuntimeProofs` | the theorems about the runtime and, as an instance, about the slog handler |
| `Subscription` | the client's subscription: its reader goroutine and channels, and the daemon as a subscriber sees it |
| `TuiStream` | the terminal viewer: its stream goroutine, its events and the merged view. Extends `Subscription` |
| `TuiStreamProofs` | the theorems about the terminal viewer |
| `TapRecords` | what the browser tap makes of one debugger event: options, filters, redaction, remembered requests |
| `BrowserTap` | the tap's service worker, its popup and the browser as they see it. Extends `TapRecords` |
| `BrowserTapProofs` | the theorems about the tap |
| `Lists` | the places of a list in order, as filtering a list keeps them, and the order of records that several goroutines make |
| `Auth` | the accounts and sessions of the daemon, one operator per critical section |
| `Viewer` | one window of the browser viewer against the daemon: sign-in, stream, rows. Extends `Auth` and `Lists` |
| `ViewerProofs` | the theorems about the window |
| `Views` | what a window shows of the rows it holds: scopes, merged view, panes |
| `Workspaces` | the saved workspaces |
| `Windows` | the windows of the viewer at one origin, with the storage and the messages between them. Extends `Views` and `Workspaces` |
| `WindowsProofs` | the theorems about the windows |
| `MCBroker`, `MCRingArray`, `MCSlogSink`, `MCRuntime`, `MCTuiStream`, `MCBrowserTap`, `MCViewer`, `MCWindows` | instances for TLC |

### Broker: state and actions

A record is named by its number, the value of `nextRecord` when the broker took
it. `log` is the sequence of all records ever taken (`nextRecord` is its length)
and `ring` the numbers still in `b.ring`. A publisher `p` has `last[p]`, the
record its goroutine holds, and `todo[p]`, what is left of the copy of the
subscribers it made under the lock. A stream `c` has its place in the handler
(`phase`), its subscription, the replayed records still to write, its channel,
the record the handler holds, whether its client is connected (`up`), and `wire`,
what the client received. The subscriber table is the set of streams in phase
`live`. `floor`, `cut`, `cutFloor`, `joined` and `dropped` are history variables:
nothing reads them but the properties.

| action | code |
|---|---|
| `Publish` | `publish` up to the unlock: number, append, prune one source, copy the matching subscribers |
| `Send` | one turn of the loop after the unlock, with its `default` case; the copy follows the order of a Go map, so any order |
| `Expunge` | `expunge`, from a connection or `DELETE /api/records/expunge` |
| `Subscribe`, `WriteReplay`, `EndReplay`, `Join` | `stream` and `handleHTTPStream` up to the table: replay under the lock, one write per record, `replay_complete` or a flush, `addSubscriber` |
| `Receive`, `Write` | the loop over the channel: the handler holds one record while it writes it |
| `WriteFails`, `SeeDisconnect` | the two ways a handler returns, with its deferred `removeSubscriber`; only an HTTP stream sees its context done or writes a keepalive |
| `Disconnect` | the client closes |

The lock sections are single steps because `mu` is held throughout and nothing
in them blocks. A record's id is its number unless the publisher gave one; its
time, message, attributes and the echo to stdout are payload. A level is
canonical after `NormalizeLevel`; levels the code does not know are one value,
`trace`; trimming blanks is folded into the spellings, and into the source names of
an expunge. A batch posted over HTTP is a run of publishes by one publisher, and
`GET /api/records` is the replay without a stream: it changes nothing. A write to
a client that is gone may succeed (into the socket buffer) or fail, in any order.
A flush's error is ignored, as in the code. The restart of the daemon is not in
this module.

### RingArray

`Broker` takes the ring for a set. That is sound because the slice always holds
record numbers in increasing order: `RingArray` keeps the slice and runs the
loops of `pruneSourceLocked`, `expunge`, `replay` and `limitReplayPerSource` as
written, in place, one turn after the other (`DropOrCopy`, `CountOrCopy`, `Mark`, `CopyMarked`, with `CopyDown` for
the write into the slice that is being read). It is checked, and proved, to compute `Retention`'s replay in order
(`ReplayIsSpecified`), to count in an expunge's loop what that loop removes (`ExpungeAnswersRemoved`) and to
implement `LogBus` (`ImplementsRetention`). A negative limit, which a client of the socket may send, is none.

### Uplink, SlogSink and Runtime

These are the two ways a Go program logs to the bus without waiting. A record is
named by its place in `log`, the records the program logged. `queue` is the channel to
the worker, `held` the record the worker has in hand, `dials` the endpoints it
connected to, `link` its publisher (a place in `dials`, or 0), `sent` what it wrote
and on which connection. Whether a dial or a write succeeds is up to the
network. A write that fails at its deadline may still have put the whole record in
the socket, so `PublishFailed` may leave it in `sent`; a write that succeeds may
have been held back by the filter, so `Published` may not. What the broker reads
of it, and in which order it reads two connections, is not part of these modules.

| action | code |
|---|---|
| `SlogSink!Handle` | `Handler.Handle`: the record is queued, or dropped when the queue is full |
| `Take`, `DialSucceeds`, `DialFails`, `PublishSucceeds`, `PublishFails` | a turn of the worker, cut at the calls that block |
| `Runtime!Handle`, `Enqueue` | `Handler.Handle` up to the snapshot it takes under the lock, and its `select`: other goroutines and reconfigurations come between |
| `Configure`, `Enable`, `Disable`, `SetEndpoint` | the calls of these names, each one lock section |
| `Snapshot` | the worker's `snapshot` and what it decides from it; the lock is released afterwards and the decision may be stale at once |
| `Stop` | the worker's `select` takes the `stop` case, its deferred calls close the publisher and `done` |
| `Close`, `CloseReturns` | `Close` up to its wait, and its return |

`configs` (the configuration of every generation), the generation in each entry of
`log` and `late` (records written since publishing was disabled) are history. An
endpoint that does not parse is rejected before anything changes, and network, address
and socket path never change after `New`; they are part of the endpoint. `lastError` is
a flag. A level below the handler's never reaches `Handle`; attributes and groups
are payload.

### Subscription and TuiStream

Four goroutines and a daemon hand each record on: the daemon writes it to the connection
(`pipe`), the reader of `Subscribe` decodes it (`item`) into the records channel
(`records`), `streamTUIRecords` (`work`, `got`) makes an event of it (`events`), and `Update`
merges it into the rows of the merged view (`rows`). A record is named by its place in
`taken`, the order of time; its id is its number in the daemon's life, so that a daemon
that restarts gives ids again. `missed` and `holes` are history: whether a new record was kept
from a connection (published between replay and table, or its channel full), and
whether the viewer skipped a record because it was paused, or cleared one, that was to come
again, from the daemon's ring or from what was under way (`ComesAgain`); in both cases when, since a
later connection's replay repairs it.

| action | code |
|---|---|
| `Publish`, `Accept`, `Join` | the daemon as `Broker` models it, for one stream without a filter; `Publish` may fail to reach a stream in the table, as with a full channel |
| `Lose`, `Crash`, `Restart` | the connection or the daemon ends; any part of what was written may still be read |
| `Decode`, `Send`, `DecodeFails`, `Release` | the reader goroutine, and its deferred calls one by one |
| `Announce` | every `sendTUIEvent` of the stream goroutine, waiting for room |
| `Dial`, `DialFails` | `Subscribe` under its two-second context; it returns before the daemon has read the subscription |
| `Load` | `loadInitialTUIReplay` with its four cases, and the drain |
| `Follow` | the `select` over records and errors |
| `Reconnect`, `Cancel` | closing and sleeping, and the `ctx.Done` cases |
| `Update`, `UpdateClosed` | `Update` with an event of the stream or with the end of the events, `handleRecord` and `mergeTUIRecord` with its limit |
| `TogglePause`, `ClearKey`, `ExpungeKey`, `Quit` | the keys, in the merged view |
| `ExpungeServed`, `ExpungeFails`, `ExpungeEnds` | the expunge command: the request, an error or timeout, its result in `Update`; a request whose answer is too late may still be served |

Time is not modelled: the fallback timer may fire at once, before anything has come. The
drain takes record after record, so that the reader may add to it. A connection
that is lost is noticed by the reader in the end; one that stays silent for ever is not modelled
(nothing in the client notices it). The event `waitForTUIEvent` has taken from the channel
is counted as still in it until `Update` handles it. The viewer subscribes to every source
and level; levels, search, exclusions and scrolling only choose what of `rows` is drawn. The by-source view, with its pauses and its expunge of several sources, is not
modelled.

### TapRecords and BrowserTap

The tap is JavaScript: a handler runs until it awaits, and other handlers run meanwhile. A handler
that waits is an entry of `tasks`, with its place (`at`) and what it has read. `attachedTabs`,
`overrides` (`detachReasonOverrides`), `recent` (`publishedDetachRecords`), `cachedOptions`, `queue` and
`flushTimer` are the worker's variables; `stored` is `chrome.storage.local`, `badge` what the
toolbar shows, `session` the debugger session of each tab as the browser knows it. `popup` is the popup with
its form and its buttons. `made`, `posted`, `notices`, `excused` and `overtaken` are history.

| action | code |
|---|---|
| `OnEvent`, `OptionsLoaded`, `EventTab` | `chrome.debugger.onEvent`: `loadOptions`, `stateForTab`, then `handleDebuggerEvent` with its filters and `enqueueRecord` |
| `OnDetach`, `PublishDetach`, `NoticeTab` | `handleDebuggerDetach` and `publishDetachRecord`, cut at the badge, the options and the lookup of the tab |
| `OnRemoved` | `chrome.tabs.onRemoved` |
| `WindowEnds` | the timer that forgets a detach record after a second |
| `TimerFires`, `PostReturns` | `flushQueue` by its timer; the post's answer |
| `OpenPopup`, `ClosePopup`, `ClickAttach`, `ClickDetach`, `ChangeInput`, `AnswerReturns` | `popup.js`, with the message each sends and `renderStatus` |
| `Saved`, `AttachTargets`, `Attached`, `Enabled`, `Lit` | `saveOptions`, then `attachActiveTab` cut at each await |
| `DetachTargets`, `BrowserDetaches`, `DetachFails`, `Detached` | `detachActiveTab` |
| `EndSession`, `CloseTab`, `WorkerStops` | the user, DevTools or the page end a session; Chrome stops the worker |

The browser serves calls and tells of a session's end in order: of a later attach or detach of the tab it
speaks after the end of the earlier session was heard (`Heard`). Two ends of one session, of the
popup's doing and of Chrome's event, are heard within the second in which `publishDetachRecord` drops the other
(`WindowEnds`). `chrome.tabs.query` is part of the await that follows it. A record is known by
whether it is an attach, a detach or an event, and an event's text by the secrets it holds; formats, stack traces and
console arguments are payload. `flushQueue` finds the options loaded, which is a part of
`QueueKept`, so that taking a batch and posting it are one step. A post that fails is
logged and its batch gone, as one that succeeds. The tap starts with no tab attached, or with some attached
already.

`RulesInForce` judges each record when it is made, by the options that were stored when its event was
raised. It asks nothing of a record made after a save during which another handler was reading the
storage (`overtaken`, until the worker is stopped): that handler then puts the older options into the
cache, where they stay until the next save or stop. With five moves TLC finds such a behaviour: the worker
was stopped, the popup saves, an event arrives before the options are read, both read them, and the
event's turn comes last.

### Auth and Viewer

`Auth` has one operator for every critical section of `authManager`: what it reads and what becomes of
the accounts, the setting and the sessions. `Viewer` composes it with the daemon's records as
a window can tell them apart, the `EventSource`, the requests under way (`calls`) and React's
state. What a handler sets is rendered at once; the effects that depend on it run in a later
step (`Effects`), so `ran` holds the dependencies they ran with last, and with them the refs
that the effects keep for the stream's listener.

| action | code |
|---|---|
| `ServeSession`, `ServeGuarded` | the handlers of the accounts' API and of expunge behind `withHTTPAuth`; a login is verified outside the lock and stored later |
| `LoseCall`, `Unanswered`, `Failed` | a request that is lost, refused or meets no daemon, and what the window makes of it |
| `StatusAnswered`, `UsersAnswered`, `ExpungeAnswered` | the code after the await of each request; an expunge of a group is one request after another |
| `Connect`, `OnError` | the `EventSource`: replay, refusal for good, and reconnecting |
| `OnRecord` | the record listener with `mergeRecord` and its limit per source |
| `Effects` | the effects of login, of blocked sources and of the stream, with its cleanup |
| `AtGate`, `Manage`, `Expunge`, `Clear`, `Pause`, `Block`, `SyncBlocked` | the sign-in page and the buttons of the window |
| `Publish`, `Join`, `Lose`, `Crash`, `Restart`, `Others` | the daemon and other browsers |

A restart forgets records, ids and sessions and keeps accounts and the setting, which are
on disk. As it gives ids again, a record can take the row of an older one: `Replaced` names the older
one, and `lost` keeps it, with what was not sent on this stream and what the window threw away. A password is right or wrong, a session a token that was given out. A record
may be dropped when the pipe to the window holds as many as the daemon's channel does (`ChanCap`): some of them may have
left the channel already. How many records the daemon retains of a source is left open (`Retain`), as `Broker` has the bound. Pausing the merged view and
pausing a source are both modelled, the view mode itself is not.

### Views, Workspaces and Windows

`Views` is the chain of filters from rows to panes, in sets. `Windows` has a main window and
one popout per target, `localStorage` (`stored`), the messages of the `BroadcastChannel`s (`mail`)
and the storage events (`events`) on their way to each window. Every window receives the same rows, which
`Viewer` shows, so the rows are a fixed set of kinds.

| action | code |
|---|---|
| `OpenPopout`, `ReattachTarget` | the functions of these names, with `updateDetachedTargets` |
| `LoadPage`, `Mount`, `Listen` | a page is loaded, its first render reads the storage, its effects subscribe |
| `CloseEffect`, `CloseTimer`, `UserCloses` | the effect of a popout whose target was reattached, its 80 ms, and the user |
| `SyncMessage`, `SyncFromStorage` | a message, which carries the list; a storage event, at which the list is read |
| `BlockSource`, `UnblockSource` | from a pane or a chip, with `updateBlockedSources` |
| `ToggleExcluded`, `ToggleGrouping`, `TogglePaneLevel`, `ToggleLevel` | settings of one window |
| `SaveWorkspace`, `AskToConfirm`, `Confirm`, `Cancel`, `LoadWorkspace` | the dialog, which may be open in every window |

Messages of a channel come in the order they were sent, storage events in theirs, and neither waits
for the other. A window acts whether or not it has read its mail. When it has not, or when another has
read the storage and does not listen yet, its change crosses the other one (`crossed`): the two
windows can then disagree for good, until the next change that crosses none. `WindowsAgree` and
`EachRowHasItsPlace` leave such topics out, as the code does nothing about them. A popout that is still loading when its
target is reattached never learns that it was detached and stays open; one that the user closes leaves
its target detached. A row without a source is counted, and has no pane in a group shown by source.
An update of a workspace saves the settings of the moment the prompt was opened.

A window is named by its target in the model. To the browser it has the name `popoutWindowName` gives, in which
characters other than letters, digits, `_` and `-` become a dash, and targets with one name share one window (`WindowName`,
`Namesakes`): opening the second puts it in the first one's place. The targets of the run have names of their own; an
instance with a third target that shares the window of another was checked once and passes
(418 thousand states).

## The runs

| run | instance | states | what it shows |
|---|---|---|---|
| `broker` | 2 publishers (one HTTP), 1 HTTP stream, 1 source and the empty one, 2 records retained, channel of 1, 3 records | 319 thousand | all safety properties, the refinement of `LogBus`, `PublishReturns` and `HTTPStreamReleased` |
| `ring_array` | 2 sources and the empty one, 5 records, 48 subscriptions | 270 thousand | the array loops |
| `slog_sink` | 2 goroutines, queue of 2, 4 records | 8 thousand | the queue drains |
| `runtime` | 1 goroutine, 2 brokers, queue of 1, 3 records, 2 changes of the configuration | 390 thousand | order, the right broker, quiet when disabled, `Close` |
| `tui_stream` | 1 source, 3 records, 2 retained and shown, channels of 1, 1 loss, keys p, c and x | 1.1 million | once each, in order, up to date; no reader left behind |
| `tui_live` | 1 record, 2 losses, key q | 34 thousand | `ComesOnline`, `OnlineIsTrue`, `StreamEnds` |
| `browser_tap` | 1 tab, 2 pages, 2 sets of options, 4 events, batches of 2, 2 handlers that wait, 2 sessions, 3 moves | 292 thousand | the queue is kept, each detach is told, once, options in force, the badge |
| `viewer` | 1 account, 2 sources, 2 records, 1 row per source, channel of 1, 2 requests under way, 2 moves | 1 million | nothing withheld is kept, rows up to date, `ComesOnline` |
| `windows` | a tab with two sources and a source alone, the tab and one of its sources as targets, 2 names that differ in case, 4 moves | 312 thousand | windows agree, each row has its place, popouts close, workspaces are kept |
| `broker_gap` | channel of 2, 2 records | violation | `NoGapAfterReplay`: a record can be in neither replay nor live delivery |
| `runtime_disable` | 1 goroutine, 1 broker, 1 record, 1 change | violation | `DisableClosesPublisher`: the connection stays open |
| `tui_order` | 2 records, 1 loss, no keys | violation | `OneChronologicalStream`: a missed record is shown below a newer one |

Bounds. `MaxPublish` bounds the records ever published; everything else is
bounded by it, as expunges change nothing twice in a row and a stream is opened
once. Three records are enough for one to be in the channel, one in the handler's
hand and one to meet the full channel, and for a source to exceed two retained
records. `ChanCap` stands for 512. One stream is enough since streams do not share state
except the ring, which they only read; an instance with a stream of each transport
and two records, and one with four records, were checked once and also pass (4.5
and 3.6 million states). The run of the broker has `FairSpec` for its two liveness
properties; the safety properties hold of `Spec` as well, and are proved of it. Deadlock checking is off because a model with a bound
on publishing, whose clients may all be gone, stops.

`MaxLogged` and `MaxGeneration` bound the records a program logs and the changes of the
configuration. Three records are one in the worker's hand, one in a queue of one and one that
meets it full; two changes are enough for a disable and an enable, or a move of the endpoint
there and back, within one turn. The runtime's instance has one goroutine, since what two
do to each other (their records overtake between `Handle` and `Enqueue`) concerns no
property but the order, which is proved for any number; an instance with two goroutines and two
records was checked once and passes.

`MaxLosses` bounds how often a connection, a dial or the daemon is lost, and the model expunges
once. One loss is enough for a second connection to replay what the first delivered in
part, and for ids to be given again; two, in `tui_live`, for a failure while recovering from the
first. Three records exceed the two that are retained and shown, so that the limit drops a row.
Channels of one place stand for 128 and 256: each of the four goroutines can be found waiting for the next.

In the browser's modules `MaxMoves` bounds what users, pages and networks do of their own accord;
everything else follows. In `BrowserTap` three moves are the popup opened, its button pressed and an
event, a save or a stop in any order; ends of sessions and closing tabs are not counted. Two handlers that
wait (`MaxTasks`) are two that can overtake each other, and two sessions an attach while
the end of the last one is still being told. One request remembered and two in the page make one
forgotten. In `Viewer` two requests under way (`MaxCalls`) can answer in either
order, two moves are a crash and a login, or a block and an expunge, and two sources with one row
each tell a limit per source from one on all. In `Windows` four moves are two popouts, one inside the
other, opened and reattached, or two windows that block at once and a third change that heals; the agreement is
proved for any number.

The three violations are disagreements between documentation and code, listed in
`PROJECT.json` under findings. In `runtime_disable`, publishing is disabled while a
connection is open and nothing is queued: the comment on `Disable` says it closes the
publisher, but only the worker does, when a record comes. In `broker_gap`, a record is
published after the replay was copied and before the stream is in the table, while
`docs/http-api.md` describes a stream as the replay followed by live records. In `tui_order`
that record then comes with the replay of the viewer's next connection, and is appended below
newer ones, while `docs/tui.md` calls the merged view one chronological stream. `Chronological`
states what does hold: the rows are in the order of time while nothing was kept from the viewer
or forgotten by it before it came again, no id was given twice, and the viewer asks for no more records of
a source than it shows (`Undisturbed`; the program asks for as many as it is told to and shows 1000).

Fairness (`Fairness` in `Broker`). A goroutine that can run is run: weak fairness
for the sends of each publisher and for the handler's own steps. Go's `select`
picks among ready cases at random, so a case that is ready again and again is
taken: strong fairness for `SeeDisconnect`, which competes with the channel. A write
is fair only when the client is gone, since nothing makes a client read. Nothing
makes anyone publish, disconnect or expunge.

In `SlogSink` and `Runtime` the worker is fair because its dials and writes end at the
publish timeout. `Stop` is strongly fair because the worker's `select` picks among ready
cases at random. `CloseReturns` is fair because it is a receive from a closed channel.
Callers owe nothing.

In `TuiStream` the goroutines and the daemon's handler are fair, and `Update` until the user quits,
after which nobody need read the events. `Cancel` is strongly fair: the goroutine's selects pick
among ready cases at random. Nothing makes the daemon restart, anyone publish, or the user
press a key; `ComesOnline` assumes that the daemon is up for good at some time.

In `BrowserTap` a step of the worker (`Worker`) is fair: the browser answers what it is asked,
a timer that is running fires, and a post returns, by an answer or an error. Which of several
is next is open. `DetachIsTold` counts a session whose worker was stopped among the excused ones. In
`Viewer` the browser and the daemon together are fair (`System`); in `Windows` each window's page load,
effects, closing timer, messages and storage events, which do not wait for one another.
Users owe nothing, and nobody need publish, restart or lose anything.

## The theorems

Of the broker: all are proved for any sets of publishers, streams, sources and filters and any
capacities, from `RetentionAssumption` (at least one record is retained, which
`RunCommand.Run` checks, and the empty string is not a source name) and
`BrokerAssumption` (types of the constants).

* `TypeCorrect`: `Spec => []TypeOK`, with the channel bound.
* `DeliveryCorrect`: `Spec => []DeliveryInv`. The wire, the handler's hand, the
  channel and the publishers' copies form one line, in which the records of a
  publisher keep their order and none occurs twice (`InLine`). This is inductive
  only together with: a publisher's last record is its newest (`PublisherInv`), a
  stream that has not joined has nothing under way (`UnjoinedIsIdle`), what is
  replayed is at or below the cut and what is live is above it (`SplitAtCut`), and the ring
  and the replay lie above the expunge floor (`RingAboveFloor`, `ReplayAboveFloor`).
* From it: `PublisherOrder`, `ReplayFirst`, `ExpungeHolds`, `LossesAreDrops`.
* First, by cardinalities of finite sets: dropping the oldest
  excess keeps the newest (`PruneKeepsNewest`), and this may be done at each
  publish (`NewestIsIncremental`); then `Retained`: `Spec => []RingIsNewest`.
* `BrokerImplementsLogBus`: `Spec => ImplementsLogBus`. `Publish` is `Take`, `Expunge` is
  `Forget`, a write to a connected client is `Deliver`, all else stutters.

Of the ring slice: for any sources, filters, limits and number of records, from
`RetentionAssumption` and `SliceAssumption` (limits are integers). The invariant is
`SliceInv`: the slice holds numbers of records that were taken, in increasing order.

* `CompactedList`: a loop that copies some elements of a slice down in the slice it reads leaves those, each once
  and in order. After each turn the copies stand at the front, and what is still to be read is as it
  was (`Copied`): the place to write never passes the place to read.
* `DropsFirst`, `MarksNewest`: what the loops choose. The counter of records to drop is, after each turn, what is left
  of the excess; that of a source's marks is the number of its records from there to the end, or the limit.
* From places to numbers (`RanksOfNumbers`): in an increasing slice a record has the rank of its place. So pruning is
  `PruneSource` and what `Take` does to the ring (`PrunedIsPruneSource`, `PruneTakes`), the loop of an expunge takes
  all of a source, and its counter is after each turn how many there were so far (`LoopCounts`); a replay is its definition, in order (`ReplayLists`).
* `ReplaySpecified`: `Spec => []ReplayIsSpecified`; `ExpungeAnswers`: `Spec => ExpungeAnswersRemoved`;
  `SliceImplementsRetention`: `Spec => ImplementsRetention`.

Of the slog handler and the runtime: proved for any sets of goroutines and brokers and any
queue size, from `UplinkAssumption` and, of the handler, that its endpoint is one of the brokers.

* `TypeCorrect` and, of the handler, `SinkTypeCorrect`, with the bound of the queue and the worker's
  record in hand.
* `OnceInOrder` and `SinkOnceInOrder`: what has left, the record in hand and the queue form one line
  (`InLine`), and every step takes a record from one part of it to the next, drops one, or
  appends one that may follow (`MayFollow`). `ListProofs` proves this once, for operators
  of sequences; `Runtime` needs besides that what each goroutine is about to queue may
  follow too, and is its own (`MayJoin`).
* `QuietWhenDisabled`: while disabled, a worker still in a turn has written nothing
  since (`Quiet`).
* `ClosedIsSilent`: `Spec => NothingAfterClose`, since `Close` returns only when the
  worker has ended (`Ended`).
* `RightBroker`: inductive with the history ending in the present configuration
  (`Current`), the snapshot being of a configuration that was (`Snapped`), and the
  publisher being a connection to the endpoint of its generation (`Connected`).

Of the terminal viewer, for any capacities and bounds:

* `NoneLeftBehind`: `Spec => NoReaderLeftBehind`. Inductive is that an error in the channel means that its
  reader has left the loop, and so has the reader of every subscription the viewer has given up
  (`LeftInv`).
* `TypeCorrect`: `Spec => []TypeOK`, from `TypeInv`: every list on the way from the ring to the rows holds
  records that were published.
* `OneRow`: `Spec => []OneRowPerRecord`. A merge replaces the row of an id or appends the first of its id, and
  the limit takes places away (`DistinctRows`).
* `RowsInTime`: `Spec => []Chronological`. That the rows are in order is not inductive: a replay could bring an
  older record than the last row. `OrderInv` says what the records to come are: each, in an event or
  before one, is newer than all the viewer holds by then, or is one of these with fewer than `MaxPerSource`
  newer ones of its source, so that its row is still there (`Fits`). It needs that what is on its way is in the order of time (`LineInv`),
  that a connection in use is one the viewer follows (`FollowInv`), and that of
  each source the ring keeps the newest (`Retained`: an expunge or the limit drops no record before an older one).
* `AllRetainedShown`: `Spec => []CaughtUp`. `KeptInv`: once the daemon has taken a subscription, each record it should
  show is still to come, or is among the rows after the events that wait are merged. Without `Undisturbed`, ids that a restarted
  daemon gives again could replace a row; `LifeInv` says that the records of one life have ids of their own,
  which bounds what a replay replaces.

Every step of the terminal viewer is first shown to be one of five kinds (`Steps`): it concerns none of the lists, hands a record
on, changes the rows, takes the subscription, or publishes; the invariants are kept by each kind. TLC checked
all of them first, with two million states and in simulation.

Of the tap: for any tabs, addresses, options and page events, and any number of handlers that wait,
from `TapAssumption` and `BrowserTapAssumption` (the cache's empty value is no options, a batch
holds a record, and a session may begin). Every step is first shown to be one of twelve changes of sessions, notices and the
badge (`Change`), or to do none of this (`Quiet`); the invariants are kept by each change.

* `TypeCorrect`: `Spec => []TypeInv`, which says besides that a handler past `loadOptions` finds the
  options loaded, and that each handler that asked `chrome.storage` is one that waits for it.
* `Kept`: `Spec => []QueueKept`, by `QueueInv` and by the last of `TypeInv`.
* `Shown`: `Spec => []CaptureIsShown`. A badge is taken from a tab only when its session is over, also by the
  popup's handler that was told so by the browser and goes on later (`EndsInv`).
* `ToldOnce`: `Spec => []DetachToldOnce`. A session has one tab; nobody speaks of its end while it
  lasts; and whoever is yet to tell of one that was spoken of finds the tab in
  `publishedDetachRecords` (`OwnInv`). Of one session a single handler or a single notice of this life of
  the worker speaks (`WordInv`), and Chrome's event for the popup's own detach finds the
  popup's mark or that entry (`ReasonInv`). All of it rests on what `WindowEnds` and `Heard`
  take of the browser: it tells of an end within the second, and before it serves a later call.
* `AllTyped`: `Spec => []TypeOK`. The worker remembers tabs that are tabs, and of each no more
  requests than it may (`TabsInv`); records have the numbers they were made with (`RecordsInv`); a session
  that is excused has been (`NumbersInv`).
* `InForce`: `Spec => []RulesInForce`, by `RulesInv`: unless a save has overtaken a read, the cache and the
  answers of the storage under way are what is stored (`Fresh`); a handler that waits for
  the storage has asked it (`Waits`); and a handler of an event reads the options that were stored when the event
  was raised, which the tab's state is made of while the tab is looked up. TLC checked `RulesInv` first, with four moves.

Of the window: for any users, sources, numbers of records and of requests under way and any limit of
rows, from `ViewerAssumption` (at least one row per source, and `null` is not a set of sources):

* `TypeCorrect`: `Spec => []TypeOK`, together with `RowsInv`: no two rows have one id. Of
  `MergeRecord` this follows from the lemmas about `Lists`: the places that stay are taken in order, each once.
* `AllShown`: `Spec => []CaughtUp`. While the stream is open, each record the daemon retains is still
  in the pipe, known to the window (shown or in `lost`), or has given way to `MaxVisible` known ones of its source
  (`Awaited`, `Expected`); merging a row keeps what is known, since what it replaces counts as lost.
* `NothingKept`: `Spec => []NothingWithheldIsKept`, by `Withheld`: what the effects ran with last bounds what the
  window keeps, and rows come only through the stream's listener, which reads the same.

Of the windows: for any set of targets, rows, names and any number of moves, from `ViewsAssumption`
(finitely many rows, which are records) and `WindowsAssumption` (a target is a group or a
source, and the main window is none), whatever the names of the windows:

* `TypeCorrect`: `Spec => []TypeOK`, from `TypeInv`, which says besides what messages and prompts hold;
  part of it is that no two saved workspaces have names that differ in case alone.
* `Agreement`: `Spec => []WindowsAgree`. Agreement at rest is not inductive. `HeardInv` is: of a topic
  whose last change crossed none, a window that has read the storage has what is stored,
  or its last message of that topic carries it (`Settles`). A change that crosses none
  sends its value to every window that listens (`SentSettles`), and a window that reads its
  first message keeps this of the others; `crossed` marks what would break it.
* `Places`: `Spec => []EachRowHasItsPlace`. That panes partition what a window counts
  follows from the definitions in `Views`, for any view of the right type; that every row is
  in one window needs in addition that the windows agree on what is detached.
* `KeptWorkspaces`: `Spec => WorkspacesKept`.

Four properties were corrected by these proofs, as their invariants could not be made inductive. `Viewer`'s `CaughtUp` did not
say what becomes of a row whose id a restarted daemon gives again; with four records and a crash, more
than the run has, a source could be left with fewer rows than its limit and a record of it not be shown.
`RulesInForce` forgave records by the worker's life in which they are looked at, not made: after a stop it
judged what an overtaken worker had posted; and it judged a failed request by its page's address, where the code takes the
request's own.
`Chronological` of the terminal viewer counted as forgotten only what the daemon still has. With five places in the events channel,
more than the run has, an expunge may be answered and clear the rows while an older
record waits in an event, and one that the ring no longer has follows: the rows are then out of order with nothing missed. It also
left out that a replay longer than the limit on rows brings back, at the end, what the limit had dropped. Its `CaughtUp` rests on the same order once
the limit is reached.

The proofs shape the modules in places. `Lists` defines by counting what `SetToSortSeq` and `SelectSeq` of
the libraries give, and `MergeAll` by a recursive function what `FoldLeft` gives, and `RingArray`
its loops by functions of the number of turns, since the prover has no definitions of these folds. A replay that is merged is a
sequence of merges of one record, and a loop one of turns; the library's induction theorems cannot be used, so the proofs take the
least place at which an invariant fails, and show that there is none (`StepByStep`). That a recursive function is what its definition
says is proved in the same way (`LoopRuns`, `StagesOfMerge`).

Only model-checked: the liveness properties, as the prover has no liveness under
fairness. Every invariant, every action property and both refinements that the runs check are theorems.

## Plan

What has been done: the broker core; `Uplink`, `SlogSink` and `Runtime`; `Subscription` and `TuiStream` for
the merged view; `BrowserTap`; `Auth` with `Viewer`; `Windows`. What is worth doing next, in this order:

1. `BrowserTap` with a navigation of an attached tab.
2. The by-source view of the terminal viewer, with its pauses and its expunge of several sources.
3. A daemon's lifecycle: sockets and settings socket of two instances at one path.
4. The journal bridge: position, failed publishes, restart.

## Not modelled

* The daemon's lifecycle and the settings RPC: files and processes, which share nothing with
  the broker's state but its start from nothing (`Restart` in `Subscription` and `Viewer`).
* The journal bridge: one loop around an external library, which keeps the position.
* The SDKs: one request per call, nothing kept. To the broker they are publishers of `HTTPPublishers`.
* Of the tap: `onInstalled`, which writes the default options over the user's at an update; navigation
  of an attached tab, whose first address the filters keep judging by; other extensions' debuggers.
* Of the viewers: the by-source view of the terminal; search, layout, widths, scrolling, selection and
  copying, themes and dialogs of the browser's.
* Password hashing, the encoding and the paths of the settings file.
* Rendering, key bindings and styling; completion scripts, build information, record formatting and
  attribute flattening (pure functions without shared state); static files and CORS.
