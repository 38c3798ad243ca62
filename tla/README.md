# A TLA+ model of pihole-cluster-admin

pihole-cluster-admin is a Go server with a React front end that manages several
Pi-hole instances as one cluster. This directory models the concurrent core of
both, model-checks it with TLC on small instances and proves the safety and action properties
that the passing runs check, and four refinements, with TLAPS for all instances. Paths below are relative to
`src/backend/internal/`, or to `src/frontend/src/` if they end in `.ts` or `.tsx`,
unless they start with `src/`.

## 1. The system

### Components, their state and operations

| Component | State | Operations |
|---|---|---|
| Node registry: `service/piholeservice`, `store/pihole.go`, `app/client.go` | table `piholes` | add, update, delete, reload at start |
| Cluster: `pihole/cluster.go` | map of live clients under an RWMutex | AddClient, UpdateClient, RemoveClient, and fan-outs over a snapshot of the map |
| Query log: `cluster.FetchQueryLogs`, `pihole/cursor.go` | search states by cursor, with one node cursor each | first page, next page, expiry |
| Domain rules: the fan-outs of `cluster.go`, `handler/domainrulehandler` | none here; the rules are in the Pi-holes | get (five filters), add, remove |
| Client: `pihole/client.go` | configuration and session, a mutex each | ensureSession, Login, doRequest with one retry, Update, Logout |
| Broker: `realtime/broker.go` | subscriptions, subscriber counter, poke channel | Subscribe, its cancel, Publish |
| Event stream: `service/eventsservice`, `handler/eventshandler` | one forwarder goroutine per connection | stream, heartbeat, end |
| Health service: `service/healthservice`, `handler/healthhandler` | where the loop is; node healths, summary | sweep, pause, resume, stop; two GETs |
| Sessions: `sessions/` | sessions in memory or in SQLite | create, authenticate, destroy, purge |
| Accounts and setup: `service/setupservice`, `userservice`, `authservice` | tables `users`, `initialization_status` | first user, login, logout, rename, password, setup status |
| Lifecycle: `src/backend/cmd`, `app/app.go`, `server/server.go` | the process | start, graceful shutdown |
| Event client: `lib/sse/client.ts`, `hooks/useSSE.ts` | one EventSource per tab, handlers, reconnect timer | subscribe, unsubscribe, reconnect |
| Health page: `hooks/useClusterHealth.ts` | summary and list shown | two GETs when mounted, events |
| Node form: `PiholeNodeForm.tsx`, its two dialogs, `utils/urlUtils.ts`, and the connection tests of `piholeservice` | fields, last test, flags | open, type, test, save, cancel |
| Session and setup state: `providers/AuthProvider.tsx`, `InitializationStatusProvider.tsx`, `app/routes` | user, public and full status | page load, GETs, redirects, login, logout, setup, rename |

### How they interact

- An HTTP request is a goroutine. The registry and the account services run one
  SQL statement after the other, with no transaction around them and no lock.
  `database.go` allows one connection, so a *statement* is atomic and requests
  interleave between statements.
- piholeservice changes the table first and the cluster's map next. The map is
  rebuilt from the table at start and nowhere else.
- A cluster operation copies the map, starts one worker per node with a
  deadline of its own, and waits for all of them. A worker calls the node's
  client; the client shares one session among all calls.
- The health loop polls while someone subscribes to events. It learns of
  subscribers from the broker's counter, and of changes from a channel with
  room for one token. A sweep publishes two events through the broker; each
  connection has a buffered channel, a forwarder and a handler.
- Every private route first looks its session up.
- A tab shares one event stream among its hooks. The health page fills its view
  from two GETs and from the stream. The routes redirect by what three contexts hold, each
  filled by GETs that are answered in any order.
- The node form tests a connection through the server, which logs in to the
  Pi-hole with a client of its own and logs out again, and then saves through the registry.

### What is hard

Reads that are stale when they are used (registry, accounts, search states), wake-ups
(one token for many events), a channel that is closed next to a sender, a
deadline that passes while the far side still works, sessions that expire
between a check and a use, a crash between two statements, partial failure of
a fan-out; and in the browser, callbacks that go on with what an earlier render held, answers
out of order, a timer that nothing clears. `PROJECT.json` lists each of these under "hazards" with its line. The
repository has no tests.

### What makes each component correct

- Registry: no configured node is without a client, none is called with a
  configuration that is not the stored one, and an add never meets an old client.
- Query log: a search skips nothing, repeats nothing, shows only what was asked
  for, and ends.
- Domain rules: the response is complete and true, failures stay with their
  node, and the nodes stay in step.
- Client: a call returns, is carried out at most once, and succeeds only if it
  was carried out.
- Broker and stream: no send on a closed channel, no publisher held up by a
  subscriber, events in order and of the right topic, no connection left behind.
- Health loop: polls for whoever stays, pauses when deserted, stops when told.
- Sessions and accounts: a session ends for a reason and for good, the first
  user is created once, checks still hold at the write, and what an account was given opens it.
- Lifecycle: a signal ends the process, and a clean exit cuts no request off.
- Event client: while a hook is mounted each event of its topic reaches it once, over a
  connection that asks for the wanted topics only and is replaced when it fails.
- Health view: a member's result is the last sweep's unless its worker panicked; what a page shows
  does not go back.
- Node form: nothing is saved untested unless a test failed, what is saved as it was tested works, and
  no test leaves a session behind.
- Session and setup state: when all is answered, the browser is on the page that the server's
  state calls for; the routes never redirect in circles.

## 2. The modules

| Module | Models | Notes |
|---|---|---|
| `PiholeRegistry` | table, cluster map, concurrent requests, crash and restart | one action per statement or cluster call |
| `PiholeRegistryProofs`, `QueryLogProofs`, `PiholeClientProofs`, `DomainRulesProofs`, `BrokerProofs`, `HealthLoopProofs`, `AccountsProofs`, `FrontEndProofs` | the theorems about the modules of these names | section 5 |
| `QueryLog` | FetchQueryLogs, cursor manager, handler | Pi-hole logs are external |
| `NodeCall` | what a client call promises (abstract) | implemented by `PiholeClient`, used by `DomainRules` |
| `PiholeClient` | session, calls and retries of one client | Pi-holes are external |
| `DomainRules` | fan-outs of get, add and remove | composed with `NodeCall` |
| `Presence` | counter and poke channel | used by `HealthLoop`, implemented by `Broker` |
| `HealthLoop` | the polling loop | EXTENDS `Presence` |
| `EventFeed` | what a connection is promised (abstract) | implemented by `Broker` |
| `Broker` | broker, forwarder, handler, publisher | refines `Presence` and `EventFeed` |
| `Sessions` | session manager, both storages, purge | used by `Accounts` |
| `Accounts` | users, setup, login, and routes that need a session | EXTENDS `Sessions` |
| `Lifecycle` | signal, graceful shutdown, a listener that fails | |
| `HealthView` | the sweep's writes, the GETs, the events, a page | the loop's decisions are in `HealthLoop` |
| `SseClient` | the EventSource of a tab and its timer | network and server are external |
| `NodeForm` | the form, its tests and saves, the test at the server | Pi-holes are external |
| `SetupPages` | contexts, GETs, routes, user's actions | the server is its state (see `Accounts`) |
| `MCProgress` | liveness of `HealthLoop`, `Broker`, `Lifecycle`, `SseClient`, `HealthView` | side by side, see below |
| `FrontEnd` | `SseClient`, `HealthView`, `NodeForm`, `SetupPages` | side by side; `MCFrontEnd` is its instance |
| other `MC*` | TLC instances | constants and symmetry only |

`MCProgress` and `FrontEnd` hold several modules for one run. They do not
compose them: `part` is chosen in the initial state and never changes, `PartsNext` lets only that part
move, and the other parts stay in an initial state. The behaviours are
therefore the disjoint union of the behaviours of the modules, and fairness (in `MCProgress`) is
stated for the steps of the part that moves. That a part of `FrontEnd` behaves as its module says,
whatever part moves, is the lemma `SideBySide` of `FrontEndProofs`. Of the parts, loop and broker are the two that
interact in the code; the broker is shown to implement `Presence`, which is all the
loop knows of it.

### State and actions against the code

- **PiholeRegistry.** `rows` and `lastId` are the table and its AUTOINCREMENT
  sequence, `clients` the cluster's map, `req[r]` the goroutine of a request:
  the operation, the statement or call it makes next, and what it has read. One
  action is one statement (`AddInsert`, `UpdateRow`, `SelectRow`,
  `SelectSecret`, `RemoveRow`) or one critical section of the cluster
  (`AddClient`, `UpdateClient`, `HasClient`, `RemoveClient`). `Crash` forgets
  all but the table. `Restart` and `RestartEmpty` are the two outcomes of
  `GetClients`: the second is the start with an empty cluster after a
  secret could not be read. "addr" stands for scheme, host and port.
- **QueryLog.** `states`, `live` and `expired` are the cursor manager's map,
  with the order in which its entries expire (the TTL is fixed). `fetch[b]` is the
  running `FetchQueryLogs` of a browser: the snapshot of members still to answer,
  the next cursors and the entries collected. Expired search states
  stay in the map until somebody looks one up, as in `GetSearchState`.
- **PiholeClient.** `cfg` and `session` are the two mutex-protected fields,
  `call[c]` the locals of a call, `wire[c]` its HTTP exchange, which survives
  the call when it gives up. Reads and writes of either field are separate
  steps, exactly as far as the mutexes are held.
- **DomainRules.** One worker per target runs one `NodeCall`. `Serve` is the
  Pi-hole, which may carry a command out after the worker has given it up; `TurnDown` is the Pi-hole
  that answers an add with 201 and takes no rule, which only `processed.errors` of the answer tells.
- **Presence, HealthLoop.** The four steps of a subscriber (count, poke, count,
  poke) and every point at which the loop reads the counter, takes a token or
  waits. A `select` is one action per case.
- **Broker.** Register and unregister are critical sections; counting, poking
  and closing are steps of their own after the unlock. `Publish` holds the
  read lock over `PublishLock` .. `PublishUnlock`, with one `PublishSend`
  per subscriber. The forwarder and the handler meet in `Deliver`, an
  unbuffered send. Only the health loop publishes, so there is one publisher.
- **Sessions, Accounts.** Storage calls are single steps. A purge works through
  the list `doomed` it read earlier. A request is at the statement it runs next
  and carries what it read. `stale` records that another request has written what it
  read. `StatementFails` ends a request at any statement, `Crash` ends
  all of them. `Trim` and `Lower` are functions on a small set of texts, so that
  the differences between what setup, rename, password change and login do to a text are kept. `typed`
  (history) is what each account was last given, as it was typed.

- **Lifecycle.** The main goroutine, the five-second limit, the listener's
  goroutine and the open requests. Loops that stop with the context are in `HealthLoop` and `Accounts`.
- **HealthView.** A sweep takes its snapshot, takes the lock (`BeginWrite`), writes one
  result after the other and publishes twice before it unlocks. `ReadSummary` copies under
  the lock; `TakeMap` takes only a reference under it, and `RangeMap` reads
  one entry at a time afterwards, in the middle of the next sweep's writes if it so
  happens. Go leaves open what that race does: the values are read as they are, or
  the runtime ends the process (`MapFault`). A result is told by its age in sweeps, so the number of sweeps has no bound.
  A worker that panics leaves no result and the sweep writes none (`lost`):
  `Client.AuthStatus` goes on without a request when the stored address makes no URL, and `forEachClient` recovers.
- **SseClient.** One action per callback of the browser. `es` is the EventSource, with the
  topics in its URL and its listeners; `attachedTopics` and `timer` are the client's fields.
- **NodeForm.** `form` is what the dialog shows, `run[c]` the continuation of a click with
  the fields of its render, from the click through the test at the server (`ReadNode`,
  `ReadSecret`, `LoginAccepted`, `Logout`) to the save. `Format` and `Parse` are
  `formatPiholeUrl` and `parsePiholeUrl`; `Stored` is what the table keeps of a configuration: the password
  without the blanks around it, with which it was tested. A host is a pair of what is glued to its front and its name. `passed`,
  `failed`, `saved`, `others` are history; `saved` tells of the first save of a dialog, and that another followed.
- **SetupPages.** `user`, `public`, `full` and their loading flags are the contexts, `gets` the
  requests under way. A step of React that runs an effect on `user` is one step with the change of `user`.
  `Goes` is the routes of `router.tsx`. `seen`, the furthest status (by `Rank`) that this page has
  held, `spoilt`, which says whether and how the full status was lost since, and `trouble` are history.

`PROJECT.json`, "map", gives the lines of every definition.

## 3. What the runs check

| Run | Instance | Distinct states | Result |
|---|---|---|---|
| `registry` | 2 requests, 2 ids, 2 names, addresses and passwords, 1 fault | 342 415 | `TypeOK`, `AddNeverConflicts`, `RowHasClient`, `Agreement` |
| `querylog` | 1 browser that resends cursors, 2 nodes, logs of 2 entries, 1 failure; followed page by page without resends, 8 cursors | 860 590 | `CursorsSafe`, `NothingSkipped`, `NoDuplicates`, `SearchEnds` |
| `querylog_filters` | no failures | | violated: `PagesFiltered` |
| `progress` | loop: 2 connections, with and without grace period; broker: 1 connection, capacity 1, 2 events; process: 2 requests; tab: 3 hooks, 2 topics; page: 1 node, 2 events waiting | 25 897 | `LoopSafe`, `Served`, `Stops`, `PausesWithoutGrace`, `ConnectionsEnd`, `ForwarderEnds`, `ShutdownEnds`, `Reconnects`, `ViewFillsUp` |
| `health_loop_pause` | 2 connections | | violated: `PausesWhenDeserted` |
| `broker` | 2 connections, any topics, capacity 1, 2 events | 551 475 | `BrokerSafe`, `ImplementsPresence`, `ImplementsFeed`, `PublishReturns` |
| `client` | 2 calls, 2 Pi-holes, 1 dropped session, 1 update | 289 822 | `ClientSafe`, `ImplementsNodeCall`, `CallReturns` |
| `domain_rules` | 2 requests, 2 nodes, 1 rule | 565 996 | `RulesSafe`, `ResponseTrue`, `SequentialParity`, `RequestReturns` |
| `domain_rules_atomic` | the same | | violated: `AtomicPropagation` |
| `accounts` | 2 requests, 2 names, 2 passwords (a name with a capital, one name and one password with a blank at the end), 2 sessions, 2 updates, 1 fault, both storages | 396 961 | `AccountsSafe`, `FlagFollowsUser`, `SessionsEndForGood`, `RulesHoldAtWrite`, `OpensAsGiven`, `LapsedPurged` |
| `front_end` | tab: 3 hooks, 2 topics; page: 2 nodes, the worker of one of which may panic, 2 events waiting; form: 2 addresses of a host, 3 passwords, one of which has a blank at the end and is the right one at one of the addresses, 1 Save and 1 Test click, 1 edit by another or 1 lost answer; pages: 2 effects' GETs | 1 509 473 | `SseSafe`, `HealthSafe`, `GoesBackOnlyAtFirstGet`, `FormSafe`, `TestsLeaveNoSession`, `SetupSafe` |
| `form_address` | the form of `front_end` | | violated: `UntouchedAddressKept` |

A property named `...Safe` is the conjunction of the module's type invariant and its invariants.

What the results say:

- **Registry.** Races between requests *on the same node* can leave the cluster
  with a stale or an orphaned client (an update that overtakes another, a DELETE
  between the reads of an add and its `AddClient`). `Agreement` says that this
  is the only way: a node on which no two requests overlapped and none failed
  half-way is served exactly as stored, whatever happens elsewhere, and one later request that
  runs alone heals its node. `RowHasClient` says that even those races never lose
  a configured node, up to a DELETE that names an id before it is handed out.
  `AddNeverConflicts` holds because ids are never reused.
- **Query log.** Node failures, restarts from the first entry, joins, leaves and
  resent cursors never make a search skip an entry of a node that answers at its
  end, and a node that always answers repeats nothing. The filters survive to the
  second page only (section 6).
- **Health loop.** One token is enough for any number of subscribers. With a
  grace period the loop can be left running for nobody (section 6), which
  happens only through a poke that ended a grace period while no one was there
  (`DesertedOnlyByStale`), and not without a grace period (`PausesWithoutGrace`).
- **Broker.** The order unregister, unlock, close makes sends safe. A forwarder
  that holds an event when its handler returns is blocked for ever: it
  sends without a case for the context. `ForwarderEnds` states the
  exact extent of this leak, so a change that widens it is noticed.
- **Client.** The fan-out's assumption about a call is what the client delivers:
  a command takes effect at most once although it may be sent twice, and a reported
  failure may still have had its effect. A session the Pi-hole dropped is not replaced
  until it is due to expire; calls fail, and return, meanwhile.
- **Domain rules.** Requests one after the other keep the nodes in step as
  long as no call fails and no rule is turned down; requests that overlap need not (section 6). A
  success in a response is the Pi-hole's own answer to that request. It is also reported when a
  Pi-hole turns the rule down behind a 201 (`TurnDown`).
- **Accounts.** Every check holds at its write unless another request overtook
  the request in between, which the code does not prevent: `RulesHoldAtWrite`
  excludes exactly the requests marked `stale`. A failure after the INSERT of
  the first user leaves the setup flag unset for good, and only such a failure
  does (`FlagFollowsUser`). `OpensAsGiven`: the name and the password an account was last given open it
  and no other account. The exceptions are those of the code: a password with blanks around it is hashed
  without them and compared with them, so it never opens its account again, be it from the setup or from a
  change; setup strips the blanks around a name and the login does not; a rename keeps capitals and the login looks for
  lower case.
- **Lifecycle.** The first signal ends the process within the five seconds, event streams
  or not. A listener that cannot start (a port in use) leaves a process that serves nothing
  until it gets a signal: `ShutdownEnds` says that it ends then, and for no other reason.
- **Event client.** Through any sequence of mounts, errors and timers, each wanted topic has
  one listener on a connection that asks for the wanted topics. A timer that was pending when the
  last hook left opens a connection that nobody wants, which asks for nothing and so
  gets everything; it keeps the server polling, and nothing else does (`StrayOnlyByTimer`).
- **Health view.** Nodes that were removed stay in the map, the list and the totals for ever, with
  their last result; a member's result is old only if the last sweep lost its worker to a panic
  (`OldResultsOfRemovedNodes`). Of the other members, a list that mixes two sweeps comes only
  from a GET that read the map while a sweep wrote. The only way back to an older view is the answer of the
  page's first GETs.
- **Node form.** A password that differs from the tested one by blanks at its ends counts as
  tested when a node is edited (`testKey` trims, the patch does not): `SavedAfterTest` makes this
  exception, and no other. `TestedNodeWorks` says that if the first save of a dialog writes exactly what was tested, it works,
  though test and save merge it into the row at different times. The password is tested as it was typed and stored
  without the blanks around it (`store/pihole.go:37` and `:90`): a save that loses some (`saved` is "trimmed") may leave a node that
  refuses every login although its test was good, and is excepted. Nor does it hold of a second save that
  overlaps the first: the row it merges into has changed since its test. The address shown may not be the node's
  (section 6).
- **Setup pages.** No content of the contexts, however stale, makes the routes redirect in circles.
  Once all is answered, and if no request failed and the session did not end, the
  browser is where the server's state says, with two exceptions that `RightPage` names: the creation
  of the first user drops the full status if it came before the public one, and the setup page then
  loads until it is reloaded (`SetupUserCreation.tsx:129`); and of two GETs of the full status the
  one answered last wins, though it may have been served first (`InitializationStatusProvider.tsx:42`).
  The answer of the first GET of the user may also bring a user back who has logged out meanwhile
  (`trouble`).

### Bounds and why they are enough

- Two request slots, reused without end, give every interleaving of two
  requests, and in sequence of any number. The properties relate one
  request to one other or to the state; the registry's theorems hold for any number.
- Two nodes give one that fails and one that does not, and one that joins or
  leaves next to one that stays. Two log entries make a search of more than two pages,
  which the filters need. Three cursors, or eight where one search is followed to its end: a
  search without failure needs three requests, each failure at most three more.
- Capacity 1 and two events fill a channel and overflow it; the code's 16
  differs only in how many events that takes. Two events cover both topics.
  In `progress` the broker has one connection: `ConnectionsEnd` and `ForwarderEnds` speak of each
  connection alone, and another one could only hold the lock, which strong fairness allows for. Its
  interleavings with another connection are in `broker`.
- Two connections let one leave, or poke, while the other joins; a third adds no new value
  of the token and none of what the loop tests of the counter. `LoopSafe` is proved for any finite number.
- Three hooks on two topics: the last hook of a topic, the last of all, and one of several can leave.
- A page of two nodes tells a mixed list from one that is not; ages 0 and 1 (anything
  older) suffice because properties compare with the last sweep. Of the two nodes one may panic (`MayPanic`), next to one that
  does not. Liveness needs one node, since a sweep with more writes more, and none that panics: a page is filled by what
  the sweep publishes, whichever results it holds.
- The form's two addresses are a host under `http` and `https` with default ports; both can be tested
  and one conversion of them is lossy. The Pi-hole accepts a password without blanks at one of them and one with a blank at the other. One Save click and one Test click can overlap; the theorems
  hold for any finite number of clicks. The dialog
  is not opened for an address that only `parsePiholeUrl` can have made.
- Two effects' GETs of the full status, next to that of `updatePiholeInitStatus`, are three that may be
  answered in any order.
- One fault or drop at a time: each property that excepts faults names them.
- Bounded counters (`MaxId`, `MaxCursors`, `MaxEvents`, `MaxSessions`, `MaxUpdates`,
  `MaxFaults`, `MaxFailures`, `MaxDrops`, `MaxTroubles`, `MaxPages`) are guards of the actions that count. A model that has
  used them up may stop, hence `CHECK_DEADLOCK FALSE` there, and in the runs with `Lifecycle`, which
  ends. The registry runs for ever and is checked for deadlock.
- Symmetry is used in the registry only, where no temporal property is checked.

### Fairness

- Weak fairness of a goroutine's own steps: the Go scheduler runs every
  runnable goroutine. `WF(Proceed)`, `WF(Publisher)`, `WF(Purge)`, the workers
  of `DomainRules` and the calls of `PiholeClient` are of this kind.
- Strong fairness of the cases of a `select` and of taking a contended lock: Go
  picks a ready case at random, and a waiting writer of an RWMutex holds off new readers.
- Timers fire (`GraceOver`, `Tick`, `TimerFires`, `LimitPasses`), requests have deadlines: 3 s per node in
  `forEachClient`, 5 s in the HTTP client, 30 s in the router (`ContextDone`).
- Nothing is assumed of Pi-holes, failures, crashes or the clock. Of users only
  `SearchEnds` assumes anything: that the user asks for the next page.
  `broker` checks `PublishReturns` with a fair publisher alone.
- `ShutdownEnds` needs no request to end, `Reconnects` no retry of the browser's own, `ViewFillsUp`
  no answer to a GET: only that sweeps go on while a tab is connected and that a tab takes its events.
- In `progress` each condition is about the steps of the part that moves; the module's own `FairSpec`
  states the same.

## 4. Abstractions

- A Pi-hole is external: its rules and logs are sets, it may refuse, fail, drop
  sessions or answer late. Page lengths and offsets are left out; a page is one entry.
- The log does not grow during a search; rows of a log are positions.
- Passwords, names, addresses and rules are model values, except where their
  spelling matters (`Accounts`, `NodeForm`).
- A Pi-hole's health is told by the age of its result (`HealthView`); online, offline and
  degraded, latency and error text are computed from one answer and relate to nothing else.
- A browser runs one callback at a time and React commits the effect of a changed `user` with the change.
- The server as `SetupPages` sees it is its state and the answers it would give now.
- Encryption of node passwords is the identity that may fail.
- The session expiry of a Pi-hole leaves the client's 5 s leeway before it
  bites a call; a call lasts at most 3 s (`PiholeClient`, `InUse`).
- Answers are modelled by whether they succeed, not by their status code.

## 5. What is proved

For any values of the constants that satisfy the module's named assumption. Where
an assumption beyond it is needed, it is a hypothesis of the theorem.

| Module | Theorem | States | Hypothesis |
|---|---|---|---|
| `PiholeRegistryProofs` | `TypeCorrect` | `[]TypeOK` | |
| | `NoConflict` | `[]AddNeverConflicts` | |
| | `NoNodeLost` | `[]RowHasClient` | |
| | `ClusterAgrees` | `[]Agreement` | |
| `QueryLogProofs` | `CursorsStayGood` | `[]CursorsSafe` | |
| | `EndIsTrue` | `[]NothingSkipped` | |
| | `NothingRepeated` | `[]NoDuplicates` | |
| `DomainRulesProofs` | `FailuresStayApart` | `[]RulesSafe` | |
| | `ResponsesAreTrue` | `[]ResponseTrue` | |
| | `NodesStayInStep` | `[]SequentialParity` | |
| | `CallsAreNodeCalls` | `Call!Spec` (`NodeCall`) | |
| `PiholeClientProofs` | `NeverRefusedUndisturbed` | `[]ClientSafe` | |
| | `ClientIsNodeCall` | `ImplementsNodeCall` | |
| `BrokerProofs` | `NeverSendsOnClosed` | `[]BrokerSafe` | finitely many connections |
| | `BrokerIsPresence` | `ImplementsPresence` | finitely many connections |
| | `BrokerIsFeed` | `ImplementsFeed` | finitely many connections |
| `HealthLoopProofs` | `LoopNoticesSubscribers` | `[]LoopSafe` | finitely many connections |
| `AccountsProofs` | `SessionsHaveUsers` | `[]AccountsSafe` | |
| | `SetupNoticesUser` | `[]FlagFollowsUser` | |
| | `ChecksHoldAtWrite` | `RulesHoldAtWrite` | |
| | `NobodyComesBack` | `SessionsEndForGood` | |
| | `OpensWithWhatWasGiven` | `[]OpensAsGiven` | |
| `FrontEndProofs` | `TabServed` | `[]SseSafe` | each hook has a topic (`SseAssumption`) |
| | `HealthStaysSafe` | `[]HealthSafe` | |
| | `FrontEndGoesOn` | `GoesBackOnlyAtFirstGet` | |
| | `FormStaysSafe` | `[]FormSafe` | |
| | `NoTestLeavesSession` | `[]TestsLeaveNoSession` | |
| | `SetupStaysSafe` | `[]SetupSafe` | |

The assumptions say no more than the code does: what stands for "no value" (`None`, `Asked`) is not a
value, there is a rule to ask for, an address has a scheme, a host and a port, what the form's Pi-holes
contain and accept are addresses with passwords, one request of the pages has one name. Limits may
be any positive numbers, sets any sets; the clicks of the form, the requests and nodes of `DomainRules`
and the connections of `Broker` and `HealthLoop` are finite.

Every theorem follows from an inductive invariant (`IInv`, and in `FrontEndProofs` one per part: `TabInv`,
`PageInv`, `DialogInv`, `SetupInv`; the feed's proof adds to the one of `Broker`). What it adds to the
stated property, and why:

**Registry.** `Agreement` speaks of nodes at rest and must follow from what
requests hold while they run. `IInv` adds

- `Shape`: which steps an operation visits and what it has read by then;
- `Fresh`, `Down`: nothing exists of ids not handed out, nothing runs while
  the process is down;
- `Adds`: the id of a running add is its own and has no client (hence
  `AddNeverConflicts`);
- `Removes`: a row does not come back after its DELETE;
- `Solo`, `SoloReads`, `SoloUpdates`: a request marked `solo` is alone on its
  node, what it read is what the row holds, and an update on an undisturbed node finds
  a row and a client or neither;
- `Settled`, `Served`: the two target invariants in the form the steps need.

Three general lemmas, one each for the first (`BeginStep`), a middle (`MiddleStep`)
and the last step (`EndStep`) of a request, are stated over what the step does to
slots, rows and clients. `StepInv` instantiates one of them for each action.

**Query log.** The properties speak of responses; what makes them true is kept
in the search states. `GoodSnapshot` says of each one that, for every node with a
cursor, all entries before the cursor that match *what the user asked for* have
been delivered (`Covered`), and that what a node that never failed has delivered lies
before its cursor (`Behind`). `GoodRequest` says the same of a request under
way. The loss of the filters (section 6) does not break it: a snapshot asks with the user's
filters or with none, and without filters a node returns more entries, never fewer.
When an answering node's cursor has not moved, nothing was left at or after it, so
everything has been delivered.

**Domain rules.** `Workers` ties the entry of each worker to the status of its call: no entry while the call
runs, success only with a call that took effect once, an entry for every target when the request is
done. With it a failing call is the only source of a failure entry. `SequentialParity` compares
nodes at rest; `Parity` says what holds meanwhile (`InStep`): two nodes differ at most in the rule of
the request that runs, and only if the request has taken effect at one of them and not at the other.
`Carried` adds that where it took effect, and where a removal found nothing, the node is as
the request wants it. `AsSetUp` starts the argument: before the first request all nodes hold the same,
and one that joins after it is not among those compared. The calls refine `NodeCall`
step by step, so what `PiholeClient` is shown to implement is all that is used of it.

**Client.** `Stage` ties the place of a call, the state of its HTTP exchange and the
number of times its command took effect: whatever may still take effect has not done
so. Every step moves one call by one stage (`NextMoves`), and maps to a step of
`NodeCall` or to none (`MappedStep`). `Undisturbed`, which holds as long as nothing was dropped or
updated, says that every session id that is about to be sent is open at the Pi-hole; an expiry
spares each of them because of `InUse`.

**Broker.** `Listed`, `Visiting`, `ClosedLast` and `Forwarding` say who may be in the
list, which subscribers a publisher that holds the lock has before it, that a channel is
closed only by a connection that has left the list, and where forwarder and handler
are relative to each other. `CounterExact` makes the counter the number of the
connections between counting in and counting out. For `EventFeed`, `Heard` adds
that a publisher visits each subscriber once per event, so that what it appends is newer than all the
subscriber holds; the mapping takes the phase of a connection and its channel with what forwarder
and handler hold (`FeedPhase`, `FeedQueue`).

**Health loop.** The same exact counter: a wake-up is lost only if someone is counted
who neither left a token nor is about to poke.

**Event client.** `Belief` says that `attachedTopics` are the topics with listeners on the current
connection, `Outlives` that a timer or a connection without hooks comes from an error before the last hook left.

**Health view.** `Fresh` says of a member at each point of a sweep that its result is new, or still to be
written, or missing, or that the sweep lost it. The events in the queue carry lists of one sweep each, in order and no
newer than the map (`QueueInOrder`, `Settled`), and what an event brought to the page is no newer than what waits
(`ViewBeforeQueue`). The ages of all of them grow together when a sweep begins, so the order survives it.

**Node form.** `TestsTrue` follows a test from its reads to the save: as long as nobody else has changed the row, what
was read is what the row holds, what the Pi-hole accepted is what a save would send, and what `lastKey`
stands for was accepted. `FormOK` and `RunsOK` say that the flags are true of the history and that a
click goes on for the node its dialog was opened for. `SessionsCounted` bounds the sessions open from both sides.

**Pages.** `Waits` says that a spinner waits for a GET. `UserTrue`, `PublicTrue` and `FullTrue`, which hold
without `trouble`, say of each context that it holds what the server holds unless an answer is still to come; for the full
status, that the newest was held (`seen`), or is in an answer, or can still be asked for. Without
`seen` the last is not inductive: an older answer that overwrites a newer one
leaves no trace in the state. That the routes never loop is a case analysis of `Goes` (`NoLoop`).

**Accounts.** `Sound` says what a request at each statement may rely on: its user exists, its
input has been checked, and what it read still holds unless it is marked stale. `Room` reserves
the row or the session that a request is still to add, which bounds the number of
accounts by that of overlapping setup requests. The two action properties then follow from
`IInv` and one case analysis of who writes what. `AsGiven`, inductive on top of `IInv`, says that each row is what the
code makes of the input it was last given (`RowOf`) and that no two accounts share a name; `OpensAsGiven` follows.

Only model-checked: all liveness (`SearchEnds`, `Served`, `Stops`, `PausesWithoutGrace`, `PublishReturns`,
`ConnectionsEnd`, `ForwarderEnds`, `ShutdownEnds`, `Reconnects`, `ViewFillsUp`, `CallReturns`,
`RequestReturns`, `LapsedPurged`). Liveness under fairness, ENABLED and induction over data are beyond
the installed provers and stay with TLC. `ShutdownEnds` has a safety half (the process ends only after
a signal, and a clean exit has cut no request off), which is checked with it and not proved.

## 6. Findings

1. **Filters are lost from the third page on** (`querylog_filters`):
   `CreateCursor` stores the filters of the request, which are empty on every request that
   carries a cursor (`pihole/cluster.go:243`, `handler/queryloghandler/handler.go:35`).
2. **The health loop can poll for nobody for ever** (`health_loop_pause`): a poke left
   by one departing subscriber ends the grace period that another's poke began
   (`service/healthservice/service.go:96`). Subscribers come back, says the comment; the
   code does not look.
3. **Changes are not propagated atomically** (`domain_rules_atomic`), as
   `src/README.md:13` promises: an add and a remove of the same rule that overlap can succeed
   everywhere and leave the nodes with different rules.
4. **The dialog that edits a node loses its address** (`form_address`): `formatPiholeUrl`
   leaves out the `://` its comment promises (`urlUtils.ts:55` and `:64`), and what it shows is parsed as a host named
   `httpshost` under `http`. Only nodes on port 80 of `http` are spared.

## 7. Not modelled, and the plan

Not modelled for good: configuration, logging, middleware, encryption, delivery of
the front end's files, page rendering, the list of nodes kept for display (no shared
state or pure I/O), migrations (they run before anything else), `Cluster.Logout`, which
nothing calls.

Left for later, in this order:

1. `SseClient` composed with `Presence` and `HealthLoop`: what a stray connection costs the server.
2. Deletion of a node from its dialog, next to an edit of it.
3. A run of the setup status alone for the comment at `service/setupservice/service.go:87`.

Proofs to come, in order: the same theorems for a composition of `SseClient` with `Presence`, once it
is modelled; type correctness and the order of shutdown for `Lifecycle`; that `HealthLoop` over the
`Presence` of `Broker` keeps its properties, by joining two theorems.

## 8. Running it

    tlc -workers 2 -config MCPiholeRegistry.cfg MCPiholeRegistry
    tlapm PiholeRegistryProofs.tla

and likewise for the other `MC*.cfg` and `*Proofs.tla`.

Each run takes between a few seconds and four minutes; each proof module takes from some seconds to four minutes.
