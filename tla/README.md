# Drouter: models, checks and proofs

Drouter (`drouterd` and its panels) routes audio and GPIO among Livewire nodes
and other matrices.  A core process keeps the state of every node in a
database, one protocol process per client answers that client's commands from
the database, panels keep copies of what they were told, and two instances of
the whole may be tethered so that one takes over from the other.  What can go
wrong is rarely in one handler; it is in the order in which handlers of
different processes run.  That is what the modules here are about.

## 1. The system

| Part | State it keeps | Operations | Talks to |
|---|---|---|---|
| Tether (`drouterd/tether.cpp`) | active state, the state heard on each link, two timers, arguments of the clean-up | `start`, `cleanup`, the two receivers, interval and window timeouts, `Backoff`, `ModifySharedAddress` | its peer over UDP and a serial line; `DRouter::setWriteable` |
| Start-up and supervision (`drouterd/drouterd.cpp`, `DRouter::StartDb`, `drouter.service`) | database schema and its version, timers of the start | schema upgrades, start of protocol processes and scripts, exit | systemd, MariaDB, `dprotod`, scripts |
| Core router (`drouterd/drouter.cpp`) | matrices, the state tables, the event tables, the list of protocol processes, writeable flag | node, source, destination, GPI, GPO and alarm handlers, IPC commands, finalising and purging of events | matrices by Qt signals; tables by SQL; protocol processes over a local socket |
| Protocol dispatcher (`drouterd/dprotod.cpp`) | a listening socket | asks the core for its socket, forks a process for every client | the core; protocol processes |
| Protocol base and Protocol D (`protocol.cpp`, `protocol_d.cpp`) | subscriptions, input buffers | `Subscribe*`, `List*`, `Set*`, `Clear*`, `Ping`, one handler per notification | core (notifications in, commands out), tables, one client over TCP |
| DParser (`common/dparser.cpp`) | maps of nodes, sources, destinations, two timers | one branch per record, ping, watchdog, reconnect | a Protocol D process |
| Software Authority server (`protocol_sa.cpp`) | endpoint maps, masks, pending host lookups | name lists, `RouteStat`, `GPIStat`, `GPOStat`, `ActivateRoute`, `TriggerGPI/GPO`, `ActivateSnap`, reports | core, tables, one client |
| SaParser (`common/saparser.cpp`) | name lists, crosspoints, GPIO states, what it is reading and waiting for | connect, one branch per line, user commands, two timers | a Software Authority process; the widgets |
| Endpoint maps (`common/endpointmap.cpp`, `dmap/dmap.cpp`) | router number, slots, names, snapshots | `load`, `save`, `loadSet`; `dmap` makes a map of the nodes there are | files; core and SA server |
| Matrix drivers (`matrix_*.cpp`, `watchdog.cpp`) | state of one device, timers | connect, poll, set crosspoint, reconnect | devices; the core by signals |
| Script engine (`scriptengine.cpp`) | the processes of the scripts | start, reap, start again | children of the daemon |
| Panels (`buttonpanel`, `outputpanel`, `xpointpanel`, `xypanel`, `eventlogpanel`, `shotpanel`) | widgets, armed choices | a person's actions, reports | SaParser, tables |
| Mail, GPIO flasher, serial device, configuration, Python API | little | I/O, reading of a file | the core |

### What is hard, and what makes each part correct

* **Tether.** Two processes that poll each other at random, with timers,
  answers without sequence numbers, two links that fail separately, restarts
  and crashes.  Correct: at most one active, the shared address where the
  active one is, nobody stands down in favour of nobody, the survivor takes
  over.
* **Start-up.** The daemon may be killed between any two statements, while its
  events outlive it and everything else should not.  Correct: the version that
  is written down tells the truth, no event changes its type, nothing of an
  earlier life is shown as present.
* **Tables to panels.** The core changes a row, then sends a notification
  that only names it; another process reads the row later and writes a record;
  the panel applies it.  Subscriptions, node arrivals and departures and broken
  connections fall between any two of these steps.  Correct: once quiet, a
  panel shows what the tables hold; it never shows old contents after new; it
  survives every record.
* **Software Authority session.** Answers to questions and unasked reports
  share one stream of lines that do not say which list they belong to.
  Correct: names go to the right list, the panel does not claim to be connected
  before it is loaded, and its crosspoints are those of the core.
* **Routes.** A route is requested, written to the event log, sent to the
  core, obeyed only if the instance is active, done by a matrix that answers
  later, and finalised by a timer.  Correct: the log says what happened.
* **Matrix drivers.** Devices hang, close, refuse, and answer several questions
  in one read.  Correct: the last route asked for is the one the device has,
  the tables end up with the device's own, no device that answers is given up.
* **Endpoint maps.** Zero- and one-based numbers meet in three programs.
  Correct: what is saved loads again, the rows are those of the map, a snapshot
  reaches the endpoints it names.
* **Panels.** A person looks, chooses and presses while others change routes.
  Correct: what is sent is what was meant, what is shown is what is there.
* **GPIO.** Levels go up a chain of six queues and commands go down it, past
  masks, standby instances and nodes that come and go.  Correct: the lamp shows
  the line and the line follows the button.

`PROJECT.json` lists the hazards line by line, with the properties that cover
them and, where none does, the reason.

## 2. Plan

The modules were written in the order of what depends on them, and all of the
plan is done: `Tether` with `ActiveStandby`; `Replica`; `SaSession`;
`EventLog`; `Startup`; `Matrix`; `EndPointMap`; `Panel`; `Gpio`.  Each has an
`MC` module with its instances and, most of them, a module of proofs; those of
`EndPointMap` and `Panel` share `PanelMapProofs`.

They are separate modules because the parts meet in few places, and each of
these is in the module of the part that can go wrong: the writeable flag that
the tether sets is `SetWriteable` in `EventLog`, `Gpio` and `Startup`; the rows
that a driver's signals change are `row` and `table` in `Matrix`, `stored` in
`Replica`, `route` in `SaSession`; the end of a protocol process is
`SessionOver` in `Replica` and `ChildEnds` in `Startup`.

Worth doing next: clip and silence alarms, which take the way of GPI codes
through `Replica`.

## 3. Modules and code

### Tether (`Tether.tla`, `ActiveStandby.tla`, `TetherProofs.tla`)

| Module | Code |
|---|---|
| `phase`, `left` | which of `tether_interval_timer`, `tether_window_timer` is armed, and for how long; "down" is no process |
| `active`, `heard`, `armed`, `shared` | `tether_active_state`; `tether_udp_state` and `tether_tty_state` being `+`; `tether_exit_args`; the address on a network interface |
| `wire` | datagrams and serial bytes under way |
| `Start`, `Exit`, `Crash` | `Tether::start` from `MainObject::protocolData`, `exitData` with `cleanup`, a process that just dies |
| `IntervalTimeout`, `WindowTimeout`, `Backoff`, `ReadyRead` | the slots of the same names |

Time is in ticks.  A tick passes only when no timer is due and no message has
reached its latency, so a timer never fires late by more than the order of
events within one tick, and a message arrives after any delay up to `Latency`.
`Window > 2 * Latency` is the code's own design (a second against a local
network).  Messages may be received in any order.  `Copy` only tells equal
messages of one tick apart; with a `Delays` that never rearms within a tick one
copy suffices.

`ActiveStandby` is what the operator was promised: start, stop and take over
when nobody serves.  `ImplementsActiveStandby` is the refinement.

### Tables to panels (`Replica.tla`, `ReplicaProofs.tla`)

`online` and `stored` are the tables, with one source and one destination to a
node and a version number for the contents of a row.  `pending` makes the
core's handlers two steps (row, then notification), `todo` does it for the
handlers of the protocol process, one query at a time.  A node that disconnects
loses its rows under a table lock, so its removal and the notification before it
are one step for everybody who queries: the query waits for the lock.
`replica` and `null` are DParser's maps, `null` holding the keys that the
subscript operator inserted without an object.  `watched` is the watchdog
timer, which the first Pong starts.

`LateAccept` says whether the protocol process may serve its client before the
core has accepted its connection.  Both happen; runs that are about something
else set it to FALSE.

### Software Authority session (`SaSession.tla`, `SaSessionProofs.tla`)

`cmds` and `tcp` are the two directions of the connection, line by line, with
the names of one list taken as one line.  `reading`, `current`, `last` and
`awaited` are SaParser's flags and counters of the same meaning; `torn` says
that `sa_accum` holds part of a line.  `routers`, `inputs`, `outputs`, `shots`
and `xpoint` are its lists.  On the server side `Report` is the join that a
crosspoint notification makes and `RouteInfo` the walk over outputs and rows
(`RouteRows`, `Walked`) that answers `RouteStat`.

Left out: the GPIO half of the session (see `Gpio`), the names and addresses in the lists,
refused logins (the server accepts every login), the crash a torn line with
three to seven fields may cause in `ReadSourceName`, and nodes that come and go
while a panel is connected.

### Routes and the event log (`EventLog.tla`, `EventLogProofs.tla`)

`events` is the table `PERM_SA_EVENTS`, of which `age` counts the seconds since
an event was written.  `ActivateRoute` writes an event and sends a command; the
routes of a snapshot are one step each (`todo`), since other processes write
events in between.  `ipc` are the commands, `node` what the core set and
the node has not reported yet, `table` the rows of the destinations.
`SetWriteable` is the slot that the tether calls; it runs and stops the timer of
`FinalizeEvents`.  `shown` and `maxId` are the list of the log panel and its
`d_max_id`.  `obeyed` and `cut` are history, read by properties only.

A second passes (`Tick`) only when the timer has fired and when what belongs to
an event of the second before has been obeyed and reported.  That is the
assumption under which the log can be right: a node that answers within a
second.  `datetime` columns hold whole seconds, so an event is finalized when it
is two seconds old by the clock and at least one in truth.

A node that goes takes its rows with it (`NodeDisconnected`) and may have obeyed a
part of what was under way; a daemon that is killed (`Restart`) has to find it
anew.  Left out: GPIO routes, purging, several routers, crosspoints changed at
the node by others.

### Start-up (`Startup.tla`, `StartupProofs.tla`)

`db` is what MariaDB holds: the version table and its row, the event table with
its columns, their types and its events, the other tables.  `Changes` are the
statements of each schema version, `Block(v)` those `StartDb` sends to come to
version `v`, and after the last version those that make the other tables.  `old`
are the tables it has still to drop (`DropTable`), `schema_ver` and `next` say
which statement is sent next (`Execute`): each is committed by itself, and a
`Crash` between two leaves the rest undone.  A statement that fails changes
nothing and nobody looks.  `Database(v)` is what an earlier
release left.

`ProtocolData` and `ScriptsData` are the two timers of `drouterd.cpp`; `Ask` and
`SendProtoSocket` hand over a listening socket, `SendFailed` is the failed
`sendmsg` that ends the daemon.  `proc` and `engine` are the children and what
`script_scripts` says of them; a *phantom* is the child that `scanData` forks for
the empty name it has entered for a protocol process.

### Matrix drivers (`Matrix.tla`, `MatrixProofs.tla`)

`kind` chooses the driver, `dev` and `xpoint` are the device (up, silent or
gone), `link` is `d_socket` with the states that matter to the slots:
`refused` is a connection that failed, of which no slot is told.  `poll` and
`timeout` are the watchdog's timers in seconds, `reconnect` the zero-second
timer.  The core asks only whether the driver has the output, so `Crosspoint` may
come at any time: `Write` keeps the command while the socket connects, and loses
it where there is none.  `Held` is the comparison with the driver's stream that
comes first, `Numbers` what either driver makes of an address.  `toDev` and `toDrv` are lines; `BtRead(n)` takes `n` of them for one
line, as `readyReadData` does with what one read returns.  `dst`, `row` and
`table` are the driver's destination and the core's row of it.  `lumped`,
`missed`, `wanted` and `settled` are history: the route last asked for, and whether
its command, if one was needed, was written or kept and has not been lost since.

A second passes only when what is due has fired and a device that is up has
answered; so a device answers within the second, which is what the timeout of
the watchdog (three seconds) is meant for.

### Endpoint maps (`EndPointMap.tla`, `PanelMapProofs.tla`)

`dir` holds the files, `Load`, `Save` and `LoadSet` are the functions of the same
names over records instead of lines: sections by number, numbers from one,
`Unused` what `SyProfile` has not been asked for.  `dmap` is a job of five steps
(`Generate`, `Connected`, `SaveOpen`, `SaveWrite`, `SaveRename`), any of which may
be the last.  Someone may write a file by hand (`Edit`).  `Start` and
`NodeConnected` are the core's use of the maps, `LoadMaps` and
`ActivateSnapshot` those of the Software Authority process, which reads the same
files later and may find them changed.  `dmap` writes names of its own for GPIOs (`MadeName`); the core calls a GPI
by its number and all else, GPOs too, what the node calls it (`NodeName`).
`origin` and `metAs` are history.

What the code does by loops over lists is said of sets.  `loadSet` reads one file
after the other until one is wrong or has the number or name of an earlier one:
whether it gets to the end does not depend on the order, so `ValidSet` says that
every file is right and that no two have a number or a name in common, and
`LoadSet` gives the maps of such a set.  `dmap` sorts the nodes by address and
inserts their slots one after the other: `InOrder` puts each at the place that is
the number of those before it, by address, place in the list of nodes (a node
listed twice is there twice) and slot.  The numbers in a snapshot's routes are not
negative (`IsText`).

### Panels (`Panel.tla`, `PanelMapProofs.tla`)

One panel, of one of five kinds, over a server and a parser reduced to what a
panel sees of them.  `panel` is the record of its widgets: the list of inputs
with the item that is current, whether a choice is armed, the rows or buttons,
the marks.  An item has a label and the input that a Take sends for it, which
differ for inputs the panel did not know.  `OnReport`, `OnInputs`, `OnLost` and
`OnUp` are the slots; the person's actions are actions.  `stage` is the
parser's progress after a connection, in the order of `SaSession`.

### GPIO (`Gpio.tla`, `GpioProofs.tla`)

The whole chain for one GPI or GPO: device, driver (`wire`, `orders`), core
(`row`, `notes`), protocol process (`ipc`, `masked`), session (`requests`,
`replies`), and a button, a lamp, a multi-state label with its dialog, or
somebody's client.  `Merged` is what a mask with lines left alone does.
`meant`, `unsure` and `unreported` are history: the levels commanded that
nothing has touched since, and what the client was not told.

## 4. Runs

| Run | Checks | Bounds and why they are enough |
|---|---|---|
| `TetherHealthy` | `TypeOK`, `AtMostOneActive`, `AddressFollowsActive`, `TetherInv`, `ImplementsActiveStandby` | latency 1, window 3 (the least that satisfies the assumption), intervals 1 and 2, so that polls coincide, cross and alternate; the theorems cover the rest |
| `TetherDegraded` | `NoVacancy`, `Failover` | one lossy link, crashes and restarts, latency 2, window 5, restart 8 ticks after the end, which is longer than a window as it is in the code |
| `ReplicaSteady` | `Converged`, `NeverCrashes`, `ForwardOnly`, `Resync` | one node, three versions of its source so that two changes are under way at once, two of its destination, one broken connection |
| `ReplicaChurn` | `TypeOK`, `NothingMissing` | one node that leaves and returns, with a changed source |
| `ReplicaNodeDel` | `Converged`, violated | a node that leaves |
| `SaSession` | `Converged`, `RightList`, `FirstStart`, `Loads` | two routers (the least with an order between their lists) that share a destination and a stream, an output without a destination, two crosspoint changes, one lost connection |
| `EventLog` | `TypeOK`, `LogTellsCrosspoint`, `OnlyOvertakenMissed`, `NoFalseFailure`, `EveryEventEnds` | one output, an input that can be routed and one that cannot, a client by hand and one with a snapshot of two routes, four events (the first makes the instance active, which leaves two routes that race and one more change), one lost node or restart |
| `Startup` | `TypeOK`, `SchemaHolds`, `FreshTables`, `KeepsTypes`, `ScriptsRestart`, `DiesOfTheDead` | databases of none and of versions 3, 5 and 6 (before, at and after the event types), two ends, so that a start that was cut off is followed by one that is cut off again, five events, one script |
| `Matrix` | `TypeOK`, `LastRouteHolds`, `NoFalseAlarm`, `CatchesUp`, `RowsFollowDevice` | both drivers, two inputs and a foreign address, two routes (one to be overtaken by the other), one fault; the timers with the numbers of the code |
| `EndPointMap` | `ReadsBack`, `RowsMatch`, `SnapshotsLand` | two files, two nodes with one and two slots, four texts by hand (good, with an endpoint twice, an endpoint without a slot and an output 0, with an output too high, with a gap), three calls of `dmap`, three changes: two files and an end, or a file, a run of `dmap` and its interruption |
| `Panel` | `SendsWhatWasMeant`, `ShowsRoute` | five kinds, two outputs, inputs 1 and 3 with a gap in which input 2 appears, so that the item for an unknown input sends a known one; one route of somebody else, one lost connection, one route sent |
| `Gpio` | `ShowsDevice`, `LinesFollow` | a GPI and a GPO of two lines, one in the mask and one not, one change at the device, two commands (press and release), one fault |

The runs have between 100 000 and 6 million states; `Gpio` takes longest, a few
minutes.  One panel is enough everywhere, since every panel has a process of its
own and none writes what another reads; other people's routes are actions of
their own.  One node is enough in `Replica`: records of different nodes touch
different entries, and the only thing that looks across them, the search for a
stream address, is in `ReceiveChange` for every key.

Deadlock is checked in the runs of the tether, which never stops, and of
`EventLog`, whose clock goes on.  The others stop when their bounds are used up,
or where the program does: a core with an invalid map, a driver that was refused.

### Fairness

* `Tether!FairSpec`: time passes, messages that are not lost arrive and timers
  fire.  Nothing obliges a process to start, end or crash.
* `Replica!FairSpec`: each process takes its turn in its event loop, and a
  connection with an error is reopened by the watchdog that `errorData` starts.
  Nodes need not change.
* `EventLog!FairSpec`: core, node, clock and both timers go on; no client has to ask
  and the instance need not become active.
* `SaSession!FairSpec`: as long as one process has something to do something is
  done.
* `Startup!FairSpec`: systemd starts what has ended, the statements and the
  timers go on, a protocol process asks and is answered; a script need not end,
  and nothing need crash.
* `Matrix!FairSpec`: time passes, a socket connects or is refused, a device that is
  up answers, the driver reads.  Devices need not fail or recover: what is
  promised is promised for those that stay as they are.

### What the violated run shows

`NODEDEL` is sent before the rows go and is looked up after they have gone, under
the lock that deletes them: panels never learn that a node has left, which
`docs/protocol_d.xml` promises.

### What the passing properties leave out by name

Some properties hold but for cases that the code does get wrong, or decides as it
pleases.  Each is excused by a condition in the property or kept out by the
instance, never by the model:

* **Tether.** With one dead link two polls that cross are both dropped, and both
  instances go active; the properties ask for two good links.
* **DParser.** A change record for an unknown source leaves a NULL in its map,
  and the next changed stream address dereferences it.  It takes a node that
  leaves and returns, or a protocol process accepted late (`LateAccept`).
* **Event panel.** A route that becomes final after a comment or a snapshot with
  a higher number was listed does not appear until the display is changed.
* **Software Authority session.** A disconnected output is reported as fed by an
  unused source, because both have the null stream.  When a router has two inputs
  on one stream, an output that takes it has two rows; `SendRouteInfo` never gets past
  the second, and tells 0 of every later output.  A connection that breaks
  within a line spoils the first line of the next, the answer to the login, and
  the panel waits for ever.  The startup timer is not stopped with the connection.
* **Schema.** A daemon killed between making the version table and its row goes
  through all upgrades at every later start, and all events become routes (`lost`).
* **Hand-over.** The core ends when a protocol process dies between its question
  and the answer.
* **Drivers.** The GVG driver has no watchdog (it is commented out): it gives up
  after a refused reconnect and never notices a silent device.  The BT driver
  drops lines that arrive together.  A route is compared with the stream the driver
  holds, which may be older than the device's or about to change, and dropped
  if they agree; one for a device that is gone is accepted and lost.  `settled`
  excuses these cases and no other.
* **Maps.** The numbers in a snapshot's routes begin with one, the limits `loadSet`
  compares them with do not: it refuses the highest output and input, though
  `docs/drouter.map.xml` says that a route takes the number listed in the same file,
  and lets output 0 through, which indexes below the list.  (The listing of
  these routes adds one to them again; see section 6.)  A disk that is full is not noticed and the short file renamed into place.
  A GPO without a name is called `GPO n` in `GPOS` and nothing in `SA_GPOS`, which
  `NodeName` does not tell from a name.
* **Panels.** `outputpanel` leaves a choice armed when a lost connection empties
  its list: Take then sends the first input.  Its item for an unknown input sends
  the next one, and when that one is routed picking the item arms nothing and shows
  an input that is not routed.  In `xpointpanel` a double-click in the last row or column mutes,
  or asks for output 0, and it accepts clicks while it reloads.
* **GPIO.** The row of a GPO starts with the code of the GPI in the same place.  A
  node that returns is reported with no code.  A release follows its press only
  if connection, instance and node stay.  The duration a trigger gives is not
  used.  `GpioParser` takes `I`, the widgets only `i`, for an input.

## 5. Proofs

### Tether

`TetherProofs.tla` proves, for every latency, window and set of intervals and any
starting and ending of processes, and (but for `TypeCorrect`
and what is said below) for at least two links that lose nothing:

* `TypeCorrect`: `Spec => []TypeOK`;
* `MutualExclusion`: `Spec => []AtMostOneActive`;
* `InTime`: `Spec => []TetherInv`;
* `Refinement`: `Spec => ImplementsActiveStandby`;
* `AddressFollows`: `Spec => []AddressFollowsActive`;
* `ServiceKept`: `Spec => NoVacancy`.

The assumptions are `TetherAssumption` (above all `Window > 2 * Latency`) and
`TwoGoodLinks`, which one dead link shows to be needed.  `AddressFollows` needs
neither of the links: it assumes only that processes end in good order
(`~MayCrash`), and rests on `AddressKept`, that an interface which has the address
belongs to an instance that runs, is active and will take the address back.

`AtMostOneActive` is not inductive: a state in which A is active and B has an
open window is harmless only because of what is under way.  `TetherInv` adds
that.  Polls and answers under way are young enough to arrive before the window
they concern closes (`PollsInTime`, `AnswersInTime`, `DenialsInTime`); a `+` is
never told by or to the wrong one (`NoRival`); of two open windows the later
one has its polls on all links still under way (`OpenWindows`), so one of the
two will be polled in its window and back off; and an instance in its window
whose peer is active will learn of it (`ActivePeerIsNoticed`).  This is where
two links are needed: the first poll that meets the peer's open window closes
it, the second is answered.  The proof has one lemma per action, and under it
one step per conjunct that the action can disturb.

`ServiceKept` holds over two good links because nobody is told of an active peer
while it is active itself.  It holds as well over one link that may lose messages
(`OneLink`), where both instances may be active, on one more assumption:
`SlowRestart`, `StartDelay > Latency + Window`.  A window is 1 s, and the tether
starts 30 s after its process where Livewire is enabled.  Without it that is 1 s, and
the assumption rests on what systemd waits before it restarts the service (100 ms
unless configured), which has to exceed the latency; TLC finds `NoVacancy` violated
where the assumption fails.  The danger is two active instances that have both heard
each other and both stand down.  `OneLinkInv` counts: the polls
under way, the `+` under way and the open windows that have heard one are never
more together than there are instances whose window is open or whose process has
ended, and of `+` there is at most one while both windows are open (`Balance`).
A poll adds one and opens a window; a window that is closed by a poll takes the
poll along; one that ends by itself leaves nothing behind, because what its
instance has said, and the peer has heard, is too old by then (`SentInTime`,
`LeftBehind`, `HeardInTime`).  So who is heard is active still, or its process
has ended (`StillActive`).  Two links of which one loses messages are not covered:
there a window sends two polls and the count does not hold; whether `NoVacancy` does
is open.

### Tables to panels

`ReplicaProofs.tla` proves, for any nodes, versions, departures and lost
connections, and with `LateAccept` or without:

* `TypeCorrect`: `Spec => []TypeOK`;
* `NeverBack`: `Spec => ForwardOnly`.

The invariant follows the contents of a row from the table to the panel: of two
records for a row the one behind is not older (`Ordered`), every record lies
between the panel's entry and the row (`Between`), and the entry is not newer
than the row (`NotAhead`).  Since a notification only names its row, the record
is made of what the row is when it is read, and that is why nothing goes back.

It proves further, under `NodesStay` (no node disconnects, and the core knows a
protocol process before it serves),

* `PanelConverges`: `Spec => []Converged`;
* `PanelStands`: `Spec => []NeverCrashes`.

The invariant `Sync` says what a panel that is not yet quiet may rely on.  What it
lacks is on its way, as a record, a query, a notification or in the core's running
handler (`AllComing`); of what it has, or is about to get, every row is current
or a change of it is on its way (`AllNew`); and a record for a change finds its
entry, because the record that adds it, the query for that and the notification
of the node's arrival each come before (`RecordsInOrder`, `QueriesInOrder`,
`NoticesInOrder`).  A notification lost because nobody has subscribed yet does no
harm: the subscription lists the rows later.  Both assumptions are needed:
`ReplicaNodeDel` shows it of departures, and a process known too late misses
notifications between its list and its acceptance.

The last part proves what is left when nodes do leave: `LacksNothing`,
`Spec => []NothingMissing`, for any departures, as long as the core knows a
protocol process before it serves (`KnownFirst`).  A panel may then hold rows of
nodes that are gone, but it never lacks one that is there.  The invariant
`Lasting` says why: behind each notification, query or record that takes an
entry away comes one that brings it back (`Returns`, `AskedAgain`, `Kept`).

### Software Authority session

`SaSessionProofs.tla` proves, for any numbers of routers, inputs, outputs,
destinations, changes and lost connections:

* `RightLists`: `Spec => []RightList`;
* `FirstStarts`: `Spec => []FirstStart`;
* `Convergence`: `Spec => []Converged`, under `PlainSources`.

A session is a sequence of six rounds of questions (`Round`): the login, the
routers, three lists of every router, the crosspoints.  The lines of a round that
are not reports get numbers, three to a router, in the order in which they must come
(`Number`, `All`).  The invariant (`Session`) gives the round and a number `m` such that
the questions and lines under way are exactly those of the round from `m` on, in order
(`UnderWay`); what comes before `m` has been read, into its list (`Progress`); and a
round that the end of a list concludes is not over before that has been read
(`Unfinished`).  That says which list is being read and for which router when a name
comes, whatever flags an earlier connection has left: their list is tried after the
right one, or has begun again.  A session that began with a torn line loses the
answer to its login and never leaves the first round.

For `Converged` the invariant (`Stats`) adds, in the last round, that every output comes
right: a notification about its destination is under way, or its router's
question, or the last line about it among those under way is right, or there is none
and the panel's crosspoint is (`Crosspoints`).  Answers and reports are made of
the routes there are when the question or the notification is taken, so that the
last line is right unless a notification is still to come.

`PlainSources` says that no input of a router has the null stream or the stream of
another one of its inputs.  A map may break that, and then the property is false
(section 4).  `SaAssumption` says that a map has one endpoint to an output, and that
there are finitely many routers and inputs.

What `InOrder`, `FlattenSeq` and the walk of `RouteInfo` return is proved too, with
induction by the least counterexample (`LeastMember`, `Induct`) and not with the
library's theorems: `InOrderEnumerates` lists a finite set of numbers in order,
`FlatElements` says what a flattened sequence consists of, `RouteInfoRight` that the
walk finds the row of every output.

### Routes and the event log

`EventLogProofs.tla` proves, for any clients, inputs, outputs and snapshots and any
number of events, lost nodes and restarts:

* `TypeCorrect`: `Spec => []TypeOK`;
* `NeverFalselyFailed`: `Spec => NoFalseFailure`;
* `OvertakenOnly`: `Spec => []OnlyOvertakenMissed`.

For `NoFalseFailure` the invariant follows a route through the program.  Each
command and each report under way fits its event, and the event is at most a
second old (`CommandsFit`, `ReportsTell`: the clock does not tick past them); the
last report for an output is that of the event obeyed last (`LastReported`); and
when no report is under way the table has that event's stream (`Reported`).  An
event is finalized at the age of two, so its report is in the table.

For `OnlyOvertakenMissed` the ages fall with the numbers, so route events become
final in order (`AgesFall`, `InOrder`), and what the panel has passed without
listing it lies below an event that was final at once (`Overtaken`).  That one
is stronger than the property, which speaks of final events only: it has to hold
of an event before it is final.

The last part proves `LogTells`, `Spec => []LogTellsCrosspoint`, on top of that.
Its invariant (`Told`) is the property for every output whose last obeyed
event is closed: while that event is open the table may be ahead of the log.
Commands and reports under way belong to open events (`FinalOld`: a route is
final only at the age of two), so a table changes only while its last event is
open; and when the timer closes that event it is called taken, after all that
were taken before it (`InOrder`).

### Matrix drivers

`MatrixProofs.tla` proves, for any number of inputs and addresses of other nodes,
either driver and any routes and faults:

* `RouteHolds`: `Spec => []LastRouteHolds`;
* `TypeCorrect`: `Spec => []TypeOK`;
* `AlarmIsTrue`: `Spec => NoFalseAlarm`.

The invariant of the route (`OnItsWay`): the last command for an input among those under way is
the one last asked for, or there is none and the device has that input.  A command
kept while the socket connects stays before the greeting's questions, which do not
change it (`ConnectedKeeps`), and one that goes with a connection clears `settled`
(`DropKeeps`).  It needs as well that a device without a connection tells the
driver nothing (`Unplugged`), and what each driver asks its device and hears
from it (`TypeInv`).

That of the watchdog (`WatchInv`) is an account kept in seconds.  While the driver
of the 41-MLR connects or is connected, `timeout + missed + UnderWay >= poll + 2`
unless two answers were dropped, where `UnderWay` counts the polls the device has
not read and the answers the driver has not: a poll puts one more under way, a
second takes one from both sides, an answer that is read sets the timeout to three,
and one that is dropped with a lump of lines moves from `UnderWay` to `missed`.  At
rest nothing is under way, so a timeout that has run out leaves `missed` to pay for
it alone.  What a sequence holds of some lines is the number of its places that
have one (`Count`), so that the number of a concatenation is the sum of the two by
a bijection of sets and needs no induction over sequences.

### Start-up

`StartupProofs.tla` proves, for any scripts, any earlier versions, any number of
events and any ends of the daemon between any two statements:

* `TypeCorrect`: `Spec => []TypeOK`;
* `VersionsStand`: `Spec => []SchemaHolds`;
* `TypesStay`: `Spec => []KeepsTypes`;
* `NothingOld`: `Spec => []FreshTables`;
* `OnlyDeadAskers`: `Spec => DiesOfTheDead`.

The proof first reads the statements: `Planned` says what can come at which
place of which block, `Effects` what that does to the database, `HasKept` and
`BlockKept` that no statement undoes what another has made.  For the last there
is one exception, the types of version 4 over those of version 6, so that the
invariant has to say which of them come after which.  `SchemaInv` is
`SchemaHolds` for every version that `StartDb` has got to, together with the
part of the present block that is done.  `RowInv` ties `schema_ver` to the row of
`PERM_VERSION`, or says that the row is lost; so the statement that makes route
events of all is met only where no other event was ever written (`EventsInv`).
`TablesInv` says that a table that is dropped is forgotten, and `ProcInv` that a
protocol process that runs has its socket or will find it with the core.

### GPIO

`GpioProofs.tla` proves, for any number of lines, any mask, texts, sources, changes,
commands and faults:

* `GpioInvariant`: `Spec => []IInv`;
* `ClientShowsDevice`: `Spec => []ShowsDevice`;
* `LinesFollowCommands`: `Spec => []LinesFollow`.

A queue counts for a property only by its last member that matters (`LastIn`,
with lemmas for putting in and taking out).  `LinesInv` follows a line over the
four queues between button and device: the last command that concerns it, in
the queue nearest to the client that has one, is the level it was given, and
with none the device has it.  `ShowInv` goes the other way: what the client
does not show is in a reply, a notification or a report on its way, with no
later one that says something else.

### Panels

`PanelMapProofs.tla` proves `MeantRoute`, `Spec => []SendsWhatWasMeant`, for any numbers of
inputs, outputs, routes, losses and sends.  `IInv` says what a panel relies on
when it sends: an armed choice that has not lapsed is the current item of the
list and the output is the one it was chosen for (`Chosen`), and the marks of
`xpointpanel` are the parser's crosspoints (`MarksTell`), so that the reverse of
what is shown is the reverse of what is held.

`RouteShown`, `Spec => []ShowsRoute`, needs the way of a report as well.  The
invariant `ShowInv` says that the last report on its way about an output tells
its route, and that from RouteStat on an output without one is known rightly
(`LastTells`, `Heard`); that the list begins with an item of its own label for every
input that was named and for OFF (`Lists`); that the current item is the first of
those for the known input unless a choice is pending (`Follows`); and that the marks
are the known crosspoints of the listed inputs (`MarksShow`).  That a list in order
has every member of a set (`AscendingEnumerates`) follows without induction: the
number of smaller members is an injection into as many places as there are members,
so every place is taken.

### Endpoint maps

`PanelMapProofs.tla` proves, for any files written by hand, nodes, numbers of slots
and arguments of `dmap`, and for any changes, interruptions and full disks:

* `MapsReadBack`: `MapsSpec => []ReadsBack`;
* `MapsRowsMatch`: `MapsSpec => []RowsMatch`;
* `MapsSnapshotsLand`: `MapsSpec => []SnapshotsLand`.

They rest on what the loops of the code compute.  `FirstMissing` gives the number at
which `load` stops, as the least that has no section, and `RunFacts` and `RunWhole`
what it has read by then; `InOrderFacts` shows that the list in order has every slot
once, since the number of those before a slot is an injection into as many places as
there are slots.  With them `SavedReads` says that `load` reads what `save` wrote:
numbers from one become the numbers from zero they were, nothing is left over, and
this also when the file has no names.

The invariant of the files (`FilesInv`) says what a running `dmap` holds (`IsJob`): a
map as `dmap` makes it (`IsMade`) and, once all is written, a temporary file that
is its text; so the renaming puts a whole file in place, and nobody but the job
writes its temporary file.  `RowsInv` says of every row that it is at the first
number of its endpoint and has the map's name, if it has one of its own, or what the
node called it when it connected (`Called`), and of every endpoint of a connected node that it has its row; that
a node renames what it finds without changing where it is (`RenamedFacts`) keeps the
rows of the others.  `SnapsInv` says that the routes of every map the Software
Authority process holds are within its lists (`Lands`).  That process reads its
maps from the same files as the core but later, so it rests on `FilesInv`, not on
what the core has.

`SnapshotsLand` leaves out endpoints that have no slot in the file: `ActivateRoute`
sends them nothing.

### Only model-checked

Liveness under fairness is out of the prover's reach: `Failover`, `Resync`, `Loads`,
`EveryEventEnds`, `ScriptsRestart`, `CatchesUp`, `RowsFollowDevice`.  Every safety
property of the runs has its theorem.

## 6. Not modelled

* Clip and silence alarms: they take the way of GPI codes through core and
  Protocol D, with subscriptions of their own.  The silence alarm and the GPIs
  of the BT 41-MLR, which no other part uses.
* The events of GPIO routes, which take the way of audio routes, and the
  purging of old events.  Its timer is given hours where milliseconds are meant,
  so it runs all the time; what it deletes is right.
* `List*` and `Set*` commands of Protocol D: the former answer as the
  subscriptions do, the latter are the commands of the Software Authority side.
* The GPIO flasher: the call that would give it a line is commented out.
* `lookupHost` of the Software Authority server, which may call its slot before
  the event it belongs to is entered: a fault of timing within Qt's resolver.
* Names, addresses, help texts, drawing, hover texts, clocks and menus; the shot
  panel, which is one button; the termios device, which is a link that may lose
  bytes; the mail helper; reading of the configuration; the Python API, a
  Protocol D client of its own; the Switchyard library behind the Livewire
  driver, which is not in the repository; the test programs, which only print.
* Setters of endpoint maps that no program calls, and negative numbers in the routes
  of a snapshot.
* The listing of a snapshot's routes (`SendSnapshotRoutes`), which changes nothing.
  It adds one to the numbers of the file, which begin with one already, so each
  line it prints is a command for other endpoints than the snapshot's, and a muted
  output has input 1.  The help calls the command `SnapShotRoutes`; the code takes
  `SnapshotNames` with a name.
