------------------------------ MODULE EventLog ------------------------------
(***************************************************************************)
(* What the event log tells of routes: a client asks for a crosspoint, its *)
(* Software Authority process (protocol_sa.cpp) writes an open event and   *)
(* sends a command, the core (drouter.cpp) obeys it while its instance is  *)
(* active, the node reports what it did, and a timer of the core closes    *)
(* the event with what the table says by then.  The event log panel        *)
(* (eventlogmodel.cpp) reads closed events by their numbers.               *)
(*                                                                         *)
(* Time passes in seconds, which is what the database stores.  A command   *)
(* is obeyed and reported at the latest in the second after its event.     *)
(* One audio router; sources keep their streams, and crosspoints are       *)
(* changed by this system only.                                            *)
(***************************************************************************)
EXTENDS Naturals, Sequences, FiniteSetsExt

CONSTANTS
  Client,       \* the Software Authority processes
  Output,       \* outputs and
  Input,        \* inputs of the router
  Off,          \* the input "0" of a request: no route
  Slot,         \* the outputs and inputs that the map gives a node and slot
  Stream,       \* Stream[i]: the stream of input i
  Null,         \* the stream of a destination that is off
  Asked,        \* Asked[c]: the routes client c asks for by themselves
  Snapshot,     \* Snapshot[c]: the snapshots it activates, sequences of routes
  MaxEvents,    \* bound: events ever written
  MaxLosses     \* bound: how often the node or the daemon is lost

Choice == Input \cup {Off}
Route  == Output \X Choice

ASSUME EventLogAssumption ==
  /\ Off \notin Input
  /\ Slot \subseteq Output \cup Input
  /\ DOMAIN Stream = Input
  /\ Asked \in [Client -> SUBSET Route]
  /\ \A c \in Client : Snapshot[c] \subseteq Seq(Route)
  /\ MaxEvents \in Nat
  /\ MaxLosses \in Nat

VARIABLES
  active,       \* drouter_writeable
  timer,        \* drouter_finalize_timer: stopped, waiting or due
  events,       \* PERM_SA_EVENTS; the number of an event is its ID
  todo,         \* todo[c]: the routes a snapshot of c still has to activate
  ipc,          \* ipc[c]: commands on their way to the core
  node,         \* crosspoints the core set that are not yet reported back
  online,       \* the node is connected: the tables hold its rows
  table,        \* table[o]: SA_DESTINATIONS, the stream output o receives; while
                \* the node is not connected, what it would report
  obeyed,       \* history: obeyed[o], the event whose command for output o the
                \* core obeyed last over this connection, 0 if none
  cut,          \* history: a connection was lost while the event of a crosspoint
                \* that had been set was still open
  losses,       \* losses of the node or the daemon so far
  shown,        \* the events the panel lists
  maxId         \* d_max_id of the panel

nodes == <<online, node, table, obeyed, cut, losses>>
core  == <<active, timer, nodes>>
panel == <<shown, maxId>>
vars  == <<core, events, todo, ipc, panel>>

Streams == {Stream[i] : i \in Input} \cup {Null}
Id      == 1 .. Len(events)

\* age counts whole seconds and stops at 2, the age that finalizing asks for.
RouteEvent == [type : {"R"}, route : Route, status : {"O", "Y", "N"}, age : 0 .. 2]
OtherEvent == [type : {"C", "S"}, status : {"Y"}, age : 0 .. 2]
Event      == RouteEvent \cup OtherEvent

Open(i)  == i \in Id /\ events[i].status = "O"
Final(i) == i \in Id /\ events[i].status # "O"

\* A command or a crosspoint set by it carries its event, for obeyed only.
Command == [output : Output, input : Choice, event : Nat \ {0}]
Report  == [output : Output, stream : Streams, event : Nat \ {0}]

\* Every variable has its type; the timer runs while the instance is active,
\* and what the panel lists is final and not above its highest number.
TypeOK ==
  /\ active \in BOOLEAN
  /\ timer \in IF active THEN {"waiting", "due"} ELSE {"stopped"}
  /\ events \in Seq(Event)
  /\ todo \in [Client -> Seq(Route)]
  /\ ipc \in [Client -> Seq(Command)]
  /\ online \in BOOLEAN
  /\ node \in IF online THEN Seq(Report) ELSE {<<>>}
  /\ table \in [Output -> Streams]
  /\ obeyed \in [Output -> 0 .. Len(events)]
  /\ cut \in BOOLEAN
  /\ losses \in 0 .. MaxLosses
  /\ shown \subseteq {i \in Id : Final(i) /\ i <= maxId}
  /\ maxId \in 0 .. Len(events)

Init ==
  /\ active = FALSE
  /\ timer = "stopped"
  /\ events = <<>>
  /\ todo = [c \in Client |-> <<>>]
  /\ ipc = [c \in Client |-> <<>>]
  /\ online = FALSE
  /\ node = <<>>
  /\ table = [o \in Output |-> Null]
  /\ obeyed = [o \in Output |-> 0]
  /\ cut = FALSE
  /\ losses = 0
  /\ shown = {}
  /\ maxId = 0

-----------------------------------------------------------------------------
(* A Software Authority process.                                           *)

\* Snapshot and comment events are final at once, route events open.
Other(type) == [type |-> type, status |-> "Y", age |-> 0]

AddRouteEvent(r) ==
  events' = Append(events, [type |-> "R", route |-> r, status |-> "O", age |-> 0])

\* The event comes first, whatever becomes of the route; the command only if
\* the map has a slot for both ends.
ActivateRoute(c, r) ==
  /\ Len(events) < MaxEvents
  /\ AddRouteEvent(r)
  /\ ipc' = IF r[1] \in Slot /\ r[2] \in Slot \cup {Off}
              THEN [ipc EXCEPT ![c] = Append(@,
                     [output |-> r[1], input |-> r[2], event |-> Len(events) + 1])]
              ELSE ipc
  /\ UNCHANGED <<core, panel>>

\* The command ActivateRoute of a client.
RouteCommand(c) ==
  /\ todo[c] = <<>>
  /\ \E r \in Asked[c] : ActivateRoute(c, r)
  /\ UNCHANGED todo

\* The command ActivateSnap: other processes may write events among its own.
SnapCommand(c) ==
  /\ todo[c] = <<>>
  /\ Len(events) < MaxEvents
  /\ \E s \in Snapshot[c] : todo' = [todo EXCEPT ![c] = s]
  /\ events' = Append(events, Other("S"))
  /\ UNCHANGED <<core, ipc, panel>>

SnapRoute(c) ==
  /\ todo[c] # <<>>
  /\ ActivateRoute(c, Head(todo[c]))
  /\ todo' = [todo EXCEPT ![c] = Tail(@)]

-----------------------------------------------------------------------------
(* The core.                                                               *)

\* Mutant: the timer is not stopped.
SetWriteableKeepingTimer(state) ==
  /\ active # state
  /\ Len(events) < MaxEvents
  /\ active' = state
  /\ timer' = IF state THEN "waiting" ELSE timer
  /\ events' = Append(events, Other("C"))
  /\ UNCHANGED <<nodes, todo, ipc, panel>>

\* Called by the tether; the finalize timer runs while the instance is active.
SetWriteable(state) ==
  /\ active # state
  /\ Len(events) < MaxEvents
  /\ active' = state
  /\ timer' = IF state THEN "waiting" ELSE "stopped"
  /\ events' = Append(events, Other("C"))
  /\ UNCHANGED <<nodes, todo, ipc, panel>>

StreamFor(i) == IF i = Off THEN Null ELSE Stream[i]

\* ClearCrosspoint and SetCrosspoint; an inactive instance reads and forgets, and
\* so does one that has not got the node.
ProcessIpcCommand(c) ==
  /\ ipc[c] # <<>>
  /\ ipc' = [ipc EXCEPT ![c] = Tail(@)]
  /\ LET cmd == Head(ipc[c]) IN
       IF active /\ online
         THEN /\ node' = Append(node, [output |-> cmd.output,
                                       stream |-> StreamFor(cmd.input),
                                       event |-> cmd.event])
              /\ obeyed' = [obeyed EXCEPT ![cmd.output] = cmd.event]
         ELSE UNCHANGED <<node, obeyed>>
  /\ UNCHANGED <<active, timer, online, table, cut, losses, events, todo, panel>>

\* destinationChangedData: the node tells what became of the crosspoint.
DestinationChanged ==
  /\ node # <<>>
  /\ table' = [table EXCEPT ![Head(node).output] = Head(node).stream]
  /\ node' = Tail(node)
  /\ UNCHANGED <<active, timer, online, obeyed, cut, losses, events, todo, ipc, panel>>

\* Mutant: the join over the sources for "off" too, which has none.
TakenJoined(r) ==
  /\ online
  /\ r[1] \in Slot
  /\ r[2] \in Slot
  /\ table[r[1]] = StreamFor(r[2])

\* FinalizeSAAudioRoute: by the table alone; what has no slot has no row there,
\* and nothing has while the node is not connected.
Taken(r) ==
  /\ online
  /\ r[1] \in Slot
  /\ r[2] \in Slot \cup {Off}
  /\ table[r[1]] = StreamFor(r[2])

\* Mutant: events of the last second are finalized too.
OldEnoughSoon(e) == e.age >= 1

OldEnough(e) == e.age = 2

\* FinalizeSARouteEvent: taken or failed.
FinalizeSARouteEvent(e) == [e EXCEPT !.status = IF Taken(e.route) THEN "Y" ELSE "N"]

\* Mutant: a timer that fires once.
FinalizeEventsOnce ==
  /\ timer = "due"
  /\ timer' = "stopped"
  /\ events' = [i \in Id |->
       IF Open(i) /\ OldEnough(events[i])
         THEN FinalizeSARouteEvent(events[i])
         ELSE events[i]]
  /\ UNCHANGED <<active, nodes, todo, ipc, panel>>

\* finalizeEventsData: every open event older than a second, in one handler.
FinalizeEvents ==
  /\ timer = "due"
  /\ timer' = "waiting"
  /\ events' = [i \in Id |->
       IF Open(i) /\ OldEnough(events[i])
         THEN FinalizeSARouteEvent(events[i])
         ELSE events[i]]
  /\ UNCHANGED <<active, nodes, todo, ipc, panel>>

\* What was under way to the node and back is gone; it may have obeyed a part.
Lose ==
  /\ losses < MaxLosses
  /\ losses' = losses + 1
  /\ online' = FALSE
  /\ node' = <<>>
  /\ \E reached \in 0 .. Len(node) :
       table' = [o \in Output |->
         LET set == {k \in 1 .. reached : node[k].output = o}
         IN IF set = {} THEN table[o] ELSE node[Max(set)].stream]
  /\ obeyed' = [o \in Output |-> 0]
  /\ cut' = (cut \/ \E o \in Output : Open(obeyed[o]))

\* nodeConnectedData(id,false): the rows of the node are deleted.
NodeDisconnected ==
  /\ online
  /\ Lose
  /\ UNCHANGED <<active, timer, events, todo, ipc, panel>>

\* nodeConnectedData(id,true): its rows are inserted as the node reports them.
NodeConnected ==
  /\ ~online
  /\ online' = TRUE
  /\ UNCHANGED <<active, timer, node, table, obeyed, cut, losses, events, todo, ipc, panel>>

\* The daemon is killed and started again: the processes and their commands are
\* gone, and the nodes have to be found anew.
Restart ==
  /\ Len(events) < MaxEvents
  /\ Lose
  /\ active' = FALSE
  /\ timer' = "stopped"
  /\ events' = Append(events, Other("C"))
  /\ todo' = [c \in Client |-> <<>>]
  /\ ipc' = [c \in Client |-> <<>>]
  /\ UNCHANGED panel

\* A second passes; the timer came in time, and so did every command and report.
Tick ==
  /\ timer # "due"
  /\ \A c \in Client : \A k \in 1 .. Len(ipc[c]) : events[ipc[c][k].event].age = 0
  /\ \A k \in 1 .. Len(node) : events[node[k].event].age = 0
  /\ timer' = IF timer = "waiting" THEN "due" ELSE timer
  /\ events' = [i \in Id |-> [events[i] EXCEPT !.age = IF @ < 2 THEN @ + 1 ELSE @]]
  /\ UNCHANGED <<active, nodes, todo, ipc, panel>>

-----------------------------------------------------------------------------
(* The panel.                                                              *)

\* updateRow: d_max_id after these rows.
Highest(rows) == Max(rows \cup {0})

\* Mutant: the highest number of the log instead of the list.
RefreshToEnd ==
  /\ shown' = shown \cup {i \in Id : Final(i) /\ i > maxId}
  /\ maxId' = Len(events)
  /\ UNCHANGED <<core, events, todo, ipc>>

\* refresh: what is final and has a higher number than anything listed yet.
Refresh ==
  LET rows == {i \in Id : Final(i) /\ i > maxId} IN
  /\ shown' = shown \cup rows
  /\ maxId' = Highest(rows \cup {maxId})
  /\ UNCHANGED <<core, events, todo, ipc>>

\* setShowAttributes: the list is made anew.
UpdateModel ==
  /\ shown' = {i \in Id : Final(i)}
  /\ maxId' = Highest(shown')
  /\ UNCHANGED <<core, events, todo, ipc>>

Next ==
  \/ \E c \in Client : RouteCommand(c)
  \/ \E c \in Client : SnapCommand(c)
  \/ \E c \in Client : SnapRoute(c)
  \/ \E state \in BOOLEAN : SetWriteable(state)
  \/ \E c \in Client : ProcessIpcCommand(c)
  \/ DestinationChanged
  \/ FinalizeEvents
  \/ NodeConnected
  \/ NodeDisconnected
  \/ Restart
  \/ Tick
  \/ Refresh
  \/ UpdateModel

Spec == Init /\ [][Next]_vars

\* The core, its nodes and timers and the panel's timer go on; nobody has to ask.
FairSpec ==
  /\ Spec
  /\ \A c \in Client : WF_vars(ProcessIpcCommand(c))
  /\ WF_vars(DestinationChanged)
  /\ WF_vars(FinalizeEvents)
  /\ WF_vars(Tick)
  /\ WF_vars(Refresh)

-----------------------------------------------------------------------------
(* Properties.                                                             *)

Quiet ==
  /\ node = <<>>
  /\ \A c \in Client : ipc[c] = <<>>
  /\ \A i \in Id : ~Open(i)

TakenEvents(o) ==
  {i \in Id : events[i].type = "R" /\ events[i].status = "Y" /\ events[i].route[1] = o}

\* Who reads the log once all is done knows the crosspoints: the last route it
\* calls taken for an output is the one the output has, whatever order the
\* commands of two clients took, and whichever of them were dropped or lost.  Only
\* a route that was cut off before it was finalized may be missed.
LogTellsCrosspoint ==
  (Quiet /\ online /\ ~cut) => \A o \in Output : TakenEvents(o) # {} =>
             table[o] = StreamFor(events[Max(TakenEvents(o))].route[2])

\* A route that the core set, and that no later command replaced, is never
\* logged as failed: its report is in the table when its event is finalized.
NoFalseFailure ==
  [][\A i \in Id : (Open(i) /\ \E o \in Output : obeyed[o] = i)
                     => events'[i].status # "N"]_vars

\* The panel lists every route event once it is final, unless an event that was
\* final at once had already moved its highest number past it.
OnlyOvertakenMissed ==
  \A i \in Id : (Final(i) /\ i <= maxId /\ i \notin shown)
                  => \E j \in i + 1 .. maxId : events[j].type # "R"

\* Once an instance stays active and nobody asks any more, no route event stays
\* open, and the panel has been through the whole log.
EveryEventEnds ==
  (<>[]active) => <>[](\A i \in Id : Final(i) /\ i <= maxId)

=============================================================================
