------------------------------- MODULE Matrix --------------------------------
(***************************************************************************)
(* The two drivers for devices that are not Livewire nodes, the Broadcast  *)
(* Tools 4.1 MLR (matrix_bt-41mlr.cpp, with the watchdog of watchdog.cpp)  *)
(* and the Grass Valley 7000 protocol (matrix_gvg7000.cpp), between a      *)
(* device that answers, hangs or is down and the tables of the core        *)
(* (drouter.cpp).  One output; a stream address is the number of an input  *)
(* of the device (so may be that of another matrix), Off for the null      *)
(* stream, or foreign.  What a driver holds for an output that is off is   *)
(* Off too, though it is no address.                                       *)
(*                                                                         *)
(* Time passes in seconds; a device that is up answers within one.  Each   *)
(* line is a step of its own, but the driver may find several lines in one *)
(* read: the BT driver takes what it reads for one line.                   *)
(***************************************************************************)
EXTENDS Naturals, Sequences, FiniteSets, SequencesExt

CONSTANTS
  Kinds,          \* the drivers of the instance, of {"bt", "gvg"}
  Inputs,         \* how many inputs the device has
  Foreign,        \* stream addresses of other nodes, beyond the device's inputs
  MaxRoutes,      \* bound: crosspoints set by the core
  MaxFaults       \* bound: how often device or connection fail

Input == 1 .. Inputs
Off   == 0

ASSUME MatrixAssumption ==
  /\ Kinds \subseteq {"bt", "gvg"}
  /\ Inputs \in Nat \ {0}
  /\ Foreign \subseteq Nat \ 0 .. Inputs
  /\ MaxRoutes \in Nat /\ MaxFaults \in Nat

\* Watchdog: seconds to the first poll, between polls, and to the timeout.
FirstPoll    == 5
PollInterval == 1
Timeout      == 3
Stopped      == FirstPoll + Timeout + 1     \* a timer that is not running

VARIABLES
  kind,           \* the driver
  dev,            \* up, hung (connected, but silent) or down
  xpoint,         \* the input the device has selected, Off for none
  link,           \* of d_socket: idle, connecting, refused, closing (closed while
                  \* connecting), up, or lost (not yet told to the driver)
  toDev, toDrv,   \* lines on their way
  reconnect,      \* d_reconnect_timer is running
  poll, timeout,  \* seconds left of the timers
  connected,      \* d_connected
  listed,         \* the driver has sources and destinations
  dst,            \* the stream of d_destinations[0]
  row, table,     \* the core has the rows of the device, with this stream
  routes, faults, \* counted for the bounds
  lumped,         \* history: a read of several lines that the driver dropped
  missed,         \* history: answers to polls dropped since the last one taken
  wanted,         \* history: the input last asked for, and whether it has to come:
  settled         \* the command was kept or not needed, and none was lost since

device == <<dev, xpoint>>
timers == <<reconnect, poll, timeout>>
driver == <<connected, listed, dst>>
core   == <<row, table>>
bounds == <<routes, faults>>
past   == <<lumped, missed, wanted, settled>>
vars   == <<kind, device, link, toDev, toDrv, timers, driver, core, bounds, past>>

Streams == {Off} \cup Input
Ask     == {"list", "gpi", "poll", "names", "time"}
Line    == [line : {"xpoint"}, input : Streams] \cup [line : {"gpi", "alarm", "names", "time"}]

TypeOK ==
  /\ kind \in {"bt", "gvg"}
  /\ dev \in {"up", "hung", "down"} /\ xpoint \in Streams
  /\ link \in {"idle", "connecting", "refused", "closing", "up", "lost"}
  /\ toDev \in Seq([ask : Ask] \cup [set : Streams \cup Foreign])
  /\ toDrv \in Seq(Line)
  /\ reconnect \in BOOLEAN
  /\ poll \in 0 .. FirstPoll \cup {Stopped}
  /\ timeout \in 0 .. Stopped
  /\ connected \in BOOLEAN /\ listed \in BOOLEAN /\ dst \in Streams
  /\ row = connected
  /\ table \in Streams
  /\ routes \in 0 .. MaxRoutes /\ faults \in 0 .. MaxFaults
  /\ lumped \in BOOLEAN /\ missed \in 0 .. 2
  /\ wanted \in Streams /\ settled \in BOOLEAN

\* The BT driver knows its inputs and outputs, the GVG driver asks for them.
Init ==
  /\ kind \in Kinds
  /\ dev = "up" /\ xpoint \in Streams
  /\ link = "idle" /\ toDev = <<>> /\ toDrv = <<>>
  /\ reconnect = TRUE /\ poll = Stopped /\ timeout = Stopped
  /\ connected = FALSE /\ listed = (kind = "bt") /\ dst = Off
  /\ row = FALSE /\ table = Off
  /\ routes = 0 /\ faults = 0
  /\ lumped = FALSE /\ missed = 0
  /\ wanted = xpoint /\ settled = TRUE

Question(q) == [ask |-> q]
Says(l)     == [line |-> l]
Selected(x) == [line |-> "xpoint", input |-> x]

\* What the driver writes while its socket is open is kept until it connects.
Write(lines) == IF link \in {"connecting", "up"} THEN toDev \o lines ELSE toDev

\* No command is under way.
NoCommand == \A k \in 1 .. Len(toDev) : "ask" \in DOMAIN toDev[k]

\* The lines to the device are gone.
Drop == toDev' = <<>> /\ settled' = (settled /\ NoCommand)

-----------------------------------------------------------------------------
(* The connection.                                                         *)

\* Mutant: the watchdog is not started.
ConnectToHostUnwatched ==
  /\ reconnect
  /\ reconnect' = FALSE
  /\ link' = IF link = "idle" THEN "connecting" ELSE link
  /\ UNCHANGED <<kind, device, toDev, toDrv, poll, timeout, driver, core, bounds, past>>

\* connectToHost, from StartStaticMatrices and from the reconnect timer; the GVG
\* driver has its watchdog commented out.
ConnectToHost ==
  /\ reconnect
  /\ reconnect' = FALSE
  /\ link' = IF link = "idle" THEN "connecting" ELSE link
  /\ IF kind = "bt" THEN poll' = FirstPoll /\ timeout' = FirstPoll + Timeout
                    ELSE UNCHANGED <<poll, timeout>>
  /\ UNCHANGED <<kind, device, toDev, toDrv, driver, core, bounds, past>>

\* connectedData: the BT driver asks for the crosspoint, the GVG driver for all it
\* has to know, and for the time to learn that this is complete.
Greeting ==
  IF kind = "bt" THEN << Question("list") >>
  ELSE << Question("names"), Question("list"), Question("time") >>

Connected ==
  /\ link = "connecting" /\ dev # "down"
  /\ link' = "up"
  /\ toDev' = toDev \o Greeting
  /\ poll' = IF kind = "gvg" THEN PollInterval ELSE poll
  /\ UNCHANGED <<kind, device, toDrv, reconnect, timeout, driver, core, bounds, past>>

\* A socket that was closed while it connected closes when it has.
ConnectedClosing ==
  /\ link = "closing" /\ dev # "down"
  /\ link' = "lost"
  /\ Drop
  /\ UNCHANGED <<kind, device, toDrv, timers, driver, core, bounds, lumped, missed, wanted>>

\* There is no slot for an error: nobody tells the driver.
Refused ==
  /\ link \in {"connecting", "closing"} /\ dev = "down"
  /\ link' = "refused"
  /\ Drop
  /\ UNCHANGED <<kind, device, toDrv, timers, driver, core, bounds, lumped, missed, wanted>>

Cut ==
  /\ link' = "lost"
  /\ Drop
  /\ toDrv' = <<>>

Lose ==
  /\ link = "up" /\ faults < MaxFaults
  /\ faults' = faults + 1
  /\ Cut
  /\ UNCHANGED <<kind, device, timers, driver, core, routes, lumped, missed, wanted>>

\* Mutant: the timer of the reconnect is not started.
DisconnectedForGood ==
  /\ link = "lost"
  /\ link' = "idle"
  /\ row' = FALSE
  /\ connected' = FALSE
  /\ poll' = IF kind = "gvg" THEN Stopped ELSE poll
  /\ UNCHANGED <<kind, device, toDev, toDrv, reconnect, timeout, listed, dst, table,
                 bounds, past>>

\* Mutant: the driver still thinks it is connected.
DisconnectedUnaware ==
  /\ link = "lost"
  /\ link' = "idle"
  /\ row' = FALSE
  /\ poll' = IF kind = "gvg" THEN Stopped ELSE poll
  /\ reconnect' = TRUE
  /\ UNCHANGED <<kind, device, toDev, toDrv, timeout, driver, table, bounds, past>>

\* disconnectedData: the core deletes the rows (nodeConnectedData), and a new socket
\* will connect at once.  The BT driver's watchdog goes on.
Disconnected ==
  /\ link = "lost"
  /\ link' = "idle"
  /\ row' = FALSE
  /\ connected' = FALSE
  /\ poll' = IF kind = "gvg" THEN Stopped ELSE poll
  /\ reconnect' = TRUE
  /\ UNCHANGED <<kind, device, toDev, toDrv, timeout, listed, dst, table, bounds, past>>

-----------------------------------------------------------------------------
(* The device.                                                             *)

\* Lines to a device that is gone go nowhere.
Tell(lines) == toDrv' = IF link = "up" THEN toDrv \o lines ELSE toDrv

\* A BT device tells every change of its crosspoint, a GVG device only when asked.
Select(x) ==
  /\ xpoint' = x
  /\ Tell(IF kind = "bt" /\ x # xpoint THEN << Selected(x) >> ELSE <<>>)

Answer(q) ==
  CASE q = "list"  -> Selected(xpoint)
    [] q = "gpi"   -> Says("gpi")
    [] q = "poll"  -> Says("alarm")
    [] q = "names" -> Says("names")
    [] q = "time"  -> Says("time")

Obey ==
  /\ link = "up" /\ dev = "up" /\ toDev # <<>>
  /\ toDev' = Tail(toDev)
  /\ LET c == Head(toDev) IN
       IF "set" \in DOMAIN c /\ c.set \in Streams THEN Select(c.set)
       ELSE /\ Tell(IF "ask" \in DOMAIN c THEN << Answer(c.ask) >> ELSE <<>>)
            /\ UNCHANGED xpoint
  /\ UNCHANGED <<kind, dev, link, timers, driver, core, bounds, past>>

\* Somebody uses the buttons of the device.
Push(x) ==
  /\ dev = "up" /\ x # xpoint /\ routes < MaxRoutes
  /\ routes' = routes + 1
  /\ Select(x)
  /\ wanted' = x
  /\ settled' = NoCommand
  /\ UNCHANGED <<kind, dev, link, toDev, timers, driver, core, faults, lumped, missed>>

Change(state) ==
  /\ dev # state
  /\ dev = "up" => faults < MaxFaults
  /\ faults' = IF dev = "up" THEN faults + 1 ELSE faults
  /\ dev' = state
  /\ UNCHANGED <<kind, xpoint, link, toDev, toDrv, timers, driver, core, routes, past>>

-----------------------------------------------------------------------------
(* The driver.                                                             *)

\* destinationChanged: the core updates its row, if it has one.
DestinationChanged(s) ==
  /\ dst' = s
  /\ table' = IF row THEN s ELSE table

\* Mutant: the command has the number of the input before.
NumberBefore(s) == IF s \in Input THEN s - 1 ELSE s

\* The number in the command: the low byte of the address for BT; for GVG the
\* address, less one, of a source that the device counts from zero.
Number(s) == s

\* The numbers a driver can make of an address that it does not hold.  The GVG driver
\* ignores what is no positive number of an int: the null stream and the addresses of
\* Livewire nodes, but not all of other matrices'.  The low byte of a foreign address
\* may be that of an input.
Numbers(s) ==
  CASE s \in Input -> {s}
    [] s = Off     -> IF kind = "bt" THEN {Off} ELSE {}
    [] OTHER       -> IF kind = "bt" THEN Streams \cup {s} ELSE {s}

\* The address is that of the stream the driver holds; off has none.
Held(s) == s = dst /\ s # Off

\* setDstAddress, from setCrosspoint and clearCrosspoint: the core only asks whether
\* the driver has the output, not whether it is connected.
Crosspoint(s) ==
  /\ routes < MaxRoutes /\ listed
  /\ routes' = routes + 1
  /\ \/ /\ Held(s)
        /\ wanted' = s
        /\ settled' = (s = xpoint /\ NoCommand)
        /\ UNCHANGED toDev
     \/ /\ ~Held(s)
        /\ kind = "gvg" /\ s \notin Input
        /\ UNCHANGED <<toDev, wanted, settled>>
     \/ /\ ~Held(s)
        /\ \E low \in Numbers(s) :
             /\ toDev' = Write(<< [set |-> Number(low)] >>)
             /\ IF low \in Streams
                  THEN wanted' = low /\ settled' = (link \in {"connecting", "up"})
                  ELSE UNCHANGED <<wanted, settled>>
  /\ UNCHANGED <<kind, device, link, toDrv, timers, driver, core, faults, lumped, missed>>

\* Mutant: the rows are inserted as they were before.
NodeConnectedAsBefore ==
  /\ connected' = TRUE
  /\ row' = TRUE
  /\ UNCHANGED table

\* The core inserts the rows when the driver says that it is connected.
NodeConnected ==
  /\ connected' = TRUE
  /\ row' = TRUE
  /\ table' = dst

BtReads(line) ==
  CASE line.line = "xpoint" ->
         /\ DestinationChanged(line.input)
         /\ toDev' = IF connected THEN toDev ELSE Write(<< Question("gpi") >>)
         /\ UNCHANGED <<connected, row, timeout, missed>>
    [] line.line = "gpi" ->
         /\ IF connected THEN UNCHANGED <<connected, row, table>> ELSE NodeConnected
         /\ UNCHANGED <<dst, toDev, timeout, missed>>
    [] line.line = "alarm" ->
         /\ timeout' = IF timeout = Stopped THEN Stopped ELSE Timeout
         /\ missed' = 0
         /\ UNCHANGED <<toDev, connected, row, dst, table>>

Least(a, b) == IF a < b THEN a ELSE b

\* How many of these lines answer a poll.
Alarms(lines) == Cardinality({k \in DOMAIN lines : lines[k].line = "alarm"})

\* readyReadData of the BT driver: what was read is one line or nothing.
BtRead(n) ==
  /\ kind = "bt" /\ n \in 1 .. Len(toDrv)
  /\ toDrv' = SubSeq(toDrv, n + 1, Len(toDrv))
  /\ IF n = 1
       THEN BtReads(Head(toDrv)) /\ UNCHANGED lumped
       ELSE /\ lumped' = TRUE
            /\ missed' = Least(2, missed + Alarms(SubSeq(toDrv, 1, n)))
            /\ UNCHANGED <<toDev, connected, row, dst, table, timeout>>
  /\ UNCHANGED <<kind, device, link, reconnect, poll, listed, bounds, wanted, settled>>

\* ProcessGvgCommand, frame by frame: a crosspoint counts only when its source and
\* destination have been listed, and the GVG driver cannot tell "off".
GvgTakes(line) == listed /\ line.input # Off

GvgRead ==
  /\ kind = "gvg" /\ toDrv # <<>>
  /\ toDrv' = Tail(toDrv)
  /\ LET line == Head(toDrv) IN
     CASE line.line = "names"  -> listed' = TRUE /\ UNCHANGED <<connected, row, dst, table>>
       [] line.line = "time"   -> NodeConnected /\ UNCHANGED <<listed, dst>>
       [] line.line = "xpoint" ->
            /\ IF GvgTakes(line) THEN DestinationChanged(line.input)
                                 ELSE UNCHANGED <<dst, table>>
            /\ UNCHANGED <<listed, connected, row>>
  /\ UNCHANGED <<kind, device, link, toDev, timers, bounds, past>>

\* Mutant: the poll timer is not started again.
PollOnce == Stopped

NextPoll == PollInterval

\* Watchdog::pollData with watchdogPollData, and pollData of the GVG driver, which
\* asks for the crosspoints again; one question on its way stands for several.
Poll ==
  /\ poll = 0
  /\ poll' = NextPoll
  /\ LET q == Question(IF kind = "bt" THEN "poll" ELSE "list") IN
       toDev' = IF kind = "gvg" /\ Contains(toDev, q) THEN toDev ELSE Write(<< q >>)
  /\ UNCHANGED <<kind, device, link, toDrv, reconnect, timeout, driver, core, bounds, past>>

\* timeoutData with watchdogTimeoutData: the socket is closed.
WatchdogTimeout ==
  /\ timeout = 0
  /\ timeout' = Stopped /\ poll' = Stopped
  /\ CASE link = "up"         -> Cut
       [] link = "connecting" -> link' = "closing" /\ UNCHANGED <<toDev, toDrv, settled>>
       [] OTHER               -> UNCHANGED <<link, toDev, toDrv, settled>>
  /\ missed' = 0
  /\ UNCHANGED <<kind, device, reconnect, driver, core, bounds, lumped, wanted>>

Less(t) == IF t = Stopped THEN Stopped ELSE t - 1

\* A second passes when the timers that were due have fired, and a device that is up
\* has obeyed and been read.
Tick ==
  /\ poll # 0 /\ timeout # 0 /\ ~reconnect
  /\ link # "lost" /\ toDrv = <<>>
  /\ link \in {"connecting", "closing"} => dev = "down"
  /\ (link = "up" /\ dev = "up") => toDev = <<>>
  /\ poll' = Less(poll) /\ timeout' = Less(timeout)
  /\ UNCHANGED <<kind, device, link, toDev, toDrv, reconnect, driver, core, bounds, past>>

Next ==
  \/ ConnectToHost
  \/ Connected
  \/ ConnectedClosing
  \/ Refused
  \/ Lose
  \/ Disconnected
  \/ Obey
  \/ \E x \in Streams : Push(x)
  \/ \E state \in {"up", "hung", "down"} : Change(state)
  \/ \E s \in Streams \cup Foreign : Crosspoint(s)
  \/ \E n \in 1 .. Len(toDrv) : BtRead(n)
  \/ GvgRead
  \/ Poll
  \/ WatchdogTimeout
  \/ Tick

Spec == Init /\ [][Next]_vars

\* Time passes, what is on its way arrives, one line to a read if there is but one;
\* nothing has to fail, and nobody has to ask for a crosspoint.
FairSpec ==
  /\ Spec
  /\ WF_vars(ConnectToHost) /\ WF_vars(Connected) /\ WF_vars(ConnectedClosing)
  /\ WF_vars(Refused) /\ WF_vars(Disconnected) /\ WF_vars(Obey)
  /\ WF_vars(\E n \in 1 .. Len(toDrv) : BtRead(n)) /\ WF_vars(GvgRead)
  /\ WF_vars(Poll) /\ WF_vars(WatchdogTimeout) /\ WF_vars(Tick)

-----------------------------------------------------------------------------
(* Properties.                                                             *)

AtRest == toDev = <<>> /\ toDrv = <<>>

\* The route last asked for, by the core or with the device's buttons, is the one the
\* device has when it is at rest, whether it was connected then or still connecting,
\* and whatever was asked for before.  Not so if the connection took a command with it
\* or there was none to write to, if a command was under way when a button was pushed,
\* or if the driver dropped the route because it held the same stream: that may not
\* be, or not stay, the device's.
LastRouteHolds == (AtRest /\ settled) => xpoint = wanted

\* The watchdog never closes the connection to a device that has answered every poll,
\* unless the driver dropped the last two answers with other lines.
NoFalseAlarm ==
  [][(WatchdogTimeout /\ link = "up" /\ dev = "up" /\ AtRest) => missed = 2]_vars

\* While device and connection last, the core ends up with the input the device has
\* selected, whatever was changed on either side; lines that were read together may
\* be missing, and a GVG device that is off is not told from the input before.
CatchesUp ==
  (<>[](dev = "up" /\ row)) =>
     <>[](table = xpoint \/ lumped \/ (kind = "gvg" /\ xpoint = Off))

GaveUp == link = "refused"

\* A device that stays up gets its rows back, unless a connection was refused (no slot
\* is called then, and the driver gives up) or lines were dropped; and the rows of a
\* BT device that stays silent go, since its watchdog closes the connection.
RowsFollowDevice ==
  /\ (<>[](dev = "up")) => <>[](row \/ lumped \/ GaveUp)
  /\ (<>[](dev # "up")) => <>[](~row \/ kind = "gvg")

=============================================================================
