------------------------------ MODULE SaSession ------------------------------
(***************************************************************************)
(* A session of the Software Authority protocol: a panel's SaParser        *)
(* (saparser.cpp) asks its ProtocolSa process (protocol_sa.cpp) for the    *)
(* lists of routers, inputs, outputs and snapshots and for the state of    *)
(* every crosspoint, while the process reports, unasked, each crosspoint   *)
(* that the core (drouter.cpp) sees changing.  Questions, answers and      *)
(* reports share one connection, and nothing in a line of a list tells     *)
(* which list it belongs to: SaParser goes by the lists it is reading.     *)
(*                                                                         *)
(* All routers are audio routers, and the nodes do not come or go during   *)
(* the session.  The states of GPIs and GPOs take the same way as the      *)
(* crosspoints; they are in Gpio.                                          *)
(***************************************************************************)
EXTENDS Naturals, Sequences, FiniteSets, SequencesExt

CONSTANTS
  Router,         \* the numbers of the routers with a map
  Outputs,        \* how many outputs each map has
  Dest, Stream,   \* destinations of the nodes, and the streams they can take
  NullStream,     \* DROUTER_NULL_STREAM_ADDRESS
  Destinations,   \* SA_DESTINATIONS, as <<router, output, destination>>
  Sources,        \* SA_SOURCES, as <<router, input, stream>>
  MaxChanges,     \* bound: how often a destination takes another stream
  MaxDrops        \* bound: how often the panel loses its connection

Output == 1 .. Outputs
Signal == Stream \cup {NullStream}

\* An output of a map is one endpoint.
ASSUME SaAssumption ==
  /\ Router \subseteq Nat \ {0} /\ IsFiniteSet(Router) /\ Outputs \in Nat
  /\ NullStream \notin Stream
  /\ Destinations \subseteq Router \X Output \X Dest
  /\ \A v, w \in Destinations : v[1] = w[1] /\ v[2] = w[2] => v = w
  /\ Sources \subseteq Router \X (Nat \ {0}) \X Signal
  /\ IsFiniteSet(Sources)
  /\ MaxChanges \in Nat /\ MaxDrops \in Nat

List == <<"RouterNames", "SourceNames", "DestNames", "SnapshotNames">>

Command == [cmd : {"Login", "RouterNames"}]
             \cup [cmd : {"SourceNames", "DestNames", "SnapshotNames", "RouteStat"},
                   router : Router]

Line == [line : {"Login"}]
          \cup [line : {"Begin", "Names", "End"}, list : Range(List), router : Router \cup {0}]
          \cup [line : {"RouteStat"}, router : Router, output : Output, input : Nat]

VARIABLES
  route,          \* route[d]: the stream that destination d takes
  changes,        \* changes of route so far
  pending,        \* the notification the core's running handler still writes
  ipc,            \* notifications on their way to the protocol process
  cmds,           \* commands on their way from the panel
  tcp,            \* lines on their way to the panel
  conn,           \* the panel's socket is connected
  drops,          \* connections lost so far
  torn,           \* sa_accum holds the beginning of a line
  reading,        \* the lists l with sa_reading_l set
  current,        \* sa_current_router
  last,           \* sa_last_router
  awaited,        \* sa_last_xpoint_router and sa_last_xpoint_output
  starting,       \* sa_startup_timer is running
  connected,      \* sa_connected
  routers,        \* the routers in sa_router_names
  inputs,         \* the routers with sa_input_names
  outputs,        \* outputs[r]: the outputs in sa_output_names
  shots,          \* shots[r]: whether sa_snapshot_names holds the router's
                  \* own snapshots, and whether other lines
  xpoint          \* xpoint[r][o]: at most one input, from sa_output_xpoints

core   == <<route, changes, pending>>
lists  == <<routers, inputs, outputs, shots, xpoint>>
parser == <<torn, reading, current, last, awaited, starting, connected, lists>>
vars   == <<core, ipc, cmds, tcp, conn, drops, parser>>

None == <<0, 0>>

Cleared ==
  /\ routers' = {}
  /\ inputs' = {}
  /\ outputs' = [r \in Router |-> {}]
  /\ shots' = [r \in Router |-> {}]
  /\ xpoint' = [r \in Router |-> [o \in Output |-> {}]]

Init ==
  /\ route \in [Dest -> {NullStream}]
  /\ changes = 0 /\ drops = 0
  /\ pending = <<>> /\ ipc = <<>> /\ cmds = <<>> /\ tcp = <<>>
  /\ conn = FALSE /\ torn = FALSE /\ starting = FALSE /\ connected = FALSE
  /\ reading = {} /\ current = 0 /\ last = 0 /\ awaited = None
  /\ routers = {} /\ inputs = {}
  /\ outputs = [r \in Router |-> {}]
  /\ shots = [r \in Router |-> {}]
  /\ xpoint = [r \in Router |-> [o \in Output |-> {}]]

-----------------------------------------------------------------------------
(* The core                                                                *)

\* destinationChangedData, after whatever made the node take another stream.
DestinationChanged(d, s) ==
  /\ changes < MaxChanges
  /\ pending = <<>>
  /\ s # route[d]
  /\ route' = [route EXCEPT ![d] = s]
  /\ changes' = changes + 1
  /\ pending' = <<d>>
  /\ UNCHANGED <<ipc, cmds, tcp, conn, drops, parser>>

\* DSTX goes to the process of every panel that is connected.
NotifyProtocols ==
  /\ pending # <<>>
  /\ ipc' = IF conn THEN Append(ipc, Head(pending)) ELSE ipc
  /\ pending' = Tail(pending)
  /\ UNCHANGED <<route, changes, cmds, tcp, conn, drops, parser>>

-----------------------------------------------------------------------------
(* The protocol process                                                    *)

RouteStat(r, o, i) == [line |-> "RouteStat", router |-> r, output |-> o, input |-> i]

\* The members of a set of numbers in order.
InOrder(S) == [n \in 1 .. Cardinality(S) |->
                 CHOOSE i \in S : Cardinality({j \in S : j < i}) = n - 1]

Matches(r, s) == {w[2] : w \in {v \in Sources : v[1] = r /\ v[3] = s}}

\* Mutant: an inner join.
JoinedInner(r, s) == InOrder(Matches(r, s))

\* The rows of the left join of SA_DESTINATIONS and SA_SOURCES on router and
\* stream: no source gives NULL, which RouteStatMessage turns into 0.
Joined(r, s) == IF Matches(r, s) = {} THEN <<0>> ELSE InOrder(Matches(r, s))

\* destinationCrosspointChanged: one line for every row of the join.
Report(d) ==
  LET rows == [r \in Router |-> Joined(r, route[d])]
      fed  == [o \in Output |-> InOrder({r \in Router : <<r, o, d>> \in Destinations})]
      lines(r, o) == [n \in DOMAIN rows[r] |-> RouteStat(r, o, rows[r][n])]
  IN  FlattenSeq([o \in Output |->
        FlattenSeq([k \in DOMAIN fed[o] |-> lines(fed[o][k], o)])])

CrosspointChanged ==
  /\ conn
  /\ ipc # <<>>
  /\ tcp' = tcp \o Report(Head(ipc))
  /\ ipc' = Tail(ipc)
  /\ UNCHANGED <<core, cmds, conn, drops, parser>>

\* SendRouteInfo asks for the rows with a source that is not the null stream
\* and walks them and the outputs of the map side by side.
RouteRows(r) ==
  LET taken(o) == {route[w[3]] : w \in {v \in Destinations : v[1] = r /\ v[2] = o}}
      fed == [o \in Output |->
                InOrder(UNION {Matches(r, s) : s \in taken(o) \ {NullStream}})]
  IN  FlattenSeq([o \in Output |-> [k \in DOMAIN fed[o] |-> <<o, fed[o][k]>>]])

\* The next row is one of output o.
Meets(rows, k, o) == k < Len(rows) /\ rows[k + 1][1] = o

\* How many rows have been used when the walk has come to each output.
Walked(rows) ==
  LET used[o \in 0 .. Outputs] ==
        IF o = 0 THEN 0
        ELSE used[o - 1] + IF Meets(rows, used[o - 1], o) THEN 1 ELSE 0
  IN  used

RouteInfo(r) ==
  LET rows == RouteRows(r)
      used == Walked(rows)
  IN  [o \in Output |->
         RouteStat(r, o, IF Meets(rows, used[o - 1], o) THEN rows[used[o]][2] ELSE 0)]

\* Sources, outputs and snapshots are listed between two lines with their
\* router; the list of routers has none.
Listing(l, r) == [n \in 1 .. 3 |-> [line |-> <<"Begin", "Names", "End">>[n],
                                    list |-> l, router |-> r]]

Answer(c) ==
  CASE c.cmd = "Login"       -> <<[line |-> "Login"]>>
    [] c.cmd = "RouterNames" -> Listing("RouterNames", 0)
    [] c.cmd = "RouteStat"   -> RouteInfo(c.router)
    [] OTHER                 -> Listing(c.cmd, c.router)

ProcessCommand ==
  /\ conn
  /\ cmds # <<>>
  /\ tcp' = tcp \o Answer(Head(cmds))
  /\ cmds' = Tail(cmds)
  /\ UNCHANGED <<core, ipc, conn, drops, parser>>

-----------------------------------------------------------------------------
(* The panel: the connection and the two timers                            *)

\* connectToHost or, five seconds after the connection was lost or refused,
\* holdoffReconnectData; the startup timer takes one second.
Connect ==
  /\ ~conn
  /\ ~starting
  /\ conn' = TRUE
  /\ cmds' = <<[cmd |-> "Login"]>>
  /\ UNCHANGED <<core, ipc, tcp, drops, parser>>

\* connectionClosedData.  The protocol process ends; of the line under way
\* the panel may have got a part.
ConnectionClosed ==
  /\ conn
  /\ drops < MaxDrops
  /\ conn' = FALSE
  /\ drops' = drops + 1
  /\ ipc' = <<>> /\ cmds' = <<>> /\ tcp' = <<>>
  /\ torn' \in {torn, torn \/ tcp # <<>>}
  /\ connected' = FALSE
  /\ Cleared
  /\ UNCHANGED <<core, reading, current, last, awaited, starting>>

\* startupData
StartupTimeout ==
  /\ starting
  /\ starting' = FALSE
  /\ connected' = TRUE
  /\ UNCHANGED <<core, ipc, cmds, tcp, conn, drops, torn, reading, current,
                 last, awaited, lists>>

-----------------------------------------------------------------------------
(* The panel: DispatchCommand                                              *)

Receive(kind) ==
  /\ conn
  /\ tcp # <<>>
  /\ Head(tcp).line = kind
  /\ tcp' = Tail(tcp)
  /\ UNCHANGED <<core, ipc, conn, drops>>

Whole(kind) == Receive(kind) /\ ~torn /\ UNCHANGED torn

\* Mutant: DispatchCommand tries the readers from the last to the first.
ReadingBackwards(l) ==
  /\ l \in reading
  /\ \A k \in DOMAIN List : List[k] \in reading => \E n \in k .. Len(List) : List[n] = l

\* The list that DispatchCommand takes a line for: it tries them in order.
Reading(l) ==
  /\ l \in reading
  /\ \A k \in DOMAIN List : List[k] \in reading => \E n \in 1 .. k : List[n] = l

Ask(name, rs) == [n \in DOMAIN InOrder(rs) |-> [cmd |-> name, router |-> InOrder(rs)[n]]]

\* ReadSnapshotName takes any line, the other readers only what looks right.
Misread ==
  shots' = IF Reading("SnapshotNames")
             THEN [shots EXCEPT ![current] = @ \cup {"other"}] ELSE shots

\* The line is taken for a continuation of the one the last session broke,
\* which may have begun with a name for the list that is being read.
ReceiveTorn ==
  /\ torn
  /\ \E kind \in {"Login", "Begin", "Names", "End", "RouteStat"} : Receive(kind)
  /\ torn' = FALSE
  /\ Misread
  /\ \E r \in Router, o \in Output, name \in BOOLEAN :
       LET into(l) == name /\ Reading(l)
       IN  /\ routers' = IF into("RouterNames") THEN routers \cup {r} ELSE routers
           /\ inputs' = IF into("SourceNames") THEN inputs \cup {current} ELSE inputs
           /\ outputs' = IF into("DestNames")
                           THEN [outputs EXCEPT ![current] = @ \cup {o}] ELSE outputs
  /\ UNCHANGED <<cmds, reading, current, last, awaited, starting, connected, xpoint>>

ReceiveLogin ==
  /\ Whole("Login")
  /\ cmds' = Append(cmds, [cmd |-> "RouterNames"])
  /\ UNCHANGED <<reading, current, last, awaited, starting, connected, lists>>

ReceiveBegin ==
  /\ Whole("Begin")
  /\ LET l == Head(tcp).list
         r == Head(tcp).router
     IN  /\ reading' = reading \cup {l}
         /\ current' = IF r = 0 THEN current ELSE r
         /\ routers' = IF l = "RouterNames" THEN {} ELSE routers
         /\ inputs' = IF l = "SourceNames" THEN inputs \ {r} ELSE inputs
         /\ outputs' = IF l = "DestNames" THEN [outputs EXCEPT ![r] = {}] ELSE outputs
         /\ shots' = IF l = "SnapshotNames" THEN [shots EXCEPT ![r] = {}] ELSE shots
  /\ UNCHANGED <<cmds, last, awaited, starting, connected, xpoint>>

\* What is listed goes to the first list that is being read.
ReceiveNames ==
  /\ Whole("Names")
  /\ LET l == Head(tcp).list
         into(k) == l = k /\ Reading(k)
         listed == {o \in Output : \E d \in Dest : <<current, o, d>> \in Destinations}
     IN  /\ routers' = IF into("RouterNames") THEN Router ELSE routers
         /\ inputs' = IF into("SourceNames") THEN inputs \cup {current} ELSE inputs
         /\ outputs' = IF into("DestNames") THEN [outputs EXCEPT ![current] = listed]
                                            ELSE outputs
         /\ shots' = IF into("SnapshotNames")
                       THEN [shots EXCEPT ![current] = @ \cup {"own"}] ELSE shots
  /\ UNCHANGED <<cmds, reading, current, last, awaited, starting, connected, xpoint>>

\* The end of a list, or of the last router's list, starts the next round.
ReceiveEndRouters ==
  /\ Whole("End")
  /\ Head(tcp).list = "RouterNames"
  /\ reading' = reading \ {"RouterNames"}
  /\ cmds' = cmds \o Ask("SourceNames", routers)
  /\ last' = IF routers = {} THEN last ELSE Max(routers)
  /\ UNCHANGED <<current, awaited, starting, connected, lists>>

EndsRound(l) ==
  /\ Whole("End")
  /\ Head(tcp).list = l
  /\ current' = Head(tcp).router
  /\ UNCHANGED <<last, starting, connected, lists>>

ReceiveEndOther ==
  /\ \E l \in Range(List) : EndsRound(l)
  /\ Head(tcp).router \notin {0, last}
  /\ UNCHANGED <<cmds, reading, awaited>>

NextRound(l, name) ==
  /\ EndsRound(l)
  /\ Head(tcp).router = last
  /\ reading' = reading \ {l}
  /\ cmds' = cmds \o Ask(name, routers)
  /\ UNCHANGED awaited

ReceiveEndSources == NextRound("SourceNames", "DestNames")

\* Mutant: the crosspoints are asked for before the snapshots.
ReceiveEndDestsXpoints ==
  /\ EndsRound("DestNames")
  /\ Head(tcp).router = last
  /\ reading' = reading \ {"DestNames"}
  /\ cmds' = cmds \o Ask("RouteStat", routers) \o Ask("SnapshotNames", routers)
  /\ awaited' = <<Max(routers), Max(outputs[Max(routers)])>>

ReceiveEndDests == NextRound("DestNames", "SnapshotNames")

\* Mutant: sa_reading_snapshots stays set.
ReceiveEndSnapshotsReading ==
  /\ EndsRound("SnapshotNames")
  /\ Head(tcp).router = last
  /\ UNCHANGED reading
  /\ LET wanted == {r \in routers : outputs[r] # {}}
     IN  /\ cmds' = cmds \o Ask("RouteStat", wanted)
         /\ awaited' = IF wanted = {} THEN awaited
                       ELSE <<Max(wanted), Max(outputs[Max(wanted)])>>

\* Routers without outputs are not asked for their state.
ReceiveEndSnapshots ==
  /\ EndsRound("SnapshotNames")
  /\ Head(tcp).router = last
  /\ reading' = reading \ {"SnapshotNames"}
  /\ LET wanted == {r \in routers : outputs[r] # {}}
     IN  /\ cmds' = cmds \o Ask("RouteStat", wanted)
         /\ awaited' = IF wanted = {} THEN awaited
                       ELSE <<Max(wanted), Max(outputs[Max(wanted)])>>

\* Not taken for what it is while a list is being read.
ReceiveStatUnread ==
  /\ Whole("RouteStat")
  /\ reading # {}
  /\ Misread
  /\ UNCHANGED <<cmds, reading, current, last, awaited, starting, connected,
                 routers, inputs, outputs, xpoint>>

ReceiveStat ==
  /\ Whole("RouteStat")
  /\ reading = {}
  /\ LET m == Head(tcp)
         done == <<m.router, m.output>> = awaited
     IN  /\ xpoint' = [xpoint EXCEPT ![m.router][m.output] = {m.input}]
         /\ awaited' = IF done THEN None ELSE awaited
         /\ starting' = (starting \/ done)
  /\ UNCHANGED <<cmds, reading, current, last, connected, routers, inputs,
                 outputs, shots>>

-----------------------------------------------------------------------------
ProtocolStep == CrosspointChanged \/ ProcessCommand

ParserStep ==
  \/ ReceiveTorn \/ ReceiveLogin \/ ReceiveBegin \/ ReceiveNames
  \/ ReceiveEndRouters \/ ReceiveEndOther
  \/ ReceiveEndSources \/ ReceiveEndDests \/ ReceiveEndSnapshots
  \/ ReceiveStatUnread \/ ReceiveStat

Work == NotifyProtocols \/ ProtocolStep \/ ParserStep \/ Connect \/ StartupTimeout

Next ==
  \/ Work
  \/ ConnectionClosed
  \/ \E d \in Dest, s \in Signal : DestinationChanged(d, s)

Spec == Init /\ [][Next]_vars

(* The processes never rest while one of them has something to do or a     *)
(* timer runs, which is less than fairness to each.  Nothing obliges a     *)
(* destination to change or a connection to fail.                          *)
FairSpec == Spec /\ WF_vars(Work)

-----------------------------------------------------------------------------
(* Properties                                                              *)

Quiescent == conn /\ pending = <<>> /\ ipc = <<>> /\ cmds = <<>> /\ tcp = <<>>

\* What RouteStat means (protocol_sa.xml): the input whose stream the output
\* takes, and 0 if it takes none or one of a source that is not in the router.
Right(r, o, i) ==
  \A d \in Dest : <<r, o, d>> \in Destinations =>
    IF route[d] = NullStream \/ ~\E w \in Sources : w[1] = r /\ w[3] = route[d]
      THEN i = 0
      ELSE <<r, i, route[d]>> \in Sources

\* Once nothing is under way every output the panel lists shows the input it
\* is connected to, although reports that came while lists were read are lost
\* and the others may overtake the answers to earlier questions.
Converged ==
  Quiescent => \A r \in routers : \A o \in outputs[r] :
                 \E i \in xpoint[r][o] : Right(r, o, i)

\* A name is read into the list and the router it was listed for, although
\* the flags that say so survive a lost connection.
RightList ==
  tcp # <<>> /\ Head(tcp).line = "Names" =>
    /\ Reading(Head(tcp).list)
    /\ Head(tcp).list # "RouterNames" => current = Head(tcp).router

Loaded ==
  /\ routers = Router /\ inputs = Router
  /\ \A r \in Router : /\ outputs[r] = {w[2] : w \in {v \in Destinations : v[1] = r}}
                       /\ "own" \in shots[r]

\* The panel does not report that it is connected before it has every list,
\* although reports look like the answer it waits for.  After a reconnect
\* that no longer holds.
FirstStart == connected /\ drops = 0 => Loaded

\* A session that begins on an empty buffer and lasts ends up connected.
Loads ==
  (conn /\ ~torn /\ cmds = <<[cmd |-> "Login"]>>) ~> (connected /\ Loaded) \/ ~conn

=============================================================================
