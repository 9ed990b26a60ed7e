------------------------------ MODULE Replica ------------------------------
(***************************************************************************)
(* How a panel comes to know the routers: from the tables of the core      *)
(* (drouter.cpp), through a notification to the Protocol D process that    *)
(* serves the panel (protocol.cpp, protocol_d.cpp), to the records that    *)
(* its DParser keeps (dparser.cpp).                                        *)
(*                                                                         *)
(* Three processes run side by side.  The core changes a row and then      *)
(* writes a notification that only names it; the protocol process reads    *)
(* the row when it gets there and writes a record; the panel applies the   *)
(* record.  A row is known by its kind and node, with one source and one   *)
(* destination to a node, and its contents by a version number that grows  *)
(* with every change.  Every panel has a protocol process of its own, so   *)
(* one panel is enough.                                                    *)
(***************************************************************************)
EXTENDS Naturals, Sequences

CONSTANTS
  Node,           \* the nodes the core knows a matrix for
  MaxVersion,     \* bound: MaxVersion[d], the last version of rows of kind d
  MaxDrops,       \* bound: how often the panel loses its connection
  MaxDepartures,  \* bound: how often a node disconnects from the core
  LateAccept      \* whether a panel may subscribe before its protocol process
                  \* is known to the core

Kind    == {"NODE", "SRC", "DST"}
Key     == Kind \X Node
Version == Nat \ {0}
Absent  == 0

ASSUME ReplicaAssumption ==
  /\ MaxVersion \in [Kind -> Nat \ {0}]
  /\ MaxDrops \in Nat
  /\ MaxDepartures \in Nat
  /\ LateAccept \in BOOLEAN

VARIABLES
  online,         \* the nodes with rows in the tables
  stored,         \* stored[k]: contents of row k while its node is online
  departures,     \* disconnections of nodes so far
  pending,        \* the notifications the core's running handler still writes
  known,          \* the core holds the protocol process in drouter_ipc_sockets
  ipc,            \* notifications on their way to the protocol process
  subs,           \* the kinds the protocol process is subscribed to
  todo,           \* the queries its running handler still makes
  cmds,           \* commands on their way from the panel
  tcp,            \* records on their way to the panel
  conn,           \* the panel's connection, or "crashed"
  watched,        \* d_watchdog_timer is running
  replica,        \* replica[k]: contents of the panel's entry, or Absent
  null,           \* the keys that DParser's maps hold a NULL for
  drops           \* connections lost so far

core  == <<online, stored, departures, pending>>
proto == <<known, ipc, subs, todo>>
panel == <<conn, watched, replica, null, drops>>
vars  == <<core, proto, cmds, tcp, panel>>

Table == [k \in Key |-> IF k[2] \in online THEN stored[k] ELSE Absent]

Notice  == [type : {"NODEADD", "NODEDEL", "SRC", "DST"}, node : Node]
Query   == [op : {"ADD", "CHG", "DEL"}, kind : Kind, nodes : SUBSET Node]
Command == Kind \cup {"PING"}

\* The records of one query travel together: image gives their contents.
Message == [op : {"ADD", "CHG", "DEL", "PONG"}, kind : Kind, image : [Node -> Nat]]
Pong    == [op |-> "PONG", kind |-> "NODE", image |-> [n \in Node |-> Absent]]

TypeOK ==
  /\ online \subseteq Node
  /\ stored \in [Key -> Version]
  /\ departures \in 0 .. MaxDepartures
  /\ pending \in Seq(Notice)
  /\ known \in BOOLEAN
  /\ ipc \in Seq(Notice)
  /\ subs \subseteq Kind
  /\ todo \in Seq(Query)
  /\ cmds \in Seq(Command)
  /\ tcp \in Seq(Message)
  /\ conn \in {"closed", "open", "broken", "crashed"}
  /\ watched \in BOOLEAN
  /\ replica \in [Key -> Version \cup {Absent}]
  /\ null \subseteq {k \in Key : replica[k] = Absent}
  /\ drops \in 0 .. MaxDrops

Init ==
  /\ online = {}
  /\ stored = [k \in Key |-> 1]
  /\ departures = 0
  /\ pending = <<>>
  /\ known = FALSE
  /\ ipc = <<>>
  /\ subs = {}
  /\ todo = <<>>
  /\ cmds = <<>>
  /\ tcp = <<>>
  /\ conn = "closed"
  /\ watched = FALSE
  /\ replica = [k \in Key |-> Absent]
  /\ null = {}
  /\ drops = 0

-----------------------------------------------------------------------------
(* The core: one thread, so a handler starts when the last one is done.    *)

Idle == pending = <<>>

\* nodeConnectedData(id,true): the rows appear together, under a table lock;
\* those of a node that was away may have changed.
NodeConnected(n) ==
  /\ Idle
  /\ n \notin online
  /\ online' = online \cup {n}
  /\ \/ UNCHANGED stored
     \/ /\ departures > 0
        /\ stored' = [k \in Key |-> IF k[2] = n /\ stored[k] < MaxVersion[k[1]]
                                      THEN stored[k] + 1 ELSE stored[k]]
  /\ pending' = <<[type |-> "NODEADD", node |-> n]>>
  /\ UNCHANGED <<departures, proto, cmds, tcp, panel>>

\* sourceChangedData and destinationChangedData
SlotChanged(n, d) ==
  /\ Idle
  /\ n \in online
  /\ stored[<<d, n>>] < MaxVersion[d]
  /\ stored' = [stored EXCEPT ![<<d, n>>] = @ + 1]
  /\ pending' = <<[type |-> d, node |-> n]>>
  /\ UNCHANGED <<online, departures, proto, cmds, tcp, panel>>

Send(notice) == ipc' = IF known THEN Append(ipc, notice) ELSE ipc

\* nodeConnectedData(id,false): the notification leaves before the rows go,
\* but nobody can read them until the lock is released.
NodeDisconnected(n) ==
  /\ departures < MaxDepartures
  /\ Idle
  /\ n \in online
  /\ Send([type |-> "NODEDEL", node |-> n])
  /\ online' = online \ {n}
  /\ departures' = departures + 1
  /\ UNCHANGED <<stored, pending, known, subs, todo, cmds, tcp, panel>>

NotifyProtocols ==
  /\ ~Idle
  /\ Send(Head(pending))
  /\ pending' = Tail(pending)
  /\ UNCHANGED <<online, stored, departures, known, subs, todo, cmds, tcp, panel>>

\* newIpcConnectionData
AcceptIpc ==
  /\ Idle
  /\ conn = "open"
  /\ ~known
  /\ known' = TRUE
  /\ UNCHANGED <<core, ipc, subs, todo, cmds, tcp, panel>>

-----------------------------------------------------------------------------
(* The protocol process: one thread, which queries the tables.             *)

Free == conn = "open" /\ todo = <<>> /\ (known \/ LateAccept)

\* Mutant: the list is sent but the subscription is not remembered.
SubscribeOnce(d) ==
  /\ Free
  /\ cmds # <<>>
  /\ Head(cmds) = d
  /\ todo' = <<[op |-> "ADD", kind |-> d, nodes |-> Node]>>
  /\ cmds' = Tail(cmds)
  /\ UNCHANGED <<core, known, ipc, subs, tcp, panel>>

\* ProcessCommand: SubscribeDestinations, SubscribeNodes, SubscribeSources
Subscribe(d) ==
  /\ Free
  /\ cmds # <<>>
  /\ Head(cmds) = d
  /\ subs' = subs \cup {d}
  /\ todo' = <<[op |-> "ADD", kind |-> d, nodes |-> Node]>>
  /\ cmds' = Tail(cmds)
  /\ UNCHANGED <<core, known, ipc, tcp, panel>>

Ping ==
  /\ Free
  /\ cmds # <<>>
  /\ Head(cmds) = "PING"
  /\ tcp' = Append(tcp, Pong)
  /\ cmds' = Tail(cmds)
  /\ UNCHANGED <<core, proto, panel>>

\* Mutant: the sources of a new node are sent with SRC instead of SRCADD.
QueriesWithSrc(notice) ==
  LET of(o, d) == IF d \in subs THEN <<[op |-> o, kind |-> d, nodes |-> {notice.node}]>>
                                ELSE <<>>
      added == of("ADD", "NODE") \o of("CHG", "SRC") \o of("ADD", "DST")
  IN  CASE notice.type = "NODEADD" -> added \o added
        [] notice.type = "NODEDEL" -> <<[op |-> "DEL", kind |-> "NODE", nodes |-> {notice.node}]>>
        [] OTHER -> of("CHG", notice.type)

\* What nodeAdded, nodeRemoved, sourceChanged and destinationChanged query.
\* ProcessIpcCommand calls nodeAdded twice.
Queries(notice) ==
  LET of(o, d) == IF d \in subs THEN <<[op |-> o, kind |-> d, nodes |-> {notice.node}]>>
                                ELSE <<>>
      added == of("ADD", "NODE") \o of("ADD", "SRC") \o of("ADD", "DST")
  IN  CASE notice.type = "NODEADD" -> added \o added
        [] notice.type = "NODEDEL" -> <<[op |-> "DEL", kind |-> "NODE", nodes |-> {notice.node}]>>
        [] OTHER -> of("CHG", notice.type)

ProcessIpcCommand ==
  /\ Free
  /\ ipc # <<>>
  /\ todo' = Queries(Head(ipc))
  /\ ipc' = Tail(ipc)
  /\ UNCHANGED <<core, known, subs, cmds, tcp, panel>>

\* The rows are what the table holds at the time of the query.  The removal
\* of a node is reported only if the query still finds it in NODES.
Records(q) ==
  LET rows(d) == [op |-> q.op, kind |-> d,
                  image |-> [n \in Node |-> IF n \in q.nodes THEN Table[<<d, n>>]
                                                             ELSE Absent]]
      listed(d) == IF d \in subs THEN <<rows(d)>> ELSE <<>>
  IN  IF q.nodes \cap online = {} THEN <<>>
      ELSE IF q.op # "DEL" THEN <<rows(q.kind)>>
      ELSE listed("DST") \o listed("SRC") \o listed("NODE")

\* Mutant: what is written goes ahead of what is still in the buffer.
SendRecordsFirst(out) == tcp' = out \o tcp

SendRecords(out) == tcp' = tcp \o out

RunQuery ==
  /\ conn = "open"
  /\ todo # <<>>
  /\ SendRecords(Records(Head(todo)))
  /\ todo' = Tail(todo)
  /\ UNCHANGED <<core, known, ipc, subs, cmds, panel>>

-----------------------------------------------------------------------------
(* The panel                                                               *)

\* connectToHost, the fork in newConnectionData, and connectedData.
Connect ==
  /\ conn = "closed"
  /\ conn' = "open"
  /\ cmds' = <<"DST", "NODE", "SRC", "PING">>
  /\ UNCHANGED <<core, proto, tcp, watched, replica, null, drops>>

\* disconnectedData: the process serving the panel ends, and with it all that
\* is under way.
SessionOver ==
  /\ known' = FALSE
  /\ ipc' = <<>>
  /\ subs' = {}
  /\ todo' = <<>>
  /\ cmds' = <<>>
  /\ tcp' = <<>>

Receive(op) ==
  /\ conn = "open"
  /\ tcp # <<>>
  /\ Head(tcp).op = op
  /\ tcp' = Tail(tcp)
  /\ UNCHANGED <<core, proto, cmds, drops>>

ReceivePong ==
  /\ Receive("PONG")
  /\ watched' = TRUE
  /\ UNCHANGED <<conn, replica, null>>

Covers(m, k) == k[1] = m.kind /\ m.image[k[2]] # Absent

\* Mutant: the NULL of an earlier lookup stays in the map.
ReceiveAddKeepingNull ==
  /\ Receive("ADD")
  /\ LET m == Head(tcp)
     IN  replica' = [k \in Key |-> IF Covers(m, k) /\ replica[k] = Absent
                                     THEN m.image[k[2]] ELSE replica[k]]
  /\ UNCHANGED <<conn, watched, null>>

\* NODEADD, SRCADD, DSTADD: for an entry that is there, nothing happens.
ReceiveAdd ==
  /\ Receive("ADD")
  /\ LET m == Head(tcp)
     IN  /\ replica' = [k \in Key |-> IF Covers(m, k) /\ replica[k] = Absent
                                        THEN m.image[k[2]] ELSE replica[k]]
         /\ null' = {k \in null : ~Covers(m, k)}
  /\ UNCHANGED <<conn, watched>>

\* Looking an entry up leaves a NULL where there is none.
Missing(m) == {k \in Key : Covers(m, k) /\ replica[k] = Absent}

\* SRC and DST.  A destination with a new stream address has all sources
\* searched for that address, which a NULL among them may not survive.
ReceiveChange ==
  /\ Receive("CHG")
  /\ LET m == Head(tcp)
     IN  /\ replica' = [k \in Key |-> IF Covers(m, k) /\ replica[k] # Absent
                                        THEN m.image[k[2]] ELSE replica[k]]
         /\ null' = null \cup Missing(m)
         /\ \/ UNCHANGED conn
            \/ /\ m.kind = "DST"
               /\ \E k \in Key : Covers(m, k) /\ replica[k] # replica'[k]
               /\ \E k \in null : k[1] = "SRC"
               /\ conn' = "crashed"
  /\ UNCHANGED watched

ReceiveDelete ==
  /\ Receive("DEL")
  /\ LET m == Head(tcp)
     IN  /\ replica' = [k \in Key |-> IF Covers(m, k) THEN Absent ELSE replica[k]]
         /\ null' = null \cup Missing(m)
  /\ UNCHANGED <<conn, watched>>

\* The connection is lost; errorData has the watchdog bark at once.
Break ==
  /\ conn = "open"
  /\ drops < MaxDrops
  /\ conn' = "broken"
  /\ drops' = drops + 1
  /\ SessionOver
  /\ UNCHANGED <<core, watched, replica, null>>

\* Mutant: the panel keeps its entries when it connects anew.
WatchdogKeepingEntries ==
  /\ conn = "broken" \/ (conn = "open" /\ watched /\ drops < MaxDrops)
  /\ drops' = IF conn = "open" THEN drops + 1 ELSE drops
  /\ conn' = "closed"
  /\ watched' = FALSE
  /\ SessionOver
  /\ UNCHANGED <<core, replica, null>>

\* watchdogTimerData: no Pong for too long, or an error.
WatchdogTimeout ==
  /\ conn = "broken" \/ (conn = "open" /\ watched /\ drops < MaxDrops)
  /\ drops' = IF conn = "open" THEN drops + 1 ELSE drops
  /\ conn' = "closed"
  /\ watched' = FALSE
  /\ replica' = [k \in Key |-> Absent]
  /\ null' = {}
  /\ SessionOver
  /\ UNCHANGED core

-----------------------------------------------------------------------------
CoreStep ==
  \/ \E n \in Node : NodeConnected(n) \/ NodeDisconnected(n)
  \/ \E n \in Node, d \in {"SRC", "DST"} : SlotChanged(n, d)
  \/ NotifyProtocols
  \/ AcceptIpc

ProtocolStep ==
  \/ \E d \in Kind : Subscribe(d)
  \/ Ping
  \/ ProcessIpcCommand
  \/ RunQuery

PanelStep ==
  \/ Connect
  \/ ReceivePong \/ ReceiveAdd \/ ReceiveChange \/ ReceiveDelete
  \/ Break
  \/ WatchdogTimeout

Next == CoreStep \/ ProtocolStep \/ PanelStep

Spec == Init /\ [][Next]_vars

(* Each process gets to run; nothing obliges a node or a connection to     *)
(* fail, a row to change, or the watchdog of a live connection to bark.    *)
FairSpec ==
  /\ Spec
  /\ WF_vars(NotifyProtocols) /\ WF_vars(AcceptIpc)
  /\ WF_vars(\E d \in Kind : Subscribe(d)) /\ WF_vars(Ping)
  /\ WF_vars(ProcessIpcCommand) /\ WF_vars(RunQuery)
  /\ WF_vars(Connect)
  /\ WF_vars(ReceivePong \/ ReceiveAdd \/ ReceiveChange \/ ReceiveDelete)
  /\ WF_vars(conn = "broken" /\ WatchdogTimeout)

-----------------------------------------------------------------------------
(* Properties                                                              *)

Quiescent ==
  /\ conn = "open"
  /\ known
  /\ pending = <<>> /\ ipc = <<>> /\ todo = <<>> /\ cmds = <<>> /\ tcp = <<>>

\* Once nothing is under way the panel shows what the tables hold, although
\* notifications carry no data, rows change before, during and after the
\* subscriptions, and a new node may be announced by both of the two.
Converged == Quiescent => replica = Table

\* The weaker promise that survives nodes coming and going: no row in the
\* tables is missing from the panel.
NothingMissing ==
  Quiescent => \A k \in Key : k[2] \in online => replica[k] # Absent

\* An entry never goes back to older contents while the panel keeps it.
ForwardOnly ==
  [][\A k \in Key : replica[k] # Absent /\ replica'[k] # Absent
                      => replica'[k] >= replica[k]]_vars

\* A record for a change never meets a panel without the entry: DParser would
\* keep a NULL for it and fall over it at the next crosspoint change.
NeverCrashes == conn # "crashed"

\* When rows cease to change and connections to fail, the panel ends up with
\* what is in the tables, and keeps it.
Resync == <>[](replica = Table)

=============================================================================
