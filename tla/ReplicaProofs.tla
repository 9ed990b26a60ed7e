---------------------------- MODULE ReplicaProofs ----------------------------
(***************************************************************************)
(* An entry of a panel never goes back to older contents, for any numbers  *)
(* of nodes and versions, however often nodes disconnect and connections   *)
(* are lost, and whether or not a panel may subscribe before the core      *)
(* knows its protocol process.                                             *)
(*                                                                         *)
(* While nodes only come, a panel that is quiet shows what the tables hold *)
(* and never falls over a record; and when they leave and return, it lacks *)
(* nothing: for any order of changes, notifications, subscriptions,        *)
(* queries and records.                                                    *)
(***************************************************************************)
EXTENDS Replica, TLAPS

-----------------------------------------------------------------------------
(* The inductive invariant: along the way from the table to the panel      *)
(* contents only grow older.                                               *)

\* Of two records for a row, the one that travels behind is the newer one.
Ordered == \A i, j \in 1 .. Len(tcp) : \A k \in Key :
  i < j /\ Covers(tcp[i], k) /\ Covers(tcp[j], k)
    => tcp[i].image[k[2]] <= tcp[j].image[k[2]]

\* No record is newer than the row, and none is older than the entry.
Between == \A i \in 1 .. Len(tcp) : \A k \in Key : Covers(tcp[i], k) =>
  /\ tcp[i].image[k[2]] <= stored[k]
  /\ replica[k] <= tcp[i].image[k[2]]

NotAhead == \A k \in Key : replica[k] <= stored[k]

IInv == TypeOK /\ Ordered /\ Between /\ NotAhead

-----------------------------------------------------------------------------
(* Sequences, queries and records.                                         *)

\* What is appended to a sequence is its last member.
LEMMA AppendFacts ==
  ASSUME NEW S, NEW s \in Seq(S), NEW e \in S
  PROVE  /\ Append(s, e) \in Seq(S)
         /\ Len(Append(s, e)) = Len(s) + 1
         /\ \A k \in 1 .. Len(s) : Append(s, e)[k] = s[k]
         /\ Append(s, e)[Len(s) + 1] = e
OBVIOUS

\* The rest of a sequence.
LEMMA TailFacts ==
  ASSUME NEW S, NEW s \in Seq(S), s # <<>>
  PROVE  /\ Tail(s) \in Seq(S) /\ Head(s) \in S /\ Head(s) = s[1]
         /\ Len(s) \in Nat /\ Len(s) >= 1 /\ Len(Tail(s)) = Len(s) - 1
         /\ \A k \in 1 .. Len(Tail(s)) : k + 1 \in 1 .. Len(s) /\ Tail(s)[k] = s[k + 1]
OBVIOUS

\* Two sequences in a row.
LEMMA ConcatFacts ==
  ASSUME NEW S, NEW s \in Seq(S), NEW t \in Seq(S)
  PROVE  /\ s \o t \in Seq(S)
         /\ Len(s \o t) = Len(s) + Len(t)
         /\ \A k \in 1 .. Len(s) : (s \o t)[k] = s[k]
         /\ \A k \in 1 .. Len(t) : (s \o t)[Len(s) + k] = t[k]
OBVIOUS

\* A table row is what is stored, or absent.
LEMMA TableFacts ==
  ASSUME TypeOK, NEW d \in Kind, NEW n \in Node
  PROVE  Table[<<d, n>>] \in Nat
         /\ (Table[<<d, n>>] # Absent => Table[<<d, n>>] = stored[<<d, n>>])
<1>1. <<d, n>> \in Key /\ stored[<<d, n>>] \in Nat
  BY DEF Key, TypeOK, Version
<1> QED
  BY <1>1 DEF Table, Absent

\* A notification calls for queries.
LEMMA QueriesFacts ==
  ASSUME NEW notice \in Notice
  PROVE  Queries(notice) \in Seq(Query)
<1> DEFINE of(o, d) == IF d \in subs THEN <<[op |-> o, kind |-> d, nodes |-> {notice.node}]>>
                                     ELSE <<>>
           added == of("ADD", "NODE") \o of("ADD", "SRC") \o of("ADD", "DST")
           gone == [op |-> "DEL", kind |-> "NODE", nodes |-> {notice.node}]
<1>1. notice.node \in Node /\ notice.type \in {"NODEADD", "NODEDEL", "SRC", "DST"}
  BY DEF Notice
<1>2. ASSUME NEW o \in {"ADD", "CHG"}, NEW d \in Kind PROVE of(o, d) \in Seq(Query)
  <2>1. [op |-> o, kind |-> d, nodes |-> {notice.node}] \in Query
    BY <1>1 DEF Query
  <2>2. CASE d \in subs
    BY <2>1, <2>2
  <2>3. CASE d \notin subs
    BY <2>3
  <2> QED
    BY <2>2, <2>3
<1>3. gone \in Query
  BY <1>1 DEF Query, Kind
<1>4. of("ADD", "NODE") \in Seq(Query) /\ of("ADD", "SRC") \in Seq(Query)
      /\ of("ADD", "DST") \in Seq(Query) /\ of("CHG", "SRC") \in Seq(Query)
      /\ of("CHG", "DST") \in Seq(Query)
  BY <1>2 DEF Kind
<1>5. Queries(notice) = CASE notice.type = "NODEADD" -> added \o added
                          [] notice.type = "NODEDEL" -> <<gone>>
                          [] OTHER -> of("CHG", notice.type)
  BY DEF Queries
<1> HIDE DEF of, gone
<1>6. added \in Seq(Query)
  BY <1>4
<1> HIDE DEF added
<1>7. added \o added \in Seq(Query) /\ <<gone>> \in Seq(Query)
  BY <1>3, <1>6
<1> QED
  BY <1>1, <1>4, <1>5, <1>7

\* The records of a query say what is stored.
LEMMA RecordsFacts ==
  ASSUME TypeOK, NEW q \in Query
  PROVE  /\ Records(q) \in Seq(Message)
         /\ \A i \in 1 .. Len(Records(q)) : \A k \in Key :
              Covers(Records(q)[i], k) => Records(q)[i].image[k[2]] = stored[k]
<1> DEFINE rows(d) == [op |-> q.op, kind |-> d,
                       image |-> [n \in Node |-> IF n \in q.nodes THEN Table[<<d, n>>]
                                                                  ELSE Absent]]
           listed(d) == IF d \in subs THEN <<rows(d)>> ELSE <<>>
           True(m) == \A k \in Key : Covers(m, k) => m.image[k[2]] = stored[k]
           Good == {m \in Message : True(m)}
<1>1. q.kind \in Kind /\ q.op \in {"ADD", "CHG", "DEL"}
  BY DEF Query
<1>2. ASSUME NEW d \in Kind PROVE rows(d) \in Good
  <2>1. rows(d) \in Message
    BY <1>1, TableFacts DEF Message, Absent
  <2>2. ASSUME NEW k \in Key, Covers(rows(d), k) PROVE rows(d).image[k[2]] = stored[k]
    <3>1. k = <<k[1], k[2]>> /\ k[2] \in Node /\ k[1] = d
      BY <2>2 DEF Key, Covers
    <3>2. rows(d).image[k[2]] = Table[<<d, k[2]>>] /\ Table[<<d, k[2]>>] # Absent
      BY <2>2, <3>1 DEF Covers
    <3> QED
      BY <3>1, <3>2, TableFacts
  <2> QED
    BY <2>1, <2>2
<1> HIDE DEF rows, Good, True
<1>3. \A d \in Kind : listed(d) \in Seq(Good) /\ <<rows(d)>> \in Seq(Good)
  BY <1>2
<1>4. listed("DST") \in Seq(Good) /\ listed("SRC") \in Seq(Good) /\ listed("NODE") \in Seq(Good)
  BY <1>3 DEF Kind
<1> HIDE DEF listed
<1>5. listed("DST") \o listed("SRC") \o listed("NODE") \in Seq(Good)
  BY <1>4
<1>6. Records(q) \in Seq(Good)
  <2>1. Records(q) = IF q.nodes \cap online = {} THEN <<>>
                     ELSE IF q.op # "DEL" THEN <<rows(q.kind)>>
                     ELSE listed("DST") \o listed("SRC") \o listed("NODE")
    BY DEF Records, rows, listed
  <2> QED
    BY <1>1, <1>3, <1>5, <2>1
<1>7. Good \subseteq Message /\ \A m \in Good : True(m)
  BY DEF Good
<1>8. Records(q) \in Seq(Message)
  BY <1>6, <1>7
<1> QED
  BY <1>6, <1>7, <1>8 DEF True

\* What the protocol process sends is a message that covers no row, or what is stored.
LEMMA PongFacts ==
  /\ Pong \in Message
  /\ \A k \in Key : ~Covers(Pong, k)
BY DEF Pong, Message, Kind, Absent, Covers, Key

\* The contents of a message.
LEMMA MessageFacts ==
  ASSUME NEW m \in Message, NEW k \in Key
  PROVE  m.image[k[2]] \in Nat /\ (Covers(m, k) => m.image[k[2]] \in Version)
BY DEF Message, Key, Covers, Version, Absent

-----------------------------------------------------------------------------
(* Every variable keeps its type.                                          *)

LEMMA TypeInit == Init => TypeOK
<1> SUFFICES ASSUME Init PROVE TypeOK
  OBVIOUS
<1>1. departures \in 0 .. MaxDepartures /\ drops \in 0 .. MaxDrops
  BY ReplicaAssumption DEF Init
<1>2. stored \in [Key -> Version] /\ replica \in [Key -> Version \cup {Absent}]
  BY DEF Init, Version, Absent
<1>3. known \in BOOLEAN /\ watched \in BOOLEAN
  BY DEF Init
<1> QED
  BY <1>1, <1>2, <1>3 DEF Init, TypeOK

\* A notification that is sent.
LEMMA SendFacts ==
  ASSUME TypeOK, NEW notice \in Notice, Send(notice)
  PROVE  ipc' \in Seq(Notice)
BY DEF TypeOK, Send

LEMMA SessionOverFacts ==
  ASSUME TypeOK, SessionOver
  PROVE  /\ known' \in BOOLEAN /\ ipc' \in Seq(Notice) /\ subs' \subseteq Kind
         /\ todo' \in Seq(Query) /\ cmds' \in Seq(Command) /\ tcp' \in Seq(Message)
<1>1. known' = FALSE /\ ipc' = <<>> /\ subs' = {} /\ todo' = <<>> /\ cmds' = <<>> /\ tcp' = <<>>
  BY DEF SessionOver
<1>2. known' \in BOOLEAN
  BY <1>1
<1>3. ipc' \in Seq(Notice) /\ todo' \in Seq(Query) /\ cmds' \in Seq(Command) /\ tcp' \in Seq(Message)
  BY <1>1
<1> QED
  BY <1>1, <1>2, <1>3

LEMMA TypeStep == TypeOK /\ [Next]_vars => TypeOK'
<1> SUFFICES ASSUME TypeOK, [Next]_vars PROVE TypeOK'
  OBVIOUS
<1> USE DEF core, proto, panel
<1>1. ASSUME NEW n \in Node, NodeConnected(n) PROVE TypeOK'
  <2>1. stored' \in [Key -> Version]
    <3>1. CASE stored' = stored
      BY <3>1 DEF TypeOK
    <3>2. CASE stored' = [k \in Key |-> IF k[2] = n /\ stored[k] < MaxVersion[k[1]]
                                          THEN stored[k] + 1 ELSE stored[k]]
      BY <3>2 DEF TypeOK, Version
    <3> QED
      BY <1>1, <3>1, <3>2 DEF NodeConnected
  <2>2. pending' \in Seq(Notice) /\ online' \subseteq Node
    BY <1>1 DEF NodeConnected, Notice, TypeOK
  <2> QED
    BY <1>1, <2>1, <2>2 DEF NodeConnected, TypeOK
<1>2. ASSUME NEW n \in Node, NEW d \in {"SRC", "DST"}, SlotChanged(n, d) PROVE TypeOK'
  <2>1. stored' \in [Key -> Version]
    <3>1. <<d, n>> \in Key
      BY DEF Key, Kind
    <3> QED
      BY <1>2, <3>1 DEF SlotChanged, TypeOK, Version
  <2>2. pending' \in Seq(Notice)
    BY <1>2 DEF SlotChanged, Notice
  <2> QED
    BY <1>2, <2>1, <2>2 DEF SlotChanged, TypeOK
<1>3. ASSUME NEW n \in Node, NodeDisconnected(n) PROVE TypeOK'
  <2>1. ipc' \in Seq(Notice)
    <3>1. [type |-> "NODEDEL", node |-> n] \in Notice
      BY DEF Notice
    <3> QED
      BY <1>3, <3>1, SendFacts DEF NodeDisconnected
  <2>2. departures' \in 0 .. MaxDepartures
    BY <1>3, ReplicaAssumption DEF NodeDisconnected, TypeOK
  <2> QED
    BY <1>3, <2>1, <2>2 DEF NodeDisconnected, TypeOK
<1>4. CASE NotifyProtocols
  <2>1. Head(pending) \in Notice /\ pending' \in Seq(Notice)
    BY <1>4, TailFacts DEF NotifyProtocols, Idle, TypeOK
  <2>2. ipc' \in Seq(Notice)
    BY <1>4, <2>1, SendFacts DEF NotifyProtocols
  <2> QED
    BY <1>4, <2>1, <2>2 DEF NotifyProtocols, TypeOK
<1>5. CASE AcceptIpc
  BY <1>5 DEF AcceptIpc, TypeOK
<1>6. ASSUME NEW d \in Kind, Subscribe(d) PROVE TypeOK'
  <2>1. todo' \in Seq(Query) /\ cmds' \in Seq(Command) /\ subs' \subseteq Kind
    BY <1>6, TailFacts DEF Subscribe, Query, TypeOK
  <2> QED
    BY <1>6, <2>1 DEF Subscribe, TypeOK
<1>7. CASE Ping
  <2>1. tcp' \in Seq(Message) /\ cmds' \in Seq(Command)
    BY <1>7, PongFacts, TailFacts DEF Ping, TypeOK
  <2> QED
    BY <1>7, <2>1 DEF Ping, TypeOK
<1>8. CASE ProcessIpcCommand
  <2>1. Head(ipc) \in Notice /\ ipc' \in Seq(Notice)
    BY <1>8, TailFacts DEF ProcessIpcCommand, TypeOK
  <2>2. todo' \in Seq(Query)
    BY <1>8, <2>1, QueriesFacts DEF ProcessIpcCommand
  <2> QED
    BY <1>8, <2>1, <2>2 DEF ProcessIpcCommand, TypeOK
<1>9. CASE RunQuery
  <2>1. Head(todo) \in Query /\ todo' \in Seq(Query)
    BY <1>9, TailFacts DEF RunQuery, TypeOK
  <2>2. tcp' \in Seq(Message)
    BY <1>9, <2>1, RecordsFacts DEF RunQuery, SendRecords, TypeOK
  <2> QED
    BY <1>9, <2>1, <2>2 DEF RunQuery, TypeOK
<1>10. CASE Connect
  <2>1. cmds' \in Seq(Command)
    BY <1>10 DEF Connect, Command, Kind
  <2> QED
    BY <1>10, <2>1 DEF Connect, TypeOK
<1>11. ASSUME NEW op, Receive(op)
       PROVE  /\ Head(tcp) \in Message /\ tcp' \in Seq(Message)
              /\ UNCHANGED <<core, proto, cmds, drops>>
  BY <1>11, TailFacts DEF Receive, TypeOK
<1>12. CASE ReceivePong
  BY <1>11, <1>12 DEF ReceivePong, TypeOK
<1>13. CASE ReceiveAdd
  <2>1. replica' \in [Key -> Version \cup {Absent}]
    BY <1>11, <1>13, MessageFacts DEF ReceiveAdd, TypeOK
  <2>2. null' \subseteq {k \in Key : replica'[k] = Absent}
    BY <1>13 DEF ReceiveAdd, TypeOK
  <2> QED
    BY <1>11, <1>13, <2>1, <2>2 DEF ReceiveAdd, TypeOK
<1>14. CASE ReceiveChange
  <2>1. replica' \in [Key -> Version \cup {Absent}]
    BY <1>11, <1>14, MessageFacts DEF ReceiveChange, TypeOK
  <2>2. null' \subseteq {k \in Key : replica'[k] = Absent}
    BY <1>14 DEF ReceiveChange, TypeOK, Missing
  <2>3. conn' \in {"closed", "open", "broken", "crashed"}
    BY <1>14 DEF ReceiveChange, TypeOK
  <2> QED
    BY <1>11, <1>14, <2>1, <2>2, <2>3 DEF ReceiveChange, TypeOK
<1>15. CASE ReceiveDelete
  <2>1. replica' \in [Key -> Version \cup {Absent}]
    BY <1>15 DEF ReceiveDelete, TypeOK
  <2>2. null' \subseteq {k \in Key : replica'[k] = Absent}
    BY <1>15 DEF ReceiveDelete, TypeOK, Missing
  <2> QED
    BY <1>11, <1>15, <2>1, <2>2 DEF ReceiveDelete, TypeOK
<1>16. CASE Break
  <2>1. drops' \in 0 .. MaxDrops
    BY <1>16, ReplicaAssumption DEF Break, TypeOK
  <2> QED
    BY <1>16, <2>1, SessionOverFacts DEF Break, TypeOK
<1>17. CASE WatchdogTimeout
  <2>1. drops' \in 0 .. MaxDrops
    BY <1>17, ReplicaAssumption DEF WatchdogTimeout, TypeOK
  <2>2. replica' \in [Key -> Version \cup {Absent}] /\ null' = {}
    BY <1>17 DEF WatchdogTimeout
  <2>3. watched' \in BOOLEAN /\ conn' \in {"closed", "open", "broken", "crashed"}
    BY <1>17 DEF WatchdogTimeout
  <2> QED
    BY <1>17, <2>1, <2>2, <2>3, SessionOverFacts DEF WatchdogTimeout, TypeOK
<1>18. CASE UNCHANGED vars
  BY <1>18 DEF vars, TypeOK
<1> QED
  BY <1>1, <1>2, <1>3, <1>4, <1>5, <1>6, <1>7, <1>8, <1>9, <1>10, <1>12, <1>13, <1>14,
     <1>15, <1>16, <1>17, <1>18 DEF Next, CoreStep, ProtocolStep, PanelStep

-----------------------------------------------------------------------------
(* Along the way contents only grow older.                                 *)

Aged == Ordered /\ Between /\ NotAhead

LEMMA AgedInit == Init => Aged
BY DEF Init, Aged, Ordered, Between, NotAhead, Absent

\* Rows grow and nothing else moves.
LEMMA RowsGrow ==
  ASSUME TypeOK, TypeOK', Aged, UNCHANGED <<tcp, replica>>,
         \A k \in Key : stored[k] <= stored'[k]
  PROVE  Aged'
<1>1. Ordered'
  BY DEF Aged, Ordered, Covers
<1>2. \A k \in Key : stored[k] \in Nat /\ stored'[k] \in Nat /\ replica[k] \in Nat
  BY DEF TypeOK, Version, Absent
<1>3. NotAhead'
  BY <1>2 DEF Aged, NotAhead
<1>4. Between'
  <2> SUFFICES ASSUME NEW i \in 1 .. Len(tcp), NEW k \in Key, Covers(tcp[i], k)
               PROVE  tcp[i].image[k[2]] <= stored'[k] /\ replica[k] <= tcp[i].image[k[2]]
    BY DEF Between, Covers
  <2>1. tcp[i] \in Message
    BY DEF TypeOK
  <2>2. tcp[i].image[k[2]] \in Nat
    BY <2>1, MessageFacts
  <2>3. tcp[i].image[k[2]] <= stored[k] /\ replica[k] <= tcp[i].image[k[2]]
    BY DEF Aged, Between
  <2> QED
    BY <1>2, <2>2, <2>3
<1> QED
  BY <1>1, <1>3, <1>4 DEF Aged

\* The protocol process writes what is stored.
LEMMA Written ==
  ASSUME TypeOK, TypeOK', Aged, UNCHANGED <<stored, replica>>,
         NEW out \in Seq(Message), tcp' = tcp \o out,
         \A i \in 1 .. Len(out) : \A k \in Key :
           Covers(out[i], k) => out[i].image[k[2]] = stored[k]
  PROVE  Aged'
<1> DEFINE n == Len(tcp)
<1>1. /\ tcp \in Seq(Message) /\ n \in Nat /\ Len(out) \in Nat /\ Len(tcp') = n + Len(out)
      /\ \A i \in 1 .. n : tcp'[i] = tcp[i]
      /\ \A i \in 1 .. Len(out) : tcp'[n + i] = out[i]
  BY ConcatFacts DEF TypeOK
<1> HIDE DEF n
<1>2. ASSUME NEW i \in 1 .. Len(tcp')
      PROVE  \/ i \in 1 .. n /\ tcp'[i] = tcp[i]
             \/ i > n /\ i - n \in 1 .. Len(out) /\ tcp'[i] = out[i - n]
  <2>1. CASE i <= n
    BY <1>1, <2>1
  <2>2. CASE i > n
    <3>1. i - n \in 1 .. Len(out) /\ i = n + (i - n)
      BY <1>1, <2>2
    <3> QED
      BY <1>1, <2>2, <3>1
  <2> QED
    BY <1>1, <2>1, <2>2
<1>3. \A k \in Key : replica[k] <= stored[k] /\ stored[k] \in Nat /\ replica[k] \in Nat
  BY DEF Aged, NotAhead, TypeOK, Version, Absent
<1>4. ASSUME NEW i \in 1 .. Len(tcp'), NEW k \in Key, Covers(tcp'[i], k)
      PROVE  /\ tcp'[i].image[k[2]] <= stored[k] /\ replica[k] <= tcp'[i].image[k[2]]
             /\ (i > n => tcp'[i].image[k[2]] = stored[k])
  <2>1. CASE i \in 1 .. n /\ tcp'[i] = tcp[i]
    <3>1. tcp[i].image[k[2]] <= stored[k] /\ replica[k] <= tcp[i].image[k[2]]
      BY <1>4, <2>1 DEF Aged, Between, n
    <3> QED
      BY <1>1, <2>1, <3>1
  <2>2. CASE i > n /\ i - n \in 1 .. Len(out) /\ tcp'[i] = out[i - n]
    BY <1>3, <1>4, <2>2
  <2> QED
    BY <1>2, <2>1, <2>2
<1>5. Between'
  BY <1>4 DEF Between, Covers
<1>6. ASSUME NEW i \in 1 .. Len(tcp'), NEW j \in 1 .. Len(tcp'), NEW k \in Key,
             i < j, Covers(tcp'[i], k), Covers(tcp'[j], k)
      PROVE  tcp'[i].image[k[2]] <= tcp'[j].image[k[2]]
  <2>1. CASE j > n
    BY <1>4, <1>6, <2>1
  <2>2. CASE ~(j > n)
    <3>1. i \in 1 .. n /\ j \in 1 .. n
      BY <1>1, <1>6, <2>2
    <3>2. tcp'[i] = tcp[i] /\ tcp'[j] = tcp[j]
      BY <1>1, <3>1
    <3> QED
      BY <1>6, <3>1, <3>2 DEF Aged, Ordered, n
  <2> QED
    BY <2>1, <2>2
<1>7. Ordered'
  BY <1>6 DEF Ordered, Covers
<1>8. NotAhead'
  BY <1>3 DEF NotAhead
<1> QED
  BY <1>5, <1>7, <1>8 DEF Aged

\* The panel takes the record that comes first: what it then shows is what it
\* showed, or that record, or nothing.
LEMMA Taken ==
  ASSUME TypeOK, TypeOK', Aged, UNCHANGED stored, tcp # <<>>, tcp' = Tail(tcp),
         \A k \in Key : \/ replica'[k] = replica[k]
                        \/ replica'[k] = Absent
                        \/ Covers(Head(tcp), k) /\ replica'[k] = Head(tcp).image[k[2]]
  PROVE  Aged'
<1>1. /\ tcp \in Seq(Message) /\ Head(tcp) = tcp[1] /\ Len(tcp) \in Nat /\ Len(tcp) >= 1
      /\ Len(tcp') = Len(tcp) - 1
      /\ \A i \in 1 .. Len(tcp') : i + 1 \in 1 .. Len(tcp) /\ tcp'[i] = tcp[i + 1]
  BY TailFacts DEF TypeOK
<1>2. \A k \in Key : stored[k] \in Nat /\ replica[k] \in Nat /\ replica'[k] \in Nat
  BY DEF TypeOK, Version, Absent
<1>3. Ordered'
  <2> SUFFICES ASSUME NEW i \in 1 .. Len(tcp'), NEW j \in 1 .. Len(tcp'), NEW k \in Key,
                      i < j, Covers(tcp'[i], k), Covers(tcp'[j], k)
               PROVE  tcp'[i].image[k[2]] <= tcp'[j].image[k[2]]
    BY DEF Ordered, Covers
  <2>1. i + 1 \in 1 .. Len(tcp) /\ j + 1 \in 1 .. Len(tcp) /\ i + 1 < j + 1
    BY <1>1
  <2>2. tcp'[i] = tcp[i + 1] /\ tcp'[j] = tcp[j + 1]
    BY <1>1
  <2> QED
    BY <2>1, <2>2 DEF Aged, Ordered
<1>4. ASSUME NEW i \in 1 .. Len(tcp'), NEW k \in Key, Covers(tcp'[i], k)
      PROVE  tcp'[i].image[k[2]] <= stored[k] /\ replica'[k] <= tcp'[i].image[k[2]]
  <2>1. i + 1 \in 1 .. Len(tcp) /\ tcp'[i] = tcp[i + 1] /\ 1 \in 1 .. Len(tcp) /\ 1 < i + 1
    BY <1>1
  <2>2. tcp'[i].image[k[2]] <= stored[k] /\ replica[k] <= tcp'[i].image[k[2]]
    BY <1>4, <2>1 DEF Aged, Between
  <2>3. tcp'[i].image[k[2]] \in Nat
    <3>1. tcp'[i] \in Message
      BY <1>1, <2>1
    <3> QED
      BY <3>1, MessageFacts
  <2>4. CASE Covers(Head(tcp), k) /\ replica'[k] = Head(tcp).image[k[2]]
    <3>1. tcp[1].image[k[2]] <= tcp[i + 1].image[k[2]]
      BY <1>1, <1>4, <2>1, <2>4 DEF Aged, Ordered
    <3> QED
      BY <1>1, <2>1, <2>2, <2>4, <3>1
  <2>5. CASE replica'[k] = Absent
    BY <2>2, <2>3, <2>5 DEF Absent
  <2>6. CASE replica'[k] = replica[k]
    BY <2>2, <2>6
  <2> QED
    BY <2>4, <2>5, <2>6
<1>5. Between'
  BY <1>4 DEF Between, Covers
<1>6. ASSUME NEW k \in Key PROVE replica'[k] <= stored[k]
  <2>1. CASE Covers(Head(tcp), k) /\ replica'[k] = Head(tcp).image[k[2]]
    BY <1>1, <2>1 DEF Aged, Between
  <2>2. CASE replica'[k] = Absent
    BY <1>2, <2>2 DEF Absent
  <2>3. CASE replica'[k] = replica[k]
    BY <2>3 DEF Aged, NotAhead
  <2> QED
    BY <2>1, <2>2, <2>3
<1>7. NotAhead'
  BY <1>6 DEF NotAhead
<1> QED
  BY <1>3, <1>5, <1>7 DEF Aged

\* When a session ends nothing is under way.
LEMMA Ended ==
  ASSUME TypeOK, TypeOK', Aged, UNCHANGED stored, tcp' = <<>>,
         \A k \in Key : replica'[k] = replica[k] \/ replica'[k] = Absent
  PROVE  Aged'
<1>1. Len(tcp') = 0
  OBVIOUS
<1>2. Ordered' /\ Between'
  BY <1>1 DEF Ordered, Between
<1>3. NotAhead'
  <2>1. \A k \in Key : stored[k] \in Nat /\ replica[k] <= stored[k]
    BY DEF Aged, NotAhead, TypeOK, Version
  <2> QED
    BY <2>1 DEF NotAhead, Absent
<1> QED
  BY <1>2, <1>3 DEF Aged

LEMMA AgedStep == TypeOK /\ TypeOK' /\ Aged /\ [Next]_vars => Aged'
<1> SUFFICES ASSUME TypeOK, TypeOK', Aged, [Next]_vars PROVE Aged'
  OBVIOUS
<1> USE DEF core, proto, panel
<1>0. ASSUME UNCHANGED <<stored, tcp, replica>> PROVE Aged'
  BY <1>0 DEF Aged, Ordered, Between, NotAhead, Covers
<1>1. ASSUME NEW n \in Node, NodeConnected(n) PROVE Aged'
  <2>1. \A k \in Key : stored[k] \in Nat
    BY DEF TypeOK, Version
  <2>2. \A k \in Key : stored[k] <= stored'[k]
    BY <1>1, <2>1 DEF NodeConnected
  <2> QED
    BY <1>1, <2>2, RowsGrow DEF NodeConnected
<1>2. ASSUME NEW n \in Node, NEW d \in {"SRC", "DST"}, SlotChanged(n, d) PROVE Aged'
  <2>1. \A k \in Key : stored[k] \in Nat
    BY DEF TypeOK, Version
  <2>2. ASSUME NEW k \in Key PROVE stored[k] <= stored'[k]
    <3>1. stored' = [stored EXCEPT ![<<d, n>>] = @ + 1] /\ DOMAIN stored = Key
      BY <1>2 DEF SlotChanged, TypeOK
    <3>2. stored'[k] = stored[k] \/ stored'[k] = stored[k] + 1
      BY <3>1
    <3> QED
      BY <2>1, <3>2
  <2> QED
    BY <1>2, <2>2, RowsGrow DEF SlotChanged
<1>3. ASSUME NEW n \in Node, NodeDisconnected(n) PROVE Aged'
  BY <1>0, <1>3 DEF NodeDisconnected
<1>4. CASE NotifyProtocols
  BY <1>0, <1>4 DEF NotifyProtocols
<1>5. CASE AcceptIpc
  BY <1>0, <1>5 DEF AcceptIpc
<1>6. ASSUME NEW d \in Kind, Subscribe(d) PROVE Aged'
  BY <1>0, <1>6 DEF Subscribe
<1>7. CASE Ping
  <2>1. <<Pong>> \in Seq(Message) /\ tcp' = tcp \o <<Pong>>
    BY <1>7, PongFacts DEF Ping, TypeOK
  <2>2. \A i \in 1 .. Len(<<Pong>>) : \A k \in Key :
          Covers(<<Pong>>[i], k) => <<Pong>>[i].image[k[2]] = stored[k]
    <3>1. \A i \in 1 .. Len(<<Pong>>) : <<Pong>>[i] = Pong
      OBVIOUS
    <3> QED
      BY <3>1, PongFacts
  <2> QED
    BY <1>7, <2>1, <2>2, Written DEF Ping
<1>8. CASE ProcessIpcCommand
  BY <1>0, <1>8 DEF ProcessIpcCommand
<1>9. CASE RunQuery
  <2>1. Head(todo) \in Query
    BY <1>9, TailFacts DEF RunQuery, TypeOK
  <2> QED
    BY <1>9, <2>1, RecordsFacts, Written DEF RunQuery, SendRecords
<1>10. CASE Connect
  BY <1>0, <1>10 DEF Connect
<1>11. ASSUME NEW op, Receive(op)
       PROVE  tcp # <<>> /\ tcp' = Tail(tcp) /\ UNCHANGED stored
  BY <1>11 DEF Receive
<1>12. CASE ReceivePong
  BY <1>11, <1>12, Taken DEF ReceivePong
<1>13. CASE ReceiveAdd
  <2>1. \A k \in Key : \/ replica'[k] = replica[k]
                       \/ Covers(Head(tcp), k) /\ replica'[k] = Head(tcp).image[k[2]]
    BY <1>13 DEF ReceiveAdd
  <2> QED
    BY <1>11, <1>13, <2>1, Taken DEF ReceiveAdd
<1>14. CASE ReceiveChange
  <2>1. \A k \in Key : \/ replica'[k] = replica[k]
                       \/ Covers(Head(tcp), k) /\ replica'[k] = Head(tcp).image[k[2]]
    BY <1>14 DEF ReceiveChange
  <2> QED
    BY <1>11, <1>14, <2>1, Taken DEF ReceiveChange
<1>15. CASE ReceiveDelete
  <2>1. \A k \in Key : replica'[k] = replica[k] \/ replica'[k] = Absent
    BY <1>15 DEF ReceiveDelete
  <2> QED
    BY <1>11, <1>15, <2>1, Taken DEF ReceiveDelete
<1>16. CASE Break
  BY <1>16, Ended DEF Break, SessionOver
<1>17. CASE WatchdogTimeout
  BY <1>17, Ended DEF WatchdogTimeout, SessionOver
<1>18. CASE UNCHANGED vars
  BY <1>0, <1>18 DEF vars
<1> QED
  BY <1>1, <1>2, <1>3, <1>4, <1>5, <1>6, <1>7, <1>8, <1>9, <1>10, <1>12, <1>13, <1>14,
     <1>15, <1>16, <1>17, <1>18 DEF Next, CoreStep, ProtocolStep, PanelStep

LEMMA Invariant == Spec => []IInv
<1>1. Init => IInv
  BY TypeInit, AgedInit DEF IInv, Aged
<1>2. IInv /\ [Next]_vars => IInv'
  BY TypeStep, AgedStep DEF IInv, Aged
<1> QED
  BY <1>1, <1>2, PTL DEF Spec

-----------------------------------------------------------------------------
(* The theorems.                                                           *)

\* Every variable keeps its type: the lists under way hold what their readers
\* expect, and DParser holds a NULL only where it has no entry.
THEOREM TypeCorrect == Spec => []TypeOK
<1>1. IInv => TypeOK
  BY DEF IInv
<1> QED
  BY <1>1, Invariant, PTL

\* A panel never replaces an entry by older contents: the notification only
\* names the row, so the record says what the row is when it is read.
THEOREM NeverBack == Spec => ForwardOnly
<1> DEFINE Forward == \A k \in Key : replica[k] # Absent /\ replica'[k] # Absent
                                       => replica'[k] >= replica[k]
<1>1. IInv /\ [Next]_vars => [Forward]_vars
  <2> SUFFICES ASSUME IInv, [Next]_vars PROVE [Forward]_vars
    OBVIOUS
  <2> USE DEF core, proto, panel
  <2>1. \A k \in Key : replica[k] \in Nat
    BY DEF IInv, TypeOK, Version, Absent
  <2>2. ASSUME UNCHANGED replica PROVE Forward
    BY <2>1, <2>2
  <2>3. ASSUME NEW op, Receive(op), NEW k \in Key, Covers(Head(tcp), k)
        PROVE  replica[k] <= Head(tcp).image[k[2]] /\ Head(tcp).image[k[2]] \in Nat
    <3>1. /\ tcp \in Seq(Message) /\ Head(tcp) \in Message /\ Head(tcp) = tcp[1]
          /\ 1 \in 1 .. Len(tcp)
      BY <2>3, TailFacts DEF IInv, TypeOK, Receive
    <3>2. Head(tcp).image[k[2]] \in Nat
      BY <3>1, MessageFacts
    <3> QED
      BY <2>3, <3>1, <3>2 DEF IInv, Between
  <2>4. CASE ReceiveAdd
    BY <2>1, <2>3, <2>4 DEF ReceiveAdd
  <2>5. CASE ReceiveChange
    BY <2>1, <2>3, <2>5 DEF ReceiveChange
  <2>6. CASE ReceiveDelete
    BY <2>1, <2>6 DEF ReceiveDelete
  <2>7. CASE WatchdogTimeout
    BY <2>7 DEF WatchdogTimeout
  <2>8. CASE ~(ReceiveAdd \/ ReceiveChange \/ ReceiveDelete \/ WatchdogTimeout)
    <3>1. UNCHANGED replica
      BY <2>8 DEF Next, CoreStep, ProtocolStep, PanelStep, vars, NodeConnected,
         NodeDisconnected, SlotChanged, NotifyProtocols, AcceptIpc, Subscribe, Ping,
         ProcessIpcCommand, RunQuery, Connect, ReceivePong, Break
    <3> QED
      BY <2>2, <3>1
  <2> QED
    BY <2>4, <2>5, <2>6, <2>7, <2>8
<1> QED
  BY <1>1, Invariant, PTL DEF Spec, ForwardOnly

-----------------------------------------------------------------------------
(* What a panel that is quiet shows.                                       *)

\* No node disconnects, and the core knows a protocol process before it serves.
NodesStay == MaxDepartures = 0 /\ ~LateAccept

-----------------------------------------------------------------------------
(* The inductive invariant: what a panel lacks is on its way, and what is  *)
(* new comes before what has changed.                                      *)

New(n) == [type |-> "NODEADD", node |-> n]

Of(notice, k) == notice.type = k[1] /\ notice.node = k[2]

Asks(q, op, k) == q.op = op /\ q.kind = k[1] /\ k[2] \in q.nodes

Brings(m, op, k) == m.op = op /\ Covers(m, k)

\* The entry is there, or comes with the first i records.
AddedBy(i, k) == replica[k] # Absent \/ \E h \in 1 .. i : Brings(tcp[h], "ADD", k)

\* Or with the first j queries.
AskedBy(j, k) == \/ AddedBy(Len(tcp), k)
                 \/ k[2] \in online /\ \E h \in 1 .. j : Asks(todo[h], "ADD", k)

Coming(k) == AskedBy(Len(todo), k)

AnnouncedBy(j, n) == \E h \in 1 .. j : ipc[h] = New(n)

NothingGoes ==
  /\ \A i \in 1 .. Len(tcp) : tcp[i].op # "DEL"
  /\ \A j \in 1 .. Len(todo) : todo[j].op # "DEL"
  /\ \A j \in 1 .. Len(ipc) : ipc[j].type # "NODEDEL" /\ ipc[j].node \in online
  /\ pending # <<>> => /\ Len(pending) = 1
                       /\ pending[1].type # "NODEDEL" /\ pending[1].node \in online

Sessions ==
  /\ conn \in {"closed", "open", "broken"}
  /\ conn # "open" => ~known
  /\ ~known => ipc = <<>> /\ subs = {} /\ todo = <<>> /\ tcp = <<>>
  /\ conn = "closed" => \A k \in Key : replica[k] = Absent

\* Nothing comes of a kind that was not subscribed to, but that will be.
Subscribed ==
  /\ \A j \in 1 .. Len(todo) : todo[j].kind \in subs
  /\ conn = "open" =>
       /\ \A k \in Key : k[1] \notin subs =>
            replica[k] = Absent /\ \A i \in 1 .. Len(tcp) : ~Covers(tcp[i], k)
       /\ \A d \in Kind : d \in subs \/ \E i \in 1 .. Len(cmds) : cmds[i] = d

NothingElse == \A k \in Key :
  /\ replica[k] # Absent => k[2] \in online
  /\ \A i \in 1 .. Len(tcp) : Covers(tcp[i], k) => k[2] \in online

NoNull == null = {}

RecordsInOrder == \A i \in 1 .. Len(tcp) : \A k \in Key :
  Brings(tcp[i], "CHG", k) => AddedBy(i - 1, k)

QueriesInOrder == \A j \in 1 .. Len(todo) : \A k \in Key :
  Asks(todo[j], "CHG", k) => AskedBy(j - 1, k)

NoticesInOrder == \A j \in 1 .. Len(ipc) : \A k \in Key :
  Of(ipc[j], k) /\ k[1] \in subs => Coming(k) \/ AnnouncedBy(j - 1, k[2])

AllComing == \A k \in Key : k[1] \in subs /\ k[2] \in online =>
  \/ Coming(k)
  \/ AnnouncedBy(Len(ipc), k[2])
  \/ pending # <<>> /\ pending[1] = New(k[2])

\* What the entry is, or will be, is what is stored, or a change is on its way.
AllNew == \A k \in Key : k[1] \in subs /\ k[2] \in online =>
  \/ replica[k] = stored[k]
  \/ \E i \in 1 .. Len(tcp) : Brings(tcp[i], "CHG", k) /\ tcp[i].image[k[2]] = stored[k]
  \/ \E j \in 1 .. Len(todo) : Asks(todo[j], "CHG", k)
  \/ \E j \in 1 .. Len(ipc) : Of(ipc[j], k)
  \/ pending # <<>> /\ Of(pending[1], k)
  \/ /\ replica[k] = Absent
     /\ \A i \in 1 .. Len(tcp) : Brings(tcp[i], "ADD", k) => tcp[i].image[k[2]] = stored[k]

InOrder == RecordsInOrder /\ QueriesInOrder /\ NoticesInOrder

Sync ==
  /\ NothingGoes /\ Sessions /\ Subscribed /\ NothingElse /\ NoNull
  /\ InOrder /\ AllComing /\ AllNew

-----------------------------------------------------------------------------
(* Sequences, queries and records.                                         *)

\* Two sequences in a row, member by member.
LEMMA JoinFacts ==
  ASSUME NEW S, NEW s \in Seq(S), NEW t \in Seq(S)
  PROVE  /\ Len(s) \in Nat /\ Len(t) \in Nat /\ Len(s \o t) = Len(s) + Len(t)
         /\ \A i \in 1 .. Len(s) : i \in 1 .. Len(s \o t) /\ (s \o t)[i] = s[i]
         /\ \A i \in 1 .. Len(t) : Len(s) + i \in 1 .. Len(s \o t) /\ (s \o t)[Len(s) + i] = t[i]
         /\ \A i \in 1 .. Len(s \o t) :
              \/ i \in 1 .. Len(s) /\ (s \o t)[i] = s[i]
              \/ i > Len(s) /\ i - Len(s) \in 1 .. Len(t) /\ (s \o t)[i] = t[i - Len(s)]
<1>1. Len(s) \in Nat /\ Len(t) \in Nat /\ Len(s \o t) = Len(s) + Len(t)
  BY ConcatFacts
<1>2. \A i \in 1 .. Len(s) : (s \o t)[i] = s[i]
  BY ConcatFacts
<1>3. \A i \in 1 .. Len(t) : (s \o t)[Len(s) + i] = t[i]
  BY ConcatFacts
<1>4. ASSUME NEW i \in 1 .. Len(s \o t), ~(i \in 1 .. Len(s))
      PROVE  i > Len(s) /\ i - Len(s) \in 1 .. Len(t) /\ (s \o t)[i] = t[i - Len(s)]
  <2>1. i > Len(s) /\ i - Len(s) \in 1 .. Len(t) /\ i = Len(s) + (i - Len(s))
    BY <1>1, <1>4
  <2> QED
    BY <1>3, <2>1
<1> QED
  BY <1>1, <1>2, <1>3, <1>4

\* A key is a kind and a node.
LEMMA KeyFacts ==
  ASSUME NEW k \in Key
  PROVE  k = <<k[1], k[2]>> /\ k[1] \in Kind /\ k[2] \in Node
BY DEF Key

\* What a query that does not remove finds.
LEMMA FoundFacts ==
  ASSUME TypeOK, NEW q \in Query, q.op # "DEL"
  PROVE  /\ \A i \in 1 .. Len(Records(q)) :
              /\ Records(q)[i].op = q.op
              /\ \A k \in Key : Covers(Records(q)[i], k) =>
                   k[1] = q.kind /\ k[2] \in q.nodes /\ k[2] \in online
         /\ \A k \in Key : k[1] = q.kind /\ k[2] \in q.nodes /\ k[2] \in online =>
              1 \in 1 .. Len(Records(q)) /\ Covers(Records(q)[1], k)
<1> DEFINE row == [op |-> q.op, kind |-> q.kind,
                   image |-> [n \in Node |-> IF n \in q.nodes THEN Table[<<q.kind, n>>]
                                                              ELSE Absent]]
<1>1. Records(q) = IF q.nodes \cap online = {} THEN <<>> ELSE <<row>>
  BY DEF Records
<1>2. row.op = q.op
  OBVIOUS
<1>3. ASSUME NEW k \in Key
      PROVE  Covers(row, k) <=> k[1] = q.kind /\ k[2] \in q.nodes /\ k[2] \in online
  <2>1. k = <<k[1], k[2]>> /\ k[2] \in Node /\ row.kind = q.kind
    BY KeyFacts
  <2>2. row.image[k[2]] = IF k[2] \in q.nodes THEN Table[<<q.kind, k[2]>>] ELSE Absent
    BY <2>1
  <2>3. k[1] = q.kind => Table[<<q.kind, k[2]>>] = IF k[2] \in online THEN stored[k] ELSE Absent
    BY <2>1 DEF Table
  <2>4. stored[k] # Absent
    BY DEF TypeOK, Version, Absent
  <2> HIDE DEF row
  <2> QED
    BY <2>1, <2>2, <2>3, <2>4 DEF Covers
<1> HIDE DEF row
<1>4. CASE q.nodes \cap online = {}
  BY <1>1, <1>4
<1>5. CASE q.nodes \cap online # {}
  <2>1. Records(q) = <<row>>
    BY <1>1, <1>5
  <2>2. Len(Records(q)) = 1 /\ Records(q)[1] = row
    BY <2>1
  <2> QED
    BY <1>2, <1>3, <2>2
<1> QED
  BY <1>4, <1>5

\* The queries for a new node, and for a change.
LEMMA NoticeFacts ==
  ASSUME NEW notice \in Notice, notice.type # "NODEDEL"
  PROVE  /\ \A j \in 1 .. Len(Queries(notice)) : Queries(notice)[j].kind \in subs
         /\ notice.type = "NODEADD" =>
              /\ \A j \in 1 .. Len(Queries(notice)) : Queries(notice)[j].op = "ADD"
              /\ \A d \in subs \cap Kind : \E j \in 1 .. Len(Queries(notice)) :
                   Asks(Queries(notice)[j], "ADD", <<d, notice.node>>)
         /\ notice.type # "NODEADD" =>
              Queries(notice) = IF notice.type \in subs
                                THEN <<[op |-> "CHG", kind |-> notice.type,
                                        nodes |-> {notice.node}]>>
                                ELSE <<>>
<1> DEFINE q(o, d) == [op |-> o, kind |-> d, nodes |-> {notice.node}]
           of(o, d) == IF d \in subs THEN <<q(o, d)>> ELSE <<>>
           Good == {x \in Query : x.op = "ADD" /\ x.kind \in subs}
           two == of("ADD", "NODE") \o of("ADD", "SRC")
           added == two \o of("ADD", "DST")
<1>1. notice.node \in Node /\ notice.type \in {"NODEADD", "SRC", "DST"}
  BY DEF Notice
<1>2. CASE notice.type # "NODEADD"
  <2>1. Queries(notice) = of("CHG", notice.type)
    BY <1>1, <1>2 DEF Queries
  <2>2. CASE notice.type \in subs
    <3>1. Queries(notice) = <<q("CHG", notice.type)>>
      BY <2>1, <2>2
    <3>2. Len(Queries(notice)) = 1 /\ Queries(notice)[1].kind = notice.type
      BY <3>1
    <3> QED
      BY <1>2, <2>2, <3>1, <3>2
  <2>3. CASE notice.type \notin subs
    BY <1>2, <2>1, <2>3
  <2> QED
    BY <2>2, <2>3
<1>3. CASE notice.type = "NODEADD"
  <2>1. Queries(notice) = added \o added
    BY <1>3 DEF Queries
  <2>2. ASSUME NEW d \in Kind
        PROVE  /\ of("ADD", d) \in Seq(Good)
               /\ d \in subs => 1 \in 1 .. Len(of("ADD", d))
                                /\ Asks(of("ADD", d)[1], "ADD", <<d, notice.node>>)
    <3>1. d \in subs => q("ADD", d) \in Good
      BY <1>1 DEF Query
    <3>2. Asks(q("ADD", d), "ADD", <<d, notice.node>>)
      BY DEF Asks
    <3> HIDE DEF q, Good
    <3>3. CASE d \in subs
      <4>1. of("ADD", d) = <<q("ADD", d)>>
        BY <3>3
      <4> QED
        BY <3>1, <3>2, <3>3, <4>1
    <3>4. CASE d \notin subs
      BY <3>4
    <3> QED
      BY <3>3, <3>4
  <2>3. "NODE" \in Kind /\ "SRC" \in Kind /\ "DST" \in Kind /\ Kind = {"NODE", "SRC", "DST"}
    BY DEF Kind
  <2> HIDE DEF of, Good
  <2>4. two \in Seq(Good) /\ added \in Seq(Good)
    BY <2>2, <2>3
  <2>5. \A x \in Good : x.op = "ADD" /\ x.kind \in subs
    BY DEF Good
  <2>6. \A j \in 1 .. Len(Queries(notice)) :
          Queries(notice)[j].op = "ADD" /\ Queries(notice)[j].kind \in subs
    <3>1. Queries(notice) \in Seq(Good)
      BY <2>1, <2>4
    <3> QED
      BY <2>5, <3>1
  <2>7. ASSUME NEW d \in subs \cap Kind
        PROVE  \E j \in 1 .. Len(added) : Asks(added[j], "ADD", <<d, notice.node>>)
    <3> HIDE DEF two
    <3>1. ASSUME NEW j \in 1 .. Len(two)
          PROVE  j \in 1 .. Len(added) /\ added[j] = two[j]
      BY <2>2, <2>3, <2>4, JoinFacts
    <3>2. CASE d = "NODE"
      <4>1. 1 \in 1 .. Len(two) /\ two[1] = of("ADD", "NODE")[1]
        BY <2>2, <2>3, <3>2, JoinFacts DEF two
      <4> QED
        BY <2>2, <3>1, <3>2, <4>1
    <3>3. CASE d = "SRC"
      <4> DEFINE j == Len(of("ADD", "NODE")) + 1
      <4>1. 1 \in 1 .. Len(of("ADD", "SRC"))
        BY <2>2, <2>3, <3>3
      <4>2. j \in 1 .. Len(two) /\ two[j] = of("ADD", "SRC")[1]
        BY <2>2, <2>3, <4>1, JoinFacts DEF two
      <4> QED
        BY <2>2, <3>1, <3>3, <4>2
    <3>4. CASE d = "DST"
      <4> DEFINE j == Len(two) + 1
      <4>1. 1 \in 1 .. Len(of("ADD", "DST"))
        BY <2>2, <2>3, <3>4
      <4>2. j \in 1 .. Len(added) /\ added[j] = of("ADD", "DST")[1]
        BY <2>2, <2>3, <2>4, <4>1, JoinFacts
      <4> QED
        BY <2>2, <3>4, <4>2
    <3> QED
      BY <2>3, <3>2, <3>3, <3>4
  <2> HIDE DEF added
  <2>8. \A j \in 1 .. Len(added) : j \in 1 .. Len(Queries(notice)) /\ Queries(notice)[j] = added[j]
    BY <2>1, <2>4, JoinFacts
  <2> QED
    BY <1>3, <2>6, <2>7, <2>8
<1> QED
  BY <1>2, <1>3

-----------------------------------------------------------------------------
(* The core's steps.                                                       *)

LEMMA SyncInit == Init => Sync
BY DEF Init, Sync, NothingGoes, Sessions, Subscribed, NothingElse, NoNull, InOrder,
   RecordsInOrder, QueriesInOrder, NoticesInOrder, AllComing, AllNew

\* The queries and records that come before another one stay before it.
LEMMA SyncNodeConnected ==
  ASSUME TypeOK, NodesStay, Sync, NEW n \in Node, NodeConnected(n)
  PROVE  Sync'
<1> USE DEF core, proto, panel
<1>1. /\ UNCHANGED <<proto, cmds, tcp, panel>> /\ UNCHANGED departures
      /\ online' = online \cup {n} /\ n \notin online
      /\ pending = <<>> /\ pending' = <<New(n)>>
  BY DEF NodeConnected, Idle, New
<1>2. UNCHANGED stored
  BY ReplicaAssumption DEF NodeConnected, TypeOK, NodesStay
<1>3. ASSUME NEW i, NEW k, AddedBy(i, k) PROVE AddedBy(i, k)'
  BY <1>1, <1>3 DEF AddedBy
<1>4. ASSUME NEW j, NEW k, AskedBy(j, k) PROVE AskedBy(j, k)'
  BY <1>1, <1>3, <1>4 DEF AskedBy
<1>5. NothingGoes'
  <2>1. Len(pending') = 1 /\ pending'[1] = New(n)
    BY <1>1
  <2> QED
    BY <1>1, <2>1 DEF Sync, NothingGoes, New
<1>6. Sessions' /\ NoNull'
  BY <1>1 DEF Sync, Sessions, NoNull
<1>7. Subscribed'
  BY <1>1 DEF Sync, Subscribed, Covers
<1>8. NothingElse'
  BY <1>1 DEF Sync, NothingElse, Covers
<1>9. RecordsInOrder'
  BY <1>1, <1>3 DEF Sync, InOrder, RecordsInOrder, Brings, Covers
<1>10. QueriesInOrder'
  BY <1>1, <1>4 DEF Sync, InOrder, QueriesInOrder, Asks
<1>11. NoticesInOrder'
  BY <1>1, <1>4 DEF Sync, InOrder, NoticesInOrder, Coming, Of, AnnouncedBy
<1>12. AllComing'
  <2> SUFFICES ASSUME NEW k \in Key, k[1] \in subs', k[2] \in online'
               PROVE  \/ Coming(k)' \/ AnnouncedBy(Len(ipc), k[2])'
                      \/ pending' # <<>> /\ pending'[1] = New(k[2])
    BY DEF AllComing, New
  <2>1. CASE k[2] = n
    BY <1>1, <2>1
  <2>2. CASE k[2] # n
    <3>1. Coming(k) \/ AnnouncedBy(Len(ipc), k[2])
      BY <1>1, <2>2 DEF Sync, AllComing
    <3> QED
      BY <1>1, <1>4, <3>1 DEF Coming, AnnouncedBy
  <2> QED
    BY <2>1, <2>2
<1>13. AllNew'
  <2> SUFFICES ASSUME NEW k \in Key, k[1] \in subs', k[2] \in online'
               PROVE  \/ replica[k] = stored[k]
                      \/ \E i \in 1 .. Len(tcp) : Brings(tcp[i], "CHG", k)
                                                  /\ tcp[i].image[k[2]] = stored[k]
                      \/ \E j \in 1 .. Len(todo) : Asks(todo[j], "CHG", k)
                      \/ \E j \in 1 .. Len(ipc) : Of(ipc[j], k)
                      \/ /\ replica[k] = Absent
                         /\ \A i \in 1 .. Len(tcp) :
                              Brings(tcp[i], "ADD", k) => tcp[i].image[k[2]] = stored[k]
    BY <1>1, <1>2 DEF AllNew, Brings, Covers, Asks, Of
  <2>1. CASE k[2] = n
    BY <1>1, <2>1 DEF Sync, NothingElse, Brings
  <2>2. CASE k[2] # n
    BY <1>1, <2>2 DEF Sync, AllNew
  <2> QED
    BY <2>1, <2>2
<1> QED
  BY <1>5, <1>6, <1>7, <1>8, <1>9, <1>10, <1>11, <1>12, <1>13 DEF Sync, InOrder

LEMMA SyncSlotChanged ==
  ASSUME TypeOK, NodesStay, Sync, NEW n \in Node, NEW d \in {"SRC", "DST"}, SlotChanged(n, d)
  PROVE  Sync'
<1> USE DEF core, proto, panel
<1>1. /\ UNCHANGED <<proto, cmds, tcp, panel>> /\ UNCHANGED online /\ n \in online
      /\ pending = <<>> /\ pending' = <<[type |-> d, node |-> n]>>
      /\ Len(pending') = 1 /\ pending'[1] = [type |-> d, node |-> n]
  BY DEF SlotChanged, Idle
<1>2. \A k \in Key : k # <<d, n>> => stored'[k] = stored[k]
  BY DEF SlotChanged, TypeOK
<1>3. ASSUME NEW i, NEW k PROVE AddedBy(i, k)' <=> AddedBy(i, k)
  BY <1>1 DEF AddedBy
<1>4. ASSUME NEW j, NEW k PROVE AskedBy(j, k)' <=> AskedBy(j, k)
  BY <1>1, <1>3 DEF AskedBy
<1>5. NothingGoes'
  BY <1>1 DEF Sync, NothingGoes
<1>6. Sessions' /\ NoNull'
  BY <1>1 DEF Sync, Sessions, NoNull
<1>7. Subscribed'
  BY <1>1 DEF Sync, Subscribed, Covers
<1>8. NothingElse'
  BY <1>1 DEF Sync, NothingElse, Covers
<1>9. RecordsInOrder'
  BY <1>1, <1>3 DEF Sync, InOrder, RecordsInOrder, Brings, Covers
<1>10. QueriesInOrder'
  BY <1>1, <1>4 DEF Sync, InOrder, QueriesInOrder, Asks
<1>11. NoticesInOrder'
  BY <1>1, <1>4 DEF Sync, InOrder, NoticesInOrder, Coming, Of, AnnouncedBy
<1>12. AllComing'
  BY <1>1, <1>4 DEF Sync, AllComing, Coming, AnnouncedBy
<1>13. AllNew'
  <2> SUFFICES ASSUME NEW k \in Key, k[1] \in subs, k[2] \in online
               PROVE  \/ replica[k] = stored'[k]
                      \/ \E i \in 1 .. Len(tcp) : Brings(tcp[i], "CHG", k)
                                                  /\ tcp[i].image[k[2]] = stored'[k]
                      \/ \E j \in 1 .. Len(todo) : Asks(todo[j], "CHG", k)
                      \/ \E j \in 1 .. Len(ipc) : Of(ipc[j], k)
                      \/ Of(pending'[1], k)
                      \/ /\ replica[k] = Absent
                         /\ \A i \in 1 .. Len(tcp) :
                              Brings(tcp[i], "ADD", k) => tcp[i].image[k[2]] = stored'[k]
    BY <1>1 DEF AllNew, Brings, Covers, Asks, Of
  <2>1. CASE k = <<d, n>>
    BY <1>1, <2>1 DEF Of
  <2>2. CASE k # <<d, n>>
    BY <1>1, <1>2, <2>2 DEF Sync, AllNew
  <2> QED
    BY <2>1, <2>2
<1> QED
  BY <1>5, <1>6, <1>7, <1>8, <1>9, <1>10, <1>11, <1>12, <1>13 DEF Sync, InOrder

LEMMA SyncNotifyProtocols ==
  ASSUME TypeOK, NodesStay, Sync, NotifyProtocols
  PROVE  Sync'
<1> USE DEF core, proto, panel
<1> DEFINE x == pending[1]
<1>1. /\ UNCHANGED <<online, stored, known, subs, todo, cmds, tcp, panel>>
      /\ pending # <<>>
      /\ ipc' = IF known THEN Append(ipc, x) ELSE ipc
      /\ x \in Notice /\ x.type # "NODEDEL" /\ x.node \in online
      /\ pending' = <<>>
  <2>1. pending # <<>> /\ pending \in Seq(Notice) /\ Len(pending) = 1
    BY DEF NotifyProtocols, Idle, TypeOK, Sync, NothingGoes
  <2>2. Head(pending) = x /\ x \in Notice /\ Tail(pending) \in Seq(Notice)
        /\ Len(Tail(pending)) = 0
    BY <2>1, TailFacts
  <2> QED
    BY <2>1, <2>2 DEF NotifyProtocols, Send, Sync, NothingGoes
<1> HIDE DEF x
<1>2. ASSUME NEW i, NEW k PROVE AddedBy(i, k)' <=> AddedBy(i, k)
  BY <1>1 DEF AddedBy
<1>3. ASSUME NEW j, NEW k PROVE AskedBy(j, k)' <=> AskedBy(j, k)
  BY <1>1, <1>2 DEF AskedBy
<1>4. CASE known
  <2>1. /\ ipc \in Seq(Notice) /\ Len(ipc) \in Nat /\ Len(ipc') = Len(ipc) + 1
        /\ ipc'[Len(ipc) + 1] = x
        /\ \A j \in 1 .. Len(ipc) : ipc'[j] = ipc[j]
    BY <1>1, <1>4, AppendFacts DEF TypeOK
  <2>2. ASSUME NEW j \in 1 .. Len(ipc')
        PROVE  \/ j \in 1 .. Len(ipc) /\ ipc'[j] = ipc[j]
               \/ j = Len(ipc) + 1 /\ ipc'[j] = x
    BY <2>1
  <2>3. ASSUME NEW j \in 1 .. Len(ipc) + 1, NEW n, AnnouncedBy(j - 1, n)
        PROVE  AnnouncedBy(j - 1, n)'
    BY <2>1, <2>3 DEF AnnouncedBy, New
  <2>4. NothingGoes'
    BY <1>1, <2>2 DEF Sync, NothingGoes
  <2>5. Sessions' /\ NoNull'
    BY <1>1, <1>4 DEF Sync, Sessions, NoNull
  <2>6. Subscribed'
    BY <1>1 DEF Sync, Subscribed, Covers
  <2>7. NothingElse'
    BY <1>1 DEF Sync, NothingElse, Covers
  <2>8. RecordsInOrder'
    BY <1>1, <1>2 DEF Sync, InOrder, RecordsInOrder, Brings, Covers
  <2>9. QueriesInOrder'
    BY <1>1, <1>3 DEF Sync, InOrder, QueriesInOrder, Asks
  <2>10. NoticesInOrder'
    <3> SUFFICES ASSUME NEW j \in 1 .. Len(ipc'), NEW k \in Key, Of(ipc'[j], k), k[1] \in subs
                 PROVE  Coming(k)' \/ AnnouncedBy(j - 1, k[2])'
      BY <1>1 DEF NoticesInOrder, Of
    <3>1. CASE j \in 1 .. Len(ipc) /\ ipc'[j] = ipc[j]
      <4>1. Coming(k) \/ AnnouncedBy(j - 1, k[2])
        BY <3>1 DEF Sync, InOrder, NoticesInOrder
      <4> QED
        BY <1>1, <1>3, <2>1, <2>3, <3>1, <4>1 DEF Coming
    <3>2. CASE j = Len(ipc) + 1 /\ ipc'[j] = x
      <4>1. k[2] \in online /\ x # New(k[2])
        <5>1. k[1] \in Kind
          BY KeyFacts
        <5> QED
          BY <1>1, <3>2, <5>1 DEF Of, New, Kind
      <4>2. Coming(k) \/ AnnouncedBy(Len(ipc), k[2])
        BY <4>1 DEF Sync, AllComing, x
      <4> QED
        BY <1>1, <1>3, <2>1, <2>3, <3>2, <4>2 DEF Coming
    <3> QED
      BY <2>2, <3>1, <3>2
  <2>11. AllComing'
    <3> SUFFICES ASSUME NEW k \in Key, k[1] \in subs, k[2] \in online
                 PROVE  Coming(k)' \/ AnnouncedBy(Len(ipc), k[2])'
      BY <1>1 DEF AllComing
    <3>1. CASE Coming(k)
      BY <1>1, <1>3, <3>1 DEF Coming
    <3>2. CASE AnnouncedBy(Len(ipc), k[2])
      BY <2>1, <3>2 DEF AnnouncedBy, New
    <3>3. CASE x = New(k[2])
      BY <2>1, <3>3 DEF AnnouncedBy, New
    <3> QED
      BY <3>1, <3>2, <3>3 DEF Sync, AllComing, x
  <2>12. AllNew'
    <3> SUFFICES ASSUME NEW k \in Key, k[1] \in subs, k[2] \in online
                 PROVE  \/ replica[k] = stored[k]
                        \/ \E i \in 1 .. Len(tcp) : Brings(tcp[i], "CHG", k)
                                                    /\ tcp[i].image[k[2]] = stored[k]
                        \/ \E j \in 1 .. Len(todo) : Asks(todo[j], "CHG", k)
                        \/ \E j \in 1 .. Len(ipc') : Of(ipc'[j], k)
                        \/ /\ replica[k] = Absent
                           /\ \A i \in 1 .. Len(tcp) :
                                Brings(tcp[i], "ADD", k) => tcp[i].image[k[2]] = stored[k]
      BY <1>1 DEF AllNew, Brings, Covers, Asks, Of
    <3>1. ASSUME Of(x, k) \/ \E j \in 1 .. Len(ipc) : Of(ipc[j], k)
          PROVE  \E j \in 1 .. Len(ipc') : Of(ipc'[j], k)
      BY <2>1, <3>1
    <3> QED
      BY <3>1 DEF Sync, AllNew, x
  <2> QED
    BY <2>4, <2>5, <2>6, <2>7, <2>8, <2>9, <2>10, <2>11, <2>12 DEF Sync, InOrder
<1>5. CASE ~known
  <2>1. /\ ipc' = <<>> /\ subs' = {} /\ todo' = <<>> /\ tcp' = <<>>
        /\ Len(ipc') = 0 /\ Len(todo') = 0 /\ Len(tcp') = 0
    BY <1>1, <1>5 DEF Sync, Sessions
  <2>2. NothingGoes' /\ InOrder' /\ AllComing' /\ AllNew'
    BY <1>1, <2>1 DEF NothingGoes, InOrder, RecordsInOrder, QueriesInOrder, NoticesInOrder,
       AllComing, AllNew
  <2>3. Sessions' /\ NoNull'
    BY <1>1, <1>5, <2>1 DEF Sync, Sessions, NoNull
  <2>4. Subscribed'
    BY <1>1 DEF Sync, Subscribed, Covers
  <2>5. NothingElse'
    BY <1>1 DEF Sync, NothingElse, Covers
  <2> QED
    BY <2>2, <2>3, <2>4, <2>5 DEF Sync
<1> QED
  BY <1>4, <1>5

LEMMA SyncAcceptIpc ==
  ASSUME TypeOK, NodesStay, Sync, AcceptIpc
  PROVE  Sync'
<1> USE DEF core, proto, panel
<1>1. /\ UNCHANGED <<core, ipc, subs, todo, cmds, tcp, panel>>
      /\ conn = "open" /\ ~known /\ known'
      /\ ipc = <<>> /\ subs = {} /\ todo = <<>> /\ tcp = <<>>
      /\ Len(ipc) = 0 /\ Len(todo) = 0 /\ Len(tcp) = 0
  BY DEF AcceptIpc, Sync, Sessions
<1>2. NothingGoes' /\ Sessions' /\ NoNull'
  BY <1>1 DEF Sync, NothingGoes, Sessions, NoNull
<1>3. InOrder' /\ AllComing' /\ AllNew'
  BY <1>1 DEF InOrder, RecordsInOrder, QueriesInOrder, NoticesInOrder, AllComing, AllNew
<1>4. Subscribed'
  BY <1>1 DEF Sync, Subscribed, Covers
<1>5. NothingElse'
  BY <1>1 DEF Sync, NothingElse, Covers
<1> QED
  BY <1>2, <1>3, <1>4, <1>5 DEF Sync

-----------------------------------------------------------------------------
(* The protocol process's steps.                                           *)

LEMMA SyncSubscribe ==
  ASSUME TypeOK, NodesStay, Sync, NEW d \in Kind, Subscribe(d)
  PROVE  Sync'
<1> USE DEF core, proto, panel
<1> DEFINE all == [op |-> "ADD", kind |-> d, nodes |-> Node]
<1>1. /\ UNCHANGED <<core, known, ipc, tcp, panel>>
      /\ conn = "open" /\ known /\ todo = <<>> /\ Len(todo) = 0
      /\ subs' = subs \cup {d} /\ todo' = <<all>> /\ Len(todo') = 1 /\ todo'[1] = all
      /\ cmds # <<>> /\ Head(cmds) = d /\ cmds' = Tail(cmds)
  BY DEF Subscribe, Free, NodesStay
<1>2. ASSUME NEW i, NEW k PROVE AddedBy(i, k)' <=> AddedBy(i, k)
  BY <1>1 DEF AddedBy
<1>3. ASSUME NEW k, Coming(k) PROVE Coming(k)'
  BY <1>1, <1>2, <1>3 DEF Coming, AskedBy
<1>4. ASSUME NEW k \in Key, k[1] = d, k[2] \in online PROVE Coming(k)'
  <2>1. Asks(all, "ADD", k)
    BY <1>4, KeyFacts DEF Asks
  <2> HIDE DEF all
  <2> QED
    BY <1>1, <1>4, <2>1 DEF Coming, AskedBy
<1>5. ~Asks(all, "CHG", <<>>) /\ \A k : ~Asks(all, "CHG", k)
  BY DEF Asks
<1> HIDE DEF all
<1>6. NothingGoes'
  <2>1. all.op # "DEL"
    BY DEF all
  <2> QED
    BY <1>1, <2>1 DEF Sync, NothingGoes
<1>7. Sessions' /\ NoNull'
  BY <1>1 DEF Sync, Sessions, NoNull
<1>8. Subscribed'
  <2>1. all.kind = d
    BY DEF all
  <2>2. \A c \in Kind : c \in subs' \/ \E i \in 1 .. Len(cmds') : cmds'[i] = c
    <3> SUFFICES ASSUME NEW c \in Kind, c \notin subs'
                 PROVE  \E i \in 1 .. Len(cmds') : cmds'[i] = c
      OBVIOUS
    <3>1. PICK i \in 1 .. Len(cmds) : cmds[i] = c
      BY <1>1 DEF Sync, Subscribed
    <3>2. cmds \in Seq(Command) /\ Head(cmds) = cmds[1] /\ Len(cmds) \in Nat
          /\ Len(cmds') = Len(cmds) - 1 /\ \A h \in 1 .. Len(cmds') : cmds'[h] = cmds[h + 1]
      BY <1>1, TailFacts DEF TypeOK
    <3>3. i # 1
      BY <1>1, <3>1, <3>2
    <3>4. i - 1 \in 1 .. Len(cmds') /\ cmds'[i - 1] = cmds[i]
      BY <3>1, <3>2, <3>3
    <3> QED
      BY <3>1, <3>4
  <2> QED
    BY <1>1, <2>1, <2>2 DEF Sync, Subscribed, Covers
<1>9. NothingElse'
  BY <1>1 DEF Sync, NothingElse, Covers
<1>10. RecordsInOrder'
  BY <1>1, <1>2 DEF Sync, InOrder, RecordsInOrder, Brings, Covers
<1>11. QueriesInOrder'
  BY <1>1, <1>5 DEF QueriesInOrder, Asks
<1>12. NoticesInOrder'
  <2> SUFFICES ASSUME NEW j \in 1 .. Len(ipc), NEW k \in Key, Of(ipc[j], k), k[1] \in subs'
               PROVE  Coming(k)' \/ AnnouncedBy(j - 1, k[2])'
    BY <1>1 DEF NoticesInOrder, Of
  <2>1. CASE k[1] = d
    <3>1. k[2] \in online
      BY DEF Sync, NothingGoes, Of
    <3> QED
      BY <1>4, <2>1, <3>1
  <2>2. CASE k[1] # d
    <3>1. Coming(k) \/ AnnouncedBy(j - 1, k[2])
      BY <1>1, <2>2 DEF Sync, InOrder, NoticesInOrder
    <3> QED
      BY <1>1, <1>3, <3>1 DEF AnnouncedBy
  <2> QED
    BY <2>1, <2>2
<1>13. AllComing'
  <2> SUFFICES ASSUME NEW k \in Key, k[1] \in subs', k[2] \in online
               PROVE  \/ Coming(k)' \/ AnnouncedBy(Len(ipc), k[2])'
                      \/ pending # <<>> /\ pending[1] = New(k[2])
    BY <1>1 DEF AllComing, New
  <2>1. CASE k[1] = d
    BY <1>4, <2>1
  <2>2. CASE k[1] # d
    <3>1. \/ Coming(k) \/ AnnouncedBy(Len(ipc), k[2])
          \/ pending # <<>> /\ pending[1] = New(k[2])
      BY <1>1, <2>2 DEF Sync, AllComing
    <3> QED
      BY <1>1, <1>3, <3>1 DEF AnnouncedBy
  <2> QED
    BY <2>1, <2>2
<1>14. AllNew'
  <2> SUFFICES ASSUME NEW k \in Key, k[1] \in subs', k[2] \in online
               PROVE  \/ replica[k] = stored[k]
                      \/ \E i \in 1 .. Len(tcp) : Brings(tcp[i], "CHG", k)
                                                  /\ tcp[i].image[k[2]] = stored[k]
                      \/ \E j \in 1 .. Len(ipc) : Of(ipc[j], k)
                      \/ pending # <<>> /\ Of(pending[1], k)
                      \/ /\ replica[k] = Absent
                         /\ \A i \in 1 .. Len(tcp) :
                              Brings(tcp[i], "ADD", k) => tcp[i].image[k[2]] = stored[k]
    BY <1>1 DEF AllNew, Brings, Covers, Of
  <2>1. CASE k[1] \in subs
    BY <1>1, <2>1 DEF Sync, AllNew
  <2>2. CASE k[1] \notin subs
    BY <1>1, <2>2 DEF Sync, Subscribed, Brings
  <2> QED
    BY <2>1, <2>2
<1> QED
  BY <1>6, <1>7, <1>8, <1>9, <1>10, <1>11, <1>12, <1>13, <1>14 DEF Sync, InOrder

\* What is written behind all records.
LEMMA SyncWritten ==
  ASSUME TypeOK, Sync, UNCHANGED <<online, stored, pending, known, ipc, subs, conn, replica, null>>,
         conn = "open", known,
         NEW out \in Seq(Message), tcp' = tcp \o out,
         \A i \in 1 .. Len(out) : \A k \in Key : Covers(out[i], k) =>
           k[1] \in subs /\ k[2] \in online /\ out[i].image[k[2]] = stored[k],
         \A i \in 1 .. Len(out) : \A k \in Key : Brings(out[i], "CHG", k) =>
           AddedBy(Len(tcp), k),
         \A i \in 1 .. Len(out) : out[i].op # "DEL",
         \A k \in Key : Coming(k) => Coming(k)',
         \A k \in Key : (\E j \in 1 .. Len(todo) : Asks(todo[j], "CHG", k)) /\ k[2] \in online =>
           \/ \E j \in 1 .. Len(todo') : Asks(todo'[j], "CHG", k)
           \/ \E i \in 1 .. Len(out) : Brings(out[i], "CHG", k),
         QueriesInOrder',
         \A j \in 1 .. Len(todo') : todo'[j].op # "DEL" /\ todo'[j].kind \in subs,
         \A d \in Kind : d \in subs \/ \E i \in 1 .. Len(cmds') : cmds'[i] = d
  PROVE  Sync'
<1>0. PICK n \in Nat : n = Len(tcp)
  BY DEF TypeOK
<1>1. /\ n \in Nat /\ Len(out) \in Nat /\ Len(tcp') = n + Len(out)
      /\ \A i \in 1 .. n : i \in 1 .. Len(tcp') /\ tcp'[i] = tcp[i]
      /\ \A i \in 1 .. Len(out) : n + i \in 1 .. Len(tcp') /\ tcp'[n + i] = out[i]
      /\ \A i \in 1 .. Len(tcp') :
           \/ i \in 1 .. n /\ tcp'[i] = tcp[i]
           \/ i > n /\ i - n \in 1 .. Len(out) /\ tcp'[i] = out[i - n]
  BY <1>0, JoinFacts DEF TypeOK
<1>2. ASSUME NEW i \in 0 .. n, NEW k, AddedBy(i, k) PROVE AddedBy(i, k)'
  <2>1. CASE replica[k] # Absent
    BY <2>1 DEF AddedBy
  <2>2. CASE replica[k] = Absent
    <3>1. PICK h \in 1 .. i : Brings(tcp[h], "ADD", k)
      BY <1>2, <2>2 DEF AddedBy
    <3>2. tcp'[h] = tcp[h]
      BY <1>1, <3>1
    <3> QED
      BY <3>1, <3>2 DEF AddedBy, Brings, Covers
  <2> QED
    BY <2>1, <2>2
<1>3. NothingGoes'
  <2>1. \A i \in 1 .. Len(tcp') : tcp'[i].op # "DEL"
    BY <1>1, <1>0 DEF Sync, NothingGoes
  <2> QED
    BY <2>1 DEF Sync, NothingGoes
<1>4. Sessions' /\ NoNull'
  BY DEF Sync, Sessions, NoNull
<1>5. Subscribed'
  <2>1. ASSUME NEW k \in Key, k[1] \notin subs, NEW i \in 1 .. Len(tcp')
        PROVE  ~Covers(tcp'[i], k)
    BY <1>1, <2>1, <1>0 DEF Sync, Subscribed
  <2>2. \A k \in Key : k[1] \notin subs => replica[k] = Absent
    BY DEF Sync, Subscribed
  <2> QED
    BY <2>1, <2>2 DEF Subscribed, Covers
<1>6. NothingElse'
  <2>1. ASSUME NEW k \in Key, NEW i \in 1 .. Len(tcp'), Covers(tcp'[i], k)
        PROVE  k[2] \in online
    BY <1>1, <2>1, <1>0 DEF Sync, NothingElse
  <2> QED
    BY <2>1 DEF Sync, NothingElse, Covers
<1>7. RecordsInOrder'
  <2> SUFFICES ASSUME NEW i \in 1 .. Len(tcp'), NEW k \in Key, Brings(tcp'[i], "CHG", k)
               PROVE  AddedBy(i - 1, k)'
    BY DEF RecordsInOrder, Brings, Covers
  <2>1. CASE i \in 1 .. n /\ tcp'[i] = tcp[i]
    <3>1. AddedBy(i - 1, k)
      BY <2>1, <1>0 DEF Sync, InOrder, RecordsInOrder
    <3>2. i - 1 \in 0 .. n
      BY <1>1, <2>1
    <3> QED
      BY <1>2, <3>1, <3>2
  <2>2. CASE i > n /\ i - n \in 1 .. Len(out) /\ tcp'[i] = out[i - n]
    <3>1. AddedBy(n, k)
      BY <1>0, <2>2
    <3>2. AddedBy(n, k)'
      BY <1>1, <1>2, <3>1
    <3>3. 1 .. n \subseteq 1 .. i - 1
      BY <1>1, <2>2
    <3> QED
      BY <3>2, <3>3 DEF AddedBy
  <2> QED
    BY <1>1, <2>1, <2>2
<1>8. NoticesInOrder'
  BY DEF Sync, InOrder, NoticesInOrder, Of, AnnouncedBy, New
<1>9. AllComing'
  BY DEF Sync, AllComing, AnnouncedBy, New
<1>10. AllNew'
  <2> SUFFICES ASSUME NEW k \in Key, k[1] \in subs, k[2] \in online
               PROVE  \/ replica[k] = stored[k]
                      \/ \E i \in 1 .. Len(tcp') : Brings(tcp'[i], "CHG", k)
                                                  /\ tcp'[i].image[k[2]] = stored[k]
                      \/ \E j \in 1 .. Len(todo') : Asks(todo'[j], "CHG", k)
                      \/ \E j \in 1 .. Len(ipc) : Of(ipc[j], k)
                      \/ pending # <<>> /\ Of(pending[1], k)
                      \/ /\ replica[k] = Absent
                         /\ \A i \in 1 .. Len(tcp') :
                              Brings(tcp'[i], "ADD", k) => tcp'[i].image[k[2]] = stored[k]
    BY DEF AllNew, Brings, Covers, Asks, Of
  <2>1. ASSUME NEW i \in 1 .. n, Brings(tcp[i], "CHG", k), tcp[i].image[k[2]] = stored[k]
        PROVE  \E h \in 1 .. Len(tcp') : Brings(tcp'[h], "CHG", k)
                                         /\ tcp'[h].image[k[2]] = stored[k]
    BY <1>1, <2>1
  <2>2. ASSUME NEW i \in 1 .. Len(out), Brings(out[i], "CHG", k)
        PROVE  \E h \in 1 .. Len(tcp') : Brings(tcp'[h], "CHG", k)
                                         /\ tcp'[h].image[k[2]] = stored[k]
    <3>1. out[i].image[k[2]] = stored[k]
      BY <2>2 DEF Brings
    <3>2. n + i \in 1 .. Len(tcp') /\ tcp'[n + i] = out[i]
      BY <1>1
    <3> QED
      BY <2>2, <3>1, <3>2
  <2>3. ASSUME \A i \in 1 .. n : Brings(tcp[i], "ADD", k) => tcp[i].image[k[2]] = stored[k],
               NEW i \in 1 .. Len(tcp'), Brings(tcp'[i], "ADD", k)
        PROVE  tcp'[i].image[k[2]] = stored[k]
    BY <1>1, <2>3 DEF Brings
  <2>4. \/ replica[k] = stored[k]
        \/ \E i \in 1 .. n : Brings(tcp[i], "CHG", k) /\ tcp[i].image[k[2]] = stored[k]
        \/ \E j \in 1 .. Len(todo) : Asks(todo[j], "CHG", k)
        \/ \E j \in 1 .. Len(ipc) : Of(ipc[j], k)
        \/ pending # <<>> /\ Of(pending[1], k)
        \/ /\ replica[k] = Absent
           /\ \A i \in 1 .. n : Brings(tcp[i], "ADD", k) => tcp[i].image[k[2]] = stored[k]
    BY <1>0 DEF Sync, AllNew
  <2> QED
    BY <2>1, <2>2, <2>3, <2>4
<1> QED
  BY <1>3, <1>4, <1>5, <1>6, <1>7, <1>8, <1>9, <1>10 DEF Sync, InOrder

\* What has been on its way stays so when more is written.
LEMMA StillAdded ==
  ASSUME TypeOK, UNCHANGED replica, NEW out \in Seq(Message), tcp' = tcp \o out,
         NEW k, AddedBy(Len(tcp), k)
  PROVE  AddedBy(Len(tcp), k)'
<1>1. CASE replica[k] # Absent
  BY <1>1 DEF AddedBy
<1>2. CASE replica[k] = Absent
  <2>1. PICK h \in 1 .. Len(tcp) : Brings(tcp[h], "ADD", k)
    BY <1>2 DEF AddedBy
  <2>2. h \in 1 .. Len(tcp') /\ tcp'[h] = tcp[h]
    BY <2>1, JoinFacts DEF TypeOK
  <2> QED
    BY <2>1, <2>2 DEF AddedBy, Brings, Covers
<1> QED
  BY <1>1, <1>2

LEMMA SyncPing ==
  ASSUME TypeOK, NodesStay, Sync, Ping
  PROVE  Sync'
<1> USE DEF core, proto, panel
<1> DEFINE out == <<Pong>>
<1>1. /\ UNCHANGED <<core, proto, panel>> /\ conn = "open" /\ known
      /\ cmds # <<>> /\ Head(cmds) = "PING" /\ cmds' = Tail(cmds)
  BY DEF Ping, Free, NodesStay
<1>2. out \in Seq(Message) /\ tcp' = tcp \o out /\ \A i \in 1 .. Len(out) : out[i] = Pong
  BY PongFacts DEF Ping, TypeOK
<1>3. \A k \in Key : ~Covers(Pong, k) /\ ~Brings(Pong, "CHG", k)
  BY PongFacts DEF Brings
<1>4. Pong.op # "DEL"
  BY DEF Pong
<1> HIDE DEF out
<1>5. ASSUME NEW j, NEW k, AskedBy(j, k) PROVE AskedBy(j, k)'
  BY <1>1, <1>2, <1>5, StillAdded DEF AskedBy
<1>6. \A k \in Key : Coming(k) => Coming(k)'
  BY <1>1, <1>5 DEF Coming
<1>7. QueriesInOrder'
  BY <1>1, <1>5 DEF Sync, InOrder, QueriesInOrder, Asks
<1>8. \A d \in Kind : d \in subs \/ \E i \in 1 .. Len(cmds') : cmds'[i] = d
  <2> SUFFICES ASSUME NEW d \in Kind, d \notin subs
               PROVE  \E i \in 1 .. Len(cmds') : cmds'[i] = d
    OBVIOUS
  <2>1. PICK i \in 1 .. Len(cmds) : cmds[i] = d
    BY <1>1 DEF Sync, Subscribed
  <2>2. cmds \in Seq(Command) /\ Head(cmds) = cmds[1] /\ Len(cmds) \in Nat
        /\ Len(cmds') = Len(cmds) - 1 /\ \A h \in 1 .. Len(cmds') : cmds'[h] = cmds[h + 1]
    BY <1>1, TailFacts DEF TypeOK
  <2>3. i # 1
    BY <1>1, <2>1, <2>2 DEF Kind
  <2>4. i - 1 \in 1 .. Len(cmds') /\ cmds'[i - 1] = cmds[i]
    BY <2>1, <2>2, <2>3
  <2> QED
    BY <2>1, <2>4
<1>9. \A j \in 1 .. Len(todo') : todo'[j].op # "DEL" /\ todo'[j].kind \in subs
  BY <1>1 DEF Sync, NothingGoes, Subscribed
<1>10. \A k \in Key : (\E j \in 1 .. Len(todo) : Asks(todo[j], "CHG", k)) =>
         \E j \in 1 .. Len(todo') : Asks(todo'[j], "CHG", k)
  BY <1>1
<1> QED
  BY <1>1, <1>2, <1>3, <1>4, <1>6, <1>7, <1>8, <1>9, <1>10, SyncWritten

LEMMA SyncProcessIpcCommand ==
  ASSUME TypeOK, NodesStay, Sync, ProcessIpcCommand
  PROVE  Sync'
<1> USE DEF core, proto, panel
<1>1. /\ UNCHANGED <<core, known, subs, cmds, tcp, panel>> /\ conn = "open" /\ known
      /\ todo = <<>> /\ Len(todo) = 0 /\ ipc # <<>>
      /\ todo' = Queries(Head(ipc)) /\ ipc' = Tail(ipc)
  BY DEF ProcessIpcCommand, Free, NodesStay
<1>2. PICK x \in Notice : x = ipc[1]
  BY <1>1 DEF TypeOK
<1>3. /\ Head(ipc) = x /\ Len(ipc) \in Nat /\ Len(ipc) >= 1 /\ Len(ipc') = Len(ipc) - 1
      /\ \A j \in 1 .. Len(ipc') : j + 1 \in 1 .. Len(ipc) /\ ipc'[j] = ipc[j + 1]
  BY <1>1, <1>2, TailFacts DEF TypeOK
<1>4. x.type # "NODEDEL" /\ x.node \in online
  BY <1>2, <1>3 DEF Sync, NothingGoes
<1>5. /\ \A j \in 1 .. Len(todo') : todo'[j].kind \in subs
      /\ x.type = "NODEADD" =>
           /\ \A j \in 1 .. Len(todo') : todo'[j].op = "ADD"
           /\ \A d \in subs \cap Kind : \E j \in 1 .. Len(todo') :
                Asks(todo'[j], "ADD", <<d, x.node>>)
      /\ x.type # "NODEADD" =>
           todo' = IF x.type \in subs
                   THEN <<[op |-> "CHG", kind |-> x.type, nodes |-> {x.node}]>>
                   ELSE <<>>
  BY <1>1, <1>3, <1>4, NoticeFacts
<1>6. ASSUME NEW i, NEW k PROVE AddedBy(i, k)' <=> AddedBy(i, k)
  BY <1>1 DEF AddedBy
<1>7. ASSUME NEW j, NEW k, Coming(k) PROVE AskedBy(j, k)'
  <2>1. AddedBy(Len(tcp), k)
    BY <1>1, <1>7 DEF Coming, AskedBy
  <2> QED
    BY <1>1, <1>6, <2>1 DEF AskedBy
<1>8. ASSUME NEW k \in Key, k[1] \in subs, x = New(k[2]) PROVE Coming(k)'
  <2>1. k = <<k[1], x.node>> /\ k[1] \in Kind /\ x.type = "NODEADD" /\ k[2] \in online
    BY <1>4, <1>8, KeyFacts DEF New
  <2>2. \E j \in 1 .. Len(todo') : Asks(todo'[j], "ADD", k)
    BY <1>5, <1>8, <2>1
  <2> QED
    BY <1>1, <2>1, <2>2 DEF Coming, AskedBy, Asks
<1>9. ASSUME NEW j \in 1 .. Len(ipc), NEW n, AnnouncedBy(j, n), x # New(n)
      PROVE  AnnouncedBy(j - 1, n)'
  <2>1. PICK h \in 1 .. j : ipc[h] = New(n)
    BY <1>9 DEF AnnouncedBy
  <2>2. h # 1
    BY <1>2, <1>9, <2>1
  <2>3. h - 1 \in 1 .. j - 1 /\ h - 1 \in 1 .. Len(ipc') /\ (h - 1) + 1 = h
    BY <1>3, <2>1, <2>2
  <2>4. ipc'[h - 1] = New(n)
    BY <1>3, <2>1, <2>3
  <2> QED
    BY <2>3, <2>4 DEF AnnouncedBy, New
<1>10. ASSUME x.type # "NODEADD"
       PROVE  \A j \in 1 .. Len(todo') : \A k \in Key :
                /\ todo'[j].op = "CHG"
                /\ Asks(todo'[j], "CHG", k) => Of(x, k) /\ k[1] \in subs
  <2> DEFINE query == [op |-> "CHG", kind |-> x.type, nodes |-> {x.node}]
  <2>1. \A k \in Key : Asks(query, "CHG", k) => Of(x, k)
    BY DEF Asks, Of
  <2>2. query.op = "CHG" /\ query.kind = x.type
    OBVIOUS
  <2>3. CASE x.type \in subs
    <3>1. todo' = <<query>>
      BY <1>5, <1>10, <2>3
    <3> HIDE DEF query
    <3>2. \A j \in 1 .. Len(todo') : todo'[j] = query
      BY <3>1
    <3> QED
      BY <2>1, <2>2, <2>3, <3>2 DEF Of
  <2>4. CASE x.type \notin subs
    BY <1>5, <1>10, <2>4
  <2> QED
    BY <2>3, <2>4
<1>11. NothingGoes'
  <2>1. \A j \in 1 .. Len(todo') : todo'[j].op # "DEL"
    BY <1>5, <1>10
  <2>2. \A j \in 1 .. Len(ipc') : ipc'[j].type # "NODEDEL" /\ ipc'[j].node \in online
    BY <1>3 DEF Sync, NothingGoes
  <2> QED
    BY <1>1, <2>1, <2>2 DEF Sync, NothingGoes
<1>12. Sessions' /\ NoNull'
  BY <1>1 DEF Sync, Sessions, NoNull
<1>13. Subscribed'
  BY <1>1, <1>5 DEF Sync, Subscribed, Covers
<1>14. NothingElse'
  BY <1>1 DEF Sync, NothingElse, Covers
<1>15. RecordsInOrder'
  BY <1>1, <1>6 DEF Sync, InOrder, RecordsInOrder, Brings, Covers
<1>16. QueriesInOrder'
  <2> SUFFICES ASSUME NEW j \in 1 .. Len(todo'), NEW k \in Key, Asks(todo'[j], "CHG", k)
               PROVE  AskedBy(j - 1, k)'
    BY DEF QueriesInOrder, Asks
  <2>1. x.type # "NODEADD"
    BY <1>5 DEF Asks
  <2>2. Of(ipc[1], k) /\ k[1] \in subs /\ 1 \in 1 .. Len(ipc)
    BY <1>2, <1>3, <1>10, <2>1
  <2>3. Coming(k) \/ AnnouncedBy(1 - 1, k[2])
    BY <2>2 DEF Sync, InOrder, NoticesInOrder
  <2>4. ~AnnouncedBy(1 - 1, k[2])
    BY DEF AnnouncedBy
  <2> QED
    BY <1>7, <2>3, <2>4
<1>17. NoticesInOrder'
  <2> SUFFICES ASSUME NEW j \in 1 .. Len(ipc'), NEW k \in Key, Of(ipc'[j], k), k[1] \in subs
               PROVE  Coming(k)' \/ AnnouncedBy(j - 1, k[2])'
    BY <1>1 DEF NoticesInOrder, Of
  <2>1. j + 1 \in 1 .. Len(ipc) /\ ipc'[j] = ipc[j + 1] /\ (j + 1) - 1 = j /\ j \in 1 .. Len(ipc)
    BY <1>3
  <2>2. Coming(k) \/ AnnouncedBy((j + 1) - 1, k[2])
    BY <2>1 DEF Sync, InOrder, NoticesInOrder
  <2>3. CASE Coming(k)
    BY <1>7, <2>3 DEF Coming
  <2>4. CASE x = New(k[2])
    BY <1>8, <2>4
  <2>5. CASE AnnouncedBy(j, k[2]) /\ x # New(k[2])
    BY <1>9, <2>1, <2>5
  <2> QED
    BY <2>1, <2>2, <2>3, <2>4, <2>5
<1>18. AllComing'
  <2> SUFFICES ASSUME NEW k \in Key, k[1] \in subs, k[2] \in online
               PROVE  \/ Coming(k)' \/ AnnouncedBy(Len(ipc), k[2])'
                      \/ pending # <<>> /\ pending[1] = New(k[2])
    BY <1>1 DEF AllComing, New
  <2>1. CASE Coming(k)
    BY <1>7, <2>1 DEF Coming
  <2>2. CASE x = New(k[2])
    BY <1>8, <2>2
  <2>3. CASE AnnouncedBy(Len(ipc), k[2]) /\ x # New(k[2])
    <3>1. PICK h \in 1 .. Len(ipc) : ipc[h] = New(k[2])
      BY <2>3 DEF AnnouncedBy
    <3>2. h # 1
      BY <1>2, <2>3, <3>1
    <3>3. h - 1 \in 1 .. Len(ipc') /\ (h - 1) + 1 = h
      BY <1>3, <3>1, <3>2
    <3>4. ipc'[h - 1] = New(k[2])
      BY <1>3, <3>1, <3>3
    <3> QED
      BY <3>3, <3>4 DEF AnnouncedBy, New
  <2> QED
    BY <2>1, <2>2, <2>3 DEF Sync, AllComing
<1>19. AllNew'
  <2> SUFFICES ASSUME NEW k \in Key, k[1] \in subs, k[2] \in online
               PROVE  \/ replica[k] = stored[k]
                      \/ \E i \in 1 .. Len(tcp) : Brings(tcp[i], "CHG", k)
                                                  /\ tcp[i].image[k[2]] = stored[k]
                      \/ \E j \in 1 .. Len(todo') : Asks(todo'[j], "CHG", k)
                      \/ \E j \in 1 .. Len(ipc') : Of(ipc'[j], k)
                      \/ pending # <<>> /\ Of(pending[1], k)
                      \/ /\ replica[k] = Absent
                         /\ \A i \in 1 .. Len(tcp) :
                              Brings(tcp[i], "ADD", k) => tcp[i].image[k[2]] = stored[k]
    BY <1>1 DEF AllNew, Brings, Covers, Asks, Of
  <2>1. ASSUME NEW j \in 1 .. Len(ipc), Of(ipc[j], k), j # 1
        PROVE  \E h \in 1 .. Len(ipc') : Of(ipc'[h], k)
    <3>1. j - 1 \in 1 .. Len(ipc') /\ (j - 1) + 1 = j
      BY <1>3, <2>1
    <3>2. ipc'[j - 1] = ipc[j]
      BY <1>3, <3>1
    <3> QED
      BY <2>1, <3>1, <3>2
  <2>2. ASSUME Of(x, k)
        PROVE  \E j \in 1 .. Len(todo') : Asks(todo'[j], "CHG", k)
    <3> DEFINE query == [op |-> "CHG", kind |-> x.type, nodes |-> {x.node}]
    <3>1. x.type = k[1] /\ x.node = k[2] /\ x.type # "NODEADD"
      BY <2>2, KeyFacts DEF Of, Kind
    <3>2. Asks(query, "CHG", k)
      BY <3>1 DEF Asks
    <3>3. todo' = <<query>>
      BY <1>5, <3>1
    <3> HIDE DEF query
    <3>4. 1 \in 1 .. Len(todo') /\ todo'[1] = query
      BY <3>3
    <3> QED
      BY <3>2, <3>4
  <2>3. \/ replica[k] = stored[k]
        \/ \E i \in 1 .. Len(tcp) : Brings(tcp[i], "CHG", k) /\ tcp[i].image[k[2]] = stored[k]
        \/ \E j \in 1 .. Len(ipc) : Of(ipc[j], k)
        \/ pending # <<>> /\ Of(pending[1], k)
        \/ /\ replica[k] = Absent
           /\ \A i \in 1 .. Len(tcp) : Brings(tcp[i], "ADD", k) => tcp[i].image[k[2]] = stored[k]
    <3>1. \A j \in 1 .. Len(todo) : ~Asks(todo[j], "CHG", k)
      BY <1>1
    <3> QED
      BY <3>1 DEF Sync, AllNew
  <2> QED
    BY <1>2, <2>1, <2>2, <2>3
<1> QED
  BY <1>11, <1>12, <1>13, <1>14, <1>15, <1>16, <1>17, <1>18, <1>19 DEF Sync, InOrder

LEMMA SyncRunQuery ==
  ASSUME TypeOK, NodesStay, Sync, RunQuery
  PROVE  Sync'
<1> USE DEF core, proto, panel
<1>1. /\ UNCHANGED <<core, known, ipc, subs, cmds, panel>> /\ conn = "open" /\ known
      /\ todo # <<>> /\ tcp' = tcp \o Records(Head(todo)) /\ todo' = Tail(todo)
  BY DEF RunQuery, SendRecords, Sync, Sessions
<1>2. PICK q \in Query : q = todo[1]
  BY <1>1 DEF TypeOK
<1>3. /\ Head(todo) = q /\ Len(todo) \in Nat /\ Len(todo) >= 1 /\ Len(todo') = Len(todo) - 1
      /\ \A j \in 1 .. Len(todo') : j + 1 \in 1 .. Len(todo) /\ todo'[j] = todo[j + 1]
  BY <1>1, <1>2, TailFacts DEF TypeOK
<1>4. q.op # "DEL" /\ q.kind \in subs
  BY <1>2, <1>3 DEF Sync, NothingGoes, Subscribed
<1>5. PICK out \in Seq(Message) : out = Records(q)
  BY RecordsFacts
<1>6. tcp' = tcp \o out
  BY <1>1, <1>3, <1>5
<1>7. /\ \A i \in 1 .. Len(out) :
           /\ out[i].op = q.op
           /\ \A k \in Key : Covers(out[i], k) =>
                /\ k[1] = q.kind /\ k[2] \in q.nodes /\ k[2] \in online
                /\ out[i].image[k[2]] = stored[k]
      /\ \A k \in Key : k[1] = q.kind /\ k[2] \in q.nodes /\ k[2] \in online =>
           1 \in 1 .. Len(out) /\ Covers(out[1], k)
  BY <1>4, <1>5, FoundFacts, RecordsFacts
<1>8. ASSUME NEW i \in 1 .. Len(out), NEW k \in Key, Brings(out[i], "CHG", k)
      PROVE  AddedBy(Len(tcp), k)
  <2>1. Asks(todo[1], "CHG", k) /\ 1 \in 1 .. Len(todo)
    BY <1>2, <1>3, <1>7, <1>8 DEF Brings, Asks
  <2>2. AskedBy(1 - 1, k)
    BY <2>1 DEF Sync, InOrder, QueriesInOrder
  <2> QED
    BY <2>2 DEF AskedBy
<1>9. ASSUME NEW k \in Key, Asks(q, "ADD", k), k[2] \in online PROVE AddedBy(Len(tcp), k)'
  <2>1. 1 \in 1 .. Len(out) /\ Brings(out[1], "ADD", k)
    BY <1>7, <1>9 DEF Asks, Brings
  <2>2. Len(tcp) + 1 \in 1 .. Len(tcp') /\ tcp'[Len(tcp) + 1] = out[1]
    BY <1>6, <2>1, JoinFacts DEF TypeOK
  <2> QED
    BY <2>1, <2>2 DEF AddedBy, Brings, Covers
<1>10. ASSUME NEW j \in 1 .. Len(todo), NEW k \in Key, AskedBy(j, k)
       PROVE  AskedBy(j - 1, k)'
  <2>1. CASE AddedBy(Len(tcp), k)
    BY <1>1, <1>6, <2>1, StillAdded DEF AskedBy
  <2>2. CASE ~AddedBy(Len(tcp), k)
    <3>1. k[2] \in online
      BY <1>10, <2>2 DEF AskedBy
    <3>2. PICK h \in 1 .. j : Asks(todo[h], "ADD", k)
      BY <1>10, <2>2 DEF AskedBy
    <3>3. CASE h = 1
      BY <1>2, <1>9, <3>1, <3>2, <3>3 DEF AskedBy
    <3>4. CASE h # 1
      <4>1. h - 1 \in 1 .. j - 1 /\ h - 1 \in 1 .. Len(todo') /\ (h - 1) + 1 = h
        BY <1>3, <3>2, <3>4
      <4>2. todo'[h - 1] = todo[h]
        BY <1>3, <4>1
      <4> QED
        BY <1>1, <3>1, <3>2, <4>1, <4>2 DEF AskedBy, Asks
    <3> QED
      BY <3>3, <3>4
  <2> QED
    BY <2>1, <2>2
<1>11. \A k \in Key : Coming(k) => Coming(k)'
  <2> TAKE k \in Key
  <2> HAVE Coming(k)
  <2>1. PICK j \in 1 .. Len(todo) : j = Len(todo)
    BY <1>3
  <2>2. AskedBy(j - 1, k)'
    BY <1>10, <2>1 DEF Coming
  <2> QED
    BY <1>3, <2>1, <2>2 DEF Coming
<1>12. QueriesInOrder'
  <2> SUFFICES ASSUME NEW j \in 1 .. Len(todo'), NEW k \in Key, Asks(todo'[j], "CHG", k)
               PROVE  AskedBy(j - 1, k)'
    BY DEF QueriesInOrder, Asks
  <2>1. j + 1 \in 1 .. Len(todo) /\ todo'[j] = todo[j + 1] /\ (j + 1) - 1 = j
        /\ j \in 1 .. Len(todo)
    BY <1>3
  <2>2. AskedBy((j + 1) - 1, k)
    BY <2>1 DEF Sync, InOrder, QueriesInOrder
  <2> QED
    BY <1>10, <2>1, <2>2
<1>13. ASSUME NEW k \in Key, NEW j \in 1 .. Len(todo), Asks(todo[j], "CHG", k), k[2] \in online
       PROVE  \/ \E h \in 1 .. Len(todo') : Asks(todo'[h], "CHG", k)
              \/ \E i \in 1 .. Len(out) : Brings(out[i], "CHG", k)
  <2>1. CASE j = 1
    BY <1>2, <1>7, <1>13, <2>1 DEF Asks, Brings
  <2>2. CASE j # 1
    <3>1. j - 1 \in 1 .. Len(todo') /\ (j - 1) + 1 = j
      BY <1>3, <2>2
    <3>2. todo'[j - 1] = todo[j]
      BY <1>3, <3>1
    <3> QED
      BY <1>13, <3>1, <3>2
  <2> QED
    BY <2>1, <2>2
<1>14. \A j \in 1 .. Len(todo') : todo'[j].op # "DEL" /\ todo'[j].kind \in subs
  BY <1>3 DEF Sync, NothingGoes, Subscribed
<1>15. \A d \in Kind : d \in subs \/ \E i \in 1 .. Len(cmds') : cmds'[i] = d
  BY <1>1 DEF Sync, Subscribed
<1>16. \A i \in 1 .. Len(out) : \A k \in Key : Covers(out[i], k) =>
         k[1] \in subs /\ k[2] \in online /\ out[i].image[k[2]] = stored[k]
  BY <1>4, <1>7
<1>17. \A i \in 1 .. Len(out) : out[i].op # "DEL"
  BY <1>4, <1>7
<1>18. \A k \in Key : (\E j \in 1 .. Len(todo) : Asks(todo[j], "CHG", k)) /\ k[2] \in online =>
         \/ \E j \in 1 .. Len(todo') : Asks(todo'[j], "CHG", k)
         \/ \E i \in 1 .. Len(out) : Brings(out[i], "CHG", k)
  BY <1>13
<1>19. \A i \in 1 .. Len(out) : \A k \in Key : Brings(out[i], "CHG", k) => AddedBy(Len(tcp), k)
  BY <1>8
<1> QED
  BY <1>1, <1>6, <1>11, <1>12, <1>14, <1>15, <1>16, <1>17, <1>18, <1>19, SyncWritten

-----------------------------------------------------------------------------
(* The panel's steps.                                                      *)

LEMMA SyncConnect ==
  ASSUME TypeOK, Sync, Connect
  PROVE  Sync'
<1> USE DEF core, proto, panel
<1>1. /\ UNCHANGED <<core, proto, tcp, replica, null>> /\ conn = "closed" /\ conn' = "open"
      /\ cmds' = <<"DST", "NODE", "SRC", "PING">>
  BY DEF Connect
<1>2. /\ ~known /\ ipc = <<>> /\ subs = {} /\ todo = <<>> /\ tcp = <<>>
      /\ \A k \in Key : replica[k] = Absent
  BY <1>1 DEF Sync, Sessions
<1>3. NothingGoes' /\ Sessions' /\ NoNull'
  BY <1>1, <1>2 DEF Sync, NothingGoes, Sessions, NoNull
<1>4. Subscribed'
  <2>1. ASSUME NEW d \in Kind PROVE \E i \in 1 .. Len(cmds') : cmds'[i] = d
    <3>1. /\ 1 \in 1 .. Len(cmds') /\ 2 \in 1 .. Len(cmds') /\ 3 \in 1 .. Len(cmds')
          /\ cmds'[1] = "DST" /\ cmds'[2] = "NODE" /\ cmds'[3] = "SRC"
      BY <1>1
    <3> QED
      BY <3>1 DEF Kind
  <2> QED
    BY <1>1, <1>2, <2>1 DEF Subscribed
<1>5. NothingElse' /\ RecordsInOrder'
  BY <1>1, <1>2 DEF NothingElse, RecordsInOrder
<1>6. QueriesInOrder' /\ NoticesInOrder'
  BY <1>1, <1>2 DEF QueriesInOrder, NoticesInOrder
<1>7. AllComing' /\ AllNew'
  BY <1>1, <1>2 DEF AllComing, AllNew
<1> QED
  BY <1>3, <1>4, <1>5, <1>6, <1>7 DEF Sync, InOrder

\* A lost connection takes along all that was under way.
LEMMA SyncEnded ==
  ASSUME TypeOK, Sync, UNCHANGED <<online, stored, pending>>, SessionOver,
         conn' \in {"closed", "broken"}, null' = {},
         \A k \in Key : replica'[k] \in {replica[k], Absent},
         conn' = "closed" => \A k \in Key : replica'[k] = Absent
  PROVE  Sync'
<1>1. ~known' /\ ipc' = <<>> /\ subs' = {} /\ todo' = <<>> /\ tcp' = <<>>
  BY DEF SessionOver
<1>2. NothingGoes' /\ Sessions' /\ NoNull'
  BY <1>1 DEF Sync, NothingGoes, Sessions, NoNull
<1>3. Subscribed' /\ NothingElse' /\ RecordsInOrder'
  BY <1>1 DEF Sync, Subscribed, NothingElse, RecordsInOrder
<1>4. QueriesInOrder' /\ NoticesInOrder' /\ AllComing' /\ AllNew'
  BY <1>1 DEF QueriesInOrder, NoticesInOrder, AllComing, AllNew
<1> QED
  BY <1>2, <1>3, <1>4 DEF Sync, InOrder

\* The panel reads a record: a new row for an entry it lacks, or a change for
\* one it has.
Applies(m, k) == \/ Brings(m, "ADD", k) /\ replica[k] = Absent
                 \/ Brings(m, "CHG", k) /\ replica[k] # Absent

LEMMA SyncTaken ==
  ASSUME TypeOK, Aged, Sync, conn = "open", tcp # <<>>, tcp' = Tail(tcp), null' = {},
         UNCHANGED <<online, stored, pending, known, ipc, subs, todo, cmds, conn>>,
         \A k \in Key : replica'[k] = IF Applies(tcp[1], k) THEN tcp[1].image[k[2]]
                                                            ELSE replica[k]
  PROVE  Sync'
<1>1. PICK n \in Nat : n = Len(tcp)
  <2>1. tcp \in Seq(Message)
    BY DEF TypeOK
  <2> QED
    BY <2>1
<1>2. /\ n >= 1 /\ Len(tcp') = n - 1 /\ 1 \in 1 .. n
      /\ \A i \in 1 .. n - 1 : i + 1 \in 1 .. n /\ tcp'[i] = tcp[i + 1]
      /\ \A i \in 1 .. n : i # 1 => i - 1 \in 1 .. n - 1 /\ tcp'[i - 1] = tcp[i]
  <2>1. /\ n >= 1 /\ Len(tcp') = n - 1
        /\ \A i \in 1 .. n - 1 : i + 1 \in 1 .. n /\ tcp'[i] = tcp[i + 1]
    BY <1>1, TailFacts DEF TypeOK
  <2>2. ASSUME NEW i \in 1 .. n, i # 1
        PROVE  i - 1 \in 1 .. n - 1 /\ tcp'[i - 1] = tcp[i]
    <3>1. i - 1 \in 1 .. n - 1 /\ (i - 1) + 1 = i
      BY <2>1, <2>2
    <3> QED
      BY <2>1, <3>1
  <2> QED
    BY <2>1, <2>2
<1>3. ASSUME NEW k \in Key, Applies(tcp[1], k)
      PROVE  Covers(tcp[1], k) /\ replica'[k] = tcp[1].image[k[2]] /\ replica'[k] # Absent
  BY <1>3 DEF Applies, Brings, Covers
<1>4. ASSUME NEW k \in Key, NEW i \in 1 .. n, AddedBy(i, k) PROVE AddedBy(i - 1, k)'
  <2>1. CASE replica'[k] # Absent
    BY <2>1 DEF AddedBy
  <2>2. CASE replica'[k] = Absent
    <3>1. replica[k] = Absent /\ ~Applies(tcp[1], k)
      BY <1>3, <2>2
    <3>2. PICK h \in 1 .. i : Brings(tcp[h], "ADD", k)
      BY <1>4, <3>1 DEF AddedBy
    <3>3. h # 1
      BY <3>1, <3>2 DEF Applies
    <3>4. h \in 1 .. n /\ h - 1 \in 1 .. i - 1
      BY <1>2, <3>2, <3>3
    <3>5. tcp'[h - 1] = tcp[h]
      BY <1>2, <3>3, <3>4
    <3> QED
      BY <3>2, <3>4, <3>5 DEF AddedBy, Brings, Covers
  <2> QED
    BY <2>1, <2>2
<1>5. ASSUME NEW j, NEW k \in Key, AskedBy(j, k) PROVE AskedBy(j, k)'
  <2>1. CASE AddedBy(n, k)
    <3>1. AddedBy(n - 1, k)'
      BY <1>2, <1>4, <2>1
    <3> QED
      BY <1>2, <3>1 DEF AskedBy
  <2>2. CASE ~AddedBy(n, k)
    BY <1>1, <1>5, <2>2 DEF AskedBy, Asks
  <2> QED
    BY <2>1, <2>2
<1>6. \A k \in Key : Coming(k) => Coming(k)'
  BY <1>5 DEF Coming
<1>7. NothingGoes'
  <2>1. \A i \in 1 .. Len(tcp') : tcp'[i].op # "DEL"
    BY <1>1, <1>2 DEF Sync, NothingGoes
  <2> QED
    BY <2>1 DEF Sync, NothingGoes
<1>8. Sessions' /\ NoNull'
  BY DEF Sync, Sessions, NoNull
<1>9. Subscribed'
  <2>1. ASSUME NEW k \in Key, k[1] \notin subs
        PROVE  replica'[k] = Absent /\ \A i \in 1 .. Len(tcp') : ~Covers(tcp'[i], k)
    <3>1. replica[k] = Absent /\ \A i \in 1 .. n : ~Covers(tcp[i], k)
      BY <1>1, <2>1 DEF Sync, Subscribed
    <3> QED
      BY <1>2, <1>3, <3>1
  <2> QED
    BY <2>1 DEF Sync, Subscribed, Covers
<1>10. NothingElse'
  <2>1. ASSUME NEW k \in Key
        PROVE  /\ replica'[k] # Absent => k[2] \in online
               /\ \A i \in 1 .. Len(tcp') : Covers(tcp'[i], k) => k[2] \in online
    <3>1. /\ replica[k] # Absent => k[2] \in online
          /\ \A i \in 1 .. n : Covers(tcp[i], k) => k[2] \in online
      BY <1>1 DEF Sync, NothingElse
    <3> QED
      BY <1>2, <1>3, <3>1
  <2> QED
    BY <2>1 DEF NothingElse, Covers
<1>11. RecordsInOrder'
  <2> SUFFICES ASSUME NEW i \in 1 .. Len(tcp'), NEW k \in Key, Brings(tcp'[i], "CHG", k)
               PROVE  AddedBy(i - 1, k)'
    BY DEF RecordsInOrder, Brings, Covers
  <2>1. i \in 1 .. n /\ i + 1 \in 1 .. n /\ tcp'[i] = tcp[i + 1] /\ (i + 1) - 1 = i
    BY <1>2
  <2>2. AddedBy((i + 1) - 1, k)
    BY <1>1, <2>1 DEF Sync, InOrder, RecordsInOrder
  <2> QED
    BY <1>4, <2>1, <2>2
<1>12. QueriesInOrder'
  BY <1>5 DEF Sync, InOrder, QueriesInOrder, Asks
<1>13. NoticesInOrder'
  BY <1>6 DEF Sync, InOrder, NoticesInOrder, Of, AnnouncedBy, New
<1>14. AllComing'
  BY <1>6 DEF Sync, AllComing, AnnouncedBy, New
<1>15. AllNew'
  <2> SUFFICES ASSUME NEW k \in Key, k[1] \in subs, k[2] \in online
               PROVE  \/ replica'[k] = stored[k]
                      \/ \E i \in 1 .. Len(tcp') : Brings(tcp'[i], "CHG", k)
                                                  /\ tcp'[i].image[k[2]] = stored[k]
                      \/ \E j \in 1 .. Len(todo) : Asks(todo[j], "CHG", k)
                      \/ \E j \in 1 .. Len(ipc) : Of(ipc[j], k)
                      \/ pending # <<>> /\ Of(pending[1], k)
                      \/ /\ replica'[k] = Absent
                         /\ \A i \in 1 .. Len(tcp') :
                              Brings(tcp'[i], "ADD", k) => tcp'[i].image[k[2]] = stored[k]
    BY DEF AllNew, Brings, Covers, Asks, Of
  <2>1. /\ stored[k] \in Nat /\ stored[k] # Absent
        /\ Covers(tcp[1], k) =>
             /\ tcp[1].image[k[2]] \in Nat
             /\ replica[k] <= tcp[1].image[k[2]] /\ tcp[1].image[k[2]] <= stored[k]
    <3>1. stored[k] \in Nat /\ stored[k] # Absent
      BY DEF TypeOK, Version, Absent
    <3>2. tcp[1] \in Message
      BY <1>1, <1>2 DEF TypeOK
    <3>3. tcp[1].image[k[2]] \in Nat
      BY <3>2, MessageFacts
    <3> QED
      BY <1>1, <1>2, <3>1, <3>3 DEF Aged, Between
  <2>2. ASSUME replica[k] = stored[k] PROVE replica'[k] = stored[k]
    BY <1>3, <2>1, <2>2
  <2>3. ASSUME NEW i \in 1 .. n, Brings(tcp[i], "CHG", k), tcp[i].image[k[2]] = stored[k]
        PROVE  \/ replica'[k] = stored[k]
               \/ \E h \in 1 .. Len(tcp') : Brings(tcp'[h], "CHG", k)
                                           /\ tcp'[h].image[k[2]] = stored[k]
    <3>1. CASE i = 1
      <4>1. AddedBy(1 - 1, k)
        BY <1>1, <1>2, <2>3, <3>1 DEF Sync, InOrder, RecordsInOrder
      <4>2. replica[k] # Absent
        BY <4>1 DEF AddedBy
      <4> QED
        BY <2>3, <3>1, <4>2 DEF Applies
    <3>2. CASE i # 1
      <4>1. i - 1 \in 1 .. Len(tcp') /\ tcp'[i - 1] = tcp[i]
        BY <1>2, <3>2
      <4> QED
        BY <2>3, <4>1
    <3> QED
      BY <3>1, <3>2
  <2>4. ASSUME replica[k] = Absent,
               \A i \in 1 .. n : Brings(tcp[i], "ADD", k) => tcp[i].image[k[2]] = stored[k]
        PROVE  \/ replica'[k] = stored[k]
               \/ /\ replica'[k] = Absent
                  /\ \A i \in 1 .. Len(tcp') :
                       Brings(tcp'[i], "ADD", k) => tcp'[i].image[k[2]] = stored[k]
    <3>1. CASE Brings(tcp[1], "ADD", k)
      BY <1>2, <2>4, <3>1 DEF Applies
    <3>2. CASE ~Brings(tcp[1], "ADD", k)
      BY <1>2, <2>4, <3>2 DEF Applies
    <3> QED
      BY <3>1, <3>2
  <2>5. \/ replica[k] = stored[k]
        \/ \E i \in 1 .. n : Brings(tcp[i], "CHG", k) /\ tcp[i].image[k[2]] = stored[k]
        \/ \E j \in 1 .. Len(todo) : Asks(todo[j], "CHG", k)
        \/ \E j \in 1 .. Len(ipc) : Of(ipc[j], k)
        \/ pending # <<>> /\ Of(pending[1], k)
        \/ /\ replica[k] = Absent
           /\ \A i \in 1 .. n : Brings(tcp[i], "ADD", k) => tcp[i].image[k[2]] = stored[k]
    BY <1>1 DEF Sync, AllNew
  <2> QED
    BY <2>2, <2>3, <2>4, <2>5
<1> QED
  BY <1>7, <1>8, <1>9, <1>10, <1>11, <1>12, <1>13, <1>14, <1>15 DEF Sync, InOrder

LEMMA SyncReceive ==
  ASSUME TypeOK, Aged, Sync, ReceivePong \/ ReceiveAdd \/ ReceiveChange \/ ReceiveDelete
  PROVE  Sync'
<1> USE DEF core, proto, panel
<1>1. PICK m \in Message : m = tcp[1] /\ m = Head(tcp)
  BY TailFacts DEF TypeOK, ReceivePong, ReceiveAdd, ReceiveChange, ReceiveDelete, Receive
<1>2. /\ conn = "open" /\ tcp # <<>> /\ tcp' = Tail(tcp) /\ null = {}
      /\ UNCHANGED <<online, stored, pending, known, ipc, subs, todo, cmds>>
      /\ m.op # "DEL"
  <2>1. /\ conn = "open" /\ tcp # <<>> /\ tcp' = Tail(tcp)
        /\ UNCHANGED <<online, stored, pending, known, ipc, subs, todo, cmds>>
    BY DEF ReceivePong, ReceiveAdd, ReceiveChange, ReceiveDelete, Receive
  <2>2. 1 \in 1 .. Len(tcp)
    BY <2>1, TailFacts DEF TypeOK
  <2> QED
    BY <1>1, <2>1, <2>2 DEF Sync, NothingGoes, NoNull
<1>3. CASE ReceivePong
  <2>1. m.op = "PONG" /\ UNCHANGED <<conn, replica, null>>
    BY <1>1, <1>3 DEF ReceivePong, Receive
  <2>2. \A k \in Key : ~Applies(tcp[1], k)
    BY <1>1, <2>1 DEF Applies, Brings
  <2> QED
    BY <1>2, <2>1, <2>2, SyncTaken
<1>4. CASE ReceiveAdd
  <2>1. m.op = "ADD" /\ UNCHANGED conn /\ null' = {}
        /\ \A k \in Key : replica'[k] = IF Covers(m, k) /\ replica[k] = Absent
                                          THEN m.image[k[2]] ELSE replica[k]
    BY <1>1, <1>2, <1>4 DEF ReceiveAdd, Receive
  <2>2. \A k \in Key : Applies(tcp[1], k) <=> Covers(m, k) /\ replica[k] = Absent
    BY <1>1, <2>1 DEF Applies, Brings
  <2> QED
    BY <1>1, <1>2, <2>1, <2>2, SyncTaken
<1>5. CASE ReceiveChange
  <2>1. m.op = "CHG" /\ UNCHANGED conn /\ null' = Missing(m)
        /\ \A k \in Key : replica'[k] = IF Covers(m, k) /\ replica[k] # Absent
                                          THEN m.image[k[2]] ELSE replica[k]
    BY <1>1, <1>2, <1>5 DEF ReceiveChange, Receive
  <2>2. \A k \in Key : Applies(tcp[1], k) <=> Covers(m, k) /\ replica[k] # Absent
    BY <1>1, <2>1 DEF Applies, Brings
  <2>3. Missing(m) = {}
    <3> SUFFICES ASSUME NEW k \in Key, Covers(m, k) PROVE replica[k] # Absent
      BY DEF Missing
    <3>1. Brings(tcp[1], "CHG", k) /\ 1 \in 1 .. Len(tcp)
      BY <1>1, <1>2, <2>1, TailFacts DEF Brings, TypeOK
    <3>2. AddedBy(1 - 1, k)
      BY <3>1 DEF Sync, InOrder, RecordsInOrder
    <3> QED
      BY <3>2 DEF AddedBy
  <2> QED
    BY <1>1, <1>2, <2>1, <2>2, <2>3, SyncTaken
<1>6. CASE ReceiveDelete
  BY <1>1, <1>2, <1>6 DEF ReceiveDelete, Receive
<1> QED
  BY <1>3, <1>4, <1>5, <1>6

LEMMA SyncStep ==
  ASSUME TypeOK, NodesStay, Aged, Sync, [Next]_vars
  PROVE  Sync'
<1> USE DEF core, proto, panel
<1>1. ASSUME NEW n \in Node, NodeConnected(n) PROVE Sync'
  BY <1>1, SyncNodeConnected
<1>2. ASSUME NEW n \in Node, NodeDisconnected(n) PROVE FALSE
  BY <1>2 DEF NodeDisconnected, TypeOK, NodesStay
<1>3. ASSUME NEW n \in Node, NEW d \in {"SRC", "DST"}, SlotChanged(n, d) PROVE Sync'
  BY <1>3, SyncSlotChanged
<1>4. CASE NotifyProtocols \/ AcceptIpc
  BY <1>4, SyncNotifyProtocols, SyncAcceptIpc
<1>5. ASSUME NEW d \in Kind, Subscribe(d) PROVE Sync'
  BY <1>5, SyncSubscribe
<1>6. CASE Ping \/ ProcessIpcCommand \/ RunQuery
  BY <1>6, SyncPing, SyncProcessIpcCommand, SyncRunQuery
<1>7. CASE Connect
  BY <1>7, SyncConnect
<1>8. CASE ReceivePong \/ ReceiveAdd \/ ReceiveChange \/ ReceiveDelete
  BY <1>8, SyncReceive
<1>9. CASE Break
  <2>1. /\ UNCHANGED <<online, stored, pending, replica, null>> /\ SessionOver
        /\ conn' = "broken" /\ null = {}
    BY <1>9 DEF Break, Sync, NoNull
  <2> QED
    BY <2>1, SyncEnded
<1>10. CASE WatchdogTimeout
  <2>1. /\ UNCHANGED <<online, stored, pending>> /\ SessionOver
        /\ conn' = "closed" /\ null' = {} /\ \A k \in Key : replica'[k] = Absent
    BY <1>10 DEF WatchdogTimeout
  <2> QED
    BY <2>1, SyncEnded
<1>11. CASE UNCHANGED vars
  BY <1>11 DEF vars, Sync, NothingGoes, Sessions, Subscribed, NothingElse, NoNull, InOrder,
     RecordsInOrder, QueriesInOrder, NoticesInOrder, AllComing, AllNew, Coming, AskedBy,
     AddedBy, AnnouncedBy, Brings, Covers, Asks, Of, New
<1> QED
  BY <1>1, <1>2, <1>3, <1>4, <1>5, <1>6, <1>7, <1>8, <1>9, <1>10, <1>11
     DEF Next, CoreStep, ProtocolStep, PanelStep

LEMMA InSync == ASSUME NodesStay PROVE Spec => [](TypeOK /\ Sync)
<1>1. Init => Sync
  BY SyncInit
<1>2. NodesStay /\ IInv /\ Sync /\ [Next]_vars => Sync'
  BY SyncStep DEF IInv, Aged
<1>3. IInv => TypeOK
  BY DEF IInv
<1> QED
  BY <1>1, <1>2, <1>3, Invariant, PTL DEF Spec

-----------------------------------------------------------------------------
(* The theorems.                                                           *)

\* While nodes only come, what a quiet panel shows is what the tables hold,
\* although notifications carry no data and a new node is announced twice.
THEOREM PanelConverges == ASSUME NodesStay PROVE Spec => []Converged
<1>1. TypeOK /\ Sync => Converged
  <2> SUFFICES ASSUME TypeOK, Sync, Quiescent PROVE replica = Table
    BY DEF Converged
  <2>1. /\ Len(tcp) = 0 /\ Len(todo) = 0 /\ Len(ipc) = 0 /\ Len(cmds) = 0 /\ pending = <<>>
        /\ conn = "open"
    BY DEF Quiescent
  <2>2. \A d \in Kind : d \in subs
    BY <2>1 DEF Sync, Subscribed
  <2>3. ASSUME NEW k \in Key, k[2] \in online PROVE replica[k] = stored[k]
    <3>1. k[1] \in subs
      BY <2>2, KeyFacts
    <3>2. Coming(k)
      BY <2>1, <2>3, <3>1 DEF Sync, AllComing, AnnouncedBy
    <3>3. replica[k] # Absent
      BY <2>1, <3>2 DEF Coming, AskedBy, AddedBy
    <3> QED
      BY <2>1, <2>3, <3>1, <3>3 DEF Sync, AllNew
  <2>4. \A k \in Key : k[2] \notin online => replica[k] = Absent
    BY DEF Sync, NothingElse
  <2>5. \A k \in Key : replica[k] = Table[k]
    BY <2>3, <2>4 DEF Table
  <2>6. replica = [k \in Key |-> replica[k]] /\ Table = [k \in Key |-> Table[k]]
    BY DEF TypeOK, Table
  <2> HIDE DEF Table
  <2> QED
    BY <2>5, <2>6
<1> QED
  BY <1>1, InSync, PTL

\* While nodes only come, no record for a change meets a panel without the
\* entry, so that DParser never falls over a NULL.
THEOREM PanelStands == ASSUME NodesStay PROVE Spec => []NeverCrashes
<1>1. Sync => NeverCrashes
  BY DEF Sync, Sessions, NeverCrashes
<1> QED
  BY <1>1, InSync, PTL

-----------------------------------------------------------------------------
(***************************************************************************)
(* However often nodes leave and return, a panel that is quiet lacks no    *)
(* row of the tables, for any numbers of nodes, versions, departures and   *)
(* lost connections.  It may show rows that are gone (Replica, Converged). *)
(***************************************************************************)

\* The core knows a protocol process before it serves.
KnownFirst == ~LateAccept

-----------------------------------------------------------------------------
(* The inductive invariant: behind everything that takes an entry away     *)
(* comes something that brings it back.                                    *)

Has(s, Q) == \E i \in 1 .. Len(s) : s[i] \in Q

\* A member of P has no member of Q behind it.
Last(s, P, Q) == \E i \in 1 .. Len(s) :
  s[i] \in P /\ \A h \in 1 .. Len(s) : h > i => s[h] \notin Q

Gone(n) == [type |-> "NODEDEL", node |-> n]

AddQueries(k) == {q \in Query : Asks(q, "ADD", k)}
DelQueries(k) == {q \in Query : q.op = "DEL" /\ k[2] \in q.nodes}
AddRecords(k) == {m \in Message : Brings(m, "ADD", k)}
DelRecords(k) == {m \in Message : Brings(m, "DEL", k)}

Announced(n) == \/ pending # <<>> /\ pending[1] = New(n)
                \/ Last(ipc, {New(n)}, {Gone(n)})

Asked(k) == Last(todo, AddQueries(k), DelQueries(k))

\* The entry is there and stays, or comes and stays.
Held(k) == \/ replica[k] # Absent /\ ~Has(tcp, DelRecords(k))
           \/ Last(tcp, AddRecords(k), DelRecords(k))

Wanted(k) == k[1] \in subs /\ k[2] \in online

OneAtATime == pending # <<>> => Len(pending) = 1 /\ pending[1].type # "NODEDEL"

Unserved == ~known => ipc = <<>> /\ subs = {}

Listed == conn = "open" =>
  \A d \in Kind : d \in subs \/ \E i \in 1 .. Len(cmds) : cmds[i] = d

Returns == \A n \in Node : n \in online /\ Has(ipc, {Gone(n)}) => Announced(n)

AskedAgain == \A k \in Key :
  Wanted(k) /\ Has(todo, DelQueries(k)) => Asked(k) \/ Announced(k[2])

Kept == \A k \in Key : Wanted(k) => Held(k) \/ Asked(k) \/ Announced(k[2])

Lasting == OneAtATime /\ Unserved /\ Listed /\ Returns /\ AskedAgain /\ Kept

-----------------------------------------------------------------------------
(* What is last in a sequence.                                             *)

\* When the first member is taken.
LEMMA TailLast ==
  ASSUME NEW S, NEW s \in Seq(S), s # <<>>, NEW P, NEW Q
  PROVE  /\ Has(Tail(s), Q) => Has(s, Q)
         /\ s[1] \in Q => Has(s, Q)
         /\ Last(s, P, Q) => Last(Tail(s), P, Q) \/ (s[1] \in P /\ ~Has(Tail(s), Q))
<1>1. PICK t \in Seq(S) : t = Tail(s)
  BY TailFacts
<1>2. PICK n \in Nat : n = Len(s)
  OBVIOUS
<1>3. /\ n >= 1 /\ Len(t) = n - 1
      /\ \A i \in 1 .. n - 1 : i + 1 \in 1 .. n /\ t[i] = s[i + 1]
  BY <1>1, <1>2, TailFacts
<1>4. ASSUME NEW i \in 1 .. n, i # 1 PROVE i - 1 \in 1 .. n - 1 /\ t[i - 1] = s[i]
  <2>1. i - 1 \in 1 .. n - 1 /\ (i - 1) + 1 = i
    BY <1>3, <1>4
  <2> QED
    BY <1>3, <2>1
<1>5. Has(t, Q) => Has(s, Q)
  BY <1>2, <1>3 DEF Has
<1>6. s[1] \in Q => Has(s, Q)
  BY <1>2, <1>3 DEF Has
<1>7. ASSUME Last(s, P, Q) PROVE Last(t, P, Q) \/ (s[1] \in P /\ ~Has(t, Q))
  <2>1. PICK i \in 1 .. n : s[i] \in P /\ \A h \in 1 .. n : h > i => s[h] \notin Q
    BY <1>2, <1>7 DEF Last
  <2>2. \A h \in 1 .. n - 1 : h + 1 > i => t[h] \notin Q
    BY <1>3, <2>1
  <2>3. CASE i = 1
    <3>1. \A h \in 1 .. n - 1 : h + 1 > i
      BY <2>3
    <3>2. \A h \in 1 .. n - 1 : t[h] \notin Q
      BY <2>2, <3>1
    <3>3. s[1] \in P
      BY <2>1, <2>3
    <3> QED
      BY <1>3, <3>2, <3>3 DEF Has
  <2>4. CASE i # 1
    <3>1. PICK g \in 1 .. Len(t) : g = i - 1 /\ t[g] \in P
      BY <1>3, <1>4, <2>1, <2>4
    <3>2. \A h \in 1 .. Len(t) : h > g => h + 1 > i
      BY <1>3, <2>1, <3>1
    <3>3. \A h \in 1 .. Len(t) : h > g => t[h] \notin Q
      BY <1>3, <2>2, <3>2
    <3> QED
      BY <3>1, <3>3 DEF Last
  <2> QED
    BY <2>3, <2>4
<1> QED
  BY <1>1, <1>5, <1>6, <1>7

\* When more is written behind it.
LEMMA JoinLast ==
  ASSUME NEW S, NEW s \in Seq(S), NEW t \in Seq(S), NEW P, NEW Q
  PROVE  /\ Has(s \o t, Q) <=> Has(s, Q) \/ Has(t, Q)
         /\ Last(s, P, Q) /\ ~Has(t, Q) => Last(s \o t, P, Q)
         /\ Last(t, P, Q) => Last(s \o t, P, Q)
<1>1. PICK u \in Seq(S) : u = s \o t
  BY ConcatFacts
<1>2. PICK a \in Nat : a = Len(s)
  OBVIOUS
<1>3. PICK b \in Nat : b = Len(t)
  OBVIOUS
<1>4. /\ Len(u) = a + b
      /\ \A i \in 1 .. a : i \in 1 .. Len(u) /\ u[i] = s[i]
      /\ \A i \in 1 .. b : a + i \in 1 .. Len(u) /\ u[a + i] = t[i]
      /\ \A i \in 1 .. Len(u) : \/ i \in 1 .. a /\ u[i] = s[i]
                                \/ i > a /\ i - a \in 1 .. b /\ u[i] = t[i - a]
  BY <1>1, <1>2, <1>3, JoinFacts
<1>5. Has(u, Q) <=> Has(s, Q) \/ Has(t, Q)
  BY <1>2, <1>3, <1>4 DEF Has
<1>6. ASSUME Last(s, P, Q), ~Has(t, Q) PROVE Last(u, P, Q)
  <2>1. PICK i \in 1 .. a : s[i] \in P /\ \A h \in 1 .. a : h > i => s[h] \notin Q
    BY <1>2, <1>6 DEF Last
  <2>2. \A h \in 1 .. b : t[h] \notin Q
    BY <1>3, <1>6 DEF Has
  <2>3. \A h \in 1 .. Len(u) : h > i => u[h] \notin Q
    BY <1>4, <2>1, <2>2
  <2> QED
    BY <1>4, <2>1, <2>3 DEF Last
<1>7. ASSUME Last(t, P, Q) PROVE Last(u, P, Q)
  <2>1. PICK i \in 1 .. b : t[i] \in P /\ \A h \in 1 .. b : h > i => t[h] \notin Q
    BY <1>3, <1>7 DEF Last
  <2>2. ASSUME NEW h \in 1 .. Len(u), h > a + i PROVE u[h] \notin Q
    <3>1. h - a \in 1 .. b /\ h - a > i /\ u[h] = t[h - a]
      BY <1>4, <2>1, <2>2
    <3> QED
      BY <2>1, <3>1
  <2> QED
    BY <1>4, <2>1, <2>2 DEF Last
<1> QED
  BY <1>1, <1>5, <1>6, <1>7

\* When one is appended.
LEMMA AppendLast ==
  ASSUME NEW S, NEW s \in Seq(S), NEW e \in S, NEW P, NEW Q
  PROVE  /\ Has(Append(s, e), Q) <=> Has(s, Q) \/ e \in Q
         /\ Last(s, P, Q) /\ e \notin Q => Last(Append(s, e), P, Q)
         /\ e \in P => Last(Append(s, e), P, Q)
<1>1. PICK u \in Seq(S) : u = Append(s, e)
  BY AppendFacts
<1>2. PICK n \in Nat : n = Len(s)
  OBVIOUS
<1>3. Len(u) = n + 1 /\ u[n + 1] = e /\ \A i \in 1 .. n : u[i] = s[i]
  BY <1>1, <1>2, AppendFacts
<1>4. Has(u, Q) <=> Has(s, Q) \/ e \in Q
  BY <1>2, <1>3 DEF Has
<1>5. ASSUME Last(s, P, Q), e \notin Q PROVE Last(u, P, Q)
  <2>1. PICK i \in 1 .. n : s[i] \in P /\ \A h \in 1 .. n : h > i => s[h] \notin Q
    BY <1>2, <1>5 DEF Last
  <2>2. \A h \in 1 .. n + 1 : h > i => u[h] \notin Q
    BY <1>3, <1>5, <2>1
  <2> QED
    BY <1>3, <2>1, <2>2 DEF Last
<1>6. ASSUME e \in P PROVE Last(u, P, Q)
  <2>1. n + 1 \in 1 .. Len(u) /\ \A h \in 1 .. Len(u) : ~(h > n + 1)
    BY <1>3
  <2> QED
    BY <1>3, <1>6, <2>1 DEF Last
<1> QED
  BY <1>1, <1>4, <1>5, <1>6

-----------------------------------------------------------------------------
(* The core's steps.                                                       *)

LEMMA LastingInit == Init => Lasting
BY DEF Init, Lasting, OneAtATime, Unserved, Listed, Returns, AskedAgain, Kept, Wanted, Has

\* Nothing but the way of the notifications changes.
LEMMA LastingNotices ==
  ASSUME Lasting, UNCHANGED <<todo, tcp, replica>>, OneAtATime', Unserved', Listed', Returns',
         \A k \in Key : Wanted(k)' => \/ Announced(k[2])'
                                      \/ Wanted(k) /\ (Announced(k[2]) => Announced(k[2])')
  PROVE  Lasting'
<1>1. ASSUME NEW k \in Key PROVE (Asked(k)' <=> Asked(k)) /\ (Held(k)' <=> Held(k))
  BY DEF Asked, Held
<1>2. AskedAgain'
  BY <1>1 DEF Lasting, AskedAgain
<1>3. Kept'
  BY <1>1 DEF Lasting, Kept
<1> QED
  BY <1>2, <1>3 DEF Lasting

LEMMA LastingNodeConnected ==
  ASSUME TypeOK, Lasting, NEW n \in Node, NodeConnected(n)
  PROVE  Lasting'
<1> USE DEF core, proto, panel
<1>1. /\ UNCHANGED <<proto, cmds, tcp, panel>> /\ online' = online \cup {n}
      /\ pending = <<>> /\ pending' = <<New(n)>>
  BY DEF NodeConnected, Idle, New
<1>2. pending' # <<>> /\ Len(pending') = 1 /\ pending'[1] = New(n)
  BY <1>1
<1>3. Announced(n)' /\ \A x \in Node : Announced(x) => Announced(x)'
  BY <1>1, <1>2 DEF Announced
<1>4. OneAtATime' /\ Unserved' /\ Listed'
  BY <1>1, <1>2 DEF Lasting, OneAtATime, Unserved, Listed, New
<1>5. Returns'
  BY <1>1, <1>3 DEF Lasting, Returns
<1>6. ASSUME NEW k \in Key, Wanted(k)'
      PROVE  Announced(k[2])' \/ (Wanted(k) /\ (Announced(k[2]) => Announced(k[2])'))
  BY <1>1, <1>3, <1>6, KeyFacts DEF Wanted
<1> QED
  BY <1>1, <1>4, <1>5, <1>6, LastingNotices

LEMMA LastingSlotChanged ==
  ASSUME TypeOK, Lasting, NEW n \in Node, NEW d \in {"SRC", "DST"}, SlotChanged(n, d)
  PROVE  Lasting'
<1> USE DEF core, proto, panel
<1> DEFINE x == [type |-> d, node |-> n]
<1>1. /\ UNCHANGED <<proto, cmds, tcp, panel>> /\ UNCHANGED online
      /\ pending = <<>> /\ pending' = <<x>>
  BY DEF SlotChanged, Idle
<1>2. Len(pending') = 1 /\ pending'[1].type # "NODEDEL"
  BY <1>1
<1> HIDE DEF x
<1>3. \A y \in Node : Announced(y) => Announced(y)'
  BY <1>1 DEF Announced
<1>4. OneAtATime' /\ Unserved' /\ Listed'
  BY <1>1, <1>2 DEF Lasting, OneAtATime, Unserved, Listed
<1>5. Returns'
  BY <1>1, <1>3 DEF Lasting, Returns
<1>6. \A k \in Key : Wanted(k)' => Wanted(k) /\ (Announced(k[2]) => Announced(k[2])')
  BY <1>1, <1>3, KeyFacts DEF Wanted
<1> QED
  BY <1>1, <1>4, <1>5, <1>6, LastingNotices

\* The rows of a node go; another node's way back does not change.
LEMMA LastingNodeDisconnected ==
  ASSUME TypeOK, Lasting, NEW n \in Node, NodeDisconnected(n)
  PROVE  Lasting'
<1> USE DEF core, proto, panel
<1>1. /\ UNCHANGED <<known, subs, todo, cmds, tcp, panel, pending>> /\ pending = <<>>
      /\ online' = online \ {n} /\ ipc' = IF known THEN Append(ipc, Gone(n)) ELSE ipc
  BY DEF NodeDisconnected, Send, Idle, Gone
<1>2. ASSUME NEW x \in Node, x # n
      PROVE  /\ Has(ipc', {Gone(x)}) => Has(ipc, {Gone(x)})
             /\ Announced(x) => Announced(x)'
  <2>1. Gone(n) \in Notice /\ Gone(n) \notin {Gone(x)}
    BY <1>2 DEF Gone, Notice
  <2>2. CASE known
    <3>1. ipc' = Append(ipc, Gone(n)) /\ ipc \in Seq(Notice)
      BY <1>1, <2>2 DEF TypeOK
    <3>2. /\ Has(ipc', {Gone(x)}) => Has(ipc, {Gone(x)})
          /\ Last(ipc, {New(x)}, {Gone(x)}) => Last(ipc', {New(x)}, {Gone(x)})
      BY <2>1, <3>1, AppendLast
    <3> QED
      BY <1>1, <3>2 DEF Announced
  <2>3. CASE ~known
    BY <1>1, <2>3 DEF Announced
  <2> QED
    BY <2>2, <2>3
<1>3. OneAtATime' /\ Unserved' /\ Listed'
  BY <1>1 DEF Lasting, OneAtATime, Unserved, Listed
<1>4. Returns'
  BY <1>1, <1>2 DEF Lasting, Returns
<1>5. \A k \in Key : Wanted(k)' => Wanted(k) /\ (Announced(k[2]) => Announced(k[2])')
  BY <1>1, <1>2, KeyFacts DEF Wanted
<1> QED
  BY <1>1, <1>3, <1>4, <1>5, LastingNotices

LEMMA LastingNotifyProtocols ==
  ASSUME TypeOK, Lasting, NotifyProtocols
  PROVE  Lasting'
<1> USE DEF core, proto, panel
<1>1. PICK x \in Notice : x = pending[1] /\ x = Head(pending)
  BY TailFacts DEF TypeOK, NotifyProtocols, Idle
<1>2. /\ UNCHANGED <<online, known, subs, todo, cmds, tcp, panel>>
      /\ pending # <<>> /\ x.type # "NODEDEL"
      /\ ipc' = IF known THEN Append(ipc, x) ELSE ipc
  BY <1>1 DEF NotifyProtocols, Send, Idle, Lasting, OneAtATime
<1>3. pending' = <<>>
  <2>1. pending \in Seq(Notice) /\ Len(pending) = 1 /\ pending' = Tail(pending)
    BY <1>2 DEF TypeOK, NotifyProtocols, Lasting, OneAtATime
  <2>2. pending' \in Seq(Notice) /\ Len(pending') = 0
    BY <1>2, <2>1, TailFacts
  <2> QED
    BY <2>2
<1>4. ASSUME NEW n \in Node, known
      PROVE  /\ Has(ipc', {Gone(n)}) => Has(ipc, {Gone(n)})
             /\ Announced(n) => Announced(n)'
  <2>1. ipc' = Append(ipc, x) /\ ipc \in Seq(Notice) /\ x \notin {Gone(n)}
    BY <1>2, <1>4 DEF TypeOK, Gone
  <2>2. /\ Has(ipc', {Gone(n)}) => Has(ipc, {Gone(n)})
        /\ Last(ipc, {New(n)}, {Gone(n)}) => Last(ipc', {New(n)}, {Gone(n)})
        /\ x \in {New(n)} => Last(ipc', {New(n)}, {Gone(n)})
    BY <2>1, AppendLast
  <2> QED
    BY <1>1, <2>2 DEF Announced
<1>5. OneAtATime' /\ Unserved' /\ Listed'
  BY <1>2, <1>3 DEF Lasting, OneAtATime, Unserved, Listed
<1>6. ~known => \A n : ~Has(ipc', {Gone(n)})
  BY <1>2 DEF Lasting, Unserved, Has
<1>7. Returns'
  BY <1>2, <1>4, <1>6 DEF Lasting, Returns
<1>8. \A k \in Key : Wanted(k)' => Wanted(k) /\ (Announced(k[2]) => Announced(k[2])')
  BY <1>2, <1>4, KeyFacts DEF Wanted, Lasting, Unserved
<1> QED
  BY <1>2, <1>5, <1>7, <1>8, LastingNotices

LEMMA LastingAcceptIpc ==
  ASSUME TypeOK, Lasting, AcceptIpc
  PROVE  Lasting'
<1> USE DEF core, proto, panel
<1>1. /\ UNCHANGED <<core, ipc, subs, todo, cmds, tcp, panel>> /\ known'
  BY DEF AcceptIpc
<1>2. \A n : Announced(n)' <=> Announced(n)
  BY <1>1 DEF Announced
<1>3. OneAtATime' /\ Unserved' /\ Listed' /\ Returns'
  BY <1>1, <1>2 DEF Lasting, OneAtATime, Unserved, Listed, Returns
<1>4. \A k \in Key : Wanted(k)' => Wanted(k) /\ (Announced(k[2]) => Announced(k[2])')
  BY <1>1, <1>2 DEF Wanted
<1> QED
  BY <1>1, <1>3, <1>4, LastingNotices

-----------------------------------------------------------------------------
(* The protocol process's steps.                                           *)

\* A command that is done leaves the others where they are.
LEMMA ListedStill ==
  ASSUME TypeOK, Lasting, UNCHANGED conn, cmds # <<>>, cmds' = Tail(cmds), subs \subseteq subs',
         cmds[1] \in Kind => cmds[1] \in subs'
  PROVE  Listed'
<1> SUFFICES ASSUME conn = "open", NEW d \in Kind, d \notin subs'
             PROVE  \E i \in 1 .. Len(cmds') : cmds'[i] = d
  BY DEF Listed
<1>1. PICK i \in 1 .. Len(cmds) : cmds[i] = d
  BY DEF Lasting, Listed
<1>2. /\ Len(cmds) \in Nat /\ Len(cmds') = Len(cmds) - 1
      /\ \A h \in 1 .. Len(cmds') : cmds'[h] = cmds[h + 1]
  BY TailFacts DEF TypeOK
<1>3. i # 1
  BY <1>1
<1>4. i - 1 \in 1 .. Len(cmds') /\ (i - 1) + 1 = i
  BY <1>1, <1>2, <1>3
<1>5. cmds'[i - 1] = d
  BY <1>1, <1>2, <1>4
<1> QED
  BY <1>4, <1>5

LEMMA LastingSubscribe ==
  ASSUME TypeOK, KnownFirst, Lasting, NEW d \in Kind, Subscribe(d)
  PROVE  Lasting'
<1> USE DEF core, proto, panel
<1> DEFINE q == [op |-> "ADD", kind |-> d, nodes |-> Node]
<1>1. /\ UNCHANGED <<core, known, ipc, tcp, panel>> /\ known /\ todo = <<>> /\ todo' = <<q>>
      /\ cmds # <<>> /\ Head(cmds) = d /\ cmds' = Tail(cmds) /\ subs' = subs \cup {d}
  BY DEF Subscribe, Free, KnownFirst
<1>2. q \in Query /\ q.op = "ADD"
  BY DEF Query
<1>3. \A k \in Key : k[1] = d => q \in AddQueries(k)
  BY <1>2, KeyFacts DEF AddQueries, Asks
<1> HIDE DEF q
<1>4. Len(todo') = 1 /\ todo'[1] = q
  BY <1>1
<1>5. \A n : (Announced(n)' <=> Announced(n)) /\ (Has(ipc', {Gone(n)}) <=> Has(ipc, {Gone(n)}))
  BY <1>1 DEF Announced
<1>6. OneAtATime' /\ Unserved' /\ Returns'
  BY <1>1, <1>5 DEF Lasting, OneAtATime, Unserved, Returns
<1>7. Listed'
  BY <1>1, TailFacts, ListedStill DEF TypeOK
<1>8. AskedAgain'
  <2>1. \A k : ~Has(todo', DelQueries(k))
    BY <1>2, <1>4 DEF Has, DelQueries
  <2> QED
    BY <2>1 DEF AskedAgain
<1>9. Kept'
  <2> SUFFICES ASSUME NEW k \in Key, Wanted(k)'
               PROVE  Held(k)' \/ Asked(k)' \/ Announced(k[2])'
    BY DEF Kept
  <2>1. CASE k[1] = d
    <3>1. todo'[1] \in AddQueries(k) /\ \A h \in 1 .. Len(todo') : ~(h > 1)
      BY <1>3, <1>4, <2>1
    <3>2. Last(todo', AddQueries(k), DelQueries(k))
      BY <1>4, <3>1 DEF Last
    <3> QED
      BY <3>2 DEF Asked
  <2>2. CASE k[1] # d
    <3>1. Wanted(k)
      BY <1>1, <2>2 DEF Wanted
    <3>2. ~Asked(k)
      BY <1>1 DEF Asked, Last
    <3>3. Held(k)' <=> Held(k)
      BY <1>1 DEF Held
    <3> QED
      BY <1>5, <3>1, <3>2, <3>3 DEF Lasting, Kept
  <2> QED
    BY <2>1, <2>2
<1> QED
  BY <1>6, <1>7, <1>8, <1>9 DEF Lasting

\* What is written behind an entry's record, if it does not remove it.
LEMMA HeldStill ==
  ASSUME TypeOK, UNCHANGED replica, NEW out \in Seq(Message), tcp' = tcp \o out, NEW k \in Key
  PROVE  /\ Held(k) /\ ~Has(out, DelRecords(k)) => Held(k)'
         /\ Last(out, AddRecords(k), DelRecords(k)) => Held(k)'
<1>1. tcp \in Seq(Message)
  BY DEF TypeOK
<1> QED
  BY <1>1, JoinLast DEF Held

LEMMA LastingPing ==
  ASSUME TypeOK, KnownFirst, Lasting, Ping
  PROVE  Lasting'
<1> USE DEF core, proto, panel
<1>1. /\ UNCHANGED <<core, proto, panel>> /\ cmds # <<>> /\ cmds[1] = "PING"
      /\ cmds' = Tail(cmds) /\ known
  BY TailFacts DEF Ping, Free, KnownFirst, TypeOK
<1>2. PICK out \in Seq(Message) : tcp' = tcp \o out /\ out = <<Pong>>
  <2>1. tcp \in Seq(Message) /\ Pong \in Message /\ tcp' = Append(tcp, Pong)
    BY PongFacts DEF Ping, TypeOK
  <2>2. tcp' = tcp \o <<Pong>> /\ <<Pong>> \in Seq(Message)
    BY <2>1
  <2> QED
    BY <2>2
<1>3. \A k \in Key : ~Has(out, DelRecords(k))
  BY <1>2, PongFacts DEF Has, DelRecords, Brings
<1>4. \A n : (Announced(n)' <=> Announced(n)) /\ (Has(ipc', {Gone(n)}) <=> Has(ipc, {Gone(n)}))
  BY <1>1 DEF Announced
<1>5. \A k \in Key : (Held(k) => Held(k)') /\ (Asked(k)' <=> Asked(k)) /\ (Wanted(k)' <=> Wanted(k))
  BY <1>1, <1>2, <1>3, HeldStill DEF Asked, Wanted
<1>6. OneAtATime' /\ Unserved' /\ Returns'
  BY <1>1, <1>4 DEF Lasting, OneAtATime, Unserved, Returns
<1>7. Listed'
  BY <1>1, ListedStill DEF Kind
<1>8. AskedAgain' /\ Kept'
  BY <1>1, <1>4, <1>5 DEF Lasting, AskedAgain, Kept
<1> QED
  BY <1>6, <1>7, <1>8 DEF Lasting

LEMMA LastingProcessIpcCommand ==
  ASSUME TypeOK, KnownFirst, Lasting, ProcessIpcCommand
  PROVE  Lasting'
<1> USE DEF core, proto, panel
<1>1. /\ UNCHANGED <<core, known, subs, cmds, tcp, panel>> /\ known /\ todo = <<>>
      /\ ipc # <<>> /\ todo' = Queries(Head(ipc)) /\ ipc' = Tail(ipc)
  BY DEF ProcessIpcCommand, Free, KnownFirst
<1>2. PICK x \in Notice : x = ipc[1] /\ x = Head(ipc)
  BY <1>1, TailFacts DEF TypeOK
<1>3. ASSUME NEW n \in Node
      PROVE  /\ Has(ipc', {Gone(n)}) => Has(ipc, {Gone(n)})
             /\ x = Gone(n) => Has(ipc, {Gone(n)})
             /\ Announced(n) => Announced(n)' \/ (x = New(n) /\ ~Has(ipc', {Gone(n)}))
  <2>1. ipc \in Seq(Notice)
    BY DEF TypeOK
  <2>2. /\ Has(ipc', {Gone(n)}) => Has(ipc, {Gone(n)})
        /\ x = Gone(n) => Has(ipc, {Gone(n)})
        /\ Last(ipc, {New(n)}, {Gone(n)}) =>
             Last(ipc', {New(n)}, {Gone(n)}) \/ (x = New(n) /\ ~Has(ipc', {Gone(n)}))
    BY <1>1, <1>2, <2>1, TailLast
  <2> QED
    BY <1>1, <2>2 DEF Announced
<1>4. OneAtATime' /\ Unserved' /\ Listed'
  BY <1>1 DEF Lasting, OneAtATime, Unserved, Listed
<1>5. Returns'
  BY <1>1, <1>3 DEF Lasting, Returns
<1>6. AskedAgain'
  <2> SUFFICES ASSUME NEW k \in Key, Wanted(k), Has(todo', DelQueries(k)) PROVE Announced(k[2])'
    BY <1>1 DEF AskedAgain, Wanted
  <2>1. k[2] \in Node /\ k[2] \in online
    BY KeyFacts DEF Wanted
  <2>2. x.type = "NODEDEL" /\ x.node = k[2]
    <3>1. PICK j \in 1 .. Len(todo') : todo'[j].op = "DEL" /\ k[2] \in todo'[j].nodes
      BY DEF Has, DelQueries
    <3>2. CASE x.type = "NODEDEL"
      <4>1. todo' = <<[op |-> "DEL", kind |-> "NODE", nodes |-> {x.node}]>>
        BY <1>1, <1>2, <3>2 DEF Queries
      <4> QED
        BY <3>1, <3>2, <4>1
    <3>3. CASE x.type = "NODEADD"
      BY <1>1, <1>2, <3>1, <3>3, NoticeFacts
    <3>4. CASE x.type # "NODEDEL" /\ x.type # "NODEADD"
      <4>1. todo' = IF x.type \in subs
                    THEN <<[op |-> "CHG", kind |-> x.type, nodes |-> {x.node}]>>
                    ELSE <<>>
        BY <1>1, <1>2, <3>4, NoticeFacts
      <4> QED
        BY <3>1, <4>1
    <3> QED
      BY <3>2, <3>3, <3>4
  <2>3. x = Gone(k[2])
    BY <2>2 DEF Gone, Notice
  <2>4. Announced(k[2]) /\ x # New(k[2])
    BY <1>3, <2>1, <2>3 DEF Lasting, Returns, Gone, New
  <2> QED
    BY <1>3, <2>1, <2>4
<1>7. Kept'
  <2> SUFFICES ASSUME NEW k \in Key, Wanted(k)
               PROVE  Held(k)' \/ Asked(k)' \/ Announced(k[2])'
    BY <1>1 DEF Kept, Wanted
  <2>1. ~Asked(k)
    BY <1>1 DEF Asked, Last
  <2>2. Held(k)' <=> Held(k)
    BY <1>1 DEF Held
  <2>3. CASE x = New(k[2])
    <3>1. k[1] \in subs \cap Kind /\ k = <<k[1], x.node>> /\ x.type = "NODEADD"
      BY <2>3, KeyFacts DEF Wanted, New
    <3>2. /\ \A j \in 1 .. Len(todo') : todo'[j].op = "ADD"
          /\ \E j \in 1 .. Len(todo') : Asks(todo'[j], "ADD", k)
      BY <1>1, <1>2, <3>1, NoticeFacts
    <3>3. todo' \in Seq(Query)
      BY <1>1, <1>2, QueriesFacts
    <3>4. \A j \in 1 .. Len(todo') : todo'[j] \in Query /\ todo'[j] \notin DelQueries(k)
      BY <3>2, <3>3 DEF DelQueries
    <3>5. Last(todo', AddQueries(k), DelQueries(k))
      BY <3>2, <3>4 DEF Last, AddQueries
    <3> QED
      BY <3>5 DEF Asked
  <2>4. CASE x # New(k[2])
    BY <1>3, <2>1, <2>2, <2>4, KeyFacts DEF Lasting, Kept
  <2> QED
    BY <2>3, <2>4
<1> QED
  BY <1>4, <1>5, <1>6, <1>7 DEF Lasting

\* A query that removes writes nothing else, and nothing of other nodes.
LEMMA RemovalFacts ==
  ASSUME TypeOK, NEW q \in Query, q.op = "DEL"
  PROVE  \A i \in 1 .. Len(Records(q)) : \A k \in Key :
           Covers(Records(q)[i], k) => k[2] \in q.nodes
<1> DEFINE rows(d) == [op |-> q.op, kind |-> d,
                       image |-> [n \in Node |-> IF n \in q.nodes THEN Table[<<d, n>>]
                                                                  ELSE Absent]]
           listed(d) == IF d \in subs THEN <<rows(d)>> ELSE <<>>
           Within(m) == \A k \in Key : Covers(m, k) => k[2] \in q.nodes
           Good == {m \in Message : Within(m)}
<1>1. ASSUME NEW d \in Kind PROVE rows(d) \in Good
  <2>1. rows(d) \in Message
    BY TableFacts DEF Query, Message, Absent
  <2>2. ASSUME NEW k \in Key, Covers(rows(d), k) PROVE k[2] \in q.nodes
    BY <2>2, KeyFacts DEF Covers
  <2> QED
    BY <2>1, <2>2
<1> HIDE DEF rows, Good, Within
<1>2. ASSUME NEW d \in Kind PROVE listed(d) \in Seq(Good)
  <2>1. CASE d \in subs
    BY <1>1, <2>1
  <2>2. CASE d \notin subs
    BY <2>2
  <2> QED
    BY <2>1, <2>2
<1>3. Records(q) = IF q.nodes \cap online = {} THEN <<>>
                   ELSE listed("DST") \o listed("SRC") \o listed("NODE")
  BY DEF Records, rows
<1>4. listed("DST") \in Seq(Good) /\ listed("SRC") \in Seq(Good) /\ listed("NODE") \in Seq(Good)
  BY <1>2 DEF Kind
<1> HIDE DEF listed
<1>5. Records(q) \in Seq(Good)
  BY <1>3, <1>4
<1>6. \A i \in 1 .. Len(Records(q)) : Records(q)[i] \in Good
  BY <1>5
<1> QED
  BY <1>6 DEF Good, Within

LEMMA LastingRunQuery ==
  ASSUME TypeOK, Lasting, RunQuery
  PROVE  Lasting'
<1> USE DEF core, proto, panel
<1>1. /\ UNCHANGED <<core, known, ipc, subs, cmds, panel>> /\ todo # <<>>
      /\ tcp' = tcp \o Records(Head(todo)) /\ todo' = Tail(todo)
  BY DEF RunQuery, SendRecords
<1>2. PICK q \in Query : q = todo[1] /\ q = Head(todo)
  BY <1>1, TailFacts DEF TypeOK
<1>3. PICK out \in Seq(Message) : out = Records(q)
  BY RecordsFacts
<1>4. tcp' = tcp \o out
  BY <1>1, <1>2, <1>3
<1>5. \A n : (Announced(n)' <=> Announced(n)) /\ (Has(ipc', {Gone(n)}) <=> Has(ipc, {Gone(n)}))
  BY <1>1 DEF Announced
<1>6. ASSUME NEW k \in Key
      PROVE  /\ Has(todo', DelQueries(k)) => Has(todo, DelQueries(k))
             /\ q \in DelQueries(k) => Has(todo, DelQueries(k))
             /\ Asked(k) => Asked(k)' \/ (q \in AddQueries(k) /\ ~Has(todo', DelQueries(k)))
  <2>1. todo \in Seq(Query)
    BY DEF TypeOK
  <2> QED
    BY <1>1, <1>2, <2>1, TailLast DEF Asked
<1>7. OneAtATime' /\ Unserved' /\ Listed' /\ Returns'
  BY <1>1, <1>5 DEF Lasting, OneAtATime, Unserved, Listed, Returns
<1>8. AskedAgain'
  BY <1>1, <1>5, <1>6 DEF Lasting, AskedAgain, Wanted
<1>9. Kept'
  <2> SUFFICES ASSUME NEW k \in Key, Wanted(k)
               PROVE  Held(k)' \/ Asked(k)' \/ Announced(k[2])'
    BY <1>1 DEF Kept, Wanted
  <2>1. CASE q \in DelQueries(k)
    <3>1. Asked(k) \/ Announced(k[2])
      BY <1>6, <2>1 DEF Lasting, AskedAgain
    <3>2. q \notin AddQueries(k)
      BY <2>1 DEF AddQueries, DelQueries, Asks
    <3> QED
      BY <1>5, <1>6, <3>1, <3>2
  <2>2. CASE q \notin DelQueries(k)
    <3>1. ~Has(out, DelRecords(k))
      <4>1. CASE q.op = "DEL"
        BY <1>3, <2>2, <4>1, RemovalFacts DEF Has, DelRecords, DelQueries, Brings
      <4>2. CASE q.op # "DEL"
        BY <1>3, <4>2, FoundFacts DEF Has, DelRecords, Brings
      <4> QED
        BY <4>1, <4>2
    <3>2. ASSUME q \in AddQueries(k) PROVE Held(k)'
      <4>1. q.op = "ADD" /\ k[1] = q.kind /\ k[2] \in q.nodes /\ k[2] \in online
        BY <3>2 DEF AddQueries, Asks, Wanted
      <4>2. 1 \in 1 .. Len(out) /\ Covers(out[1], k) /\ out[1].op = "ADD"
        BY <1>3, <4>1, FoundFacts
      <4>3. out[1] \in AddRecords(k)
        BY <4>2 DEF AddRecords, Brings
      <4>4. Last(out, AddRecords(k), DelRecords(k))
        BY <3>1, <4>2, <4>3 DEF Last, Has
      <4> QED
        BY <1>1, <1>4, <4>4, HeldStill
    <3>3. Held(k) => Held(k)'
      BY <1>1, <1>4, <3>1, HeldStill
    <3> QED
      BY <1>5, <1>6, <3>2, <3>3 DEF Lasting, Kept
  <2> QED
    BY <2>1, <2>2
<1> QED
  BY <1>7, <1>8, <1>9 DEF Lasting

-----------------------------------------------------------------------------
(* The panel's steps.                                                      *)

LEMMA LastingConnect ==
  ASSUME TypeOK, Lasting, Connect
  PROVE  Lasting'
<1> USE DEF core, proto, panel
<1>1. /\ UNCHANGED <<core, proto, tcp, replica>> /\ cmds' = <<"DST", "NODE", "SRC", "PING">>
  BY DEF Connect
<1>2. \A n : (Announced(n)' <=> Announced(n)) /\ (Has(ipc', {Gone(n)}) <=> Has(ipc, {Gone(n)}))
  BY <1>1 DEF Announced
<1>3. OneAtATime' /\ Unserved' /\ Returns'
  BY <1>1, <1>2 DEF Lasting, OneAtATime, Unserved, Returns
<1>4. Listed'
  <2>1. /\ 1 \in 1 .. Len(cmds') /\ 2 \in 1 .. Len(cmds') /\ 3 \in 1 .. Len(cmds')
        /\ cmds'[1] = "DST" /\ cmds'[2] = "NODE" /\ cmds'[3] = "SRC"
    BY <1>1
  <2> QED
    BY <2>1 DEF Listed, Kind
<1>5. \A k \in Key : Wanted(k)' => Wanted(k) /\ (Announced(k[2]) => Announced(k[2])')
  BY <1>1, <1>2 DEF Wanted
<1> QED
  BY <1>1, <1>3, <1>4, <1>5, LastingNotices

LEMMA LastingTaken ==
  ASSUME TypeOK, Lasting, tcp # <<>>, tcp' = Tail(tcp), conn' = "open" => conn = "open",
         UNCHANGED <<online, pending, known, ipc, subs, todo, cmds>>,
         \A k \in Key : /\ tcp[1] \in AddRecords(k) => replica'[k] # Absent
                        /\ replica[k] # Absent /\ tcp[1] \notin DelRecords(k) => replica'[k] # Absent
  PROVE  Lasting'
<1>1. \A n : (Announced(n)' <=> Announced(n)) /\ (Has(ipc', {Gone(n)}) <=> Has(ipc, {Gone(n)}))
  BY DEF Announced
<1>2. ASSUME NEW k \in Key, Held(k) PROVE Held(k)'
  <2>1. tcp \in Seq(Message)
    BY DEF TypeOK
  <2>2. /\ Has(tcp', DelRecords(k)) => Has(tcp, DelRecords(k))
        /\ tcp[1] \in DelRecords(k) => Has(tcp, DelRecords(k))
        /\ Last(tcp, AddRecords(k), DelRecords(k)) =>
             \/ Last(tcp', AddRecords(k), DelRecords(k))
             \/ tcp[1] \in AddRecords(k) /\ ~Has(tcp', DelRecords(k))
    BY <2>1, TailLast
  <2> QED
    BY <1>2, <2>2 DEF Held
<1>3. \A k \in Key : (Asked(k)' <=> Asked(k)) /\ (Wanted(k)' <=> Wanted(k))
  BY DEF Asked, Wanted
<1>4. OneAtATime' /\ Unserved' /\ Listed' /\ Returns'
  BY <1>1 DEF Lasting, OneAtATime, Unserved, Listed, Returns
<1>5. AskedAgain' /\ Kept'
  BY <1>1, <1>2, <1>3 DEF Lasting, AskedAgain, Kept
<1> QED
  BY <1>4, <1>5 DEF Lasting

LEMMA LastingReceive ==
  ASSUME TypeOK, Lasting, ReceivePong \/ ReceiveAdd \/ ReceiveChange \/ ReceiveDelete
  PROVE  Lasting'
<1> USE DEF core, proto, panel
<1>1. PICK m \in Message : m = tcp[1] /\ m = Head(tcp)
  BY TailFacts DEF TypeOK, ReceivePong, ReceiveAdd, ReceiveChange, ReceiveDelete, Receive
<1>2. /\ conn = "open" /\ tcp # <<>> /\ tcp' = Tail(tcp)
      /\ UNCHANGED <<online, pending, known, ipc, subs, todo, cmds>>
  BY DEF ReceivePong, ReceiveAdd, ReceiveChange, ReceiveDelete, Receive
<1>3. ASSUME NEW k \in Key
      PROVE  /\ m \in AddRecords(k) => replica'[k] # Absent
             /\ replica[k] # Absent /\ m \notin DelRecords(k) => replica'[k] # Absent
  <2>1. CASE ReceivePong
    BY <1>1, <2>1 DEF ReceivePong, Receive, AddRecords, Brings
  <2>2. CASE ReceiveAdd
    BY <1>1, <2>2 DEF ReceiveAdd, Receive, AddRecords, Brings, Covers
  <2>3. CASE ReceiveChange
    <3>1. m.op = "CHG" /\ replica'[k] = IF Covers(m, k) /\ replica[k] # Absent
                                          THEN m.image[k[2]] ELSE replica[k]
      BY <1>1, <2>3 DEF ReceiveChange, Receive
    <3> QED
      BY <3>1 DEF AddRecords, Brings, Covers
  <2>4. CASE ReceiveDelete
    BY <1>1, <2>4 DEF ReceiveDelete, Receive, AddRecords, DelRecords, Brings
  <2> QED
    BY <2>1, <2>2, <2>3, <2>4
<1> QED
  BY <1>1, <1>2, <1>3, LastingTaken

LEMMA LastingEnded ==
  ASSUME Lasting, UNCHANGED <<online, pending>>, SessionOver, conn' # "open"
  PROVE  Lasting'
<1>1. ipc' = <<>> /\ subs' = {}
  BY DEF SessionOver
<1>2. \A n : ~Has(ipc', {Gone(n)})
  BY <1>1 DEF Has
<1>3. \A k : ~Wanted(k)'
  BY <1>1 DEF Wanted
<1> QED
  BY <1>1, <1>2, <1>3
     DEF Lasting, OneAtATime, Unserved, Listed, Returns, AskedAgain, Kept

LEMMA LastingStep ==
  ASSUME TypeOK, KnownFirst, Lasting, [Next]_vars
  PROVE  Lasting'
<1> USE DEF core, proto, panel
<1>1. ASSUME NEW n \in Node, NodeConnected(n) \/ NodeDisconnected(n) PROVE Lasting'
  BY <1>1, LastingNodeConnected, LastingNodeDisconnected
<1>2. ASSUME NEW n \in Node, NEW d \in {"SRC", "DST"}, SlotChanged(n, d) PROVE Lasting'
  BY <1>2, LastingSlotChanged
<1>3. CASE NotifyProtocols \/ AcceptIpc
  BY <1>3, LastingNotifyProtocols, LastingAcceptIpc
<1>4. ASSUME NEW d \in Kind, Subscribe(d) PROVE Lasting'
  BY <1>4, LastingSubscribe
<1>5. CASE Ping \/ ProcessIpcCommand \/ RunQuery
  BY <1>5, LastingPing, LastingProcessIpcCommand, LastingRunQuery
<1>6. CASE Connect
  BY <1>6, LastingConnect
<1>7. CASE ReceivePong \/ ReceiveAdd \/ ReceiveChange \/ ReceiveDelete
  BY <1>7, LastingReceive
<1>8. CASE Break \/ WatchdogTimeout
  BY <1>8, LastingEnded DEF Break, WatchdogTimeout
<1>9. CASE UNCHANGED vars
  <2>1. UNCHANGED <<todo, tcp, replica>> /\ \A n : Announced(n)' <=> Announced(n)
    BY <1>9 DEF vars, Announced
  <2>2. OneAtATime' /\ Unserved' /\ Listed' /\ Returns'
    BY <1>9, <2>1 DEF vars, Lasting, OneAtATime, Unserved, Listed, Returns
  <2>3. \A k \in Key : Wanted(k)' <=> Wanted(k)
    BY <1>9 DEF vars, Wanted
  <2> QED
    BY <2>1, <2>2, <2>3, LastingNotices
<1> QED
  BY <1>1, <1>2, <1>3, <1>4, <1>5, <1>6, <1>7, <1>8, <1>9
     DEF Next, CoreStep, ProtocolStep, PanelStep

-----------------------------------------------------------------------------
(* The theorem.                                                            *)

\* Once nothing is under way every row in the tables has its entry, although
\* the removal of a node is looked up after its rows have gone and may be
\* written when they are back.
THEOREM LacksNothing == ASSUME KnownFirst PROVE Spec => []NothingMissing
<1>1. Init => Lasting
  BY LastingInit
<1>2. KnownFirst /\ TypeOK /\ Lasting /\ [Next]_vars => Lasting'
  BY LastingStep
<1>3. Lasting => NothingMissing
  <2> SUFFICES ASSUME Lasting, Quiescent, NEW k \in Key, k[2] \in online
               PROVE  replica[k] # Absent
    BY DEF NothingMissing
  <2>1. pending = <<>> /\ ipc = <<>> /\ todo = <<>> /\ cmds = <<>> /\ tcp = <<>> /\ conn = "open"
    BY DEF Quiescent
  <2>2. Wanted(k)
    BY <2>1, KeyFacts DEF Lasting, Listed, Wanted
  <2>3. ~Announced(k[2]) /\ ~Asked(k)
    BY <2>1 DEF Announced, Asked, Last
  <2>4. Held(k)
    BY <2>2, <2>3 DEF Lasting, Kept
  <2> QED
    BY <2>1, <2>4 DEF Held, Last
<1> QED
  BY <1>1, <1>2, <1>3, TypeCorrect, PTL DEF Spec

=============================================================================
