----------------------------- MODULE GpioProofs ------------------------------
(***************************************************************************)
(* What a client shows of a bundle of GPIO lines is what the device has    *)
(* (ShowsDevice), and the lines do what was last commanded (LinesFollow),  *)
(* for any number of lines and any masks, texts, changes, commands and     *)
(* faults.                                                                 *)
(***************************************************************************)
EXTENDS Gpio, TLAPS

\* What there is on each way.
States   == [code : Codes, src : Sources]
Whats    == {"code", "route"}
Reports  == [op : Whats, arg : States]
Triggers == [op : {"trigger"}, arg : Texts]
Orders   == Triggers \cup [op : {"activate"}, arg : Sources]
Requests == Orders \cup [op : {"list"}, arg : {""}]
                   \cup [op : {"mask", "unmask"}, arg : SUBSET Whats]

RowType == row = {} \/ \E r \in States : row = {r}

TypeInv ==
  /\ line \in {"i", "o"} /\ mask \in Texts
  /\ device \in States
  /\ wire \in Seq(States)
  /\ RowType
  /\ notes \in Seq(Whats)
  /\ orders \in Seq(Orders) /\ ipc \in Seq(Orders) /\ requests \in Seq(Requests)
  /\ replies \in Seq(Reports)
  /\ DOMAIN known = {"code", "src"}
  /\ meant \in Texts
  /\ unsure \subseteq Whats /\ unreported \in BOOLEAN

\* A client that is not connected has nothing under way, and its button is up; what can
\* be set is a text for the lines.
SessionInv ==
  /\ ~linked => requests = <<>> /\ replies = <<>> /\ ~up
  /\ held => up
  /\ settable => edit \in Texts

-----------------------------------------------------------------------------
(* Queues.                                                                  *)

\* No member of a queue counts (is in D).
NoneIn(s, D) == \A k \in 1 .. Len(s) : s[k] \notin D

\* The last member that counts is in E.
LastIn(s, D, E) ==
  \E k \in 1 .. Len(s) : /\ s[k] \in D /\ s[k] \in E
                         /\ \A j \in k + 1 .. Len(s) : s[j] \notin D

\* An empty queue: nothing counts.
LEMMA EndsEmpty == ASSUME NEW D, NEW E PROVE NoneIn(<<>>, D) /\ ~LastIn(<<>>, D, E)
  BY DEF NoneIn, LastIn

\* Queueing what counts, and is in E.
LEMMA EndsAppendIn ==
  ASSUME NEW S, NEW s \in Seq(S), NEW e \in S, NEW D, NEW E, e \in D, e \in E
  PROVE  LastIn(Append(s, e), D, E)
<1>1. /\ Len(Append(s, e)) = Len(s) + 1 /\ Append(s, e)[Len(s) + 1] = e
      /\ Len(s) \in Nat
  OBVIOUS
<1> QED BY <1>1 DEF LastIn

\* Queueing what does not count changes nothing.
LEMMA EndsAppendOut ==
  ASSUME NEW S, NEW s \in Seq(S), NEW e \in S, NEW D, NEW E, e \notin D
  PROVE  /\ LastIn(s, D, E) => LastIn(Append(s, e), D, E)
         /\ NoneIn(s, D) => NoneIn(Append(s, e), D)
<1>1. /\ Len(Append(s, e)) = Len(s) + 1 /\ Append(s, e)[Len(s) + 1] = e
      /\ Len(s) \in Nat
      /\ \A k \in 1 .. Len(s) : Append(s, e)[k] = s[k]
  OBVIOUS
<1>2. ASSUME LastIn(s, D, E) PROVE LastIn(Append(s, e), D, E)
  <2>1. PICK k \in 1 .. Len(s) : /\ s[k] \in D /\ s[k] \in E
                                 /\ \A j \in k + 1 .. Len(s) : s[j] \notin D
    BY <1>2 DEF LastIn
  <2>2. ASSUME NEW j \in k + 1 .. Len(Append(s, e)) PROVE Append(s, e)[j] \notin D
    BY <1>1, <2>1
  <2> QED BY <1>1, <2>1, <2>2 DEF LastIn
<1>3. ASSUME NoneIn(s, D) PROVE NoneIn(Append(s, e), D)
  BY <1>1, <1>3 DEF NoneIn
<1> QED BY <1>2, <1>3

\* Taking the head: what counted is still queued, or was the head.
LEMMA EndsTail ==
  ASSUME NEW S, NEW s \in Seq(S), s # <<>>, NEW D, NEW E
  PROVE  /\ NoneIn(s, D) => NoneIn(Tail(s), D) /\ Head(s) \notin D
         /\ LastIn(s, D, E) => \/ LastIn(Tail(s), D, E)
                               \/ NoneIn(Tail(s), D) /\ Head(s) \in D /\ Head(s) \in E
<1>1. /\ Len(s) \in Nat /\ Len(s) >= 1 /\ Head(s) = s[1]
      /\ Len(Tail(s)) = Len(s) - 1
      /\ \A k \in 1 .. Len(s) - 1 : Tail(s)[k] = s[k + 1]
  OBVIOUS
<1>2. ASSUME NoneIn(s, D) PROVE NoneIn(Tail(s), D) /\ Head(s) \notin D
  BY <1>1, <1>2 DEF NoneIn
<1>3. ASSUME LastIn(s, D, E)
      PROVE  \/ LastIn(Tail(s), D, E)
             \/ NoneIn(Tail(s), D) /\ Head(s) \in D /\ Head(s) \in E
  <2>1. PICK k \in 1 .. Len(s) : /\ s[k] \in D /\ s[k] \in E
                                 /\ \A j \in k + 1 .. Len(s) : s[j] \notin D
    BY <1>3 DEF LastIn
  <2>2. CASE k = 1
    BY <1>1, <2>1, <2>2 DEF NoneIn
  <2>3. CASE k # 1
    <3>1. k - 1 \in 1 .. Len(Tail(s)) /\ Tail(s)[k - 1] = s[k]
      BY <1>1, <2>3
    <3>2. ASSUME NEW j \in (k - 1) + 1 .. Len(Tail(s)) PROVE Tail(s)[j] \notin D
      <4>1. j \in 1 .. Len(s) - 1 /\ j + 1 \in k + 1 .. Len(s)
        BY <1>1, <3>2
      <4> QED BY <1>1, <2>1, <4>1
    <3> QED BY <2>1, <3>1, <3>2 DEF LastIn
  <2> QED BY <2>2, <2>3
<1> QED BY <1>2, <1>3

\* Some member of a queue is v.
Holds(s, v) == \E k \in 1 .. Len(s) : s[k] = v

\* Queueing keeps what is queued.
LEMMA HoldsAppend ==
  ASSUME NEW S, NEW s \in Seq(S), NEW e \in S, NEW v
  PROVE  Holds(Append(s, e), v) <=> Holds(s, v) \/ e = v
<1>1. /\ Len(Append(s, e)) = Len(s) + 1 /\ Append(s, e)[Len(s) + 1] = e
      /\ Len(s) \in Nat
      /\ \A k \in 1 .. Len(s) : Append(s, e)[k] = s[k]
  OBVIOUS
<1> QED BY <1>1 DEF Holds

\* Taking the head loses no more than it.
LEMMA HoldsTail ==
  ASSUME NEW S, NEW s \in Seq(S), s # <<>>, NEW v, Holds(s, v)
  PROVE  Holds(Tail(s), v) \/ Head(s) = v
<1>1. /\ Len(s) \in Nat /\ Len(s) >= 1 /\ Head(s) = s[1]
      /\ Len(Tail(s)) = Len(s) - 1
      /\ \A k \in 1 .. Len(s) - 1 : Tail(s)[k] = s[k + 1]
  OBVIOUS
<1>2. PICK k \in 1 .. Len(s) : s[k] = v
  BY DEF Holds
<1>3. CASE k # 1
  <2>1. k - 1 \in 1 .. Len(Tail(s)) /\ Tail(s)[k - 1] = v
    BY <1>1, <1>2, <1>3
  <2> QED BY <2>1 DEF Holds
<1> QED BY <1>1, <1>2, <1>3

-----------------------------------------------------------------------------
(* What the lines do.                                                      *)

\* Commands that set line l, and those that set it to v.
Moves(l) == {c \in Triggers : c.arg[l] # "x"}
To(l, v) == {c \in Triggers : c.arg[l] = v}

Quiet(s, l)   == NoneIn(s, Moves(l))
Sets(s, l, v) == LastIn(s, Moves(l), To(l, v))

\* The level a line is meant to have is that of the last command under way, be it with
\* the client, between dprotod and drouterd or with the device, or else the device's.
Follows(l) ==
  meant[l] # "x" =>
    \/ Sets(requests, l, meant[l])
    \/ Quiet(requests, l) /\ Sets(ipc, l, meant[l])
    \/ Quiet(requests, l) /\ Quiet(ipc, l) /\ Sets(orders, l, meant[l])
    \/ Quiet(requests, l) /\ Quiet(ipc, l) /\ Quiet(orders, l) /\ device.code[l] = meant[l]

LinesInv == \A l \in Lines : Follows(l)

-----------------------------------------------------------------------------
(* What the client shows.                                                  *)

\* The row is the device's last report, or the device's state as the node connected.
RowInv ==
  /\ row = {} => wire = <<>>
  /\ \A r \in row :
       IF wire = <<>> THEN r.src = device.src /\ (~unreported => r.code = device.code)
                      ELSE wire[Len(wire)] = device

ReportsOf(what) == {x \in Reports : x.op = what}
CodeReports(r)  == {x \in Reports : x.arg.code = r.code}
SrcReports(r)   == {x \in Reports : x.arg.src = r.src}

\* A list of the states was asked for.
ListRequest == [op |-> "list", arg |-> ""]

Shows(r) ==
  /\ \/ "code" \in unsure \/ Holds(notes, "code") \/ Holds(requests, ListRequest)
     \/ LastIn(replies, ReportsOf("code"), CodeReports(r))
     \/ NoneIn(replies, ReportsOf("code")) /\ known.code = r.code /\ shown = r.code
  /\ \/ "route" \in unsure \/ Holds(notes, "route") \/ Holds(requests, ListRequest)
     \/ LastIn(replies, ReportsOf("route"), SrcReports(r))
     \/ NoneIn(replies, ReportsOf("route")) /\ known.src = r.src

\* A connected client that need not be unsure has a notification or a list coming, or the
\* last report under way tells of the row, or what it was told last does.
ShowInv == linked => \A r \in row : Shows(r)

IInv == TypeInv /\ SessionInv /\ LinesInv /\ RowInv /\ ShowInv

-----------------------------------------------------------------------------
(* Types.                                                                   *)

\* Masks merged with codes and texts, and inverted masks, are codes and texts, line by line.
LEMMA Masking ==
  ASSUME NEW m \in Texts
  PROVE  /\ \A c \in Codes : Merged(c, m) \in Codes
         /\ \A t \in Texts : Merged(t, m) \in Texts
         /\ Inverted(m) \in Texts
         /\ [l \in Lines |-> IF m[l] = "x" THEN "x" ELSE Opposite(m[l])] \in Texts
         /\ Trigger(m) \in Triggers /\ Trigger(Inverted(m)) \in Triggers
         /\ \A t \in Texts :
              [l \in Lines |-> IF m[l] = "x" THEN t[l] ELSE Opposite(m[l])] \in Texts
<1>1. \A c \in Codes : Merged(c, m) \in Codes
  BY DEF Codes, Texts, Levels, Merged
<1>2. \A t \in Texts : Merged(t, m) \in Texts
  BY DEF Texts, Levels, Merged
<1>3. Inverted(m) \in Texts
  BY DEF Texts, Levels, Inverted, Opposite
<1>4. [l \in Lines |-> IF m[l] = "x" THEN "x" ELSE Opposite(m[l])] \in Texts
  BY DEF Texts, Levels, Opposite
<1>5. Trigger(m) \in Triggers /\ Trigger(Inverted(m)) \in Triggers
  BY <1>3 DEF Trigger, Triggers
<1>6. ASSUME NEW t \in Texts
      PROVE  [l \in Lines |-> IF m[l] = "x" THEN t[l] ELSE Opposite(m[l])] \in Texts
  BY DEF Texts, Levels, Opposite
<1> QED BY <1>1, <1>2, <1>3, <1>4, <1>5, <1>6

\* Taking the head of a queue leaves a queue of the same things.
LEMMA Queue ==
  ASSUME NEW S, NEW s \in Seq(S), s # <<>>
  PROVE  Head(s) \in S /\ Tail(s) \in Seq(S)
  OBVIOUS

\* A command sent is queued when there is a connection.
LEMMA SentType ==
  ASSUME TypeInv, NEW c \in Requests, SendCommand(c)
  PROVE  requests' \in Seq(Requests)
<1>1. CASE linked
  BY <1>1 DEF TypeInv, SendCommand
<1>2. CASE ~linked
  BY <1>2 DEF TypeInv, SendCommand
<1> QED BY <1>1, <1>2

\* The report of a row there is tells of it.
LEMMA StatIs ==
  ASSUME NEW what \in Whats, NEW r \in States, row = {r}
  PROVE  /\ Stat(what) = <<[op |-> what, arg |-> r]>>
         /\ [op |-> what, arg |-> r] \in Reports
<1>1. (CHOOSE x \in row : TRUE) = r
  OBVIOUS
<1>2. row # {}
  OBVIOUS
<1>3. Stat(what) = <<[op |-> what, arg |-> r]>>
  BY <1>1, <1>2 DEF Stat
<1>4. [op |-> what, arg |-> r] \in Reports
  BY DEF Reports
<1> QED BY <1>3, <1>4

\* The reports of a list, or of one kind, are queued behind the others.
LEMMA Reported ==
  ASSUME TypeInv, NEW q \in Seq(Reports), NEW what \in Whats
  PROVE  /\ row = {} => q \o Stat(what) = q
         /\ \A r \in row : q \o Stat(what) = Append(q, [op |-> what, arg |-> r])
         /\ q \o Stat(what) \in Seq(Reports)
<1>1. CASE row = {}
  BY <1>1 DEF Stat
<1>2. CASE row # {}
  <2>1. PICK r \in States : row = {r}
    BY <1>2 DEF TypeInv, RowType
  <2>2. /\ Stat(what) = <<[op |-> what, arg |-> r]>>
        /\ [op |-> what, arg |-> r] \in Reports
    BY <2>1, StatIs
  <2> QED BY <1>2, <2>1, <2>2
<1> QED BY <1>1, <1>2

\* Each record of a command is one of the kinds there are.
LEMMA CommandKinds ==
  /\ ListRequest \in Requests
  /\ \A c \in Requests : c.op = "list" => c = ListRequest
  /\ \A c \in Requests : c.op \in {"trigger", "activate"} => c \in Orders
  /\ \A c \in Requests : c.op = "trigger" => c \in Triggers
  /\ \A c \in Requests : c.op = "activate" => c.arg \in Sources
  /\ \A c \in Triggers : c.op = "trigger" /\ c.arg \in Texts
  /\ ClientCommands \subseteq Requests
<1>1. ListRequest \in Requests
  BY DEF ListRequest, Requests
<1>2. \A c \in Requests : c.op = "list" => c = ListRequest
  <2>1. ASSUME NEW c \in [op : {"list"}, arg : {""}] PROVE c = ListRequest
    BY DEF ListRequest
  <2>2. \A c \in Requests : c.op = "list" => c \in [op : {"list"}, arg : {""}]
    BY DEF Requests, Orders, Triggers
  <2> QED BY <2>1, <2>2
<1>3. \A c \in Requests : c.op \in {"trigger", "activate"} => c \in Orders
  BY DEF Requests, Orders, Triggers
<1>4. \A c \in Requests : c.op = "trigger" => c \in Triggers
  BY DEF Requests, Orders, Triggers
<1>5. \A c \in Requests : c.op = "activate" => c.arg \in Sources
  BY DEF Requests, Orders, Triggers
<1>6. \A c \in Triggers : c.op = "trigger" /\ c.arg \in Texts
  BY DEF Triggers
<1>7. ClientCommands \subseteq Requests
  <2>1. {{"code"}, {"route"}, {"code", "route"}} \subseteq SUBSET Whats
    BY DEF Whats
  <2> QED BY <2>1 DEF ClientCommands, Requests, Orders
<1> QED BY <1>1, <1>2, <1>3, <1>4, <1>5, <1>6, <1>7

LEMMA TypeStep == ASSUME TypeInv, SessionInv, Next PROVE TypeInv'
<1> USE DEF still, node, core, server, panel, history, bounded, TypeInv, RowType
<1>1. ASSUME NEW d \in [code : Codes, src : Sources], DeviceChanges(d) PROVE TypeInv'
  <2>1. d \in States
    BY DEF States
  <2>2. wire' \in Seq(States)
    BY <1>1, <2>1 DEF DeviceChanges, Becomes
  <2>3. Nothing \in Texts
    BY DEF Nothing, Texts
  <2> QED BY <1>1, <2>1, <2>2, <2>3 DEF DeviceChanges, Becomes
<1>2. CASE DeviceObeys
  <2> DEFINE c == Head(orders)
  <2>1. c \in Orders /\ Tail(orders) \in Seq(Orders)
    BY <1>2, Queue DEF DeviceObeys
  <2>2. ASSUME NEW d \in States, Becomes(d) PROVE device' \in States /\ wire' \in Seq(States)
    BY <2>2 DEF Becomes
  <2>3. CASE c.op = "trigger"
    <3>1. c.arg \in Texts
      BY <2>1, <2>3 DEF Orders, Triggers
    <3>2. [device EXCEPT !.code = Merged(@, c.arg)] \in States
      BY <3>1, Masking DEF States
    <3>3. Becomes([device EXCEPT !.code = Merged(@, c.arg)])
      BY <1>2, <2>3 DEF DeviceObeys
    <3> QED BY <1>2, <2>1, <2>2, <3>2, <3>3 DEF DeviceObeys
  <2>4. CASE c.op # "trigger"
    <3>1. c.arg \in Sources
      BY <2>1, <2>4 DEF Orders, Triggers
    <3>2. [device EXCEPT !.src = c.arg] \in States
      BY <3>1 DEF States
    <3>3. Becomes([device EXCEPT !.src = c.arg])
      BY <1>2, <2>4 DEF DeviceObeys
    <3> QED BY <1>2, <2>1, <2>2, <3>2, <3>3 DEF DeviceObeys
  <2> QED BY <2>3, <2>4
<1>3. CASE StateChanged
  <2>1. Head(wire) \in States /\ Tail(wire) \in Seq(States)
    BY <1>3, Queue DEF StateChanged
  <2>2. Changes(Head(wire)) \in Seq(Whats)
    <3>1. /\ <<>> \in Seq(Whats) /\ <<"route">> \in Seq(Whats) /\ <<"code">> \in Seq(Whats)
      BY DEF Whats
    <3>2. \A a, b \in Seq(Whats) : a \o b \in Seq(Whats)
      OBVIOUS
    <3>3. (IF \E r \in row : r.src # Head(wire).src THEN <<"route">> ELSE <<>>) \in Seq(Whats)
      BY <3>1
    <3>4. (IF \E r \in row : r.code # Head(wire).code THEN <<"code">> ELSE <<>>) \in Seq(Whats)
      BY <3>1
    <3> QED BY <3>1, <3>2, <3>3, <3>4 DEF Changes
  <2>3. notes' \in Seq(Whats)
    BY <1>3, <2>2 DEF StateChanged
  <2>4. row' = {} \/ \E r \in States : row' = {r}
    <3>1. row = {} => row' = {}
      BY <1>3 DEF StateChanged
    <3>2. row # {} => row' = {Head(wire)}
      BY <1>3 DEF StateChanged
    <3> QED BY <2>1, <3>1, <3>2
  <2> QED BY <1>3, <2>1, <2>3, <2>4 DEF StateChanged
<1>4. ASSUME NEW gpi \in AtFirst \cup {device.code}, NodeConnected(gpi) PROVE TypeInv'
  <2>1. gpi \in Codes
    BY GpioAssumption DEF States
  <2>2. [device EXCEPT !.code = gpi] \in States
    BY <2>1 DEF States
  <2>3. row' = {[device EXCEPT !.code = gpi]}
    BY <1>4 DEF NodeConnected
  <2> QED BY <1>4, <2>2, <2>3 DEF NodeConnected, Whats
<1>5. CASE NodeDisconnected
  <2>1. Nothing \in Texts
    BY DEF Nothing, Texts
  <2> QED BY <1>5, <2>1 DEF NodeDisconnected
<1>6. ASSUME NEW state \in BOOLEAN, SetWriteable(state) PROVE TypeInv'
  BY <1>6 DEF SetWriteable
<1>7. CASE ProcessIpcCommand
  <2>1. Head(ipc) \in Orders /\ Tail(ipc) \in Seq(Orders)
    BY <1>7, Queue DEF ProcessIpcCommand
  <2>2. Nothing \in Texts
    BY DEF Nothing, Texts
  <2>3. orders' \in Seq(Orders)
    <3>1. CASE writeable /\ row # {}
      <4>1. orders' = Append(orders, Head(ipc))
        BY <1>7, <3>1 DEF ProcessIpcCommand
      <4> QED BY <2>1, <4>1
    <3>2. CASE ~(writeable /\ row # {})
      BY <1>7, <3>2 DEF ProcessIpcCommand
    <3> QED BY <3>1, <3>2
  <2> QED BY <1>7, <2>1, <2>2, <2>3 DEF ProcessIpcCommand
<1>8. CASE Notified
  <2>1. Head(notes) \in Whats /\ Tail(notes) \in Seq(Whats)
    BY <1>8, Queue DEF Notified
  <2>2. replies \o Stat(Head(notes)) \in Seq(Reports)
    BY <2>1, Reported
  <2>3. Told({Head(notes)}) \subseteq Whats
    BY DEF Told
  <2> QED BY <1>8, <2>1, <2>2, <2>3 DEF Notified
<1>9. CASE ProcessCommand
  <2> DEFINE c == Head(requests)
  <2>1. c \in Requests /\ Tail(requests) \in Seq(Requests)
    BY <1>9, Queue DEF ProcessCommand
  <2>2. CASE SendInfo(c)
    <3>1. replies \o Stat("route") \in Seq(Reports)
      BY Reported DEF Whats
    <3>2. (replies \o Stat("route")) \o Stat("code") \in Seq(Reports)
      BY <3>1, Reported DEF Whats
    <3>3. Told({"code", "route"}) \subseteq Whats
      BY DEF Told
    <3> QED BY <1>9, <2>1, <2>2, <3>2, <3>3 DEF ProcessCommand, SendInfo
  <2>3. CASE TriggerGpio(c)
    <3>1. c \in Orders
      BY <2>1, <2>3, CommandKinds DEF TriggerGpio
    <3>2. ipc' \in Seq(Orders)
      BY <2>3, <3>1 DEF TriggerGpio
    <3> QED BY <1>9, <2>1, <2>3, <3>2 DEF ProcessCommand, TriggerGpio
  <2>4. CASE DrouterMaskStat(c)
    BY <1>9, <2>1, <2>4 DEF ProcessCommand, DrouterMaskStat
  <2> QED BY <1>9, <2>2, <2>3, <2>4 DEF ProcessCommand
<1>10. CASE Connect
  <2>1. requests' = <<ListRequest>>
    BY <1>10 DEF Connect, ListRequest
  <2>2. requests' \in Seq(Requests)
    BY <2>1, CommandKinds
  <2> QED BY <1>10, <2>2 DEF Connect
<1>11. CASE Started
  BY <1>11 DEF Started
<1>12. CASE Lost
  <2>1. Nothing \in Texts
    BY DEF Nothing, Texts
  <2>2. DOMAIN Nowhere = {"code", "src"}
    BY Zenon DEF Nowhere
  <2> QED BY <1>12, <2>1, <2>2 DEF Lost
<1>13. CASE DispatchCommand
  <2>1. Tail(replies) \in Seq(Reports)
    BY <1>13, Queue DEF DispatchCommand
  <2>2. DOMAIN known' = DOMAIN known
    BY <1>13 DEF DispatchCommand, GpioStat, RouteStat
  <2> QED BY <1>13, <2>1, <2>2 DEF DispatchCommand, GpioStat, RouteStat
<1>14. CASE Pressed
  <2>1. Trigger(mask) \in Requests /\ Merged(meant, mask) \in Texts
    BY Masking DEF Requests, Orders
  <2>2. requests' \in Seq(Requests)
    BY <1>14, <2>1, SentType DEF Pressed
  <2> QED BY <1>14, <2>1, <2>2 DEF Pressed
<1>15. CASE Released
  <2>1. Trigger(Inverted(mask)) \in Requests
    BY Masking DEF Requests, Orders
  <2>2. requests' \in Seq(Requests)
    BY <1>15, <2>1, SentType DEF Released
  <2>3. [l \in Lines |-> IF mask[l] = "x" THEN meant[l] ELSE Opposite(mask[l])] \in Texts
    BY Masking
  <2> QED BY <1>15, <2>2, <2>3 DEF Released
<1>16. ASSUME NEW text \in Typed, TextChanged(text) PROVE TypeInv'
  BY <1>16 DEF TextChanged
<1>17. CASE SetData
  <2>1. edit \in Texts
    BY <1>17 DEF SetData, SessionInv
  <2>2. Trigger(edit) \in Requests /\ Merged(meant, edit) \in Texts
    BY <2>1, Masking DEF Requests, Orders
  <2>3. requests' \in Seq(Requests)
    BY <1>17, <2>2, SentType DEF SetData
  <2> QED BY <1>17, <2>2, <2>3 DEF SetData
<1>18. CASE ResetData
  BY <1>18 DEF ResetData
<1>19. ASSUME NEW c \in ClientCommands, ClientSends(c) PROVE TypeInv'
  <2>1. requests' \in Seq(Requests)
    BY <1>19, CommandKinds, SentType DEF ClientSends
  <2> QED BY <1>19, <2>1 DEF ClientSends
<1> QED BY <1>1, <1>2, <1>3, <1>4, <1>5, <1>6, <1>7, <1>8, <1>9, <1>10, <1>11, <1>12,
           <1>13, <1>14, <1>15, <1>16, <1>17, <1>18, <1>19 DEF Next

LEMMA SessionStep == ASSUME TypeInv, SessionInv, Next PROVE SessionInv'
<1> USE DEF still, node, core, server, panel, history, bounded, SessionInv
<1>1. ASSUME NEW d \in [code : Codes, src : Sources], DeviceChanges(d) PROVE SessionInv'
  BY <1>1 DEF DeviceChanges
<1>2. CASE DeviceObeys
  BY <1>2 DEF DeviceObeys
<1>3. CASE StateChanged
  BY <1>3 DEF StateChanged
<1>4. ASSUME NEW gpi \in AtFirst \cup {device.code}, NodeConnected(gpi) PROVE SessionInv'
  BY <1>4 DEF NodeConnected
<1>5. CASE NodeDisconnected
  BY <1>5 DEF NodeDisconnected
<1>6. ASSUME NEW state \in BOOLEAN, SetWriteable(state) PROVE SessionInv'
  BY <1>6 DEF SetWriteable
<1>7. CASE ProcessIpcCommand
  BY <1>7 DEF ProcessIpcCommand
<1>8. CASE Notified
  BY <1>8 DEF Notified
<1>9. CASE ProcessCommand
  BY <1>9 DEF ProcessCommand
<1>10. CASE Connect
  BY <1>10 DEF Connect
<1>11. CASE Started
  BY <1>11 DEF Started
<1>12. CASE Lost
  BY <1>12 DEF Lost
<1>13. CASE DispatchCommand
  <2>1. settable' => edit' \in Texts
    BY <1>13 DEF DispatchCommand, GpioStat, RouteStat
  <2> QED BY <1>13, <2>1 DEF DispatchCommand
<1>14. CASE Pressed
  BY <1>14 DEF Pressed, SendCommand
<1>15. CASE Released
  BY <1>15 DEF Released, SendCommand
<1>16. ASSUME NEW text \in Typed, TextChanged(text) PROVE SessionInv'
  BY <1>16 DEF TextChanged
<1>17. CASE SetData
  BY <1>17 DEF SetData, SendCommand
<1>18. CASE ResetData
  BY <1>18 DEF ResetData
<1>19. ASSUME NEW c \in ClientCommands, ClientSends(c) PROVE SessionInv'
  BY <1>19 DEF ClientSends, SendCommand
<1> QED BY <1>1, <1>2, <1>3, <1>4, <1>5, <1>6, <1>7, <1>8, <1>9, <1>10, <1>11, <1>12,
           <1>13, <1>14, <1>15, <1>16, <1>17, <1>18, <1>19 DEF Next

-----------------------------------------------------------------------------
(* The lines follow the commands.                                           *)

\* A command that sets no line leaves what is under way to the lines as it is.
LEMMA OtherQueued ==
  ASSUME NEW l \in Lines, NEW v, NEW S, NEW s \in Seq(S), NEW c \in S,
         c \notin Moves(l)
  PROVE  /\ Quiet(s, l) => Quiet(Append(s, c), l)
         /\ Sets(s, l, v) => Sets(Append(s, c), l, v)
  BY EndsAppendOut DEF Quiet, Sets

\* A queue that is passed on, member by member, keeps what comes last.
LEMMA PassedOn ==
  ASSUME NEW l \in Lines, NEW v, NEW S, NEW T, NEW s \in Seq(S), NEW t \in Seq(T),
         s # <<>>, Head(s) \in T
  PROVE  /\ Quiet(s, l) => Quiet(Tail(s), l)
         /\ Sets(s, l, v) => \/ Sets(Tail(s), l, v)
                             \/ Quiet(Tail(s), l) /\ Sets(Append(t, Head(s)), l, v)
         /\ Quiet(s, l) /\ Quiet(t, l) => Quiet(Append(t, Head(s)), l)
         /\ Quiet(s, l) /\ Sets(t, l, v) => Sets(Append(t, Head(s)), l, v)
<1>1. /\ Quiet(s, l) => Quiet(Tail(s), l) /\ Head(s) \notin Moves(l)
      /\ Sets(s, l, v) => \/ Sets(Tail(s), l, v)
                          \/ /\ Quiet(Tail(s), l)
                             /\ Head(s) \in Moves(l) /\ Head(s) \in To(l, v)
  BY EndsTail DEF Quiet, Sets
<1>2. Head(s) \in Moves(l) /\ Head(s) \in To(l, v) => Sets(Append(t, Head(s)), l, v)
  BY EndsAppendIn DEF Sets
<1>3. Head(s) \notin Moves(l) =>
        /\ Quiet(t, l) => Quiet(Append(t, Head(s)), l)
        /\ Sets(t, l, v) => Sets(Append(t, Head(s)), l, v)
  BY OtherQueued
<1> QED BY <1>1, <1>2, <1>3

\* A command sent by a connected client, that sets line l to v or leaves it alone.
LEMMA SentFollows ==
  ASSUME TypeInv, NEW l \in Lines, Follows(l), NEW t \in Texts,
         requests' = Append(requests, Trigger(t)),
         UNCHANGED <<ipc, orders, device>>,
         meant'[l] = (IF t[l] = "x" THEN meant[l] ELSE t[l])
  PROVE  Follows(l)'
<1>1. Trigger(t) \in Triggers /\ Trigger(t) \in Requests /\ Trigger(t).arg = t
  BY DEF Trigger, Triggers, Requests, Orders
<1>2. requests \in Seq(Requests)
  BY DEF TypeInv
<1>3. CASE t[l] = "x"
  <2>1. Trigger(t) \notin Moves(l)
    BY <1>1, <1>3 DEF Moves
  <2>2. /\ Quiet(requests, l) => Quiet(requests', l)
        /\ Sets(requests, l, meant[l]) => Sets(requests', l, meant[l])
    BY <1>1, <1>2, <2>1, OtherQueued
  <2>3. meant'[l] = meant[l]
    BY <1>3
  <2> QED BY <2>2, <2>3 DEF Follows
<1>4. CASE t[l] # "x"
  <2>1. Trigger(t) \in Moves(l) /\ Trigger(t) \in To(l, t[l])
    BY <1>1, <1>4 DEF Moves, To
  <2>2. Sets(requests', l, t[l])
    BY <1>1, <1>2, <2>1, EndsAppendIn DEF Sets
  <2>3. meant'[l] = t[l]
    BY <1>4
  <2> QED BY <2>2, <2>3 DEF Follows
<1> QED BY <1>3, <1>4

LEMMA LinesStep == ASSUME TypeInv, SessionInv, LinesInv, Next PROVE LinesInv'
<1> USE DEF still, node, core, server, panel, history, bounded
<1> SUFFICES ASSUME NEW l \in Lines PROVE Follows(l)'
  BY DEF LinesInv
<1>0. Follows(l)
  BY DEF LinesInv
<1> DEFINE v == meant[l]
<1>a. ASSUME UNCHANGED <<meant, requests, ipc, orders, device>> PROVE Follows(l)'
  BY <1>0, <1>a DEF Follows
<1>b. ASSUME meant' = Nothing PROVE Follows(l)'
  BY <1>b DEF Follows, Nothing
<1>1. ASSUME NEW d \in [code : Codes, src : Sources], DeviceChanges(d) PROVE Follows(l)'
  <2>1. CASE d.code = device.code
    <3>1. device'.code = device.code /\ UNCHANGED <<meant, requests, ipc, orders>>
      BY <1>1, <2>1 DEF DeviceChanges, Becomes
    <3> QED BY <1>0, <3>1 DEF Follows
  <2>2. CASE d.code # device.code
    BY <1>1, <1>b, <2>2 DEF DeviceChanges
  <2> QED BY <2>1, <2>2
<1>2. CASE DeviceObeys
  <2> DEFINE c == Head(orders)
  <2>1. /\ orders \in Seq(Orders) /\ orders # <<>> /\ orders' = Tail(orders)
        /\ UNCHANGED <<meant, requests, ipc>> /\ c \in Orders
    BY <1>2, Queue DEF TypeInv, DeviceObeys
  <2>2. /\ Quiet(orders, l) => Quiet(orders', l) /\ c \notin Moves(l)
        /\ Sets(orders, l, v) => \/ Sets(orders', l, v)
                                 \/ Quiet(orders', l) /\ c \in Moves(l) /\ c \in To(l, v)
    BY <2>1, EndsTail DEF Quiet, Sets
  <2>3. CASE c.op = "trigger"
    <3>1. device' = [device EXCEPT !.code = Merged(@, c.arg)]
      BY <1>2, <2>3 DEF DeviceObeys, Becomes
    <3>2. device'.code = Merged(device.code, c.arg)
      BY <3>1 DEF TypeInv, States
    <3>3. c \in Triggers
      BY <2>1, <2>3 DEF Orders
    <3>4. device'.code[l] = IF c.arg[l] = "x" THEN device.code[l] ELSE c.arg[l]
      BY <3>2 DEF Merged
    <3>5. c \notin Moves(l) => device'.code[l] = device.code[l]
      BY <3>3, <3>4 DEF Moves
    <3>6. c \in Moves(l) /\ c \in To(l, v) => device'.code[l] = v
      BY <3>4 DEF Moves, To
    <3> QED BY <1>0, <2>1, <2>2, <3>5, <3>6 DEF Follows
  <2>4. CASE c.op # "trigger"
    <3>1. device' = [device EXCEPT !.src = c.arg]
      BY <1>2, <2>4 DEF DeviceObeys, Becomes
    <3>2. device'.code = device.code
      BY <3>1 DEF TypeInv, States
    <3>3. c \notin Moves(l)
      BY <2>4 DEF Moves, Triggers
    <3> QED BY <1>0, <2>1, <2>2, <3>2, <3>3 DEF Follows
  <2> QED BY <2>3, <2>4
<1>3. CASE StateChanged
  BY <1>3, <1>a DEF StateChanged
<1>4. ASSUME NEW gpi \in AtFirst \cup {device.code}, NodeConnected(gpi) PROVE Follows(l)'
  BY <1>4, <1>a DEF NodeConnected
<1>5. CASE NodeDisconnected
  BY <1>5, <1>b DEF NodeDisconnected
<1>6. ASSUME NEW state \in BOOLEAN, SetWriteable(state) PROVE Follows(l)'
  BY <1>6, <1>a DEF SetWriteable
<1>7. CASE ProcessIpcCommand
  <2>1. CASE writeable /\ row # {}
    <3>1. /\ ipc \in Seq(Orders) /\ orders \in Seq(Orders) /\ ipc # <<>>
          /\ ipc' = Tail(ipc) /\ orders' = Append(orders, Head(ipc))
          /\ UNCHANGED <<meant, requests, device>>
      BY <1>7, <2>1 DEF TypeInv, ProcessIpcCommand
    <3>2. Head(ipc) \in Orders
      BY <3>1, Queue
    <3>3. /\ Quiet(ipc, l) => Quiet(ipc', l)
          /\ Sets(ipc, l, v) => \/ Sets(ipc', l, v)
                                \/ Quiet(ipc', l) /\ Sets(orders', l, v)
          /\ Quiet(ipc, l) /\ Quiet(orders, l) => Quiet(orders', l)
          /\ Quiet(ipc, l) /\ Sets(orders, l, v) => Sets(orders', l, v)
      <4>1. /\ Quiet(ipc, l) => Quiet(Tail(ipc), l)
            /\ Sets(ipc, l, v) =>
                 \/ Sets(Tail(ipc), l, v)
                 \/ Quiet(Tail(ipc), l) /\ Sets(Append(orders, Head(ipc)), l, v)
            /\ Quiet(ipc, l) /\ Quiet(orders, l) => Quiet(Append(orders, Head(ipc)), l)
            /\ Quiet(ipc, l) /\ Sets(orders, l, v) => Sets(Append(orders, Head(ipc)), l, v)
        BY <3>1, <3>2, PassedOn
      <4>2. ipc' = Tail(ipc) /\ orders' = Append(orders, Head(ipc))
        BY <3>1
      <4> QED BY <4>1, <4>2, Zenon
    <3> QED BY <1>0, <3>1, <3>3 DEF Follows
  <2>2. CASE ~(writeable /\ row # {})
    BY <1>7, <1>b, <2>2 DEF ProcessIpcCommand
  <2> QED BY <2>1, <2>2
<1>8. CASE Notified
  BY <1>8, <1>a DEF Notified
<1>9. CASE ProcessCommand
  <2> DEFINE c == Head(requests)
  <2>1. /\ requests \in Seq(Requests) /\ requests # <<>> /\ requests' = Tail(requests)
        /\ c \in Requests /\ ipc \in Seq(Orders)
        /\ UNCHANGED <<meant, orders, device>>
    BY <1>9, Queue DEF TypeInv, ProcessCommand
  <2>2. CASE TriggerGpio(c)
    <3>1. ipc' = Append(ipc, c) /\ c \in Orders
      BY <2>1, <2>2, CommandKinds DEF TriggerGpio
    <3>2. /\ Quiet(requests, l) => Quiet(requests', l)
          /\ Sets(requests, l, v) => \/ Sets(requests', l, v)
                                     \/ Quiet(requests', l) /\ Sets(ipc', l, v)
          /\ Quiet(requests, l) /\ Quiet(ipc, l) => Quiet(ipc', l)
          /\ Quiet(requests, l) /\ Sets(ipc, l, v) => Sets(ipc', l, v)
      BY <2>1, <3>1, PassedOn
    <3> QED BY <1>0, <2>1, <3>2 DEF Follows
  <2>3. CASE SendInfo(c) \/ DrouterMaskStat(c)
    <3>1. ipc' = ipc
      BY <2>3 DEF SendInfo, DrouterMaskStat
    <3>2. c \notin Moves(l)
      BY <2>3 DEF SendInfo, DrouterMaskStat, Moves, Triggers
    <3>3. /\ Quiet(requests, l) => Quiet(requests', l)
          /\ Sets(requests, l, v) => Sets(requests', l, v)
      BY <2>1, <3>2, EndsTail DEF Quiet, Sets
    <3> QED BY <1>0, <2>1, <3>1, <3>3 DEF Follows
  <2> QED BY <1>9, <2>2, <2>3 DEF ProcessCommand
<1>10. CASE Connect
  <2>1. /\ requests = <<>> /\ requests' = Append(<<>>, ListRequest)
        /\ UNCHANGED <<meant, ipc, orders, device>>
    <3>1. requests = <<>> /\ requests' = <<ListRequest>>
      BY <1>10 DEF Connect, SessionInv, ListRequest
    <3>2. <<ListRequest>> = Append(<<>>, ListRequest)
      OBVIOUS
    <3>3. UNCHANGED <<meant, ipc, orders, device>>
      BY <1>10 DEF Connect
    <3> QED BY <3>1, <3>2, <3>3
  <2>2. ListRequest \notin Moves(l) /\ ListRequest \in Requests /\ <<>> \in Seq(Requests)
    <3>1. ListRequest.op # "trigger"
      BY DEF ListRequest
    <3>2. ListRequest \notin Moves(l)
      BY <3>1 DEF Moves, Triggers
    <3> QED BY <3>2, CommandKinds
  <2>3. /\ Quiet(requests, l) => Quiet(requests', l)
        /\ Sets(requests, l, v) => Sets(requests', l, v)
    BY <2>1, <2>2, OtherQueued
  <2> QED BY <1>0, <2>1, <2>3 DEF Follows
<1>11. CASE Started
  BY <1>11, <1>a DEF Started
<1>12. CASE Lost
  <2>1. CASE held \/ requests # <<>>
    BY <1>12, <1>b, <2>1 DEF Lost
  <2>2. CASE ~(held \/ requests # <<>>)
    BY <1>12, <1>a, <2>2 DEF Lost
  <2> QED BY <2>1, <2>2
<1>13. CASE DispatchCommand
  BY <1>13, <1>a DEF DispatchCommand
<1>14. CASE Pressed
  <2>1. /\ requests' = Append(requests, Trigger(mask)) /\ mask \in Texts
        /\ UNCHANGED <<ipc, orders, device>>
    BY <1>14 DEF Pressed, SendCommand, SessionInv, TypeInv
  <2>2. meant'[l] = IF mask[l] = "x" THEN meant[l] ELSE mask[l]
    BY <1>14 DEF Pressed, Merged
  <2> QED BY <1>0, <2>1, <2>2, SentFollows
<1>15. CASE Released
  <2>1. /\ requests' = Append(requests, Trigger(Inverted(mask))) /\ mask \in Texts
        /\ UNCHANGED <<ipc, orders, device>>
    BY <1>15 DEF Released, SendCommand, SessionInv, TypeInv
  <2>2. meant'[l] = IF mask[l] = "x" THEN meant[l] ELSE Opposite(mask[l])
    BY <1>15 DEF Released
  <2>3. Inverted(mask)[l] = IF mask[l] = "x" THEN "x" ELSE Opposite(mask[l])
    BY DEF Inverted
  <2>4. Opposite(mask[l]) # "x"
    BY DEF Opposite
  <2>5. meant'[l] = IF Inverted(mask)[l] = "x" THEN meant[l] ELSE Inverted(mask)[l]
    BY <2>2, <2>3, <2>4
  <2>6. Inverted(mask) \in Texts
    BY <2>1, Masking
  <2> QED BY <1>0, <2>1, <2>5, <2>6, SentFollows
<1>16. ASSUME NEW text \in Typed, TextChanged(text) PROVE Follows(l)'
  BY <1>16, <1>a DEF TextChanged
<1>17. CASE SetData
  <2>1. edit \in Texts
    BY <1>17 DEF SetData, SessionInv
  <2>2. CASE linked
    <3>1. /\ requests' = Append(requests, Trigger(edit))
          /\ UNCHANGED <<ipc, orders, device>>
          /\ meant' = Merged(meant, edit)
      BY <1>17, <2>2 DEF SetData, SendCommand
    <3>2. meant'[l] = IF edit[l] = "x" THEN meant[l] ELSE edit[l]
      BY <3>1 DEF Merged
    <3> QED BY <1>0, <2>1, <3>1, <3>2, SentFollows
  <2>3. CASE ~linked
    BY <1>17, <1>a, <2>3 DEF SetData, SendCommand
  <2> QED BY <2>2, <2>3
<1>18. CASE ResetData
  BY <1>18, <1>a DEF ResetData
<1>19. ASSUME NEW c \in ClientCommands, ClientSends(c) PROVE Follows(l)'
  <2>1. /\ requests' = Append(requests, c) /\ UNCHANGED <<meant, ipc, orders, device>>
        /\ requests \in Seq(Requests)
    BY <1>19 DEF ClientSends, SendCommand, TypeInv
  <2>2. c \in Requests
    BY CommandKinds
  <2>3. c \notin Moves(l)
    BY DEF ClientCommands, Moves, Triggers
  <2>4. /\ Quiet(requests, l) => Quiet(requests', l)
        /\ Sets(requests, l, v) => Sets(requests', l, v)
    BY <2>1, <2>2, <2>3, OtherQueued
  <2> QED BY <1>0, <2>1, <2>4 DEF Follows
<1> QED BY <1>1, <1>2, <1>3, <1>4, <1>5, <1>6, <1>7, <1>8, <1>9, <1>10, <1>11, <1>12,
           <1>13, <1>14, <1>15, <1>16, <1>17, <1>18, <1>19 DEF Next

-----------------------------------------------------------------------------
(* The row follows the device.                                              *)

\* A device that becomes d reports it if that is a change, and there is a driver.
LEMMA RowBecomes ==
  ASSUME TypeInv, RowInv, NEW d \in States, Becomes(d), UNCHANGED <<row, unreported>>
  PROVE  RowInv'
<1>1. CASE d # device /\ row # {}
  <2>1. wire \in Seq(States) /\ wire' = Append(wire, d) /\ device' = d
    BY <1>1 DEF Becomes, TypeInv
  <2>2. wire' # <<>> /\ wire'[Len(wire')] = device'
    BY <2>1
  <2> QED BY <1>1, <2>2 DEF RowInv
<1>2. CASE ~(d # device /\ row # {})
  <2>1. wire' = wire /\ (row # {} => device' = device)
    BY <1>2 DEF Becomes
  <2> QED BY <2>1 DEF RowInv
<1> QED BY <1>1, <1>2

LEMMA RowStep == ASSUME TypeInv, RowInv, Next PROVE RowInv'
<1> USE DEF still, node, core, server, panel, history, bounded
<1>a. ASSUME UNCHANGED <<device, wire, row, unreported>> PROVE RowInv'
  BY <1>a DEF RowInv
<1>1. ASSUME NEW d \in [code : Codes, src : Sources], DeviceChanges(d) PROVE RowInv'
  <2>1. d \in States /\ Becomes(d) /\ UNCHANGED <<row, unreported>>
    BY <1>1 DEF DeviceChanges, States
  <2> QED BY <2>1, RowBecomes
<1>2. CASE DeviceObeys
  <2> DEFINE c == Head(orders)
  <2>1. c \in Orders /\ UNCHANGED <<row, unreported>>
    BY <1>2, Queue DEF TypeInv, DeviceObeys
  <2>2. CASE c.op = "trigger"
    <3>1. c.arg \in Texts
      BY <2>1, <2>2 DEF Orders, Triggers
    <3>2. [device EXCEPT !.code = Merged(@, c.arg)] \in States
      BY <3>1, Masking DEF States, TypeInv
    <3>3. Becomes([device EXCEPT !.code = Merged(@, c.arg)])
      BY <1>2, <2>2 DEF DeviceObeys
    <3> QED BY <2>1, <3>2, <3>3, RowBecomes
  <2>3. CASE c.op # "trigger"
    <3>1. c.arg \in Sources
      BY <2>1, <2>3 DEF Orders, Triggers
    <3>2. [device EXCEPT !.src = c.arg] \in States
      BY <3>1 DEF States, TypeInv
    <3>3. Becomes([device EXCEPT !.src = c.arg])
      BY <1>2, <2>3 DEF DeviceObeys
    <3> QED BY <2>1, <3>2, <3>3, RowBecomes
  <2> QED BY <2>2, <2>3
<1>3. CASE StateChanged
  <2>1. /\ wire \in Seq(States) /\ wire # <<>> /\ wire' = Tail(wire)
        /\ row # {} /\ row' = {Head(wire)} /\ unreported' = FALSE /\ device' = device
        /\ wire[Len(wire)] = device
    <3>1. row # {}
      BY <1>3 DEF StateChanged, RowInv
    <3> QED BY <1>3, <3>1 DEF StateChanged, RowInv, TypeInv
  <2>2. CASE wire' = <<>>
    <3>1. Head(wire) = device
      <4>1. Len(wire) = 1
        <5>1. Len(Tail(wire)) = Len(wire) - 1 /\ Len(wire) \in Nat
          BY <2>1
        <5>2. Len(Tail(wire)) = 0
          <6>1. Tail(wire) = <<>>
            BY <2>1, <2>2
          <6>2. Len(<<>>) = 0
            OBVIOUS
          <6> QED BY <6>1, <6>2
        <5> QED BY <5>1, <5>2
      <4> QED BY <2>1, <4>1
    <3> QED BY <2>1, <2>2, <3>1 DEF RowInv
  <2>3. CASE wire' # <<>>
    <3>1. wire'[Len(wire')] = wire[Len(wire)]
      BY <2>1, <2>3
    <3> QED BY <2>1, <2>3, <3>1 DEF RowInv
  <2> QED BY <2>2, <2>3
<1>4. ASSUME NEW gpi \in AtFirst \cup {device.code}, NodeConnected(gpi) PROVE RowInv'
  <2>1. wire' = <<>> /\ device' = device /\ row' = {[device EXCEPT !.code = gpi]}
    BY <1>4 DEF NodeConnected, RowInv
  <2>2. [device EXCEPT !.code = gpi].src = device.src
        /\ [device EXCEPT !.code = gpi].code = gpi
    BY DEF TypeInv, States
  <2>3. ~unreported' => gpi = device.code
    BY <1>4 DEF NodeConnected, TypeInv
  <2> QED BY <2>1, <2>2, <2>3 DEF RowInv
<1>5. CASE NodeDisconnected
  BY <1>5 DEF NodeDisconnected, RowInv
<1>6. ASSUME NEW state \in BOOLEAN, SetWriteable(state) PROVE RowInv'
  BY <1>6, <1>a DEF SetWriteable
<1>7. CASE ProcessIpcCommand
  BY <1>7, <1>a DEF ProcessIpcCommand
<1>8. CASE Notified
  BY <1>8, <1>a DEF Notified
<1>9. CASE ProcessCommand
  BY <1>9, <1>a DEF ProcessCommand
<1>10. CASE Connect
  BY <1>10, <1>a DEF Connect
<1>11. CASE Started
  BY <1>11, <1>a DEF Started
<1>12. CASE Lost
  BY <1>12, <1>a DEF Lost
<1>13. CASE DispatchCommand
  BY <1>13, <1>a DEF DispatchCommand
<1>14. CASE Pressed
  BY <1>14, <1>a DEF Pressed
<1>15. CASE Released
  BY <1>15, <1>a DEF Released
<1>16. ASSUME NEW text \in Typed, TextChanged(text) PROVE RowInv'
  BY <1>16, <1>a DEF TextChanged
<1>17. CASE SetData
  BY <1>17, <1>a DEF SetData
<1>18. CASE ResetData
  BY <1>18, <1>a DEF ResetData
<1>19. ASSUME NEW c \in ClientCommands, ClientSends(c) PROVE RowInv'
  BY <1>19, <1>a DEF ClientSends
<1> QED BY <1>1, <1>2, <1>3, <1>4, <1>5, <1>6, <1>7, <1>8, <1>9, <1>10, <1>11, <1>12,
           <1>13, <1>14, <1>15, <1>16, <1>17, <1>18, <1>19 DEF Next

-----------------------------------------------------------------------------
(* The client follows the row.                                              *)

\* A step that takes nothing from the client's way, and may queue notifications and
\* requests, or make the client unsure.
LEMMA ShownStill ==
  ASSUME ShowInv, linked' = linked \/ ~linked', UNCHANGED <<row, replies, known, shown>>,
         unsure \subseteq unsure',
         \A what \in Whats : Holds(notes, what) => Holds(notes', what),
         Holds(requests, ListRequest) => Holds(requests', ListRequest)
  PROVE  ShowInv'
<1> SUFFICES ASSUME linked', NEW r \in row PROVE Shows(r)'
  BY DEF ShowInv
<1>1. Shows(r)
  BY DEF ShowInv
<1> QED BY <1>1 DEF Shows, Whats

LEMMA ShowStep == ASSUME TypeInv, SessionInv, ShowInv, RowInv, Next PROVE ShowInv'
<1> USE DEF still, node, core, server, panel, history, bounded
<1>a. ASSUME UNCHANGED <<linked, row, replies, known, shown, unsure, notes>>,
             \/ requests' = requests
             \/ \E c \in Requests : requests' = Append(requests, c)
      PROVE  ShowInv'
  <2>1. requests \in Seq(Requests)
    BY DEF TypeInv
  <2>2. CASE requests' = requests
    BY <1>a, <2>2, ShownStill
  <2>3. CASE \E c \in Requests : requests' = Append(requests, c)
    <3>1. PICK c \in Requests : requests' = Append(requests, c)
      BY <2>3
    <3>2. Holds(Append(requests, c), ListRequest) <=> Holds(requests, ListRequest) \/ c = ListRequest
      BY <2>1, HoldsAppend
    <3>3. Holds(requests, ListRequest) => Holds(requests', ListRequest)
      BY <3>1, <3>2, Zenon
    <3> QED BY <1>a, <3>3, ShownStill
  <2> QED BY <1>a, <2>2, <2>3
<1>1. ASSUME NEW d \in [code : Codes, src : Sources], DeviceChanges(d) PROVE ShowInv'
  BY <1>1, <1>a DEF DeviceChanges
<1>2. CASE DeviceObeys
  BY <1>2, <1>a DEF DeviceObeys
<1>3. CASE StateChanged
  <2>0. PICK n \in States : n = Head(wire)
    BY <1>3, Queue DEF StateChanged, TypeInv
  <2>1. PICK r \in States : row = {r}
    BY <1>3 DEF StateChanged, RowInv, TypeInv, RowType
  <2>2. row' = {n} /\ n \in States /\ notes' = notes \o Changes(n)
        /\ UNCHANGED <<linked, requests, replies, known, shown, unsure>>
    BY <1>3, <2>0, <2>1 DEF StateChanged, TypeInv
  <2>3. Changes(n) = (IF r.src # n.src THEN <<"route">> ELSE <<>>)
                     \o (IF r.code # n.code THEN <<"code">> ELSE <<>>)
    BY <2>1 DEF Changes
  <2>4. /\ \A what \in Whats : Holds(notes, what) => Holds(notes', what)
        /\ r.src # n.src => Holds(notes', "route")
        /\ r.code # n.code => Holds(notes', "code")
    <3>1. notes \in Seq(Whats) /\ "route" \in Whats /\ "code" \in Whats
      BY DEF TypeInv, Whats
    <3>2. CASE r.src # n.src /\ r.code # n.code
      <4>1. notes' = Append(Append(notes, "route"), "code")
        <5>1. Changes(n) = <<"route">> \o <<"code">>
          BY <2>3, <3>2
        <5> QED BY <2>2, <3>1, <5>1
      <4>2. Append(notes, "route") \in Seq(Whats)
        BY <3>1
      <4>3. \A what \in Whats : Holds(Append(notes, "route"), what)
                                  <=> Holds(notes, what) \/ "route" = what
        BY <3>1, HoldsAppend
      <4>4. \A what \in Whats : Holds(notes', what)
                                  <=> Holds(Append(notes, "route"), what) \/ "code" = what
        <5>1. \A what \in Whats : Holds(Append(Append(notes, "route"), "code"), what)
                                    <=> Holds(Append(notes, "route"), what) \/ "code" = what
          BY <3>1, <4>2, HoldsAppend
        <5> QED BY <4>1, <5>1
      <4> QED BY <3>1, <4>3, <4>4
    <3>3. CASE r.src # n.src /\ r.code = n.code
      <4>1. notes' = Append(notes, "route")
        <5>1. Changes(n) = <<"route">> \o <<>>
          BY <2>3, <3>3
        <5> QED BY <2>2, <3>1, <5>1
      <4>2. \A what \in Whats : Holds(notes', what) <=> Holds(notes, what) \/ "route" = what
        BY <3>1, <4>1, HoldsAppend
      <4> QED BY <3>1, <3>3, <4>2
    <3>4. CASE r.src = n.src /\ r.code # n.code
      <4>1. notes' = Append(notes, "code")
        <5>1. Changes(n) = <<>> \o <<"code">>
          BY <2>3, <3>4
        <5> QED BY <2>2, <3>1, <5>1
      <4>2. \A what \in Whats : Holds(notes', what) <=> Holds(notes, what) \/ "code" = what
        BY <3>1, <4>1, HoldsAppend
      <4> QED BY <3>1, <3>4, <4>2
    <3>5. CASE r.src = n.src /\ r.code = n.code
      <4>1. notes' = notes
        <5>1. Changes(n) = <<>> \o <<>>
          BY <2>3, <3>5
        <5> QED BY <2>2, <3>1, <5>1
      <4> QED BY <3>5, <4>1
    <3> QED BY <3>2, <3>3, <3>4, <3>5
  <2>5. SUFFICES ASSUME linked PROVE Shows(n)'
    BY <2>2 DEF ShowInv
  <2>6. Shows(r)
    BY <2>1, <2>5 DEF ShowInv
  <2>7. /\ r.code = n.code => CodeReports(r) = CodeReports(n)
        /\ r.src = n.src => SrcReports(r) = SrcReports(n)
    BY DEF CodeReports, SrcReports
  <2>8. \/ "code" \in unsure' \/ Holds(notes', "code") \/ Holds(requests', ListRequest)
        \/ LastIn(replies', ReportsOf("code"), CodeReports(n))
        \/ NoneIn(replies', ReportsOf("code")) /\ known'.code = n.code /\ shown' = n.code
    BY <2>2, <2>4, <2>6, <2>7 DEF Shows, Whats
  <2>9. \/ "route" \in unsure' \/ Holds(notes', "route") \/ Holds(requests', ListRequest)
        \/ LastIn(replies', ReportsOf("route"), SrcReports(n))
        \/ NoneIn(replies', ReportsOf("route")) /\ known'.src = n.src
    BY <2>2, <2>4, <2>6, <2>7 DEF Shows, Whats
  <2>10. n \in row' /\ \A x \in row' : x = n
    BY <2>2
  <2> QED BY <2>8, <2>9, <2>10 DEF Shows
<1>4. ASSUME NEW gpi \in AtFirst \cup {device.code}, NodeConnected(gpi) PROVE ShowInv'
  BY <1>4 DEF NodeConnected, ShowInv, Shows
<1>5. CASE NodeDisconnected
  BY <1>5 DEF NodeDisconnected, ShowInv
<1>6. ASSUME NEW state \in BOOLEAN, SetWriteable(state) PROVE ShowInv'
  BY <1>6, <1>a DEF SetWriteable
<1>7. CASE ProcessIpcCommand
  BY <1>7, <1>a DEF ProcessIpcCommand
<1>8. CASE Notified
  <2> DEFINE h == Head(notes)
  <2>1. /\ notes \in Seq(Whats) /\ notes # <<>> /\ notes' = Tail(notes) /\ h \in Whats
        /\ UNCHANGED <<linked, row, requests, known, shown>>
    BY <1>8, Queue DEF Notified, TypeInv
  <2>2. SUFFICES ASSUME linked, NEW r \in row PROVE Shows(r)'
    BY <2>1 DEF ShowInv
  <2>3. Shows(r) /\ r \in States /\ row = {r}
    BY <2>2 DEF ShowInv, TypeInv, RowType
  <2>4. \A what \in Whats : Holds(notes, what) => Holds(notes', what) \/ h = what
    BY <2>1, HoldsTail
  <2>5. CASE h \in masked
    <3>1. unsure' = unsure \cup {h} /\ replies' = replies
      BY <1>8, <2>5 DEF Notified
    <3> QED BY <2>1, <2>3, <2>4, <3>1 DEF Shows, Whats
  <2>6. CASE h \notin masked
    <3> DEFINE e == [op |-> h, arg |-> r]
    <3>1. replies' = Append(replies, e) /\ unsure' = unsure \ {h}
      <4>1. replies' = replies \o Stat(h) /\ unsure' = Told({h})
        BY <1>8, <2>2, <2>6 DEF Notified
      <4>2. replies \o Stat(h) = Append(replies, e)
        BY <2>1, <2>2, Reported DEF TypeInv
      <4> QED BY <2>3, <4>1, <4>2 DEF Told
    <3>2. /\ e \in Reports /\ e.op = h /\ e.arg = r /\ replies \in Seq(Reports)
          /\ e \in CodeReports(r) /\ e \in SrcReports(r)
          /\ \A what \in Whats : e \in ReportsOf(what) <=> h = what
      BY <2>1, <2>3 DEF Reports, CodeReports, SrcReports, ReportsOf, TypeInv
    <3>3. /\ LastIn(replies', ReportsOf(h), CodeReports(r))
          /\ LastIn(replies', ReportsOf(h), SrcReports(r))
      BY <2>1, <3>1, <3>2, EndsAppendIn
    <3>4. ASSUME NEW what \in Whats, what # h, NEW E
          PROVE  /\ NoneIn(replies, ReportsOf(what)) => NoneIn(replies', ReportsOf(what))
                 /\ LastIn(replies, ReportsOf(what), E) => LastIn(replies', ReportsOf(what), E)
      BY <3>1, <3>2, <3>4, EndsAppendOut
    <3>5. CASE h = "code"
      <4>1. /\ NoneIn(replies, ReportsOf("route")) => NoneIn(replies', ReportsOf("route"))
            /\ LastIn(replies, ReportsOf("route"), SrcReports(r))
                 => LastIn(replies', ReportsOf("route"), SrcReports(r))
            /\ Holds(notes, "route") => Holds(notes', "route")
            /\ "route" \in unsure => "route" \in unsure'
        BY <2>4, <3>1, <3>4, <3>5 DEF Whats
      <4> QED BY <2>1, <2>3, <3>3, <3>5, <4>1 DEF Shows
    <3>6. CASE h = "route"
      <4>1. /\ NoneIn(replies, ReportsOf("code")) => NoneIn(replies', ReportsOf("code"))
            /\ LastIn(replies, ReportsOf("code"), CodeReports(r))
                 => LastIn(replies', ReportsOf("code"), CodeReports(r))
            /\ Holds(notes, "code") => Holds(notes', "code")
            /\ "code" \in unsure => "code" \in unsure'
        BY <2>4, <3>1, <3>4, <3>6 DEF Whats
      <4> QED BY <2>1, <2>3, <3>3, <3>6, <4>1 DEF Shows
    <3> QED BY <2>1, <3>5, <3>6 DEF Whats
  <2> QED BY <2>5, <2>6
<1>9. CASE ProcessCommand
  <2> DEFINE c == Head(requests)
  <2>1. /\ requests \in Seq(Requests) /\ requests # <<>> /\ requests' = Tail(requests)
        /\ c \in Requests
        /\ UNCHANGED <<linked, row, notes, known, shown>>
    BY <1>9, Queue DEF TypeInv, ProcessCommand
  <2>2. CASE SendInfo(c)
    <3>1. SUFFICES ASSUME linked, NEW r \in row PROVE Shows(r)'
      BY <2>1 DEF ShowInv
    <3>2. r \in States /\ replies \in Seq(Reports)
      BY DEF TypeInv, RowType
    <3> DEFINE a == [op |-> "route", arg |-> r]
               b == [op |-> "code", arg |-> r]
    <3>3. replies \o Stat("route") = Append(replies, a)
      BY <3>1, <3>2, Reported DEF Whats
    <3>4. /\ a \in Reports /\ b \in Reports /\ Append(replies, a) \in Seq(Reports)
          /\ a \in ReportsOf("route") /\ a \in SrcReports(r)
          /\ b \in ReportsOf("code") /\ b \in CodeReports(r) /\ b \notin ReportsOf("route")
      BY <3>2 DEF Reports, ReportsOf, Whats, SrcReports, CodeReports
    <3>5. Append(replies, a) \o Stat("code") = Append(Append(replies, a), b)
      BY <3>1, <3>4, Reported DEF Whats
    <3>6. replies' = Append(Append(replies, a), b)
      BY <2>2, <3>3, <3>5 DEF SendInfo
    <3>7. LastIn(replies', ReportsOf("code"), CodeReports(r))
      BY <3>4, <3>6, EndsAppendIn
    <3>8. LastIn(Append(replies, a), ReportsOf("route"), SrcReports(r))
      BY <3>2, <3>4, EndsAppendIn
    <3>9. LastIn(replies', ReportsOf("route"), SrcReports(r))
      BY <3>4, <3>6, <3>8, EndsAppendOut
    <3> QED BY <3>7, <3>9 DEF Shows
  <2>3. CASE TriggerGpio(c) \/ DrouterMaskStat(c)
    <3>1. c.op # "list" /\ UNCHANGED <<replies, unsure>>
      BY <2>3 DEF TriggerGpio, DrouterMaskStat
    <3>2. c # ListRequest
      <4>1. ListRequest.op = "list"
        BY DEF ListRequest
      <4> QED BY <3>1, <4>1
    <3>3. Holds(requests, ListRequest) => Holds(requests', ListRequest)
      BY <2>1, <3>2, HoldsTail
    <3> QED BY <2>1, <3>1, <3>3, ShownStill
  <2> QED BY <1>9, <2>2, <2>3 DEF ProcessCommand
<1>10. CASE Connect
  <2>1. requests' = <<ListRequest>>
    BY <1>10 DEF Connect, ListRequest
  <2>2. Holds(requests', ListRequest)
    BY <2>1 DEF Holds
  <2> QED BY <2>2 DEF ShowInv, Shows
<1>11. CASE Started
  BY <1>11, <1>a DEF Started
<1>12. CASE Lost
  BY <1>12 DEF Lost, ShowInv
<1>13. CASE DispatchCommand
  <2> DEFINE e == Head(replies)
  <2>1. /\ replies \in Seq(Reports) /\ replies # <<>> /\ replies' = Tail(replies)
        /\ e \in Reports
        /\ UNCHANGED <<linked, row, notes, requests, unsure>>
    BY <1>13, Queue DEF TypeInv, DispatchCommand
  <2>2. SUFFICES ASSUME linked, NEW r \in row PROVE Shows(r)'
    BY <2>1 DEF ShowInv
  <2>3. Shows(r)
    BY <2>2 DEF ShowInv
  <2>4. ASSUME NEW D, NEW E
        PROVE  /\ NoneIn(replies, D) => NoneIn(replies', D) /\ e \notin D
               /\ LastIn(replies, D, E) => \/ LastIn(replies', D, E)
                                           \/ NoneIn(replies', D) /\ e \in D /\ e \in E
    BY <2>1, EndsTail
  <2>5. CASE GpioStat(e)
    <3>1. known'.code = e.arg.code /\ known'.src = known.src /\ shown' = e.arg.code
      BY <2>5 DEF GpioStat, TypeInv
    <3>2. e \in CodeReports(r) => e.arg.code = r.code
      BY DEF CodeReports
    <3>3. e \in ReportsOf("code") /\ e \notin ReportsOf("route")
      BY <2>1, <2>5 DEF GpioStat, ReportsOf
    <3>4. /\ NoneIn(replies, ReportsOf("route")) => NoneIn(replies', ReportsOf("route"))
          /\ LastIn(replies, ReportsOf("route"), SrcReports(r))
               => LastIn(replies', ReportsOf("route"), SrcReports(r))
      BY <2>4, <3>3
    <3>5. /\ ~NoneIn(replies, ReportsOf("code"))
          /\ LastIn(replies, ReportsOf("code"), CodeReports(r))
               => \/ LastIn(replies', ReportsOf("code"), CodeReports(r))
                  \/ NoneIn(replies', ReportsOf("code")) /\ e.arg.code = r.code
      BY <2>4, <3>2, <3>3
    <3> QED BY <2>1, <2>3, <3>1, <3>4, <3>5 DEF Shows
  <2>6. CASE RouteStat(e)
    <3>1. known'.code = known.code /\ known'.src = e.arg.src /\ shown' = shown
      BY <2>6 DEF RouteStat, TypeInv
    <3>2. e \in SrcReports(r) => e.arg.src = r.src
      BY DEF SrcReports
    <3>3. e \in ReportsOf("route") /\ e \notin ReportsOf("code")
      BY <2>1, <2>6 DEF RouteStat, ReportsOf
    <3>4. /\ NoneIn(replies, ReportsOf("code")) => NoneIn(replies', ReportsOf("code"))
          /\ LastIn(replies, ReportsOf("code"), CodeReports(r))
               => LastIn(replies', ReportsOf("code"), CodeReports(r))
      BY <2>4, <3>3
    <3>5. /\ ~NoneIn(replies, ReportsOf("route"))
          /\ LastIn(replies, ReportsOf("route"), SrcReports(r))
               => \/ LastIn(replies', ReportsOf("route"), SrcReports(r))
                  \/ NoneIn(replies', ReportsOf("route")) /\ e.arg.src = r.src
      BY <2>4, <3>2, <3>3
    <3> QED BY <2>1, <2>3, <3>1, <3>4, <3>5 DEF Shows
  <2> QED BY <1>13, <2>5, <2>6 DEF DispatchCommand
<1>14. CASE Pressed
  <2>1. Trigger(mask) \in Requests
    BY Masking DEF Requests, Orders, TypeInv
  <2>2. requests' = requests \/ requests' = Append(requests, Trigger(mask))
    BY <1>14 DEF Pressed, SendCommand
  <2> QED BY <1>14, <1>a, <2>1, <2>2 DEF Pressed
<1>15. CASE Released
  <2>1. Trigger(Inverted(mask)) \in Requests
    BY Masking DEF Requests, Orders, TypeInv
  <2>2. requests' = requests \/ requests' = Append(requests, Trigger(Inverted(mask)))
    BY <1>15 DEF Released, SendCommand
  <2> QED BY <1>15, <1>a, <2>1, <2>2 DEF Released
<1>16. ASSUME NEW text \in Typed, TextChanged(text) PROVE ShowInv'
  BY <1>16, <1>a DEF TextChanged
<1>17. CASE SetData
  <2>1. Trigger(edit) \in Requests
    BY <1>17, Masking DEF Requests, Orders, SetData, SessionInv
  <2>2. requests' = requests \/ requests' = Append(requests, Trigger(edit))
    BY <1>17 DEF SetData, SendCommand
  <2> QED BY <1>17, <1>a, <2>1, <2>2 DEF SetData
<1>18. CASE ResetData
  BY <1>18, <1>a DEF ResetData
<1>19. ASSUME NEW c \in ClientCommands, ClientSends(c) PROVE ShowInv'
  <2>1. c \in Requests
    BY CommandKinds
  <2>2. requests' = requests \/ requests' = Append(requests, c)
    BY <1>19 DEF ClientSends, SendCommand
  <2> QED BY <1>19, <1>a, <2>1, <2>2 DEF ClientSends
<1> QED BY <1>1, <1>2, <1>3, <1>4, <1>5, <1>6, <1>7, <1>8, <1>9, <1>10, <1>11, <1>12,
           <1>13, <1>14, <1>15, <1>16, <1>17, <1>18, <1>19 DEF Next

-----------------------------------------------------------------------------
(* The theorems.                                                            *)

LEMMA IInvInit == ASSUME Init PROVE IInv
<1>1. TypeInv
  <2>1. Nothing \in Texts
    BY DEF Nothing, Texts
  <2>2. device \in States
    BY GpioAssumption DEF Init, States, Sources
  <2>3. mask \in Texts /\ line \in {"i", "o"}
    BY GpioAssumption DEF Init, FromString, Direction
  <2>4. DOMAIN known = {"code", "src"}
    <3>1. known = Nowhere
      BY DEF Init
    <3>2. DOMAIN Nowhere = {"code", "src"}
      BY Zenon DEF Nowhere
    <3> QED BY <3>1, <3>2
  <2>5. /\ wire \in Seq(States) /\ notes \in Seq(Whats) /\ orders \in Seq(Orders)
        /\ ipc \in Seq(Orders) /\ requests \in Seq(Requests) /\ replies \in Seq(Reports)
    BY DEF Init
  <2>6. RowType
    BY DEF Init, RowType
  <2>7. meant \in Texts /\ unsure \subseteq Whats /\ unreported \in BOOLEAN
    BY <2>1 DEF Init
  <2> QED BY <2>2, <2>3, <2>4, <2>5, <2>6, <2>7 DEF TypeInv
<1>2. SessionInv
  BY DEF Init, SessionInv
<1>3. LinesInv
  BY DEF Init, LinesInv, Follows, Nothing
<1>4. RowInv /\ ShowInv
  BY DEF Init, RowInv, ShowInv
<1> QED BY <1>1, <1>2, <1>3, <1>4 DEF IInv

LEMMA IInvStep == ASSUME IInv, [Next]_vars PROVE IInv'
<1>1. CASE Next
  BY <1>1, TypeStep, SessionStep, LinesStep, RowStep, ShowStep DEF IInv
<1>2. CASE UNCHANGED vars
  <2> USE <1>2 DEF vars, still, node, core, server, panel, history, bounded, IInv
  <2>1. TypeInv'
    BY DEF TypeInv, RowType
  <2>2. SessionInv'
    BY DEF SessionInv
  <2>3. LinesInv'
    BY DEF LinesInv, Follows
  <2>4. RowInv'
    BY DEF RowInv
  <2>5. ShowInv'
    BY DEF ShowInv, Shows
  <2> QED BY <2>1, <2>2, <2>3, <2>4, <2>5
<1> QED BY <1>1, <1>2

\* The driver's reports, dprotod's notifications and lists and the client's commands are
\* always where the messages say they are: the inductive invariant of the bundle.
THEOREM GpioInvariant == Spec => []IInv
<1>1. Init => IInv
  BY IInvInit
<1>2. IInv /\ [Next]_vars => IInv'
  BY IInvStep
<1> QED BY <1>1, <1>2, PTL DEF Spec

\* When nothing is on its way a connected client shows the device's levels and source
\* (ProtocolSa reads the row anew for each report, so a report that overtakes another
\* tells the same), with the two exceptions nodeConnectedData and the masks make.
THEOREM ClientShowsDevice == Spec => []ShowsDevice
<1>1. IInv => ShowsDevice
  <2> SUFFICES ASSUME IInv, Settled, linked, row # {}
               PROVE  /\ "code" \notin unsure /\ ~unreported
                           => known.code = device.code /\ shown = device.code
                      /\ "route" \notin unsure => known.src = device.src
    BY DEF ShowsDevice, Lit
  <2>1. PICK r \in row : TRUE
    OBVIOUS
  <2>2. Shows(r)
    BY DEF IInv, ShowInv
  <2>3. r.src = device.src /\ (~unreported => r.code = device.code)
    BY DEF IInv, RowInv, Settled
  <2>4. /\ ~Holds(notes, "code") /\ ~Holds(notes, "route") /\ ~Holds(requests, ListRequest)
        /\ \A D, E : ~LastIn(replies, D, E)
    BY DEF Settled, Holds, LastIn
  <2> QED BY <2>2, <2>3, <2>4 DEF Shows
<1> QED BY <1>1, GpioInvariant, PTL

\* When nothing is on its way each line has the level commanded last: the mask a button
\* sends as it is released undoes what it sent as it was pressed (c_inverted_mask), and
\* drouterd and the driver keep the commands' order.
THEOREM LinesFollowCommands == Spec => []LinesFollow
<1>1. IInv => LinesFollow
  <2> SUFFICES ASSUME IInv, Settled, NEW l \in Lines, meant[l] # "x"
               PROVE  device.code[l] = meant[l]
    BY DEF LinesFollow
  <2>1. Follows(l)
    BY DEF IInv, LinesInv
  <2>2. /\ ~Sets(requests, l, meant[l]) /\ ~Sets(ipc, l, meant[l])
        /\ ~Sets(orders, l, meant[l])
    BY EndsEmpty DEF Settled, Sets
  <2> QED BY <2>1, <2>2 DEF Follows
<1> QED BY <1>1, GpioInvariant, PTL

=============================================================================
